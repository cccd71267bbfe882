-------------------------------- MODULE Heap --------------------------------
(***************************************************************************)
(* The heap of the kernel (stdlib.c; the library has a copy of it for       *)
(* programs).  Memory comes from the virtual memory manager in whole pages  *)
(* and is never given back to it; blocks are described by nodes which live  *)
(* in pages of their own.                                                   *)
(*                                                                         *)
(* The lists of nodes are sets of blocks: malloc may take any free block    *)
(* that is large enough (the code takes the first of its list), and a freed *)
(* block may be merged with its neighbours in any order.  The turns of      *)
(* merge_into_frees's loop are actions; nothing else happens in between,    *)
(* since the kernel runs with interrupts off.                               *)
(***************************************************************************)
EXTENDS Integers, FiniteSets

CONSTANTS
    Sizes,          \* the sizes asked for
    PageNumbers,    \* bound: the pages the memory manager has to offer
    NodesPerPage,   \* nodes that allocate_unused_nodes makes of a page
    MaxBlocks       \* bound on the blocks in use at one time

PAGESIZE == 4096

ASSUME SizesAssumption == Sizes \subseteq Nat \ {0}
ASSUME PagesAssumption == PageNumbers \subseteq Nat \ {0}
ASSUME NodesAssumption == NodesPerPage \in Nat \ {0, 1}

VARIABLES
    first_used, first_free,     \* the blocks in use and the free ones
    first_unused,               \* how many nodes describe no block
    arenas, node_pages,         \* the pages got for blocks, and for nodes
    malloced,                   \* the statistics counter
    tf                          \* the block merge_into_frees is working on

vars == <<first_used, first_free, first_unused, arenas, node_pages, malloced, tf>>

Block(address, size) == [address |-> address, size |-> size]

NoBlock == Block(0, 0)

End(b) == b.address + b.size

Apart(b, c) == End(b) <= c.address \/ End(c) <= b.address

Init ==
    /\ first_used = {} /\ first_free = {} /\ first_unused = 0
    /\ arenas = {} /\ node_pages = {}
    /\ malloced = 0 /\ tf = NoBlock

-----------------------------------------------------------------------------
(* vmm_alloc_cont(count): pages in a row that the memory manager still has. *)
Run(n, count) == n .. n + count - 1

Given(run, taken) == run \subseteq PageNumbers \ taken

(* pop_unused_node, count times; taken: the pages the heap has by then.     *)
PopNodes(count, taken) ==
    IF first_unused >= count
    THEN /\ first_unused' = first_unused - count
         /\ UNCHANGED node_pages
    ELSE \E n \in PageNumbers :
         /\ Given({n}, taken)
         /\ node_pages' = node_pages \cup {n}
         /\ first_unused' = first_unused + NodesPerPage - count

(* Mutant: a partly used page is not counted.                               *)
PagesFor_Down(size) == size \div PAGESIZE

PagesFor(size) ==
    IF size % PAGESIZE = 0 THEN size \div PAGESIZE ELSE size \div PAGESIZE + 1

(* What is left of a region behind the block cut from its front.            *)
Rest(region, size) ==
    IF region.size = size THEN {}
    ELSE {Block(region.address + size, region.size - size)}

Fits(b, size) == b.size >= size

(* malloc when no free block is large enough.                               *)
malloc_fresh(size) ==
    /\ \A b \in first_free : ~Fits(b, size)
    /\ \E n \in PageNumbers :
         LET run    == Run(n, PagesFor(size))
             region == Block(n * PAGESIZE, PagesFor(size) * PAGESIZE)
         IN /\ Given(run, arenas \cup node_pages)
            /\ arenas' = arenas \cup run
            /\ first_used' = first_used \cup {Block(region.address, size)}
            /\ first_free' = first_free \cup Rest(region, size)
            /\ PopNodes(1 + Cardinality(Rest(region, size)), arenas \cup node_pages \cup run)

(* Mutant: the reused block keeps its size (cur->size = size forgotten).    *)
Cut_Whole(cur, size) == cur

Cut(cur, size) == Block(cur.address, size)

(* malloc from a free block.                                                *)
malloc_reuse(size) ==
    \E cur \in first_free :
        /\ Fits(cur, size)
        /\ first_used' = first_used \cup {Cut(cur, size)}
        /\ first_free' = (first_free \ {cur}) \cup Rest(cur, size)
        /\ PopNodes(Cardinality(Rest(cur, size)), arenas \cup node_pages)
        /\ UNCHANGED arenas

malloc(size) ==
    /\ tf = NoBlock
    /\ Cardinality(first_used) < MaxBlocks
    /\ malloced' = malloced + size
    /\ malloc_fresh(size) \/ malloc_reuse(size)
    /\ UNCHANGED tf

(* Mutant: the counter is not lowered.                                      *)
Uncounted_Kept(b) == malloced

Uncounted(b) == malloced - b.size

(* free: of a pointer that is no block in use nothing happens.              *)
free(b) ==
    /\ tf = NoBlock /\ b \in first_used
    /\ malloced' = Uncounted(b)
    /\ first_used' = first_used \ {b}
    /\ tf' = b
    /\ UNCHANGED <<first_free, first_unused, arenas, node_pages>>

(***************************************************************************)
(* merge_into_frees.  A neighbour below gives tf its address, but not its   *)
(* size; the nodes of merged neighbours are forgotten.                      *)
(***************************************************************************)
Below(cur) == End(cur) = tf.address
Above(cur) == cur.address = End(tf)

(* Mutant: the neighbour above is merged but stays in the free list.        *)
Unlinked_Above(cur) == IF Above(cur) THEN first_free ELSE first_free \ {cur}

Unlinked(cur) == first_free \ {cur}

MergeBelow(cur) ==
    /\ tf # NoBlock /\ cur \in first_free /\ Below(cur)
    /\ tf' = Block(cur.address, tf.size)
    /\ first_free' = Unlinked(cur)
    /\ UNCHANGED <<first_used, first_unused, arenas, node_pages, malloced>>

MergeAbove(cur) ==
    /\ tf # NoBlock /\ cur \in first_free /\ Above(cur)
    /\ tf' = Block(tf.address, tf.size + cur.size)
    /\ first_free' = Unlinked(cur)
    /\ UNCHANGED <<first_used, first_unused, arenas, node_pages, malloced>>

MergeDone ==
    /\ tf # NoBlock
    /\ \A cur \in first_free : ~Below(cur) /\ ~Above(cur)
    /\ first_free' = first_free \cup {tf}
    /\ tf' = NoBlock
    /\ UNCHANGED <<first_used, first_unused, arenas, node_pages, malloced>>

Next ==
    \/ \E size \in Sizes : malloc(size)
    \/ \E b \in first_used : free(b)
    \/ \E cur \in first_free : MergeBelow(cur) \/ MergeAbove(cur)
    \/ MergeDone

Spec == Init /\ [][Next]_vars

-----------------------------------------------------------------------------
BlockType == [address : Nat \ {0}, size : Nat \ {0}]

(* No block is empty or at the null pointer, what the heap got are pages,   *)
(* and the stock of nodes never runs below zero inside malloc.              *)
TypeOK ==
    /\ first_used \subseteq BlockType /\ first_free \subseteq BlockType
    /\ arenas \subseteq PageNumbers /\ node_pages \subseteq PageNumbers
    /\ first_unused \in Nat
    /\ tf \in BlockType \cup {NoBlock}

(* No byte belongs to two of: the blocks in use, the free blocks, the block *)
(* being freed and the pages of nodes, after any history of splitting,      *)
(* merging and reuse; and each block lies within pages the heap got.        *)
Merging == IF tf = NoBlock THEN {} ELSE {tf}

PagesOf(b) == b.address \div PAGESIZE .. (End(b) - 1) \div PAGESIZE

BlocksDisjoint ==
    /\ \A b, c \in first_used \cup first_free \cup Merging : b # c => Apart(b, c)
    /\ first_used \cap first_free = {} /\ tf \notin first_used \cup first_free
    /\ \A b \in first_used \cup first_free \cup Merging : PagesOf(b) \subseteq arenas
    /\ arenas \cap node_pages = {}

(* malloc and free are the abstract allocator: splitting and merging never  *)
(* show in what callers get.                                                *)
AbstractHeap == INSTANCE Allocator WITH inUse <- first_used

ImplementsAllocator == AbstractHeap!ASpec
=============================================================================
