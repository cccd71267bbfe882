----------------------------- MODULE HeapProofs -----------------------------
(***************************************************************************)
(* Proofs about the heap: the blocks in use, the free blocks and the pages  *)
(* of nodes never share a byte, and malloc and free are the abstract        *)
(* allocator, for every set of sizes and of pages.                          *)
(***************************************************************************)
EXTENDS MCHeap, FiniteSetTheorems, WellFoundedInduction, TLAPS

Inv == TypeOK /\ BlocksDisjoint

-----------------------------------------------------------------------------
(* Blocks on different pages share no byte.                                 *)
LEMMA PagesApart ==
    ASSUME NEW b \in BlockType, NEW c \in BlockType,
           PagesOf(b) \cap PagesOf(c) = {}
    PROVE  Apart(b, c)
<1> DEFINE bl == b.address \div PAGESIZE
           bh == (End(b) - 1) \div PAGESIZE
           cl == c.address \div PAGESIZE
           ch == (End(c) - 1) \div PAGESIZE
<1>1. bl \in Nat /\ bh \in Nat /\ cl \in Nat /\ ch \in Nat /\ bl <= bh /\ cl <= ch
  BY DEF BlockType, End, PAGESIZE
<1>2. (bl .. bh) \cap (cl .. ch) = {}
  BY DEF PagesOf
<1>3. bh < cl \/ ch < bl
  <2> HIDE DEF bl, bh, cl, ch
  <2>1. cl \notin bl .. bh \/ cl \notin cl .. ch
    BY <1>2
  <2>2. bl \notin bl .. bh \/ bl \notin cl .. ch
    BY <1>2
  <2> QED BY <1>1, <2>1, <2>2
<1> QED BY <1>3 DEF BlockType, End, PAGESIZE, Apart

(* A block cut from the front of a fresh run of pages, and what is left.    *)
LEMMA FreshBlocks ==
    ASSUME NEW n \in Nat \ {0}, NEW size \in Nat \ {0}
    PROVE  LET pages  == PagesFor(size)
               region == Block(n * PAGESIZE, pages * PAGESIZE)
               new    == Block(region.address, size)
           IN /\ new \in BlockType
              /\ PagesOf(new) \subseteq Run(n, pages)
              /\ \A rest \in Rest(region, size) :
                     /\ rest \in BlockType
                     /\ PagesOf(rest) \subseteq Run(n, pages)
                     /\ Apart(new, rest)
<1> DEFINE pages == PagesFor(size)
<1>1. pages \in Nat /\ size <= pages * 4096 /\ (pages - 1) * 4096 < size
  BY DEF PagesFor, PAGESIZE
<1> HIDE DEF pages
<1>2. Block(n * 4096, size) \in BlockType
  BY DEF Block, BlockType
<1>3. PagesOf(Block(n * 4096, size)) \subseteq Run(n, pages)
  BY <1>1 DEF PagesOf, Run, Block, End, PAGESIZE
<1>4. ASSUME NEW rest \in Rest(Block(n * 4096, pages * 4096), size)
      PROVE  /\ rest \in BlockType
             /\ PagesOf(rest) \subseteq Run(n, pages)
             /\ Apart(Block(n * 4096, size), rest)
  <2>1. size # pages * 4096 /\ rest = Block(n * 4096 + size, pages * 4096 - size)
    BY <1>4 DEF Rest, Block
  <2>2. rest \in BlockType
    BY <1>1, <2>1 DEF Block, BlockType
  <2>3. PagesOf(rest) \subseteq Run(n, pages)
    BY <1>1, <2>1 DEF PagesOf, Run, Block, End, PAGESIZE
  <2>4. Apart(Block(n * 4096, size), rest)
    BY <1>1, <2>1 DEF Apart, Block, End
  <2> QED BY <2>2, <2>3, <2>4
<1> QED BY <1>2, <1>3, <1>4 DEF pages, Block, PAGESIZE

(* A block within another one has its pages, and keeps its distance.        *)
LEMMA Within ==
    ASSUME NEW b \in BlockType, NEW c \in BlockType,
           c.address <= b.address, End(b) <= End(c)
    PROVE  /\ PagesOf(b) \subseteq PagesOf(c)
           /\ \A d \in BlockType : Apart(c, d) => Apart(b, d) /\ Apart(d, b)
<1>1. PagesOf(b) \subseteq PagesOf(c)
  BY DEF PagesOf, BlockType, End, PAGESIZE
<1>2. \A d \in BlockType : Apart(c, d) => Apart(b, d) /\ Apart(d, b)
  BY DEF Apart, BlockType, End
<1> QED BY <1>1, <1>2

(* Two blocks that touch, and a block within the two of them.               *)
LEMMA Joined ==
    ASSUME NEW b \in BlockType, NEW c \in BlockType, NEW j \in BlockType,
           End(b) = c.address, j.address = b.address, End(j) <= End(c)
    PROVE  /\ PagesOf(j) \subseteq PagesOf(b) \cup PagesOf(c)
           /\ \A d \in BlockType : Apart(b, d) /\ Apart(c, d) => Apart(j, d) /\ Apart(d, j)
<1>1. PagesOf(j) \subseteq PagesOf(b) \cup PagesOf(c)
  BY DEF PagesOf, BlockType, End, PAGESIZE
<1>2. \A d \in BlockType : Apart(b, d) /\ Apart(c, d) => Apart(j, d) /\ Apart(d, j)
  BY DEF Apart, BlockType, End
<1> QED BY <1>1, <1>2

(* A block is not apart from itself.                                        *)
LEMMA NotSelfApart ==
    ASSUME NEW b \in BlockType
    PROVE  ~Apart(b, b)
BY DEF Apart, BlockType, End

(* Apart is symmetric.                                                      *)
LEMMA ApartSymmetric ==
    ASSUME NEW b, NEW c, Apart(b, c)
    PROVE  Apart(c, b)
BY DEF Apart

(* Nodes are taken without touching what is not a page of nodes.            *)
LEMMA PoppedNodes ==
    ASSUME TypeOK, NEW count \in Nat, NEW taken, count <= 2,
           node_pages \subseteq taken, PopNodes(count, taken)
    PROVE  /\ first_unused' \in Nat
           /\ node_pages' \subseteq PageNumbers
           /\ \A n \in node_pages' : n \in node_pages \/ n \notin taken
<1>1. CASE first_unused >= count
  BY <1>1 DEF PopNodes, TypeOK
<1>2. CASE ~(first_unused >= count)
  <2>1. PICK n \in PageNumbers : /\ Given({n}, taken)
                                 /\ node_pages' = node_pages \cup {n}
                                 /\ first_unused' = first_unused + NodesPerPage - count
    BY <1>2 DEF PopNodes
  <2>2. first_unused' \in Nat
    BY <2>1, NodesAssumption DEF TypeOK
  <2> QED BY <2>1, <2>2 DEF Given, TypeOK
<1> QED BY <1>1, <1>2

(* What is left of a region is one block at most.                           *)
LEMMA RestSize ==
    ASSUME NEW b, NEW size
    PROVE  Cardinality(Rest(b, size)) \in Nat /\ Cardinality(Rest(b, size)) <= 1
<1>1. Rest(b, size) = {} \/ \E r : Rest(b, size) = {r}
  BY DEF Rest
<1>2. CASE Rest(b, size) = {}
  <2>1. Cardinality(Rest(b, size)) = 0
    BY <1>2, FS_EmptySet
  <2> QED BY <2>1
<1>3. CASE \E r : Rest(b, size) = {r}
  <2>1. Cardinality(Rest(b, size)) = 1
    BY <1>3, FS_Singleton
  <2> QED BY <2>1
<1> QED BY <1>1, <1>2, <1>3

(* The heap starts without blocks.                                          *)
LEMMA InitInv ==
    ASSUME Init
    PROVE  Inv
<1>1. TypeOK
  BY DEF Init, TypeOK
<1>2. BlocksDisjoint
  BY DEF Init, BlocksDisjoint, Merging
<1> QED BY <1>1, <1>2 DEF Inv

(* malloc on pages of its own.                                              *)
LEMMA FreshStep ==
    ASSUME Inv, NEW size \in Sizes, tf = NoBlock, UNCHANGED tf, malloc_fresh(size)
    PROVE  /\ Inv'
           /\ \E new \in first_used' : /\ new.address > 0 /\ new.size = size
                                       /\ \A b \in first_used : Apart(new, b)
                                       /\ first_used' = first_used \cup {new}
<1>1. PICK n \in PageNumbers :
        LET run    == Run(n, PagesFor(size))
            region == Block(n * PAGESIZE, PagesFor(size) * PAGESIZE)
        IN /\ Given(run, arenas \cup node_pages)
           /\ arenas' = arenas \cup run
           /\ first_used' = first_used \cup {Block(region.address, size)}
           /\ first_free' = first_free \cup Rest(region, size)
           /\ PopNodes(1 + Cardinality(Rest(region, size)), arenas \cup node_pages \cup run)
  BY DEF malloc_fresh
<1> DEFINE run    == Run(n, PagesFor(size))
           region == Block(n * PAGESIZE, PagesFor(size) * PAGESIZE)
           new    == Block(region.address, size)
           rests  == Rest(region, size)
           old    == first_used \cup first_free
<1>2. n \in Nat \ {0} /\ size \in Nat \ {0}
  BY SizesAssumption, PagesAssumption
<1>3. /\ new \in BlockType /\ PagesOf(new) \subseteq run
      /\ \A rest \in rests : /\ rest \in BlockType /\ PagesOf(rest) \subseteq run
                             /\ Apart(new, rest)
  BY <1>2, FreshBlocks
<1>4. /\ first_used' = first_used \cup {new} /\ first_free' = first_free \cup rests
      /\ arenas' = arenas \cup run
      /\ run \subseteq PageNumbers /\ run \cap (arenas \cup node_pages) = {}
  BY <1>1 DEF Given
<1>5. /\ first_unused' \in Nat /\ node_pages' \subseteq PageNumbers
      /\ \A k \in node_pages' : k \in node_pages \/ k \notin arenas \cup node_pages \cup run
  <2>1. 1 + Cardinality(rests) \in Nat /\ 1 + Cardinality(rests) <= 2
    BY RestSize
  <2>2. PopNodes(1 + Cardinality(rests), arenas \cup node_pages \cup run)
    BY <1>1
  <2> HIDE DEF rests, run
  <2> QED BY <2>1, <2>2, PoppedNodes DEF Inv
<1>6. \A b \in old : b \in BlockType /\ PagesOf(b) \subseteq arenas
  BY DEF Inv, TypeOK, BlocksDisjoint
<1>7. ASSUME NEW b \in {new} \cup rests, NEW c \in old
      PROVE  Apart(b, c) /\ Apart(c, b) /\ b # c
  <2>1. b \in BlockType /\ c \in BlockType /\ PagesOf(b) \cap PagesOf(c) = {}
    BY <1>3, <1>4, <1>6, <1>7
  <2> HIDE DEF new, rests, old
  <2> QED BY <2>1, PagesApart, ApartSymmetric, NotSelfApart
<1>8. \A rest \in rests : Apart(new, rest) /\ Apart(rest, new) /\ rest # new
  BY <1>3, ApartSymmetric, NotSelfApart
<1>9. \A r, t \in rests : r = t
  BY DEF Rest
<1> HIDE DEF new, rests, run, region
<1>10. TypeOK'
  BY <1>3, <1>4, <1>5 DEF Inv, TypeOK
<1>11. BlocksDisjoint'
  <2>1. Merging = {} /\ Merging' = {} /\ NoBlock \notin BlockType /\ tf' = NoBlock
    BY DEF Merging, BlockType, NoBlock, Block
  <2>2. \A b, c \in (first_used \cup first_free \cup Merging)' : b # c => Apart(b, c)
    BY <1>4, <1>7, <1>8, <1>9, <2>1 DEF Inv, BlocksDisjoint
  <2>3. (first_used \cap first_free = {})'
    BY <1>4, <1>7, <1>8 DEF Inv, BlocksDisjoint
  <2>4. (tf \notin first_used \cup first_free)'
    BY <1>10, <2>1 DEF TypeOK
  <2>5. \A b \in (first_used \cup first_free \cup Merging)' : PagesOf(b) \subseteq arenas'
    BY <1>3, <1>4, <1>6, <2>1
  <2>6. (arenas \cap node_pages = {})'
    BY <1>4, <1>5 DEF Inv, BlocksDisjoint
  <2> QED BY <2>2, <2>3, <2>4, <2>5, <2>6 DEF BlocksDisjoint, PagesOf, End
<1>12. new.address > 0 /\ new.size = size
  BY <1>2, <1>3 DEF new, region, Block, BlockType
<1> QED BY <1>4, <1>7, <1>10, <1>11, <1>12 DEF Inv

(* malloc from a free block.                                                *)
LEMMA ReuseStep ==
    ASSUME Inv, NEW size \in Sizes, tf = NoBlock, UNCHANGED tf, malloc_reuse(size)
    PROVE  /\ Inv'
           /\ \E new \in first_used' : /\ new.address > 0 /\ new.size = size
                                       /\ \A b \in first_used : Apart(new, b)
                                       /\ first_used' = first_used \cup {new}
<1>1. PICK cur \in first_free :
        /\ Fits(cur, size)
        /\ first_used' = first_used \cup {Cut(cur, size)}
        /\ first_free' = (first_free \ {cur}) \cup Rest(cur, size)
        /\ PopNodes(Cardinality(Rest(cur, size)), arenas \cup node_pages)
        /\ UNCHANGED arenas
  BY DEF malloc_reuse
<1> DEFINE new   == Cut(cur, size)
           rests == Rest(cur, size)
           old   == first_used \cup (first_free \ {cur})
<1>2. cur \in BlockType /\ size \in Nat \ {0} /\ size <= cur.size
  BY <1>1, SizesAssumption DEF Inv, TypeOK, Fits, BlockType
<1>3. /\ new \in BlockType /\ new.address = cur.address /\ End(new) <= End(cur)
      /\ new.size = size
      /\ \A rest \in rests : /\ rest \in BlockType /\ Apart(new, rest)
                             /\ cur.address <= rest.address /\ End(rest) <= End(cur)
  <2>1. new \in BlockType /\ new.address = cur.address /\ new.size = size /\ End(new) <= End(cur)
    BY <1>2 DEF Cut, Block, BlockType, End
  <2>2. ASSUME NEW rest \in rests
        PROVE  /\ rest \in BlockType /\ Apart(new, rest)
               /\ cur.address <= rest.address /\ End(rest) <= End(cur)
    <3>1. cur.size # size /\ rest = Block(cur.address + size, cur.size - size)
      BY <2>2 DEF Rest
    <3> QED BY <1>2, <3>1 DEF Cut, Block, BlockType, End, Apart
  <2> QED BY <2>1, <2>2
<1>4. ASSUME NEW b \in {new} \cup rests
      PROVE  /\ b \in BlockType /\ PagesOf(b) \subseteq PagesOf(cur)
             /\ \A d \in BlockType : Apart(cur, d) => Apart(b, d) /\ Apart(d, b)
  <2>1. b \in BlockType /\ cur.address <= b.address /\ End(b) <= End(cur)
    BY <1>2, <1>3 DEF BlockType
  <2> HIDE DEF new, rests
  <2> QED BY <1>2, <2>1, Within
<1>5. ASSUME NEW b \in {new} \cup rests, NEW c \in old
      PROVE  Apart(b, c) /\ Apart(c, b) /\ b # c
  <2>1. c \in BlockType /\ Apart(cur, c)
    BY <1>1 DEF Inv, TypeOK, BlocksDisjoint
  <2> HIDE DEF new, rests, old
  <2> QED BY <1>4, <2>1, NotSelfApart
<1>6. /\ first_unused' \in Nat /\ node_pages' \subseteq PageNumbers
      /\ \A k \in node_pages' : k \in node_pages \/ k \notin arenas \cup node_pages
  <2>1. Cardinality(rests) \in Nat /\ Cardinality(rests) <= 2
    BY RestSize
  <2>2. PopNodes(Cardinality(rests), arenas \cup node_pages)
    BY <1>1
  <2> HIDE DEF rests
  <2> QED BY <2>1, <2>2, PoppedNodes DEF Inv
<1>7. \A rest \in rests : Apart(new, rest) /\ Apart(rest, new) /\ rest # new
  BY <1>3, ApartSymmetric, NotSelfApart
<1>8. \A r, t \in rests : r = t
  BY DEF Rest
<1>9. PagesOf(cur) \subseteq arenas
  BY DEF Inv, BlocksDisjoint
<1>10. first_used' = first_used \cup {new} /\ first_free' = (first_free \ {cur}) \cup rests
  BY <1>1
<1> HIDE DEF new, rests
<1>11. TypeOK'
  BY <1>1, <1>4, <1>6, <1>10 DEF Inv, TypeOK
<1>12. BlocksDisjoint'
  <2>1. Merging = {} /\ Merging' = {} /\ NoBlock \notin BlockType /\ tf' = NoBlock
    BY DEF Merging, BlockType, NoBlock, Block
  <2>2. \A b, c \in (first_used \cup first_free \cup Merging)' : b # c => Apart(b, c)
    BY <1>5, <1>7, <1>8, <1>10, <2>1 DEF Inv, BlocksDisjoint
  <2>3. (first_used \cap first_free = {})'
    BY <1>5, <1>7, <1>10 DEF Inv, BlocksDisjoint
  <2>4. (tf \notin first_used \cup first_free)'
    BY <1>11, <2>1 DEF TypeOK
  <2>5. \A b \in (first_used \cup first_free \cup Merging)' : PagesOf(b) \subseteq arenas'
    BY <1>1, <1>4, <1>9, <1>10, <2>1 DEF Inv, BlocksDisjoint
  <2>6. (arenas \cap node_pages = {})'
    BY <1>1, <1>6 DEF Inv, BlocksDisjoint
  <2> QED BY <2>2, <2>3, <2>4, <2>5, <2>6 DEF BlocksDisjoint, PagesOf, End
<1>13. new.address > 0 /\ new.size = size
  BY <1>2, <1>3 DEF BlockType
<1>14. \A b \in first_used : Apart(new, b)
  <2>1. first_used \subseteq old
    OBVIOUS
  <2> QED BY <1>5, <2>1
<1> QED BY <1>10, <1>11, <1>12, <1>13, <1>14 DEF Inv

(* One turn of the merging loop joins tf with a neighbour.                  *)
LEMMA MergeStep ==
    ASSUME Inv, NEW cur \in first_free, MergeBelow(cur) \/ MergeAbove(cur)
    PROVE  Inv'
<1>1. /\ tf \in BlockType /\ cur \in BlockType /\ cur # tf /\ Merging = {tf} /\ tf # NoBlock
      /\ first_free' = first_free \ {cur}
      /\ UNCHANGED <<first_used, first_unused, arenas, node_pages>>
  BY DEF Inv, TypeOK, BlocksDisjoint, Merging, MergeBelow, MergeAbove, Unlinked
<1> DEFINE rest == first_used \cup (first_free \ {cur})
<1>2. \A d \in rest : d \in BlockType /\ Apart(tf, d) /\ Apart(cur, d)
  BY <1>1 DEF Inv, TypeOK, BlocksDisjoint
<1>3. /\ tf' \in BlockType
      /\ PagesOf(tf') \subseteq PagesOf(cur) \cup PagesOf(tf)
      /\ \A d \in BlockType : Apart(tf, d) /\ Apart(cur, d) => Apart(tf', d) /\ Apart(d, tf')
  <2>1. CASE MergeBelow(cur)
    <3>1. tf' = Block(cur.address, tf.size) /\ End(cur) = tf.address
      BY <2>1 DEF MergeBelow, Below
    <3>2. tf' \in BlockType /\ tf'.address = cur.address /\ End(tf') <= End(tf)
      BY <1>1, <3>1 DEF Block, BlockType, End
    <3> QED BY <1>1, <3>1, <3>2, Joined
  <2>2. CASE MergeAbove(cur)
    <3>1. tf' = Block(tf.address, tf.size + cur.size) /\ End(tf) = cur.address
      BY <2>2 DEF MergeAbove, Above
    <3>2. tf' \in BlockType /\ tf'.address = tf.address /\ End(tf') <= End(cur)
      BY <1>1, <3>1 DEF Block, BlockType, End
    <3> QED BY <1>1, <3>1, <3>2, Joined
  <2> QED BY <2>1, <2>2
<1>4. \A d \in rest : Apart(tf', d) /\ Apart(d, tf') /\ tf' # d
  BY <1>2, <1>3, NotSelfApart
<1>5. Merging' = {tf'}
  BY <1>3 DEF Merging, NoBlock, Block, BlockType
<1>6. TypeOK'
  BY <1>1, <1>3 DEF Inv, TypeOK
<1>7. BlocksDisjoint'
  <2>1. \A b, c \in (first_used \cup first_free \cup Merging)' : b # c => Apart(b, c)
    BY <1>1, <1>4, <1>5 DEF Inv, BlocksDisjoint
  <2>2. (first_used \cap first_free = {})' /\ (tf \notin first_used \cup first_free)'
    BY <1>1, <1>4 DEF Inv, BlocksDisjoint
  <2>3. \A b \in (first_used \cup first_free \cup Merging)' : PagesOf(b) \subseteq arenas'
    BY <1>1, <1>3, <1>5 DEF Inv, BlocksDisjoint
  <2>4. (arenas \cap node_pages = {})'
    BY <1>1 DEF Inv, BlocksDisjoint
  <2> QED BY <2>1, <2>2, <2>3, <2>4 DEF BlocksDisjoint, PagesOf, End
<1> QED BY <1>6, <1>7 DEF Inv

(* A block that is freed is the one merge_into_frees works on.              *)
LEMMA FreeStep ==
    ASSUME Inv, NEW b \in first_used, free(b)
    PROVE  Inv'
<1>1. /\ tf = NoBlock /\ Merging = {} /\ tf' = b /\ b \in BlockType
      /\ first_used' = first_used \ {b}
      /\ UNCHANGED <<first_free, first_unused, arenas, node_pages>>
  BY DEF Inv, TypeOK, free, Merging
<1>2. Merging' = {b}
  BY <1>1 DEF Merging, NoBlock, Block, BlockType
<1>3. TypeOK'
  BY <1>1 DEF Inv, TypeOK
<1>4. BlocksDisjoint'
  BY <1>1, <1>2 DEF Inv, BlocksDisjoint, PagesOf, End
<1> QED BY <1>3, <1>4 DEF Inv

(* At the end of the loop it is one of the free blocks.                     *)
LEMMA DoneStep ==
    ASSUME Inv, MergeDone
    PROVE  Inv'
<1>1. /\ tf \in BlockType /\ Merging = {tf} /\ tf' = NoBlock /\ Merging' = {}
      /\ first_free' = first_free \cup {tf}
      /\ NoBlock \notin BlockType
      /\ UNCHANGED <<first_used, first_unused, arenas, node_pages>>
  BY DEF Inv, TypeOK, MergeDone, Merging, NoBlock, Block, BlockType
<1>2. TypeOK'
  BY <1>1 DEF Inv, TypeOK
<1>3. BlocksDisjoint'
  <2>1. (tf \notin first_used \cup first_free)'
    BY <1>1, <1>2 DEF TypeOK
  <2> QED BY <1>1, <2>1 DEF Inv, BlocksDisjoint, PagesOf, End
<1> QED BY <1>2, <1>3 DEF Inv

(* Every step keeps the invariant.                                          *)
LEMMA NextInv ==
    ASSUME Inv, [Next]_vars
    PROVE  Inv'
<1>1. ASSUME NEW size \in Sizes, malloc(size)
      PROVE  Inv'
  BY <1>1, FreshStep, ReuseStep DEF malloc
<1>2. CASE UNCHANGED vars
  BY <1>2 DEF Inv, TypeOK, BlocksDisjoint, Merging, vars
<1> QED BY <1>1, <1>2, MergeStep, FreeStep, DoneStep DEF Next

-----------------------------------------------------------------------------
(* Sums over finite sets: the fold that BytesIn is, seen as a function on   *)
(* the subsets which any element may be taken from.                         *)
Sized(S) == \A b \in S : b.size \in Nat

IsSum(f, S) ==
    /\ f \in [SUBSET S -> Nat]
    /\ f[{}] = 0
    /\ \A T \in SUBSET S : \A b \in T : f[T] = b.size + f[T \ {b}]

(* Among some subsets of a finite set one has no smaller one among them.    *)
LEMMA LeastSubset ==
    ASSUME NEW S, IsFiniteSet(S), NEW Bad, Bad \subseteq SUBSET S, Bad # {}
    PROVE  \E T \in Bad : \A U \in Bad : ~(U \subseteq T /\ U # T)
<1>1. IsWellFoundedOn(StrictSubsetOrdering(S), SUBSET S)
  BY FS_StrictSubsetOrderingWellFounded, FS_FiniteSubsetsOfFinite
<1>2. PICK T \in Bad : \A U \in Bad : ~(<<U, T>> \in StrictSubsetOrdering(S))
  BY <1>1, WFMin
<1>3. \A U \in Bad : U \subseteq T /\ U # T => <<U, T>> \in StrictSubsetOrdering(S)
  BY DEF StrictSubsetOrdering
<1>4. ASSUME NEW U \in Bad, U \subseteq T, U # T PROVE FALSE
  BY <1>2, <1>3, <1>4
<1> QED BY <1>4

(* The sum of a set with one more element.                                  *)
LEMMA SumExtends ==
    ASSUME NEW S, Sized(S), NEW b \in S, NEW f, IsSum(f, S \ {b})
    PROVE  \E g : IsSum(g, S)
<1> DEFINE g == [T \in SUBSET S |-> IF b \in T THEN b.size + f[T \ {b}] ELSE f[T]]
<1>1. \A T \in SUBSET S : T \ {b} \in SUBSET (S \ {b}) /\ f[T \ {b}] \in Nat
  BY DEF IsSum
<1>2. \A T \in SUBSET S : b \notin T => T \in SUBSET (S \ {b}) /\ f[T] \in Nat
  BY DEF IsSum
<1>3. b.size \in Nat
  BY DEF Sized
<1>4. g \in [SUBSET S -> Nat]
  BY <1>1, <1>2, <1>3
<1>5. g[{}] = 0
  <2>1. {} \in SUBSET S /\ b \notin {}
    OBVIOUS
  <2> QED BY <2>1 DEF IsSum
<1>6. \A T \in SUBSET S : b \in T => g[T] = b.size + f[T \ {b}]
  OBVIOUS
<1>7. \A T \in SUBSET S : b \notin T => g[T] = f[T]
  OBVIOUS
<1> HIDE DEF g
<1>8. ASSUME NEW T \in SUBSET S, NEW c \in T
      PROVE  g[T] = c.size + g[T \ {c}]
  <2>1. c.size \in Nat /\ T \ {c} \in SUBSET S
    BY DEF Sized
  <2>2. CASE b = c
    <3>1. g[T \ {c}] = f[T \ {c}]
      BY <1>7, <2>1, <2>2
    <3> QED BY <1>6, <2>2, <3>1
  <2>3. CASE b # c /\ b \in T
    <3> DEFINE U == T \ {b}
    <3>1. U \in SUBSET (S \ {b}) /\ c \in U
      BY <2>3
    <3>2. f[U] = c.size + f[U \ {c}]
      BY <3>1 DEF IsSum
    <3>3. U \ {c} = (T \ {c}) \ {b} /\ b \in T \ {c}
      BY <2>3
    <3>4. g[T \ {c}] = b.size + f[U \ {c}]
      BY <1>6, <2>1, <3>3
    <3>5. g[T] = b.size + f[U]
      BY <1>6, <2>3
    <3>6. f[U \ {c}] \in Nat
      BY <1>1, <2>1, <3>3
    <3> HIDE DEF U
    <3> QED BY <1>3, <2>1, <3>2, <3>4, <3>5, <3>6
  <2>4. CASE b \notin T
    <3>1. T \in SUBSET (S \ {b})
      BY <2>4
    <3>2. f[T] = c.size + f[T \ {c}]
      BY <3>1 DEF IsSum
    <3> QED BY <1>7, <2>1, <2>4, <3>2
  <2> QED BY <2>2, <2>3, <2>4
<1> QED BY <1>4, <1>5, <1>8 DEF IsSum

(* Every finite set has a sum.                                              *)
LEMMA SumExists ==
    ASSUME NEW S, IsFiniteSet(S), Sized(S)
    PROVE  \E f : IsSum(f, S)
<1> DEFINE Bad == {T \in SUBSET S : ~ \E f : IsSum(f, T)}
<1>1. SUFFICES ASSUME Bad # {} PROVE FALSE
  OBVIOUS
<1>2. PICK T \in Bad : \A U \in Bad : ~(U \subseteq T /\ U # T)
  <2>1. Bad \subseteq SUBSET S
    OBVIOUS
  <2> HIDE DEF Bad
  <2> QED BY <1>1, <2>1, LeastSubset
<1>3. T # {}
  <2> DEFINE f == [U \in SUBSET {} |-> 0]
  <2>1. f \in [SUBSET {} -> Nat] /\ f[{}] = 0
    OBVIOUS
  <2>2. \A U \in SUBSET {} : \A b \in U : f[U] = b.size + f[U \ {b}]
    OBVIOUS
  <2> HIDE DEF f
  <2>3. IsSum(f, {})
    BY <2>1, <2>2 DEF IsSum
  <2> QED BY <1>2, <2>3
<1>4. PICK b \in T : TRUE
  BY <1>3
<1>5. T \ {b} \in SUBSET S /\ T \ {b} \notin Bad
  BY <1>2, <1>4
<1>6. PICK f : IsSum(f, T \ {b})
  BY <1>5
<1>7. Sized(T)
  BY <1>2 DEF Sized
<1>8. \E g : IsSum(g, T)
  BY <1>4, <1>6, <1>7, SumExtends
<1> QED BY <1>2, <1>8

(* The fold takes the element it chooses from what is left: it is the sum.  *)
LEMMA BytesAreSum ==
    ASSUME NEW S, IsFiniteSet(S), NEW f, IsSum(f, S)
    PROVE  BytesIn(S) = f[S]
<1> DEFINE Pick(T) == CHOOSE b \in T : TRUE
           Body(g, T) == IF T = {} THEN 0 ELSE Pick(T).size + g[T \ {Pick(T)}]
           total == CHOOSE g : g = [T \in SUBSET S |-> Body(g, T)]
<1>1. BytesIn(S) = total[S]
  BY DEF BytesIn, MapThenSumSet, MapThenFoldSet
<1>2. \A T : T # {} => Pick(T) \in T
  OBVIOUS
<1>3. f = [T \in SUBSET S |-> Body(f, T)]
  <2> HIDE DEF Pick
  <2>1. ASSUME NEW T \in SUBSET S PROVE f[T] = Body(f, T)
    BY <1>2 DEF IsSum
  <2>2. f = [T \in SUBSET S |-> f[T]]
    BY DEF IsSum
  <2> HIDE DEF Body
  <2> QED BY <2>1, <2>2
<1>4. total = [T \in SUBSET S |-> Body(total, T)]
  <2> HIDE DEF Body
  <2> QED BY <1>3
<1> HIDE DEF total
<1> DEFINE Bad == {T \in SUBSET S : total[T] # f[T]}
<1>5. SUFFICES ASSUME Bad # {} PROVE FALSE
  BY <1>1
<1>6. PICK T \in Bad : \A U \in Bad : ~(U \subseteq T /\ U # T)
  <2>1. Bad \subseteq SUBSET S
    OBVIOUS
  <2> HIDE DEF Bad
  <2> QED BY <1>5, <2>1, LeastSubset
<1>7. total[T] = Body(total, T) /\ f[T] = Body(f, T) /\ T \in SUBSET S
  <2> HIDE DEF Body
  <2> QED BY <1>3, <1>4, <1>6
<1> HIDE DEF Pick
<1>8. T # {}
  BY <1>6, <1>7
<1>9. T \ {Pick(T)} \in SUBSET S /\ T \ {Pick(T)} \notin Bad
  BY <1>2, <1>6, <1>7, <1>8
<1> QED BY <1>6, <1>7, <1>8, <1>9

(* One block more in a set adds its size to the bytes.                      *)
LEMMA BytesAdd ==
    ASSUME NEW S, IsFiniteSet(S), Sized(S), NEW b, b \notin S, b.size \in Nat
    PROVE  /\ IsFiniteSet(S \cup {b})
           /\ BytesIn(S) \in Nat
           /\ BytesIn(S \cup {b}) = BytesIn(S) + b.size
<1> DEFINE T == S \cup {b}
<1>1. IsFiniteSet(T) /\ Sized(T) /\ b \in T /\ T \ {b} = S /\ S \in SUBSET T
  BY FS_AddElement DEF Sized
<1> HIDE DEF T
<1>2. PICK f : IsSum(f, T)
  BY <1>1, SumExists
<1>3. f[T] = b.size + f[S]
  <2>1. T \in SUBSET T
    OBVIOUS
  <2> QED BY <1>1, <1>2, <2>1 DEF IsSum
<1> DEFINE g == [U \in SUBSET S |-> f[U]]
<1>4. IsSum(g, S)
  <2>1. \A U \in SUBSET S : U \in SUBSET T /\ f[U] \in Nat /\ g[U] = f[U]
    BY <1>1, <1>2 DEF IsSum
  <2>2. g \in [SUBSET S -> Nat]
    BY <2>1
  <2>3. g[{}] = 0
    BY <1>2, <2>1 DEF IsSum
  <2> HIDE DEF g
  <2>4. ASSUME NEW U \in SUBSET S, NEW c \in U PROVE g[U] = c.size + g[U \ {c}]
    <3>1. f[U] = c.size + f[U \ {c}]
      BY <1>2, <2>1 DEF IsSum
    <3>2. U \ {c} \in SUBSET S
      OBVIOUS
    <3> QED BY <2>1, <3>1, <3>2
  <2> QED BY <2>2, <2>3, <2>4 DEF IsSum
<1>5. g[S] = f[S] /\ f[S] \in Nat
  BY <1>1, <1>2 DEF IsSum
<1> HIDE DEF g
<1>6. BytesIn(T) = f[T] /\ BytesIn(S) = f[S]
  BY <1>1, <1>2, <1>4, <1>5, BytesAreSum
<1>7. IsFiniteSet(T) /\ BytesIn(S) \in Nat /\ BytesIn(T) = BytesIn(S) + b.size
  BY <1>1, <1>3, <1>5, <1>6
<1> QED BY <1>7 DEF T

(* No blocks, no bytes.                                                     *)
LEMMA BytesNone == BytesIn({}) = 0
<1>1. IsFiniteSet({}) /\ Sized({})
  BY FS_EmptySet DEF Sized
<1>2. PICK f : IsSum(f, {})
  BY <1>1, SumExists
<1>3. f[{}] = 0
  BY <1>2 DEF IsSum
<1> QED BY <1>1, <1>2, <1>3, BytesAreSum

Counted == IsFiniteSet(first_used) /\ MallocedIsUsed

(* What BytesIn says of the blocks of the next state.                       *)
LEMMA BytesNext == BytesIn(first_used)' = BytesIn(first_used')
BY DEF BytesIn, MapThenSumSet, MapThenFoldSet

(* What has to hold for the next state to be counted right.                 *)
LEMMA CountedNext ==
    ASSUME IsFiniteSet(first_used'), malloced' = BytesIn(first_used')
    PROVE  Counted'
<1>1. malloced' = BytesIn(first_used)'
  BY BytesNext
<1> QED BY <1>1 DEF Counted, MallocedIsUsed

(* malloc and free count the block they hand out or take back.              *)
LEMMA CountStep ==
    ASSUME Inv, Counted, [Next]_vars
    PROVE  Counted'
<1>1. first_used \subseteq BlockType /\ Sized(first_used)
  BY DEF Inv, TypeOK, BlockType, Sized
<1>2. IsFiniteSet(first_used) /\ malloced = BytesIn(first_used)
  BY DEF Counted, MallocedIsUsed
<1>3. ASSUME NEW size \in Sizes, malloc(size)
      PROVE  Counted'
  <2>1. malloced' = malloced + size /\ size \in Nat
    BY <1>3, SizesAssumption DEF malloc
  <2>2. PICK new \in first_used' : /\ new.address > 0 /\ new.size = size
                                   /\ \A b \in first_used : Apart(new, b)
                                   /\ first_used' = first_used \cup {new}
    BY <1>3, FreshStep, ReuseStep DEF malloc
  <2>3. new \notin first_used
    BY <1>1, <2>2, NotSelfApart
  <2>4. /\ IsFiniteSet(first_used \cup {new})
        /\ BytesIn(first_used \cup {new}) = BytesIn(first_used) + new.size
    BY <1>1, <1>2, <2>1, <2>2, <2>3, BytesAdd
  <2>5. IsFiniteSet(first_used') /\ malloced' = BytesIn(first_used')
    BY <1>2, <2>1, <2>2, <2>4
  <2> QED BY <2>5, CountedNext
<1>4. ASSUME NEW b \in first_used, free(b)
      PROVE  Counted'
  <2> DEFINE S == first_used \ {b}
  <2>1. malloced' = malloced - b.size /\ first_used' = S
    BY <1>4 DEF free, Uncounted
  <2>2. /\ IsFiniteSet(S) /\ Sized(S) /\ b \notin S /\ b.size \in Nat
        /\ S \cup {b} = first_used
    BY <1>1, <1>2, FS_RemoveElement DEF Sized
  <2> HIDE DEF S
  <2>3. BytesIn(S) \in Nat /\ BytesIn(S \cup {b}) = BytesIn(S) + b.size
    BY <2>2, BytesAdd
  <2>4. IsFiniteSet(first_used') /\ malloced' = BytesIn(first_used')
    <3>1. malloced = BytesIn(S) + b.size
      BY <1>2, <2>2, <2>3
    <3>2. malloced' = BytesIn(S)
      BY <2>1, <2>2, <2>3, <3>1
    <3> QED BY <2>1, <2>2, <3>2
  <2> QED BY <2>4, CountedNext
<1>5. CASE \E cur \in first_free : MergeBelow(cur) \/ MergeAbove(cur)
  <2>1. UNCHANGED <<first_used, malloced>>
    BY <1>5 DEF MergeBelow, MergeAbove
  <2>2. IsFiniteSet(first_used') /\ malloced' = BytesIn(first_used')
    BY <1>2, <2>1
  <2> QED BY <2>2, CountedNext
<1>6. CASE MergeDone \/ UNCHANGED vars
  <2>1. UNCHANGED <<first_used, malloced>>
    BY <1>6 DEF MergeDone, vars
  <2>2. IsFiniteSet(first_used') /\ malloced' = BytesIn(first_used')
    BY <1>2, <2>1
  <2> QED BY <2>2, CountedNext
<1> QED BY <1>3, <1>4, <1>5, <1>6 DEF Next

(* The blocks and pages of the heap are disjoint and typed in every state.  *)
THEOREM Invariance == Spec => []Inv
BY InitInv, NextInv, PTL DEF Spec

(* Every list of the heap holds blocks of the type the code gives them.     *)
THEOREM TypeCorrect == Spec => []TypeOK
<1>1. Inv => TypeOK
  BY DEF Inv
<1> QED BY <1>1, Invariance, PTL

(* malloc never hands out, and free never merges, a byte that belongs to    *)
(* another block, for all sizes, pages and histories.                       *)
THEOREM NoOverlap == Spec => []BlocksDisjoint
<1>1. Inv => BlocksDisjoint
  BY DEF Inv
<1> QED BY <1>1, Invariance, PTL

(* The statistics counter is the number of bytes in use in every state: no  *)
(* history of splitting and merging makes it drift.                         *)
THEOREM CounterCorrect == Spec => []MallocedIsUsed
<1>1. Init => Counted
  <2>1. Init => IsFiniteSet(first_used) /\ malloced = BytesIn(first_used)
    BY FS_EmptySet, BytesNone DEF Init
  <2> QED BY <2>1 DEF Counted, MallocedIsUsed
<1>2. Counted => MallocedIsUsed
  BY DEF Counted
<1> QED BY <1>1, <1>2, CountStep, Invariance, PTL DEF Spec

(* malloc and free, with all their splitting and merging, implement the     *)
(* abstract allocator.                                                      *)
THEOREM Refinement == Spec => ImplementsAllocator
<1>1. Init => AbstractHeap!AInit
  BY DEF Init, AbstractHeap!AInit
<1>2. ASSUME Inv, [Next]_vars
      PROVE  [AbstractHeap!Allocate \/ AbstractHeap!Release]_first_used
  <2>1. ASSUME NEW size \in Sizes, malloc(size)
        PROVE  AbstractHeap!Allocate
    <3>1. \E new \in first_used' : /\ new.address > 0 /\ new.size = size
                                   /\ \A b \in first_used : Apart(new, b)
                                   /\ first_used' = first_used \cup {new}
      BY <1>2, <2>1, FreshStep, ReuseStep DEF malloc
    <3> QED BY <3>1 DEF AbstractHeap!Allocate, AbstractHeap!ApartFrom, Apart, End
  <2>2. ASSUME NEW b \in first_used, free(b)
        PROVE  AbstractHeap!Release
    BY <2>2 DEF free, AbstractHeap!Release
  <2>3. CASE \E cur \in first_free : MergeBelow(cur) \/ MergeAbove(cur)
    BY <2>3 DEF MergeBelow, MergeAbove
  <2>4. CASE MergeDone
    BY <2>4 DEF MergeDone
  <2>5. CASE UNCHANGED vars
    BY <2>5 DEF vars
  <2> QED BY <1>2, <2>1, <2>2, <2>3, <2>4, <2>5 DEF Next
<1> QED BY <1>1, <1>2, Invariance, PTL DEF Spec, ImplementsAllocator, AbstractHeap!ASpec
=============================================================================
