-------------------------------- MODULE Lists --------------------------------
(***************************************************************************)
(* The doubly linked lists of the library (list.c), as operators on a heap: *)
(* a sequence of nodes in which a pointer is the position of a node, and    *)
(* null is 0.  malloc appends a node.  A node that is freed stays as it is: *)
(* list_free reads the next of the node it has just freed, before anything  *)
(* else can be put there.                                                   *)
(* A list is the pointer to its head node, which carries no data.           *)
(***************************************************************************)
EXTENDS Integers, Sequences

CONSTANT NULL      \* a null pointer where data is expected

Node(next, prev, data) == [next |-> next, prev |-> prev, data |-> data]

(* An operation returns the heap and the pointer it ends in.                *)
Result(heap, ptr) == [heap |-> heap, ptr |-> ptr]

list_new(heap) == Result(Append(heap, Node(0, 0, NULL)), Len(heap) + 1)

list_last(heap, lst) ==
    LET last[n \in DOMAIN heap] == IF heap[n].next = 0 THEN n ELSE last[heap[n].next]
    IN last[lst]

list_head(heap, lst) ==
    LET head[n \in DOMAIN heap] == IF heap[n].prev = 0 THEN n ELSE head[heap[n].prev]
    IN head[lst]

list_first(heap, lst) == heap[list_head(heap, lst)].next

list_insert(heap, lst, data) ==
    LET new  == Len(heap) + 1
        next == heap[lst].next
        with == [Append(heap, Node(next, lst, data)) EXCEPT ![lst].next = new]
    IN Result(IF next = 0 THEN with ELSE [with EXCEPT ![next].prev = new], new)

list_append(heap, lst, data) == list_insert(heap, list_last(heap, lst), data)

(* The nodes of newlst behind lst.  lst->next is set before it is looked    *)
(* at, so it is the first new node that gets the last one as its prev, and  *)
(* the node that followed lst keeps the prev it had.                        *)
list_insert_list(heap, lst, newlst) ==
    LET newhead  == list_head(heap, newlst)
        newfirst == heap[newhead].next
        newlast  == list_last(heap, newfirst)
        cut      == [heap EXCEPT ![newhead].next = 0]
    IN IF newfirst = 0 THEN Result(cut, 0)
       ELSE Result([[[cut EXCEPT ![newlast].next = cut[lst].next]
                          EXCEPT ![lst].next = newfirst]
                          EXCEPT ![newfirst].prev = newlast],
                   newfirst)

(* The nodes behind a node, in order.                                       *)
Behind(heap, ptr) ==
    LET behind[n \in DOMAIN heap] ==
            IF heap[n].next = 0 THEN <<>> ELSE <<heap[n].next>> \o behind[heap[n].next]
    IN behind[ptr]

(* A null-terminated array is the sequence of its elements; the length is   *)
(* always given as -1.  Without a node behind the head there is no array.   *)
UpToNull(array) ==
    SubSeq(array, 1, CHOOSE n \in 0 .. Len(array) :
                         /\ \A i \in 1 .. n : array[i] # NULL
                         /\ n < Len(array) => array[n + 1] = NULL)

list_toarray(heap, lst) ==
    LET ptr   == IF heap[lst].prev = 0 THEN heap[lst].next ELSE lst
        nodes == <<ptr>> \o Behind(heap, ptr)
    IN IF ptr = 0 THEN <<>> ELSE UpToNull([i \in DOMAIN nodes |-> heap[nodes[i]].data])

list_insert_array(heap, lst, array) ==
    LET new == list_new(heap)
        filled[i \in 0 .. Len(array)] ==
            IF i = 0 THEN new.heap ELSE list_append(filled[i - 1], new.ptr, array[i]).heap
    IN list_insert_list(filled[Len(array)], lst, new.ptr)

list_append_array(heap, lst, array) ==
    list_insert_array(heap, list_last(heap, lst), array)

list_fromarray(heap, array) ==
    LET new == list_new(heap)
    IN Result(list_append_array(new.heap, new.ptr, array).heap, new.ptr)

(* function is called with each node in turn and replaces its data.         *)
list_foreach(heap, lst, function(_)) ==
    LET nodes == Behind(heap, list_head(heap, lst))
    IN [n \in DOMAIN heap |->
           IF \E i \in DOMAIN nodes : nodes[i] = n
           THEN [heap[n] EXCEPT !.data = function(@)]
           ELSE heap[n]]
=============================================================================
