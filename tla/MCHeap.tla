------------------------------- MODULE MCHeap -------------------------------
EXTENDS Heap, FiniteSetsExt

BytesIn(blocks) == MapThenSumSet(LAMBDA b : b.size, blocks)

(* malloced is the number of bytes in use.                                  *)
MallocedIsUsed == malloced = BytesIn(first_used)
=============================================================================
