-------------------------------- MODULE Heap --------------------------------
(***************************************************************************)
(* The binary heap of src/heap.c in the first n slots of an array a, whose *)
(* elements are compared by their rank.  One turn of each loop is given    *)
(* here; the loops run in the modules that use the heap.                   *)
(***************************************************************************)
EXTENDS Integers

Less(rank, x, y) == rank[x] < rank[y]

\* _swap
Swapped(a, x, y) == [a EXCEPT ![x] = a[y], ![y] = a[x]]

LChild(i) == 2 * i + 1
RChild(i) == 2 * i + 2
Parent(i) == (i - 1) \div 2

\* heap_bubble_up goes on at i
BubblesUp(rank, a, i) == i > 0 /\ Less(rank, a[Parent(i)], a[i])

\* Mutant of Largest: the right child is compared with the parent only.
LargestOfTwo(rank, a, n, i) ==
  IF RChild(i) < n /\ Less(rank, a[i], a[RChild(i)]) THEN RChild(i)
  ELSE IF Less(rank, a[i], a[LChild(i)]) THEN LChild(i) ELSE i

\* Where the turn of heap_sift_down at an inner node i finds the largest of
\* the node and its children
Largest(rank, a, n, i) ==
  LET max == IF Less(rank, a[i], a[LChild(i)]) THEN LChild(i) ELSE i
  IN  IF RChild(i) < n /\ Less(rank, a[max], a[RChild(i)]) THEN RChild(i) ELSE max

\* heap_sift_down goes on at i
SiftsDown(rank, a, n, i) == n # 1 /\ i <= Parent(n - 1) /\ Largest(rank, a, n, i) # i

\* is_heap
IsHeap(rank, a, n) ==
  n > 1 => \A i \in 0 .. Parent(n - 1) :
             /\ ~Less(rank, a[i], a[LChild(i)])
             /\ RChild(i) < n => ~Less(rank, a[i], a[RChild(i)])

-----------------------------------------------------------------------------
(* The invariants of the two loops.                                        *)

\* The order holds between all nodes from f on and their parents, except
\* perhaps between i and its children, and it holds across i.
HeapBelow(rank, a, n, f, i) ==
  \A c \in 1 .. n - 1 :
    /\ Parent(c) >= f /\ Parent(c) # i => ~Less(rank, a[Parent(c)], a[c])
    /\ Parent(c) = i /\ i > 0 /\ Parent(i) >= f => ~Less(rank, a[Parent(i)], a[c])

\* The order holds except perhaps between i and its parent, and across i.
HeapAbove(rank, a, n, i) ==
  \A c \in 1 .. n - 1 :
    /\ c # i => ~Less(rank, a[Parent(c)], a[c])
    /\ Parent(c) = i /\ i > 0 => ~Less(rank, a[Parent(i)], a[c])
=============================================================================
