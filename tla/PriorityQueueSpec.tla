-------------------------- MODULE PriorityQueueSpec --------------------------
(***************************************************************************)
(* What the comments of src/priority_queue.c promise: a bag of elements,   *)
(* from which a largest one is taken.                                      *)
(***************************************************************************)
EXTENDS Integers, Bags

CONSTANTS Elem, Rank, Raw
VARIABLES bag, rc, out

vars == <<bag, rc, out>>

Init == bag = EmptyBag /\ rc = 0 /\ out = Raw

Returns(b, code, o) == bag' = b /\ rc' = code /\ out' = o

\* pqueue_enqueue (priority_queue.c:21-22): added, or an error
Enqueue(e) == Returns(bag (+) SetToBag({e}), 1, Raw) \/ Returns(bag, -1, Raw)

Largest == {e \in BagToSet(bag) : \A o \in BagToSet(bag) : Rank[o] <= Rank[e]}

\* pqueue_dequeue (priority_queue.c:50-52)
Dequeue ==
  \/ bag = EmptyBag /\ Returns(bag, 0, Raw)
  \/ \E e \in Largest : Returns(bag (-) SetToBag({e}), 1, e)
  \/ Returns(bag, -1, Raw)

Clear == Returns(EmptyBag, 0, Raw)

Next == (\E e \in Elem : Enqueue(e)) \/ Dequeue \/ Clear

Spec == Init /\ [][Next]_vars
=============================================================================
