---------------------------- MODULE PriorityQueue ----------------------------
(***************************************************************************)
(* The priority queue of src/priority_queue.c: a heap (Heap) kept in a     *)
(* vector (Vector), whose operations on slots and capacities it uses.  The *)
(* loops that repair the heap run one turn per step, in pc, on node i.     *)
(* rc of a running call is what it is going to return.                     *)
(***************************************************************************)
EXTENDS Vector, Heap, FiniteSets, Bags

CONSTANT Rank   \* the order of the elements that the type's compare gives

ASSUME PriorityQueueAssumption == Rank \in [Elem -> Int]

VARIABLES
  unrepaired,   \* ghost: a repair was left out for lack of memory
  failed        \* an assertion failed: the program has ended

pqVars == <<vec, pc, i, j, arg, rc, out, unrepaired, failed>>

Ready == Idle /\ ~failed
Quiet == UNCHANGED <<unrepaired, failed>>

\* The call goes on to repair the heap of v from node x; it is going to
\* return 1 and o.
Repair(loop, v, x, o) ==
  /\ vec' = v /\ pc' = loop /\ i' = x /\ j' = 0 /\ arg' = Raw
  /\ rc' = 1 /\ out' = o /\ Quiet

\* The workspace for the swaps is not granted: what was done to v stays.
GiveUp(v, o) == Return(v, -1, o) /\ unrepaired' = TRUE /\ UNCHANGED failed

\* pqueue_enqueue does not look at what vector_push_back returns.
Enqueue(e) ==
  /\ Ready
  /\ \E r \in Grow(vec) :
       LET v == IF r.rc < 0 THEN r.v ELSE AddLast(r.v, e)
       IN  \/ v.count > 1 /\ (Repair("bubble", v, v.count - 1, Raw) \/ GiveUp(v, Raw))
           \/ v.count <= 1 /\ Return(v, 1, Raw) /\ Quiet

\* Mutant of LastToFirst: the element that moves to the top is copied.
LastToFirstCopies(v) == [v EXCEPT !.data[0] = v.data[v.count - 1], !.count = @ - 1]

\* Mutant of LastToFirst: count is reduced before the last element is looked up.
LastToFirstCountsFirst(v) ==
  LET w == [v EXCEPT !.count = @ - 1]
  IN  IF w.count = 0 THEN w ELSE [w EXCEPT !.data[0] = w.data[w.count - 1]]

\* The last element moves into the emptied first slot, onto itself if there
\* is only one: an emptied slot then stays empty.
LastToFirst(v) ==
  LET w == IF v.count = 1 THEN v ELSE Move(v, 0, v.count - 1)
  IN  [w EXCEPT !.count = @ - 1]

\* pqueue_dequeue; without a place to store the element (hasOut = FALSE) it
\* fails and leaves the queue alone.
Dequeue(hasOut) ==
  /\ Ready
  /\ \/ (~hasOut \/ vec.count = 0) /\ Return(vec, IF hasOut THEN 0 ELSE -1, Raw) /\ Quiet
     \/ /\ hasOut /\ vec.count > 0
        /\ LET first == vec.data[0]
           IN  \E v \in Contract(LastToFirst(Vacate(vec, 0))) :
                 \/ v.count > 1 /\ (Repair("sift", v, 0, first) \/ GiveUp(v, first))
                 \/ v.count <= 1 /\ Return(v, 1, first) /\ Quiet

Swap(x, y) == vec' = [vec EXCEPT !.data = Swapped(@, x, y)]

\* assert(is_heap(...)) after a repair, before the call returns
Checked ==
  /\ failed' = ~IsHeap(Rank, vec.data, vec.count)
  /\ Return(vec, rc, out) /\ UNCHANGED unrepaired

BubbleUp ==
  /\ pc = "bubble"
  /\ IF BubblesUp(Rank, vec.data, i)
     THEN Swap(i, Parent(i)) /\ i' = Parent(i) /\ UNCHANGED <<pc, j, arg, rc, out>> /\ Quiet
     ELSE Checked

SiftDown ==
  /\ pc = "sift"
  /\ IF SiftsDown(Rank, vec.data, vec.count, i)
     THEN LET max == Largest(Rank, vec.data, vec.count, i)
          IN  Swap(i, max) /\ i' = max /\ UNCHANGED <<pc, j, arg, rc, out>> /\ Quiet
     ELSE Checked

\* pqueue_initialize, pqueue_destroy and pqueue_clear are the vector's; an
\* empty queue is a heap again.
PqInitialize == ~failed /\ Initialize /\ unrepaired' = FALSE /\ UNCHANGED failed
PqDestroy == ~failed /\ Destroy /\ unrepaired' = FALSE /\ UNCHANGED failed
PqClear == ~failed /\ Clear /\ unrepaired' = FALSE /\ UNCHANGED failed

PqInit == Init /\ unrepaired = FALSE /\ failed = FALSE

PqNext ==
  \/ \E e \in Elem : Enqueue(e)
  \/ \E hasOut \in BOOLEAN : Dequeue(hasOut)
  \/ BubbleUp \/ SiftDown
  \/ PqInitialize \/ PqDestroy \/ PqClear

PqSpec == PqInit /\ [][PqNext]_pqVars

-----------------------------------------------------------------------------
(* Properties.                                                             *)

\* All variables keep their type; only nodes of the heap are repaired.
PqTypeOK ==
  /\ pc \in {"idle", "bubble", "sift"} /\ vec.count \in 0 .. vec.capacity
  /\ i \in 0 .. MaxCapacity /\ (pc # "idle" => i < vec.count)
  /\ rc \in {-1, 0, 1} /\ out \in Elem \cup {Raw}
  /\ unrepaired \in BOOLEAN /\ failed \in BOOLEAN

\* The heap is in order but for the node that is being moved, as long as no
\* repair was left out, and only after that may an assertion fail with which
\* the code tests its own repairs (heap.c:50-55, 67-78, priority_queue.c:33-39,
\* 73-81).  All variables keep their type.
HeapInOrder ==
  /\ PqTypeOK
  /\ failed => unrepaired
  /\ ~unrepaired /\ vec.count > 0 =>
    CASE pc = "bubble" -> HeapAbove(Rank, vec.data, vec.count, i)
      [] pc = "sift"   -> HeapBelow(Rank, vec.data, vec.count, 0, i)
      [] OTHER         -> IsHeap(Rank, vec.data, vec.count)

\* The block holds exactly the counted elements and none is leaked, overwritten
\* or moved twice, though the last element is moved over the emptied first one,
\* which may be itself (priority_queue.c:62-68, sort_tools.h:19-24).
ElementsOwned == SlotsExact /\ NoLeakNoDoubleDestroy

\* How often each element is in the queue
Bag ==
  LET at(e) == {x \in 0 .. vec.count - 1 : vec.data[x] = e}
  IN  [e \in {vec.data[x] : x \in 0 .. vec.count - 1} |-> Cardinality(at(e))]

Queue == INSTANCE PriorityQueueSpec WITH bag <- Bag

\* Enqueuing adds the element and dequeuing takes a largest one, in the first
\* step of the call; the repairs that follow move elements only.  Where memory
\* runs out the calls depart from their comments in these ways and no others:
\* a failed push returns 1, and without the workspace the element is added or
\* removed though -1 is returned, after which another than a largest element
\* may be taken (priority_queue.c:23-89).
PqCallsKeepTheirPromises ==
  [][/\ \A e \in Elem : Enqueue(e) =>
          \/ Queue!Enqueue(e)
          \/ rc' = 1 /\ Bag' = Bag /\ vec.count = vec.capacity
          \/ rc' = -1 /\ Bag' = Bag (+) SetToBag({e}) /\ unrepaired'
     /\ \A hasOut \in BOOLEAN : Dequeue(hasOut) =>
          \/ Queue!Dequeue
          \/ /\ unrepaired' /\ out' \in BagToSet(Bag) /\ Bag' = Bag (-) SetToBag({out'})
             /\ ~unrepaired => rc' = -1 /\ \A e \in BagToSet(Bag) : Rank[e] <= Rank[out']
     /\ BubbleUp \/ SiftDown => UNCHANGED Bag
     /\ PqClear \/ PqDestroy => Queue!Clear
    ]_pqVars
=============================================================================
