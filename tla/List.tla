-------------------------------- MODULE List --------------------------------
(***************************************************************************)
(* The doubly-linked list of src/list.c, which is also the queue of        *)
(* src/queue.h, with its nodes in memory.  mem holds the allocated nodes;  *)
(* a pointer that is not NULL and not in its domain dangles, and an        *)
(* address that was freed may be allocated again.  Following a dangling    *)
(* pointer, or freeing through it, and a failed assertion inside a call    *)
(* end the program (fault).                                                *)
(***************************************************************************)
EXTENDS NodeMemory

CONSTANTS
  Elem,     \* the elements a caller may store
  NoElem,   \* no element: nothing was moved to the caller
  Clients   \* kinds of clients: the sets of functions of the interface each uses

ASSUME ListAssumption ==
  /\ NoElem \notin Elem
  /\ \A calls \in Clients :
       calls \subseteq {"push_front", "insert", "push_back", "remove", "set",
                        "pop_front", "pop_back", "clear"}

VARIABLES
  calls,                \* the functions this client uses
  mem,                  \* the allocated nodes
  first, last, count,   \* the list struct
  rc,                   \* what the last call returned
  out,                  \* the element it moved to its caller
  fault                 \* "none", "memory" or "assert"

vars == <<calls, mem, first, last, count, rc, out, fault>>

-----------------------------------------------------------------------------
(* Memory.                                                                 *)

\* list_n_new at address a; calloc leaves both links NULL.
Alloc(m, a, v) ==
  NewNode(m, a, [prev |-> NULL, next |-> NULL, data |-> v])

\* One link of a node is set.
SetNext(m, a, p) == [m EXCEPT ![a].next = p]
SetPrev(m, a, p) == [m EXCEPT ![a].prev = p]

-----------------------------------------------------------------------------
\* list_invariant, asserted at the start and at the end of every call
ListInvariant(f, l, n) ==
  /\ f # NULL => l # NULL /\ n > 0
  /\ l # NULL => f # NULL

\* The call returns code and o, with the nodes m and the struct f, l, n.
Return(m, f, l, n, code, o) ==
  /\ mem' = m /\ first' = f /\ last' = l /\ count' = n
  /\ rc' = code /\ out' = o /\ UNCHANGED calls
  /\ fault' = IF ListInvariant(f, l, n) THEN "none" ELSE "assert"

NoChange(code) == Return(mem, first, last, count, code, NoElem)

Stop(kind) == fault' = kind /\ UNCHANGED <<calls, mem, first, last, count, rc, out>>

Allowed(c) == fault = "none" /\ c \in calls

\* list_insert at index 0, on a node at a that holds v
InsertFront(a, v) ==
  LET m == Alloc(mem, a, v)
  IN  IF first # NULL /\ first \notin DOMAIN m THEN Stop("memory")
      ELSE Return(SetNext(IF first # NULL THEN SetPrev(m, first, a) ELSE m, a, first),
                  a, IF count = 0 THEN a ELSE last, count + 1, 1, NoElem)

\* list_insert at a later index: the node is allocated before the walk
InsertLater(a, i, v) ==
  LET m == Alloc(mem, a, v)
      next == Walk(m, first, i)
      prev == m[next].prev
  IN  IF next = NULL THEN Stop("memory")
      ELSE IF prev \notin DOMAIN m THEN Stop("memory")
      ELSE Return(SetNext(SetPrev(SetPrev(SetNext(m, prev, a), a, prev), next, a), a, next),
                  first, last, count + 1, 1, NoElem)

Insert(i, v) ==
  /\ Allowed(IF i = 0 THEN "push_front" ELSE "insert")
  /\ \/ i >= count /\ i # 0 /\ NoChange(-1)
     \/ /\ i < count \/ i = 0
        /\ \/ NoChange(-1)
           \/ \E a \in Addr \ DOMAIN mem :
                IF i = 0 THEN InsertFront(a, v) ELSE InsertLater(a, i, v)

PushBack(v) ==
  /\ Allowed("push_back")
  /\ \/ NoChange(-1)
     \/ \E a \in Addr \ DOMAIN mem :
          LET m == Alloc(mem, a, v)
          IN  IF count = 0 THEN Return(m, a, a, 1, 1, NoElem)
              ELSE IF last \notin DOMAIN m THEN Stop("memory")
              ELSE Return(SetPrev(SetNext(m, last, a), a, last), first, a, count + 1, 1, NoElem)

\* list_remove of node n at index 0 ...
RemoveFirst(n) ==
  LET next == mem[n].next
  IN  CASE mem[n].prev # NULL -> Stop("assert")
        [] mem[n].prev = NULL /\ next = NULL ->
             Return(FreeNode(mem, n), NULL, NULL, count - 1, 1, NoElem)
        [] OTHER ->
             IF next \notin DOMAIN mem THEN Stop("memory")
             ELSE Return(FreeNode(SetPrev(mem, next, NULL), n), next, last, count - 1, 1, NoElem)

\* ... at the last index ...
RemoveLast(n) ==
  LET prev == mem[n].prev
  IN  CASE mem[n].next # NULL -> Stop("assert")
        [] mem[n].next = NULL /\ prev \notin DOMAIN mem -> Stop("memory")
        [] OTHER -> Return(FreeNode(SetNext(mem, prev, NULL), n), first, prev, count - 1, 1, NoElem)

\* Mutant of RemoveMiddle: the next node is not linked back.
RemoveMiddleOneWay(n) ==
  Return(FreeNode(SetNext(mem, mem[n].prev, mem[n].next), n), first, last, count - 1, 1, NoElem)

\* ... and in between.
RemoveMiddle(n) ==
  LET next == mem[n].next
      prev == mem[n].prev
  IN  IF ~({next, prev} \subseteq DOMAIN mem) THEN Stop("memory")
      ELSE Return(FreeNode(SetPrev(SetNext(mem, prev, next), next, prev), n),
                  first, last, count - 1, 1, NoElem)

Remove(i) ==
  /\ Allowed("remove")
  /\ IF i >= count THEN NoChange(-1)
     ELSE LET n == Walk(mem, first, i)
          IN  CASE n = NULL -> Stop("memory")
                [] n # NULL /\ i = 0 -> RemoveFirst(n)
                [] n # NULL /\ i # 0 /\ i = count - 1 -> RemoveLast(n)
                [] OTHER -> RemoveMiddle(n)

\* Mutant of Set: the loop of list_get_node stops one node early.
SetStopsEarly(i, v) ==
  /\ Allowed("set") /\ i < count
  /\ LET n == Walk(mem, first, IF i = 0 THEN 0 ELSE i - 1)
     IN  Return([mem EXCEPT ![n].data = v], first, last, count, 0, NoElem)

Set(i, v) ==
  /\ Allowed("set")
  /\ IF i >= count THEN NoChange(-1)
     ELSE LET n == Walk(mem, first, i)
          IN  IF n = NULL THEN Stop("memory")
              ELSE Return([mem EXCEPT ![n].data = v], first, last, count, 0, NoElem)

\* Mutant of PopFront: a node whose element was moved out is not freed.
PopFrontKeepsNode(keep) ==
  /\ Allowed("pop_front") /\ count # 0 /\ first \in DOMAIN mem
  /\ LET next == mem[first].next
     IN  Return(IF keep THEN mem ELSE FreeNode(mem, first), next,
                IF next # NULL THEN last ELSE NULL,
                count - 1, 1, IF keep THEN mem[first].data ELSE NoElem)

\* list_pop_front and list_pop_back: with keep the element is moved to the
\* caller.  Neither touches the neighbor that becomes the new end.
PopFront(keep) ==
  /\ Allowed("pop_front")
  /\ CASE count = 0 -> NoChange(0)
       [] count # 0 /\ first \notin DOMAIN mem -> Stop("memory")
       [] OTHER ->
            LET next == mem[first].next
            IN  Return(FreeNode(mem, first), next, IF next # NULL THEN last ELSE NULL,
                       count - 1, 1, IF keep THEN mem[first].data ELSE NoElem)

\* Mutant of PopBack: the last node is looked for on the wrong side.
PopBackWrongSide(keep) ==
  /\ Allowed("pop_back") /\ count # 0 /\ last \in DOMAIN mem
  /\ LET prev == IF mem[last].next # NULL THEN mem[last].prev ELSE NULL
     IN  Return(FreeNode(mem, last), IF prev # NULL THEN first ELSE NULL, prev,
                count - 1, 1, IF keep THEN mem[last].data ELSE NoElem)

\* Mutant of PopBack: the first element is moved to the caller.
PopBackOfFirst(keep) ==
  /\ Allowed("pop_back") /\ count # 0 /\ {first, last} \subseteq DOMAIN mem
  /\ LET prev == mem[last].prev
     IN  Return(FreeNode(mem, last), IF prev # NULL THEN first ELSE NULL, prev,
                count - 1, 1, IF keep THEN mem[first].data ELSE NoElem)

PopBack(keep) ==
  /\ Allowed("pop_back")
  /\ CASE count = 0 -> NoChange(0)
       [] count # 0 /\ last \notin DOMAIN mem -> Stop("memory")
       [] OTHER ->
            LET prev == mem[last].prev
            IN  Return(FreeNode(mem, last), IF prev # NULL THEN first ELSE NULL, prev,
                       count - 1, 1, IF keep THEN mem[last].data ELSE NoElem)

\* list_clear, and list_delete of a list that is not empty
Clear ==
  /\ Allowed("clear")
  /\ \/ \E m \in FreeChain(mem, first) : Return(m, NULL, NULL, 0, 0, NoElem)
     \/ FreeChain(mem, first) = {} /\ Stop("memory")

\* list_initialize
Init ==
  /\ calls \in Clients
  /\ mem = [a \in {} |-> NULL]
  /\ first = NULL /\ last = NULL /\ count = 0
  /\ rc = 0 /\ out = NoElem /\ fault = "none"

\* Every index in range, and the first one that is not
Index == 0 .. count

Next ==
  \/ \E i \in Index, v \in Elem : Insert(i, v) \/ Set(i, v)
  \/ \E v \in Elem : PushBack(v)
  \/ \E i \in Index : Remove(i)
  \/ \E keep \in BOOLEAN : PopFront(keep) \/ PopBack(keep)
  \/ Clear

Spec == Init /\ [][Next]_vars

-----------------------------------------------------------------------------
(* Properties.                                                             *)

\* All variables keep their type; a link may dangle.
TypeOK ==
  /\ calls \in Clients
  /\ \A a \in DOMAIN mem :
       a \in Addr /\ mem[a].prev \in Addr \cup {NULL} /\ mem[a].next \in Addr \cup {NULL}
                  /\ mem[a].data \in Elem
  /\ {first, last} \subseteq Addr \cup {NULL} /\ count \in Nat
  /\ rc \in {-1, 0, 1} /\ out \in Elem \cup {NoElem} /\ fault \in {"none", "memory", "assert"}

PrevOf == [p \in DOMAIN mem |-> mem[p].prev]

\* A client that never pops, and one that uses the list as a queue
NeverPops == calls \cap {"pop_front", "pop_back"} = {}
IsQueue   == calls \subseteq {"push_front", "pop_back"}

\* For a client that never pops both chains run through the same count nodes in opposite directions and
\* end in NULL, and no other node is allocated: whatever calls insert, remove
\* and relink at either end or in the middle (list.c:190-285).
WellLinked ==
  NeverPops =>
  LET forward  == ChainAlong(NextOf(mem), first, count + 1)
      backward == ChainAlong(PrevOf, last, count + 1)
  IN  /\ Len(forward) = count /\ Len(backward) = count
      /\ \A k \in 1 .. count : backward[k] = forward[count + 1 - k]
      /\ DOMAIN mem = {forward[k] : k \in 1 .. count}
      /\ count = 0 => first = NULL /\ last = NULL
      /\ count > 0 => mem[first].prev = NULL /\ mem[last].next = NULL

\* Used as a queue the list is linked backwards only, and still loses nothing:
\* the prev chain from last reaches first in count steps and is all there is
\* (queue.h:24-25, list.c:200-204, 323-333).
LinkedBackward ==
  IsQueue =>
  LET backward == ChainAlong(PrevOf, last, count + 1)
  IN  /\ Len(backward) = count
      /\ DOMAIN mem = {backward[k] : k \in 1 .. count}
      /\ count > 0 => backward[count] = first /\ mem[first].prev = NULL

\* No call follows or frees a dangling pointer.
NoUseAfterFree == fault # "memory"

\* However the calls are mixed, as long as no assertion has failed and no
\* dangling pointer was used, exactly as many nodes are allocated as the list
\* counts: popping frees one node, no node leaks (list.c:37-62, 300-334), and
\* the fields keep their types.
NoNodeLeaks == TypeOK /\ (fault = "none" => Cardinality(DOMAIN mem) = count)

\* The elements, read along next or, for a queue, along prev.
Forward == LET c == ChainAlong(NextOf(mem), first, count) IN [k \in 1 .. Len(c) |-> mem[c[k]].data]
Backward == LET c == ChainAlong(PrevOf, last, count)
            IN  [k \in 1 .. Len(c) |-> mem[c[Len(c) + 1 - k]].data]

Sequence == INSTANCE ListSpec WITH seq <- Forward
Queue    == INSTANCE ListSpec WITH seq <- Backward

\* For a client that never pops each call has the effect and the return code its comment promises on the
\* sequence of elements, for its own index and element.
CallsKeepTheirPromises ==
  [][NeverPops =>
     /\ \A i \in Index, v \in Elem :
          /\ Insert(i, v) => Sequence!Insert(i, v)
          /\ Set(i, v) => Sequence!Set(i, v)
     /\ \A v \in Elem : PushBack(v) => Sequence!PushBack(v)
     /\ \A i \in Index : Remove(i) => Sequence!Remove(i)
     /\ Clear => Sequence!Clear
    ]_vars

\* Enqueuing at the front and dequeuing at the back is first in, first out.
FirstInFirstOut ==
  [][IsQueue =>
     /\ \A v \in Elem : Insert(0, v) => Queue!Insert(0, v)
     /\ (\E keep \in BOOLEAN : PopBack(keep)) => Queue!PopBack
    ]_vars
=============================================================================
