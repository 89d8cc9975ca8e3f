----------------------------- MODULE ForwardList -----------------------------
(***************************************************************************)
(* The singly-linked list of src/forward_list.c, which is also the stack   *)
(* of src/stack.h, with its nodes in a memory it may share with others.    *)
(***************************************************************************)
EXTENDS NodeMemory

CONSTANTS
  Elem,     \* the elements a caller may store
  NoElem    \* no element: nothing was moved to the caller

VARIABLES
  mem,            \* the allocated nodes
  front, count,   \* the list struct
  rc,             \* what the last call returned
  out             \* the element it moved to its caller

vars == <<mem, front, count, rc, out>>

\* flist_n_new at address a
Alloc(a, v, next) == NewNode(mem, a, [next |-> next, data |-> v])

\* flist_get_node
GetNode(i) == Walk(mem, front, i)

\* The call returns code and o, with the nodes m and the struct f, n.
Return(m, f, n, code, o) == rc' = code /\ out' = o /\ count' = n /\ front' = f /\ mem' = m

NoChange(code) == Return(mem, front, count, code, NoElem)

\* flist_push_front does the same as flist_insert at index 0.
InsertFront(a, v) == Return(Alloc(a, v, front), a, count + 1, 1, NoElem)

\* Mutant of InsertLater: the next node is read after the new one is linked.
InsertLaterLosesTail(a, i, v) ==
  LET prev == GetNode(i - 1)
  IN  Return([Alloc(a, v, a) EXCEPT ![prev].next = a], front, count + 1, 1, NoElem)

InsertLater(a, i, v) ==
  LET prev == GetNode(i - 1)
  IN  Return([Alloc(a, v, mem[prev].next) EXCEPT ![prev].next = a], front, count + 1, 1, NoElem)

\* flist_insert: an allocation may fail
Insert(i, v) ==
  \/ NoChange(-1)
  \/ /\ i < count \/ i = 0
     /\ \E a \in Addr \ DOMAIN mem : IF i = 0 THEN InsertFront(a, v) ELSE InsertLater(a, i, v)

\* flist_remove: the node is unlinked before it is deleted
Remove(i) ==
  IF i >= count THEN NoChange(-1)
  ELSE IF i = 0 THEN Return(FreeNode(mem, front), mem[front].next, count - 1, 1, NoElem)
  ELSE LET prev == GetNode(i - 1)
           n    == mem[prev].next
       IN  Return(FreeNode([mem EXCEPT ![prev].next = mem[n].next], n), front, count - 1, 1, NoElem)

\* flist_set
Set(i, v) ==
  IF i >= count THEN NoChange(-1)
  ELSE Return([mem EXCEPT ![GetNode(i)].data = v], front, count, 0, NoElem)

\* flist_pop_front: with keep the element is moved to the caller
PopFront(keep) ==
  IF count = 0 THEN NoChange(0)
  ELSE Return(FreeNode(mem, front), mem[front].next, count - 1, 1,
              IF keep THEN mem[front].data ELSE NoElem)

\* flist_clear, which is all that flist_destroy and flist_delete do to nodes
Clear == \E m \in FreeChain(mem, front) : Return(m, NULL, 0, 0, NoElem)

\* flist_initialize
Init == mem = [a \in {} |-> NULL] /\ front = NULL /\ count = 0 /\ rc = 0 /\ out = NoElem

\* Every index in range, and the first one that is not
Index == 0 .. count

Next ==
  \/ \E i \in Index, v \in Elem : Insert(i, v) \/ Set(i, v)
  \/ \E i \in Index : Remove(i)
  \/ \E keep \in BOOLEAN : PopFront(keep)
  \/ Clear

Spec == Init /\ [][Next]_vars

-----------------------------------------------------------------------------
Nodes == Chain(mem, front)

\* The elements from the front on; the top of a stack is the first.
Contents == LET c == Nodes IN [k \in DOMAIN c |-> mem[c[k]].data]

Sequence == INSTANCE ListSpec WITH seq <- Contents

\* Each call has the effect and the return code its comment promises on the
\* sequence of elements, for its own arguments; so pushing and popping at the
\* front is last in, first out (forward_list.c:165-289, stack.h:29-30).
CallsKeepTheirPromises ==
  [][/\ \A i \in Index, v \in Elem :
          /\ Insert(i, v) => Sequence!Insert(i, v)
          /\ Set(i, v) => Sequence!Set(i, v)
     /\ \A i \in Index : Remove(i) => Sequence!Remove(i)
     /\ (\E keep \in BOOLEAN : PopFront(keep)) => Sequence!PopFront
     /\ Clear => Sequence!Clear
    ]_vars
=============================================================================
