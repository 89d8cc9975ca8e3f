------------------------------ MODULE ListSpec ------------------------------
(***************************************************************************)
(* What the comments of src/list.c promise of a list: a sequence, and for  *)
(* every call its effect, the code it returns and the element it hands     *)
(* out.  A call that adds an element may run out of memory and return -1.  *)
(***************************************************************************)
EXTENDS Integers, Sequences

CONSTANTS Elem, NoElem
VARIABLES seq, rc, out

vars == <<seq, rc, out>>

Init == seq = <<>> /\ rc = 0 /\ out = NoElem

Returns(s, code, o) == seq' = s /\ rc' = code /\ out' = o
Fail == Returns(seq, -1, NoElem)

InRange(i) == i < Len(seq)

\* list_insert (list.c:187-189), list_push_front with i = 0
Insert(i, v) ==
  \/ (InRange(i) \/ i = 0) /\ Returns(SubSeq(seq, 1, i) \o <<v>> \o SubSeq(seq, i + 1, Len(seq)),
                                      1, NoElem)
  \/ Fail

\* list_push_back (list.c:260-262)
PushBack(v) == Returns(Append(seq, v), 1, NoElem) \/ Fail

\* list_remove (list.c:222-224)
Remove(i) ==
  \/ InRange(i) /\ Returns(SubSeq(seq, 1, i) \o SubSeq(seq, i + 2, Len(seq)), 1, NoElem)
  \/ ~InRange(i) /\ Fail

\* list_set (list.c:170-171)
Set(i, v) ==
  \/ InRange(i) /\ Returns([seq EXCEPT ![i + 1] = v], 0, NoElem)
  \/ ~InRange(i) /\ Fail

\* list_pop_front, list_pop_back (list.c:287-290): the element is moved to
\* the caller or destroyed
Pop(k, rest) ==
  \/ seq = <<>> /\ Returns(seq, 0, NoElem)
  \/ seq # <<>> /\ \E o \in {seq[k], NoElem} : Returns(rest, 1, o)

PopFront == Pop(1, SubSeq(seq, 2, Len(seq)))
PopBack  == Pop(Len(seq), SubSeq(seq, 1, Len(seq) - 1))

\* list_clear (list.c:108-109)
Clear == Returns(<<>>, 0, NoElem)

Next ==
  \/ \E i \in 0 .. Len(seq), v \in Elem : Insert(i, v) \/ Set(i, v)
  \/ \E i \in 0 .. Len(seq) : Remove(i)
  \/ \E v \in Elem : PushBack(v)
  \/ PopFront \/ PopBack \/ Clear

Spec == Init /\ [][Next]_vars
=============================================================================
