---------------------------- MODULE SequenceSpec ----------------------------
(***************************************************************************)
(* What the comments of src/vector.c promise of a vector, without memory:  *)
(* a sequence of elements and, for every call, its effect on the sequence, *)
(* the code it returns and the element it hands out.  Any call that needs  *)
(* memory may fail with -1.                                                *)
(***************************************************************************)
EXTENDS Integers, Sequences

CONSTANTS Elem, Raw, MinCapacity
VARIABLES seq, rc, out

vars == <<seq, rc, out>>

Init == seq = <<>> /\ rc = 0 /\ out = Raw

Returns(s, code, o) == seq' = s /\ rc' = code /\ out' = o

Prefix(n) == SubSeq(seq, 1, n)

\* vector_set (vector.c:168-171): append at the end or replace; only an
\* append may run out of memory.
Set(k, e) ==
  \/ k = Len(seq) /\ Returns(Append(seq, e), 1, Raw)
  \/ k < Len(seq) /\ Returns([seq EXCEPT ![k + 1] = e], 0, Raw)
  \/ k >= Len(seq) /\ Returns(seq, -1, Raw)

\* vector_insert (vector.c:201-204)
Insert(k, e) ==
  \/ k < Len(seq) /\ Returns(Prefix(k) \o <<e>> \o SubSeq(seq, k + 1, Len(seq)), 1, Raw)
  \/ Returns(seq, -1, Raw)

\* vector_remove (vector.c:235-237): it needs no memory it cannot do without
Remove(k) ==
  \/ k < Len(seq) /\ Returns(Prefix(k) \o SubSeq(seq, k + 2, Len(seq)), 1, Raw)
  \/ k >= Len(seq) /\ Returns(seq, -1, Raw)

\* vector_pop_back (vector.c:275-277)
PopBack ==
  \/ seq = <<>> /\ Returns(seq, 0, Raw)
  \/ seq # <<>> /\ \E o \in {seq[Len(seq)], Raw} : Returns(Prefix(Len(seq) - 1), 1, o)

\* vector_reserve (vector.c:81-83) may cut elements off, never one of the
\* first n, nor one of the first MinCapacity; it may fail after that.
Reserve(n) ==
  \E m \in 0 .. Len(seq), code \in {0, -1} :
    /\ m = Len(seq) \/ (m >= n /\ m >= MinCapacity)
    /\ Returns(Prefix(m), code, Raw)

\* vector_shrink_to_fit (vector.c:123-125)
ShrinkToFit == \E code \in {0, -1} : Returns(seq, code, Raw)

\* vector_clear, vector_destroy (vector.c:58-61, 155-156)
Clear == Returns(<<>>, 0, Raw)

\* vector_initialize (vector.c:19-21): on memory without elements
Initialize == seq = <<>> /\ \E code \in {0, -1} : Returns(seq, code, Raw)

\* The start of a call that has not changed anything yet: it takes back what
\* the previous one handed out.
Begin == seq' = seq /\ rc' = rc /\ out' = Raw

\* Every index past the end is alike, and so is every n past the length.
Next ==
  \/ \E k \in 0 .. Len(seq) + 1, e \in Elem : Set(k, e) \/ Insert(k, e)
  \/ \E k \in 0 .. Len(seq) + 1 : Remove(k) \/ Reserve(k)
  \/ PopBack \/ ShrinkToFit \/ Clear \/ Initialize \/ Begin

Spec == Init /\ [][Next]_vars
=============================================================================
