----------------------------- MODULE StringSpec -----------------------------
(***************************************************************************)
(* What the comments of src/str.c promise of a string, without memory: a   *)
(* sequence of characters.  A call that needs memory may fail with -1 and  *)
(* then leaves the text as it was.                                         *)
(***************************************************************************)
EXTENDS Integers, Sequences

CONSTANT None   \* nothing is handed out
VARIABLES text, rc, out

Returns(t, code, o) == text' = t /\ rc' = code /\ out' = o

MayFail(t) == Returns(t, 0, None) \/ Returns(text, -1, None)

\* str_assign, str_assign_cstr, and a new string that replaces this one:
\* str_copy, str_from_cstr (str.c:143-144, 170-171, 190-191, 211-213)
Assign(t) == MayFail(t)

\* str_append, str_append_cstr, str_push_back (str.c:242-243, 266-267,
\* 290-291), and str_concat with this string first (str.c:328-329)
Extend(t) == MayFail(text \o t)

\* str_concat with this string second
Prepend(t) == MayFail(t \o text)

\* str_pop_back (str.c:311-312)
PopBack ==
  \/ text = <<>> /\ Returns(text, -1, None)
  \/ text # <<>> /\ \E o \in {text[Len(text)], None} :
       Returns(SubSeq(text, 1, Len(text) - 1), 0, o)

\* str_reserve, str_shrink_to_fit (str.c:58-59, 90-92)
Resize == MayFail(text)

\* str_initialize, str_clear (str.c:20-22, 128-130)
Clear == Returns(<<>>, 0, None)
=============================================================================
