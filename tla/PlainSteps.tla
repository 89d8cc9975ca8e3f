----------------------------- MODULE PlainSteps -----------------------------
(***************************************************************************)
(* The recursive functions of src/bst.c on subtrees.  Each is a CONSTANT   *)
(* operator, and its body, which calls the constants, a definition: a .cfg *)
(* gives the constant its body for a value, so that it satisfies           *)
(*                                                                         *)
(*       Find(n, k) = FindStep(n, k),                                      *)
(*                                                                         *)
(* and a theorem takes such an equation for a hypothesis.  k is a key, v a *)
(* value or NULL if none is given, alloc says whether the calloc of a new  *)
(* node succeeds.                                                          *)
(***************************************************************************)
EXTENDS TreeNode

CONSTANTS
  Leftmost(_), Find(_, _),
  PlainInsert(_, _, _, _), PlainRemoveMin(_), PlainRemove(_, _)

\* while (s->left) s = s->left
LeftmostStep(n) == LET l == n.left IN IF l = NULL THEN n ELSE Leftmost(l)

\* Mutant of FindStep: a missing left child ends the search as if k were there.
FindStepStopsEarly(n, k) ==
  LET c == Compare(k, n.key)
  IN  CASE n = NULL                               -> NULL
        [] n # NULL /\ c < 0 /\ n.left # NULL     -> Find(n.left, k)
        [] n # NULL /\ c > 0                      -> Find(n.right, k)
        [] OTHER                                  -> n

\* bst_n_find, and the loops of bst_has and bst_get
FindStep(n, k) ==
  LET c == Compare(k, n.key)
  IN  CASE n = NULL             -> NULL
        [] n # NULL /\ c < 0    -> Find(n.left, k)
        [] n # NULL /\ c > 0    -> Find(n.right, k)
        [] OTHER                -> n

PlainInsertStep(n, k, v, alloc) ==
  LET c == Compare(k, n.key)
      l == PlainInsert(n.left, k, v, alloc)
      r == PlainInsert(n.right, k, v, alloc)
  IN  CASE n = NULL             -> NewNode(k, v, alloc)
        [] n # NULL /\ c < 0    -> Result([n EXCEPT !.left = l.t], l.rc)
        [] n # NULL /\ c > 0    -> Result([n EXCEPT !.right = r.t], r.rc)
        [] OTHER                -> Result(SetValue(n, v), 0)

PlainRemoveMinStep(n) ==
  LET r == PlainRemoveMin(n.left)
  IN  IF n.left = NULL THEN Result(n.right, 1) ELSE Result([n EXCEPT !.left = r.t], r.rc)

\* A node with two children takes the data of its successor, which goes instead.
PlainRemoveStep(n, k) ==
  LET c == Compare(k, n.key)
      l == PlainRemove(n.left, k)
      r == PlainRemove(n.right, k)
      s == PlainRemoveMin(n.right)
  IN  CASE n = NULL             -> Result(NULL, 0)
        [] n # NULL /\ c < 0    -> Result([n EXCEPT !.left = l.t], l.rc)
        [] n # NULL /\ c > 0    -> Result([n EXCEPT !.right = r.t], r.rc)
        [] OTHER                ->
             IF n.left # NULL /\ n.right # NULL
             THEN Result([MoveData(n, Leftmost(n.right)) EXCEPT !.right = s.t], s.rc)
             ELSE Result(IF n.left # NULL THEN n.left ELSE n.right, 1)
=============================================================================
