------------------------------ MODULE TreeWalks ------------------------------
(***************************************************************************)
(* What is read off a whole subtree: the walks and the height of           *)
(* src/bst.c, and the invariants src/bst.c, src/rb.c and src/avl.c assert. *)
(* The recursive functions are CONSTANT operators as in PlainSteps.        *)
(***************************************************************************)
EXTENDS RedBlackSteps, AvlSteps, FiniteSets, Sequences

CONSTANTS Traverse(_, _), TraverseR(_, _), Height(_), Subtrees(_), BlackDepths(_, _)

\* bst_n_traverse...: the keys visited in ascending order, up to the first
\* one in stop, on which the callback returns non-zero.
Walked(visited, code) == [keys |-> visited, rc |-> code]

TraverseStep(n, stop) ==
  LET l == Traverse(n.left, stop)
      here == Append(l.keys, n.key)
      r == Traverse(n.right, stop)
  IN  CASE n = NULL                                 -> Walked(<<>>, 0)
        [] n # NULL /\ l.rc # 0                     -> l
        [] n # NULL /\ l.rc = 0 /\ n.key \in stop   -> Walked(here, 1)
        [] OTHER                                    -> Walked(here \o r.keys, r.rc)

\* ... and in descending order
TraverseRStep(n, stop) ==
  LET r == TraverseR(n.right, stop)
      here == Append(r.keys, n.key)
      l == TraverseR(n.left, stop)
  IN  CASE n = NULL                                 -> Walked(<<>>, 0)
        [] n # NULL /\ r.rc # 0                     -> r
        [] n # NULL /\ r.rc = 0 /\ n.key \in stop   -> Walked(here, 1)
        [] OTHER                                    -> Walked(here \o l.keys, l.rc)

\* bst_n_height
HeightStep(n) ==
  LET l == Height(n.left)
      r == Height(n.right)
  IN  IF n = NULL THEN 0 ELSE (IF l > r THEN l ELSE r) + 1

-----------------------------------------------------------------------------
(* bst_n_invariant, rb_n_invariant and avl_n_invariant.                    *)

SubtreesStep(n) ==
  LET below == Subtrees(n.left) \cup Subtrees(n.right)
  IN  IF n = NULL THEN {} ELSE {n} \cup below

TotalNodes(n) == Len(Traverse(n, {}).keys)

KeysOrdered(n) ==
  \A m \in Subtrees(n) :
    /\ m.left # NULL => Compare(m.left.key, m.key) < 0
    /\ m.right # NULL => Compare(m.right.key, m.key) > 0

\* The black depths of the nodes that lack a child; black is that of n's parent
BlackDepthsStep(n, black) ==
  LET here == IF IsRed(n) THEN black ELSE black + 1
      below == BlackDepths(n.left, here) \cup BlackDepths(n.right, here)
  IN  IF n = NULL THEN {}
      ELSE (IF n.left = NULL \/ n.right = NULL THEN {here} ELSE {}) \cup below

RbInvariant(n) ==
  /\ \A m \in Subtrees(n) :
       /\ IsRed(m) => ~IsRed(m.left) /\ ~IsRed(m.right)
       /\ ~(IsRed(m.left) /\ IsRed(m.right))
  /\ Cardinality(BlackDepths(n, 0)) <= 1

AvlInvariant(n) ==
  \A m \in Subtrees(n) :
    m.flag = Height(m.right) - Height(m.left) /\ m.flag \in -1 .. 1
=============================================================================
