---------------------------- MODULE RedBlackSteps ----------------------------
(***************************************************************************)
(* Left-leaning red-black trees: the local transformations of src/rb.c on  *)
(* a subtree, and the bodies of its recursive functions, which are CONSTANT*)
(* operators as in PlainSteps.  The assertions of the code are operators   *)
(* of their own.                                                           *)
(***************************************************************************)
EXTENDS PlainSteps

CONSTANTS RbInsert(_, _, _, _), RbRemoveMin(_), RbRemove(_, _)

RED   == 0
BLACK == 1

IsRed(n) == n # NULL /\ n.flag = RED

\* n is a black node without a red child: a 2-node
IsTwoNode(n) == n # NULL /\ ~IsRed(n) /\ ~IsRed(n.left)

RotateLeft(n) ==
  LET r == n.right
  IN  [r EXCEPT !.left = [n EXCEPT !.right = r.left, !.flag = RED], !.flag = n.flag]

RotateRight(n) ==
  LET l == n.left
  IN  [l EXCEPT !.right = [n EXCEPT !.left = l.right, !.flag = RED], !.flag = n.flag]

ColorFlip(n) ==
  [n EXCEPT !.flag = 1 - @, !.left.flag = 1 - @, !.right.flag = 1 - @]

\* Right-leaning 3-node, then unbalanced 4-node, then balanced 4-node.
Repair(n) ==
  LET a == IF IsRed(n.right) /\ ~IsRed(n.left) THEN RotateLeft(n) ELSE n
      b == IF IsRed(a.left) /\ IsRed(a.left.left) THEN RotateRight(a) ELSE a
  IN  IF IsRed(b.left) /\ IsRed(b.right) THEN ColorFlip(b) ELSE b

\* The assertions of rb_n_move_red_left/_right and of their color flip.
MayMoveRed(n) ==
  n.left # NULL /\ n.right # NULL /\ ~IsRed(n.left) /\ ~IsRed(n.right)

\* Ensure that the left child is not a 2-node.
MoveRedLeft(n) ==
  LET f == ColorFlip(n)
  IN  IF IsRed(f.right.left)
      THEN ColorFlip(RotateLeft([f EXCEPT !.right = RotateRight(@)]))
      ELSE f

\* Ensure that the right child is not a 2-node.
MoveRedRight(n) ==
  LET f == ColorFlip(n)
  IN  IF IsRed(f.left.left) THEN ColorFlip(RotateRight(f)) ELSE f

\* Every call repairs its subtree on the way up.
Repaired(n, code, ok) == Outcome(Repair(n), code, 0, ok)

RbInsertStep(n, k, v, alloc) ==
  LET c == Compare(k, n.key)
      l == RbInsert(n.left, k, v, alloc)
      r == RbInsert(n.right, k, v, alloc)
  IN  CASE n = NULL             -> NewNode(k, v, alloc)
        [] n # NULL /\ c < 0    -> Repaired([n EXCEPT !.left = l.t], l.rc, l.ok)
        [] n # NULL /\ c > 0    -> Repaired([n EXCEPT !.right = r.t], r.rc, r.ok)
        [] OTHER                -> Repaired(SetValue(n, v), 0, TRUE)

\* n before a removal goes on to its left child, which is to be no 2-node
RbToLeft(n) == IF IsTwoNode(n.left) THEN MoveRedLeft(n) ELSE n

\* ... and after it, with the outcome r for that child
RbFromLeft(n, r) ==
  Repaired([RbToLeft(n) EXCEPT !.left = r.t], r.rc, (IsTwoNode(n.left) => MayMoveRed(n)) /\ r.ok)

RbRemoveMinStep(n) ==
  LET r == RbRemoveMin(RbToLeft(n).left)
  IN  IF n.left = NULL THEN Outcome(NULL, 1, 0, n.right = NULL) ELSE RbFromLeft(n, r)

\* Mutant of RbOnRight: the successor goes, its data is not moved up.
RbOnRightNoMove(n, k) ==
  LET borrow == IsTwoNode(n.right)
      m == IF borrow THEN MoveRedRight(n) ELSE n
      r == IF Compare(k, m.key) = 0 THEN RbRemoveMin(m.right) ELSE RbRemove(m.right, k)
  IN  Repaired([m EXCEPT !.right = r.t], r.rc, (borrow => MayMoveRed(n)) /\ r.ok)

\* k is not less than the key of n, and n has no red left child any more.
RbOnRight(n, k) ==
  LET borrow == IsTwoNode(n.right)
      m == IF borrow THEN MoveRedRight(n) ELSE n
      found == Compare(k, m.key) = 0
      r == IF found THEN RbRemoveMin(m.right) ELSE RbRemove(m.right, k)
      d == IF found THEN MoveData(m, Leftmost(m.right)) ELSE m
  IN  Repaired([d EXCEPT !.right = r.t], r.rc, (borrow => MayMoveRed(n)) /\ r.ok)

RbRemoveStep(n, k) ==
  LET l == RbRemove(RbToLeft(n).left, k)
      h == IF IsRed(n.left) THEN RotateRight(n) ELSE n
  IN  CASE n = NULL                             -> Result(NULL, 0)
        [] n # NULL /\ Compare(k, n.key) < 0    -> RbFromLeft(n, l)
        [] OTHER                                ->
             IF Compare(k, h.key) = 0 /\ h.right = NULL
             THEN Outcome(NULL, 1, 0, h.left = NULL)
             ELSE RbOnRight(h, k)
=============================================================================
