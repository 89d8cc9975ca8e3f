------------------------------ MODULE AvlSteps ------------------------------
(***************************************************************************)
(* AVL trees: the rotations and the repair step of src/avl.c, and the      *)
(* bodies of its recursive functions, which are CONSTANT operators as in   *)
(* PlainSteps.  A node's flag is its balance factor, the height of the     *)
(* right minus that of the left subtree, in a signed bit field of three    *)
(* bits.                                                                   *)
(***************************************************************************)
EXTENDS PlainSteps

CONSTANTS AvlInsert(_, _, _, _), AvlRemoveMin(_), AvlRemove(_, _)

WithBalance(n, b) == [n EXCEPT !.flag = Wrap(b, 3)]

\* A rotated subtree, its change of height, and whether the assertions held
Rotated(t, dh, ok) == [t |-> t, dh |-> dh, ok |-> ok]

\* Mutant of AvlRotateRight: the inner subtree is not handed over.
AvlRotateRightKeepsChild(n) ==
  LET p == n.left IN Rotated([p EXCEPT !.right = n], 0, TRUE)

AvlRotateRight(n) ==
  LET p  == n.left
      bn == n.flag
      bp == p.flag
      m  == WithBalance([n EXCEPT !.left = p.right],
                        IF bp > 0 THEN bn + 1 ELSE bn - bp + 1)
  IN  Rotated(WithBalance([p EXCEPT !.right = m], IF m.flag > 0 THEN bn + 2 ELSE bp + 1),
              IF bn = -2 /\ bp < 0 THEN -1 ELSE 0,
              bn < 0 /\ bp \in -2 .. 1)

AvlRotateLeft(n) ==
  LET p  == n.right
      bn == n.flag
      bp == p.flag
      m  == WithBalance([n EXCEPT !.right = p.left],
                        IF bp < 0 THEN bn - 1 ELSE bn - bp - 1)
  IN  Rotated(WithBalance([p EXCEPT !.left = m], IF m.flag < 0 THEN bn - 2 ELSE bp - 1),
              IF bn = 2 /\ bp > 0 THEN -1 ELSE 0,
              bn > 0 /\ bp \in -1 .. 2)

\* A child that leans the other way is rotated first.
AvlRepair(n) ==
  CASE n.flag = -2 ->
         LET c == IF n.left.flag = 1 THEN AvlRotateLeft(n.left) ELSE Rotated(n.left, 0, TRUE)
             r == AvlRotateRight(WithBalance([n EXCEPT !.left = c.t], n.flag - c.dh))
         IN  Rotated(r.t, r.dh, n.left.flag \in -1 .. 1 /\ c.ok /\ r.ok)
    [] n.flag = 2 ->
         LET c == IF n.right.flag = -1 THEN AvlRotateRight(n.right) ELSE Rotated(n.right, 0, TRUE)
             r == AvlRotateLeft(WithBalance([n EXCEPT !.right = c.t], n.flag + c.dh))
         IN  Rotated(r.t, r.dh, n.right.flag \in -1 .. 1 /\ c.ok /\ r.ok)
    [] OTHER -> Rotated(n, 0, TRUE)

\* Mutant of Rebalanced: a shorter right subtree never shrinks its parent.
RebalancedKeepsHeight(n, side, r) ==
  LET m == WithBalance(IF side < 0 THEN [n EXCEPT !.left = r.t] ELSE [n EXCEPT !.right = r.t],
                       n.flag + side * r.dh)
      p == IF r.dh # 0 THEN AvlRepair(m) ELSE Rotated(m, 0, TRUE)
  IN  Outcome(p.t, r.rc, (IF r.dh > 0 /\ side * n.flag >= 0 THEN 1 ELSE 0) + p.dh, r.ok /\ p.ok)

\* The way up from a child whose subtree was replaced by the outcome r, with
\* side = -1 for the left and 1 for the right child: adjust the balance,
\* report the change of height and repair.  A subtree grows in insertions
\* only, and shrinks in removals only.
Rebalanced(n, side, r) ==
  LET taller == side * n.flag > 0 \/ (n.flag = 0 /\ r.dh > 0)
      m == WithBalance(IF side < 0 THEN [n EXCEPT !.left = r.t] ELSE [n EXCEPT !.right = r.t],
                       n.flag + side * r.dh)
      p == IF r.dh # 0 THEN AvlRepair(m) ELSE Rotated(m, 0, TRUE)
  IN  Outcome(p.t, r.rc, (IF taller THEN r.dh ELSE 0) + p.dh, r.ok /\ p.ok)

AvlInsertStep(n, k, v, alloc) ==
  LET c == Compare(k, n.key)
  IN  CASE n = NULL             -> NewNode(k, v, alloc)
        [] n # NULL /\ c < 0    -> Rebalanced(n, -1, AvlInsert(n.left, k, v, alloc))
        [] n # NULL /\ c > 0    -> Rebalanced(n, 1, AvlInsert(n.right, k, v, alloc))
        [] OTHER                -> Result(SetValue(n, v), 0)

AvlRemoveMinStep(n) ==
  LET r == AvlRemoveMin(n.left)
  IN  IF n.left = NULL THEN Outcome(n.right, 1, -1, TRUE) ELSE Rebalanced(n, -1, r)

AvlRemoveStep(n, k) ==
  LET c == Compare(k, n.key)
  IN  CASE n = NULL             -> Result(NULL, 0)
        [] n # NULL /\ c < 0    -> Rebalanced(n, -1, AvlRemove(n.left, k))
        [] n # NULL /\ c > 0    -> Rebalanced(n, 1, AvlRemove(n.right, k))
        [] OTHER                ->
             IF n.left # NULL /\ n.right # NULL
             THEN Rebalanced(MoveData(n, Leftmost(n.right)), 1, AvlRemoveMin(n.right))
             ELSE Outcome(IF n.left # NULL THEN n.left ELSE n.right, 1, -1, TRUE)
=============================================================================
