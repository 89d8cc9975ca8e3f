------------------------------- MODULE SetOps -------------------------------
(***************************************************************************)
(* The set of src/set.c: a red-black tree without values, whose insertion, *)
(* removal, search and copying are those of Bst and BstCopy.  Here are the *)
(* operations that make a new set from two.                                *)
(*                                                                         *)
(* A set under construction is a record: ok tells that no assertion has    *)
(* failed, no NULL pointer was followed and nothing uninitialized compared *)
(* in the making of it; rc is what the last call on it returned.  NULL is  *)
(* the set that there was no memory for.  failing holds the keys whose     *)
(* nodes cannot be allocated by a copy, and NULL if the struct cannot be.  *)
(* The two vectors of an intersection are always granted their memory.     *)
(***************************************************************************)
EXTENDS BstCopy

SetOf(t, n) == [root |-> t, count |-> n, ok |-> TRUE, rc |-> 0]

Legal(S) == BstInvariant(S.root, S.count)

\* S after the outcome r of a call; d is added to count on success.
Stored(S, r, d) ==
  [S EXCEPT !.root = Blackened(r.t), !.rc = r.rc, !.ok = r.ok,
            !.count = IF r.rc = 1 THEN @ + d ELSE @]

\* The program has ended, or compared something uninitialized.
Undefined(S) == [S EXCEPT !.ok = FALSE]

\* Every call asserts bst_invariant.
MayChange(S) == S.ok /\ Legal(S)

\* set_insert: a root that is missing is followed all the same.
SetInsert(S, k, alloc) ==
  LET r == RbInsert(S.root, k, NULL, alloc)
  IN  IF MayChange(S) /\ r.t # NULL THEN Stored(S, r, 1) ELSE Undefined(S)

\* set_remove
SetRemove(S, k) == IF MayChange(S) THEN Stored(S, RbRemove(S.root, k), -1) ELSE Undefined(S)

\* set_copy: the result of copying the nodes is not looked at.
SetCopy(S, failing) ==
  IF NULL \in failing THEN NULL ELSE SetOf(CopyRec(S.root, failing), S.count)

Ascending(S) == Traverse(S.root, {}).keys

-----------------------------------------------------------------------------
(* Union and difference walk one set and change a copy of the other.       *)

\* insert_into_set for each of keys until one call fails; a call on NULL does.
RECURSIVE InsertAll(_, _, _)
InsertAll(S, keys, unalloc) ==
  IF keys = <<>> \/ S = NULL THEN S
  ELSE LET T == SetInsert(S, Head(keys), Head(keys) \notin unalloc)
       IN  IF T.rc < 0 \/ ~T.ok THEN T ELSE InsertAll(T, Tail(keys), unalloc)

\* remove_from_set for each of keys
RECURSIVE RemoveAll(_, _)
RemoveAll(S, keys) ==
  IF keys = <<>> \/ S = NULL THEN S ELSE RemoveAll(SetRemove(S, Head(keys)), Tail(keys))

Larger(S1, S2)  == IF S1.count > S2.count THEN S1 ELSE S2
Smaller(S1, S2) == IF S1.count > S2.count THEN S2 ELSE S1

\* Mutant of Union: the second set is taken for the smaller one.
UnionOfSecond(S1, S2, failing, unalloc) ==
  InsertAll(SetCopy(Larger(S1, S2), failing), Ascending(S2), unalloc)

\* set_union; unalloc holds the keys whose nodes an insertion cannot allocate.
Union(S1, S2, failing, unalloc) ==
  InsertAll(SetCopy(Larger(S1, S2), failing), Ascending(Smaller(S1, S2)), unalloc)

\* Mutant of Difference: what its comment says (set.c:123-124).
DifferenceOfLarger(S1, S2, failing) ==
  RemoveAll(SetCopy(Larger(S1, S2), failing), Ascending(Smaller(S1, S2)))

\* set_difference
Difference(S1, S2, failing) == RemoveAll(SetCopy(S1, failing), Ascending(S2))

-----------------------------------------------------------------------------
(* Intersection merges two vectors of keys, filled in descending order and *)
(* popped from the back.                                                   *)

Descending(S) == TraverseR(S.root, {}).keys

Front(v) == SubSeq(v, 1, Len(v) - 1)

\* set_insert of a common key, whose result is ignored
Common(S, k, unalloc) == IF S = NULL THEN NULL ELSE SetInsert(S, k, k \notin unalloc)

RECURSIVE Walk(_, _, _, _)

\* Mutant of Walk: after a common key only the first vector is checked.
WalkOneSided(S, v1, v2, unalloc) ==
  LET comp == Compare(v1[Len(v1)], v2[Len(v2)])
      met == IF comp = 0 THEN Common(S, v1[Len(v1)], unalloc) ELSE S
      end == IF comp <= 0 THEN Len(v1) = 1 ELSE Len(v2) = 1
  IN  IF end \/ Len(v2) = 1 THEN met
      ELSE Walk(met, IF comp <= 0 THEN Front(v1) ELSE v1, Front(v2), unalloc)

\* The loop of set_intersection: e1 and e2 are the last of v1 and v2, the
\* vectors before they were popped.
Walk(S, v1, v2, unalloc) ==
  LET comp == Compare(v1[Len(v1)], v2[Len(v2)])
      met == IF comp = 0 THEN Common(S, v1[Len(v1)], unalloc) ELSE S
  IN  IF (comp <= 0 /\ Len(v1) = 1) \/ (comp >= 0 /\ Len(v2) = 1) THEN met
      ELSE Walk(met, IF comp <= 0 THEN Front(v1) ELSE v1,
                     IF comp >= 0 THEN Front(v2) ELSE v2, unalloc)

\* set_intersection: popping from an empty vector leaves e1 or e2 as it was,
\* uninitialized, and the loop compares it.
Intersection(S1, S2, noStruct, unalloc) ==
  LET I == IF noStruct THEN NULL ELSE SetOf(NULL, 0)
  IN  IF S1.count = 0 \/ S2.count = 0 THEN Undefined(SetOf(NULL, 0))
      ELSE Walk(I, Descending(S1), Descending(S2), unalloc)

-----------------------------------------------------------------------------
(* Properties: of the tree of Bst as one operand, where it is a set, and   *)
(* of every tree that insertions alone build from its keys as the other.   *)

IsSet == copy = NULL /\ flavor = "RB" /\ \A n \in Subtrees(root) : n.val = NULL

Empty == SetOf(NULL, 0)

\* The orders to insert some of the keys in
Orders == UNION {{o \in [1 .. n -> Keys] : \A p, q \in 1 .. n : p # q => o[p] # o[q]} :
                   n \in 0 .. Cardinality(Keys)}

Built == {InsertAll(Empty, o, {}) : o \in Orders}
Others == {SetOf(S.root, S.count) : S \in Built}

\* Both ways round
Pairs == {<<SetOf(root, count), S>> : S \in Others} \cup {<<S, SetOf(root, count)>> : S \in Others}

Elements(S) == DOMAIN EntriesOf(S.root)

\* A bound: at most one allocation of each kind fails.
Single(X) == {{}} \cup {{x} : x \in X}

\* S is a legal set of just the elements X.
Exactly(S, X) == S # NULL /\ S.ok /\ Legal(S) /\ Elements(S) = X

\* The elements of the larger of S1 and S2, and those of the other before k
CutShort(S1, S2, k) == Elements(Larger(S1, S2)) \cup {x \in Elements(Smaller(S1, S2)) : x < k}

\* The union holds all elements of both sets and no others, as a legal tree
\* with the right count, and nothing is ever made up (set.c:33-53). On error
\* set.c:34-35 promises NULL; but set_union drops the result of the walk that
\* a failing insertion ends (set.c:51), and hands out a legal set cut short.
\* Either is accepted here; README names the difference.
UnionOfBoth ==
  IsSet =>
    \A p \in Pairs : LET X == Elements(p[1]) \cup Elements(p[2]) IN
      /\ Exactly(Union(p[1], p[2], {}, {}), X)
      /\ \A failing \in Single(Keys \cup {NULL}), unalloc \in Single(Keys) :
           LET U == Union(p[1], p[2], failing, unalloc)
           IN  U = NULL \/ Elements(U) \subseteq X
      /\ \A k \in Keys :
           LET U == Union(p[1], p[2], {}, {k})
           IN  IF k \in X \ Elements(Larger(p[1], p[2]))
               THEN U = NULL \/ Exactly(U, CutShort(p[1], p[2], k))
               ELSE Exactly(U, X)

\* The difference holds the elements of the first set that are not in the
\* second one, whichever is larger; an incomplete copy that is changed
\* further does not pass unasserted (set.c:121-136).
DifferenceExact ==
  IsSet =>
    \A p \in Pairs : LET X == Elements(p[1]) \ Elements(p[2]) IN
      /\ Exactly(Difference(p[1], p[2], {}), X)
      /\ \A failing \in Single(Keys \cup {NULL}) :
           LET D == Difference(p[1], p[2], failing)
           IN  \/ D = NULL \/ Exactly(D, X) \/ ~D.ok
               \/ Elements(D) \subseteq X /\ Elements(p[2]) = {}

\* Of two sets that are not empty, the intersection holds the common elements;
\* the merge pops both vectors in step and stops when either runs out
\* (set.c:71-119). On error set.c:56 promises NULL; but the result of
\* set_insert is ignored (set.c:104), and a set is handed out that lacks just
\* the element without a node; if that is the first one, the missing root is
\* followed (bst.c:465). NULL is accepted too; README names the difference.
IntersectionExact ==
  IsSet =>
    \A p \in Pairs : p[1].count > 0 /\ p[2].count > 0 =>
      LET X == Elements(p[1]) \cap Elements(p[2]) IN
        /\ Intersection(p[1], p[2], TRUE, {}) = NULL
        /\ Exactly(Intersection(p[1], p[2], FALSE, {}), X)
        /\ \A k \in Keys :
             LET I == Intersection(p[1], p[2], FALSE, {k})
             IN  IF k \notin X THEN Exactly(I, X)
                 ELSE I = NULL \/ IF \A x \in X : k <= x THEN ~I.ok ELSE Exactly(I, X \ {k})

\* "Return a new set that contains all elements that are in both S1 and S2 or
\* NULL on error" (set.c:55-56), for empty sets as well.
IntersectionDefined ==
  IsSet => \A p \in Pairs : Intersection(p[1], p[2], FALSE, {}).ok
=============================================================================
