------------------------------- MODULE MapSpec -------------------------------
(***************************************************************************)
(* What the comments of src/bst.c promise: a map from keys to values (NULL *)
(* for a key inserted without one) and, for every call, its effect on the  *)
(* map and the code it returns.  A call that has to add a node may fail.   *)
(***************************************************************************)
EXTENDS Integers

CONSTANTS Keys, Values, NULL
VARIABLES map, rc

vars == <<map, rc>>

Init == map = [k \in {} |-> NULL] /\ rc = 0

Returns(m, code) == map' = m /\ rc' = code

With(k, v) == [x \in DOMAIN map \cup {k} |-> IF x = k THEN v ELSE map[x]]
Without(k) == [x \in DOMAIN map \ {k} |-> map[x]]

Has(k) == k \in DOMAIN map

Fail == Returns(map, -1)

\* bst_insert (bst.c:450-452): a key that is there keeps its value
Insert(k) ==
  \/ Has(k) /\ Returns(map, 0)
  \/ ~Has(k) /\ (Returns(With(k, NULL), 1) \/ Fail)

\* bst_set (bst.c:512-515)
Set(k, v) ==
  \/ Has(k) /\ Returns(With(k, v), 0)
  \/ ~Has(k) /\ (Returns(With(k, v), 1) \/ Fail)

\* bst_remove (bst.c:481-483) needs no memory
Remove(k) ==
  \/ Has(k) /\ Returns(Without(k), 1)
  \/ ~Has(k) /\ Returns(map, 0)

\* bst_clear (bst.c:349-350)
Clear == Returns([k \in {} |-> NULL], 0)

Next ==
  \/ \E k \in Keys : Insert(k) \/ Remove(k) \/ \E v \in Values : Set(k, v)
  \/ Clear

Spec == Init /\ [][Next]_vars
=============================================================================
