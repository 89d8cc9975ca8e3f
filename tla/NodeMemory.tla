----------------------------- MODULE NodeMemory -----------------------------
(***************************************************************************)
(* Singly linked chains of nodes in memory, which the lists and the        *)
(* hashmap walk and free with the same loops.  A memory is a function from *)
(* the addresses of the allocated nodes to records with a field next; an   *)
(* address outside its domain is NULL, or dangles.                         *)
(***************************************************************************)
EXTENDS Integers, Sequences, FiniteSets

CONSTANTS
  Addr,     \* the addresses malloc may return for nodes
  NULL      \* the null pointer

ASSUME NodeMemoryAssumption == NULL \notin Addr

\* A node with these contents is allocated at address a.
NewNode(m, a, node) == [x \in DOMAIN m \cup {a} |-> IF x = a THEN node ELSE m[x]]

\* The node at a is freed.
FreeNode(m, a) == [x \in DOMAIN m \ {a} |-> m[x]]

NextOf(m) == [p \in DOMAIN m |-> m[p].next]

\* The addresses met in n steps along link, a function from addresses to
\* addresses, from p on; NULL from where it leads nowhere
Met(link, p, n) ==
  LET at[k \in 0 .. n] ==
        IF k = 0 THEN p
        ELSE LET q == at[k - 1] IN IF q \in DOMAIN link THEN link[q] ELSE NULL
  IN  at

\* The node i steps along next from p, or NULL if that touches memory that
\* is not a node
Walk(m, p, i) ==
  LET q == Met(NextOf(m), p, i)[i] IN IF q \in DOMAIN m THEN q ELSE NULL

\* Freeing node after node from p on, reading next before each free: {what is
\* left of m}, or {} if that touches memory that is not a node (any more)
FreeChain(m, p) ==
  LET at == Met(NextOf(m), p, Cardinality(DOMAIN m))
      ends == {n \in DOMAIN at : at[n] = NULL /\ \A k \in 0 .. n - 1 : at[k] \in DOMAIN m}
  IN  {[x \in DOMAIN m \ {at[k] : k \in 0 .. n - 1} |-> m[x]] : n \in ends}

\* The nodes met from p along link, at most n of them
ChainAlong(link, p, n) ==
  LET at == Met(link, p, n)
  IN  [k \in {j \in 1 .. n : at[j - 1] \in DOMAIN link} |-> at[k - 1]]

\* The chain from p, as far as it leads through distinct nodes
Chain(m, p) == ChainAlong(NextOf(m), p, Cardinality(DOMAIN m))
=============================================================================
