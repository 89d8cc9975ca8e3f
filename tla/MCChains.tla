------------------------------ MODULE MCChains ------------------------------
(* Instances of Chains for TLC: five addresses, a list of two elements, and *)
(* three keys of which two share a bucket.                                  *)
EXTENDS Chains, TLC

CONSTANTS k1, k2, k3, v1, v2

\* k1 and k2 collide though their hashes differ.
Hashes == [k \in {k1, k2, k3} |-> CASE k = k1 -> 1 [] k = k2 -> 3 [] OTHER -> 2]

\* Neither addresses nor values are told apart by the code.
Addresses == Permutations(Addr) \cup Permutations(Values)
=============================================================================
