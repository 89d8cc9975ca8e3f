----------------------------- MODULE MCSorting -----------------------------
(* Instances of Sorting for TLC: all arrays up to a length over three values. *)
EXTENDS Sorting

AllPrograms == {"quicksort", "mergesort", "heapsort"}

\* 16 and 8 in the code, scaled down with the arrays
Cutoffs == [p \in AllPrograms |-> IF p = "quicksort" THEN 3 ELSE 2]
=============================================================================
