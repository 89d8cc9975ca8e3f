-------------------------- MODULE MCPriorityQueue --------------------------
(* Instances of PriorityQueue for TLC.                                     *)
EXTENDS PriorityQueue

CONSTANTS e1, e2, e3   \* elements

\* Elements that are equal for the compare function occur as the same element
\* enqueued several times.
Ranking == [e \in {e1, e2, e3} |-> CASE e = e1 -> 1 [] e = e2 -> 2 [] OTHER -> 3]
=============================================================================
