------------------------------ MODULE MCVector ------------------------------
(* Instances of Vector for TLC.                                            *)
EXTENDS Vector

CONSTANTS e1, e2   \* elements
=============================================================================
