------------------------------ MODULE MCSetOps ------------------------------
(* Instances of SetOps for TLC: maps, their copies, and sets.              *)
EXTENDS SetOps

CONSTANTS v1, v2   \* values

MapKeys == [NONE |-> 1 .. 3, RB |-> 1 .. 4, AVL |-> 1 .. 4]
SetKeys == [RB |-> 1 .. 3]
=============================================================================
