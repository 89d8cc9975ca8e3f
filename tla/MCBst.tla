-------------------------------- MODULE MCBst --------------------------------
(* Instances of Bst for TLC: the structure of the trees.                   *)
EXTENDS Bst

CONSTANTS v1, v2   \* values

\* As many keys as the trees of each flavor need for their hardest cases
StructureKeys == [NONE |-> 1 .. 5, RB |-> 1 .. 11, AVL |-> 1 .. 10]

RbKeys == [RB |-> 1 .. 2]

\* Keys at both ends of the range of an int of 4 bits
WideKeys == [AVL |-> {-8, -1, 7}]
=============================================================================
