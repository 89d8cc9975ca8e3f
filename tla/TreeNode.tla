------------------------------ MODULE TreeNode ------------------------------
(***************************************************************************)
(* The nodes of the search trees of src/bst.c, as nested records: a link   *)
(* is NULL or the node it points to.  Trees are changed the way the header *)
(* of bst.c describes: an operation returns the new root of the subtree    *)
(* and its caller stores it in its own link.                               *)
(***************************************************************************)
EXTENDS Integers

CONSTANTS
  NULL,      \* the null link, and the value of a node that has none
  IntBits    \* the width of int, for keys of int_type

\* Two's complement of the given width.
Wrap(x, bits) == ((x + 2^(bits - 1)) % 2^bits) - 2^(bits - 1)

\* int_compare: a difference of two ints, which may overflow.
Compare(a, b) == Wrap(a - b, IntBits)

\* One flag field stands for the flavors' union: unused, the color of a
\* red-black node or the balance of an AVL node; calloc leaves 0.
Node(k, v) == [key |-> k, val |-> v, flag |-> 0, left |-> NULL, right |-> NULL]

\* bst_n_set_value, called only if a value is given
SetValue(n, v) == IF v = NULL THEN n ELSE [n EXCEPT !.val = v]

\* Mutant of MoveData: the key moves without its value.
MoveKeyOnly(dest, src) == [dest EXCEPT !.key = src.key]

\* bst_n_move_data: the payload of src replaces that of dest
MoveData(dest, src) == [dest EXCEPT !.key = src.key, !.val = src.val]

\* What a recursive tree operation hands up: the new subtree, its return
\* code, its change of height (AVL), and whether all assertions held.
Outcome(t, code, dh, ok) == [t |-> t, rc |-> code, dh |-> dh, ok |-> ok]
Result(t, code) == Outcome(t, code, 0, TRUE)

\* The end of every insertion that does not find its key: a new node
NewNode(k, v, alloc) ==
  IF alloc THEN Outcome(Node(k, v), 1, 1, TRUE) ELSE Result(NULL, -1)
=============================================================================
