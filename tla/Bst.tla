--------------------------------- MODULE Bst ---------------------------------
(***************************************************************************)
(* The binary search tree of src/bst.c, which is also the map and the set  *)
(* of the library: one tree, any sequence of calls, every allocation of a  *)
(* node may fail.  An assertion that fails inside an operation is recorded *)
(* in ok; a NULL pointer that is dereferenced ends the program (crashed).  *)
(***************************************************************************)
EXTENDS TreeWalks

CONSTANTS
  KeysOf,   \* for each flavor of tree in use, the keys: integers of IntBits bits
  Values    \* the values a caller maps keys to; none for a set

Flavors == DOMAIN KeysOf
AllKeys == UNION {KeysOf[f] : f \in Flavors}

ASSUME BstAssumption ==
  /\ IntBits \in Nat \ {0}
  /\ Flavors \subseteq {"NONE", "RB", "AVL"}
  /\ AllKeys \subseteq -(2^(IntBits - 1)) .. 2^(IntBits - 1) - 1
  /\ NULL \notin Values

VARIABLES
  flavor, root, count,   \* the bst struct
  rc,                    \* what the last call returned
  ok,                    \* no assertion of rb.c or avl.c has failed
  crashed                \* a NULL pointer was dereferenced

vars == <<flavor, root, count, rc, ok, crashed>>

Keys == KeysOf[flavor]

-----------------------------------------------------------------------------
InsertNode(k, v, alloc) ==
  CASE flavor = "RB"  -> RbInsert(root, k, v, alloc)
    [] flavor = "AVL" -> AvlInsert(root, k, v, alloc)
    [] OTHER          -> PlainInsert(root, k, v, alloc)

RemoveNode(k) ==
  CASE flavor = "RB"  -> RbRemove(root, k)
    [] flavor = "AVL" -> AvlRemove(root, k)
    [] OTHER          -> PlainRemove(root, k)

\* Mutant of Blackened: the root keeps the color the recursion leaves.
BlackenedNever(t) == t

\* The root of a red-black tree is made black after every change.
Blackened(t) == IF flavor = "RB" /\ t # NULL THEN [t EXCEPT !.flag = BLACK] ELSE t

\* The call stores the outcome r; d is what it adds to count on success.
Store(r, d) ==
  /\ root' = Blackened(r.t)
  /\ count' = IF r.rc = 1 THEN count + d ELSE count
  /\ rc' = r.rc
  /\ ok' = (ok /\ r.ok)
  /\ UNCHANGED <<flavor, crashed>>

\* bst_insert (v = NULL) and bst_set: in a red-black tree the color of the
\* root is set without looking whether there is a root.
Add(k, v, alloc) ==
  /\ ~crashed
  /\ LET r == InsertNode(k, v, alloc)
     IN  IF flavor = "RB" /\ r.t = NULL
         THEN crashed' = TRUE /\ UNCHANGED <<flavor, root, count, rc, ok>>
         ELSE Store(r, 1)

Insert(k, alloc) == Add(k, NULL, alloc)
Set(k, v, alloc) == Add(k, v, alloc)

Remove(k) == ~crashed /\ Store(RemoveNode(k), -1)

\* bst_clear, and bst_destroy followed by bst_initialize
Clear ==
  /\ ~crashed
  /\ root' = NULL /\ count' = 0 /\ rc' = 0
  /\ UNCHANGED <<flavor, ok, crashed>>

\* bst_initialize
Init ==
  /\ flavor \in Flavors
  /\ root = NULL /\ count = 0 /\ rc = 0 /\ ok = TRUE /\ crashed = FALSE

Next ==
  \/ \E k \in Keys, alloc \in BOOLEAN :
       Insert(k, alloc) \/ \E v \in Values : Set(k, v, alloc)
  \/ \E k \in Keys : Remove(k)
  \/ Clear

Spec == Init /\ [][Next]_vars

\* bst_invariant, which the library asserts before and after every call
BstInvariant(n, total) ==
  /\ total = TotalNodes(n)
  /\ KeysOrdered(n)
  /\ flavor = "RB" => RbInvariant(n)
  /\ flavor = "AVL" => AvlInvariant(n)

-----------------------------------------------------------------------------
(* Properties.                                                             *)

\* The contents: the value (or NULL) that each key is mapped to.
EntriesOf(t) == [k \in {n.key : n \in Subtrees(t)} |->
                   (CHOOSE n \in Subtrees(t) : n.key = k).val]
Entries == EntriesOf(root)

\* All variables keep their type, with keys and values from the caller's sets.
TypeOK ==
  /\ \A n \in Subtrees(root) :
       n.key \in Keys /\ n.val \in Values \cup {NULL} /\ n.flag \in -4 .. 3
  /\ count \in 0 .. Cardinality(Keys)
  /\ flavor \in Flavors /\ rc \in {-1, 0, 1} /\ ok \in BOOLEAN /\ crashed \in BOOLEAN

\* The library's own assertion around every call (bst.c:459, 475, 490, 506,
\* 524, 540), and the type of the tree: it never fails, whatever calls and
\* failures came before.
InvariantAsserted == TypeOK /\ BstInvariant(root, count) /\ ok

\* What bst_invariant does not check, as it compares a node with its children
\* only: the walk in either direction meets every key once, in the order of
\* the integers, and a callback that returns non-zero ends it there (bst.c:569-764).
WalksInOrder ==
  LET up == Traverse(root, {}).keys
      n == Len(up)
  IN  /\ \A p, q \in 1 .. n : p < q => up[p] < up[q]
      /\ TraverseR(root, {}).keys = [p \in 1 .. n |-> up[n + 1 - p]]
      /\ \A p \in 1 .. n :
           /\ Traverse(root, {up[p]}) = Walked(SubSeq(up, 1, p), 1)
           /\ TraverseR(root, {up[p]}).keys = [q \in 1 .. n + 1 - p |-> up[n + 1 - q]]

\* A search finds a key if and only if some node holds it: rotations and the
\* moving of a successor's data never put a key out of reach (bst.c:100-114, 429-448).
SearchFindsAll ==
  \A k \in Keys : Find(root, k) # NULL <=> k \in DOMAIN Entries

\* A red-black tree leans left and has a black root, which rb_n_invariant
\* does not check but every operation of rb.c relies on (rb.c:160-163, 203, 207).
LeansLeft ==
  flavor = "RB" /\ root # NULL =>
    /\ ~IsRed(root)
    /\ \A n \in Subtrees(root) : ~IsRed(n.right)

\* No call dereferences a NULL root: bst_insert and bst_set return -1 on
\* error (bst.c:452, 514-515).
NoNullDereference == ~crashed

Map == INSTANCE MapSpec WITH map <- Entries, Keys <- AllKeys

\* The tree is a map from keys to values whatever its flavor: each call has
\* the effect and the return code its comment promises, for its own key and
\* value, and a failed call changes nothing.
ImplementsMap == Map!Spec

CallsKeepTheirPromises ==
  [][/\ \A k \in Keys, alloc \in BOOLEAN :
          /\ Insert(k, alloc) => crashed' \/ Map!Insert(k)
          /\ \A v \in Values : Set(k, v, alloc) => crashed' \/ Map!Set(k, v)
          /\ (Insert(k, TRUE) \/ \E v \in Values : Set(k, v, TRUE)) => rc' # -1
     /\ \A k \in Keys : Remove(k) => Map!Remove(k)
     /\ Clear => Map!Clear
    ]_vars
=============================================================================
