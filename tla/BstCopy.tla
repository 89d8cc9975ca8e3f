------------------------------- MODULE BstCopy -------------------------------
(***************************************************************************)
(* bst_copy and bst_copy_to of src/bst.c beside the tree of Bst: any of    *)
(* the allocations of a copy may fail.                                     *)
(***************************************************************************)
EXTENDS Bst

CONSTANT CopyRec(_, _)   \* bst_n_copy_rec, a recursive function as in PlainSteps

VARIABLE copy   \* the copy just made, a bst struct, or NULL if there is none

copyVars == <<vars, copy>>

\* Mutant of CopyRecStep: the flags byte is not copied.
CopyRecStepNoFlags(n, failing) ==
  LET l == CopyRec(n.left, failing)
      r == CopyRec(n.right, failing)
  IN  CASE n = NULL                        -> NULL
        [] n # NULL /\ n.key \in failing   -> NULL
        [] OTHER                           -> [n EXCEPT !.flag = 0, !.left = l, !.right = r]

\* No node is made for a key whose calloc fails, and a copy that is NULL is
\* linked like any other.
CopyRecStep(n, failing) ==
  LET l == CopyRec(n.left, failing)
      r == CopyRec(n.right, failing)
  IN  CASE n = NULL                        -> NULL
        [] n # NULL /\ n.key \in failing   -> NULL
        [] OTHER                           -> [n EXCEPT !.left = l, !.right = r]

\* bst_copy with no memory for the struct
CopyFails == copy' = NULL

\* The keys whose nodes cannot be allocated during a copy
Failures == SUBSET DOMAIN Entries

\* A copy while the nodes of the keys in failing cannot be allocated: the
\* result of bst_n_copy_rec is not looked at, and the count is that of the source.
CopyTree(failing) == copy' = [root |-> CopyRec(root, failing), count |-> count]

Copy(failing) ==
  /\ ~crashed
  /\ CopyTree(failing) \/ CopyFails
  /\ UNCHANGED vars

\* The copy is deleted; it shares nothing with its source, which is not used
\* as long as there is a copy.
Delete ==
  /\ copy # NULL /\ copy' = NULL
  /\ UNCHANGED vars

CopyInit == Init /\ copy = NULL

CopyNext ==
  \/ copy = NULL /\ Next /\ UNCHANGED copy
  \/ copy = NULL /\ \E failing \in Failures : Copy(failing)
  \/ Delete

CopySpec == CopyInit /\ [][CopyNext]_copyVars

-----------------------------------------------------------------------------
\* Whatever allocations fail, a copy that is handed out is in order and maps
\* its keys as the source does; if none fails it is a tree of the flavor with
\* all the content and the right count (bst.c:275-298, 385-425).
CopySound ==
  [][\A failing \in Failures :
       Copy(failing) /\ copy' # NULL =>
         LET e == EntriesOf(copy'.root)
             up == Traverse(copy'.root, {}).keys
         IN  /\ \A k \in DOMAIN e : k \in DOMAIN Entries /\ e[k] = Entries[k]
             /\ \A p, q \in 1 .. Len(up) : p < q => up[p] < up[q]
             /\ failing = {} =>
                  BstInvariant(copy'.root, copy'.count) /\ e = Entries
    ]_copyVars
=============================================================================
