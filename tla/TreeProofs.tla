----------------------------- MODULE TreeProofs -----------------------------
(***************************************************************************)
(* Theorems about the trees of src/bst.c, src/avl.c and src/rb.c, of any   *)
(* height and with any entries: what searching, inserting and removing     *)
(* make of the order of the entries, of what a tree holds and of its       *)
(* balance, and, from that, that under any sequence of calls a tree keeps  *)
(* the invariants of Bst and implements the map of MapSpec.                *)
(*                                                                         *)
(* A flavor is given by the set H of all its trees, each with its height   *)
(* and what it holds; a node of H stands over two others of H. A recursive *)
(* function of the code is a CONSTANT operator: what a theorem takes for   *)
(* granted of it is that it equals its body (Find(n, k) = FindStep(n, k))  *)
(* on the trees of H. Each lemma follows one call one level down, and a    *)
(* theorem joins them by way of the least tree on which the operation      *)
(* would go wrong.                                                         *)
(***************************************************************************)
EXTENDS Bst, HeapProofs, SequenceTheorems

IsNode(n) ==
  n = [key |-> n.key, val |-> n.val, flag |-> n.flag, left |-> n.left, right |-> n.right]

\* A node with these fields
NodeWith(k, v, f, l, r) == [key |-> k, val |-> v, flag |-> f, left |-> l, right |-> r]

\* What a node maps to what, and all that it and its subtrees do, if they hold L and R
Entry(n) == <<n.key, n.val>>
EntriesOver(n, L, R) == L \cup {Entry(n)} \cup R

\* n, in X, stands in order between the entries L and R of its subtrees.
Placed(n, L, R, X) ==
  /\ Entry(n) \in X /\ L \in SUBSET X /\ R \in SUBSET X
  /\ \A e \in L : e[1] < n.key
  /\ \A e \in R : n.key < e[1]

\* The fields of a node
LEMMA NodeFields ==
  ASSUME NEW k, NEW v, NEW f, NEW l, NEW r
  PROVE  LET n == NodeWith(k, v, f, l, r)
         IN  /\ IsNode(n) /\ Entry(n) = <<k, v>>
             /\ n.key = k /\ n.val = v /\ n.flag = f /\ n.left = l /\ n.right = r
  BY DEF NodeWith, IsNode, Entry

\* What a node stands between depends on its key and value alone.
LEMMA StandsAs ==
  ASSUME NEW n, NEW m, NEW L, NEW R, NEW X, Entry(m) = Entry(n)
  PROVE  /\ m.key = n.key /\ m.val = n.val
         /\ Placed(m, L, R, X) <=> Placed(n, L, R, X)
         /\ EntriesOver(m, L, R) = EntriesOver(n, L, R)
<1>1. m.key = n.key /\ m.val = n.val
  BY DEF Entry
<1> QED
  BY <1>1 DEF Placed, EntriesOver

\* Three subtrees around two nodes: either node may be the upper one.
LEMMA PlacesTurn ==
  ASSUME NEW X, NEW A, NEW B, NEW C, NEW p, NEW q, \A e \in X : e[1] \in Int
  PROVE  /\ Placed(p, A, EntriesOver(q, B, C), X) /\ Placed(q, B, C, X)
              <=> Placed(q, EntriesOver(p, A, B), C, X) /\ Placed(p, A, B, X)
         /\ EntriesOver(p, A, EntriesOver(q, B, C)) = EntriesOver(q, EntriesOver(p, A, B), C)
<1>1. EntriesOver(p, A, EntriesOver(q, B, C)) = EntriesOver(q, EntriesOver(p, A, B), C)
  BY DEF EntriesOver
<1>2. Entry(p)[1] = p.key /\ Entry(q)[1] = q.key
  BY DEF Entry
<1>3. ASSUME Placed(p, A, EntriesOver(q, B, C), X), Placed(q, B, C, X)
      PROVE  Placed(q, EntriesOver(p, A, B), C, X) /\ Placed(p, A, B, X)
  <2>1. p.key \in Int /\ q.key \in Int
    BY <1>2, <1>3 DEF Placed
  <2>2. p.key < q.key
    BY <1>2, <1>3 DEF Placed, EntriesOver
  <2>3. Placed(p, A, B, X)
    BY <1>3 DEF Placed, EntriesOver
  <2>4. \A e \in A : e[1] \in Int /\ e[1] < p.key
    BY <1>3 DEF Placed
  <2>5. \A e \in EntriesOver(p, A, B) : e[1] < q.key
    BY <1>2, <1>3, <2>1, <2>2, <2>4 DEF Placed, EntriesOver
  <2>6. EntriesOver(p, A, B) \in SUBSET X
    BY <2>3 DEF Placed, EntriesOver
  <2> QED
    BY <1>3, <2>3, <2>5, <2>6 DEF Placed
<1>4. ASSUME Placed(q, EntriesOver(p, A, B), C, X), Placed(p, A, B, X)
      PROVE  Placed(p, A, EntriesOver(q, B, C), X) /\ Placed(q, B, C, X)
  <2>1. p.key \in Int /\ q.key \in Int
    BY <1>2, <1>4 DEF Placed
  <2>2. p.key < q.key
    BY <1>2, <1>4 DEF Placed, EntriesOver
  <2>3. Placed(q, B, C, X)
    BY <1>4 DEF Placed, EntriesOver
  <2>4. \A e \in C : e[1] \in Int /\ q.key < e[1]
    BY <1>4 DEF Placed
  <2>5. \A e \in EntriesOver(q, B, C) : p.key < e[1]
    BY <1>2, <1>4, <2>1, <2>2, <2>4 DEF Placed, EntriesOver
  <2>6. EntriesOver(q, B, C) \in SUBSET X
    BY <2>3 DEF Placed, EntriesOver
  <2> QED
    BY <1>4, <2>3, <2>5, <2>6 DEF Placed
<1> QED
  BY <1>1, <1>3, <1>4

\* A node with another left child
LEMMA LeftSet ==
  ASSUME NEW n, IsNode(n), NEW t
  PROVE  LET m == [n EXCEPT !.left = t]
         IN  IsNode(m) /\ Entry(m) = Entry(n) /\ m.flag = n.flag /\ m.left = t /\ m.right = n.right
<1>1. [n EXCEPT !.left = t] = NodeWith(n.key, n.val, n.flag, t, n.right)
  BY SMT DEF IsNode, NodeWith
<1> QED
  BY <1>1, NodeFields DEF Entry

\* A node with another right child
LEMMA RightSet ==
  ASSUME NEW n, IsNode(n), NEW t
  PROVE  LET m == [n EXCEPT !.right = t]
         IN  IsNode(m) /\ Entry(m) = Entry(n) /\ m.flag = n.flag /\ m.left = n.left /\ m.right = t
<1>1. [n EXCEPT !.right = t] = NodeWith(n.key, n.val, n.flag, n.left, t)
  BY SMT DEF IsNode, NodeWith
<1> QED
  BY <1>1, NodeFields DEF Entry

\* The data of another node
LEMMA DataMoved ==
  ASSUME NEW m, NEW s, IsNode(m)
  PROVE  MoveData(m, s) = NodeWith(s.key, s.val, m.flag, m.left, m.right)
<1>1. MoveData(m, s) = [[m EXCEPT !.key = s.key] EXCEPT !.val = s.val]
  BY SMT DEF MoveData
<1>2. [m EXCEPT !.key = s.key] = NodeWith(s.key, m.val, m.flag, m.left, m.right)
  BY SMT DEF IsNode, NodeWith
<1>3. [NodeWith(s.key, m.val, m.flag, m.left, m.right) EXCEPT !.val = s.val]
        = NodeWith(s.key, s.val, m.flag, m.left, m.right)
  BY SMT DEF NodeWith
<1> QED
  BY <1>1, <1>2, <1>3

\* The fields of an outcome
LEMMA OutcomeHas ==
  ASSUME NEW t, NEW c, NEW d, NEW o
  PROVE  LET r == Outcome(t, c, d, o) IN r.t = t /\ r.rc = c /\ r.dh = d /\ r.ok = o
  BY DEF Outcome

\* Comparing k with the key of any entry of X does not overflow.
Comparable(k, X) ==
  \A e \in X : /\ Compare(k, e[1]) < 0 <=> k < e[1]
               /\ Compare(k, e[1]) = 0 <=> k = e[1]
               /\ Compare(k, e[1]) > 0 <=> k > e[1]

\* What an insertion of k with the value v makes of the entries E: it returns
\* code and they become F.
Inserted(E, k, v, alloc, F, code) ==
  IF \E e \in E : e[1] = k
  THEN code = 0 /\ F = IF v = NULL THEN E ELSE {e \in E : e[1] # k} \cup {<<k, v>>}
  ELSE IF alloc THEN code = 1 /\ F = E \cup {<<k, v>>} ELSE code = -1 /\ F = E

\* An insertion in the left subtree is one in the tree, ...
LEMMA InsertedLeft ==
  ASSUME NEW n, NEW L, NEW R, NEW X, NEW k, NEW v, NEW alloc, NEW M, NEW code,
         Placed(n, L, R, X), \A e \in X : e[1] \in Int, <<k, v>> \in X, k < n.key,
         Inserted(L, k, v, alloc, M, code)
  PROVE  /\ M \in SUBSET X /\ \A e \in M : e[1] < n.key
         /\ Inserted(EntriesOver(n, L, R), k, v, alloc, EntriesOver(n, M, R), code)
<1>1. <<k, v>>[1] = k /\ k \in Int /\ Entry(n)[1] = n.key /\ n.key \in Int
  BY DEF Placed, Entry
<1>2. \A e \in R : e[1] # k
  BY <1>1 DEF Placed
<1>3. Entry(n)[1] # k
  BY <1>1
<1>4. M \in SUBSET X /\ \A e \in M : e[1] < n.key
  BY <1>1 DEF Inserted, Placed
<1>5. (\E e \in L : e[1] = k) <=> (\E e \in EntriesOver(n, L, R) : e[1] = k)
  BY <1>2, <1>3 DEF EntriesOver
<1>6. {e \in EntriesOver(n, L, R) : e[1] # k} = EntriesOver(n, {e \in L : e[1] # k}, R)
  BY <1>2, <1>3 DEF EntriesOver
<1> QED
  BY <1>4, <1>5, <1>6 DEF Inserted, EntriesOver

\* ... and so is one in the right subtree, ...
LEMMA InsertedRight ==
  ASSUME NEW n, NEW L, NEW R, NEW X, NEW k, NEW v, NEW alloc, NEW M, NEW code,
         Placed(n, L, R, X), \A e \in X : e[1] \in Int, <<k, v>> \in X, k > n.key,
         Inserted(R, k, v, alloc, M, code)
  PROVE  /\ M \in SUBSET X /\ \A e \in M : n.key < e[1]
         /\ Inserted(EntriesOver(n, L, R), k, v, alloc, EntriesOver(n, L, M), code)
<1>1. <<k, v>>[1] = k /\ k \in Int /\ Entry(n)[1] = n.key /\ n.key \in Int
  BY DEF Placed, Entry
<1>2. \A e \in L : e[1] # k
  BY <1>1 DEF Placed
<1>3. Entry(n)[1] # k
  BY <1>1
<1>4. M \in SUBSET X /\ \A e \in M : n.key < e[1]
  BY <1>1 DEF Inserted, Placed
<1>5. (\E e \in R : e[1] = k) <=> (\E e \in EntriesOver(n, L, R) : e[1] = k)
  BY <1>2, <1>3 DEF EntriesOver
<1>6. {e \in EntriesOver(n, L, R) : e[1] # k} = EntriesOver(n, L, {e \in R : e[1] # k})
  BY <1>2, <1>3 DEF EntriesOver
<1> QED
  BY <1>4, <1>5, <1>6 DEF Inserted, EntriesOver

\* ... and so is a new value for the node itself.
LEMMA InsertedHere ==
  ASSUME NEW n, NEW m, NEW L, NEW R, NEW X, NEW v, NEW alloc,
         Placed(n, L, R, X), \A e \in X : e[1] \in Int,
         Entry(m) = IF v = NULL THEN Entry(n) ELSE <<n.key, v>>
  PROVE  Inserted(EntriesOver(n, L, R), n.key, v, alloc, EntriesOver(m, L, R), 0)
<1>1. Entry(n)[1] = n.key /\ n.key \in Int
  BY DEF Placed, Entry
<1>2. /\ \A e \in L : e[1] # n.key
      /\ \A e \in R : e[1] # n.key
  BY <1>1 DEF Placed
<1>3. {e \in EntriesOver(n, L, R) : e[1] # n.key} = L \cup R
  BY <1>1, <1>2 DEF EntriesOver
<1> QED
  BY <1>1, <1>3 DEF Inserted, EntriesOver


\* What a removal of k makes of the entries E
Removed(E, k, F, code) ==
  IF \E e \in E : e[1] = k THEN code = 1 /\ F = {e \in E : e[1] # k} ELSE code = 0 /\ F = E

\* F is what is left of E without its first entry s.
FirstGone(s, E, F) == s \in E /\ F = E \ {s} /\ \A e \in F : s[1] < e[1]

\* A removal in the left subtree is one in the tree, ...
LEMMA RemovedLeft ==
  ASSUME NEW m, NEW L, NEW R, NEW X, NEW k, NEW M, NEW code,
         Placed(m, L, R, X), \A e \in X : e[1] \in Int,
         \A e \in EntriesOver(m, L, R) : e[1] = k => e \in L,
         Removed(L, k, M, code)
  PROVE  M \in SUBSET L /\ Removed(EntriesOver(m, L, R), k, EntriesOver(m, M, R), code)
<1>1. Entry(m)[1] = m.key /\ m.key \in Int
  BY DEF Placed, Entry
<1>2. \A e \in L : e \in X /\ e[1] \in Int /\ e[1] < m.key
  BY DEF Placed
<1>3. \A e \in R : e \in X /\ e[1] \in Int /\ m.key < e[1]
  BY DEF Placed
<1>4. \A e \in R : e \notin L
  BY <1>1, <1>2, <1>3
<1>5. Entry(m) \notin L
  BY <1>1, <1>2
<1>6. \A e \in R : e[1] # k
  BY <1>4 DEF EntriesOver
<1>7. Entry(m)[1] # k
  BY <1>5 DEF EntriesOver
<1>8. (\E e \in L : e[1] = k) <=> (\E e \in EntriesOver(m, L, R) : e[1] = k)
  BY <1>6, <1>7 DEF EntriesOver
<1>9. {e \in EntriesOver(m, L, R) : e[1] # k} = EntriesOver(m, {e \in L : e[1] # k}, R)
  BY <1>6, <1>7 DEF EntriesOver
<1> QED
  BY <1>8, <1>9 DEF Removed

\* ... and so is one in the right subtree, ...
LEMMA RemovedRight ==
  ASSUME NEW m, NEW L, NEW R, NEW X, NEW k, NEW M, NEW code,
         Placed(m, L, R, X), \A e \in X : e[1] \in Int,
         \A e \in EntriesOver(m, L, R) : e[1] = k => e \in R,
         Removed(R, k, M, code)
  PROVE  M \in SUBSET R /\ Removed(EntriesOver(m, L, R), k, EntriesOver(m, L, M), code)
<1>1. Entry(m)[1] = m.key /\ m.key \in Int
  BY DEF Placed, Entry
<1>2. \A e \in L : e \in X /\ e[1] \in Int /\ e[1] < m.key
  BY DEF Placed
<1>3. \A e \in R : e \in X /\ e[1] \in Int /\ m.key < e[1]
  BY DEF Placed
<1>4. \A e \in L : e \notin R
  BY <1>1, <1>2, <1>3
<1>5. Entry(m) \notin R
  BY <1>1, <1>3
<1>6. \A e \in L : e[1] # k
  BY <1>4 DEF EntriesOver
<1>7. Entry(m)[1] # k
  BY <1>5 DEF EntriesOver
<1>8. (\E e \in R : e[1] = k) <=> (\E e \in EntriesOver(m, L, R) : e[1] = k)
  BY <1>6, <1>7 DEF EntriesOver
<1>9. {e \in EntriesOver(m, L, R) : e[1] # k} = EntriesOver(m, L, {e \in R : e[1] # k})
  BY <1>6, <1>7 DEF EntriesOver
<1> QED
  BY <1>8, <1>9 DEF Removed

\* ... and so is taking the node itself for the first one on its right.
LEMMA RemovedHere ==
  ASSUME NEW m, NEW d, NEW s, NEW L, NEW R, NEW X, NEW M,
         Placed(m, L, R, X), \A e \in X : e[1] \in Int,
         Entry(d) = Entry(s), FirstGone(Entry(s), R, M)
  PROVE  M \in SUBSET R /\ Removed(EntriesOver(m, L, R), m.key, EntriesOver(d, L, M), 1)
<1>1. Entry(m)[1] = m.key /\ m.key \in Int
  BY DEF Placed, Entry
<1>2. \A e \in L : e[1] # m.key
  BY <1>1 DEF Placed
<1>3. \A e \in R : e[1] # m.key
  BY <1>1 DEF Placed
<1>4. {e \in EntriesOver(m, L, R) : e[1] # m.key} = L \cup R
  BY <1>1, <1>2, <1>3 DEF EntriesOver
<1>5. EntriesOver(d, L, M) = L \cup R
  BY DEF EntriesOver, FirstGone
<1> QED
  BY <1>1, <1>4, <1>5 DEF Removed, FirstGone, EntriesOver

\* The first entry of the left subtree is that of the tree, ...
LEMMA FirstLeft ==
  ASSUME NEW m, NEW s, NEW L, NEW R, NEW X, NEW M,
         Placed(m, L, R, X), \A e \in X : e[1] \in Int, FirstGone(s, L, M)
  PROVE  M \in SUBSET L /\ FirstGone(s, EntriesOver(m, L, R), EntriesOver(m, M, R))
<1>1. Entry(m)[1] = m.key /\ m.key \in Int
  BY DEF Placed, Entry
<1>2. s \in L /\ s \in X /\ s[1] \in Int /\ s[1] < m.key
  BY DEF Placed, FirstGone
<1>3. \A e \in R : e \in X /\ e[1] \in Int /\ m.key < e[1]
  BY DEF Placed
<1>4. (\A e \in R : s[1] < e[1]) /\ s[1] < Entry(m)[1]
  BY <1>1, <1>2, <1>3
<1>5. s \notin R /\ s # Entry(m)
  BY <1>2, <1>4
<1>6. EntriesOver(m, M, R) = EntriesOver(m, L, R) \ {s}
  BY <1>5 DEF EntriesOver, FirstGone
<1>7. \A e \in EntriesOver(m, M, R) : s[1] < e[1]
  BY <1>4 DEF EntriesOver, FirstGone
<1> QED
  BY <1>2, <1>6, <1>7 DEF FirstGone, EntriesOver

\* ... and a node without a left subtree is the first itself.
LEMMA FirstHere ==
  ASSUME NEW n, NEW R, NEW X, Placed(n, {}, R, X), \A e \in X : e[1] \in Int
  PROVE  FirstGone(Entry(n), EntriesOver(n, {}, R), R)
<1>1. Entry(n)[1] = n.key /\ n.key \in Int
  BY DEF Placed, Entry
<1>2. Entry(n) \notin R
  BY <1>1 DEF Placed
<1> QED
  BY <1>1, <1>2 DEF FirstGone, EntriesOver, Placed

\* There is but one first entry.
LEMMA FirstUnique ==
  ASSUME NEW s, NEW t, NEW E, NEW M, NEW F, \A e \in E : e[1] \in Int,
         FirstGone(s, E, M), FirstGone(t, E, F)
  PROVE  s = t /\ M = F
<1>1. s \in E /\ t \in E /\ s[1] \in Int /\ t[1] \in Int
  BY DEF FirstGone
<1>2. s # t => s[1] < t[1] /\ t[1] < s[1]
  BY <1>1 DEF FirstGone
<1> QED
  BY <1>1, <1>2 DEF FirstGone

-----------------------------------------------------------------------------
(* Ordered trees of any flavor.                                            *)

\* n stands in order over two trees of T of ranks less than w, and E is what they all hold.
OverLesser(n, w, E, T, X) ==
  \E x, y, L, R :
    /\ <<n.left, x, L>> \in T /\ <<n.right, y, R>> \in T /\ x < w /\ y < w
    /\ Placed(n, L, R, X) /\ E = EntriesOver(n, L, R)

\* Each member of T is a tree with entries in X, with a rank that is less for its
\* subtrees, and what it holds; every node stands in order between its subtrees.
OrderedTrees(T, X) ==
  /\ \A e \in X : e[1] \in Int
  /\ \A n, w, E : <<n, w, E>> \in T => w \in Nat /\ E \in SUBSET X /\ (n = NULL => E = {})
  /\ \A n, w, E : <<n, w, E>> \in T /\ n # NULL => OverLesser(n, w, E, T, X)

\* Of some trees one has the least rank.
LEMMA LeastRank ==
  ASSUME NEW T, NEW X, NEW Bad, OrderedTrees(T, X), Bad \in SUBSET T,
         \E n, w, E : <<n, w, E>> \in Bad
  PROVE  \E n, w, E : /\ <<n, w, E>> \in Bad /\ <<n, w, E>> \in T
                      /\ \A m, g, F : <<m, g, F>> \in Bad => ~(g < w)
<1> DEFINE W == {w \in Nat : \E n, E : <<n, w, E>> \in Bad}
<1>1. \A n, w, E : <<n, w, E>> \in Bad => w \in W
  <2> SUFFICES ASSUME NEW n, NEW w, NEW E, <<n, w, E>> \in Bad PROVE w \in Nat
    OBVIOUS
  <2>1. <<n, w, E>> \in T
    OBVIOUS
  <2> QED
    BY <2>1 DEF OrderedTrees
<1>2. W \in SUBSET Nat /\ W # {}
  BY <1>1
<1>3. PICK w \in W : \A y \in W : w <= y
  <2> HIDE DEF W
  <2> QED
    BY <1>2, LeastNumber
<1>4. PICK n, E : <<n, w, E>> \in Bad
  OBVIOUS
<1>5. \A m, g, F : <<m, g, F>> \in Bad => ~(g < w)
  <2> SUFFICES ASSUME NEW m, NEW g, NEW F, <<m, g, F>> \in Bad PROVE ~(g < w)
    OBVIOUS
  <2>1. g \in W
    BY <1>1
  <2>2. w <= g /\ w \in Nat /\ g \in Nat
    BY <1>3, <2>1
  <2> QED
    BY <2>2
<1> QED
  BY <1>4, <1>5

\* Leftmost is the recursion of the code on each tree of T.
Leftmosts(T) ==
  \A n, w, E : <<n, w, E>> \in T /\ n # NULL => Leftmost(n) = LeftmostStep(n)

\* The leftmost node is that of the first entry.
LEMMA LeftmostIsFirst ==
  ASSUME NEW T, NEW X, OrderedTrees(T, X), Leftmosts(T)
  PROVE  \A n, w, E : <<n, w, E>> \in T /\ n # NULL => \E M : FirstGone(Entry(Leftmost(n)), E, M)
<1> DEFINE Bad == {b \in T : \E n, w, E : /\ b = <<n, w, E>> /\ n # NULL
                                          /\ ~\E M : FirstGone(Entry(Leftmost(n)), E, M)}
<1>1. \A n, w, E : <<n, w, E>> \in Bad
                     <=> <<n, w, E>> \in T /\ n # NULL
                         /\ ~\E M : FirstGone(Entry(Leftmost(n)), E, M)
  OBVIOUS
<1>2. Bad \in SUBSET T
  OBVIOUS
<1> HIDE DEF Bad
<1> SUFFICES ASSUME \E n, w, E : <<n, w, E>> \in Bad
             PROVE  FALSE
  BY <1>1
<1>3. PICK n, w, E : /\ <<n, w, E>> \in Bad /\ <<n, w, E>> \in T
                     /\ \A m, g, F : <<m, g, F>> \in Bad => ~(g < w)
  BY <1>2, LeastRank
<1>4. n # NULL /\ \A e \in X : e[1] \in Int
  BY <1>1, <1>3 DEF OrderedTrees
<1>5. PICK x, y, L, R :
       /\ <<n.left, x, L>> \in T /\ <<n.right, y, R>> \in T /\ x < w /\ y < w
       /\ Placed(n, L, R, X) /\ E = EntriesOver(n, L, R)
  BY <1>3, <1>4 DEF OrderedTrees, OverLesser
<1>6. CASE n.left = NULL
  <2>1. L = {}
    BY <1>5, <1>6 DEF OrderedTrees
  <2>2. Leftmost(n) = n
    BY <1>3, <1>4, <1>6 DEF Leftmosts, LeftmostStep
  <2>3. FirstGone(Entry(n), E, R)
    BY <1>4, <1>5, <2>1, FirstHere
  <2> QED
    BY <1>1, <1>3, <2>2, <2>3
<1>7. CASE n.left # NULL
  <2>1. <<n.left, x, L>> \notin Bad
    BY <1>3, <1>5
  <2>2. PICK M : FirstGone(Entry(Leftmost(n.left)), L, M)
    BY <1>1, <1>5, <1>7, <2>1
  <2>3. Leftmost(n) = Leftmost(n.left)
    BY <1>3, <1>4, <1>7 DEF Leftmosts, LeftmostStep
  <2>4. FirstGone(Entry(Leftmost(n.left)), E, EntriesOver(n, M, R))
    BY <1>4, <1>5, <2>2, FirstLeft
  <2> QED
    BY <1>1, <1>3, <2>3, <2>4
<1> QED
  BY <1>6, <1>7

\* Find is the recursion of the code, in a search of each of the trees of T for k.
Searching(T, k) ==
  \A n, w, E : <<n, w, E>> \in T => Find(n, k) = FindStep(n, k)

\* What a search for k in a tree that holds E finds: the node with that key, if there is one
Found(s, E, k) ==
  /\ s = NULL <=> ~\E e \in E : e[1] = k
  /\ s # NULL => s.key = k /\ Entry(s) \in E

\* A search finds the node of a key that is there, and nothing for one that is not, in
\* any ordered tree (bst.c:100-113, 429-448, 548-570).
THEOREM FindSound ==
  ASSUME NEW T, NEW X, NEW k \in Int, OrderedTrees(T, X), Comparable(k, X),
         Searching(T, k)
  PROVE  \A n, w, E : <<n, w, E>> \in T => Found(Find(n, k), E, k)
<1> DEFINE Bad == {b \in T : \E n, w, E : b = <<n, w, E>> /\ ~Found(Find(n, k), E, k)}
<1>1. \A n, w, E : <<n, w, E>> \in Bad <=> <<n, w, E>> \in T /\ ~Found(Find(n, k), E, k)
  OBVIOUS
<1>2. Bad \in SUBSET T
  OBVIOUS
<1> HIDE DEF Bad
<1> SUFFICES ASSUME \E n, w, E : <<n, w, E>> \in Bad
             PROVE  FALSE
  BY <1>1
<1>3. PICK n, w, E : /\ <<n, w, E>> \in Bad /\ <<n, w, E>> \in T
                     /\ \A m, g, F : <<m, g, F>> \in Bad => ~(g < w)
  BY <1>2, LeastRank
<1>4. Find(n, k) = FindStep(n, k)
  BY <1>3 DEF Searching
<1>5. CASE n = NULL
  <2>1. Find(n, k) = NULL
    BY <1>4, <1>5 DEF FindStep
  <2>2. E = {}
    BY <1>3, <1>5 DEF OrderedTrees
  <2> QED
    BY <1>1, <1>3, <2>1, <2>2 DEF Found
<1>6. CASE n # NULL
  <2>1. PICK x, y, L, R :
       /\ <<n.left, x, L>> \in T /\ <<n.right, y, R>> \in T /\ x < w /\ y < w
       /\ Placed(n, L, R, X) /\ E = EntriesOver(n, L, R)
    BY <1>3, <1>6 DEF OrderedTrees, OverLesser
  <2>2. Found(Find(n.left, k), L, k) /\ Found(Find(n.right, k), R, k)
    BY <1>1, <1>3, <2>1
  <2>3. /\ Compare(k, n.key) < 0 <=> k < n.key
        /\ Compare(k, n.key) > 0 <=> k > n.key
        /\ n.key \in Int /\ Entry(n)[1] = n.key
    <3>1. Entry(n) \in X /\ Entry(n)[1] = n.key
      BY <2>1 DEF Placed, Entry
    <3> QED
      BY <3>1 DEF Comparable, OrderedTrees
  <2>4. /\ \A e \in L : e[1] \in Int /\ e[1] < n.key
        /\ \A e \in R : e[1] \in Int /\ n.key < e[1]
    BY <2>1 DEF Placed, OrderedTrees
  <2>5. CASE k < n.key
    <3>1. Find(n, k) = Find(n.left, k)
      <4>1. Compare(k, n.key) < 0 /\ ~(Compare(k, n.key) > 0)
        BY <2>3, <2>5
      <4> QED
        BY <1>4, <1>6, <4>1, Zenon DEF FindStep
    <3>2. \A e \in E : e[1] = k => e \in L
      BY <2>1, <2>3, <2>4, <2>5 DEF EntriesOver
    <3>3. Found(Find(n, k), E, k)
      BY <2>1, <2>2, <3>1, <3>2 DEF Found, EntriesOver
    <3> QED
      BY <1>1, <1>3, <3>3
  <2>6. CASE k > n.key
    <3>1. Find(n, k) = Find(n.right, k)
      <4>1. Compare(k, n.key) > 0 /\ ~(Compare(k, n.key) < 0)
        BY <2>3, <2>6
      <4> QED
        BY <1>4, <1>6, <4>1, Zenon DEF FindStep
    <3>2. \A e \in E : e[1] = k => e \in R
      BY <2>1, <2>3, <2>4, <2>6 DEF EntriesOver
    <3>3. Found(Find(n, k), E, k)
      BY <2>1, <2>2, <3>1, <3>2 DEF Found, EntriesOver
    <3> QED
      BY <1>1, <1>3, <3>3
  <2>7. CASE k = n.key
    <3>1. Find(n, k) = n
      <4>1. ~(Compare(k, n.key) < 0) /\ ~(Compare(k, n.key) > 0)
        BY <2>3, <2>7
      <4> QED
        BY <1>4, <1>6, <4>1, Zenon DEF FindStep
    <3>2. Entry(n) \in E
      BY <2>1 DEF EntriesOver
    <3>3. Found(Find(n, k), E, k)
      BY <1>6, <2>3, <2>7, <3>1, <3>2 DEF Found
    <3> QED
      BY <1>1, <1>3, <3>3
  <2> QED
    BY <2>3, <2>5, <2>6, <2>7
<1> QED
  BY <1>5, <1>6

-----------------------------------------------------------------------------
(* AVL trees.                                                              *)

\* The height of the taller of two subtrees
Taller(a, b) == IF a >= b THEN a ELSE b

\* The height of a node over subtrees of heights a and b
HeightOf(a, b) == 1 + Taller(a, b)

\* The balance factor of n is exact over subtrees of heights a and b.
Exact(n, a, b) == IsNode(n) /\ n.flag = b - a

-----------------------------------------------------------------------------
(* The fields of an AVL node.                                              *)

\* A bit field of three bits keeps the numbers from -4 to 3 (bst.h:37).
LEMMA WrapFits ==
  ASSUME NEW x \in -4 .. 3
  PROVE  Wrap(x, 3) = x
<1>1. 2^(3 - 1) = 4 /\ 2^3 = 8
  BY SMT
<1>2. ((x + 4) % 8) - 4 = x
  BY SMT
<1> QED
  BY <1>1, <1>2 DEF Wrap

\* Setting a link and then the balance factor of a node leaves its other
\* fields as they are.
LEMMA Relink ==
  ASSUME NEW n, IsNode(n), NEW x, NEW k \in -4 .. 3
  PROVE  /\ WithBalance([n EXCEPT !.left = x], k)
              = [key |-> n.key, val |-> n.val, flag |-> k, left |-> x, right |-> n.right]
         /\ WithBalance([n EXCEPT !.right = x], k)
              = [key |-> n.key, val |-> n.val, flag |-> k, left |-> n.left, right |-> x]
<1> DEFINE l == [key |-> n.key, val |-> n.val, flag |-> n.flag, left |-> x, right |-> n.right]
           r == [key |-> n.key, val |-> n.val, flag |-> n.flag, left |-> n.left, right |-> x]
<1>1. [n EXCEPT !.left = x] = l /\ [n EXCEPT !.right = x] = r
  BY SMT DEF IsNode
<1>2. /\ [l EXCEPT !.flag = k]
           = [key |-> n.key, val |-> n.val, flag |-> k, left |-> x, right |-> n.right]
      /\ [r EXCEPT !.flag = k]
           = [key |-> n.key, val |-> n.val, flag |-> k, left |-> n.left, right |-> x]
  BY SMT
<1>3. Wrap(k, 3) = k
  BY WrapFits
<1> HIDE DEF l, r
<1>4. WithBalance(l, k) = [l EXCEPT !.flag = k] /\ WithBalance(r, k) = [r EXCEPT !.flag = k]
  BY <1>3 DEF WithBalance
<1> QED
  BY <1>1, <1>2, <1>4

-----------------------------------------------------------------------------
(* Rotations of AVL nodes.                                                 *)

\* Rotating right, with an outer child that may itself be out of balance, as in
\* the middle of a double rotation (avl.c:21-43), moves the three subtrees and
\* both payloads to their places, leaves both balance factors exact, reports
\* the change of height, and its assertions hold.
LEMMA AvlRotateRightExact ==
  ASSUME NEW n, NEW a \in Nat, NEW b \in Nat, NEW c \in Nat,
         Exact(n.left, a, b), Exact(n, HeightOf(a, b), c),
         n.left.flag \in -2 .. 1, n.flag \in -2 .. -1
  PROVE  LET r == AvlRotateRight(n)
         IN  /\ Exact(r.t, a, HeightOf(b, c)) /\ Exact(r.t.right, b, c)
             /\ r.t.left = n.left.left
             /\ r.t.right.left = n.left.right /\ r.t.right.right = n.right
             /\ r.t.key = n.left.key /\ r.t.val = n.left.val
             /\ r.t.right.key = n.key /\ r.t.right.val = n.val
             /\ r.dh = HeightOf(a, HeightOf(b, c)) - HeightOf(HeightOf(a, b), c)
             /\ r.ok
<1> DEFINE p  == n.left
           bn == n.flag
           bp == p.flag
           mb == IF bp > 0 THEN bn + 1 ELSE bn - bp + 1
           m  == WithBalance([n EXCEPT !.left = p.right], mb)
           tb == IF m.flag > 0 THEN bn + 2 ELSE bp + 1
           dh == IF bn = -2 /\ bp < 0 THEN -1 ELSE 0
           t  == [key |-> p.key, val |-> p.val, flag |-> tb, left |-> p.left, right |-> m]
<1>1. mb = c - b /\ mb \in -4 .. 3
  BY DEF Exact, HeightOf, Taller
<1>2. m = [key |-> n.key, val |-> n.val, flag |-> mb, left |-> p.right, right |-> n.right]
  BY <1>1, Relink DEF Exact
<1>3. tb = HeightOf(b, c) - a /\ tb \in -4 .. 3
  <2>1. m.flag = mb
    BY <1>2
  <2> QED
    BY <2>1, <1>1 DEF Exact, HeightOf, Taller
<1>4. AvlRotateRight(n) = Rotated(WithBalance([p EXCEPT !.right = m], tb), dh,
                               bn < 0 /\ bp \in -2 .. 1)
  BY DEF AvlRotateRight
<1> HIDE DEF m
<1>5. WithBalance([p EXCEPT !.right = m], tb) = t
  BY <1>3, Relink DEF Exact
<1>6. dh = HeightOf(a, HeightOf(b, c)) - HeightOf(HeightOf(a, b), c)
  BY DEF Exact, HeightOf, Taller
<1>7. /\ Exact(t, a, HeightOf(b, c)) /\ t.right = m
      /\ t.left = p.left /\ t.key = p.key /\ t.val = p.val
  BY <1>3 DEF Exact, IsNode
<1>8. Exact(m, b, c) /\ m.left = p.right /\ m.right = n.right /\ m.key = n.key /\ m.val = n.val
  BY <1>1, <1>2 DEF Exact, IsNode
<1> HIDE DEF t, dh
<1>9. AvlRotateRight(n) = [t |-> t, dh |-> dh, ok |-> bn < 0 /\ bp \in -2 .. 1]
  BY <1>4, <1>5 DEF Rotated
<1>10. /\ AvlRotateRight(n).t = t /\ AvlRotateRight(n).dh = dh
       /\ AvlRotateRight(n).ok = (bn < 0 /\ bp \in -2 .. 1)
  BY <1>9
<1>11. bn < 0 /\ bp \in -2 .. 1
  OBVIOUS
<1>12. AvlRotateRight(n).ok
  BY <1>10, <1>11, Zenon
<1> QED
  BY <1>6, <1>7, <1>8, <1>10, <1>12

\* Rotating left is the mirror image (avl.c:45-63).
LEMMA AvlRotateLeftExact ==
  ASSUME NEW n, NEW a \in Nat, NEW b \in Nat, NEW c \in Nat,
         Exact(n.right, b, a), Exact(n, c, HeightOf(a, b)),
         n.right.flag \in -1 .. 2, n.flag \in 1 .. 2
  PROVE  LET r == AvlRotateLeft(n)
         IN  /\ Exact(r.t, HeightOf(b, c), a) /\ Exact(r.t.left, c, b)
             /\ r.t.right = n.right.right
             /\ r.t.left.right = n.right.left /\ r.t.left.left = n.left
             /\ r.t.key = n.right.key /\ r.t.val = n.right.val
             /\ r.t.left.key = n.key /\ r.t.left.val = n.val
             /\ r.dh = HeightOf(a, HeightOf(b, c)) - HeightOf(HeightOf(a, b), c)
             /\ r.ok
<1> DEFINE p  == n.right
           bn == n.flag
           bp == p.flag
           mb == IF bp < 0 THEN bn - 1 ELSE bn - bp - 1
           m  == WithBalance([n EXCEPT !.right = p.left], mb)
           tb == IF m.flag < 0 THEN bn - 2 ELSE bp - 1
           dh == IF bn = 2 /\ bp > 0 THEN -1 ELSE 0
           t  == [key |-> p.key, val |-> p.val, flag |-> tb, left |-> m, right |-> p.right]
<1>1. mb = b - c /\ mb \in -4 .. 3
  BY DEF Exact, HeightOf, Taller
<1>2. m = [key |-> n.key, val |-> n.val, flag |-> mb, left |-> n.left, right |-> p.left]
  BY <1>1, Relink DEF Exact
<1>3. tb = a - HeightOf(b, c) /\ tb \in -4 .. 3
  <2>1. m.flag = mb
    BY <1>2
  <2> QED
    BY <2>1, <1>1 DEF Exact, HeightOf, Taller
<1>4. AvlRotateLeft(n) = Rotated(WithBalance([p EXCEPT !.left = m], tb), dh,
                               bn > 0 /\ bp \in -1 .. 2)
  BY DEF AvlRotateLeft
<1> HIDE DEF m
<1>5. WithBalance([p EXCEPT !.left = m], tb) = t
  BY ZenonT(30), <1>3, Relink DEF Exact
<1>6. dh = HeightOf(a, HeightOf(b, c)) - HeightOf(HeightOf(a, b), c)
  BY DEF Exact, HeightOf, Taller
<1>7. /\ Exact(t, HeightOf(b, c), a) /\ t.left = m
      /\ t.right = p.right /\ t.key = p.key /\ t.val = p.val
  BY <1>3 DEF Exact, IsNode
<1>8. Exact(m, c, b) /\ m.right = p.left /\ m.left = n.left /\ m.key = n.key /\ m.val = n.val
  BY <1>1, <1>2 DEF Exact, IsNode
<1> HIDE DEF t, dh
<1>9. AvlRotateLeft(n) = [t |-> t, dh |-> dh, ok |-> bn > 0 /\ bp \in -1 .. 2]
  BY <1>4, <1>5 DEF Rotated
<1>10. /\ AvlRotateLeft(n).t = t /\ AvlRotateLeft(n).dh = dh
       /\ AvlRotateLeft(n).ok = (bn > 0 /\ bp \in -1 .. 2)
  BY <1>9
<1>11. bn > 0 /\ bp \in -1 .. 2
  OBVIOUS
<1>12. AvlRotateLeft(n).ok
  BY <1>10, <1>11, Zenon
<1> QED
  BY <1>6, <1>7, <1>8, <1>10, <1>12

-----------------------------------------------------------------------------
(* Repair of AVL trees.                                                    *)

\* n, in X, stands in order between two trees of H, of heights a and b, which hold
\* L and R, with an exact balance factor.
AvlOver(n, a, b, L, R, H, X) ==
  /\ Exact(n, a, b) /\ Placed(n, L, R, X)
  /\ <<n.left, a, L>> \in H /\ <<n.right, b, R>> \in H

\* n is the root of an AVL tree of height h that holds E.
AvlRoot(n, h, E, H, X) ==
  \E a \in Nat, b \in Nat : \E L, R :
    /\ AvlOver(n, a, b, L, R, H, X) /\ b - a \in -1 .. 1
    /\ h = HeightOf(a, b) /\ E = EntriesOver(n, L, R)

\* H holds the AVL trees with entries in X, each with its height and what it holds.
AvlTrees(H, X) ==
  /\ ~IsNode(NULL) /\ \A e \in X : e[1] \in Int
  /\ \A n, h, E : <<n, h, E>> \in H <=> (n = NULL /\ h = 0 /\ E = {}) \/ AvlRoot(n, h, E, H, X)

\* A balance factor within -1 .. 1 makes an AVL tree.
LEMMA AvlNode ==
  ASSUME NEW H, NEW X, NEW n, NEW a \in Nat, NEW b \in Nat, NEW L, NEW R, AvlTrees(H, X),
         AvlOver(n, a, b, L, R, H, X), b - a \in -1 .. 1
  PROVE  <<n, HeightOf(a, b), EntriesOver(n, L, R)>> \in H
<1>1. AvlRoot(n, HeightOf(a, b), EntriesOver(n, L, R), H, X)
  BY DEF AvlRoot
<1> QED
  BY <1>1 DEF AvlTrees

\* An AVL tree that is not empty has two subtrees.
LEMMA AvlSubtrees ==
  ASSUME NEW H, NEW X, NEW n, NEW h, NEW E, AvlTrees(H, X), <<n, h, E>> \in H, h # 0 \/ n # NULL
  PROVE  \E a \in Nat, b \in Nat : \E L, R :
           /\ AvlOver(n, a, b, L, R, H, X) /\ b - a \in -1 .. 1
           /\ h = HeightOf(a, b) /\ E = EntriesOver(n, L, R)
  BY DEF AvlTrees, AvlRoot

\* A rotation moves nodes, with their data, around three subtrees: to the right, ...
LEMMA TurnedRight ==
  ASSUME NEW X, NEW n, NEW p, NEW t, NEW s, NEW A, NEW B, NEW C, \A e \in X : e[1] \in Int,
         Placed(n, EntriesOver(p, A, B), C, X), Placed(p, A, B, X),
         Entry(t) = Entry(p), Entry(s) = Entry(n)
  PROVE  /\ Placed(t, A, EntriesOver(s, B, C), X) /\ Placed(s, B, C, X)
         /\ EntriesOver(t, A, EntriesOver(s, B, C)) = EntriesOver(n, EntriesOver(p, A, B), C)
<1>1. /\ Placed(p, A, EntriesOver(n, B, C), X) /\ Placed(n, B, C, X)
      /\ EntriesOver(p, A, EntriesOver(n, B, C)) = EntriesOver(n, EntriesOver(p, A, B), C)
  BY PlacesTurn
<1>2. Placed(s, B, C, X) /\ EntriesOver(s, B, C) = EntriesOver(n, B, C)
  BY <1>1, StandsAs
<1>3. /\ Placed(t, A, EntriesOver(n, B, C), X)
      /\ EntriesOver(t, A, EntriesOver(n, B, C)) = EntriesOver(p, A, EntriesOver(n, B, C))
  BY <1>1, StandsAs
<1> QED
  BY <1>1, <1>2, <1>3

\* ... and to the left.
LEMMA TurnedLeft ==
  ASSUME NEW X, NEW n, NEW p, NEW t, NEW s, NEW A, NEW B, NEW C, \A e \in X : e[1] \in Int,
         Placed(n, A, EntriesOver(p, B, C), X), Placed(p, B, C, X),
         Entry(t) = Entry(p), Entry(s) = Entry(n)
  PROVE  /\ Placed(t, EntriesOver(s, A, B), C, X) /\ Placed(s, A, B, X)
         /\ EntriesOver(t, EntriesOver(s, A, B), C) = EntriesOver(n, A, EntriesOver(p, B, C))
<1>1. /\ Placed(p, EntriesOver(n, A, B), C, X) /\ Placed(n, A, B, X)
      /\ EntriesOver(p, EntriesOver(n, A, B), C) = EntriesOver(n, A, EntriesOver(p, B, C))
  BY PlacesTurn
<1>2. Placed(s, A, B, X) /\ EntriesOver(s, A, B) = EntriesOver(n, A, B)
  BY <1>1, StandsAs
<1>3. /\ Placed(t, EntriesOver(n, A, B), C, X)
      /\ EntriesOver(t, EntriesOver(n, A, B), C) = EntriesOver(p, EntriesOver(n, A, B), C)
  BY <1>1, StandsAs
<1> QED
  BY <1>1, <1>2, <1>3

\* A node whose left subtree is too tall by two becomes an AVL tree that holds the
\* same, with the assertions of the code true on the way (avl.c:65-80).
LEMMA AvlRepairLeft ==
  ASSUME NEW H, NEW X, NEW n, NEW a \in Nat, NEW b \in Nat, NEW L, NEW R, AvlTrees(H, X),
         AvlOver(n, a, b, L, R, H, X), a = b + 2
  PROVE  LET r == AvlRepair(n)
         IN  <<r.t, HeightOf(a, b) + r.dh, EntriesOver(n, L, R)>> \in H /\ r.ok
<1>1. n.flag = -2 /\ \A e \in X : e[1] \in Int
  BY DEF AvlOver, Exact, AvlTrees
<1>2. PICK x \in Nat, y \in Nat : \E P, Q :
        /\ AvlOver(n.left, x, y, P, Q, H, X) /\ y - x \in -1 .. 1 /\ a = HeightOf(x, y)
        /\ L = EntriesOver(n.left, P, Q)
  <2>1. <<n.left, a, L>> \in H /\ a # 0
    BY DEF AvlOver
  <2> QED
    BY <2>1, AvlSubtrees
<1>20. PICK P, Q : AvlOver(n.left, x, y, P, Q, H, X) /\ L = EntriesOver(n.left, P, Q)
  BY <1>2
<1>3. n.left.flag = y - x /\ n.left.flag \in -1 .. 1
  BY <1>2, <1>20 DEF AvlOver, Exact
<1> DEFINE c == IF n.left.flag = 1 THEN AvlRotateLeft(n.left) ELSE Rotated(n.left, 0, TRUE)
           q == WithBalance([n EXCEPT !.left = c.t], n.flag - c.dh)
           r == AvlRotateRight(q)
           E == EntriesOver(n, L, R)
<1>4. AvlRepair(n) = Rotated(r.t, r.dh, n.left.flag \in -1 .. 1 /\ c.ok /\ r.ok)
  BY <1>1 DEF AvlRepair
<1>5. SUFFICES <<r.t, HeightOf(a, b) + r.dh, E>> \in H /\ c.ok /\ r.ok
  <2> HIDE DEF c, r
  <2>1. /\ AvlRepair(n).t = r.t /\ AvlRepair(n).dh = r.dh
        /\ AvlRepair(n).ok = (n.left.flag \in -1 .. 1 /\ c.ok /\ r.ok)
    BY <1>4 DEF Rotated
  <2> QED
    BY <2>1, <1>3, <1>5
<1>30. /\ Placed(n, EntriesOver(n.left, P, Q), R, X) /\ Placed(n.left, P, Q, X)
       /\ <<n.left.left, x, P>> \in H /\ <<n.left.right, y, Q>> \in H /\ <<n.right, b, R>> \in H
  BY <1>20 DEF AvlOver
<1>6. CASE n.left.flag # 1
  <2>1. c.t = n.left /\ c.dh = 0 /\ c.ok
    BY <1>6 DEF Rotated
  <2> HIDE DEF c
  <2>2. q = n
    <3>1. n.flag - c.dh = -2 /\ -2 \in -4 .. 3 /\ IsNode(n)
      BY <2>1, <1>1 DEF AvlOver, Exact
    <3>2. q = WithBalance([n EXCEPT !.left = n.left], -2)
      BY <3>1, <2>1
    <3>3. q = [key |-> n.key, val |-> n.val, flag |-> -2, left |-> n.left, right |-> n.right]
      BY <3>1, <3>2, Relink
    <3> QED
      BY <3>3, <1>1 DEF AvlOver, Exact, IsNode
  <2> HIDE DEF q
  <2>3. Exact(n.left, x, y) /\ Exact(n, HeightOf(x, y), b)
    BY <1>2, <1>20 DEF AvlOver
  <2>4. /\ Exact(r.t, x, HeightOf(y, b)) /\ Exact(r.t.right, y, b)
        /\ r.t.left = n.left.left
        /\ r.t.right.left = n.left.right /\ r.t.right.right = n.right
        /\ r.t.key = n.left.key /\ r.t.val = n.left.val
        /\ r.t.right.key = n.key /\ r.t.right.val = n.val
        /\ r.dh = HeightOf(x, HeightOf(y, b)) - HeightOf(HeightOf(x, y), b)
        /\ r.ok
    BY <2>2, <2>3, <1>1, <1>3, AvlRotateRightExact
  <2> HIDE DEF r
  <2>5. /\ Placed(r.t, P, EntriesOver(r.t.right, Q, R), X) /\ Placed(r.t.right, Q, R, X)
        /\ EntriesOver(r.t, P, EntriesOver(r.t.right, Q, R)) = E
    <3>1. Entry(r.t) = Entry(n.left) /\ Entry(r.t.right) = Entry(n)
      BY <2>4 DEF Entry
    <3>2. E = EntriesOver(n, EntriesOver(n.left, P, Q), R)
      BY <1>20
    <3> QED
      BY <1>1, <1>30, <3>1, <3>2, TurnedRight
  <2> HIDE DEF E
  <2>6. AvlOver(r.t.right, y, b, Q, R, H, X)
    BY <2>4, <2>5, <1>30 DEF AvlOver
  <2>7. b - y \in -1 .. 1
    BY <1>2, <1>3, <1>6 DEF HeightOf, Taller
  <2>8. <<r.t.right, HeightOf(y, b), EntriesOver(r.t.right, Q, R)>> \in H
    BY <2>6, <2>7, AvlNode
  <2>9. HeightOf(y, b) \in Nat
    BY DEF HeightOf, Taller
  <2>10. AvlOver(r.t, x, HeightOf(y, b), P, EntriesOver(r.t.right, Q, R), H, X)
    BY <2>4, <2>5, <2>8, <1>30 DEF AvlOver
  <2>11. HeightOf(y, b) - x \in -1 .. 1 /\ HeightOf(a, b) + r.dh = HeightOf(x, HeightOf(y, b))
    BY <1>2, <1>3, <1>6, <2>4 DEF HeightOf, Taller
  <2>12. <<r.t, HeightOf(x, HeightOf(y, b)), E>> \in H
    BY <2>5, <2>9, <2>10, <2>11, AvlNode
  <2> QED
    BY <2>1, <2>4, <2>11, <2>12
<1>7. CASE n.left.flag = 1
  <2>1. y = x + 1 /\ y # 0 /\ x = b
    BY <1>2, <1>3, <1>7 DEF HeightOf, Taller
  <2>2. PICK u \in Nat, v \in Nat : \E U, W :
          /\ AvlOver(n.left.right, u, v, U, W, H, X) /\ v - u \in -1 .. 1 /\ y = HeightOf(u, v)
          /\ Q = EntriesOver(n.left.right, U, W)
    BY <1>30, <2>1, AvlSubtrees
  <2>20. PICK U, W : AvlOver(n.left.right, u, v, U, W, H, X) /\ Q = EntriesOver(n.left.right, U, W)
    BY <2>2
  <2>30. /\ Placed(n.left, P, EntriesOver(n.left.right, U, W), X) /\ Placed(n.left.right, U, W, X)
         /\ <<n.left.right.left, u, U>> \in H /\ <<n.left.right.right, v, W>> \in H
    BY <1>30, <2>20 DEF AvlOver
  <2>3. HeightOf(u, v) = HeightOf(v, u)
    BY DEF HeightOf, Taller
  <2>4. /\ Exact(n.left.right, u, v) /\ Exact(n.left, x, HeightOf(v, u))
        /\ n.left.right.flag \in -1 .. 1
    BY <1>20, <2>2, <2>20, <2>3 DEF AvlOver, Exact
  <2>5. c = AvlRotateLeft(n.left)
    BY <1>7
  <2> HIDE DEF c
  <2>6. /\ Exact(c.t, HeightOf(u, x), v) /\ Exact(c.t.left, x, u)
        /\ c.t.right = n.left.right.right
        /\ c.t.left.right = n.left.right.left /\ c.t.left.left = n.left.left
        /\ c.t.key = n.left.right.key /\ c.t.val = n.left.right.val
        /\ c.t.left.key = n.left.key /\ c.t.left.val = n.left.val
        /\ c.dh = HeightOf(v, HeightOf(u, x)) - HeightOf(HeightOf(v, u), x)
        /\ c.ok
    BY <2>4, <2>5, <1>7, AvlRotateLeftExact
  <2>7. /\ c.dh = 0 /\ u - x \in -1 .. 0 /\ HeightOf(u, x) = x + 1 /\ v - x \in -1 .. 0
        /\ HeightOf(HeightOf(u, x), v) = a
    BY <1>2, <2>1, <2>2, <2>6 DEF HeightOf, Taller
  <2>8. q = [key |-> n.key, val |-> n.val, flag |-> -2, left |-> c.t, right |-> n.right]
    <3>1. n.flag - c.dh = -2 /\ -2 \in -4 .. 3 /\ IsNode(n)
      BY <2>7, <1>1 DEF AvlOver, Exact
    <3>2. q = WithBalance([n EXCEPT !.left = c.t], -2)
      BY <3>1
    <3> QED
      BY <3>1, <3>2, Relink
  <2> HIDE DEF q
  <2>9. /\ q.left = c.t /\ q.right = n.right /\ q.key = n.key /\ q.val = n.val
        /\ q.flag = -2 /\ Exact(q, HeightOf(HeightOf(u, x), v), b)
    BY <2>7, <2>8 DEF Exact, IsNode
  <2>10. HeightOf(u, x) \in Nat /\ q.left.flag \in -2 .. 1
    BY <2>6, <2>7, <2>9 DEF Exact
  <2>11. /\ Exact(r.t, HeightOf(u, x), HeightOf(v, b)) /\ Exact(r.t.right, v, b)
         /\ r.t.left = c.t.left
         /\ r.t.right.left = c.t.right /\ r.t.right.right = n.right
         /\ r.t.key = c.t.key /\ r.t.val = c.t.val
         /\ r.t.right.key = n.key /\ r.t.right.val = n.val
         /\ r.dh = HeightOf(HeightOf(u, x), HeightOf(v, b))
                     - HeightOf(HeightOf(HeightOf(u, x), v), b)
         /\ r.ok
    BY <2>6, <2>9, <2>10, AvlRotateRightExact
  <2> HIDE DEF r
  <2>12. /\ HeightOf(v, b) = x + 1 /\ HeightOf(x, u) = x + 1
         /\ HeightOf(a, b) + r.dh = x + 2 /\ HeightOf(x + 1, x + 1) = x + 2
    BY <2>1, <2>7, <2>11 DEF HeightOf, Taller
  <2>13. Entry(c.t) = Entry(n.left.right) /\ Entry(c.t.left) = Entry(n.left)
             /\ Entry(r.t) = Entry(c.t)
         /\ Entry(r.t.right) = Entry(n)
    BY <2>6, <2>11 DEF Entry
  <2>14. /\ Placed(c.t, EntriesOver(c.t.left, P, U), W, X) /\ Placed(c.t.left, P, U, X)
         /\ EntriesOver(c.t, EntriesOver(c.t.left, P, U), W)
              = EntriesOver(n.left, P, EntriesOver(n.left.right, U, W))
    BY <1>1, <2>13, <2>30, TurnedLeft
  <2>15. /\ Placed(n, EntriesOver(c.t, EntriesOver(c.t.left, P, U), W), R, X)
         /\ E = EntriesOver(n, EntriesOver(c.t, EntriesOver(c.t.left, P, U), W), R)
    BY <1>20, <1>30, <2>14, <2>20
  <2>16. /\ Placed(r.t, EntriesOver(c.t.left, P, U), EntriesOver(r.t.right, W, R), X)
         /\ Placed(r.t.right, W, R, X)
         /\ EntriesOver(r.t, EntriesOver(c.t.left, P, U), EntriesOver(r.t.right, W, R)) = E
    <3> HIDE DEF E
    <3> DEFINE Z == EntriesOver(c.t.left, P, U)
    <3>1. Placed(n, EntriesOver(c.t, Z, W), R, X) /\ Placed(c.t, Z, W, X)
              /\ E = EntriesOver(n, EntriesOver(c.t, Z, W), R)
      BY <2>14, <2>15
    <3> HIDE DEF Z
    <3>2. /\ Placed(r.t, Z, EntriesOver(r.t.right, W, R), X) /\ Placed(r.t.right, W, R, X)
          /\ EntriesOver(r.t, Z, EntriesOver(r.t.right, W, R)) = E
      BY <1>1, <2>13, <3>1, TurnedRight
    <3> QED
      BY <3>2 DEF Z
  <2> HIDE DEF E
  <2>17. AvlOver(c.t.left, x, u, P, U, H, X) /\ AvlOver(r.t.right, v, b, W, R, H, X)
    BY <1>30, <2>6, <2>11, <2>14, <2>16, <2>30 DEF AvlOver
  <2>18. /\ <<c.t.left, x + 1, EntriesOver(c.t.left, P, U)>> \in H
         /\ <<r.t.right, x + 1, EntriesOver(r.t.right, W, R)>> \in H
    <3>1. u - x \in -1 .. 1 /\ b - v \in -1 .. 1
      BY <2>1, <2>7
    <3>2. <<c.t.left, HeightOf(x, u), EntriesOver(c.t.left, P, U)>> \in H
      BY <2>17, <3>1, AvlNode
    <3>3. <<r.t.right, HeightOf(v, b), EntriesOver(r.t.right, W, R)>> \in H
      BY <2>17, <3>1, AvlNode
    <3> QED
      BY <3>2, <3>3, <2>12
  <2>19. AvlOver(r.t, x + 1, x + 1, EntriesOver(c.t.left, P, U), EntriesOver(r.t.right, W, R), H, X)
    BY <2>7, <2>11, <2>12, <2>16, <2>18 DEF AvlOver
  <2>21. <<r.t, HeightOf(x + 1, x + 1), E>> \in H
    <3>1. x + 1 \in Nat /\ (x + 1) - (x + 1) \in -1 .. 1
      OBVIOUS
    <3>2. <<r.t, HeightOf(x + 1, x + 1),
            EntriesOver(r.t, EntriesOver(c.t.left, P, U), EntriesOver(r.t.right, W, R))>> \in H
      BY <2>19, <3>1, AvlNode
    <3> QED
      BY <2>16, <3>2
  <2> QED
    BY <2>6, <2>11, <2>12, <2>21
<1> QED
  BY <1>6, <1>7

\* A node whose right subtree is too tall by two becomes an AVL tree that holds the
\* same, with the assertions of the code true on the way (avl.c:81-92).
LEMMA AvlRepairRight ==
  ASSUME NEW H, NEW X, NEW n, NEW a \in Nat, NEW b \in Nat, NEW L, NEW R, AvlTrees(H, X),
         AvlOver(n, b, a, L, R, H, X), a = b + 2
  PROVE  LET r == AvlRepair(n)
         IN  <<r.t, HeightOf(a, b) + r.dh, EntriesOver(n, L, R)>> \in H /\ r.ok
<1>1. n.flag = 2 /\ \A e \in X : e[1] \in Int
  BY DEF AvlOver, Exact, AvlTrees
<1>2. PICK x \in Nat, y \in Nat : \E P, Q :
        /\ AvlOver(n.right, y, x, Q, P, H, X) /\ y - x \in -1 .. 1 /\ a = HeightOf(x, y)
        /\ R = EntriesOver(n.right, Q, P)
  <2>1. <<n.right, a, R>> \in H /\ a # 0
    BY DEF AvlOver
  <2>2. PICK y \in Nat, x \in Nat : \E Q, P :
          /\ AvlOver(n.right, y, x, Q, P, H, X) /\ x - y \in -1 .. 1 /\ a = HeightOf(y, x)
          /\ R = EntriesOver(n.right, Q, P)
    <3>1. \E c \in Nat, d \in Nat : \E Q, P :
            /\ AvlOver(n.right, c, d, Q, P, H, X) /\ d - c \in -1 .. 1 /\ a = HeightOf(c, d)
            /\ R = EntriesOver(n.right, Q, P)
      BY <2>1 DEF AvlTrees, AvlRoot
    <3> QED
      BY <3>1
  <2>3. HeightOf(x, y) = HeightOf(y, x) /\ y - x \in -1 .. 1
    BY <2>2 DEF HeightOf, Taller
  <2> QED
    BY <2>2, <2>3
<1>20. PICK P, Q : AvlOver(n.right, y, x, Q, P, H, X) /\ R = EntriesOver(n.right, Q, P)
  BY <1>2
<1>3. n.right.flag = x - y /\ n.right.flag \in -1 .. 1
  BY <1>2, <1>20 DEF AvlOver, Exact
<1> DEFINE c == IF n.right.flag = -1 THEN AvlRotateRight(n.right) ELSE Rotated(n.right, 0, TRUE)
           q == WithBalance([n EXCEPT !.right = c.t], n.flag + c.dh)
           r == AvlRotateLeft(q)
           E == EntriesOver(n, L, R)
<1>4. AvlRepair(n) = Rotated(r.t, r.dh, n.right.flag \in -1 .. 1 /\ c.ok /\ r.ok)
  BY <1>1 DEF AvlRepair
<1>5. SUFFICES <<r.t, HeightOf(a, b) + r.dh, E>> \in H /\ c.ok /\ r.ok
  <2> HIDE DEF c, r
  <2>1. /\ AvlRepair(n).t = r.t /\ AvlRepair(n).dh = r.dh
        /\ AvlRepair(n).ok = (n.right.flag \in -1 .. 1 /\ c.ok /\ r.ok)
    BY <1>4 DEF Rotated
  <2> QED
    BY <2>1, <1>3, <1>5
<1>30. /\ Placed(n, L, EntriesOver(n.right, Q, P), X) /\ Placed(n.right, Q, P, X)
       /\ <<n.right.right, x, P>> \in H /\ <<n.right.left, y, Q>> \in H /\ <<n.left, b, L>> \in H
  BY <1>20 DEF AvlOver
<1>6. CASE n.right.flag # -1
  <2>1. c.t = n.right /\ c.dh = 0 /\ c.ok
    BY <1>6 DEF Rotated
  <2> HIDE DEF c
  <2>2. q = n
    <3>1. n.flag + c.dh = 2 /\ 2 \in -4 .. 3 /\ IsNode(n)
      BY <2>1, <1>1 DEF AvlOver, Exact
    <3>2. q = WithBalance([n EXCEPT !.right = n.right], 2)
      BY <3>1, <2>1
    <3>3. q = [key |-> n.key, val |-> n.val, flag |-> 2, left |-> n.left, right |-> n.right]
      BY <3>1, <3>2, Relink
    <3> QED
      BY <3>3, <1>1 DEF AvlOver, Exact, IsNode
  <2> HIDE DEF q
  <2>3. Exact(n.right, y, x) /\ Exact(n, b, HeightOf(x, y))
    BY <1>2, <1>20 DEF AvlOver
  <2>4. /\ Exact(r.t, HeightOf(y, b), x) /\ Exact(r.t.left, b, y)
        /\ r.t.right = n.right.right
        /\ r.t.left.right = n.right.left /\ r.t.left.left = n.left
        /\ r.t.key = n.right.key /\ r.t.val = n.right.val
        /\ r.t.left.key = n.key /\ r.t.left.val = n.val
        /\ r.dh = HeightOf(x, HeightOf(y, b)) - HeightOf(HeightOf(x, y), b)
        /\ r.ok
    BY <2>2, <2>3, <1>1, <1>3, AvlRotateLeftExact
  <2> HIDE DEF r
  <2>5. /\ Placed(r.t, EntriesOver(r.t.left, L, Q), P, X) /\ Placed(r.t.left, L, Q, X)
        /\ EntriesOver(r.t, EntriesOver(r.t.left, L, Q), P) = E
    <3>1. Entry(r.t) = Entry(n.right) /\ Entry(r.t.left) = Entry(n)
      BY <2>4 DEF Entry
    <3>2. E = EntriesOver(n, L, EntriesOver(n.right, Q, P))
      BY <1>20
    <3> QED
      BY <1>1, <1>30, <3>1, <3>2, TurnedLeft
  <2> HIDE DEF E
  <2>6. AvlOver(r.t.left, b, y, L, Q, H, X)
    BY <2>4, <2>5, <1>30 DEF AvlOver
  <2>7. y - b \in -1 .. 1 /\ HeightOf(y, b) = HeightOf(b, y)
    BY <1>2, <1>3, <1>6 DEF HeightOf, Taller
  <2>8. <<r.t.left, HeightOf(y, b), EntriesOver(r.t.left, L, Q)>> \in H
    BY <2>6, <2>7, AvlNode
  <2>9. HeightOf(y, b) \in Nat
    BY DEF HeightOf, Taller
  <2>10. AvlOver(r.t, HeightOf(y, b), x, EntriesOver(r.t.left, L, Q), P, H, X)
    BY <2>4, <2>5, <2>8, <1>30 DEF AvlOver
  <2>11. /\ x - HeightOf(y, b) \in -1 .. 1
         /\ HeightOf(a, b) + r.dh = HeightOf(HeightOf(y, b), x)
    BY <1>2, <1>3, <1>6, <2>4 DEF HeightOf, Taller
  <2>12. <<r.t, HeightOf(HeightOf(y, b), x), E>> \in H
    BY <2>5, <2>9, <2>10, <2>11, AvlNode
  <2> QED
    BY <2>1, <2>4, <2>11, <2>12
<1>7. CASE n.right.flag = -1
  <2>1. y = x + 1 /\ y # 0 /\ x = b
    BY <1>2, <1>3, <1>7 DEF HeightOf, Taller
  <2>2. PICK u \in Nat, v \in Nat : \E U, W :
          /\ AvlOver(n.right.left, v, u, W, U, H, X) /\ v - u \in -1 .. 1 /\ y = HeightOf(u, v)
          /\ Q = EntriesOver(n.right.left, W, U)
    <3>1. PICK v \in Nat, u \in Nat : \E W, U :
            /\ AvlOver(n.right.left, v, u, W, U, H, X) /\ u - v \in -1 .. 1 /\ y = HeightOf(v, u)
            /\ Q = EntriesOver(n.right.left, W, U)
      BY <1>30, <2>1, AvlSubtrees
    <3>2. HeightOf(u, v) = HeightOf(v, u) /\ v - u \in -1 .. 1
      BY <3>1 DEF HeightOf, Taller
    <3> QED
      BY <3>1, <3>2
  <2>20. PICK U, W : AvlOver(n.right.left, v, u, W, U, H, X) /\ Q = EntriesOver(n.right.left, W, U)
    BY <2>2
  <2>30. /\ Placed(n.right, EntriesOver(n.right.left, W, U), P, X) /\ Placed(n.right.left, W, U, X)
         /\ <<n.right.left.right, u, U>> \in H /\ <<n.right.left.left, v, W>> \in H
    BY <1>30, <2>20 DEF AvlOver
  <2>3. HeightOf(u, v) = HeightOf(v, u)
    BY DEF HeightOf, Taller
  <2>4. /\ Exact(n.right.left, v, u) /\ Exact(n.right, HeightOf(v, u), x)
        /\ n.right.left.flag \in -1 .. 1
    BY <1>20, <2>2, <2>20, <2>3 DEF AvlOver, Exact
  <2>5. c = AvlRotateRight(n.right)
    BY <1>7
  <2> HIDE DEF c
  <2>6. /\ Exact(c.t, v, HeightOf(u, x)) /\ Exact(c.t.right, u, x)
        /\ c.t.left = n.right.left.left
        /\ c.t.right.left = n.right.left.right /\ c.t.right.right = n.right.right
        /\ c.t.key = n.right.left.key /\ c.t.val = n.right.left.val
        /\ c.t.right.key = n.right.key /\ c.t.right.val = n.right.val
        /\ c.dh = HeightOf(v, HeightOf(u, x)) - HeightOf(HeightOf(v, u), x)
        /\ c.ok
    BY <2>4, <2>5, <1>7, AvlRotateRightExact
  <2>7. /\ c.dh = 0 /\ u - x \in -1 .. 0 /\ HeightOf(u, x) = x + 1 /\ v - x \in -1 .. 0
        /\ HeightOf(HeightOf(u, x), v) = a
    BY <1>2, <2>1, <2>2, <2>6 DEF HeightOf, Taller
  <2>8. q = [key |-> n.key, val |-> n.val, flag |-> 2, left |-> n.left, right |-> c.t]
    <3>1. n.flag + c.dh = 2 /\ 2 \in -4 .. 3 /\ IsNode(n)
      BY <2>7, <1>1 DEF AvlOver, Exact
    <3>2. q = WithBalance([n EXCEPT !.right = c.t], 2)
      BY <3>1
    <3> QED
      BY <3>1, <3>2, Relink
  <2> HIDE DEF q
  <2>9. /\ q.right = c.t /\ q.left = n.left /\ q.key = n.key /\ q.val = n.val
        /\ q.flag = 2 /\ Exact(q, b, HeightOf(HeightOf(u, x), v))
    BY <2>7, <2>8 DEF Exact, IsNode
  <2>10. HeightOf(u, x) \in Nat /\ q.right.flag \in -1 .. 2
    BY <2>6, <2>7, <2>9 DEF Exact
  <2>11. /\ Exact(r.t, HeightOf(v, b), HeightOf(u, x)) /\ Exact(r.t.left, b, v)
         /\ r.t.right = c.t.right
         /\ r.t.left.right = c.t.left /\ r.t.left.left = n.left
         /\ r.t.key = c.t.key /\ r.t.val = c.t.val
         /\ r.t.left.key = n.key /\ r.t.left.val = n.val
         /\ r.dh = HeightOf(HeightOf(u, x), HeightOf(v, b))
                     - HeightOf(HeightOf(HeightOf(u, x), v), b)
         /\ r.ok
    BY <2>6, <2>9, <2>10, AvlRotateLeftExact
  <2> HIDE DEF r
  <2>12. /\ HeightOf(v, b) = x + 1 /\ HeightOf(b, v) = x + 1
         /\ HeightOf(a, b) + r.dh = x + 2 /\ HeightOf(x + 1, x + 1) = x + 2
    BY <2>1, <2>7, <2>11 DEF HeightOf, Taller
  <2>13. Entry(c.t) = Entry(n.right.left) /\ Entry(c.t.right) = Entry(n.right)
             /\ Entry(r.t) = Entry(c.t)
         /\ Entry(r.t.left) = Entry(n)
    BY <2>6, <2>11 DEF Entry
  <2>14. /\ Placed(c.t, W, EntriesOver(c.t.right, U, P), X) /\ Placed(c.t.right, U, P, X)
         /\ EntriesOver(c.t, W, EntriesOver(c.t.right, U, P))
              = EntriesOver(n.right, EntriesOver(n.right.left, W, U), P)
    BY <1>1, <2>13, <2>30, TurnedRight
  <2>15. /\ Placed(n, L, EntriesOver(c.t, W, EntriesOver(c.t.right, U, P)), X)
         /\ E = EntriesOver(n, L, EntriesOver(c.t, W, EntriesOver(c.t.right, U, P)))
    BY <1>20, <1>30, <2>14, <2>20
  <2>16. /\ Placed(r.t, EntriesOver(r.t.left, L, W), EntriesOver(c.t.right, U, P), X)
         /\ Placed(r.t.left, L, W, X)
         /\ EntriesOver(r.t, EntriesOver(r.t.left, L, W), EntriesOver(c.t.right, U, P)) = E
    <3> HIDE DEF E
    <3> DEFINE Z == EntriesOver(c.t.right, U, P)
    <3>1. /\ Placed(n, L, EntriesOver(c.t, W, Z), X) /\ Placed(c.t, W, Z, X)
          /\ E = EntriesOver(n, L, EntriesOver(c.t, W, Z))
      BY <2>14, <2>15
    <3> HIDE DEF Z
    <3>2. /\ Placed(r.t, EntriesOver(r.t.left, L, W), Z, X) /\ Placed(r.t.left, L, W, X)
          /\ EntriesOver(r.t, EntriesOver(r.t.left, L, W), Z) = E
      BY <1>1, <2>13, <3>1, TurnedLeft
    <3> QED
      BY <3>2 DEF Z
  <2> HIDE DEF E
  <2>17. AvlOver(c.t.right, u, x, U, P, H, X) /\ AvlOver(r.t.left, b, v, L, W, H, X)
    BY <1>30, <2>6, <2>11, <2>14, <2>16, <2>30 DEF AvlOver
  <2>18. /\ <<c.t.right, x + 1, EntriesOver(c.t.right, U, P)>> \in H
         /\ <<r.t.left, x + 1, EntriesOver(r.t.left, L, W)>> \in H
    <3>1. x - u \in -1 .. 1 /\ v - b \in -1 .. 1
      BY <2>1, <2>7
    <3>2. <<c.t.right, HeightOf(u, x), EntriesOver(c.t.right, U, P)>> \in H
      BY <2>17, <3>1, AvlNode
    <3>3. <<r.t.left, HeightOf(b, v), EntriesOver(r.t.left, L, W)>> \in H
      BY <2>17, <3>1, AvlNode
    <3> QED
      BY <3>2, <3>3, <2>7, <2>12
  <2>19. AvlOver(r.t, x + 1, x + 1, EntriesOver(r.t.left, L, W), EntriesOver(c.t.right, U, P), H, X)
    BY <2>7, <2>11, <2>12, <2>16, <2>18 DEF AvlOver
  <2>21. <<r.t, HeightOf(x + 1, x + 1), E>> \in H
    <3>1. x + 1 \in Nat /\ (x + 1) - (x + 1) \in -1 .. 1
      OBVIOUS
    <3>2. <<r.t, HeightOf(x + 1, x + 1),
            EntriesOver(r.t, EntriesOver(r.t.left, L, W), EntriesOver(c.t.right, U, P))>> \in H
      BY <2>19, <3>1, AvlNode
    <3> QED
      BY <2>16, <3>2
  <2> QED
    BY <2>6, <2>11, <2>12, <2>21
<1> QED
  BY <1>6, <1>7

\* The step every insertion and removal of avl.c does on its way up: whatever
\* trees it stands over, a node out of balance by at most two becomes an AVL
\* tree again with the same entries, the change of height avl_n_repair reports is
\* the change there is, and no assertion of avl_n_repair or the rotations fails
\* (avl.c:21-95).
THEOREM AvlRepairRestores ==
  ASSUME NEW H, NEW X, NEW n, NEW a \in Nat, NEW b \in Nat, NEW L, NEW R, AvlTrees(H, X),
         AvlOver(n, a, b, L, R, H, X), b - a \in -2 .. 2
  PROVE  LET r == AvlRepair(n)
         IN  <<r.t, HeightOf(a, b) + r.dh, EntriesOver(n, L, R)>> \in H /\ r.ok
<1>1. n.flag = b - a
  BY DEF AvlOver, Exact
<1>2. CASE b - a = -2
  BY <1>2, AvlRepairLeft
<1>3. CASE b - a = 2
  <2>1. HeightOf(a, b) = HeightOf(b, a) /\ b = a + 2
    BY <1>3 DEF HeightOf, Taller
  <2> QED
    BY <2>1, AvlRepairRight
<1>4. CASE b - a \in -1 .. 1
  <2>1. AvlRepair(n) = Rotated(n, 0, TRUE)
    <3>1. n.flag # -2 /\ n.flag # 2
      BY <1>1, <1>4
    <3> QED
      BY <3>1, Zenon DEF AvlRepair
  <2>2. AvlRepair(n).t = n /\ AvlRepair(n).dh = 0 /\ AvlRepair(n).ok
    BY <2>1 DEF Rotated
  <2>3. HeightOf(a, b) \in Nat
    BY DEF HeightOf, Taller
  <2> QED
    BY <2>2, <2>3, <1>4, AvlNode
<1> QED
  BY <1>2, <1>3, <1>4

\* A repair never makes a tree taller, and does nothing to one in balance.
LEMMA AvlRepairShortens ==
  ASSUME NEW n
  PROVE  AvlRepair(n).dh \in -1 .. 0 /\ (n.flag \notin {-2, 2} => AvlRepair(n).dh = 0)
<1>1. \A m : AvlRotateRight(m).dh \in -1 .. 0 /\ AvlRotateLeft(m).dh \in -1 .. 0
  BY DEF AvlRotateRight, AvlRotateLeft, Rotated
<1>2. CASE n.flag = -2
  <2> DEFINE c == IF n.left.flag = 1 THEN AvlRotateLeft(n.left) ELSE Rotated(n.left, 0, TRUE)
             q == WithBalance([n EXCEPT !.left = c.t], n.flag - c.dh)
             r == AvlRotateRight(q)
  <2>1. AvlRepair(n) = Rotated(r.t, r.dh, n.left.flag \in -1 .. 1 /\ c.ok /\ r.ok)
    BY <1>2 DEF AvlRepair
  <2>2. r.dh \in -1 .. 0
    BY <1>1
  <2> HIDE DEF r, c
  <2> QED
    BY <1>2, <2>1, <2>2 DEF Rotated
<1>3. CASE n.flag = 2
  <2> DEFINE c == IF n.right.flag = -1 THEN AvlRotateRight(n.right) ELSE Rotated(n.right, 0, TRUE)
             q == WithBalance([n EXCEPT !.right = c.t], n.flag + c.dh)
             r == AvlRotateLeft(q)
  <2>1. AvlRepair(n) = Rotated(r.t, r.dh, n.right.flag \in -1 .. 1 /\ c.ok /\ r.ok)
    BY <1>3 DEF AvlRepair
  <2>2. r.dh \in -1 .. 0
    BY <1>1
  <2> HIDE DEF r, c
  <2> QED
    BY <1>3, <2>1, <2>2 DEF Rotated
<1>4. CASE n.flag # -2 /\ n.flag # 2
  <2>1. AvlRepair(n) = Rotated(n, 0, TRUE)
    BY <1>4, Zenon DEF AvlRepair
  <2> QED
    BY <2>1 DEF Rotated
<1> QED
  BY <1>2, <1>3, <1>4

\* A node m on the way up is repaired to p if a subtree has changed its height by d.
RepairedIf(p, m, d) == p = IF d # 0 THEN AvlRepair(m) ELSE Rotated(m, 0, TRUE)

\* p is an AVL tree of what m and its subtrees of heights x and y hold, no taller, and as
\* tall if m is in balance.
Restored(p, m, x, y, L, R, H) ==
  /\ <<p.t, HeightOf(x, y) + p.dh, EntriesOver(m, L, R)>> \in H /\ p.ok
  /\ p.dh \in -1 .. 0 /\ (y - x \in -1 .. 1 => p.dh = 0)

\* Such a node is the root of an AVL tree again.
LEMMA AvlSettles ==
  ASSUME NEW H, NEW X, NEW m, NEW x \in Nat, NEW y \in Nat, NEW L, NEW R, NEW d, NEW p,
         AvlTrees(H, X), AvlOver(m, x, y, L, R, H, X), y - x \in -2 .. 2,
         d # 0 \/ y - x \in -1 .. 1, RepairedIf(p, m, d)
  PROVE  Restored(p, m, x, y, L, R, H)
<1>1. CASE d # 0
  <2>1. p = AvlRepair(m)
    BY <1>1 DEF RepairedIf
  <2>2. m.flag = y - x
    BY DEF AvlOver, Exact
  <2>3. AvlRepair(m).dh \in -1 .. 0 /\ (m.flag \notin {-2, 2} => AvlRepair(m).dh = 0)
    BY AvlRepairShortens
  <2>4. y - x \in -1 .. 1 => m.flag \notin {-2, 2}
    BY <2>2
  <2>5. p.dh \in -1 .. 0 /\ (y - x \in -1 .. 1 => p.dh = 0)
    BY <2>1, <2>3, <2>4
  <2> QED
    BY <2>1, <2>5, AvlRepairRestores DEF Restored
<1>2. CASE d = 0
  <2>1. p = Rotated(m, 0, TRUE)
    BY <1>2 DEF RepairedIf
  <2>2. p.t = m /\ p.dh = 0 /\ p.ok
    BY <2>1 DEF Rotated
  <2>3. HeightOf(x, y) \in Nat
    BY DEF HeightOf, Taller
  <2>4. <<m, HeightOf(x, y), EntriesOver(m, L, R)>> \in H
    BY <1>2, AvlNode
  <2>5. HeightOf(x, y) + 0 = HeightOf(x, y)
    BY <2>3
  <2> QED
    BY <2>2, <2>4, <2>5 DEF Restored
<1> QED
  BY <1>1, <1>2

\* The outcome q of a node whose tree had height h and now holds F, with that of its child, r:
\* both trees grew or both shrank, if they did.
HandedUp(q, r, h, F, H) ==
  /\ <<q.t, h + q.dh, F>> \in H /\ q.ok /\ q.rc = r.rc
  /\ q.dh \in -1 .. 1 /\ (r.dh >= 0 => q.dh >= 0) /\ (r.dh <= 0 => q.dh <= 0)

\* The way up from a left child whose tree was replaced by the outcome r, ...
LEMMA RebalancedLeft ==
  ASSUME NEW H, NEW X, NEW n, NEW a \in Nat, NEW b \in Nat, NEW x \in Nat, NEW R, NEW M,
         NEW r, NEW q, AvlTrees(H, X), Exact(n, a, b), <<n.right, b, R>> \in H,
             Placed(n, M, R, X), b - a \in -1 .. 1,
         <<r.t, x, M>> \in H, r.dh = x - a, r.dh \in -1 .. 1, r.ok,
         q = Rebalanced(n, -1, r)
  PROVE  HandedUp(q, r, HeightOf(a, b), EntriesOver(n, M, R), H)
<1> DEFINE taller == (-1) * n.flag > 0 \/ (n.flag = 0 /\ r.dh > 0)
           m == WithBalance([n EXCEPT !.left = r.t], n.flag + (-1) * r.dh)
           p == IF r.dh # 0 THEN AvlRepair(m) ELSE Rotated(m, 0, TRUE)
           up == IF taller THEN r.dh ELSE 0
<1>1. IsNode(n) /\ n.flag = b - a
  BY DEF Exact
<1>2. q = Outcome(p.t, r.rc, up + p.dh, r.ok /\ p.ok)
  <2>1. -1 < 0
    OBVIOUS
  <2> QED
    BY <2>1, Zenon DEF Rebalanced
<1>3. m = [key |-> n.key, val |-> n.val, flag |-> b - x, left |-> r.t, right |-> n.right]
  <2>1. n.flag + (-1) * r.dh = b - x /\ b - x \in -4 .. 3
    BY <1>1
  <2>2. m = WithBalance([n EXCEPT !.left = r.t], b - x)
    BY <2>1
  <2> HIDE DEF m
  <2> QED
    BY <1>1, <2>1, <2>2, Relink
<1>9. /\ HeightOf(a, b) + up = HeightOf(x, b) /\ up \in -1 .. 1 /\ HeightOf(x, b) \in Nat
      /\ (r.dh >= 0 => up >= 0) /\ (r.dh <= 0 => up <= 0)
      /\ (up = -1 => b - x = 0) /\ (up = 0 /\ r.dh >= 0 => b - x \in -1 .. 1)
  <2>1. up = IF a > b \/ (a = b /\ r.dh > 0) THEN r.dh ELSE 0
    BY <1>1
  <2> HIDE DEF up
  <2>2. HeightOf(a, b) + up = HeightOf(x, b) /\ up \in -1 .. 1 /\ HeightOf(x, b) \in Nat
    BY <2>1 DEF HeightOf, Taller
  <2>3. (r.dh >= 0 => up >= 0) /\ (r.dh <= 0 => up <= 0)
    BY <2>1
  <2>4. (up = -1 => b - x = 0) /\ (up = 0 /\ r.dh >= 0 => b - x \in -1 .. 1)
    BY <2>1
  <2> QED
    BY <2>2, <2>3, <2>4
<1> HIDE DEF m, up
<1>4. Exact(m, x, b) /\ Entry(m) = Entry(n) /\ m.left = r.t /\ m.right = n.right
  BY <1>3 DEF Exact, IsNode, Entry
<1>5. Placed(m, M, R, X) /\ EntriesOver(m, M, R) = EntriesOver(n, M, R)
  BY <1>4, StandsAs
<1>6. AvlOver(m, x, b, M, R, H, X)
  BY <1>4, <1>5 DEF AvlOver
<1>7. b - x \in -2 .. 2 /\ (r.dh # 0 \/ b - x \in -1 .. 1)
  OBVIOUS
<1> HIDE DEF p
<1>8. /\ <<p.t, HeightOf(x, b) + p.dh, EntriesOver(m, M, R)>> \in H /\ p.ok
      /\ p.dh \in -1 .. 0 /\ (b - x \in -1 .. 1 => p.dh = 0)
  <2>1. RepairedIf(p, m, r.dh)
    BY DEF p, RepairedIf
  <2> HIDE DEF taller
  <2>2. Restored(p, m, x, b, M, R, H)
    BY <1>6, <1>7, <2>1, AvlSettles
  <2> QED
    BY <2>2 DEF Restored
<1>10. q.t = p.t /\ q.rc = r.rc /\ q.dh = up + p.dh /\ q.ok = (r.ok /\ p.ok)
  BY <1>2, OutcomeHas
<1>11. q.ok
  BY <1>8, <1>10
<1>12. HeightOf(a, b) \in Nat
  BY DEF HeightOf, Taller
<1>13. HeightOf(a, b) + q.dh = HeightOf(x, b) + p.dh
  BY <1>8, <1>9, <1>10, <1>12
<1>14. q.dh \in -1 .. 1 /\ (r.dh >= 0 => q.dh >= 0) /\ (r.dh <= 0 => q.dh <= 0)
  BY <1>7, <1>8, <1>9, <1>10
<1> QED
  BY <1>5, <1>8, <1>10, <1>11, <1>13, <1>14 DEF HandedUp

\* ... and from a right one (avl.c:126-140, 170-175, 199-207).
LEMMA RebalancedRight ==
  ASSUME NEW H, NEW X, NEW n, NEW a \in Nat, NEW b \in Nat, NEW x \in Nat, NEW L, NEW M,
         NEW r, NEW q, AvlTrees(H, X), Exact(n, a, b), <<n.left, a, L>> \in H, Placed(n, L, M, X),
             b - a \in -1 .. 1,
         <<r.t, x, M>> \in H, r.dh = x - b, r.dh \in -1 .. 1, r.ok,
         q = Rebalanced(n, 1, r)
  PROVE  HandedUp(q, r, HeightOf(a, b), EntriesOver(n, L, M), H)
<1> DEFINE taller == 1 * n.flag > 0 \/ (n.flag = 0 /\ r.dh > 0)
           m == WithBalance([n EXCEPT !.right = r.t], n.flag + 1 * r.dh)
           p == IF r.dh # 0 THEN AvlRepair(m) ELSE Rotated(m, 0, TRUE)
           up == IF taller THEN r.dh ELSE 0
<1>1. IsNode(n) /\ n.flag = b - a
  BY DEF Exact
<1>2. q = Outcome(p.t, r.rc, up + p.dh, r.ok /\ p.ok)
  <2>1. ~(1 < 0)
    OBVIOUS
  <2> QED
    BY <2>1, Zenon DEF Rebalanced
<1>3. m = [key |-> n.key, val |-> n.val, flag |-> x - a, left |-> n.left, right |-> r.t]
  <2>1. n.flag + 1 * r.dh = x - a /\ x - a \in -4 .. 3
    BY <1>1
  <2>2. m = WithBalance([n EXCEPT !.right = r.t], x - a)
    BY <2>1
  <2> HIDE DEF m
  <2> QED
    BY <1>1, <2>1, <2>2, Relink
<1>9. /\ HeightOf(a, b) + up = HeightOf(a, x) /\ up \in -1 .. 1 /\ HeightOf(a, x) \in Nat
      /\ (r.dh >= 0 => up >= 0) /\ (r.dh <= 0 => up <= 0)
      /\ (up = -1 => x - a = 0) /\ (up = 0 /\ r.dh >= 0 => x - a \in -1 .. 1)
  <2>1. up = IF b > a \/ (a = b /\ r.dh > 0) THEN r.dh ELSE 0
    BY <1>1
  <2> HIDE DEF up
  <2>2. HeightOf(a, b) + up = HeightOf(a, x) /\ up \in -1 .. 1 /\ HeightOf(a, x) \in Nat
    BY <2>1 DEF HeightOf, Taller
  <2>3. (r.dh >= 0 => up >= 0) /\ (r.dh <= 0 => up <= 0)
    BY <2>1
  <2>4. (up = -1 => x - a = 0) /\ (up = 0 /\ r.dh >= 0 => x - a \in -1 .. 1)
    BY <2>1
  <2> QED
    BY <2>2, <2>3, <2>4
<1> HIDE DEF m, up
<1>4. Exact(m, a, x) /\ Entry(m) = Entry(n) /\ m.left = n.left /\ m.right = r.t
  BY <1>3 DEF Exact, IsNode, Entry
<1>5. Placed(m, L, M, X) /\ EntriesOver(m, L, M) = EntriesOver(n, L, M)
  BY <1>4, StandsAs
<1>6. AvlOver(m, a, x, L, M, H, X)
  BY <1>4, <1>5 DEF AvlOver
<1>7. x - a \in -2 .. 2 /\ (r.dh # 0 \/ x - a \in -1 .. 1)
  OBVIOUS
<1> HIDE DEF p
<1>8. /\ <<p.t, HeightOf(a, x) + p.dh, EntriesOver(m, L, M)>> \in H /\ p.ok
      /\ p.dh \in -1 .. 0 /\ (x - a \in -1 .. 1 => p.dh = 0)
  <2>1. RepairedIf(p, m, r.dh)
    BY DEF p, RepairedIf
  <2> HIDE DEF taller
  <2>2. Restored(p, m, a, x, L, M, H)
    BY <1>6, <1>7, <2>1, AvlSettles
  <2> QED
    BY <2>2 DEF Restored
<1>10. q.t = p.t /\ q.rc = r.rc /\ q.dh = up + p.dh /\ q.ok = (r.ok /\ p.ok)
  BY <1>2, OutcomeHas
<1>11. q.ok
  BY <1>8, <1>10
<1>12. HeightOf(a, b) \in Nat
  BY DEF HeightOf, Taller
<1>13. HeightOf(a, b) + q.dh = HeightOf(a, x) + p.dh
  BY <1>8, <1>9, <1>10, <1>12
<1>14. q.dh \in -1 .. 1 /\ (r.dh >= 0 => q.dh >= 0) /\ (r.dh <= 0 => q.dh <= 0)
  BY <1>7, <1>8, <1>9, <1>10
<1> QED
  BY <1>5, <1>8, <1>10, <1>11, <1>13, <1>14 DEF HandedUp

\* What an AVL tree is: empty, or a node over two others that are less tall.
LEMMA AvlTake ==
  ASSUME NEW H, NEW X, NEW n, NEW h, NEW E, AvlTrees(H, X), <<n, h, E>> \in H
  PROVE  /\ h \in Nat /\ E \in SUBSET X
         /\ n = NULL => h = 0 /\ E = {}
         /\ n # NULL => \E a \in Nat, b \in Nat : \E L, R :
              /\ AvlOver(n, a, b, L, R, H, X) /\ b - a \in -1 .. 1 /\ a < h /\ b < h
              /\ h = HeightOf(a, b) /\ E = EntriesOver(n, L, R)
<1>1. CASE n = NULL
  <2>1. ~AvlRoot(n, h, E, H, X)
    BY <1>1 DEF AvlTrees, AvlRoot, AvlOver, Exact
  <2> QED
    BY <1>1, <2>1 DEF AvlTrees
<1>2. CASE n # NULL
  <2>1. PICK a \in Nat, b \in Nat : \E L, R :
           /\ AvlOver(n, a, b, L, R, H, X) /\ b - a \in -1 .. 1
           /\ h = HeightOf(a, b) /\ E = EntriesOver(n, L, R)
    BY <1>2, AvlSubtrees
  <2>2. h \in Nat /\ a < h /\ b < h
    BY <2>1 DEF HeightOf, Taller
  <2>3. E \in SUBSET X
    BY <2>1 DEF AvlOver, Placed, EntriesOver
  <2> QED
    BY <1>2, <2>1, <2>2, <2>3
<1> QED
  BY <1>1, <1>2

\* Of some AVL trees one is least tall.
LEMMA AvlLowest ==
  ASSUME NEW H, NEW X, NEW Bad, AvlTrees(H, X), Bad \in SUBSET H, \E n, h, E : <<n, h, E>> \in Bad
  PROVE  \E n, h, E : /\ <<n, h, E>> \in Bad /\ <<n, h, E>> \in H
                      /\ \A m, g, F : <<m, g, F>> \in Bad => ~(g < h)
<1> DEFINE T == {w \in Nat : \E n, E : <<n, w, E>> \in Bad}
<1>1. \A n, h, E : <<n, h, E>> \in Bad => h \in T
  <2> SUFFICES ASSUME NEW n, NEW h, NEW E, <<n, h, E>> \in Bad PROVE h \in Nat
    OBVIOUS
  <2>1. <<n, h, E>> \in H
    OBVIOUS
  <2> QED
    BY <2>1, AvlTake
<1>2. T \in SUBSET Nat /\ T # {}
  BY <1>1
<1>3. PICK w \in T : \A y \in T : w <= y
  <2> HIDE DEF T
  <2> QED
    BY <1>2, LeastNumber
<1>4. PICK n, E : <<n, w, E>> \in Bad
  OBVIOUS
<1>5. \A m, g, F : <<m, g, F>> \in Bad => ~(g < w)
  <2> SUFFICES ASSUME NEW m, NEW g, NEW F, <<m, g, F>> \in Bad PROVE ~(g < w)
    OBVIOUS
  <2>1. g \in T
    BY <1>1
  <2>2. w <= g /\ w \in Nat /\ g \in Nat
    BY <1>3, <2>1
  <2> QED
    BY <2>2
<1> QED
  BY <1>4, <1>5

\* AvlInsert is the recursion of the code, in an insertion of k with the value v into each of the
\* trees of H.
AvlInserting(H, k, v, alloc) ==
  \A n, h, E : <<n, h, E>> \in H => AvlInsert(n, k, v, alloc) = AvlInsertStep(n, k, v, alloc)

\* The outcome r of an insertion into a tree of height h that holds E
AvlInserted(r, h, E, k, v, alloc, H) ==
  /\ r.ok /\ r.dh \in 0 .. 1
  /\ \E F : <<r.t, h + r.dh, F>> \in H /\ Inserted(E, k, v, alloc, F, r.rc)

\* An insertion in the left subtree, ...
LEMMA AvlInsertsLeft ==
  ASSUME NEW H, NEW X, NEW n, NEW a \in Nat, NEW b \in Nat, NEW L, NEW R, NEW k, NEW v, NEW alloc,
         NEW r, NEW q, AvlTrees(H, X), AvlOver(n, a, b, L, R, H, X), b - a \in -1 .. 1,
         <<k, v>> \in X, k < n.key, AvlInserted(r, a, L, k, v, alloc, H),
         q = Rebalanced(n, -1, r)
  PROVE  AvlInserted(q, HeightOf(a, b), EntriesOver(n, L, R), k, v, alloc, H)
<1>1. PICK M : <<r.t, a + r.dh, M>> \in H /\ Inserted(L, k, v, alloc, M, r.rc)
  BY DEF AvlInserted
<1>2. Placed(n, L, R, X) /\ \A e \in X : e[1] \in Int
  BY DEF AvlOver, AvlTrees
<1>3. /\ M \in SUBSET X /\ \A e \in M : e[1] < n.key
      /\ Inserted(EntriesOver(n, L, R), k, v, alloc, EntriesOver(n, M, R), r.rc)
  BY <1>1, <1>2, InsertedLeft
<1>4. PICK x : x = a + r.dh
  OBVIOUS
<1>5. x \in Nat /\ r.dh = x - a /\ r.dh \in -1 .. 1 /\ r.dh >= 0 /\ r.ok /\ <<r.t, x, M>> \in H
  BY <1>1, <1>4 DEF AvlInserted
<1>6. HandedUp(q, r, HeightOf(a, b), EntriesOver(n, M, R), H)
  <2>1. Exact(n, a, b) /\ <<n.right, b, R>> \in H /\ Placed(n, M, R, X)
    BY <1>3 DEF AvlOver, Placed
  <2> QED
    BY <1>5, <2>1, RebalancedLeft
<1>7. q.dh \in 0 .. 1
  BY <1>5, <1>6 DEF HandedUp
<1> QED
  BY <1>3, <1>6, <1>7 DEF AvlInserted, HandedUp

\* ... in the right one, ...
LEMMA AvlInsertsRight ==
  ASSUME NEW H, NEW X, NEW n, NEW a \in Nat, NEW b \in Nat, NEW L, NEW R, NEW k, NEW v, NEW alloc,
         NEW r, NEW q, AvlTrees(H, X), AvlOver(n, a, b, L, R, H, X), b - a \in -1 .. 1,
         <<k, v>> \in X, k > n.key, AvlInserted(r, b, R, k, v, alloc, H),
         q = Rebalanced(n, 1, r)
  PROVE  AvlInserted(q, HeightOf(a, b), EntriesOver(n, L, R), k, v, alloc, H)
<1>1. PICK M : <<r.t, b + r.dh, M>> \in H /\ Inserted(R, k, v, alloc, M, r.rc)
  BY DEF AvlInserted
<1>2. Placed(n, L, R, X) /\ \A e \in X : e[1] \in Int
  BY DEF AvlOver, AvlTrees
<1>3. /\ M \in SUBSET X /\ \A e \in M : n.key < e[1]
      /\ Inserted(EntriesOver(n, L, R), k, v, alloc, EntriesOver(n, L, M), r.rc)
  BY <1>1, <1>2, InsertedRight
<1>4. PICK x : x = b + r.dh
  OBVIOUS
<1>5. x \in Nat /\ r.dh = x - b /\ r.dh \in -1 .. 1 /\ r.dh >= 0 /\ r.ok /\ <<r.t, x, M>> \in H
  BY <1>1, <1>4 DEF AvlInserted
<1>6. HandedUp(q, r, HeightOf(a, b), EntriesOver(n, L, M), H)
  <2>1. Exact(n, a, b) /\ <<n.left, a, L>> \in H /\ Placed(n, L, M, X)
    BY <1>3 DEF AvlOver, Placed
  <2> QED
    BY <1>5, <2>1, RebalancedRight
<1>7. q.dh \in 0 .. 1
  BY <1>5, <1>6 DEF HandedUp
<1> QED
  BY <1>3, <1>6, <1>7 DEF AvlInserted, HandedUp

\* ... at the node, ...
LEMMA AvlInsertsHere ==
  ASSUME NEW H, NEW X, NEW n, NEW a \in Nat, NEW b \in Nat, NEW L, NEW R, NEW v, NEW alloc, NEW q,
         AvlTrees(H, X), AvlOver(n, a, b, L, R, H, X), b - a \in -1 .. 1,
         <<n.key, v>> \in X, q = Result(SetValue(n, v), 0)
  PROVE  AvlInserted(q, HeightOf(a, b), EntriesOver(n, L, R), n.key, v, alloc, H)
<1>1. Placed(n, L, R, X) /\ (\A e \in X : e[1] \in Int) /\ IsNode(n) /\ n.flag = b - a
  BY DEF AvlOver, AvlTrees, Exact
<1>2. q.t = SetValue(n, v) /\ q.rc = 0 /\ q.dh = 0 /\ q.ok
  BY DEF Result, Outcome
<1>3. PICK m : m = SetValue(n, v)
  OBVIOUS
<1>4. m = NodeWith(n.key, IF v = NULL THEN n.val ELSE v, n.flag, n.left, n.right)
  BY <1>1, <1>3, SMT DEF IsNode, NodeWith, SetValue
<1>5. /\ IsNode(m) /\ Entry(m) = IF v = NULL THEN Entry(n) ELSE <<n.key, v>>
      /\ m.key = n.key /\ m.flag = n.flag /\ m.left = n.left /\ m.right = n.right
  BY <1>4, NodeFields DEF Entry
<1>6. Inserted(EntriesOver(n, L, R), n.key, v, alloc, EntriesOver(m, L, R), 0)
  BY <1>1, <1>5, InsertedHere
<1>7. AvlOver(m, a, b, L, R, H, X)
  BY <1>1, <1>5 DEF AvlOver, Exact, Placed
<1>8. <<m, HeightOf(a, b), EntriesOver(m, L, R)>> \in H
  BY <1>7, AvlNode
<1>9. HeightOf(a, b) + 0 = HeightOf(a, b)
  BY DEF HeightOf, Taller
<1>10. q.dh \in 0 .. 1
  BY <1>2
<1> QED
  BY <1>2, <1>3, <1>6, <1>8, <1>9, <1>10 DEF AvlInserted

\* ... and into the empty tree.
LEMMA AvlInsertsFirst ==
  ASSUME NEW H, NEW X, NEW k, NEW v, NEW alloc \in BOOLEAN, AvlTrees(H, X), <<k, v>> \in X
  PROVE  AvlInserted(NewNode(k, v, alloc), 0, {}, k, v, alloc, H)
<1>1. CASE alloc
  <2>1. LET r == NewNode(k, v, alloc) IN r.t = Node(k, v) /\ r.rc = 1 /\ r.dh = 1 /\ r.ok
    BY <1>1 DEF NewNode, Outcome
  <2>2. Inserted({}, k, v, alloc, {<<k, v>>}, 1)
    BY <1>1 DEF Inserted
  <2>3. PICK m : m = Node(k, v)
    OBVIOUS
  <2>4. m = NodeWith(k, v, 0, NULL, NULL)
    BY <2>3 DEF Node, NodeWith
  <2>5. IsNode(m) /\ Entry(m) = <<k, v>> /\ m.flag = 0 /\ m.left = NULL /\ m.right = NULL
    BY <2>4, NodeFields
  <2>6. <<NULL, 0, {}>> \in H
    BY DEF AvlTrees
  <2>7. Placed(m, {}, {}, X) /\ EntriesOver(m, {}, {}) = {<<k, v>>}
    BY <2>5 DEF Placed, EntriesOver
  <2>8. AvlOver(m, 0, 0, {}, {}, H, X)
    BY <2>5, <2>6, <2>7 DEF AvlOver, Exact
  <2>9. HeightOf(0, 0) = 1 /\ 0 - 0 \in -1 .. 1 /\ 0 + 1 = 1 /\ 1 \in 0 .. 1
    BY DEF HeightOf, Taller
  <2>10. <<m, HeightOf(0, 0), EntriesOver(m, {}, {})>> \in H
    BY <2>8, <2>9, AvlNode
  <2> QED
    BY <2>1, <2>2, <2>3, <2>7, <2>9, <2>10 DEF AvlInserted
<1>2. CASE ~alloc
  <2>1. LET r == NewNode(k, v, alloc) IN r.t = NULL /\ r.rc = -1 /\ r.dh = 0 /\ r.ok
    BY <1>2 DEF NewNode, Result, Outcome
  <2>2. Inserted({}, k, v, alloc, {}, -1)
    BY <1>2 DEF Inserted
  <2>3. <<NULL, 0, {}>> \in H /\ 0 + 0 = 0 /\ 0 \in 0 .. 1
    BY DEF AvlTrees
  <2> QED
    BY <2>1, <2>2, <2>3 DEF AvlInserted
<1> QED
  BY <1>1, <1>2

\* avl_n_insert as a whole: it makes an AVL tree of an AVL tree, whose height it reports,
\* with the new entry, the new value or, without memory, nothing new, and no assertion on
\* the way fails (avl.c:101-147).
THEOREM AvlInsertSound ==
  ASSUME NEW H, NEW X, NEW k, NEW v, NEW alloc \in BOOLEAN,
         AvlTrees(H, X), Comparable(k, X), <<k, v>> \in X, AvlInserting(H, k, v, alloc)
  PROVE  \A n, h, E : <<n, h, E>> \in H
      => AvlInserted(AvlInsert(n, k, v, alloc), h, E, k, v, alloc, H)
<1> DEFINE Bad ==
      {b \in H : \E n, h, E :
         b = <<n, h, E>> /\ ~AvlInserted(AvlInsert(n, k, v, alloc), h, E, k, v, alloc, H)}
<1>1. \A n, h, E : <<n, h, E>> \in Bad
                     <=> <<n, h, E>> \in H
                         /\ ~AvlInserted(AvlInsert(n, k, v, alloc), h, E, k, v, alloc, H)
  OBVIOUS
<1>2. Bad \in SUBSET H
  OBVIOUS
<1> HIDE DEF Bad
<1> SUFFICES ASSUME \E n, h, E : <<n, h, E>> \in Bad
             PROVE  FALSE
  BY <1>1
<1>3. PICK n, h, E : /\ <<n, h, E>> \in Bad /\ <<n, h, E>> \in H
                     /\ \A m, g, F : <<m, g, F>> \in Bad => ~(g < h)
  BY <1>2, AvlLowest
<1>4. \A m, g, F : <<m, g, F>> \in H /\ g < h
          => AvlInserted(AvlInsert(m, k, v, alloc), g, F, k, v, alloc, H)
  BY <1>1, <1>3
<1>5. AvlInsert(n, k, v, alloc) = AvlInsertStep(n, k, v, alloc)
  BY <1>3 DEF AvlInserting
<1>6. CASE n = NULL
  <2>1. AvlInsert(n, k, v, alloc) = NewNode(k, v, alloc)
    BY <1>5, <1>6 DEF AvlInsertStep
  <2>2. n = NULL => h = 0 /\ E = {}
    BY <1>3, AvlTake
  <2>3. AvlInserted(AvlInsert(n, k, v, alloc), h, E, k, v, alloc, H)
    BY <1>6, <2>1, <2>2, AvlInsertsFirst
  <2> QED
    BY <1>1, <1>3, <2>3
<1>7. CASE n # NULL
  <2>1. PICK a, b, L, R :
           /\ a \in Nat /\ b \in Nat
           /\ AvlOver(n, a, b, L, R, H, X) /\ b - a \in -1 .. 1 /\ a < h /\ b < h
           /\ h = HeightOf(a, b) /\ E = EntriesOver(n, L, R)
    <3>1. \E a \in Nat, b \in Nat : \E L, R :
           /\ AvlOver(n, a, b, L, R, H, X) /\ b - a \in -1 .. 1 /\ a < h /\ b < h
           /\ h = HeightOf(a, b) /\ E = EntriesOver(n, L, R)
      BY <1>3, <1>7, AvlTake
    <3> QED
      BY <3>1
  <2>2. <<n.left, a, L>> \in H /\ <<n.right, b, R>> \in H
    BY <2>1 DEF AvlOver
  <2>3. /\ Compare(k, n.key) < 0 <=> k < n.key
        /\ Compare(k, n.key) > 0 <=> k > n.key
        /\ k \in Int /\ n.key \in Int
    <3>1. Entry(n) \in X /\ Entry(n)[1] = n.key /\ <<k, v>>[1] = k
      BY <2>1 DEF AvlOver, Placed, Entry
    <3> QED
      BY <3>1 DEF Comparable, AvlTrees
  <2>4. CASE k < n.key
    <3>1. AvlInsert(n, k, v, alloc) = Rebalanced(n, -1, AvlInsert(n.left, k, v, alloc))
      <4>1. Compare(k, n.key) < 0 /\ ~(Compare(k, n.key) > 0)
        BY <2>3, <2>4
      <4> QED
        BY <1>5, <1>7, <4>1, Zenon DEF AvlInsertStep
    <3>2. AvlInserted(AvlInsert(n.left, k, v, alloc), a, L, k, v, alloc, H)
      BY <1>4, <2>1, <2>2
    <3>3. AvlInserted(AvlInsert(n, k, v, alloc), h, E, k, v, alloc, H)
      BY <2>1, <2>4, <3>1, <3>2, AvlInsertsLeft
    <3> QED
      BY <1>1, <1>3, <3>3
  <2>5. CASE k > n.key
    <3>1. AvlInsert(n, k, v, alloc) = Rebalanced(n, 1, AvlInsert(n.right, k, v, alloc))
      <4>1. Compare(k, n.key) > 0 /\ ~(Compare(k, n.key) < 0)
        BY <2>3, <2>5
      <4> QED
        BY <1>5, <1>7, <4>1, Zenon DEF AvlInsertStep
    <3>2. AvlInserted(AvlInsert(n.right, k, v, alloc), b, R, k, v, alloc, H)
      BY <1>4, <2>1, <2>2
    <3>3. AvlInserted(AvlInsert(n, k, v, alloc), h, E, k, v, alloc, H)
      BY <2>1, <2>5, <3>1, <3>2, AvlInsertsRight
    <3> QED
      BY <1>1, <1>3, <3>3
  <2>6. CASE k = n.key
    <3>1. AvlInsert(n, k, v, alloc) = Result(SetValue(n, v), 0)
      <4>1. ~(Compare(k, n.key) < 0) /\ ~(Compare(k, n.key) > 0)
        BY <2>3, <2>6
      <4> QED
        BY <1>5, <1>7, <4>1, Zenon DEF AvlInsertStep
    <3>2. AvlInserted(AvlInsert(n, k, v, alloc), h, E, n.key, v, alloc, H)
      BY <2>1, <2>6, <3>1, AvlInsertsHere
    <3> QED
      BY <1>1, <1>3, <2>6, <3>2
  <2> QED
    BY <2>3, <2>4, <2>5, <2>6
<1> QED
  BY <1>6, <1>7

-----------------------------------------------------------------------------
(* Removal from AVL trees.                                                 *)

\* AVL trees are ordered, with their heights for ranks.
LEMMA AvlTreesOrdered ==
  ASSUME NEW H, NEW X, AvlTrees(H, X)
  PROVE  OrderedTrees(H, X)
<1>1. \A e \in X : e[1] \in Int
  BY DEF AvlTrees
<1>2. ASSUME NEW n, NEW w, NEW E, <<n, w, E>> \in H
      PROVE  w \in Nat /\ E \in SUBSET X /\ (n = NULL => E = {})
  BY <1>2, AvlTake
<1>4. \A n, w, E : <<n, w, E>> \in H => w \in Nat /\ E \in SUBSET X /\ (n = NULL => E = {})
  BY <1>2
<1>5. \A n, w, E : <<n, w, E>> \in H /\ n # NULL => OverLesser(n, w, E, H, X)
  <2> TAKE n, w, E
  <2> HAVE <<n, w, E>> \in H /\ n # NULL
  <2>1. \E a \in Nat, b \in Nat : \E L, R :
           /\ AvlOver(n, a, b, L, R, H, X) /\ b - a \in -1 .. 1 /\ a < w /\ b < w
           /\ w = HeightOf(a, b) /\ E = EntriesOver(n, L, R)
    BY AvlTake
  <2>2. PICK a, b, L, R :
          a \in Nat /\ b \in Nat /\ AvlOver(n, a, b, L, R, H, X) /\ a < w /\ b < w
              /\ E = EntriesOver(n, L, R)
    BY <2>1
  <2> QED
    BY <2>2 DEF AvlOver, OverLesser
<1> QED
  BY <1>1, <1>4, <1>5 DEF OrderedTrees

\* The outcome r of taking the first entry out of an AVL tree of height h that holds E
AvlFirstTaken(r, h, E, H) ==
  /\ r.ok /\ r.rc = 1 /\ r.dh \in -1 .. 0
  /\ \E s, M : FirstGone(s, E, M) /\ <<r.t, h + r.dh, M>> \in H

\* AvlRemoveMin is the recursion of the code on each tree of H.
AvlTakingFirst(H) ==
  \A n, h, E : <<n, h, E>> \in H /\ n # NULL => AvlRemoveMin(n) = AvlRemoveMinStep(n)

\* Taking the first entry out of the left subtree
LEMMA AvlTakesLeft ==
  ASSUME NEW H, NEW X, NEW n, NEW a \in Nat, NEW b \in Nat, NEW L, NEW R, NEW r, NEW q,
         AvlTrees(H, X), AvlOver(n, a, b, L, R, H, X), b - a \in -1 .. 1,
         AvlFirstTaken(r, a, L, H), q = Rebalanced(n, -1, r)
  PROVE  AvlFirstTaken(q, HeightOf(a, b), EntriesOver(n, L, R), H)
<1>1. PICK s, M : FirstGone(s, L, M) /\ <<r.t, a + r.dh, M>> \in H
  BY DEF AvlFirstTaken
<1>2. Placed(n, L, R, X) /\ \A e \in X : e[1] \in Int
  BY DEF AvlOver, AvlTrees
<1>3. M \in SUBSET L /\ FirstGone(s, EntriesOver(n, L, R), EntriesOver(n, M, R))
  BY <1>1, <1>2, FirstLeft
<1>4. PICK x : x = a + r.dh
  OBVIOUS
<1>5. x \in Nat /\ r.dh = x - a /\ r.dh \in -1 .. 1 /\ r.dh <= 0 /\ r.ok /\ <<r.t, x, M>> \in H
  <2>1. <<r.t, x, M>> \in H /\ r.dh \in -1 .. 0 /\ r.ok
    BY <1>1, <1>4 DEF AvlFirstTaken
  <2>2. x \in Nat
    BY <2>1, AvlTake
  <2> QED
    BY <1>4, <2>1, <2>2
<1>6. M \in SUBSET X /\ \A e \in M : e[1] < n.key
  BY <1>2, <1>3 DEF Placed
<1>7. HandedUp(q, r, HeightOf(a, b), EntriesOver(n, M, R), H)
  <2>1. Exact(n, a, b) /\ <<n.right, b, R>> \in H /\ Placed(n, M, R, X)
    BY <1>6 DEF AvlOver, Placed
  <2> QED
    BY <1>5, <2>1, RebalancedLeft
<1>8. q.dh \in -1 .. 0
  BY <1>5, <1>7 DEF HandedUp
<1>9. q.rc = 1
  BY <1>7 DEF HandedUp, AvlFirstTaken
<1> QED
  BY <1>3, <1>7, <1>8, <1>9 DEF AvlFirstTaken, HandedUp

\* A node without a left child is its tree's first, and what is right of it remains.
LEMMA AvlTakesHere ==
  ASSUME NEW H, NEW X, NEW n, NEW a \in Nat, NEW b \in Nat, NEW L, NEW R, NEW q,
         AvlTrees(H, X), AvlOver(n, a, b, L, R, H, X), b - a \in -1 .. 1, n.left = NULL,
         q = Outcome(n.right, 1, -1, TRUE)
  PROVE  AvlFirstTaken(q, HeightOf(a, b), EntriesOver(n, L, R), H)
<1>1. /\ <<n.left, a, L>> \in H /\ <<n.right, b, R>> \in H /\ Placed(n, L, R, X)
      /\ \A e \in X : e[1] \in Int
  BY DEF AvlOver, AvlTrees
<1>2. a = 0 /\ L = {}
  BY <1>1, AvlTake
<1>3. HeightOf(a, b) = b + 1
  BY <1>2 DEF HeightOf, Taller
<1>4. q.t = n.right /\ q.rc = 1 /\ q.dh = -1 /\ q.ok
  BY DEF Outcome
<1>5. FirstGone(Entry(n), EntriesOver(n, L, R), R)
  BY <1>1, <1>2, FirstHere
<1>6. (b + 1) + -1 = b /\ -1 \in -1 .. 0
  OBVIOUS
<1>7. <<q.t, HeightOf(a, b) + q.dh, R>> \in H /\ q.dh \in -1 .. 0
  BY <1>1, <1>3, <1>4, <1>6
<1> QED
  BY <1>4, <1>5, <1>7 DEF AvlFirstTaken

\* avl_n_remove_min as a whole (avl.c:153-179)
LEMMA AvlTakesFirst ==
  ASSUME NEW H, NEW X, AvlTrees(H, X), AvlTakingFirst(H)
  PROVE  \A n, h, E : <<n, h, E>> \in H /\ n # NULL => AvlFirstTaken(AvlRemoveMin(n), h, E, H)
<1> DEFINE Bad == {b \in H : \E n, h, E : /\ b = <<n, h, E>> /\ n # NULL
                                          /\ ~AvlFirstTaken(AvlRemoveMin(n), h, E, H)}
<1>1. \A n, h, E : <<n, h, E>> \in Bad
                     <=> <<n, h, E>> \in H /\ n # NULL /\ ~AvlFirstTaken(AvlRemoveMin(n), h, E, H)
  OBVIOUS
<1>2. Bad \in SUBSET H
  OBVIOUS
<1> HIDE DEF Bad
<1> SUFFICES ASSUME \E n, h, E : <<n, h, E>> \in Bad
             PROVE  FALSE
  BY <1>1
<1>3. PICK n, h, E : /\ <<n, h, E>> \in Bad /\ <<n, h, E>> \in H
                     /\ \A m, g, F : <<m, g, F>> \in Bad => ~(g < h)
  BY <1>2, AvlLowest
<1>4. n # NULL
  BY <1>1, <1>3
<1>5. \E a \in Nat, b \in Nat : \E L, R :
           /\ AvlOver(n, a, b, L, R, H, X) /\ b - a \in -1 .. 1 /\ a < h /\ b < h
           /\ h = HeightOf(a, b) /\ E = EntriesOver(n, L, R)
  BY <1>3, <1>4, AvlTake
<1>6. PICK a, b, L, R :
           /\ a \in Nat /\ b \in Nat
           /\ AvlOver(n, a, b, L, R, H, X) /\ b - a \in -1 .. 1 /\ a < h /\ b < h
           /\ h = HeightOf(a, b) /\ E = EntriesOver(n, L, R)
  BY <1>5
<1>7. CASE n.left = NULL
  <2>1. AvlRemoveMin(n) = Outcome(n.right, 1, -1, TRUE)
    BY <1>3, <1>4, <1>7 DEF AvlTakingFirst, AvlRemoveMinStep
  <2>2. AvlFirstTaken(AvlRemoveMin(n), h, E, H)
    BY <1>6, <1>7, <2>1, AvlTakesHere
  <2> QED
    BY <1>1, <1>3, <2>2
<1>8. CASE n.left # NULL
  <2>1. AvlRemoveMin(n) = Rebalanced(n, -1, AvlRemoveMin(n.left))
    BY <1>3, <1>4, <1>8, Zenon DEF AvlTakingFirst, AvlRemoveMinStep
  <2>2. <<n.left, a, L>> \in H
    BY <1>6 DEF AvlOver
  <2>3. AvlFirstTaken(AvlRemoveMin(n.left), a, L, H)
    BY <1>1, <1>3, <1>6, <1>8, <2>2
  <2>4. AvlFirstTaken(AvlRemoveMin(n), h, E, H)
    BY <1>6, <2>1, <2>3, AvlTakesLeft
  <2> QED
    BY <1>1, <1>3, <2>4
<1> QED
  BY <1>7, <1>8

\* AvlRemove is the recursion of the code, in a removal of k from each of the trees of H.
AvlRemoving(H, k) ==
  \A n, h, E : <<n, h, E>> \in H
    => AvlRemove(n, k) = AvlRemoveStep(n, k)

\* The outcome r of a removal from a tree of height h that holds E
AvlRemoved(r, h, E, k, H) ==
  /\ r.ok /\ r.dh \in -1 .. 0
  /\ \E F : <<r.t, h + r.dh, F>> \in H /\ Removed(E, k, F, r.rc)

\* Handing up a removal keeps to its range of heights.
LEMMA RemovalHandedUp ==
  ASSUME NEW H, NEW q, NEW r, NEW h, NEW E, NEW F, NEW k, HandedUp(q, r, h, F, H),
         r.dh \in -1 .. 0, Removed(E, k, F, r.rc)
  PROVE  AvlRemoved(q, h, E, k, H)
<1>1. q.dh \in -1 .. 0
  BY DEF HandedUp
<1>2. <<q.t, h + q.dh, F>> \in H /\ q.ok /\ q.rc = r.rc
  BY DEF HandedUp
<1> QED
  BY <1>1, <1>2 DEF AvlRemoved

\* A removal in the left subtree, ...
LEMMA AvlRemovesLeft ==
  ASSUME NEW H, NEW X, NEW n, NEW a \in Nat, NEW b \in Nat, NEW L, NEW R, NEW k \in Int, NEW r,
      NEW q,
         AvlTrees(H, X), AvlOver(n, a, b, L, R, H, X), b - a \in -1 .. 1, k < n.key,
         AvlRemoved(r, a, L, k, H), q = Rebalanced(n, -1, r)
  PROVE  AvlRemoved(q, HeightOf(a, b), EntriesOver(n, L, R), k, H)
<1>1. PICK M : <<r.t, a + r.dh, M>> \in H /\ Removed(L, k, M, r.rc)
  BY DEF AvlRemoved
<1>2. Placed(n, L, R, X) /\ \A e \in X : e[1] \in Int
  BY DEF AvlOver, AvlTrees
<1>3. \A e \in EntriesOver(n, L, R) : e[1] = k => e \in L
  <2>1. Entry(n)[1] = n.key /\ n.key \in Int /\ \A e \in R : e[1] \in Int /\ n.key < e[1]
    BY <1>2 DEF Placed, Entry
  <2> QED
    BY <2>1 DEF EntriesOver
<1>4. M \in SUBSET L /\ Removed(EntriesOver(n, L, R), k, EntriesOver(n, M, R), r.rc)
  BY <1>1, <1>2, <1>3, RemovedLeft
<1>5. PICK x : x = a + r.dh
  OBVIOUS
<1>6. x \in Nat /\ r.dh = x - a /\ r.dh \in -1 .. 0 /\ r.dh \in -1 .. 1 /\ r.ok
          /\ <<r.t, x, M>> \in H
  <2>1. <<r.t, x, M>> \in H /\ r.dh \in -1 .. 0 /\ r.ok
    BY <1>1, <1>5 DEF AvlRemoved
  <2>2. x \in Nat
    BY <2>1, AvlTake
  <2> QED
    BY <1>5, <2>1, <2>2
<1>7. HandedUp(q, r, HeightOf(a, b), EntriesOver(n, M, R), H)
  <2>1. Exact(n, a, b) /\ <<n.right, b, R>> \in H /\ Placed(n, M, R, X)
    BY <1>4 DEF AvlOver, Placed
  <2> QED
    BY <1>6, <2>1, RebalancedLeft
<1> QED
  BY <1>4, <1>6, <1>7, RemovalHandedUp

\* ... in the right one, ...
LEMMA AvlRemovesRight ==
  ASSUME NEW H, NEW X, NEW n, NEW a \in Nat, NEW b \in Nat, NEW L, NEW R, NEW k \in Int, NEW r,
      NEW q,
         AvlTrees(H, X), AvlOver(n, a, b, L, R, H, X), b - a \in -1 .. 1, k > n.key,
         AvlRemoved(r, b, R, k, H), q = Rebalanced(n, 1, r)
  PROVE  AvlRemoved(q, HeightOf(a, b), EntriesOver(n, L, R), k, H)
<1>1. PICK M : <<r.t, b + r.dh, M>> \in H /\ Removed(R, k, M, r.rc)
  BY DEF AvlRemoved
<1>2. Placed(n, L, R, X) /\ \A e \in X : e[1] \in Int
  BY DEF AvlOver, AvlTrees
<1>3. \A e \in EntriesOver(n, L, R) : e[1] = k => e \in R
  <2>1. Entry(n)[1] = n.key /\ n.key \in Int /\ \A e \in L : e[1] \in Int /\ e[1] < n.key
    BY <1>2 DEF Placed, Entry
  <2> QED
    BY <2>1 DEF EntriesOver
<1>4. M \in SUBSET R /\ Removed(EntriesOver(n, L, R), k, EntriesOver(n, L, M), r.rc)
  BY <1>1, <1>2, <1>3, RemovedRight
<1>5. PICK x : x = b + r.dh
  OBVIOUS
<1>6. x \in Nat /\ r.dh = x - b /\ r.dh \in -1 .. 0 /\ r.dh \in -1 .. 1 /\ r.ok
          /\ <<r.t, x, M>> \in H
  <2>1. <<r.t, x, M>> \in H /\ r.dh \in -1 .. 0 /\ r.ok
    BY <1>1, <1>5 DEF AvlRemoved
  <2>2. x \in Nat
    BY <2>1, AvlTake
  <2> QED
    BY <1>5, <2>1, <2>2
<1>7. HandedUp(q, r, HeightOf(a, b), EntriesOver(n, L, M), H)
  <2>1. Exact(n, a, b) /\ <<n.left, a, L>> \in H /\ Placed(n, L, M, X)
    BY <1>4 DEF AvlOver, Placed
  <2> QED
    BY <1>6, <2>1, RebalancedRight
<1> QED
  BY <1>4, <1>6, <1>7, RemovalHandedUp

\* ... of a node that the first one on its right replaces, ...
LEMMA AvlRemovesIt ==
  ASSUME NEW H, NEW X, NEW n, NEW s, NEW a \in Nat, NEW b \in Nat, NEW L, NEW R, NEW r, NEW q,
         AvlTrees(H, X), AvlOver(n, a, b, L, R, H, X), b - a \in -1 .. 1,
         \E M : FirstGone(Entry(s), R, M), AvlFirstTaken(r, b, R, H),
         q = Rebalanced(MoveData(n, s), 1, r)
  PROVE  AvlRemoved(q, HeightOf(a, b), EntriesOver(n, L, R), n.key, H)
<1>1. PICK u, M : FirstGone(u, R, M) /\ <<r.t, b + r.dh, M>> \in H
  BY DEF AvlFirstTaken
<1>2. /\ Placed(n, L, R, X) /\ (\A e \in X : e[1] \in Int) /\ IsNode(n) /\ n.flag = b - a
      /\ <<n.left, a, L>> \in H
  BY DEF AvlOver, AvlTrees, Exact
<1>3. FirstGone(Entry(s), R, M)
  <2>1. PICK F : FirstGone(Entry(s), R, F)
    OBVIOUS
  <2>2. \A e \in R : e[1] \in Int
    BY <1>2 DEF Placed
  <2>3. Entry(s) = u /\ F = M
    BY <1>1, <2>1, <2>2, FirstUnique
  <2> QED
    BY <2>1, <2>3
<1>4. PICK d : d = MoveData(n, s)
  OBVIOUS
<1>5. d = NodeWith(s.key, s.val, n.flag, n.left, n.right)
  BY <1>2, <1>4, DataMoved
<1>6. /\ IsNode(d) /\ Entry(d) = Entry(s) /\ d.key = s.key
      /\ d.flag = n.flag /\ d.left = n.left /\ d.right = n.right
  BY <1>5, NodeFields DEF Entry
<1>7. M \in SUBSET R /\ Removed(EntriesOver(n, L, R), n.key, EntriesOver(d, L, M), 1)
  BY <1>2, <1>3, <1>6, RemovedHere
<1>8. Placed(d, L, M, X)
  <2>1. Entry(s)[1] = s.key /\ Entry(s) \in R /\ \A e \in M : s.key < e[1]
    BY <1>3 DEF FirstGone, Entry
  <2>2. n.key < s.key /\ s.key \in Int /\ n.key \in Int /\ Entry(n)[1] = n.key
    BY <1>2, <2>1 DEF Placed, Entry
  <2>3. \A e \in L : e[1] \in Int /\ e[1] < n.key
    BY <1>2 DEF Placed
  <2>4. \A e \in L : e[1] < s.key
    BY <2>2, <2>3
  <2> QED
    BY <1>2, <1>6, <1>7, <2>1, <2>4 DEF Placed
<1>9. PICK x : x = b + r.dh
  OBVIOUS
<1>10. x \in Nat /\ r.dh = x - b /\ r.dh \in -1 .. 0 /\ r.dh \in -1 .. 1 /\ r.ok
           /\ <<r.t, x, M>> \in H
  <2>1. <<r.t, x, M>> \in H /\ r.dh \in -1 .. 0 /\ r.ok
    BY <1>1, <1>9 DEF AvlFirstTaken
  <2>2. x \in Nat
    BY <2>1, AvlTake
  <2> QED
    BY <1>9, <2>1, <2>2
<1>11. HandedUp(q, r, HeightOf(a, b), EntriesOver(d, L, M), H)
  <2>1. Exact(d, a, b) /\ <<d.left, a, L>> \in H /\ q = Rebalanced(d, 1, r)
    BY <1>2, <1>4, <1>6 DEF Exact
  <2> QED
    BY <1>8, <1>10, <2>1, RebalancedRight
<1>12. r.rc = 1
  BY DEF AvlFirstTaken
<1> QED
  BY <1>7, <1>10, <1>11, <1>12, RemovalHandedUp

\* ... and of a node that lacks a child: the other one takes its place.
LEMMA AvlRemovesHere ==
  ASSUME NEW H, NEW X, NEW n, NEW a \in Nat, NEW b \in Nat, NEW L, NEW R, NEW q,
         AvlTrees(H, X), AvlOver(n, a, b, L, R, H, X), b - a \in -1 .. 1,
         n.left = NULL \/ n.right = NULL,
         q = Outcome(IF n.left # NULL THEN n.left ELSE n.right, 1, -1, TRUE)
  PROVE  AvlRemoved(q, HeightOf(a, b), EntriesOver(n, L, R), n.key, H)
<1>1. /\ <<n.left, a, L>> \in H /\ <<n.right, b, R>> \in H /\ Placed(n, L, R, X)
      /\ \A e \in X : e[1] \in Int
  BY DEF AvlOver, AvlTrees
<1>2. /\ n.left = NULL => a = 0 /\ L = {}
      /\ n.right = NULL => b = 0 /\ R = {}
  BY <1>1, AvlTake
<1>3. q.t = (IF n.left # NULL THEN n.left ELSE n.right) /\ q.rc = 1 /\ q.dh = -1 /\ q.ok
  BY DEF Outcome
<1>4. Removed(EntriesOver(n, L, R), n.key, L \cup R, 1)
  <2>1. Entry(n)[1] = n.key /\ n.key \in Int
    BY <1>1 DEF Placed, Entry
  <2>2. (\A e \in L : e[1] # n.key) /\ (\A e \in R : e[1] # n.key)
    BY <1>1, <2>1 DEF Placed
  <2>3. {e \in EntriesOver(n, L, R) : e[1] # n.key} = L \cup R
    BY <2>1, <2>2 DEF EntriesOver
  <2> QED
    BY <2>1, <2>3 DEF Removed, EntriesOver
<1>5. CASE n.left = NULL
  <2>1. HeightOf(a, b) = b + 1 /\ L \cup R = R
    BY <1>2, <1>5 DEF HeightOf, Taller
  <2>2. (b + 1) + -1 = b /\ -1 \in -1 .. 0
    OBVIOUS
  <2>3. <<q.t, HeightOf(a, b) + q.dh, L \cup R>> \in H /\ q.dh \in -1 .. 0
    BY <1>1, <1>3, <1>5, <2>1, <2>2
  <2> QED
    BY <1>3, <1>4, <2>3 DEF AvlRemoved
<1>6. CASE n.left # NULL
  <2>1. HeightOf(a, b) = a + 1 /\ L \cup R = L
    BY <1>2, <1>6 DEF HeightOf, Taller
  <2>2. (a + 1) + -1 = a /\ -1 \in -1 .. 0
    OBVIOUS
  <2>3. <<q.t, HeightOf(a, b) + q.dh, L \cup R>> \in H /\ q.dh \in -1 .. 0
    BY <1>1, <1>3, <1>6, <2>1, <2>2
  <2> QED
    BY <1>3, <1>4, <2>3 DEF AvlRemoved
<1> QED
  BY <1>5, <1>6

\* The empty tree stays empty.
LEMMA AvlRemovesNone ==
  ASSUME NEW H, NEW X, NEW k, AvlTrees(H, X)
  PROVE  AvlRemoved(Result(NULL, 0), 0, {}, k, H)
<1>1. LET r == Result(NULL, 0) IN r.t = NULL /\ r.rc = 0 /\ r.dh = 0 /\ r.ok
  BY DEF Result, Outcome
<1>2. Removed({}, k, {}, 0) /\ <<NULL, 0, {}>> \in H /\ 0 + 0 = 0 /\ 0 \in -1 .. 0
  BY DEF Removed, AvlTrees
<1> QED
  BY <1>1, <1>2 DEF AvlRemoved

\* avl_n_remove as a whole: it makes an AVL tree of an AVL tree, whose height it reports,
\* without the entry of the key, and no assertion on the way fails (avl.c:185-237).
THEOREM AvlRemoveSound ==
  ASSUME NEW H, NEW X, NEW k \in Int, AvlTrees(H, X), Comparable(k, X),
         Leftmosts(H), AvlTakingFirst(H), AvlRemoving(H, k)
  PROVE  \A n, h, E : <<n, h, E>> \in H => AvlRemoved(AvlRemove(n, k), h, E, k, H)
<1> DEFINE Bad == {b \in H : \E n, h, E : b = <<n, h, E>>
        /\ ~AvlRemoved(AvlRemove(n, k), h, E, k, H)}
<1>1. \A n, h, E : <<n, h, E>> \in Bad <=> <<n, h, E>> \in H
          /\ ~AvlRemoved(AvlRemove(n, k), h, E, k, H)
  OBVIOUS
<1>2. Bad \in SUBSET H
  OBVIOUS
<1> HIDE DEF Bad
<1> SUFFICES ASSUME \E n, h, E : <<n, h, E>> \in Bad
             PROVE  FALSE
  BY <1>1
<1>3. PICK n, h, E : /\ <<n, h, E>> \in Bad /\ <<n, h, E>> \in H
                     /\ \A m, g, F : <<m, g, F>> \in Bad => ~(g < h)
  BY <1>2, AvlLowest
<1>4. \A m, g, F : <<m, g, F>> \in H /\ g < h => AvlRemoved(AvlRemove(m, k), g, F, k, H)
  BY <1>1, <1>3
<1>5. AvlRemove(n, k) = AvlRemoveStep(n, k)
  BY <1>3 DEF AvlRemoving
<1>6. CASE n = NULL
  <2>1. AvlRemove(n, k) = Result(NULL, 0)
    BY <1>5, <1>6 DEF AvlRemoveStep
  <2>2. n = NULL => h = 0 /\ E = {}
    BY <1>3, AvlTake
  <2>3. AvlRemoved(AvlRemove(n, k), h, E, k, H)
    BY <1>6, <2>1, <2>2, AvlRemovesNone
  <2> QED
    BY <1>1, <1>3, <2>3
<1>7. CASE n # NULL
  <2>1. PICK a, b, L, R :
           /\ a \in Nat /\ b \in Nat
           /\ AvlOver(n, a, b, L, R, H, X) /\ b - a \in -1 .. 1 /\ a < h /\ b < h
           /\ h = HeightOf(a, b) /\ E = EntriesOver(n, L, R)
    <3>1. \E a \in Nat, b \in Nat : \E L, R :
           /\ AvlOver(n, a, b, L, R, H, X) /\ b - a \in -1 .. 1 /\ a < h /\ b < h
           /\ h = HeightOf(a, b) /\ E = EntriesOver(n, L, R)
      BY <1>3, <1>7, AvlTake
    <3> QED
      BY <3>1
  <2>2. <<n.left, a, L>> \in H /\ <<n.right, b, R>> \in H
    BY <2>1 DEF AvlOver
  <2>3. /\ Compare(k, n.key) < 0 <=> k < n.key
        /\ Compare(k, n.key) > 0 <=> k > n.key
        /\ n.key \in Int
    <3>1. Entry(n) \in X /\ Entry(n)[1] = n.key
      BY <2>1 DEF AvlOver, Placed, Entry
    <3> QED
      BY <3>1 DEF Comparable, AvlTrees
  <2>4. CASE k < n.key
    <3>1. AvlRemove(n, k) = Rebalanced(n, -1, AvlRemove(n.left, k))
      <4>1. Compare(k, n.key) < 0 /\ ~(Compare(k, n.key) > 0)
        BY <2>3, <2>4
      <4> QED
        BY <1>5, <1>7, <4>1, Zenon DEF AvlRemoveStep
    <3>2. AvlRemoved(AvlRemove(n.left, k), a, L, k, H)
      BY <1>4, <2>1, <2>2
    <3>3. AvlRemoved(AvlRemove(n, k), h, E, k, H)
      BY <2>1, <2>4, <3>1, <3>2, AvlRemovesLeft
    <3> QED
      BY <1>1, <1>3, <3>3
  <2>5. CASE k > n.key
    <3>1. AvlRemove(n, k) = Rebalanced(n, 1, AvlRemove(n.right, k))
      <4>1. Compare(k, n.key) > 0 /\ ~(Compare(k, n.key) < 0)
        BY <2>3, <2>5
      <4> QED
        BY <1>5, <1>7, <4>1, Zenon DEF AvlRemoveStep
    <3>2. AvlRemoved(AvlRemove(n.right, k), b, R, k, H)
      BY <1>4, <2>1, <2>2
    <3>3. AvlRemoved(AvlRemove(n, k), h, E, k, H)
      BY <2>1, <2>5, <3>1, <3>2, AvlRemovesRight
    <3> QED
      BY <1>1, <1>3, <3>3
  <2>6. CASE k = n.key
    <3>1. ~(Compare(k, n.key) < 0) /\ ~(Compare(k, n.key) > 0)
      BY <2>3, <2>6
    <3>2. CASE n.left # NULL /\ n.right # NULL
      <4>1. AvlRemove(n, k) = Rebalanced(MoveData(n, Leftmost(n.right)), 1, AvlRemoveMin(n.right))
        BY <1>5, <1>7, <3>1, <3>2, Zenon DEF AvlRemoveStep
      <4>2. \E M : FirstGone(Entry(Leftmost(n.right)), R, M)
        <5>1. OrderedTrees(H, X)
          BY AvlTreesOrdered
        <5> QED
          BY <2>2, <3>2, <5>1, LeftmostIsFirst
      <4>3. AvlFirstTaken(AvlRemoveMin(n.right), b, R, H)
        BY <2>2, <3>2, AvlTakesFirst
      <4>4. AvlRemoved(AvlRemove(n, k), h, E, n.key, H)
        BY <2>1, <4>1, <4>2, <4>3, AvlRemovesIt
      <4> QED
        BY <1>1, <1>3, <2>6, <4>4
    <3>3. CASE n.left = NULL \/ n.right = NULL
      <4>1. AvlRemove(n, k) = Outcome(IF n.left # NULL THEN n.left ELSE n.right, 1, -1, TRUE)
        BY <1>5, <1>7, <3>1, <3>3, Zenon DEF AvlRemoveStep
      <4>2. AvlRemoved(AvlRemove(n, k), h, E, n.key, H)
        BY <2>1, <3>3, <4>1, AvlRemovesHere
      <4> QED
        BY <1>1, <1>3, <2>6, <4>2
    <3> QED
      BY <3>2, <3>3
  <2> QED
    BY <2>3, <2>4, <2>5, <2>6
<1> QED
  BY <1>6, <1>7

-----------------------------------------------------------------------------
(* Plain trees.                                                            *)

\* A node of a plain tree, which uses no flag
IsPlain(n) == IsNode(n) /\ n.flag = 0

\* n, in X, stands in order between two trees of T, of heights a and b, which hold L and R.
PlainOver(n, a, b, L, R, T, X) ==
  /\ IsPlain(n) /\ Placed(n, L, R, X) /\ <<n.left, a, L>> \in T /\ <<n.right, b, R>> \in T

\* n is the root of a tree of height h that holds E.
PlainRoot(n, h, E, T, X) ==
  \E a \in Nat, b \in Nat : \E L, R :
    PlainOver(n, a, b, L, R, T, X) /\ h = HeightOf(a, b) /\ E = EntriesOver(n, L, R)

\* T holds the ordered trees with entries in X, each with its height and what it holds.
PlainTrees(T, X) ==
  /\ ~IsNode(NULL) /\ \A e \in X : e[1] \in Int
  /\ \A n, h, E : <<n, h, E>> \in T <=> (n = NULL /\ h = 0 /\ E = {}) \/ PlainRoot(n, h, E, T, X)

\* The fields of a result
LEMMA ResultHas ==
  ASSUME NEW t, NEW c
  PROVE  LET r == Result(t, c) IN r.t = t /\ r.rc = c /\ r.dh = 0 /\ r.ok
  BY DEF Result, Outcome

\* There is a tree t that holds E.
Holds(t, E, T) == \E h : <<t, h, E>> \in T

\* A node that stands in order between two trees is one.
LEMMA PlainNode ==
  ASSUME NEW T, NEW X, NEW n, NEW L, NEW R, PlainTrees(T, X), IsPlain(n), Placed(n, L, R, X),
         Holds(n.left, L, T), Holds(n.right, R, T)
  PROVE  Holds(n, EntriesOver(n, L, R), T)
<1>1. PICK a, b : <<n.left, a, L>> \in T /\ <<n.right, b, R>> \in T
  BY DEF Holds
<1>2. \A m, h, E : <<m, h, E>> \in T => h \in Nat
  <2> TAKE m, h, E
  <2> HAVE <<m, h, E>> \in T
  <2>1. CASE m = NULL /\ h = 0 /\ E = {}
    BY <2>1
  <2>2. CASE PlainRoot(m, h, E, T, X)
    BY <2>2 DEF PlainRoot, HeightOf, Taller
  <2> QED
    BY <2>1, <2>2 DEF PlainTrees
<1>3. a \in Nat /\ b \in Nat
  BY <1>1, <1>2
<1>4. PlainRoot(n, HeightOf(a, b), EntriesOver(n, L, R), T, X)
  BY <1>1, <1>3 DEF PlainRoot, PlainOver
<1>5. <<n, HeightOf(a, b), EntriesOver(n, L, R)>> \in T
  BY <1>4 DEF PlainTrees
<1> QED
  BY <1>5 DEF Holds

\* What a plain tree is: empty, or a node over two others that are less tall.
LEMMA PlainTake ==
  ASSUME NEW T, NEW X, NEW n, NEW h, NEW E, PlainTrees(T, X), <<n, h, E>> \in T
  PROVE  /\ h \in Nat /\ E \in SUBSET X
         /\ n = NULL => E = {}
         /\ n # NULL => IsPlain(n) /\ OverLesser(n, h, E, T, X)
<1>1. CASE n = NULL
  <2>1. ~PlainRoot(n, h, E, T, X)
    BY <1>1 DEF PlainTrees, PlainRoot, PlainOver, IsPlain
  <2>2. n = NULL /\ h = 0 /\ E = {}
    BY <2>1 DEF PlainTrees
  <2> QED
    BY <2>2
<1>2. CASE n # NULL
  <2>1. PlainRoot(n, h, E, T, X)
    BY <1>2 DEF PlainTrees
  <2>2. PICK a \in Nat, b \in Nat : \E L, R :
          PlainOver(n, a, b, L, R, T, X) /\ h = HeightOf(a, b) /\ E = EntriesOver(n, L, R)
    BY <2>1 DEF PlainRoot
  <2>3. h \in Nat /\ a < h /\ b < h
    BY <2>2 DEF HeightOf, Taller
  <2>4. PICK L, R : PlainOver(n, a, b, L, R, T, X) /\ E = EntriesOver(n, L, R)
    BY <2>2
  <2>5. E \in SUBSET X /\ IsPlain(n)
    BY <2>4 DEF PlainOver, Placed, EntriesOver
  <2>6. /\ <<n.left, a, L>> \in T /\ <<n.right, b, R>> \in T
        /\ Placed(n, L, R, X) /\ E = EntriesOver(n, L, R)
    BY <2>4 DEF PlainOver
  <2>7. OverLesser(n, h, E, T, X)
    BY <2>3, <2>6 DEF OverLesser
  <2> QED
    BY <1>2, <2>3, <2>5, <2>7
<1> QED
  BY <1>1, <1>2

\* Plain trees are ordered, with their heights for ranks.
LEMMA PlainTreesOrdered ==
  ASSUME NEW T, NEW X, PlainTrees(T, X)
  PROVE  OrderedTrees(T, X)
<1>1. \A e \in X : e[1] \in Int
  BY DEF PlainTrees
<1>2. \A n, w, E : <<n, w, E>> \in T => w \in Nat /\ E \in SUBSET X /\ (n = NULL => E = {})
  BY PlainTake
<1>3. \A n, w, E : <<n, w, E>> \in T /\ n # NULL => OverLesser(n, w, E, T, X)
  BY PlainTake
<1> QED
  BY <1>1, <1>2, <1>3 DEF OrderedTrees

\* PlainInsert is the recursion of the code, in an insertion of k with the value v into each of
\* the trees of T.
PlainInserting(T, k, v, alloc) ==
  \A n, h, E : <<n, h, E>> \in T => PlainInsert(n, k, v, alloc) = PlainInsertStep(n, k, v, alloc)

\* The outcome r of an insertion into a tree that holds E
PlainInserted(r, E, k, v, alloc, T) == \E F : Holds(r.t, F, T) /\ Inserted(E, k, v, alloc, F, r.rc)

\* The outcome of a removal
PlainRemoved(r, E, k, T) == \E F : Holds(r.t, F, T) /\ Removed(E, k, F, r.rc)

\* What becomes of a node whose left subtree is replaced, ...
LEMMA PlainLeft ==
  ASSUME NEW T, NEW X, NEW n, NEW M, NEW R, NEW r, NEW q, PlainTrees(T, X), IsPlain(n),
         Placed(n, M, R, X), Holds(r.t, M, T), Holds(n.right, R, T),
         q = Result([n EXCEPT !.left = r.t], r.rc)
  PROVE  Holds(q.t, EntriesOver(n, M, R), T) /\ q.rc = r.rc
<1>1. PICK m : m = [n EXCEPT !.left = r.t]
  OBVIOUS
<1>2. IsPlain(m) /\ Entry(m) = Entry(n) /\ m.left = r.t /\ m.right = n.right
  BY <1>1, LeftSet DEF IsPlain
<1>3. Placed(m, M, R, X) /\ EntriesOver(m, M, R) = EntriesOver(n, M, R)
  BY <1>2, StandsAs
<1>4. q.t = m /\ q.rc = r.rc
  BY <1>1, ResultHas
<1>5. Holds(m, EntriesOver(m, M, R), T)
  BY <1>2, <1>3, PlainNode
<1> QED
  BY <1>3, <1>4, <1>5

\* ... and of one whose right subtree is.
LEMMA PlainRight ==
  ASSUME NEW T, NEW X, NEW n, NEW L, NEW M, NEW r, NEW q, PlainTrees(T, X), IsPlain(n),
         Placed(n, L, M, X), Holds(n.left, L, T), Holds(r.t, M, T),
         q = Result([n EXCEPT !.right = r.t], r.rc)
  PROVE  Holds(q.t, EntriesOver(n, L, M), T) /\ q.rc = r.rc
<1>1. PICK m : m = [n EXCEPT !.right = r.t]
  OBVIOUS
<1>2. IsPlain(m) /\ Entry(m) = Entry(n) /\ m.left = n.left /\ m.right = r.t
  BY <1>1, RightSet DEF IsPlain
<1>3. Placed(m, L, M, X) /\ EntriesOver(m, L, M) = EntriesOver(n, L, M)
  BY <1>2, StandsAs
<1>4. q.t = m /\ q.rc = r.rc
  BY <1>1, ResultHas
<1>5. Holds(m, EntriesOver(m, L, M), T)
  BY <1>2, <1>3, PlainNode
<1> QED
  BY <1>3, <1>4, <1>5

\* An insertion at the node
LEMMA PlainInsertsHere ==
  ASSUME NEW T, NEW X, NEW n, NEW L, NEW R, NEW v, NEW alloc, NEW q, PlainTrees(T, X), IsPlain(n),
         Placed(n, L, R, X), Holds(n.left, L, T), Holds(n.right, R, T), <<n.key, v>> \in X,
         q = Result(SetValue(n, v), 0)
  PROVE  PlainInserted(q, EntriesOver(n, L, R), n.key, v, alloc, T)
<1>1. q.t = SetValue(n, v) /\ q.rc = 0
  BY ResultHas
<1>2. PICK m : m = SetValue(n, v)
  OBVIOUS
<1>3. m = NodeWith(n.key, IF v = NULL THEN n.val ELSE v, n.flag, n.left, n.right)
  BY <1>2, SMT DEF IsPlain, IsNode, NodeWith, SetValue
<1>4. /\ IsPlain(m) /\ Entry(m) = IF v = NULL THEN Entry(n) ELSE <<n.key, v>>
      /\ m.key = n.key /\ m.left = n.left /\ m.right = n.right
  BY <1>3, NodeFields DEF Entry, IsPlain
<1>5. \A e \in X : e[1] \in Int
  BY DEF PlainTrees
<1>6. Inserted(EntriesOver(n, L, R), n.key, v, alloc, EntriesOver(m, L, R), 0)
  BY <1>4, <1>5, InsertedHere
<1>7. Placed(m, L, R, X)
  BY <1>4 DEF Placed
<1>8. Holds(m, EntriesOver(m, L, R), T)
  BY <1>4, <1>7, PlainNode
<1> QED
  BY <1>1, <1>2, <1>6, <1>8 DEF PlainInserted

\* An insertion into the empty tree
LEMMA PlainInsertsFirst ==
  ASSUME NEW T, NEW X, NEW k, NEW v, NEW alloc \in BOOLEAN, PlainTrees(T, X), <<k, v>> \in X
  PROVE  PlainInserted(NewNode(k, v, alloc), {}, k, v, alloc, T)
<1>0. Holds(NULL, {}, T)
  BY DEF Holds, PlainTrees
<1>1. CASE alloc
  <2>1. LET r == NewNode(k, v, alloc) IN r.t = Node(k, v) /\ r.rc = 1
    BY <1>1 DEF NewNode, Outcome
  <2>2. Inserted({}, k, v, alloc, {<<k, v>>}, 1)
    BY <1>1 DEF Inserted
  <2>3. PICK m : m = Node(k, v)
    OBVIOUS
  <2>4. m = NodeWith(k, v, 0, NULL, NULL)
    BY <2>3 DEF Node, NodeWith
  <2>5. IsPlain(m) /\ Entry(m) = <<k, v>> /\ m.left = NULL /\ m.right = NULL
    BY <2>4, NodeFields DEF IsPlain
  <2>6. Placed(m, {}, {}, X) /\ EntriesOver(m, {}, {}) = {<<k, v>>}
    BY <2>5 DEF Placed, EntriesOver
  <2>7. Holds(m, EntriesOver(m, {}, {}), T)
    BY <1>0, <2>5, <2>6, PlainNode
  <2> QED
    BY <2>1, <2>2, <2>3, <2>6, <2>7 DEF PlainInserted
<1>2. CASE ~alloc
  <2>1. LET r == NewNode(k, v, alloc) IN r.t = NULL /\ r.rc = -1
    BY <1>2 DEF NewNode, Result, Outcome
  <2>2. Inserted({}, k, v, alloc, {}, -1)
    BY <1>2 DEF Inserted
  <2> QED
    BY <1>0, <2>1, <2>2 DEF PlainInserted
<1> QED
  BY <1>1, <1>2

\* bst_n_insert as a whole: it leaves an ordered tree with the new entry, the new value
\* or, without memory, nothing new (bst.c:115-146).
THEOREM PlainInsertSound ==
  ASSUME NEW T, NEW X, NEW k \in Int, NEW v, NEW alloc \in BOOLEAN,
         PlainTrees(T, X), Comparable(k, X), <<k, v>> \in X, PlainInserting(T, k, v, alloc)
  PROVE  \A n, h, E : <<n, h, E>> \in T
      => PlainInserted(PlainInsert(n, k, v, alloc), E, k, v, alloc, T)
<1> DEFINE Bad ==
      {b \in T : \E n, h, E :
         b = <<n, h, E>> /\ ~PlainInserted(PlainInsert(n, k, v, alloc), E, k, v, alloc, T)}
<1>1. \A n, h, E : <<n, h, E>> \in Bad
                     <=> <<n, h, E>> \in T
                         /\ ~PlainInserted(PlainInsert(n, k, v, alloc), E, k, v, alloc, T)
  OBVIOUS
<1>2. Bad \in SUBSET T
  OBVIOUS
<1> HIDE DEF Bad
<1> SUFFICES ASSUME \E n, h, E : <<n, h, E>> \in Bad
             PROVE  FALSE
  BY <1>1
<1>0. OrderedTrees(T, X) /\ \A e \in X : e[1] \in Int
  BY PlainTreesOrdered DEF PlainTrees
<1>3. PICK n, h, E : /\ <<n, h, E>> \in Bad /\ <<n, h, E>> \in T
                     /\ \A m, g, F : <<m, g, F>> \in Bad => ~(g < h)
  BY <1>0, <1>2, LeastRank
<1>4. \A m, g, F : <<m, g, F>> \in T /\ g < h
          => PlainInserted(PlainInsert(m, k, v, alloc), F, k, v, alloc, T)
  BY <1>1, <1>3
<1>5. PlainInsert(n, k, v, alloc) = PlainInsertStep(n, k, v, alloc)
  BY <1>3 DEF PlainInserting
<1>6. CASE n = NULL
  <2>1. PlainInsert(n, k, v, alloc) = NewNode(k, v, alloc)
    BY <1>5, <1>6 DEF PlainInsertStep
  <2>2. n = NULL => E = {}
    BY <1>3, PlainTake
  <2>3. PlainInserted(PlainInsert(n, k, v, alloc), E, k, v, alloc, T)
    BY <1>6, <2>1, <2>2, PlainInsertsFirst
  <2> QED
    BY <1>1, <1>3, <2>3
<1>7. CASE n # NULL
  <2>1. IsPlain(n) /\ OverLesser(n, h, E, T, X)
    BY <1>3, <1>7, PlainTake
  <2>2. PICK a, b, L, R :
           /\ <<n.left, a, L>> \in T /\ <<n.right, b, R>> \in T /\ a < h /\ b < h
           /\ Placed(n, L, R, X) /\ E = EntriesOver(n, L, R)
    BY <2>1 DEF OverLesser
  <2>3. /\ PlainInserted(PlainInsert(n.left, k, v, alloc), L, k, v, alloc, T)
        /\ PlainInserted(PlainInsert(n.right, k, v, alloc), R, k, v, alloc, T)
        /\ Holds(n.left, L, T) /\ Holds(n.right, R, T)
    BY <1>4, <2>2 DEF Holds
  <2>4. /\ Compare(k, n.key) < 0 <=> k < n.key
        /\ Compare(k, n.key) > 0 <=> k > n.key
        /\ n.key \in Int
    <3>1. Entry(n) \in X /\ Entry(n)[1] = n.key
      BY <2>2 DEF Placed, Entry
    <3> QED
      BY <1>0, <3>1 DEF Comparable
  <2>5. CASE k < n.key
    <3>1. PlainInsert(n, k, v, alloc)
            = Result([n EXCEPT !.left = PlainInsert(n.left, k, v, alloc).t],
                     PlainInsert(n.left, k, v, alloc).rc)
      <4>1. Compare(k, n.key) < 0 /\ ~(Compare(k, n.key) > 0)
        BY <2>4, <2>5
      <4> QED
        BY <1>5, <1>7, <4>1, Zenon DEF PlainInsertStep
    <3>2. PICK M : Holds(PlainInsert(n.left, k, v, alloc).t, M, T)
              /\ Inserted(L, k, v, alloc, M, PlainInsert(n.left, k, v, alloc).rc)
      BY <2>3 DEF PlainInserted
    <3>3. /\ M \in SUBSET X /\ \A e \in M : e[1] < n.key
          /\ Inserted(EntriesOver(n, L, R), k, v, alloc, EntriesOver(n, M, R),
                 PlainInsert(n.left, k, v, alloc).rc)
      BY <1>0, <2>2, <2>5, <3>2, InsertedLeft
    <3>4. Placed(n, M, R, X)
      BY <2>2, <3>3 DEF Placed
    <3>5. Holds(PlainInsert(n, k, v, alloc).t, EntriesOver(n, M, R), T)
              /\ PlainInsert(n, k, v, alloc).rc = PlainInsert(n.left, k, v, alloc).rc
      BY <2>1, <2>3, <3>1, <3>2, <3>4, PlainLeft
    <3>6. PlainInserted(PlainInsert(n, k, v, alloc), E, k, v, alloc, T)
      BY <2>2, <3>3, <3>5 DEF PlainInserted
    <3> QED
      BY <1>1, <1>3, <3>6
  <2>6. CASE k > n.key
    <3>1. PlainInsert(n, k, v, alloc)
            = Result([n EXCEPT !.right = PlainInsert(n.right, k, v, alloc).t],
                     PlainInsert(n.right, k, v, alloc).rc)
      <4>1. Compare(k, n.key) > 0 /\ ~(Compare(k, n.key) < 0)
        BY <2>4, <2>6
      <4> QED
        BY <1>5, <1>7, <4>1, Zenon DEF PlainInsertStep
    <3>2. PICK M : Holds(PlainInsert(n.right, k, v, alloc).t, M, T)
              /\ Inserted(R, k, v, alloc, M, PlainInsert(n.right, k, v, alloc).rc)
      BY <2>3 DEF PlainInserted
    <3>3. /\ M \in SUBSET X /\ \A e \in M : n.key < e[1]
          /\ Inserted(EntriesOver(n, L, R), k, v, alloc, EntriesOver(n, L, M),
                 PlainInsert(n.right, k, v, alloc).rc)
      BY <1>0, <2>2, <2>6, <3>2, InsertedRight
    <3>4. Placed(n, L, M, X)
      BY <2>2, <3>3 DEF Placed
    <3>5. Holds(PlainInsert(n, k, v, alloc).t, EntriesOver(n, L, M), T)
              /\ PlainInsert(n, k, v, alloc).rc = PlainInsert(n.right, k, v, alloc).rc
      BY <2>1, <2>3, <3>1, <3>2, <3>4, PlainRight
    <3>6. PlainInserted(PlainInsert(n, k, v, alloc), E, k, v, alloc, T)
      BY <2>2, <3>3, <3>5 DEF PlainInserted
    <3> QED
      BY <1>1, <1>3, <3>6
  <2>7. CASE k = n.key
    <3>1. PlainInsert(n, k, v, alloc) = Result(SetValue(n, v), 0)
      <4>1. ~(Compare(k, n.key) < 0) /\ ~(Compare(k, n.key) > 0)
        BY <2>4, <2>7
      <4> QED
        BY <1>5, <1>7, <4>1, Zenon DEF PlainInsertStep
    <3>2. PlainInserted(PlainInsert(n, k, v, alloc), EntriesOver(n, L, R), n.key, v, alloc, T)
      BY <2>1, <2>2, <2>3, <2>7, <3>1, PlainInsertsHere
    <3> QED
      BY <1>1, <1>3, <2>2, <2>7, <3>2
  <2> QED
    BY <2>4, <2>5, <2>6, <2>7
<1> QED
  BY <1>6, <1>7

\* The outcome r of taking the first entry out of a tree that holds E
PlainFirstTaken(r, E, T) == r.rc = 1 /\ \E s, M : FirstGone(s, E, M) /\ Holds(r.t, M, T)

\* PlainRemoveMin is the recursion of the code on each tree of T.
PlainTakingFirst(T) ==
  \A n, h, E : <<n, h, E>> \in T /\ n # NULL => PlainRemoveMin(n) = PlainRemoveMinStep(n)

\* bst_n_remove_min as a whole (bst.c:149-169)
LEMMA PlainTakesFirst ==
  ASSUME NEW T, NEW X, PlainTrees(T, X), PlainTakingFirst(T)
  PROVE  \A n, h, E : <<n, h, E>> \in T /\ n # NULL => PlainFirstTaken(PlainRemoveMin(n), E, T)
<1> DEFINE Bad == {b \in T : \E n, h, E : /\ b = <<n, h, E>> /\ n # NULL
                                          /\ ~PlainFirstTaken(PlainRemoveMin(n), E, T)}
<1>1. \A n, h, E : <<n, h, E>> \in Bad
                     <=> <<n, h, E>> \in T /\ n # NULL /\ ~PlainFirstTaken(PlainRemoveMin(n), E, T)
  OBVIOUS
<1>2. Bad \in SUBSET T
  OBVIOUS
<1> HIDE DEF Bad
<1> SUFFICES ASSUME \E n, h, E : <<n, h, E>> \in Bad
             PROVE  FALSE
  BY <1>1
<1>0. OrderedTrees(T, X) /\ \A e \in X : e[1] \in Int
  BY PlainTreesOrdered DEF PlainTrees
<1>3. PICK n, h, E : /\ <<n, h, E>> \in Bad /\ <<n, h, E>> \in T
                     /\ \A m, g, F : <<m, g, F>> \in Bad => ~(g < h)
  BY <1>0, <1>2, LeastRank
<1>4. n # NULL
  BY <1>1, <1>3
<1>5. IsPlain(n) /\ OverLesser(n, h, E, T, X)
  BY <1>3, <1>4, PlainTake
<1>6. PICK a, b, L, R :
        /\ <<n.left, a, L>> \in T /\ <<n.right, b, R>> \in T /\ a < h /\ b < h
        /\ Placed(n, L, R, X) /\ E = EntriesOver(n, L, R)
  BY <1>5 DEF OverLesser
<1>7. Holds(n.left, L, T) /\ Holds(n.right, R, T)
  BY <1>6 DEF Holds
<1>8. CASE n.left = NULL
  <2>1. PlainRemoveMin(n) = Result(n.right, 1)
    BY <1>3, <1>4, <1>8 DEF PlainTakingFirst, PlainRemoveMinStep
  <2>2. PlainRemoveMin(n).t = n.right /\ PlainRemoveMin(n).rc = 1
    BY <2>1, ResultHas
  <2>3. L = {}
    BY <1>6, <1>8, PlainTake
  <2>4. FirstGone(Entry(n), E, R)
    BY <1>0, <1>6, <2>3, FirstHere
  <2>5. PlainFirstTaken(PlainRemoveMin(n), E, T)
    BY <1>7, <2>2, <2>4 DEF PlainFirstTaken
  <2> QED
    BY <1>1, <1>3, <2>5
<1>9. CASE n.left # NULL
  <2>1. PlainRemoveMin(n) = Result([n EXCEPT !.left = PlainRemoveMin(n.left).t],
            PlainRemoveMin(n.left).rc)
    BY <1>3, <1>4, <1>9, Zenon DEF PlainTakingFirst, PlainRemoveMinStep
  <2>2. PlainFirstTaken(PlainRemoveMin(n.left), L, T)
    BY <1>1, <1>3, <1>6, <1>9
  <2>3. PICK s, M : FirstGone(s, L, M) /\ Holds(PlainRemoveMin(n.left).t, M, T)
    BY <2>2 DEF PlainFirstTaken
  <2>4. M \in SUBSET L /\ FirstGone(s, E, EntriesOver(n, M, R))
    BY <1>0, <1>6, <2>3, FirstLeft
  <2>5. Placed(n, M, R, X)
    BY <1>6, <2>4 DEF Placed
  <2>6. Holds(PlainRemoveMin(n).t, EntriesOver(n, M, R), T)
            /\ PlainRemoveMin(n).rc = PlainRemoveMin(n.left).rc
    BY <1>5, <1>7, <2>1, <2>3, <2>5, PlainLeft
  <2>7. PlainFirstTaken(PlainRemoveMin(n), E, T)
    BY <2>2, <2>4, <2>6 DEF PlainFirstTaken
  <2> QED
    BY <1>1, <1>3, <2>7
<1> QED
  BY <1>8, <1>9

\* The removal of a node that the first one on its right replaces, ...
LEMMA PlainRemovesIt ==
  ASSUME NEW T, NEW X, NEW n, NEW s, NEW L, NEW R, NEW r, NEW q, PlainTrees(T, X), IsPlain(n),
         Placed(n, L, R, X), Holds(n.left, L, T),
         \E M : FirstGone(Entry(s), R, M), PlainFirstTaken(r, R, T),
         q = Result([MoveData(n, s) EXCEPT !.right = r.t], r.rc)
  PROVE  PlainRemoved(q, EntriesOver(n, L, R), n.key, T)
<1>1. PICK u, M : FirstGone(u, R, M) /\ Holds(r.t, M, T)
  BY DEF PlainFirstTaken
<1>2. \A e \in X : e[1] \in Int
  BY DEF PlainTrees
<1>3. FirstGone(Entry(s), R, M)
  <2>1. PICK F : FirstGone(Entry(s), R, F)
    OBVIOUS
  <2>2. \A e \in R : e[1] \in Int
    BY <1>2 DEF Placed
  <2>3. Entry(s) = u /\ F = M
    BY <1>1, <2>1, <2>2, FirstUnique
  <2> QED
    BY <2>1, <2>3
<1>4. PICK d : d = MoveData(n, s)
  OBVIOUS
<1>5. d = NodeWith(s.key, s.val, n.flag, n.left, n.right)
  BY <1>4, DataMoved DEF IsPlain
<1>6. IsPlain(d) /\ Entry(d) = Entry(s) /\ d.key = s.key /\ d.left = n.left
  BY <1>5, NodeFields DEF Entry, IsPlain
<1>7. M \in SUBSET R /\ Removed(EntriesOver(n, L, R), n.key, EntriesOver(d, L, M), 1)
  BY <1>2, <1>3, <1>6, RemovedHere
<1>8. Placed(d, L, M, X)
  <2>1. Entry(s)[1] = s.key /\ Entry(s) \in R /\ \A e \in M : s.key < e[1]
    BY <1>3 DEF FirstGone, Entry
  <2>2. n.key < s.key /\ s.key \in Int /\ n.key \in Int /\ Entry(n)[1] = n.key
    BY <1>2, <2>1 DEF Placed, Entry
  <2>3. \A e \in L : e[1] \in Int /\ e[1] < n.key
    BY <1>2 DEF Placed
  <2>4. \A e \in L : e[1] < s.key
    BY <2>2, <2>3
  <2> QED
    BY <1>2, <1>6, <1>7, <2>1, <2>4 DEF Placed
<1>9. Holds(q.t, EntriesOver(d, L, M), T) /\ q.rc = r.rc
  <2>1. q = Result([d EXCEPT !.right = r.t], r.rc)
    BY <1>4
  <2> QED
    BY <1>1, <1>6, <1>8, <2>1, PlainRight
<1>10. r.rc = 1
  BY DEF PlainFirstTaken
<1> QED
  BY <1>7, <1>9, <1>10 DEF PlainRemoved

\* ... and of a node that lacks a child: the other one takes its place.
LEMMA PlainRemovesHere ==
  ASSUME NEW T, NEW X, NEW n, NEW L, NEW R, NEW q, PlainTrees(T, X),
         Placed(n, L, R, X), Holds(n.left, L, T), Holds(n.right, R, T),
         n.left = NULL \/ n.right = NULL,
         q = Result(IF n.left # NULL THEN n.left ELSE n.right, 1)
  PROVE  PlainRemoved(q, EntriesOver(n, L, R), n.key, T)
<1>1. \A e \in X : e[1] \in Int
  BY DEF PlainTrees
<1>2. /\ n.left = NULL => L = {}
      /\ n.right = NULL => R = {}
  BY PlainTake DEF Holds
<1>3. q.t = (IF n.left # NULL THEN n.left ELSE n.right) /\ q.rc = 1
  BY ResultHas
<1>4. Removed(EntriesOver(n, L, R), n.key, L \cup R, 1)
  <2>1. Entry(n)[1] = n.key /\ n.key \in Int
    BY <1>1 DEF Placed, Entry
  <2>2. (\A e \in L : e[1] # n.key) /\ (\A e \in R : e[1] # n.key)
    BY <1>1, <2>1 DEF Placed
  <2>3. {e \in EntriesOver(n, L, R) : e[1] # n.key} = L \cup R
    BY <2>1, <2>2 DEF EntriesOver
  <2> QED
    BY <2>1, <2>3 DEF Removed, EntriesOver
<1>5. Holds(q.t, L \cup R, T)
  <2>1. CASE n.left = NULL
    <3>1. L \cup R = R /\ q.t = n.right
      BY <1>2, <1>3, <2>1
    <3> QED
      BY <3>1
  <2>2. CASE n.left # NULL
    <3>1. L \cup R = L /\ q.t = n.left
      BY <1>2, <1>3, <2>2
    <3> QED
      BY <3>1
  <2> QED
    BY <2>1, <2>2
<1> QED
  BY <1>3, <1>4, <1>5 DEF PlainRemoved

\* PlainRemove is the recursion of the code, in a removal of k from each of the trees of T.
PlainRemoving(T, k) ==
  \A n, h, E : <<n, h, E>> \in T
    => PlainRemove(n, k) = PlainRemoveStep(n, k)

\* bst_n_remove as a whole: it leaves an ordered tree without the entry of the key
\* (bst.c:193-231).
THEOREM PlainRemoveSound ==
  ASSUME NEW T, NEW X, NEW k \in Int, PlainTrees(T, X), Comparable(k, X),
         Leftmosts(T), PlainTakingFirst(T), PlainRemoving(T, k)
  PROVE  \A n, h, E : <<n, h, E>> \in T => PlainRemoved(PlainRemove(n, k), E, k, T)
<1> DEFINE Bad == {b \in T : \E n, h, E : b = <<n, h, E>>
        /\ ~PlainRemoved(PlainRemove(n, k), E, k, T)}
<1>1. \A n, h, E : <<n, h, E>> \in Bad <=> <<n, h, E>> \in T
          /\ ~PlainRemoved(PlainRemove(n, k), E, k, T)
  OBVIOUS
<1>2. Bad \in SUBSET T
  OBVIOUS
<1> HIDE DEF Bad
<1> SUFFICES ASSUME \E n, h, E : <<n, h, E>> \in Bad
             PROVE  FALSE
  BY <1>1
<1>0. OrderedTrees(T, X) /\ \A e \in X : e[1] \in Int
  BY PlainTreesOrdered DEF PlainTrees
<1>3. PICK n, h, E : /\ <<n, h, E>> \in Bad /\ <<n, h, E>> \in T
                     /\ \A m, g, F : <<m, g, F>> \in Bad => ~(g < h)
  BY <1>0, <1>2, LeastRank
<1>4. \A m, g, F : <<m, g, F>> \in T /\ g < h => PlainRemoved(PlainRemove(m, k), F, k, T)
  BY <1>1, <1>3
<1>5. PlainRemove(n, k) = PlainRemoveStep(n, k)
  BY <1>3 DEF PlainRemoving
<1>6. CASE n = NULL
  <2>1. PlainRemove(n, k) = Result(NULL, 0)
    BY <1>5, <1>6 DEF PlainRemoveStep
  <2>2. n = NULL => E = {}
    BY <1>3, PlainTake
  <2>3. PlainRemove(n, k).t = NULL /\ PlainRemove(n, k).rc = 0
    BY <2>1, ResultHas
  <2>4. Removed({}, k, {}, 0) /\ Holds(NULL, {}, T)
    BY DEF Removed, Holds, PlainTrees
  <2>5. PlainRemoved(PlainRemove(n, k), E, k, T)
    BY <1>6, <2>2, <2>3, <2>4 DEF PlainRemoved
  <2> QED
    BY <1>1, <1>3, <2>5
<1>7. CASE n # NULL
  <2>1. IsPlain(n) /\ OverLesser(n, h, E, T, X)
    BY <1>3, <1>7, PlainTake
  <2>2. PICK a, b, L, R :
           /\ <<n.left, a, L>> \in T /\ <<n.right, b, R>> \in T /\ a < h /\ b < h
           /\ Placed(n, L, R, X) /\ E = EntriesOver(n, L, R)
    BY <2>1 DEF OverLesser
  <2>3. /\ PlainRemoved(PlainRemove(n.left, k), L, k, T)
               /\ PlainRemoved(PlainRemove(n.right, k), R, k, T)
        /\ Holds(n.left, L, T) /\ Holds(n.right, R, T)
    BY <1>4, <2>2 DEF Holds
  <2>4. /\ Compare(k, n.key) < 0 <=> k < n.key
        /\ Compare(k, n.key) > 0 <=> k > n.key
        /\ n.key \in Int /\ Entry(n)[1] = n.key
    <3>1. Entry(n) \in X /\ Entry(n)[1] = n.key
      BY <2>2 DEF Placed, Entry
    <3> QED
      BY <1>0, <3>1 DEF Comparable
  <2>5. /\ \A e \in L : e[1] \in Int /\ e[1] < n.key
        /\ \A e \in R : e[1] \in Int /\ n.key < e[1]
    BY <1>0, <2>2 DEF Placed
  <2>6. CASE k < n.key
    <3>1. PlainRemove(n, k) = Result([n EXCEPT !.left = PlainRemove(n.left, k).t],
              PlainRemove(n.left, k).rc)
      <4>1. Compare(k, n.key) < 0 /\ ~(Compare(k, n.key) > 0)
        BY <2>4, <2>6
      <4> QED
        BY <1>5, <1>7, <4>1, Zenon DEF PlainRemoveStep
    <3>2. PICK M : Holds(PlainRemove(n.left, k).t, M, T)
              /\ Removed(L, k, M, PlainRemove(n.left, k).rc)
      BY <2>3 DEF PlainRemoved
    <3>3. \A e \in EntriesOver(n, L, R) : e[1] = k => e \in L
      BY <2>4, <2>5, <2>6 DEF EntriesOver
    <3>4. M \in SUBSET L /\ Removed(EntriesOver(n, L, R), k, EntriesOver(n, M, R),
              PlainRemove(n.left, k).rc)
      BY <1>0, <2>2, <3>2, <3>3, RemovedLeft
    <3>5. Placed(n, M, R, X)
      BY <2>2, <3>4 DEF Placed
    <3>6. Holds(PlainRemove(n, k).t, EntriesOver(n, M, R), T)
              /\ PlainRemove(n, k).rc = PlainRemove(n.left, k).rc
      BY <2>1, <2>3, <3>1, <3>2, <3>5, PlainLeft
    <3>7. PlainRemoved(PlainRemove(n, k), E, k, T)
      BY <2>2, <3>4, <3>6 DEF PlainRemoved
    <3> QED
      BY <1>1, <1>3, <3>7
  <2>7. CASE k > n.key
    <3>1. PlainRemove(n, k) = Result([n EXCEPT !.right = PlainRemove(n.right, k).t],
              PlainRemove(n.right, k).rc)
      <4>1. Compare(k, n.key) > 0 /\ ~(Compare(k, n.key) < 0)
        BY <2>4, <2>7
      <4> QED
        BY <1>5, <1>7, <4>1, Zenon DEF PlainRemoveStep
    <3>2. PICK M : Holds(PlainRemove(n.right, k).t, M, T)
              /\ Removed(R, k, M, PlainRemove(n.right, k).rc)
      BY <2>3 DEF PlainRemoved
    <3>3. \A e \in EntriesOver(n, L, R) : e[1] = k => e \in R
      BY <2>4, <2>5, <2>7 DEF EntriesOver
    <3>4. M \in SUBSET R /\ Removed(EntriesOver(n, L, R), k, EntriesOver(n, L, M),
              PlainRemove(n.right, k).rc)
      BY <1>0, <2>2, <3>2, <3>3, RemovedRight
    <3>5. Placed(n, L, M, X)
      BY <2>2, <3>4 DEF Placed
    <3>6. Holds(PlainRemove(n, k).t, EntriesOver(n, L, M), T)
              /\ PlainRemove(n, k).rc = PlainRemove(n.right, k).rc
      BY <2>1, <2>3, <3>1, <3>2, <3>5, PlainRight
    <3>7. PlainRemoved(PlainRemove(n, k), E, k, T)
      BY <2>2, <3>4, <3>6 DEF PlainRemoved
    <3> QED
      BY <1>1, <1>3, <3>7
  <2>8. CASE k = n.key
    <3>1. ~(Compare(k, n.key) < 0) /\ ~(Compare(k, n.key) > 0)
      BY <2>4, <2>8
    <3>2. CASE n.left # NULL /\ n.right # NULL
      <4>1. PlainRemove(n, k)
              = Result([MoveData(n, Leftmost(n.right)) EXCEPT !.right = PlainRemoveMin(n.right).t],
                       PlainRemoveMin(n.right).rc)
        BY <1>5, <1>7, <3>1, <3>2, Zenon DEF PlainRemoveStep
      <4>2. \E M : FirstGone(Entry(Leftmost(n.right)), R, M)
        BY <1>0, <2>2, <3>2, LeftmostIsFirst
      <4>3. PlainFirstTaken(PlainRemoveMin(n.right), R, T)
        BY <2>2, <3>2, PlainTakesFirst
      <4>4. PlainRemoved(PlainRemove(n, k), EntriesOver(n, L, R), n.key, T)
        BY <2>1, <2>2, <2>3, <4>1, <4>2, <4>3, PlainRemovesIt
      <4> QED
        BY <1>1, <1>3, <2>2, <2>8, <4>4
    <3>3. CASE n.left = NULL \/ n.right = NULL
      <4>1. PlainRemove(n, k) = Result(IF n.left # NULL THEN n.left ELSE n.right, 1)
        BY <1>5, <1>7, <3>1, <3>3, Zenon DEF PlainRemoveStep
      <4>2. PlainRemoved(PlainRemove(n, k), EntriesOver(n, L, R), n.key, T)
        BY <2>2, <2>3, <3>3, <4>1, PlainRemovesHere
      <4> QED
        BY <1>1, <1>3, <2>2, <2>8, <4>2
    <3> QED
      BY <3>2, <3>3
  <2> QED
    BY <2>4, <2>6, <2>7, <2>8
<1> QED
  BY <1>6, <1>7

-----------------------------------------------------------------------------
(* Left-leaning red-black trees.                                           *)

\* A red or a black node in order
Stands(n, L, R, X) == IsNode(n) /\ n.flag \in {RED, BLACK} /\ Placed(n, L, R, X)

\* n stands between trees of H that hold L and R, all
\* paths through which meet b black nodes.
RbOver(n, b, L, R, H, X) ==
  Stands(n, L, R, X) /\ b \in Nat /\ <<n.left, b, L>> \in H /\ <<n.right, b, R>> \in H

\* No link to the right is red, and no two red links follow each other.
Leans(n) == ~IsRed(n.right) /\ (IsRed(n) => ~IsRed(n.left))

\* n is the root of a tree of black height h that holds E.
RbRoot(n, h, E, H, X) ==
  \E b, L, R : /\ RbOver(n, b, L, R, H, X) /\ Leans(n)
               /\ h = b + n.flag /\ E = EntriesOver(n, L, R)

\* H holds the left-leaning red-black trees with entries in X, each with its
\* black height and what it holds.
RbTrees(H, X) ==
  /\ ~IsNode(NULL) /\ \A e \in X : e[1] \in Int
  /\ \A n, h, E : <<n, h, E>> \in H <=> (n = NULL /\ h = 0 /\ E = {}) \/ RbRoot(n, h, E, H, X)

\* A node is not NULL; it is red or black by its flag.
LEMMA NodeColor ==
  ASSUME NEW H, NEW X, RbTrees(H, X), NEW n, IsNode(n)
  PROVE  n # NULL /\ (IsRed(n) <=> n.flag = RED)
  BY DEF RbTrees, IsRed

\* A node over two trees is a tree if it leans left.
LEMMA RbMake ==
  ASSUME NEW H, NEW X, NEW n, NEW b, NEW L, NEW R, RbTrees(H, X), RbOver(n, b, L, R, H, X),
      Leans(n)
  PROVE  <<n, b + n.flag, EntriesOver(n, L, R)>> \in H
<1>1. RbRoot(n, b + n.flag, EntriesOver(n, L, R), H, X)
  BY DEF RbRoot
<1> QED
  BY <1>1 DEF RbTrees

\* A tree is empty, or a node over two trees.
LEMMA RbTake ==
  ASSUME NEW H, NEW X, NEW n, NEW h, NEW E, RbTrees(H, X), <<n, h, E>> \in H
  PROVE  /\ n = NULL => h = 0 /\ E = {} /\ ~IsRed(n)
         /\ n # NULL => IsNode(n) /\ Leans(n) /\ RbRoot(n, h, E, H, X)
<1>1. (n = NULL /\ h = 0 /\ E = {}) \/ RbRoot(n, h, E, H, X)
  BY DEF RbTrees
<1>2. RbRoot(n, h, E, H, X) => IsNode(n) /\ Leans(n) /\ n # NULL
  BY DEF RbRoot, RbOver, Stands, RbTrees
<1> QED
  BY <1>1, <1>2 DEF IsRed

-----------------------------------------------------------------------------
(* Rotations and color flips of red-black nodes.                           *)

\* A node with a new link to the right and a new color
LEMMA RightLinked ==
  ASSUME NEW n, IsNode(n), NEW x, NEW f
  PROVE  [n EXCEPT !.right = x, !.flag = f] = NodeWith(n.key, n.val, f, n.left, x)
<1>1. [n EXCEPT !.right = x, !.flag = f] = [[n EXCEPT !.right = x] EXCEPT !.flag = f]
  BY SMT
<1>2. [n EXCEPT !.right = x] = NodeWith(n.key, n.val, n.flag, n.left, x)
  BY SMT DEF NodeWith, IsNode
<1>3. [NodeWith(n.key, n.val, n.flag, n.left, x) EXCEPT !.flag = f]
        = NodeWith(n.key, n.val, f, n.left, x)
  BY SMT DEF NodeWith
<1> QED
  BY <1>1, <1>2, <1>3

\* The mirror image
LEMMA LeftLinked ==
  ASSUME NEW n, IsNode(n), NEW x, NEW f
  PROVE  [n EXCEPT !.left = x, !.flag = f] = NodeWith(n.key, n.val, f, x, n.right)
<1>1. [n EXCEPT !.left = x, !.flag = f] = [[n EXCEPT !.left = x] EXCEPT !.flag = f]
  BY SMT
<1>2. [n EXCEPT !.left = x] = NodeWith(n.key, n.val, n.flag, x, n.right)
  BY SMT DEF NodeWith, IsNode
<1>3. [NodeWith(n.key, n.val, n.flag, x, n.right) EXCEPT !.flag = f]
        = NodeWith(n.key, n.val, f, x, n.right)
  BY SMT DEF NodeWith
<1> QED
  BY <1>1, <1>2, <1>3

\* What the rotations and the color flip make of the fields.
LEMMA RotateLeftIs ==
  ASSUME NEW n, IsNode(n), IsNode(n.right)
  PROVE  RotateLeft(n) = NodeWith(n.right.key, n.right.val, n.flag,
                                  NodeWith(n.key, n.val, RED, n.left, n.right.left), n.right.right)
<1> DEFINE m == NodeWith(n.key, n.val, RED, n.left, n.right.left)
<1>1. [n EXCEPT !.right = n.right.left, !.flag = RED] = m
  BY RightLinked, Zenon
<1>2. RotateLeft(n) = [n.right EXCEPT !.left = m, !.flag = n.flag]
  BY <1>1 DEF RotateLeft
<1> HIDE DEF m
<1>3. [n.right EXCEPT !.left = m, !.flag = n.flag]
        = NodeWith(n.right.key, n.right.val, n.flag, m, n.right.right)
  BY LeftLinked, Zenon
<1> QED
  BY <1>2, <1>3 DEF m

\* The mirror image
LEMMA RotateRightIs ==
  ASSUME NEW n, IsNode(n), IsNode(n.left)
  PROVE  RotateRight(n) = NodeWith(n.left.key, n.left.val, n.flag, n.left.left,
                                   NodeWith(n.key, n.val, RED, n.left.right, n.right))
<1> DEFINE m == NodeWith(n.key, n.val, RED, n.left.right, n.right)
<1>1. [n EXCEPT !.left = n.left.right, !.flag = RED] = m
  BY LeftLinked, Zenon
<1>2. RotateRight(n) = [n.left EXCEPT !.right = m, !.flag = n.flag]
  BY <1>1 DEF RotateRight
<1> HIDE DEF m
<1>3. [n.left EXCEPT !.right = m, !.flag = n.flag]
        = NodeWith(n.left.key, n.left.val, n.flag, n.left.left, m)
  BY RightLinked, Zenon
<1> QED
  BY <1>2, <1>3 DEF m

\* n with the other color
Flipped(n) == NodeWith(n.key, n.val, 1 - n.flag, n.left, n.right)

\* A node with the other color
LEMMA OtherColor ==
  ASSUME NEW n, IsNode(n)
  PROVE  [n EXCEPT !.flag = 1 - @] = Flipped(n)
  BY SMT DEF IsNode, Flipped, NodeWith

\* Flipping colors leaves the other fields of the three nodes.
LEMMA ColorFlipIs ==
  ASSUME NEW n, IsNode(n), IsNode(n.left), IsNode(n.right)
  PROVE  ColorFlip(n) = NodeWith(n.key, n.val, 1 - n.flag, Flipped(n.left), Flipped(n.right))
<1> DEFINE k == n.key
           v == n.val
           c == n.flag
           l == n.left
           r == n.right
           m == [key |-> k, val |-> v, flag |-> c, left |-> l, right |-> r]
<1>1. n = m
  BY DEF IsNode
<1>2. [l EXCEPT !.flag = 1 - @] = Flipped(l) /\ [r EXCEPT !.flag = 1 - @] = Flipped(r)
  BY OtherColor
<1> HIDE DEF k, v, c, l, r
<1>3. ColorFlip(m)
        = [[[m EXCEPT !.flag = 1 - @] EXCEPT !.left.flag = 1 - @] EXCEPT !.right.flag = 1 - @]
  <2> HIDE DEF m
  <2> QED
    BY SMT DEF ColorFlip
<1>4. ColorFlip(m) = NodeWith(k, v, 1 - c, Flipped(l), Flipped(r))
  <2>1. [m EXCEPT !.flag = 1 - @] = NodeWith(k, v, 1 - c, l, r)
    BY SMT DEF NodeWith
  <2>2. [NodeWith(k, v, 1 - c, l, r) EXCEPT !.left.flag = 1 - @]
          = NodeWith(k, v, 1 - c, [l EXCEPT !.flag = 1 - @], r)
    BY SMT DEF NodeWith
  <2>3. [NodeWith(k, v, 1 - c, Flipped(l), r) EXCEPT !.right.flag = 1 - @]
          = NodeWith(k, v, 1 - c, Flipped(l), [r EXCEPT !.flag = 1 - @])
    BY SMT DEF NodeWith
  <2> HIDE DEF m
  <2> QED
    BY <1>2, <1>3, <2>1, <2>2, <2>3
<1> HIDE DEF m
<1> QED
  BY <1>1, <1>4 DEF k, v, c, l, r

\* After a rotation to the left, two nodes stand between the same three subtrees.
LEMMA TurnsLeft ==
  ASSUME NEW n, NEW A, NEW B, NEW C, NEW X, \A e \in X : e[1] \in Int,
         Stands(n, A, EntriesOver(n.right, B, C), X), Stands(n.right, B, C, X)
  PROVE  LET m == RotateLeft(n)
         IN  /\ Stands(m, EntriesOver(m.left, A, B), C, X) /\ Stands(m.left, A, B, X)
             /\ EntriesOver(m, EntriesOver(m.left, A, B), C)
                  = EntriesOver(n, A, EntriesOver(n.right, B, C))
             /\ m.flag = n.flag /\ m.left.flag = RED
             /\ m.left.left = n.left /\ m.left.right = n.right.left /\ m.right = n.right.right
<1> DEFINE r == n.right
           p == NodeWith(n.key, n.val, RED, n.left, r.left)
           m == NodeWith(r.key, r.val, n.flag, p, r.right)
<1>1. RotateLeft(n) = m
  BY RotateLeftIs DEF Stands
<1>2. /\ IsNode(m) /\ Entry(m) = <<r.key, r.val>>
      /\ m.flag = n.flag /\ m.left = p /\ m.right = r.right
  BY NodeFields
<1>3. /\ IsNode(p) /\ Entry(p) = <<n.key, n.val>>
      /\ p.flag = RED /\ p.left = n.left /\ p.right = r.left
  BY NodeFields
<1> HIDE DEF m, p
<1>4. Entry(m) = Entry(r) /\ Entry(p) = Entry(n)
  BY <1>2, <1>3 DEF Entry
<1>5. /\ Placed(r, EntriesOver(n, A, B), C, X) /\ Placed(n, A, B, X)
      /\ EntriesOver(n, A, EntriesOver(r, B, C)) = EntriesOver(r, EntriesOver(n, A, B), C)
  BY PlacesTurn DEF Stands
<1>6. /\ EntriesOver(p, A, B) = EntriesOver(n, A, B) /\ Placed(p, A, B, X)
      /\ Placed(m, EntriesOver(n, A, B), C, X)
      /\ EntriesOver(m, EntriesOver(n, A, B), C) = EntriesOver(r, EntriesOver(n, A, B), C)
  BY <1>4, <1>5, StandsAs
<1>7. m.flag \in {RED, BLACK} /\ p.flag \in {RED, BLACK}
  BY <1>2, <1>3 DEF Stands
<1> QED
  BY <1>1, <1>2, <1>3, <1>5, <1>6, <1>7 DEF Stands

\* The mirror image
LEMMA TurnsRight ==
  ASSUME NEW n, NEW A, NEW B, NEW C, NEW X, \A e \in X : e[1] \in Int,
         Stands(n, EntriesOver(n.left, A, B), C, X), Stands(n.left, A, B, X)
  PROVE  LET m == RotateRight(n)
         IN  /\ Stands(m, A, EntriesOver(m.right, B, C), X) /\ Stands(m.right, B, C, X)
             /\ EntriesOver(m, A, EntriesOver(m.right, B, C))
                  = EntriesOver(n, EntriesOver(n.left, A, B), C)
             /\ Entry(m.right) = Entry(n) /\ m.flag = n.flag /\ m.right.flag = RED
             /\ m.left = n.left.left /\ m.right.left = n.left.right /\ m.right.right = n.right
<1> DEFINE l == n.left
           p == NodeWith(n.key, n.val, RED, l.right, n.right)
           m == NodeWith(l.key, l.val, n.flag, l.left, p)
<1>1. RotateRight(n) = m
  BY RotateRightIs DEF Stands
<1>2. /\ IsNode(m) /\ Entry(m) = <<l.key, l.val>>
      /\ m.flag = n.flag /\ m.left = l.left /\ m.right = p
  BY NodeFields
<1>3. /\ IsNode(p) /\ Entry(p) = <<n.key, n.val>>
      /\ p.flag = RED /\ p.left = l.right /\ p.right = n.right
  BY NodeFields
<1> HIDE DEF m, p
<1>4. Entry(m) = Entry(l) /\ Entry(p) = Entry(n)
  BY <1>2, <1>3 DEF Entry
<1>5. /\ Placed(l, A, EntriesOver(n, B, C), X) /\ Placed(n, B, C, X)
      /\ EntriesOver(l, A, EntriesOver(n, B, C)) = EntriesOver(n, EntriesOver(l, A, B), C)
  BY PlacesTurn DEF Stands
<1>6. /\ EntriesOver(p, B, C) = EntriesOver(n, B, C) /\ Placed(p, B, C, X)
      /\ Placed(m, A, EntriesOver(n, B, C), X)
      /\ EntriesOver(m, A, EntriesOver(n, B, C)) = EntriesOver(l, A, EntriesOver(n, B, C))
  BY <1>4, <1>5, StandsAs
<1>7. m.flag \in {RED, BLACK} /\ p.flag \in {RED, BLACK}
  BY <1>2, <1>3 DEF Stands
<1> QED
  BY <1>1, <1>2, <1>3, <1>4, <1>5, <1>6, <1>7 DEF Stands

\* A color flip changes colors only.
LEMMA Flips ==
  ASSUME NEW n, NEW A, NEW B, NEW C, NEW D, NEW X,
         Stands(n, EntriesOver(n.left, A, B), EntriesOver(n.right, C, D), X),
         Stands(n.left, A, B, X), Stands(n.right, C, D, X)
  PROVE  LET m == ColorFlip(n)
         IN  /\ Stands(m, EntriesOver(m.left, A, B), EntriesOver(m.right, C, D), X)
             /\ Stands(m.left, A, B, X) /\ Stands(m.right, C, D, X)
             /\ EntriesOver(m.left, A, B) = EntriesOver(n.left, A, B)
             /\ EntriesOver(m.right, C, D) = EntriesOver(n.right, C, D)
             /\ \A L, R : EntriesOver(m, L, R) = EntriesOver(n, L, R)
             /\ Entry(m.right) = Entry(n.right) /\ m.flag = 1 - n.flag
             /\ m.left.flag = 1 - n.left.flag /\ m.right.flag = 1 - n.right.flag
             /\ m.left.left = n.left.left /\ m.left.right = n.left.right
             /\ m.right.left = n.right.left /\ m.right.right = n.right.right
<1> DEFINE l == Flipped(n.left)
           r == Flipped(n.right)
           m == NodeWith(n.key, n.val, 1 - n.flag, l, r)
<1>1. ColorFlip(n) = m
  BY ColorFlipIs DEF Stands
<1>2. /\ IsNode(m) /\ Entry(m) = <<n.key, n.val>>
      /\ m.key = n.key /\ m.flag = 1 - n.flag /\ m.left = l /\ m.right = r
  BY NodeFields
<1>3. /\ IsNode(l) /\ Entry(l) = <<n.left.key, n.left.val>>
      /\ l.flag = 1 - n.left.flag /\ l.left = n.left.left /\ l.right = n.left.right
  BY NodeFields DEF Flipped
<1>4. /\ IsNode(r) /\ Entry(r) = <<n.right.key, n.right.val>>
      /\ r.flag = 1 - n.right.flag /\ r.left = n.right.left /\ r.right = n.right.right
  BY NodeFields DEF Flipped
<1> HIDE DEF m, l, r
<1>5. Entry(m) = Entry(n) /\ Entry(l) = Entry(n.left) /\ Entry(r) = Entry(n.right)
  BY <1>2, <1>3, <1>4 DEF Entry
<1>6. /\ EntriesOver(l, A, B) = EntriesOver(n.left, A, B) /\ Placed(l, A, B, X)
      /\ EntriesOver(r, C, D) = EntriesOver(n.right, C, D) /\ Placed(r, C, D, X)
      /\ Placed(m, EntriesOver(n.left, A, B), EntriesOver(n.right, C, D), X)
  BY <1>5, StandsAs DEF Stands
<1>7. \A L, R : EntriesOver(m, L, R) = EntriesOver(n, L, R)
  BY <1>5 DEF EntriesOver
<1>8. m.flag \in {RED, BLACK} /\ l.flag \in {RED, BLACK} /\ r.flag \in {RED, BLACK}
  BY <1>2, <1>3, <1>4 DEF Stands, RED, BLACK
<1> QED
  BY <1>1, <1>2, <1>3, <1>4, <1>5, <1>6, <1>7, <1>8 DEF Stands

\* A node is not NULL, and red or black.
LEMMA Colors ==
  ASSUME NEW H, NEW X, NEW n, NEW L, NEW R, RbTrees(H, X), Stands(n, L, R, X)
  PROVE  n # NULL /\ IsNode(n) /\ (IsRed(n) <=> n.flag = RED) /\ (~IsRed(n) <=> n.flag = BLACK)
  BY DEF RbTrees, Stands, IsRed, RED, BLACK

\* A node that is the root of a tree, over its subtrees
LEMMA RbTakeRed ==
  ASSUME NEW H, NEW X, NEW n, NEW h, NEW E, RbTrees(H, X), <<n, h, E>> \in H, IsRed(n)
  PROVE  \E L, R : /\ RbOver(n, h, L, R, H, X) /\ E = EntriesOver(n, L, R)
                   /\ ~IsRed(n.left) /\ ~IsRed(n.right)
<1>1. RbRoot(n, h, E, H, X)
  BY RbTake DEF IsRed
<1>2. PICK b, L, R : /\ RbOver(n, b, L, R, H, X) /\ Leans(n)
                     /\ h = b + n.flag /\ E = EntriesOver(n, L, R)
  BY <1>1 DEF RbRoot
<1>3. h = b
  BY <1>2 DEF RbOver, IsRed, RED
<1> QED
  BY <1>2, <1>3 DEF Leans

\* A black node that is the root of a tree
LEMMA RbTakeBlack ==
  ASSUME NEW H, NEW X, NEW n, NEW h, NEW E, RbTrees(H, X), <<n, h, E>> \in H, n # NULL, ~IsRed(n)
  PROVE  \E b \in Nat : \E L, R : /\ RbOver(n, b, L, R, H, X) /\ E = EntriesOver(n, L, R)
                                  /\ h = b + 1 /\ n.flag = BLACK /\ ~IsRed(n.right)
<1>1. RbRoot(n, h, E, H, X)
  BY RbTake
<1>2. PICK b, L, R : /\ RbOver(n, b, L, R, H, X) /\ Leans(n)
                     /\ h = b + n.flag /\ E = EntriesOver(n, L, R)
  BY <1>1 DEF RbRoot
<1>3. b \in Nat /\ h = b + 1 /\ n.flag = BLACK
  BY <1>2 DEF RbOver, Stands, IsRed, RED, BLACK
<1> QED
  BY <1>2, <1>3 DEF Leans

-----------------------------------------------------------------------------
(* Repair of red-black trees.                                              *)

\* Without a red link to the right there is nothing to repair.
LEMMA RepairRests ==
  ASSUME NEW H, NEW X, NEW d, NEW b, NEW L, NEW R, RbTrees(H, X), RbOver(d, b, L, R, H, X),
         ~IsRed(d.right)
  PROVE  Repair(d) = d
<1>1. IsRed(d.left) => ~IsRed(d.left.left)
  BY RbTake DEF RbOver, Leans, IsRed
<1> QED
  BY <1>1 DEF Repair

\* A red link to the right alone is turned to the left.
LEMMA RepairTurns ==
  ASSUME NEW H, NEW X, NEW d, NEW b, NEW L, NEW R, RbTrees(H, X), RbOver(d, b, L, R, H, X),
         IsRed(d.right), ~IsRed(d.left)
  PROVE  LET m == Repair(d)
         IN  \E A, B : /\ RbOver(m, b, A, B, H, X) /\ EntriesOver(m, A, B) = EntriesOver(d, L, R)
                       /\ m.flag = d.flag /\ IsRed(m.left) /\ ~IsRed(m.right)
<1> DEFINE m == RotateLeft(d)
<1>1. PICK B, C : /\ RbOver(d.right, b, B, C, H, X) /\ R = EntriesOver(d.right, B, C)
                  /\ ~IsRed(d.right.left) /\ ~IsRed(d.right.right)
  BY RbTakeRed DEF RbOver
<1>2. /\ Stands(d, L, EntriesOver(d.right, B, C), X) /\ Stands(d.right, B, C, X)
      /\ \A e \in X : e[1] \in Int
  BY <1>1 DEF RbOver, RbTrees
<1>3. /\ Stands(m, EntriesOver(m.left, L, B), C, X) /\ Stands(m.left, L, B, X)
      /\ EntriesOver(m, EntriesOver(m.left, L, B), C) = EntriesOver(d, L, R)
      /\ m.flag = d.flag /\ m.left.flag = RED
      /\ m.left.left = d.left /\ m.left.right = d.right.left /\ m.right = d.right.right
  BY <1>1, <1>2, TurnsLeft
<1> HIDE DEF m
<1>4. IsRed(m.left)
  BY <1>3, Colors
<1>5. RbOver(m.left, b, L, B, H, X) /\ Leans(m.left)
  BY <1>1, <1>3 DEF RbOver, Leans
<1>6. <<m.left, b, EntriesOver(m.left, L, B)>> \in H
  <2>1. <<m.left, b + m.left.flag, EntriesOver(m.left, L, B)>> \in H
    BY <1>5, RbMake
  <2>2. b + m.left.flag = b
    BY <1>3 DEF RbOver, RED
  <2> QED
    BY <2>1, <2>2
<1>7. RbOver(m, b, EntriesOver(m.left, L, B), C, H, X)
  BY <1>1, <1>3, <1>6 DEF RbOver
<1>8. Repair(d) = m
  <2>1. ~IsRed(m.left.left) /\ ~IsRed(m.right)
    BY <1>1, <1>3
  <2> QED
    BY <2>1 DEF Repair, m
<1> QED
  BY <1>1, <1>3, <1>4, <1>7, <1>8

\* Two red links are flipped to one above.
LEMMA RepairFlips ==
  ASSUME NEW H, NEW X, NEW d, NEW b, NEW L, NEW R, RbTrees(H, X), RbOver(d, b, L, R, H, X),
         IsRed(d.right), IsRed(d.left)
  PROVE  LET m == Repair(d)
         IN  \E A, B : /\ RbOver(m, b + 1, A, B, H, X)
             /\ EntriesOver(m, A, B) = EntriesOver(d, L, R)
                       /\ m.flag = 1 - d.flag /\ ~IsRed(m.left) /\ ~IsRed(m.right)
<1> DEFINE m == ColorFlip(d)
<1>1. PICK C, D : /\ RbOver(d.right, b, C, D, H, X) /\ R = EntriesOver(d.right, C, D)
                  /\ ~IsRed(d.right.left) /\ ~IsRed(d.right.right)
  BY RbTakeRed DEF RbOver
<1>2. PICK A, B : /\ RbOver(d.left, b, A, B, H, X) /\ L = EntriesOver(d.left, A, B)
                  /\ ~IsRed(d.left.left) /\ ~IsRed(d.left.right)
  BY RbTakeRed DEF RbOver
<1>3. /\ Stands(d, EntriesOver(d.left, A, B), EntriesOver(d.right, C, D), X)
      /\ Stands(d.left, A, B, X) /\ Stands(d.right, C, D, X)
  BY <1>1, <1>2 DEF RbOver
<1>4. d.left.flag = RED /\ d.right.flag = RED
  BY DEF IsRed
<1>5. /\ Stands(m, EntriesOver(m.left, A, B), EntriesOver(m.right, C, D), X)
      /\ Stands(m.left, A, B, X) /\ Stands(m.right, C, D, X)
      /\ EntriesOver(m.left, A, B) = L /\ EntriesOver(m.right, C, D) = R
      /\ EntriesOver(m, L, R) = EntriesOver(d, L, R)
      /\ m.flag = 1 - d.flag /\ m.left.flag = BLACK /\ m.right.flag = BLACK
      /\ m.left.left = d.left.left /\ m.left.right = d.left.right
      /\ m.right.left = d.right.left /\ m.right.right = d.right.right
  BY <1>1, <1>2, <1>3, <1>4, Flips DEF RED, BLACK
<1> HIDE DEF m
<1>6. ~IsRed(m.left) /\ ~IsRed(m.right)
  BY <1>5 DEF IsRed, RED, BLACK
<1>7. /\ RbOver(m.left, b, A, B, H, X) /\ Leans(m.left)
      /\ RbOver(m.right, b, C, D, H, X) /\ Leans(m.right)
  BY <1>1, <1>2, <1>5, <1>6 DEF RbOver, Leans
<1>8. <<m.left, b + m.left.flag, EntriesOver(m.left, A, B)>> \in H
  BY <1>7, RbMake
<1>9. <<m.right, b + m.right.flag, EntriesOver(m.right, C, D)>> \in H
  BY <1>7, RbMake
<1>10. RbOver(m, b + 1, L, R, H, X)
  <2>1. b \in Nat /\ b + m.left.flag = b + 1 /\ b + m.right.flag = b + 1
    BY <1>5 DEF RbOver, BLACK
  <2> QED
    BY <1>5, <1>8, <1>9, <2>1 DEF RbOver
<1>11. Repair(d) = m
  BY <1>2 DEF Repair, m
<1> QED
  BY <1>5, <1>6, <1>10, <1>11

\* The repair of a node over two trees
LEMMA RepairOver ==
  ASSUME NEW H, NEW X, NEW d, NEW b, NEW L, NEW R, RbTrees(H, X), RbOver(d, b, L, R, H, X)
  PROVE  LET m == Repair(d)
             both == IsRed(d.left) /\ IsRed(d.right)
         IN  \E A, B : /\ RbOver(m, IF both THEN b + 1 ELSE b, A, B, H, X)
                       /\ EntriesOver(m, A, B) = EntriesOver(d, L, R)
                       /\ m.flag = IF both THEN 1 - d.flag ELSE d.flag
                       /\ ~IsRed(m.right) /\ (both => ~IsRed(m.left))
                       /\ ~both => (IsRed(m.left) <=> IsRed(d.left) \/ IsRed(d.right))
<1>1. CASE ~IsRed(d.right)
  BY <1>1, RepairRests
<1>2. CASE IsRed(d.right) /\ ~IsRed(d.left)
  BY <1>2, RepairTurns
<1>3. CASE IsRed(d.right) /\ IsRed(d.left)
  BY <1>3, RepairFlips
<1> QED
  BY <1>1, <1>2, <1>3

\* A red node with a red child to its left, as a repair may leave it
Leaning(n, h, E, H, X) ==
  /\ n.flag = RED /\ IsRed(n.left) /\ ~IsRed(n.right)
  /\ \E L, R : RbOver(n, h, L, R, H, X) /\ E = EntriesOver(n, L, R)

\* Over two trees, the repair of a black node makes a tree.
LEMMA RepairBlack ==
  ASSUME NEW H, NEW X, NEW d, NEW b, NEW L, NEW R, RbTrees(H, X), RbOver(d, b, L, R, H, X),
         d.flag = BLACK
  PROVE  /\ <<Repair(d), b + 1, EntriesOver(d, L, R)>> \in H
         /\ IsRed(Repair(d)) => IsRed(d.left) /\ IsRed(d.right)
<1> DEFINE m == Repair(d)
           both == IsRed(d.left) /\ IsRed(d.right)
<1>1. PICK A, B : /\ RbOver(m, IF both THEN b + 1 ELSE b, A, B, H, X)
                  /\ EntriesOver(m, A, B) = EntriesOver(d, L, R)
                  /\ m.flag = IF both THEN 1 - d.flag ELSE d.flag
                  /\ ~IsRed(m.right) /\ (both => ~IsRed(m.left))
  BY RepairOver
<1> HIDE DEF m
<1>2. b \in Nat
  BY DEF RbOver
<1>3. CASE both
  <2>1. RbOver(m, b + 1, A, B, H, X) /\ Leans(m) /\ m.flag = 0
    BY <1>1, <1>3 DEF Leans, BLACK
  <2>2. <<m, b + 1 + m.flag, EntriesOver(m, A, B)>> \in H
    BY <2>1, RbMake
  <2>3. b + 1 + m.flag = b + 1
    BY <1>2, <2>1
  <2> QED
    BY <1>1, <1>3, <2>2, <2>3 DEF m
<1>4. CASE ~both
  <2>1. RbOver(m, b, A, B, H, X) /\ m.flag = 1 /\ ~IsRed(m)
    BY <1>1, <1>4 DEF IsRed, RED, BLACK
  <2>2. Leans(m)
    BY <1>1, <2>1 DEF Leans
  <2>3. <<m, b + m.flag, EntriesOver(m, A, B)>> \in H
    BY <2>1, <2>2, RbMake
  <2> QED
    BY <1>1, <2>1, <2>3 DEF m
<1> QED
  BY <1>3, <1>4

\* That of a red one makes a tree or leaves two red nodes in a row at its top.
LEMMA RepairRed ==
  ASSUME NEW H, NEW X, NEW d, NEW b, NEW L, NEW R, RbTrees(H, X), RbOver(d, b, L, R, H, X),
         d.flag = RED
  PROVE  IF IsRed(d.left) /\ IsRed(d.right)
         THEN <<Repair(d), b + 2, EntriesOver(d, L, R)>> \in H /\ ~IsRed(Repair(d))
         ELSE IF IsRed(d.left) \/ IsRed(d.right)
         THEN Leaning(Repair(d), b, EntriesOver(d, L, R), H, X)
         ELSE <<Repair(d), b, EntriesOver(d, L, R)>> \in H
<1> DEFINE m == Repair(d)
           both == IsRed(d.left) /\ IsRed(d.right)
<1>1. PICK A, B : /\ RbOver(m, IF both THEN b + 1 ELSE b, A, B, H, X)
                  /\ EntriesOver(m, A, B) = EntriesOver(d, L, R)
                  /\ m.flag = IF both THEN 1 - d.flag ELSE d.flag
                  /\ ~IsRed(m.right) /\ (both => ~IsRed(m.left))
                  /\ ~both => (IsRed(m.left) <=> IsRed(d.left) \/ IsRed(d.right))
  BY RepairOver
<1> HIDE DEF m
<1>2. b \in Nat
  BY DEF RbOver
<1>3. CASE both
  <2>1. RbOver(m, b + 1, A, B, H, X) /\ m.flag = 1 /\ ~IsRed(m)
    BY <1>1, <1>3 DEF IsRed, RED
  <2>2. Leans(m)
    BY <1>1, <2>1 DEF Leans
  <2>3. <<m, b + 1 + m.flag, EntriesOver(m, A, B)>> \in H
    BY <2>1, <2>2, RbMake
  <2>4. b + 1 + m.flag = b + 2
    BY <1>2, <2>1
  <2> QED
    BY <1>1, <1>3, <2>1, <2>3, <2>4 DEF m
<1>4. CASE ~both /\ ~IsRed(m.left)
  <2>1. RbOver(m, b, A, B, H, X) /\ m.flag = 0 /\ Leans(m)
    BY <1>1, <1>4 DEF Leans, RED
  <2>2. <<m, b + m.flag, EntriesOver(m, A, B)>> \in H
    BY <2>1, RbMake
  <2>3. b + m.flag = b
    BY <1>2, <2>1
  <2> QED
    BY <1>1, <1>4, <2>2, <2>3 DEF m
<1>5. CASE ~both /\ IsRed(m.left)
  <2>1. Leaning(m, b, EntriesOver(d, L, R), H, X)
    BY <1>1, <1>5 DEF Leaning
  <2> QED
    BY <1>1, <1>5, <2>1 DEF m
<1> QED
  BY <1>3, <1>4, <1>5

\* Of two red nodes in a row below a black one the repair makes a tree.
LEMMA RepairLeaning ==
  ASSUME NEW H, NEW X, NEW d, NEW b, NEW L, NEW R, RbTrees(H, X), Stands(d, L, R, X),
      d.flag = BLACK,
         Leaning(d.left, b, L, H, X), <<d.right, b, R>> \in H, ~IsRed(d.right)
  PROVE  <<Repair(d), b + 1, EntriesOver(d, L, R)>> \in H
<1> DEFINE m == RotateRight(d)
<1>1. PICK A, B : /\ RbOver(d.left, b, A, B, H, X) /\ L = EntriesOver(d.left, A, B)
                  /\ IsRed(d.left.left) /\ ~IsRed(d.left.right)
  BY DEF Leaning
<1>2. /\ Stands(d, EntriesOver(d.left, A, B), R, X) /\ Stands(d.left, A, B, X)
      /\ \A e \in X : e[1] \in Int
  BY <1>1 DEF RbOver, RbTrees
<1>3. /\ Stands(m, A, EntriesOver(m.right, B, R), X) /\ Stands(m.right, B, R, X)
      /\ EntriesOver(m, A, EntriesOver(m.right, B, R)) = EntriesOver(d, L, R)
      /\ m.flag = BLACK /\ m.right.flag = RED
      /\ m.left = d.left.left /\ m.right.left = d.left.right /\ m.right.right = d.right
  BY <1>1, <1>2, TurnsRight
<1> HIDE DEF m
<1>4. RbOver(m.right, b, B, R, H, X) /\ Leans(m.right) /\ IsRed(m.right)
  <2>1. IsRed(m.right)
    BY <1>3, Colors
  <2> QED
    BY <1>1, <1>3, <2>1 DEF RbOver, Leans
<1>5. <<m.right, b, EntriesOver(m.right, B, R)>> \in H
  <2>1. <<m.right, b + m.right.flag, EntriesOver(m.right, B, R)>> \in H
    BY <1>4, RbMake
  <2>2. b + m.right.flag = b
    BY <1>1, <1>3 DEF RbOver, RED
  <2> QED
    BY <2>1, <2>2
<1>6. RbOver(m, b, A, EntriesOver(m.right, B, R), H, X)
  BY <1>1, <1>3, <1>5 DEF RbOver
<1>7. <<Repair(m), b + 1, EntriesOver(d, L, R)>> \in H
  BY <1>3, <1>6, RepairBlack
<1>8. IsRed(d.left) /\ IsRed(m.left) /\ ~IsRed(m.left.left)
  <2>1. IsRed(m.left) /\ <<m.left, b, A>> \in H
    BY <1>1, <1>3 DEF RbOver
  <2>2. ~IsRed(m.left.left)
    BY <2>1, RbTakeRed
  <2>3. IsRed(d.left)
    BY <1>1, Colors DEF Leaning, RbOver
  <2> QED
    BY <2>1, <2>2, <2>3
<1>9. Repair(d) = ColorFlip(m)
  BY <1>1, <1>4, <1>8 DEF Repair, m
<1>10. Repair(m) = ColorFlip(m)
  BY <1>4, <1>8 DEF Repair
<1> QED
  BY <1>7, <1>9, <1>10

-----------------------------------------------------------------------------
(* Insertion into red-black trees.                                         *)

\* What an insertion into was, of black height h, may leave: a tree that holds E,
\* or two red nodes in a row where was is red.
Grown(was, t, h, E, H, X) ==
  <<t, h, E>> \in H \/ (IsRed(was) /\ Leaning(t, h, E, H, X))

\* n grows as it should if its left subtree did, ...
GrowsLeft(n, h, b, L, R, H, X) ==
  \A t, M : /\ M \in SUBSET X /\ \A e \in M : e[1] < n.key
            /\ Grown(n.left, t, b, M, H, X)
     => Grown(n, Repair([n EXCEPT !.left = t]), h, EntriesOver(n, M, R), H, X)

\* ... and if its right subtree did.
GrowsRight(n, h, b, L, R, H, X) ==
  \A t, M : /\ M \in SUBSET X /\ \A e \in M : n.key < e[1]
            /\ Grown(n.right, t, b, M, H, X)
     => Grown(n, Repair([n EXCEPT !.right = t]), h, EntriesOver(n, L, M), H, X)

\* The heights and colors below the root of a tree
LEMMA RbTop ==
  ASSUME NEW H, NEW X, NEW n, NEW h, NEW E, RbTrees(H, X), <<n, h, E>> \in H, n # NULL
  PROVE  \E b \in Nat : \E L, R :
           /\ RbOver(n, b, L, R, H, X) /\ E = EntriesOver(n, L, R) /\ ~IsRed(n.right)
           /\ \/ n.flag = RED /\ IsRed(n) /\ h = b /\ ~IsRed(n.left)
              \/ n.flag = BLACK /\ ~IsRed(n) /\ h = b + 1
<1>1. CASE IsRed(n)
  <2>1. PICK L, R : /\ RbOver(n, h, L, R, H, X) /\ E = EntriesOver(n, L, R)
                    /\ ~IsRed(n.left) /\ ~IsRed(n.right)
    BY <1>1, RbTakeRed
  <2>2. h \in Nat /\ n.flag = RED
    BY <1>1, <2>1 DEF RbOver, IsRed
  <2> QED
    BY <1>1, <2>1, <2>2
<1>2. CASE ~IsRed(n)
  BY <1>2, RbTakeBlack
<1> QED
  BY <1>1, <1>2

\* The weight of the root of a tree of black height h: less further down.
Weight(n, h) == IF IsRed(n) THEN 2 * h + 1 ELSE 2 * h

\* The black height of a tree is a number.
LEMMA HeightsAre ==
  ASSUME NEW H, NEW X, NEW n, NEW h, NEW E, RbTrees(H, X), <<n, h, E>> \in H
  PROVE  h \in Nat /\ Weight(n, h) \in Nat /\ E \in SUBSET X
<1>1. CASE n = NULL
  <2>1. n = NULL => h = 0 /\ E = {} /\ ~IsRed(n)
    BY RbTake
  <2> QED
    BY <1>1, <2>1 DEF Weight
<1>2. CASE n # NULL
  <2>1. PICK b, L, R :
           /\ b \in Nat /\ RbOver(n, b, L, R, H, X) /\ E = EntriesOver(n, L, R)
           /\ h = b \/ h = b + 1
    BY <1>2, RbTop
  <2> QED
    BY <2>1 DEF Weight, RbOver, Stands, Placed, EntriesOver
<1> QED
  BY <1>1, <1>2

\* The subtrees weigh less.
LEMMA RbLighter ==
  ASSUME NEW H, NEW X, NEW n, NEW h, NEW b, NEW L, NEW R, RbTrees(H, X), b \in Nat,
         RbOver(n, b, L, R, H, X), ~IsRed(n.right),
         \/ n.flag = RED /\ IsRed(n) /\ h = b /\ ~IsRed(n.left)
         \/ n.flag = BLACK /\ ~IsRed(n) /\ h = b + 1
  PROVE  Weight(n.left, b) < Weight(n, h) /\ Weight(n.right, b) < Weight(n, h)
  BY DEF Weight

\* Of some trees one is lightest: what holds for every tree for which it holds further
\* down holds for all.
LEMMA RbLightest ==
  ASSUME NEW H, NEW X, NEW Bad, RbTrees(H, X), Bad \in SUBSET H, \E n, h, E : <<n, h, E>> \in Bad
  PROVE  \E n, h, E : /\ <<n, h, E>> \in Bad /\ <<n, h, E>> \in H
                      /\ \A m, g, F : <<m, g, F>> \in Bad => ~(Weight(m, g) < Weight(n, h))
<1> DEFINE T == {w \in Nat : \E n, h, E : <<n, h, E>> \in Bad /\ w = Weight(n, h)}
<1>1. \A n, h, E : <<n, h, E>> \in Bad => Weight(n, h) \in T
  <2> SUFFICES ASSUME NEW n, NEW h, NEW E, <<n, h, E>> \in Bad PROVE Weight(n, h) \in Nat
    OBVIOUS
  <2>1. <<n, h, E>> \in H
    OBVIOUS
  <2> QED
    BY <2>1, HeightsAre
<1>2. T \in SUBSET Nat /\ T # {}
  BY <1>1
<1>3. PICK w \in T : \A y \in T : w <= y
  <2> HIDE DEF T
  <2> QED
    BY <1>2, LeastNumber
<1>4. PICK n, h, E : <<n, h, E>> \in Bad /\ w = Weight(n, h)
  OBVIOUS
<1>5. \A m, g, F : <<m, g, F>> \in Bad => ~(Weight(m, g) < Weight(n, h))
  <2> SUFFICES ASSUME NEW m, NEW g, NEW F, <<m, g, F>> \in Bad PROVE ~(Weight(m, g) < Weight(n, h))
    OBVIOUS
  <2>1. Weight(m, g) \in T
    BY <1>1
  <2>2. w <= Weight(m, g) /\ w \in Nat /\ Weight(m, g) \in Nat
    BY <1>3, <2>1
  <2> QED
    BY <1>4, <2>2
<1> QED
  BY <1>4, <1>5

\* A repair makes up for what an insertion did to the left subtree, ...
LEMMA GrowsLeftIs ==
  ASSUME NEW H, NEW X, NEW n, NEW h, NEW b, NEW L, NEW R, RbTrees(H, X), b \in Nat,
         RbOver(n, b, L, R, H, X), ~IsRed(n.right),
         \/ n.flag = RED /\ IsRed(n) /\ h = b /\ ~IsRed(n.left)
         \/ n.flag = BLACK /\ ~IsRed(n) /\ h = b + 1
  PROVE  GrowsLeft(n, h, b, L, R, H, X)
<1> SUFFICES ASSUME NEW t, NEW M, M \in SUBSET X, \A e \in M : e[1] < n.key,
                    Grown(n.left, t, b, M, H, X)
             PROVE  Grown(n, Repair([n EXCEPT !.left = t]), h, EntriesOver(n, M, R), H, X)
  BY DEF GrowsLeft
<1> DEFINE m == [n EXCEPT !.left = t]
<1>1. IsNode(m) /\ Entry(m) = Entry(n) /\ m.flag = n.flag /\ m.left = t /\ m.right = n.right
  BY LeftSet DEF RbOver, Stands
<1> HIDE DEF m
<1>2. Stands(m, M, R, X) /\ EntriesOver(m, M, R) = EntriesOver(n, M, R)
  <2>1. Placed(n, M, R, X)
    BY DEF RbOver, Stands, Placed
  <2>2. Placed(m, M, R, X) /\ EntriesOver(m, M, R) = EntriesOver(n, M, R)
    BY <1>1, <2>1, StandsAs
  <2> QED
    BY <1>1, <2>2 DEF RbOver, Stands
<1>3. CASE <<t, b, M>> \in H
  <2>1. RbOver(m, b, M, R, H, X)
    BY <1>1, <1>2, <1>3 DEF RbOver
  <2>2. CASE n.flag = BLACK /\ h = b + 1
    BY <1>1, <1>2, <2>1, <2>2, RepairBlack DEF Grown, m
  <2>3. CASE n.flag = RED /\ IsRed(n) /\ h = b
    <3>1. ~IsRed(m.right)
      BY <1>1
    <3>2. <<Repair(m), b, EntriesOver(m, M, R)>> \in H \/ Leaning(Repair(m), b,
              EntriesOver(m, M, R), H, X)
      BY <1>1, <2>1, <2>3, <3>1, RepairRed
    <3> QED
      BY <1>2, <2>3, <3>2 DEF Grown, m
  <2> QED
    BY <2>2, <2>3
<1>4. CASE IsRed(n.left) /\ Leaning(t, b, M, H, X)
  <2>1. m.flag = BLACK /\ h = b + 1 /\ <<m.right, b, R>> \in H /\ ~IsRed(m.right) /\ m.left = t
    BY <1>1, <1>4 DEF RbOver
  <2>2. <<Repair(m), b + 1, EntriesOver(m, M, R)>> \in H
    BY <1>2, <1>4, <2>1, RepairLeaning
  <2> QED
    BY <1>2, <2>1, <2>2 DEF Grown, m
<1> QED
  BY <1>3, <1>4 DEF Grown

\* ... and for what it did to the right one.
LEMMA GrowsRightIs ==
  ASSUME NEW H, NEW X, NEW n, NEW h, NEW b, NEW L, NEW R, RbTrees(H, X), b \in Nat,
         RbOver(n, b, L, R, H, X), ~IsRed(n.right),
         \/ n.flag = RED /\ IsRed(n) /\ h = b /\ ~IsRed(n.left)
         \/ n.flag = BLACK /\ ~IsRed(n) /\ h = b + 1
  PROVE  GrowsRight(n, h, b, L, R, H, X)
<1> SUFFICES ASSUME NEW t, NEW M, M \in SUBSET X, \A e \in M : n.key < e[1],
                    Grown(n.right, t, b, M, H, X)
             PROVE  Grown(n, Repair([n EXCEPT !.right = t]), h, EntriesOver(n, L, M), H, X)
  BY DEF GrowsRight
<1> DEFINE m == [n EXCEPT !.right = t]
<1>1. IsNode(m) /\ Entry(m) = Entry(n) /\ m.flag = n.flag /\ m.left = n.left /\ m.right = t
  BY RightSet DEF RbOver, Stands
<1> HIDE DEF m
<1>2. Stands(m, L, M, X) /\ EntriesOver(m, L, M) = EntriesOver(n, L, M)
  <2>1. Placed(n, L, M, X)
    BY DEF RbOver, Stands, Placed
  <2>2. Placed(m, L, M, X) /\ EntriesOver(m, L, M) = EntriesOver(n, L, M)
    BY <1>1, <2>1, StandsAs
  <2> QED
    BY <1>1, <2>2 DEF RbOver, Stands
<1>3. RbOver(m, b, L, M, H, X)
  BY <1>1, <1>2 DEF RbOver, Grown
<1>4. CASE n.flag = BLACK /\ h = b + 1
  BY <1>1, <1>2, <1>3, <1>4, RepairBlack DEF Grown, m
<1>5. CASE n.flag = RED /\ IsRed(n) /\ h = b /\ ~IsRed(n.left)
  <2>1. ~IsRed(m.left)
    BY <1>1, <1>5
  <2>2. <<Repair(m), b, EntriesOver(m, L, M)>> \in H \/ Leaning(Repair(m), b,
            EntriesOver(m, L, M), H, X)
    BY <1>1, <1>3, <1>5, <2>1, RepairRed
  <2> QED
    BY <1>2, <1>5, <2>2 DEF Grown, m
<1> QED
  BY <1>4, <1>5

\* n stays where it is with another value.
Updated(n, h, L, R, H, X) ==
  \A v : <<n.key, v>> \in X
    => LET m == [n EXCEPT !.val = v] IN <<Repair(m), h, EntriesOver(m, L, R)>> \in H

\* A new value leaves nothing to repair.
LEMMA UpdatedIs ==
  ASSUME NEW H, NEW X, NEW n, NEW h, NEW b, NEW L, NEW R, RbTrees(H, X),
         RbOver(n, b, L, R, H, X), Leans(n), h = b + n.flag
  PROVE  Updated(n, h, L, R, H, X)
<1> SUFFICES ASSUME NEW v, <<n.key, v>> \in X
             PROVE  LET m == [n EXCEPT !.val = v] IN <<Repair(m), h, EntriesOver(m, L, R)>> \in H
  BY DEF Updated
<1> DEFINE m == [n EXCEPT !.val = v]
           c == NodeWith(n.key, v, n.flag, n.left, n.right)
<1>1. m = c
  BY SMT DEF RbOver, Stands, IsNode, NodeWith
<1>2. /\ IsNode(c) /\ Entry(c) = <<n.key, v>> /\ c.key = n.key
      /\ c.flag = n.flag /\ c.left = n.left /\ c.right = n.right
  BY NodeFields
<1> HIDE DEF m, c
<1>3. RbOver(m, b, L, R, H, X)
  BY <1>1, <1>2 DEF RbOver, Stands, Placed
<1>4. Leans(m) /\ ~IsRed(m.right) /\ m.flag = n.flag
  <2>1. m # NULL /\ n # NULL
    BY <1>3, Colors DEF RbOver
  <2> QED
    BY <1>1, <1>2, <2>1 DEF Leans, IsRed
<1>5. Repair(m) = m
  BY <1>3, <1>4, RepairRests
<1>6. <<m, b + m.flag, EntriesOver(m, L, R)>> \in H
  BY <1>3, <1>4, RbMake
<1> QED
  BY <1>4, <1>5, <1>6 DEF m

\* The new node at the end of an insertion is a tree without black nodes.
LEMMA RbNewNode ==
  ASSUME NEW H, NEW X, NEW k, NEW v, RbTrees(H, X), <<k, v>> \in X
  PROVE  <<Node(k, v), 0, {<<k, v>>}>> \in H
<1> DEFINE n == NodeWith(k, v, 0, NULL, NULL)
<1>1. Node(k, v) = n
  BY DEF Node, NodeWith
<1>2. /\ IsNode(n) /\ Entry(n) = <<k, v>> /\ n.flag = 0 /\ n.left = NULL /\ n.right = NULL
  BY NodeFields
<1> HIDE DEF n
<1>3. <<NULL, 0, {}>> \in H
  BY DEF RbTrees
<1>4. RbOver(n, 0, {}, {}, H, X) /\ Leans(n)
  BY <1>2, <1>3 DEF RbOver, Stands, Placed, Leans, IsRed, RED
<1>5. <<n, 0 + n.flag, EntriesOver(n, {}, {})>> \in H
  BY <1>4, RbMake
<1>6. 0 + n.flag = 0 /\ EntriesOver(n, {}, {}) = {<<k, v>>}
  BY <1>2 DEF EntriesOver
<1> QED
  BY <1>1, <1>5, <1>6

\* RbInsert is the recursion of the code, in an insertion of k with the value v into each of the
\* trees of H.
RbInserting(H, k, v, alloc) ==
  \A n, h, E : <<n, h, E>> \in H => RbInsert(n, k, v, alloc) = RbInsertStep(n, k, v, alloc)

\* The outcome r of an insertion into the tree n of black height h that holds E
RbInserted(r, n, h, E, k, v, alloc, H, X) ==
  r.ok /\ \E F : Grown(n, r.t, h, F, H, X) /\ Inserted(E, k, v, alloc, F, r.rc)

\* An insertion in the left subtree, ...
LEMMA RbInsertsLeft ==
  ASSUME NEW H, NEW X, NEW n, NEW h, NEW b, NEW L, NEW R, NEW k, NEW v, NEW alloc, NEW r, NEW q,
         RbTrees(H, X), RbOver(n, b, L, R, H, X), <<k, v>> \in X, k < n.key,
         GrowsLeft(n, h, b, L, R, H, X), RbInserted(r, n.left, b, L, k, v, alloc, H, X),
         q = Repaired([n EXCEPT !.left = r.t], r.rc, r.ok)
  PROVE  RbInserted(q, n, h, EntriesOver(n, L, R), k, v, alloc, H, X)
<1>1. PICK M : Grown(n.left, r.t, b, M, H, X) /\ Inserted(L, k, v, alloc, M, r.rc)
  BY DEF RbInserted
<1>2. Placed(n, L, R, X) /\ \A e \in X : e[1] \in Int
  BY DEF RbOver, Stands, RbTrees
<1>3. /\ M \in SUBSET X /\ \A e \in M : e[1] < n.key
      /\ Inserted(EntriesOver(n, L, R), k, v, alloc, EntriesOver(n, M, R), r.rc)
  BY <1>1, <1>2, InsertedLeft
<1>4. Grown(n, Repair([n EXCEPT !.left = r.t]), h, EntriesOver(n, M, R), H, X)
  BY <1>1, <1>3 DEF GrowsLeft
<1>5. q.t = Repair([n EXCEPT !.left = r.t]) /\ q.rc = r.rc /\ q.ok = r.ok
  BY OutcomeHas DEF Repaired
<1> QED
  BY <1>3, <1>4, <1>5 DEF RbInserted

\* ... in the right one, ...
LEMMA RbInsertsRight ==
  ASSUME NEW H, NEW X, NEW n, NEW h, NEW b, NEW L, NEW R, NEW k, NEW v, NEW alloc, NEW r, NEW q,
         RbTrees(H, X), RbOver(n, b, L, R, H, X), <<k, v>> \in X, k > n.key,
         GrowsRight(n, h, b, L, R, H, X), RbInserted(r, n.right, b, R, k, v, alloc, H, X),
         q = Repaired([n EXCEPT !.right = r.t], r.rc, r.ok)
  PROVE  RbInserted(q, n, h, EntriesOver(n, L, R), k, v, alloc, H, X)
<1>1. PICK M : Grown(n.right, r.t, b, M, H, X) /\ Inserted(R, k, v, alloc, M, r.rc)
  BY DEF RbInserted
<1>2. Placed(n, L, R, X) /\ \A e \in X : e[1] \in Int
  BY DEF RbOver, Stands, RbTrees
<1>3. /\ M \in SUBSET X /\ \A e \in M : n.key < e[1]
      /\ Inserted(EntriesOver(n, L, R), k, v, alloc, EntriesOver(n, L, M), r.rc)
  BY <1>1, <1>2, InsertedRight
<1>4. Grown(n, Repair([n EXCEPT !.right = r.t]), h, EntriesOver(n, L, M), H, X)
  BY <1>1, <1>3 DEF GrowsRight
<1>5. q.t = Repair([n EXCEPT !.right = r.t]) /\ q.rc = r.rc /\ q.ok = r.ok
  BY OutcomeHas DEF Repaired
<1> QED
  BY <1>3, <1>4, <1>5 DEF RbInserted

\* ... at the node, ...
LEMMA RbInsertsHere ==
  ASSUME NEW H, NEW X, NEW n, NEW h, NEW b, NEW L, NEW R, NEW v, NEW alloc, NEW q,
         RbTrees(H, X), RbOver(n, b, L, R, H, X), ~IsRed(n.right), <<n.key, v>> \in X,
         <<n, h, EntriesOver(n, L, R)>> \in H, Updated(n, h, L, R, H, X),
         q = Repaired(SetValue(n, v), 0, TRUE)
  PROVE  RbInserted(q, n, h, EntriesOver(n, L, R), n.key, v, alloc, H, X)
<1>1. Placed(n, L, R, X) /\ (\A e \in X : e[1] \in Int) /\ IsNode(n)
  BY DEF RbOver, Stands, RbTrees
<1>2. q.t = Repair(SetValue(n, v)) /\ q.rc = 0 /\ q.ok
  BY DEF Repaired, Outcome
<1>3. CASE v = NULL
  <2>1. SetValue(n, v) = n
    BY <1>3 DEF SetValue
  <2>2. Repair(n) = n
    BY RepairRests
  <2>3. Inserted(EntriesOver(n, L, R), n.key, v, alloc, EntriesOver(n, L, R), 0)
    BY <1>1, <1>3, InsertedHere
  <2> QED
    BY <1>2, <2>1, <2>2, <2>3 DEF RbInserted, Grown
<1>4. CASE v # NULL
  <2> DEFINE m == [n EXCEPT !.val = v]
  <2>1. SetValue(n, v) = m
    BY <1>4 DEF SetValue
  <2>2. m = NodeWith(n.key, v, n.flag, n.left, n.right)
    BY <1>1, SMT DEF IsNode, NodeWith
  <2>3. Entry(m) = <<n.key, v>>
    BY <2>2, NodeFields
  <2>4. <<Repair(m), h, EntriesOver(m, L, R)>> \in H
    BY DEF Updated
  <2> HIDE DEF m
  <2>5. Inserted(EntriesOver(n, L, R), n.key, v, alloc, EntriesOver(m, L, R), 0)
    BY <1>1, <1>4, <2>3, InsertedHere
  <2> QED
    BY <1>2, <2>1, <2>4, <2>5 DEF RbInserted, Grown
<1> QED
  BY <1>3, <1>4

\* ... and into the empty tree.
LEMMA RbInsertsFirst ==
  ASSUME NEW H, NEW X, NEW k, NEW v, NEW alloc \in BOOLEAN, RbTrees(H, X), <<k, v>> \in X
  PROVE  RbInserted(NewNode(k, v, alloc), NULL, 0, {}, k, v, alloc, H, X)
<1>1. CASE alloc
  <2>1. LET r == NewNode(k, v, alloc) IN r.t = Node(k, v) /\ r.rc = 1 /\ r.ok
    BY <1>1 DEF NewNode, Outcome
  <2>2. Inserted({}, k, v, alloc, {<<k, v>>}, 1)
    BY <1>1 DEF Inserted
  <2>3. Grown(NULL, Node(k, v), 0, {<<k, v>>}, H, X)
    BY RbNewNode DEF Grown
  <2> QED
    BY <2>1, <2>2, <2>3 DEF RbInserted
<1>2. CASE ~alloc
  <2>1. LET r == NewNode(k, v, alloc) IN r.t = NULL /\ r.rc = -1 /\ r.ok
    BY <1>2 DEF NewNode, Result, Outcome
  <2>2. Inserted({}, k, v, alloc, {}, -1)
    BY <1>2 DEF Inserted
  <2>3. Grown(NULL, NULL, 0, {}, H, X)
    BY DEF Grown, RbTrees
  <2> QED
    BY <2>1, <2>2, <2>3 DEF RbInserted
<1> QED
  BY <1>1, <1>2

\* rb_n_insert as a whole: into a left-leaning tree it brings the new entry, the new value
\* or, without memory, nothing new, and what it leaves has the same black height and is a
\* tree again, but for a red root over a red child where the root was red (rb.c:79-115).
THEOREM RbInsertSound ==
  ASSUME NEW H, NEW X, NEW k, NEW v, NEW alloc \in BOOLEAN,
         RbTrees(H, X), Comparable(k, X), <<k, v>> \in X, RbInserting(H, k, v, alloc)
  PROVE  \A n, h, E : <<n, h, E>> \in H
      => RbInserted(RbInsert(n, k, v, alloc), n, h, E, k, v, alloc, H, X)
<1> DEFINE Bad ==
      {b \in H : \E n, h, E :
         b = <<n, h, E>> /\ ~RbInserted(RbInsert(n, k, v, alloc), n, h, E, k, v, alloc, H, X)}
<1>1. \A n, h, E : <<n, h, E>> \in Bad
                     <=> <<n, h, E>> \in H
                         /\ ~RbInserted(RbInsert(n, k, v, alloc), n, h, E, k, v, alloc, H, X)
  OBVIOUS
<1>2. Bad \in SUBSET H
  OBVIOUS
<1> HIDE DEF Bad
<1> SUFFICES ASSUME \E n, h, E : <<n, h, E>> \in Bad
             PROVE  FALSE
  BY <1>1
<1>3. PICK n, h, E : /\ <<n, h, E>> \in Bad /\ <<n, h, E>> \in H
                     /\ \A m, g, F : <<m, g, F>> \in Bad => ~(Weight(m, g) < Weight(n, h))
  BY <1>2, RbLightest
<1>4. \A m, g, F : <<m, g, F>> \in H /\ Weight(m, g) < Weight(n, h)
                     => RbInserted(RbInsert(m, k, v, alloc), m, g, F, k, v, alloc, H, X)
  BY <1>1, <1>3
<1>5. RbInsert(n, k, v, alloc) = RbInsertStep(n, k, v, alloc)
  BY <1>3 DEF RbInserting
<1>6. CASE n = NULL
  <2>1. RbInsert(n, k, v, alloc) = NewNode(k, v, alloc)
    BY <1>5, <1>6 DEF RbInsertStep
  <2>2. h = 0 /\ E = {}
    BY <1>3, <1>6 DEF RbTrees, RbRoot, RbOver, Stands
  <2>3. RbInserted(RbInsert(n, k, v, alloc), n, h, E, k, v, alloc, H, X)
    BY <1>6, <2>1, <2>2, RbInsertsFirst
  <2> QED
    BY <1>1, <1>3, <2>3
<1>7. CASE n # NULL
  <2>1. PICK b, L, R :
           /\ b \in Nat /\ RbOver(n, b, L, R, H, X) /\ E = EntriesOver(n, L, R) /\ ~IsRed(n.right)
           /\ \/ n.flag = RED /\ IsRed(n) /\ h = b /\ ~IsRed(n.left)
              \/ n.flag = BLACK /\ ~IsRed(n) /\ h = b + 1
    BY <1>3, <1>7, RbTop
  <2>2. GrowsLeft(n, h, b, L, R, H, X) /\ GrowsRight(n, h, b, L, R, H, X)
    BY <2>1, GrowsLeftIs, GrowsRightIs
  <2>3. Updated(n, h, L, R, H, X)
    <3>1. Leans(n) /\ h = b + n.flag
      BY <2>1 DEF Leans, RED, BLACK
    <3> QED
      BY <2>1, <3>1, UpdatedIs
  <2>4. Weight(n.left, b) < Weight(n, h) /\ Weight(n.right, b) < Weight(n, h)
    BY <2>1, RbLighter
  <2>5. <<n.left, b, L>> \in H /\ <<n.right, b, R>> \in H
    BY <2>1 DEF RbOver
  <2>6. /\ Compare(k, n.key) < 0 <=> k < n.key
        /\ Compare(k, n.key) > 0 <=> k > n.key
        /\ k \in Int /\ n.key \in Int
    <3>1. Entry(n) \in X /\ Entry(n)[1] = n.key /\ <<k, v>>[1] = k
      BY <2>1 DEF RbOver, Stands, Placed, Entry
    <3> QED
      BY <3>1 DEF Comparable, RbTrees
  <2>7. CASE k < n.key
    <3>1. RbInsert(n, k, v, alloc)
            = Repaired([n EXCEPT !.left = RbInsert(n.left, k, v, alloc).t],
                       RbInsert(n.left, k, v, alloc).rc, RbInsert(n.left, k, v, alloc).ok)
      <4>1. Compare(k, n.key) < 0 /\ ~(Compare(k, n.key) > 0)
        BY <2>6, <2>7
      <4> QED
        BY <1>5, <1>7, <4>1, Zenon DEF RbInsertStep
    <3>2. RbInserted(RbInsert(n.left, k, v, alloc), n.left, b, L, k, v, alloc, H, X)
      BY <1>4, <2>4, <2>5
    <3>3. RbInserted(RbInsert(n, k, v, alloc), n, h, E, k, v, alloc, H, X)
      BY <2>1, <2>2, <2>7, <3>1, <3>2, RbInsertsLeft
    <3> QED
      BY <1>1, <1>3, <3>3
  <2>8. CASE k > n.key
    <3>1. RbInsert(n, k, v, alloc)
            = Repaired([n EXCEPT !.right = RbInsert(n.right, k, v, alloc).t],
                       RbInsert(n.right, k, v, alloc).rc, RbInsert(n.right, k, v, alloc).ok)
      <4>1. Compare(k, n.key) > 0 /\ ~(Compare(k, n.key) < 0)
        BY <2>6, <2>8
      <4> QED
        BY <1>5, <1>7, <4>1, Zenon DEF RbInsertStep
    <3>2. RbInserted(RbInsert(n.right, k, v, alloc), n.right, b, R, k, v, alloc, H, X)
      BY <1>4, <2>4, <2>5
    <3>3. RbInserted(RbInsert(n, k, v, alloc), n, h, E, k, v, alloc, H, X)
      BY <2>1, <2>2, <2>8, <3>1, <3>2, RbInsertsRight
    <3> QED
      BY <1>1, <1>3, <3>3
  <2>9. CASE k = n.key
    <3>1. RbInsert(n, k, v, alloc) = Repaired(SetValue(n, v), 0, TRUE)
      <4>1. ~(Compare(k, n.key) < 0) /\ ~(Compare(k, n.key) > 0)
        BY <2>6, <2>9
      <4> QED
        BY <1>5, <1>7, <4>1, Zenon DEF RbInsertStep
    <3>2. RbInserted(RbInsert(n, k, v, alloc), n, h, E, n.key, v, alloc, H, X)
      BY <1>3, <2>1, <2>3, <2>9, <3>1, RbInsertsHere
    <3> QED
      BY <1>1, <1>3, <2>9, <3>2
  <2> QED
    BY <2>6, <2>7, <2>8, <2>9
<1> QED
  BY <1>6, <1>7

\* A root made black is the root of a tree that holds the same, of the same black
\* height or one more (bst.c:465, 496, 530).
THEOREM RbBlackened ==
  ASSUME NEW H, NEW X, NEW t, NEW h, NEW E, RbTrees(H, X), t # NULL,
         <<t, h, E>> \in H \/ Leaning(t, h, E, H, X)
  PROVE  LET m == [t EXCEPT !.flag = BLACK]
         IN  ~IsRed(m) /\ <<m, IF IsRed(t) THEN h + 1 ELSE h, E>> \in H
<1> DEFINE m == [t EXCEPT !.flag = BLACK]
           c == NodeWith(t.key, t.val, BLACK, t.left, t.right)
<1>1. PICK b, L, R : /\ RbOver(t, b, L, R, H, X) /\ E = EntriesOver(t, L, R) /\ ~IsRed(t.right)
                     /\ (IF IsRed(t) THEN h + 1 ELSE h) = b + 1
  <2>1. CASE <<t, h, E>> \in H
    BY <2>1, RbTop
  <2>2. CASE Leaning(t, h, E, H, X)
    BY <2>2, Colors DEF Leaning, RbOver
  <2> QED
    BY <2>1, <2>2
<1>2. m = c
  BY <1>1, SMT DEF RbOver, Stands, IsNode, NodeWith
<1>3. /\ IsNode(c) /\ Entry(c) = <<t.key, t.val>>
      /\ c.flag = BLACK /\ c.left = t.left /\ c.right = t.right
  BY NodeFields
<1> HIDE DEF m, c
<1>4. Entry(m) = Entry(t) /\ m.flag = BLACK
  BY <1>2, <1>3 DEF Entry
<1>5. Placed(m, L, R, X) /\ EntriesOver(m, L, R) = E
  BY <1>1, <1>4, StandsAs DEF RbOver, Stands
<1>6. RbOver(m, b, L, R, H, X)
  BY <1>1, <1>2, <1>3, <1>5 DEF RbOver, Stands
<1>7. ~IsRed(m) /\ Leans(m)
  BY <1>1, <1>2, <1>3 DEF Leans, IsRed, RED, BLACK
<1>8. <<m, b + m.flag, EntriesOver(m, L, R)>> \in H
  BY <1>6, <1>7, RbMake
<1> QED
  BY <1>1, <1>4, <1>5, <1>7, <1>8 DEF m, BLACK

-----------------------------------------------------------------------------
(* Removal from red-black trees.                                           *)

\* A black child that is no 2-node, or a red one
NotTwo(n) == IsRed(n) \/ IsRed(n.left)

\* Nodes to borrow from stand where the code asserts them.
LEMMA MayBorrow ==
  ASSUME NEW H, NEW X, NEW b, NEW L, NEW R, NEW l, NEW r, RbTrees(H, X), b \in Nat,
         <<l, b, L>> \in H, <<r, b, R>> \in H, l # NULL, ~IsRed(l)
  PROVE  r # NULL
<1>1. PICK c, A, B : /\ c \in Nat /\ RbOver(l, c, A, B, H, X) /\ L = EntriesOver(l, A, B)
                     /\ b = c + 1 /\ l.flag = BLACK /\ ~IsRed(l.right)
  BY RbTakeBlack
<1>2. b # 0
  BY <1>1
<1> QED
  BY <1>2, RbTake

\* m, made of n for a removal on the left, hands down M of L there, which n holds
\* below its own key: colors were flipped, or a node borrowed from the right.
BorrowedLeft(m, n, b, L, R, H, X) ==
  \/ /\ RbOver(m, b, L, R, H, X) /\ EntriesOver(m, L, R) = EntriesOver(n, L, R)
     /\ m.flag = 1 - n.flag /\ IsRed(m.left) /\ IsRed(m.right)
  \/ /\ m.flag = n.flag /\ ~IsRed(m.left) /\ ~IsRed(m.right) /\ IsRed(m.left.left) /\ m.left # NULL
     /\ \E A, B : /\ RbOver(m, b + 1, A, B, H, X) /\ EntriesOver(m, A, B) = EntriesOver(n, L, R)
                  /\ L \in SUBSET A

\* The assertions of a move to the left hold, and the left child is no 2-node after it
\* (rb.c:118-134).
LEMMA BorrowsLeft ==
  ASSUME NEW H, NEW X, NEW n, NEW h, NEW L, NEW R, RbTrees(H, X), RbOver(n, h, L, R, H, X),
         IsTwoNode(n.left), ~IsRed(n.right)
  PROVE  MayMoveRed(n) /\ \E b \in Nat : h = b + 1 /\ BorrowedLeft(MoveRedLeft(n), n, b, L, R, H, X)
<1> DEFINE f == ColorFlip(n)
<1>1. n.right # NULL /\ n.left # NULL /\ ~IsRed(n.left) /\ ~IsRed(n.left.left)
  BY MayBorrow DEF RbOver, IsTwoNode
<1>2. PICK b, A, B :
           /\ b \in Nat
           /\ RbOver(n.left, b, A, B, H, X) /\ L = EntriesOver(n.left, A, B)
           /\ h = b + 1 /\ n.left.flag = BLACK /\ ~IsRed(n.left.right)
  <2>1. <<n.left, h, L>> \in H
    BY DEF RbOver
  <2> QED
    BY <1>1, <2>1, RbTakeBlack
<1>3. PICK c, C, D :
           /\ c \in Nat
           /\ RbOver(n.right, c, C, D, H, X) /\ R = EntriesOver(n.right, C, D)
           /\ h = c + 1 /\ n.right.flag = BLACK /\ ~IsRed(n.right.right)
  <2>1. <<n.right, h, R>> \in H
    BY DEF RbOver
  <2> QED
    BY <1>1, <2>1, RbTakeBlack
<1>4. c = b
  BY <1>2, <1>3
<1>5. /\ Stands(n, EntriesOver(n.left, A, B), EntriesOver(n.right, C, D), X)
      /\ Stands(n.left, A, B, X) /\ Stands(n.right, C, D, X)
  BY <1>2, <1>3 DEF RbOver
<1>6. /\ Stands(f, EntriesOver(f.left, A, B), EntriesOver(f.right, C, D), X)
      /\ Stands(f.left, A, B, X) /\ Stands(f.right, C, D, X)
      /\ EntriesOver(f.left, A, B) = L /\ EntriesOver(f.right, C, D) = R
      /\ EntriesOver(f, L, R) = EntriesOver(n, L, R)
      /\ f.flag = 1 - n.flag /\ f.left.flag = RED /\ f.right.flag = RED
      /\ f.left.left = n.left.left /\ f.left.right = n.left.right
      /\ f.right.left = n.right.left /\ f.right.right = n.right.right
  BY <1>2, <1>3, <1>5, Flips DEF RED, BLACK
<1> HIDE DEF f
<1>7. IsRed(f.left) /\ IsRed(f.right) /\ IsNode(f)
  BY <1>6, Colors DEF Stands
<1>8. <<f.left, b, L>> \in H
  <2>1. RbOver(f.left, b, A, B, H, X) /\ Leans(f.left)
    BY <1>1, <1>2, <1>6 DEF RbOver, Leans
  <2>2. <<f.left, b + f.left.flag, EntriesOver(f.left, A, B)>> \in H
    BY <2>1, RbMake
  <2>3. b + f.left.flag = b
    BY <1>2, <1>6 DEF RED
  <2> QED
    BY <1>6, <2>2, <2>3
<1>9. CASE ~IsRed(f.right.left)
  <2>1. RbOver(f.right, b, C, D, H, X) /\ Leans(f.right)
    BY <1>3, <1>4, <1>6, <1>9 DEF RbOver, Leans
  <2>2. <<f.right, b + f.right.flag, EntriesOver(f.right, C, D)>> \in H
    BY <2>1, RbMake
  <2>3. b + f.right.flag = b
    BY <1>2, <1>6 DEF RED
  <2>4. RbOver(f, b, L, R, H, X)
    BY <1>2, <1>6, <1>8, <2>2, <2>3 DEF RbOver
  <2>5. MoveRedLeft(n) = f
    BY <1>9 DEF MoveRedLeft, f
  <2> QED
    BY <1>1, <1>2, <1>6, <1>7, <2>4, <2>5 DEF BorrowedLeft, MayMoveRed
<1>10. CASE IsRed(f.right.left)
  <2>1. PICK P, Q : /\ RbOver(f.right.left, b, P, Q, H, X) /\ C = EntriesOver(f.right.left, P, Q)
                    /\ ~IsRed(f.right.left.left) /\ ~IsRed(f.right.left.right)
    <3>1. <<f.right.left, b, C>> \in H
      BY <1>3, <1>4, <1>6 DEF RbOver
    <3> QED
      BY <1>10, <3>1, RbTakeRed
  <2> DEFINE r == RotateRight(f.right)
             g == [f EXCEPT !.right = RotateRight(@)]
             y == RotateLeft(g)
             m == ColorFlip(y)
  <2>2. /\ Stands(r, P, EntriesOver(r.right, Q, D), X) /\ Stands(r.right, Q, D, X)
        /\ EntriesOver(r, P, EntriesOver(r.right, Q, D)) = R
        /\ r.flag = RED /\ r.right.flag = RED
        /\ r.left = f.right.left.left /\ r.right.left = f.right.left.right
        /\ r.right.right = f.right.right
    <3>1. /\ Stands(f.right, EntriesOver(f.right.left, P, Q), D, X)
          /\ Stands(f.right.left, P, Q, X) /\ \A e \in X : e[1] \in Int
      BY <1>6, <2>1 DEF RbOver, RbTrees
    <3>2. EntriesOver(f.right, EntriesOver(f.right.left, P, Q), D) = R /\ f.right.flag = RED
      BY <1>6, <2>1
    <3> QED
      BY <3>1, <3>2, TurnsRight, SMTT(30)
  <2>3. IsNode(g) /\ Entry(g) = Entry(f) /\ g.flag = f.flag /\ g.left = f.left /\ g.right = r
    <3>1. g = [f EXCEPT !.right = r]
      OBVIOUS
    <3> HIDE DEF g, r
    <3> QED
      BY <1>7, <3>1, RightSet
  <2> HIDE DEF g, r
  <2>4. Stands(g, L, R, X) /\ EntriesOver(g, L, R) = EntriesOver(n, L, R)
    <3>1. Placed(f, L, R, X) /\ f.flag \in {RED, BLACK}
      BY <1>6 DEF Stands
    <3>2. Placed(g, L, R, X) /\ EntriesOver(g, L, R) = EntriesOver(f, L, R)
      BY <2>3, <3>1, StandsAs
    <3> QED
      BY <1>6, <2>3, <3>1, <3>2 DEF Stands
  <2>5. /\ Stands(y, EntriesOver(y.left, L, P), EntriesOver(r.right, Q, D), X)
        /\ Stands(y.left, L, P, X)
        /\ EntriesOver(y, EntriesOver(y.left, L, P), EntriesOver(r.right, Q, D))
             = EntriesOver(n, L, R)
        /\ y.flag = f.flag /\ y.left.flag = RED
        /\ y.left.left = f.left /\ y.left.right = r.left /\ y.right = r.right
    <3>1. /\ Stands(g, L, EntriesOver(g.right, P, EntriesOver(r.right, Q, D)), X)
          /\ Stands(g.right, P, EntriesOver(r.right, Q, D), X) /\ \A e \in X : e[1] \in Int
      BY <2>2, <2>3, <2>4 DEF RbTrees
    <3> QED
      BY <2>2, <2>3, <2>4, <3>1, TurnsLeft
  <2> HIDE DEF y
  <2>6. /\ Stands(m, EntriesOver(m.left, L, P), EntriesOver(m.right, Q, D), X)
        /\ Stands(m.left, L, P, X) /\ Stands(m.right, Q, D, X)
        /\ EntriesOver(m, EntriesOver(m.left, L, P), EntriesOver(m.right, Q, D))
             = EntriesOver(n, L, R)
        /\ m.flag = 1 - y.flag /\ m.left.flag = BLACK /\ m.right.flag = BLACK
        /\ m.left.left = f.left /\ m.left.right = r.left
        /\ m.right.left = r.right.left /\ m.right.right = r.right.right
    <3>1. /\ Stands(y, EntriesOver(y.left, L, P), EntriesOver(y.right, Q, D), X)
          /\ Stands(y.left, L, P, X) /\ Stands(y.right, Q, D, X)
      BY <2>2, <2>5
    <3>2. y.right.flag = RED
      BY <2>2, <2>5
    <3> QED
      BY <2>2, <2>5, <3>1, <3>2, Flips DEF RED, BLACK
  <2> HIDE DEF m
  <2>7. m.flag = n.flag
    BY <1>6, <2>5, <2>6 DEF RbOver, Stands, RED, BLACK
  <2>8. ~IsRed(m.left) /\ ~IsRed(m.right) /\ IsRed(m.left.left) /\ m.left # NULL
    BY <1>7, <2>6, Colors DEF RED, BLACK
  <2>9. <<m.left, b + 1, EntriesOver(m.left, L, P)>> \in H
    <3>1. ~IsRed(m.left.right) /\ <<m.left.right, b, P>> \in H
      BY <2>1, <2>2, <2>6 DEF RbOver
    <3>2. RbOver(m.left, b, L, P, H, X) /\ Leans(m.left)
      BY <1>2, <1>8, <2>6, <2>8, <3>1 DEF RbOver, Leans
    <3>3. <<m.left, b + m.left.flag, EntriesOver(m.left, L, P)>> \in H
      BY <3>2, RbMake
    <3> QED
      BY <2>6, <3>3 DEF BLACK
  <2>10. <<m.right, b + 1, EntriesOver(m.right, Q, D)>> \in H
    <3>1. /\ ~IsRed(m.right.right) /\ <<m.right.right, b, D>> \in H
          /\ <<m.right.left, b, Q>> \in H
      BY <1>3, <1>4, <1>6, <2>1, <2>2, <2>6 DEF RbOver
    <3>2. RbOver(m.right, b, Q, D, H, X) /\ Leans(m.right)
      BY <1>2, <2>6, <2>8, <3>1 DEF RbOver, Leans
    <3>3. <<m.right, b + m.right.flag, EntriesOver(m.right, Q, D)>> \in H
      BY <3>2, RbMake
    <3> QED
      BY <2>6, <3>3 DEF BLACK
  <2>11. RbOver(m, b + 1, EntriesOver(m.left, L, P), EntriesOver(m.right, Q, D), H, X)
    BY <1>2, <2>6, <2>9, <2>10 DEF RbOver
  <2>12. L \in SUBSET EntriesOver(m.left, L, P)
    BY DEF EntriesOver
  <2>13. MoveRedLeft(n) = m
    BY <1>10 DEF MoveRedLeft, f, g, y, m
  <2>14. BorrowedLeft(m, n, b, L, R, H, X)
    BY <2>6, <2>7, <2>8, <2>11, <2>12 DEF BorrowedLeft
  <2> QED
    BY <1>1, <1>2, <1>6, <1>9, <2>13, <2>14 DEF MayMoveRed
<1> QED
  BY <1>9, <1>10

\* m, made of n for a removal on the right: colors were flipped, or a node borrowed
\* from the left, which puts n below m, black and with a red child to its right.
BorrowedRight(m, n, b, L, R, H, X) ==
  \/ /\ RbOver(m, b, L, R, H, X) /\ EntriesOver(m, L, R) = EntriesOver(n, L, R)
     /\ Entry(m) = Entry(n)
     /\ m.flag = 1 - n.flag /\ IsRed(m.left) /\ IsRed(m.right)
  \/ /\ m.flag = n.flag /\ ~IsRed(m.left)
     /\ m.right.flag = BLACK /\ IsRed(m.right.right) /\ ~IsRed(m.right.left)
     /\ Entry(m.right) = Entry(n)
     /\ \E A, B, C : /\ Stands(m, A, EntriesOver(m.right, B, C), X) /\ <<m.left, b + 1, A>> \in H
                     /\ RbOver(m.right, b, B, C, H, X)
                     /\ EntriesOver(m, A, EntriesOver(m.right, B, C)) = EntriesOver(n, L, R)

\* The assertions of a move to the right hold, and the right child is no 2-node after
\* it (rb.c:136-147).
LEMMA BorrowsRight ==
  ASSUME NEW H, NEW X, NEW n, NEW h, NEW L, NEW R, RbTrees(H, X), RbOver(n, h, L, R, H, X),
         IsTwoNode(n.right), ~IsRed(n.left)
  PROVE  /\ MayMoveRed(n)
         /\ \E b \in Nat : h = b + 1 /\ BorrowedRight(MoveRedRight(n), n, b, L, R, H, X)
<1> DEFINE f == ColorFlip(n)
<1>1. n.right # NULL /\ n.left # NULL /\ ~IsRed(n.right) /\ ~IsRed(n.right.left)
  BY MayBorrow DEF RbOver, IsTwoNode
<1>2. PICK b, A, B :
           /\ b \in Nat
           /\ RbOver(n.left, b, A, B, H, X) /\ L = EntriesOver(n.left, A, B)
           /\ h = b + 1 /\ n.left.flag = BLACK /\ ~IsRed(n.left.right)
  <2>1. <<n.left, h, L>> \in H
    BY DEF RbOver
  <2> QED
    BY <1>1, <2>1, RbTakeBlack
<1>3. PICK c, C, D :
           /\ c \in Nat
           /\ RbOver(n.right, c, C, D, H, X) /\ R = EntriesOver(n.right, C, D)
           /\ h = c + 1 /\ n.right.flag = BLACK /\ ~IsRed(n.right.right)
  <2>1. <<n.right, h, R>> \in H
    BY DEF RbOver
  <2> QED
    BY <1>1, <2>1, RbTakeBlack
<1>4. c = b
  BY <1>2, <1>3
<1>5. /\ Stands(n, EntriesOver(n.left, A, B), EntriesOver(n.right, C, D), X)
      /\ Stands(n.left, A, B, X) /\ Stands(n.right, C, D, X)
  BY <1>2, <1>3 DEF RbOver
<1>6. /\ Stands(f, EntriesOver(f.left, A, B), EntriesOver(f.right, C, D), X)
      /\ Stands(f.left, A, B, X) /\ Stands(f.right, C, D, X)
      /\ EntriesOver(f.left, A, B) = L /\ EntriesOver(f.right, C, D) = R
      /\ EntriesOver(f, L, R) = EntriesOver(n, L, R)
      /\ f.flag = 1 - n.flag /\ f.left.flag = RED /\ f.right.flag = RED
      /\ f.left.left = n.left.left /\ f.left.right = n.left.right
      /\ f.right.left = n.right.left /\ f.right.right = n.right.right
  <2>1. n.left.flag = BLACK /\ n.right.flag = BLACK /\ 1 - BLACK = RED
    BY <1>2, <1>3 DEF RED, BLACK
  <2>2. EntriesOver(n.left, A, B) = L /\ EntriesOver(n.right, C, D) = R
    BY <1>2, <1>3
  <2> QED
    BY <1>5, <2>1, <2>2, Flips
<1>7. Entry(f) = Entry(n)
  <2>1. f = NodeWith(n.key, n.val, 1 - n.flag, Flipped(n.left), Flipped(n.right))
    BY <1>5, ColorFlipIs DEF Stands
  <2> HIDE DEF f
  <2> QED
    BY <2>1, NodeFields DEF Entry
<1> HIDE DEF f
<1>8. IsRed(f.left) /\ IsRed(f.right)
  BY <1>6, Colors
<1>9. <<f.right, b, R>> \in H
  <2>1. RbOver(f.right, b, C, D, H, X) /\ Leans(f.right)
    BY <1>1, <1>3, <1>4, <1>6 DEF RbOver, Leans
  <2>2. <<f.right, b + f.right.flag, EntriesOver(f.right, C, D)>> \in H
    BY <2>1, RbMake
  <2>3. b + f.right.flag = b
    BY <1>2, <1>6 DEF RED
  <2> QED
    BY <1>6, <2>2, <2>3
<1>10. CASE ~IsRed(f.left.left)
  <2>1. RbOver(f.left, b, A, B, H, X) /\ Leans(f.left)
    BY <1>2, <1>6, <1>10 DEF RbOver, Leans
  <2>2. <<f.left, b + f.left.flag, EntriesOver(f.left, A, B)>> \in H
    BY <2>1, RbMake
  <2>3. b + f.left.flag = b
    BY <1>2, <1>6 DEF RED
  <2>4. RbOver(f, b, L, R, H, X)
    BY <1>2, <1>6, <1>9, <2>2, <2>3 DEF RbOver
  <2>5. MoveRedRight(n) = f
    BY <1>10 DEF MoveRedRight, f
  <2> QED
    BY <1>1, <1>2, <1>6, <1>7, <1>8, <2>4, <2>5 DEF BorrowedRight, MayMoveRed
<1>11. CASE IsRed(f.left.left)
  <2> DEFINE y == RotateRight(f)
             m == ColorFlip(y)
  <2>1. PICK P, Q : /\ RbOver(f.left.left, b, P, Q, H, X) /\ A = EntriesOver(f.left.left, P, Q)
                    /\ ~IsRed(f.left.left.left) /\ ~IsRed(f.left.left.right)
    <3>1. <<f.left.left, b, A>> \in H
      BY <1>2, <1>6 DEF RbOver
    <3> QED
      BY <1>11, <3>1, RbTakeRed
  <2>2. /\ Stands(y, A, EntriesOver(y.right, B, R), X) /\ Stands(y.right, B, R, X)
        /\ EntriesOver(y, A, EntriesOver(y.right, B, R)) = EntriesOver(n, L, R)
        /\ Entry(y.right) = Entry(f) /\ y.flag = f.flag /\ y.right.flag = RED
        /\ y.left = f.left.left /\ y.right.left = f.left.right /\ y.right.right = f.right
    <3>1. /\ Stands(f, EntriesOver(f.left, A, B), R, X) /\ Stands(f.left, A, B, X)
          /\ \A e \in X : e[1] \in Int
      BY <1>6 DEF RbTrees
    <3>2. EntriesOver(f, EntriesOver(f.left, A, B), R) = EntriesOver(n, L, R)
      BY <1>6
    <3> QED
      BY <3>1, <3>2, TurnsRight
  <2> HIDE DEF y
  <2>3. y.left.flag = RED
    BY <1>11, <2>2 DEF IsRed
  <2>4. /\ Stands(m, EntriesOver(m.left, P, Q), EntriesOver(m.right, B, R), X)
        /\ Stands(m.left, P, Q, X) /\ Stands(m.right, B, R, X)
        /\ EntriesOver(m.left, P, Q) = A /\ EntriesOver(m.right, B, R) = EntriesOver(y.right, B, R)
        /\ EntriesOver(m, A, EntriesOver(m.right, B, R)) = EntriesOver(n, L, R)
        /\ Entry(m.right) = Entry(n)
        /\ m.flag = 1 - y.flag /\ m.left.flag = BLACK /\ m.right.flag = BLACK
        /\ m.left.left = y.left.left /\ m.left.right = y.left.right
        /\ m.right.left = y.right.left /\ m.right.right = y.right.right
    <3>1. A = EntriesOver(y.left, P, Q) /\ Stands(y.left, P, Q, X)
      BY <2>1, <2>2 DEF RbOver
    <3>2. /\ Stands(y, EntriesOver(y.left, P, Q), EntriesOver(y.right, B, R), X)
          /\ Stands(y.right, B, R, X)
      BY <2>2, <3>1
    <3> QED
      BY <1>7, <2>2, <2>3, <3>1, <3>2, Flips DEF RED, BLACK
  <2> HIDE DEF m
  <2>5. m.flag = n.flag
    BY <1>6, <2>2, <2>4 DEF RbOver, Stands, RED, BLACK
  <2>6. ~IsRed(m.left) /\ IsRed(m.right.right) /\ ~IsRed(m.right.left)
    BY <1>2, <1>6, <1>8, <2>2, <2>4, Colors DEF RED, BLACK
  <2>7. <<m.left, b + 1, A>> \in H
    <3>1. RbOver(m.left, b, P, Q, H, X) /\ Leans(m.left)
      BY <2>1, <2>2, <2>4, <2>6 DEF RbOver, Leans
    <3>2. <<m.left, b + m.left.flag, EntriesOver(m.left, P, Q)>> \in H
      BY <3>1, RbMake
    <3> QED
      BY <2>4, <3>2 DEF BLACK
  <2>8. RbOver(m.right, b, B, R, H, X)
    BY <1>2, <1>6, <1>9, <2>2, <2>4 DEF RbOver
  <2>9. Stands(m, A, EntriesOver(m.right, B, R), X)
    BY <2>4
  <2>10. MoveRedRight(n) = m
    BY <1>11 DEF MoveRedRight, f, y, m
  <2>11. BorrowedRight(m, n, b, L, R, H, X)
    BY <2>4, <2>5, <2>6, <2>7, <2>8, <2>9 DEF BorrowedRight
  <2> QED
    BY <1>1, <1>2, <2>10, <2>11 DEF MayMoveRed
<1> QED
  BY <1>10, <1>11

\* What a removal below was may leave: a tree of the same black height that holds E
\* and is red only if was is.
Shrunk(was, t, h, E, H) == <<t, h, E>> \in H /\ (IsRed(t) => IsRed(was))

\* A 2-node and its children
NoneRed(n) == ~IsRed(n) /\ ~IsRed(n.left) /\ ~IsRed(n.right)

\* At a 2-node, which only the root may be, the black height may fall by one once
\* the root is made black.
Settled(n, t, h, E, H, X) ==
  Shrunk(n, t, h, E, H) \/ (NoneRed(n) /\ Leaning(t, h - 2, E, H, X))

\* The node m that goes on from n to its left child hands down a lighter subtree that
\* is no 2-node and holds all of E below n's key, and the repair after it makes up
\* for what is taken out of that.
GoesLeft(n, m, h, E, H, X) ==
  \E b \in Nat : \E L, R :
    /\ RbOver(m, b, L, R, H, X) /\ EntriesOver(m, L, R) = E
    /\ IF n.left = NULL THEN m.left = NULL ELSE m.left # NULL /\ NotTwo(m.left)
    /\ Weight(m.left, b) < Weight(n, h)
    /\ \A e \in E : e[1] < n.key => e \in L
    /\ \A t, M : M \in SUBSET L /\ Shrunk(m.left, t, b, M, H)
                   => Settled(n, Repair([m EXCEPT !.left = t]), h, EntriesOver(m, M, R), H, X)

\* A node over two trees with another tree to its left
LEMMA LeftPut ==
  ASSUME NEW H, NEW X, NEW m, NEW b, NEW L, NEW R, NEW t, NEW M, NEW d, RbOver(m, b, L, R, H, X),
         \A e \in M : e \in L, <<t, b, M>> \in H, d = [m EXCEPT !.left = t]
  PROVE  /\ RbOver(d, b, M, R, H, X) /\ EntriesOver(d, M, R) = EntriesOver(m, M, R)
         /\ d.flag = m.flag /\ d.left = t /\ d.right = m.right
<1>1. IsNode(d) /\ Entry(d) = Entry(m) /\ d.flag = m.flag /\ d.left = t /\ d.right = m.right
  BY LeftSet DEF RbOver, Stands
<1>2. Placed(m, M, R, X)
  BY DEF RbOver, Stands, Placed
<1>3. Placed(d, M, R, X) /\ EntriesOver(d, M, R) = EntriesOver(m, M, R)
  BY <1>1, <1>2, StandsAs
<1>4. RbOver(d, b, M, R, H, X)
  BY <1>1, <1>3 DEF RbOver, Stands
<1> QED
  BY <1>1, <1>3, <1>4

\* The entries below a node's key are those of its left subtree.
LEMMA BelowIsLeft ==
  ASSUME NEW n, NEW L, NEW R, NEW X, Placed(n, L, R, X), \A e \in X : e[1] \in Int
  PROVE  \A e \in EntriesOver(n, L, R) : e[1] < n.key => e \in L
<1>1. n.key \in Int /\ Entry(n)[1] = n.key
  BY DEF Placed, Entry
<1>2. \A e \in R : e[1] \in Int /\ n.key < e[1]
  BY DEF Placed
<1> QED
  BY <1>1, <1>2 DEF EntriesOver

\* Whatever m is, over trees of black height b: what its repair leaves, by the
\* colors of m and its children.
LEMMA LeftSettles ==
  ASSUME NEW H, NEW X, NEW n, NEW m, NEW h, NEW b, NEW L, NEW R, RbTrees(H, X),
         RbOver(m, b, L, R, H, X),
         \/ m.flag = BLACK /\ h = b + 1 /\ (IsRed(n) \/ ~IsRed(m.right))
         \/ m.flag = RED /\ h = b /\ ~IsRed(m.left) /\ ~IsRed(m.right)
         \/ m.flag = RED /\ h = b + 2 /\ IsRed(m.right) /\ NoneRed(n),
         m.flag = RED /\ h = b => IsRed(n),
         NEW t, NEW M, M \in SUBSET L, Shrunk(m.left, t, b, M, H)
  PROVE  Settled(n, Repair([m EXCEPT !.left = t]), h, EntriesOver(m, M, R), H, X)
<1> DEFINE d == [m EXCEPT !.left = t]
<1>1. /\ RbOver(d, b, M, R, H, X) /\ EntriesOver(d, M, R) = EntriesOver(m, M, R)
      /\ d.flag = m.flag /\ d.left = t /\ d.right = m.right
  <2>1. <<t, b, M>> \in H /\ d = [m EXCEPT !.left = t] /\ \A e \in M : e \in L
    BY DEF Shrunk
  <2> HIDE DEF d
  <2> QED
    BY <2>1, LeftPut
<1> HIDE DEF d
<1>2. IsRed(d.left) => IsRed(m.left)
  BY <1>1 DEF Shrunk
<1>3. b \in Nat
  BY DEF RbOver
<1>4. CASE m.flag = BLACK /\ h = b + 1 /\ (IsRed(n) \/ ~IsRed(m.right))
  <2>1. /\ <<Repair(d), b + 1, EntriesOver(d, M, R)>> \in H
        /\ IsRed(Repair(d)) => IsRed(d.left) /\ IsRed(d.right)
    BY <1>1, <1>4, RepairBlack
  <2> QED
    BY <1>1, <1>4, <2>1 DEF Settled, Shrunk, d
<1>5. CASE m.flag = RED /\ h = b /\ ~IsRed(m.left) /\ ~IsRed(m.right)
  <2>1. ~IsRed(d.left) /\ ~IsRed(d.right) /\ d.flag = RED
    BY <1>1, <1>2, <1>5
  <2>2. <<Repair(d), b, EntriesOver(d, M, R)>> \in H
    BY <1>1, <2>1, RepairRed
  <2> QED
    BY <1>1, <1>5, <2>2 DEF Settled, Shrunk, d
<1>6. CASE m.flag = RED /\ h = b + 2 /\ IsRed(m.right) /\ NoneRed(n)
  <2>1. IsRed(d.right) /\ d.flag = RED
    BY <1>1, <1>6
  <2>2. IF IsRed(d.left)
        THEN <<Repair(d), b + 2, EntriesOver(d, M, R)>> \in H /\ ~IsRed(Repair(d))
        ELSE Leaning(Repair(d), b, EntriesOver(d, M, R), H, X)
    BY <1>1, <2>1, RepairRed
  <2>3. h - 2 = b
    BY <1>3, <1>6
  <2> QED
    BY <1>1, <1>6, <2>2, <2>3 DEF Settled, Shrunk, d
<1> QED
  BY <1>4, <1>5, <1>6

\* A node without subtrees, alone in a tree of black height h
Leaf(n, h, E) == n.left = NULL /\ n.right = NULL /\ E = {Entry(n)} /\ h = n.flag

\* A node lacks both children if it lacks one and the other is not red.
LEMMA LeafIs ==
  ASSUME NEW H, NEW X, NEW n, NEW b, NEW L, NEW R, RbTrees(H, X), b \in Nat,
      RbOver(n, b, L, R, H, X),
         \/ n.left = NULL /\ ~IsRed(n.right)
         \/ n.right = NULL /\ ~IsRed(n.left)
  PROVE  Leaf(n, b + n.flag, EntriesOver(n, L, R))
<1>1. <<n.left, b, L>> \in H /\ <<n.right, b, R>> \in H /\ n.flag \in {0, 1}
  BY DEF RbOver, Stands, RED, BLACK
<1>2. n.left = NULL /\ n.right = NULL
  BY <1>1, MayBorrow
<1>3. b = 0 /\ L = {} /\ R = {}
  BY <1>1, <1>2, RbTake
<1>4. b + n.flag = n.flag
  BY <1>1, <1>3
<1> QED
  BY <1>2, <1>3, <1>4 DEF Leaf, EntriesOver

\* A removal on the left of n, where the code borrows for a child that is a 2-node:
\* its assertions hold, the child it goes on in is none any more and holds what it
\* looks for, and if that shrinks as it should, so does n (rb.c:159-173, 194-199).
LEMMA RbRemovalGoesLeft ==
  ASSUME NEW H, NEW X, NEW n, NEW h, NEW E, RbTrees(H, X), <<n, h, E>> \in H, n # NULL
  PROVE  /\ n.left = NULL => Leaf(n, h, E)
         /\ IsTwoNode(n.left) => MayMoveRed(n)
         /\ GoesLeft(n, IF IsTwoNode(n.left) THEN MoveRedLeft(n) ELSE n, h, E, H, X)
<1>1. PICK b, L, R :
           /\ b \in Nat
           /\ RbOver(n, b, L, R, H, X) /\ E = EntriesOver(n, L, R) /\ ~IsRed(n.right)
           /\ \/ n.flag = RED /\ IsRed(n) /\ h = b /\ ~IsRed(n.left)
              \/ n.flag = BLACK /\ ~IsRed(n) /\ h = b + 1
  BY RbTop
<1>2. \A e \in E : e[1] < n.key => e \in L
  BY <1>1, BelowIsLeft DEF RbOver, Stands, RbTrees
<1>3. n.left = NULL => Leaf(n, h, E)
  <2>1. h = b + n.flag
    BY <1>1 DEF RED, BLACK
  <2> QED
    BY <1>1, <2>1, LeafIs
<1>4. CASE ~IsTwoNode(n.left)
  <2>1. /\ IF n.left = NULL THEN n.left = NULL ELSE n.left # NULL /\ NotTwo(n.left)
        /\ Weight(n.left, b) < Weight(n, h)
    BY <1>1, <1>4, RbLighter DEF IsTwoNode, NotTwo
  <2>2. ASSUME NEW t, NEW M, M \in SUBSET L, Shrunk(n.left, t, b, M, H)
        PROVE  Settled(n, Repair([n EXCEPT !.left = t]), h, EntriesOver(n, M, R), H, X)
    <3>1. /\ \/ n.flag = BLACK /\ h = b + 1 /\ (IsRed(n) \/ ~IsRed(n.right))
             \/ n.flag = RED /\ h = b /\ ~IsRed(n.left) /\ ~IsRed(n.right)
          /\ n.flag = RED /\ h = b => IsRed(n)
      BY <1>1 DEF RED, BLACK
    <3> QED
      BY <1>1, <2>2, <3>1, LeftSettles
  <2>3. GoesLeft(n, n, h, E, H, X)
    BY <1>1, <1>2, <2>1, <2>2 DEF GoesLeft
  <2> QED
    BY <1>3, <1>4, <2>3
<1>5. CASE IsTwoNode(n.left)
  <2> DEFINE m == MoveRedLeft(n)
  <2>1. PICK c \in Nat : MayMoveRed(n) /\ b = c + 1 /\ BorrowedLeft(m, n, c, L, R, H, X)
    BY <1>1, <1>5, BorrowsLeft
  <2> HIDE DEF m
  <2>2. ~IsRed(n.left) /\ ~IsRed(n.left.left) /\ n.left # NULL
    BY <1>5 DEF IsTwoNode
  <2>3. CASE /\ RbOver(m, c, L, R, H, X) /\ EntriesOver(m, L, R) = EntriesOver(n, L, R)
             /\ m.flag = 1 - n.flag /\ IsRed(m.left) /\ IsRed(m.right)
    <3>1. ASSUME NEW t, NEW M, M \in SUBSET L, Shrunk(m.left, t, c, M, H)
          PROVE  Settled(n, Repair([m EXCEPT !.left = t]), h, EntriesOver(m, M, R), H, X)
      <4>1. /\ \/ m.flag = BLACK /\ h = c + 1 /\ (IsRed(n) \/ ~IsRed(m.right))
               \/ m.flag = RED /\ h = c + 2 /\ IsRed(m.right) /\ NoneRed(n)
            /\ m.flag = RED /\ h = c => IsRed(n)
        BY <1>1, <2>1, <2>2, <2>3 DEF RED, BLACK, NoneRed
      <4> QED
        BY <2>3, <3>1, <4>1, LeftSettles
    <3>2. NotTwo(m.left) /\ m.left # NULL /\ Weight(m.left, c) < Weight(n, h)
      BY <1>1, <2>1, <2>3 DEF NotTwo, IsRed, Weight
    <3>3. GoesLeft(n, m, h, E, H, X)
      BY <1>1, <1>2, <2>2, <2>3, <3>1, <3>2 DEF GoesLeft
    <3> QED
      BY <1>3, <1>5, <2>1, <3>3 DEF m
  <2>4. CASE /\ m.flag = n.flag /\ ~IsRed(m.left) /\ ~IsRed(m.right) /\ IsRed(m.left.left)
            /\ m.left # NULL
             /\ \E A, B : /\ RbOver(m, c + 1, A, B, H, X)
                    /\ EntriesOver(m, A, B) = EntriesOver(n, L, R)
                          /\ L \in SUBSET A
    <3>1. PICK A, B : /\ RbOver(m, b, A, B, H, X) /\ EntriesOver(m, A, B) = EntriesOver(n, L, R)
                      /\ L \in SUBSET A
      BY <2>1, <2>4
    <3>2. ASSUME NEW t, NEW M, M \in SUBSET A, Shrunk(m.left, t, b, M, H)
          PROVE  Settled(n, Repair([m EXCEPT !.left = t]), h, EntriesOver(m, M, B), H, X)
      <4>1. /\ \/ m.flag = BLACK /\ h = b + 1 /\ (IsRed(n) \/ ~IsRed(m.right))
               \/ m.flag = RED /\ h = b /\ ~IsRed(m.left) /\ ~IsRed(m.right)
            /\ m.flag = RED /\ h = b => IsRed(n)
        BY <1>1, <2>4 DEF RED, BLACK
      <4> QED
        BY <3>1, <3>2, <4>1, LeftSettles
    <3>3. NotTwo(m.left) /\ m.left # NULL /\ \A e \in E : e[1] < n.key => e \in A
      BY <1>2, <2>4, <3>1 DEF NotTwo
    <3>4. Weight(m.left, b) < Weight(n, h)
      BY <1>1, <2>4 DEF Weight
    <3>5. GoesLeft(n, m, h, E, H, X)
      BY <1>1, <2>2, <3>1, <3>2, <3>3, <3>4 DEF GoesLeft
    <3> QED
      BY <1>3, <1>5, <2>1, <3>5 DEF m
  <2> QED
    BY <2>1, <2>3, <2>4 DEF BorrowedLeft
<1> QED
  BY <1>4, <1>5

\* A node as a removal on the right meets it: no red link to the left, nor two red
\* nodes in a row to the right.
Poised(n, b, L, R, H, X) ==
  RbOver(n, b, L, R, H, X) /\ ~IsRed(n.left) /\ ~(IsRed(n) /\ IsRed(n.right))

\* A node with a red link to the left is turned before a removal on its right.
LEMMA PoisedIs ==
  ASSUME NEW H, NEW X, NEW n, NEW h, NEW E, RbTrees(H, X), <<n, h, E>> \in H, n # NULL
  PROVE  LET g == IF IsRed(n.left) THEN RotateRight(n) ELSE n
         IN  \E b \in Nat : \E L, R :
               /\ Poised(g, b, L, R, H, X) /\ E = EntriesOver(g, L, R) /\ h = b + g.flag
               /\ IsRed(g) <=> IsRed(n)
               /\ IsRed(n.left) => IsRed(g.right)
               /\ g.key <= n.key
<1>1. PICK b, L, R :
           /\ b \in Nat
           /\ RbOver(n, b, L, R, H, X) /\ E = EntriesOver(n, L, R) /\ ~IsRed(n.right)
           /\ \/ n.flag = RED /\ IsRed(n) /\ h = b /\ ~IsRed(n.left)
              \/ n.flag = BLACK /\ ~IsRed(n) /\ h = b + 1
  BY RbTop
<1>2. h = b + n.flag
  BY <1>1 DEF RED, BLACK
<1>3. CASE ~IsRed(n.left)
  <2>1. n.key <= n.key
    <3>1. Entry(n)[1] = n.key /\ Entry(n) \in X
      BY <1>1 DEF Entry, RbOver, Stands, Placed
    <3> QED
      BY <3>1 DEF RbTrees
  <2> QED
    BY <1>1, <1>2, <1>3, <2>1 DEF Poised
<1>4. CASE IsRed(n.left)
  <2> DEFINE g == RotateRight(n)
  <2>1. PICK A, B : /\ RbOver(n.left, b, A, B, H, X) /\ L = EntriesOver(n.left, A, B)
                    /\ ~IsRed(n.left.left) /\ ~IsRed(n.left.right)
    BY <1>1, <1>4, RbTakeRed DEF RbOver
  <2>2. /\ Stands(n, EntriesOver(n.left, A, B), R, X) /\ Stands(n.left, A, B, X)
        /\ \A e \in X : e[1] \in Int
    BY <1>1, <2>1 DEF RbOver, RbTrees
  <2>3. /\ Stands(g, A, EntriesOver(g.right, B, R), X) /\ Stands(g.right, B, R, X)
        /\ EntriesOver(g, A, EntriesOver(g.right, B, R)) = E
        /\ g.flag = BLACK /\ g.right.flag = RED
        /\ g.left = n.left.left /\ g.right.left = n.left.right /\ g.right.right = n.right
        /\ Entry(g.right) = Entry(n)
    <3>1. n.flag = BLACK
      BY <1>1, <1>4
    <3>2. EntriesOver(n, EntriesOver(n.left, A, B), R) = E
      BY <1>1, <2>1
    <3> QED
      BY <2>2, <3>1, <3>2, TurnsRight
  <2> HIDE DEF g
  <2>4. IsRed(g.right) /\ ~IsRed(g)
    BY <2>3, Colors DEF RED, BLACK
  <2>5. <<g.right, b, EntriesOver(g.right, B, R)>> \in H
    <3>1. RbOver(g.right, b, B, R, H, X) /\ Leans(g.right)
      BY <1>1, <2>1, <2>3 DEF RbOver, Leans
    <3>2. <<g.right, b + g.right.flag, EntriesOver(g.right, B, R)>> \in H
      BY <3>1, RbMake
    <3>3. b + g.right.flag = b
      BY <1>1, <2>3 DEF RED
    <3> QED
      BY <3>2, <3>3
  <2>6. Poised(g, b, A, EntriesOver(g.right, B, R), H, X)
    BY <2>1, <2>3, <2>4, <2>5 DEF Poised, RbOver
  <2>7. h = b + g.flag
    BY <1>1, <1>4, <2>3 DEF BLACK
  <2>8. g.key <= n.key
    <3>1. /\ Entry(n)[1] = n.key /\ Entry(g)[1] = g.key /\ Entry(n) \in X /\ Entry(g) \in X
          /\ Entry(n) \in EntriesOver(g.right, B, R)
      BY <2>2, <2>3 DEF Entry, EntriesOver, Stands, Placed
    <3>2. g.key < n.key
      BY <2>3, <3>1 DEF Stands, Placed
    <3> QED
      BY <2>2, <3>1, <3>2
  <2> QED
    BY <1>1, <1>4, <2>3, <2>4, <2>6, <2>7, <2>8 DEF g
<1> QED
  BY <1>3, <1>4

\* The turn of the root of a subtree before a removal on its right leaves a tree of
\* the same height and entries, which a removal may settle in place of n (rb.c:202-204).
LEMMA RbRemovalTurnsRight ==
  ASSUME NEW H, NEW X, NEW n, NEW h, NEW E, RbTrees(H, X), <<n, h, E>> \in H, n # NULL
  PROVE  LET g == IF IsRed(n.left) THEN RotateRight(n) ELSE n
         IN  /\ \E b \in Nat : \E L, R :
                  Poised(g, b, L, R, H, X) /\ E = EntriesOver(g, L, R) /\ h = b + g.flag
             /\ Weight(g, h) = Weight(n, h) /\ g.key <= n.key /\ (NoneRed(g) => g = n)
             /\ \A t, F : Settled(g, t, h, F, H, X) => Settled(n, t, h, F, H, X)
<1> DEFINE g == IF IsRed(n.left) THEN RotateRight(n) ELSE n
<1>1. \E b \in Nat : \E L, R :
        /\ Poised(g, b, L, R, H, X) /\ E = EntriesOver(g, L, R) /\ h = b + g.flag
        /\ IsRed(g) <=> IsRed(n)
        /\ IsRed(n.left) => IsRed(g.right)
        /\ g.key <= n.key
  BY PoisedIs
<1>2. IsRed(n.left) \/ g = n
  OBVIOUS
<1> HIDE DEF g
<1>3. (IsRed(g) <=> IsRed(n)) /\ (NoneRed(g) => g = n)
  BY <1>1, <1>2 DEF NoneRed
<1>4. \A t, F : Settled(g, t, h, F, H, X) => Settled(n, t, h, F, H, X)
  BY <1>3 DEF Settled, Shrunk
<1>5. Weight(g, h) = Weight(n, h)
  BY <1>3 DEF Weight
<1> QED
  BY <1>1, <1>3, <1>4, <1>5 DEF g

\* The node that lent one to its right child, black over two trees
Lender(w, b, E, H, X) ==
  \E c \in Nat : \E L, R :
    /\ Poised(w, c, L, R, H, X) /\ E = EntriesOver(w, L, R) /\ b = c + 1
    /\ w.flag = BLACK /\ IsRed(w.right)

\* d is m with the data of s and t to its right.
Moved(d, m, s, t) == d = [MoveData(m, s) EXCEPT !.right = t]

\* d is m with t, of entries M out of R, to its right, and m's data, or those of a
\* node s of R that precedes all of M.
Puts(d, m, t, R, M) ==
  \/ d = [m EXCEPT !.right = t]
  \/ \E s : /\ Entry(s) \in R /\ \A e \in M : s.key < e[1]
            /\ Moved(d, m, s, t)

\* The node m that goes on from g to its lighter right child hands down all of E above g's
\* key, and g's own entry too if a node was borrowed and m precedes g, and the repair
\* after it makes up for what is taken out of that.
GoesRight(g, m, h, E, H, X) ==
  \E b \in Nat : \E L, R :
    /\ Stands(m, L, R, X) /\ EntriesOver(m, L, R) = E
    /\ b \in Nat /\ Weight(m.right, b) < Weight(g, h)
    /\ \/ /\ Entry(m) = Entry(g) /\ <<m.right, b, R>> \in H
          /\ IF g.right = NULL THEN m.right = NULL ELSE m.right # NULL /\ NotTwo(m.right)
       \/ m.key < g.key /\ Entry(m.right) = Entry(g) /\ Lender(m.right, b, R, H, X)
    /\ \A e \in E : g.key < e[1] => e \in R
    /\ \A t, M, d : /\ M \in SUBSET R /\ Shrunk(m.right, t, b, M, H) /\ Puts(d, m, t, R, M)
                    => Settled(g, Repair(d), h, EntriesOver(d, L, M), H, X)

\* The data of another node and a new link to the right
LEMMA MovedSet ==
  ASSUME NEW m, NEW s, NEW t, NEW d, IsNode(m), Moved(d, m, s, t)
  PROVE  IsNode(d) /\ Entry(d) = Entry(s) /\ d.flag = m.flag /\ d.left = m.left /\ d.right = t
<1>1. MoveData(m, s) = NodeWith(s.key, s.val, m.flag, m.left, m.right)
  BY DataMoved
<1>4. [NodeWith(s.key, s.val, m.flag, m.left, m.right) EXCEPT !.right = t]
        = NodeWith(s.key, s.val, m.flag, m.left, t)
  BY SMT DEF NodeWith
<1>5. d = NodeWith(s.key, s.val, m.flag, m.left, t)
  BY <1>1, <1>4 DEF Moved
<1>6. LET n == NodeWith(s.key, s.val, m.flag, m.left, t)
      IN  /\ IsNode(n) /\ Entry(n) = <<s.key, s.val>>
          /\ n.key = s.key /\ n.val = s.val /\ n.flag = m.flag /\ n.left = m.left /\ n.right = t
  BY NodeFields
<1> QED
  BY <1>5, <1>6, Zenon DEF Entry

\* A node over two trees with another tree to its right, and its data moved there
LEMMA RightPut ==
  ASSUME NEW H, NEW X, NEW m, NEW b, NEW L, NEW R, NEW t, NEW M, NEW d, RbTrees(H, X),
         Stands(m, L, R, X), b \in Nat, <<m.left, b, L>> \in H,
         M \in SUBSET R, <<t, b, M>> \in H, Puts(d, m, t, R, M)
  PROVE  RbOver(d, b, L, M, H, X) /\ d.flag = m.flag /\ d.left = m.left /\ d.right = t
<1>1. CASE d = [m EXCEPT !.right = t]
  <2>1. IsNode(d) /\ Entry(d) = Entry(m) /\ d.flag = m.flag /\ d.left = m.left /\ d.right = t
    BY <1>1, RightSet DEF Stands
  <2>2. Placed(m, L, M, X)
    BY DEF Stands, Placed
  <2>3. Placed(d, L, M, X)
    BY <2>1, <2>2, StandsAs
  <2> QED
    BY <2>1, <2>3 DEF RbOver, Stands
<1>2. ASSUME NEW s, Entry(s) \in R, \A e \in M : s.key < e[1], Moved(d, m, s, t)
      PROVE  RbOver(d, b, L, M, H, X) /\ d.flag = m.flag /\ d.left = m.left /\ d.right = t
  <2>1. IsNode(d) /\ Entry(d) = Entry(s) /\ d.flag = m.flag /\ d.left = m.left /\ d.right = t
    <3>1. IsNode(m)
      BY DEF Stands
    <3> QED
      BY <1>2, <3>1, MovedSet
  <2>2. Placed(s, L, M, X)
    <3>1. Entry(s)[1] = s.key /\ Entry(m)[1] = m.key
      BY DEF Entry
    <3>2. s.key \in Int /\ m.key \in Int /\ m.key < s.key
      BY <1>2, <3>1 DEF Stands, Placed, RbTrees
    <3>3. \A e \in L : e[1] \in Int /\ e[1] < m.key
      BY DEF Stands, Placed, RbTrees
    <3>4. \A e \in L : e[1] < s.key
      BY <3>2, <3>3
    <3>5. Entry(s) \in X /\ L \in SUBSET X /\ M \in SUBSET X
      BY <1>2 DEF Stands, Placed
    <3> QED
      BY <1>2, <3>4, <3>5 DEF Placed
  <2>3. Placed(d, L, M, X)
    BY <2>1, <2>2, StandsAs
  <2> QED
    BY <2>1, <2>3 DEF RbOver, Stands
<1> QED
  BY <1>1, <1>2 DEF Puts

\* What the repair of m leaves, by the colors of m and its children.
LEMMA RightSettles ==
  ASSUME NEW H, NEW X, NEW n, NEW m, NEW h, NEW b, NEW L, NEW R, NEW t, NEW M, NEW d, RbTrees(H, X),
         Stands(m, L, R, X), b \in Nat, <<m.left, b, L>> \in H,
         \/ m.flag = BLACK /\ h = b + 1 /\ (IsRed(n) \/ ~IsRed(m.left))
         \/ m.flag = RED /\ h = b /\ ~IsRed(m.left) /\ ~IsRed(m.right)
         \/ m.flag = RED /\ h = b + 2 /\ IsRed(m.left) /\ NoneRed(n),
         m.flag = RED /\ h = b => IsRed(n),
         M \in SUBSET R, Shrunk(m.right, t, b, M, H), Puts(d, m, t, R, M)
  PROVE  Settled(n, Repair(d), h, EntriesOver(d, L, M), H, X)
<1>1. RbOver(d, b, L, M, H, X) /\ d.flag = m.flag /\ d.left = m.left /\ d.right = t
  BY RightPut DEF Shrunk
<1>2. IsRed(d.right) => IsRed(m.right)
  BY <1>1 DEF Shrunk
<1>3. CASE m.flag = BLACK /\ h = b + 1 /\ (IsRed(n) \/ ~IsRed(m.left))
  <2>1. /\ <<Repair(d), b + 1, EntriesOver(d, L, M)>> \in H
        /\ IsRed(Repair(d)) => IsRed(d.left) /\ IsRed(d.right)
    BY <1>1, <1>3, RepairBlack
  <2> QED
    BY <1>1, <1>3, <2>1 DEF Settled, Shrunk
<1>4. CASE m.flag = RED /\ h = b /\ ~IsRed(m.left) /\ ~IsRed(m.right)
  <2>1. ~IsRed(d.left) /\ ~IsRed(d.right) /\ d.flag = RED
    BY <1>1, <1>2, <1>4
  <2>2. <<Repair(d), b, EntriesOver(d, L, M)>> \in H
    BY <1>1, <2>1, RepairRed
  <2> QED
    BY <1>1, <1>4, <2>2 DEF Settled, Shrunk
<1>5. CASE m.flag = RED /\ h = b + 2 /\ IsRed(m.left) /\ NoneRed(n)
  <2>1. IsRed(d.left) /\ d.flag = RED
    BY <1>1, <1>5
  <2>2. IF IsRed(d.right)
        THEN <<Repair(d), b + 2, EntriesOver(d, L, M)>> \in H /\ ~IsRed(Repair(d))
        ELSE Leaning(Repair(d), b, EntriesOver(d, L, M), H, X)
    BY <1>1, <2>1, RepairRed
  <2>3. h - 2 = b
    BY <1>5
  <2> QED
    BY <1>1, <1>5, <2>2, <2>3 DEF Settled, Shrunk
<1> QED
  BY <1>3, <1>4, <1>5

\* The entries above a node's key are those of its right subtree.
LEMMA AboveIsRight ==
  ASSUME NEW n, NEW L, NEW R, NEW X, Placed(n, L, R, X), \A e \in X : e[1] \in Int
  PROVE  \A e \in EntriesOver(n, L, R) : n.key < e[1] => e \in R
<1>1. n.key \in Int /\ Entry(n)[1] = n.key
  BY DEF Placed, Entry
<1>2. \A e \in L : e[1] \in Int /\ e[1] < n.key
  BY DEF Placed
<1> QED
  BY <1>1, <1>2 DEF EntriesOver

\* A removal at such a node g or on its right: g is a leaf if it has no right child, as
\* the code asserts; else the assertions of a move to the right hold, the child the
\* removal goes on in is no 2-node and holds what it looks for, and if that shrinks as
\* it should, so does g, also with a successor's data in place of its own (rb.c:206-234).
LEMMA RbRemovalGoesRight ==
  ASSUME NEW H, NEW X, NEW g, NEW a, NEW P, NEW Q, RbTrees(H, X), a \in Nat,
         Poised(g, a, P, Q, H, X)
  PROVE  LET h == a + g.flag
             E == EntriesOver(g, P, Q)
         IN  /\ g.right = NULL => Leaf(g, h, E)
             /\ IsTwoNode(g.right) => MayMoveRed(g)
             /\ GoesRight(g, IF IsTwoNode(g.right) THEN MoveRedRight(g) ELSE g, h, E, H, X)
<1> DEFINE h == a + g.flag
           E == EntriesOver(g, P, Q)
<1>1. /\ RbOver(g, a, P, Q, H, X) /\ ~IsRed(g.left) /\ ~(IsRed(g) /\ IsRed(g.right))
      /\ Stands(g, P, Q, X) /\ <<g.left, a, P>> \in H /\ <<g.right, a, Q>> \in H
  BY DEF Poised, RbOver
<1>2. g.right = NULL => Leaf(g, h, E)
  BY <1>1, LeafIs
<1>3. \A e \in E : g.key < e[1] => e \in Q
  BY <1>1, AboveIsRight DEF Stands, RbTrees
<1>4. \/ g.flag = BLACK /\ ~IsRed(g) /\ h = a + 1
      \/ g.flag = RED /\ IsRed(g) /\ h = a
  <2>1. \/ g.flag = BLACK /\ ~IsRed(g)
        \/ g.flag = RED /\ IsRed(g)
    BY <1>1, Colors
  <2> QED
    BY <2>1 DEF RED, BLACK
<1> HIDE DEF h, E
<1>5. CASE ~IsTwoNode(g.right)
  <2>1. /\ IF g.right = NULL THEN g.right = NULL ELSE g.right # NULL /\ NotTwo(g.right)
        /\ Weight(g.right, a) < Weight(g, h)
    BY <1>1, <1>4, <1>5 DEF IsTwoNode, NotTwo, Weight
  <2>2. ASSUME NEW t, NEW M, NEW d, M \in SUBSET Q, Shrunk(g.right, t, a, M, H), Puts(d, g, t, Q, M)
        PROVE  Settled(g, Repair(d), h, EntriesOver(d, P, M), H, X)
    <3>1. /\ \/ g.flag = BLACK /\ h = a + 1 /\ (IsRed(g) \/ ~IsRed(g.left))
             \/ g.flag = RED /\ h = a /\ ~IsRed(g.left) /\ ~IsRed(g.right)
          /\ g.flag = RED /\ h = a => IsRed(g)
      BY <1>1, <1>4 DEF RED, BLACK
    <3> QED
      BY <1>1, <2>2, <3>1, RightSettles
  <2>3. GoesRight(g, g, h, E, H, X)
    BY <1>1, <1>3, <2>1, <2>2 DEF GoesRight, E
  <2> QED
    BY <1>2, <1>5, <2>3 DEF h, E
<1>6. CASE IsTwoNode(g.right)
  <2> DEFINE m == MoveRedRight(g)
  <2>1. PICK c \in Nat : MayMoveRed(g) /\ a = c + 1 /\ BorrowedRight(m, g, c, P, Q, H, X)
    BY <1>1, <1>6, BorrowsRight
  <2> HIDE DEF m
  <2>2. ~IsRed(g.right) /\ g.right # NULL
    BY <1>6 DEF IsTwoNode
  <2>3. CASE /\ RbOver(m, c, P, Q, H, X) /\ EntriesOver(m, P, Q) = EntriesOver(g, P, Q)
             /\ Entry(m) = Entry(g)
             /\ m.flag = 1 - g.flag /\ IsRed(m.left) /\ IsRed(m.right)
    <3>1. /\ Stands(m, P, Q, X) /\ <<m.left, c, P>> \in H /\ <<m.right, c, Q>> \in H
          /\ EntriesOver(m, P, Q) = E
      BY <2>3 DEF RbOver, E
    <3>2. ASSUME NEW t, NEW M, NEW d, M \in SUBSET Q, Shrunk(m.right, t, c, M, H),
              Puts(d, m, t, Q, M)
          PROVE  Settled(g, Repair(d), h, EntriesOver(d, P, M), H, X)
      <4>1. /\ \/ m.flag = BLACK /\ h = c + 1 /\ (IsRed(g) \/ ~IsRed(m.left))
               \/ m.flag = RED /\ h = c + 2 /\ IsRed(m.left) /\ NoneRed(g)
            /\ m.flag = RED /\ h = c => IsRed(g)
        BY <1>1, <1>4, <2>1, <2>2, <2>3 DEF RED, BLACK, NoneRed
      <4> QED
        BY <3>1, <3>2, <4>1, RightSettles
    <3>3. NotTwo(m.right) /\ m.right # NULL /\ Weight(m.right, c) < Weight(g, h)
      BY <1>4, <2>1, <2>3 DEF NotTwo, IsRed, Weight
    <3>4. GoesRight(g, m, h, E, H, X)
      BY <1>3, <2>2, <2>3, <3>1, <3>2, <3>3 DEF GoesRight
    <3> QED
      BY <1>2, <1>6, <2>1, <3>4 DEF m, h, E
  <2>4. ASSUME NEW A, NEW B, NEW C,
               m.flag = g.flag, ~IsRed(m.left),
               m.right.flag = BLACK, IsRed(m.right.right), ~IsRed(m.right.left),
               Entry(m.right) = Entry(g),
               Stands(m, A, EntriesOver(m.right, B, C), X), <<m.left, c + 1, A>> \in H,
               RbOver(m.right, c, B, C, H, X),
               EntriesOver(m, A, EntriesOver(m.right, B, C)) = EntriesOver(g, P, Q)
        PROVE  GoesRight(g, m, h, E, H, X)
    <3> DEFINE R == EntriesOver(m.right, B, C)
    <3>1. ~IsRed(m.right)
      BY <2>4 DEF IsRed, RED, BLACK
    <3>2. Lender(m.right, a, R, H, X)
      BY <2>1, <2>4, <3>1 DEF Lender, Poised
    <3>7. Weight(m.right, a) < Weight(g, h)
      BY <1>1, <1>4, <3>1 DEF Weight
    <3>3. m.key < g.key
      <4>1. Entry(g) \in R /\ Entry(g)[1] = g.key
        BY <2>4 DEF EntriesOver, Entry
      <4> QED
        BY <2>4, <4>1 DEF Stands, Placed
    <3>4. \A e \in E : g.key < e[1] => e \in R
      <4>1. m.key \in Int /\ g.key \in Int
        <5>1. Entry(m)[1] = m.key /\ Entry(g)[1] = g.key /\ Entry(m) \in X /\ Entry(g) \in X
          BY <1>1, <2>4 DEF Stands, Placed, Entry
        <5> QED
          BY <5>1 DEF RbTrees
      <4>2. \A e \in E : m.key < e[1] => e \in R
        BY <2>4, AboveIsRight DEF Stands, RbTrees, E
      <4>3. \A e \in E : e[1] \in Int
        <5>1. E \in SUBSET X
          BY <1>1 DEF Stands, Placed, EntriesOver, E
        <5> QED
          BY <5>1 DEF RbTrees
      <4> QED
        BY <3>3, <4>1, <4>2, <4>3
    <3>5. Stands(m, A, R, X) /\ <<m.left, a, A>> \in H /\ EntriesOver(m, A, R) = E
      BY <2>1, <2>4 DEF E
    <3> HIDE DEF R
    <3>6. ASSUME NEW t, NEW M, NEW d, M \in SUBSET R, Shrunk(m.right, t, a, M, H),
              Puts(d, m, t, R, M)
          PROVE  Settled(g, Repair(d), h, EntriesOver(d, A, M), H, X)
      <4>1. /\ \/ m.flag = BLACK /\ h = a + 1 /\ (IsRed(g) \/ ~IsRed(m.left))
               \/ m.flag = RED /\ h = a /\ ~IsRed(m.left) /\ ~IsRed(m.right)
            /\ m.flag = RED /\ h = a => IsRed(g)
        BY <1>4, <2>4, <3>1 DEF RED, BLACK
      <4> QED
        BY <3>5, <3>6, <4>1, RightSettles
    <3> QED
      BY <1>1, <2>4, <3>2, <3>3, <3>4, <3>5, <3>6, <3>7 DEF GoesRight, RbOver
  <2> QED
    <3>1. CASE /\ m.flag = g.flag /\ ~IsRed(m.left)
               /\ m.right.flag = BLACK /\ IsRed(m.right.right) /\ ~IsRed(m.right.left)
               /\ Entry(m.right) = Entry(g)
               /\ \E A, B, C : /\ Stands(m, A, EntriesOver(m.right, B, C), X)
                      /\ <<m.left, c + 1, A>> \in H
                               /\ RbOver(m.right, c, B, C, H, X)
                               /\ EntriesOver(m, A, EntriesOver(m.right, B, C)) = EntriesOver(g,
                                      P, Q)
      <4>1. PICK A, B, C : /\ Stands(m, A, EntriesOver(m.right, B, C), X)
                /\ <<m.left, c + 1, A>> \in H
                           /\ RbOver(m.right, c, B, C, H, X)
                           /\ EntriesOver(m, A, EntriesOver(m.right, B, C)) = EntriesOver(g, P, Q)
        BY <3>1
      <4>2. GoesRight(g, m, h, E, H, X)
        BY <2>4, <3>1, <4>1
      <4> QED
        BY <1>2, <1>6, <2>1, <4>2 DEF m, h, E
    <3> QED
      BY <2>1, <2>3, <3>1 DEF BorrowedRight
<1> QED
  BY <1>5, <1>6 DEF h, E

\* The leftmost node is that of the first entry.
LEMMA RbLeftmostIsFirst ==
  ASSUME NEW H, NEW X, RbTrees(H, X), Leftmosts(H)
  PROVE  \A n, h, E : <<n, h, E>> \in H /\ n # NULL => \E M : FirstGone(Entry(Leftmost(n)), E, M)
<1> DEFINE Bad == {b \in H : \E n, h, E : /\ b = <<n, h, E>> /\ n # NULL
                                          /\ ~\E M : FirstGone(Entry(Leftmost(n)), E, M)}
<1>1. \A n, h, E : <<n, h, E>> \in Bad
                     <=> <<n, h, E>> \in H /\ n # NULL
                         /\ ~\E M : FirstGone(Entry(Leftmost(n)), E, M)
  OBVIOUS
<1>2. Bad \in SUBSET H
  OBVIOUS
<1> HIDE DEF Bad
<1> SUFFICES ASSUME \E n, h, E : <<n, h, E>> \in Bad
             PROVE  FALSE
  BY <1>1
<1>3. PICK n, h, E : /\ <<n, h, E>> \in Bad /\ <<n, h, E>> \in H
                     /\ \A m, g, F : <<m, g, F>> \in Bad => ~(Weight(m, g) < Weight(n, h))
  BY <1>2, RbLightest
<1>4. n # NULL /\ \A e \in X : e[1] \in Int
  BY <1>1, <1>3 DEF RbTrees
<1>5. PICK b, L, R :
           /\ b \in Nat /\ RbOver(n, b, L, R, H, X) /\ E = EntriesOver(n, L, R) /\ ~IsRed(n.right)
           /\ \/ n.flag = RED /\ IsRed(n) /\ h = b /\ ~IsRed(n.left)
              \/ n.flag = BLACK /\ ~IsRed(n) /\ h = b + 1
  BY <1>3, <1>4, RbTop
<1>6. Placed(n, L, R, X) /\ <<n.left, b, L>> \in H
  BY <1>5 DEF RbOver, Stands
<1>7. CASE n.left = NULL
  <2>1. L = {}
    BY <1>6, <1>7, RbTake
  <2>2. Leftmost(n) = n
    BY <1>3, <1>4, <1>7 DEF Leftmosts, LeftmostStep
  <2>3. FirstGone(Entry(n), E, R)
    BY <1>4, <1>5, <1>6, <2>1, FirstHere
  <2> QED
    BY <1>1, <1>3, <2>2, <2>3
<1>8. CASE n.left # NULL
  <2>1. Weight(n.left, b) < Weight(n, h)
    BY <1>5, RbLighter
  <2>2. <<n.left, b, L>> \notin Bad
    BY <1>3, <2>1
  <2>3. PICK M : FirstGone(Entry(Leftmost(n.left)), L, M)
    BY <1>1, <1>6, <1>8, <2>2
  <2>4. Leftmost(n) = Leftmost(n.left)
    BY <1>3, <1>4, <1>8 DEF Leftmosts, LeftmostStep
  <2>5. FirstGone(Entry(Leftmost(n.left)), E, EntriesOver(n, M, R))
    BY <1>4, <1>5, <1>6, <2>3, FirstLeft
  <2> QED
    BY <1>1, <1>3, <2>4, <2>5
<1> QED
  BY <1>7, <1>8

\* RbRemoveMin is the recursion of the code on each tree of H.
RbTakingFirst(H) ==
  \A n, h, E : <<n, h, E>> \in H /\ n # NULL => RbRemoveMin(n) = RbRemoveMinStep(n)

\* The outcome r of taking the first node out of the tree n of black height h that holds E
RbFirstTaken(r, n, h, E, H) ==
  r.ok /\ r.rc = 1 /\ \E s, M : FirstGone(s, E, M) /\ Shrunk(n, r.t, h, M, H)

\* Taking the first node out of the left subtree
LEMMA RbTakesLeft ==
  ASSUME NEW H, NEW X, NEW n, NEW m, NEW h, NEW b, NEW L, NEW R, NEW r, NEW q, NEW o,
         RbTrees(H, X), RbOver(m, b, L, R, H, X),
         \A t, M : M \in SUBSET L /\ Shrunk(m.left, t, b, M, H)
                   => Settled(n, Repair([m EXCEPT !.left = t]), h, EntriesOver(m, M, R), H, X),
         ~NoneRed(n), RbFirstTaken(r, m.left, b, L, H), o = TRUE,
         q = Repaired([m EXCEPT !.left = r.t], r.rc, o /\ r.ok)
  PROVE  RbFirstTaken(q, n, h, EntriesOver(m, L, R), H)
<1>1. PICK s, M : FirstGone(s, L, M) /\ Shrunk(m.left, r.t, b, M, H)
  BY DEF RbFirstTaken
<1>2. Placed(m, L, R, X) /\ \A e \in X : e[1] \in Int
  BY DEF RbOver, Stands, RbTrees
<1>3. M \in SUBSET L /\ FirstGone(s, EntriesOver(m, L, R), EntriesOver(m, M, R))
  BY <1>1, <1>2, FirstLeft
<1>4. Shrunk(n, Repair([m EXCEPT !.left = r.t]), h, EntriesOver(m, M, R), H)
  BY <1>1, <1>3 DEF Settled
<1>5. r.ok /\ r.rc = 1
  BY DEF RbFirstTaken
<1>6. q.t = Repair([m EXCEPT !.left = r.t]) /\ q.rc = r.rc /\ q.ok = (o /\ r.ok)
  BY OutcomeHas DEF Repaired
<1> QED
  BY <1>3, <1>4, <1>5, <1>6 DEF RbFirstTaken

\* rb_n_remove_min as a whole, in a tree whose root is no 2-node (rb.c:149-176)
LEMMA RbTakesFirst ==
  ASSUME NEW H, NEW X, RbTrees(H, X), RbTakingFirst(H)
  PROVE  \A n, h, E : <<n, h, E>> \in H /\ n # NULL /\ NotTwo(n)
      => RbFirstTaken(RbRemoveMin(n), n, h, E, H)
<1> DEFINE Bad == {b \in H : \E n, h, E : /\ b = <<n, h, E>> /\ n # NULL /\ NotTwo(n)
                                          /\ ~RbFirstTaken(RbRemoveMin(n), n, h, E, H)}
<1>1. \A n, h, E : <<n, h, E>> \in Bad
                     <=> <<n, h, E>> \in H /\ n # NULL /\ NotTwo(n)
                         /\ ~RbFirstTaken(RbRemoveMin(n), n, h, E, H)
  OBVIOUS
<1>2. Bad \in SUBSET H
  OBVIOUS
<1> HIDE DEF Bad
<1> SUFFICES ASSUME \E n, h, E : <<n, h, E>> \in Bad
             PROVE  FALSE
  BY <1>1
<1>3. PICK n, h, E : /\ <<n, h, E>> \in Bad /\ <<n, h, E>> \in H
                     /\ \A m, g, F : <<m, g, F>> \in Bad => ~(Weight(m, g) < Weight(n, h))
  BY <1>2, RbLightest
<1>4. n # NULL /\ NotTwo(n) /\ \A e \in X : e[1] \in Int
  BY <1>1, <1>3 DEF RbTrees
<1> DEFINE m == IF IsTwoNode(n.left) THEN MoveRedLeft(n) ELSE n
           o == IsTwoNode(n.left) => MayMoveRed(n)
<1>5. /\ n.left = NULL => Leaf(n, h, E)
      /\ o = TRUE
      /\ GoesLeft(n, m, h, E, H, X)
  BY <1>3, <1>4, RbRemovalGoesLeft
<1>6. n.left # NULL => RbRemoveMin(n) = Repaired([m EXCEPT !.left = RbRemoveMin(m.left).t],
          RbRemoveMin(m.left).rc, o /\ RbRemoveMin(m.left).ok)
  BY <1>3, <1>4, Zenon DEF RbTakingFirst, RbRemoveMinStep, RbFromLeft, RbToLeft
<1> HIDE DEF m, o
<1>7. CASE n.left = NULL
  <2>1. Leaf(n, h, E)
    BY <1>5, <1>7
  <2>2. RbRemoveMin(n) = Outcome(NULL, 1, 0, n.right = NULL)
    BY <1>3, <1>4, <1>7 DEF RbTakingFirst, RbRemoveMinStep
  <2>3. RbRemoveMin(n).t = NULL /\ RbRemoveMin(n).rc = 1 /\ RbRemoveMin(n).ok
    <3>1. n.right = NULL
      BY <2>1 DEF Leaf
    <3>2. RbRemoveMin(n) = Outcome(NULL, 1, 0, TRUE)
      BY <2>2, <3>1
    <3> QED
      BY <3>2 DEF Outcome
  <2>4. IsRed(n) /\ h = 0
    BY <1>4, <1>7, <2>1 DEF NotTwo, IsRed, Leaf, RED
  <2>5. Shrunk(n, NULL, 0, {}, H)
    BY <2>4 DEF Shrunk, RbTrees
  <2>6. FirstGone(Entry(n), E, {})
    BY <2>1 DEF FirstGone, Leaf
  <2>7. RbFirstTaken(RbRemoveMin(n), n, h, E, H)
    BY <2>3, <2>4, <2>5, <2>6 DEF RbFirstTaken
  <2> QED
    BY <1>1, <1>3, <2>7
<1>8. CASE n.left # NULL
  <2>1. PICK b, L, R :
          /\ b \in Nat /\ RbOver(m, b, L, R, H, X) /\ EntriesOver(m, L, R) = E
          /\ m.left # NULL /\ NotTwo(m.left)
          /\ Weight(m.left, b) < Weight(n, h)
          /\ \A t, M : M \in SUBSET L /\ Shrunk(m.left, t, b, M, H)
                   => Settled(n, Repair([m EXCEPT !.left = t]), h, EntriesOver(m, M, R), H, X)
    BY <1>5, <1>8 DEF GoesLeft
  <2>2. <<m.left, b, L>> \in H
    BY <2>1 DEF RbOver
  <2>3. RbFirstTaken(RbRemoveMin(m.left), m.left, b, L, H)
    BY <1>1, <1>3, <2>1, <2>2
  <2>4. ~NoneRed(n)
    BY <1>4 DEF NoneRed, NotTwo
  <2>5. RbFirstTaken(RbRemoveMin(n), n, h, E, H)
    BY <1>5, <1>6, <1>8, <2>1, <2>3, <2>4, RbTakesLeft
  <2> QED
    BY <1>1, <1>3, <2>5
<1> QED
  BY <1>7, <1>8

\* The outcome r of a removal from n, no 2-node, which held E: the black height stays.
RbGone(r, n, h, E, k, H) ==
  r.ok /\ \E F : Removed(E, k, F, r.rc) /\ Shrunk(n, r.t, h, F, H)

\* The outcome of a removal from any node n; at a 2-node the black height may fall.
RbRemoved(r, n, h, E, k, H, X) ==
  r.ok /\ \E F : /\ Removed(E, k, F, r.rc)
                 /\ Settled(n, r.t, h, F, H, X) \/ (NoneRed(n) /\ <<r.t, h - 1, F>> \in H)

\* Only a 2-node shrinks in height.
LEMMA RbGoneIs ==
  ASSUME NEW r, NEW n, NEW h, NEW E, NEW k, NEW H, NEW X, RbRemoved(r, n, h, E, k, H, X),
      ~NoneRed(n)
  PROVE  RbGone(r, n, h, E, k, H)
  BY DEF RbRemoved, RbGone, Settled

\* The empty tree stays empty.
LEMMA RbRemovesNone ==
  ASSUME NEW H, NEW X, NEW k, RbTrees(H, X)
  PROVE  RbGone(Result(NULL, 0), NULL, 0, {}, k, H)
<1>1. LET r == Result(NULL, 0) IN r.t = NULL /\ r.rc = 0 /\ r.ok
  BY DEF Result, Outcome
<1>2. Removed({}, k, {}, 0) /\ Shrunk(NULL, NULL, 0, {}, H)
  BY DEF Removed, Shrunk, RbTrees
<1> QED
  BY <1>1, <1>2 DEF RbGone

\* A removal in the left subtree
LEMMA RbRemovesLeft ==
  ASSUME NEW H, NEW X, NEW n, NEW m, NEW h, NEW b, NEW L, NEW R, NEW r, NEW q, NEW o, NEW k,
         RbTrees(H, X), RbOver(m, b, L, R, H, X),
         \A e \in EntriesOver(m, L, R) : e[1] = k => e \in L,
         \A t, M : M \in SUBSET L /\ Shrunk(m.left, t, b, M, H)
                   => Settled(n, Repair([m EXCEPT !.left = t]), h, EntriesOver(m, M, R), H, X),
         RbGone(r, m.left, b, L, k, H), o = TRUE,
         q = Repaired([m EXCEPT !.left = r.t], r.rc, o /\ r.ok)
  PROVE  RbRemoved(q, n, h, EntriesOver(m, L, R), k, H, X)
<1>1. PICK M : Removed(L, k, M, r.rc) /\ Shrunk(m.left, r.t, b, M, H)
  BY DEF RbGone
<1>2. Placed(m, L, R, X) /\ \A e \in X : e[1] \in Int
  BY DEF RbOver, Stands, RbTrees
<1>3. M \in SUBSET L /\ Removed(EntriesOver(m, L, R), k, EntriesOver(m, M, R), r.rc)
  BY <1>1, <1>2, RemovedLeft
<1>4. Settled(n, Repair([m EXCEPT !.left = r.t]), h, EntriesOver(m, M, R), H, X)
  BY <1>1, <1>3
<1>5. r.ok
  BY DEF RbGone
<1>6. q.t = Repair([m EXCEPT !.left = r.t]) /\ q.rc = r.rc /\ q.ok = (o /\ r.ok)
  BY OutcomeHas DEF Repaired
<1> QED
  BY <1>3, <1>4, <1>5, <1>6 DEF RbRemoved

\* A removal in the right subtree
LEMMA RbRemovesRight ==
  ASSUME NEW H, NEW X, NEW n, NEW m, NEW h, NEW b, NEW L, NEW R, NEW r, NEW q, NEW o, NEW k,
         RbTrees(H, X), Stands(m, L, R, X),
         \A e \in EntriesOver(m, L, R) : e[1] = k => e \in R,
         \A t, M, d : /\ M \in SUBSET R /\ Shrunk(m.right, t, b, M, H) /\ Puts(d, m, t, R, M)
                      => Settled(n, Repair(d), h, EntriesOver(d, L, M), H, X),
         RbGone(r, m.right, b, R, k, H), o = TRUE,
         q = Repaired([m EXCEPT !.right = r.t], r.rc, o /\ r.ok)
  PROVE  RbRemoved(q, n, h, EntriesOver(m, L, R), k, H, X)
<1>1. PICK M : Removed(R, k, M, r.rc) /\ Shrunk(m.right, r.t, b, M, H)
  BY DEF RbGone
<1>2. Placed(m, L, R, X) /\ (\A e \in X : e[1] \in Int) /\ IsNode(m)
  BY DEF Stands, RbTrees
<1>3. M \in SUBSET R /\ Removed(EntriesOver(m, L, R), k, EntriesOver(m, L, M), r.rc)
  BY <1>1, <1>2, RemovedRight
<1> DEFINE d == [m EXCEPT !.right = r.t]
<1>4. Puts(d, m, r.t, R, M)
  BY DEF Puts
<1>5. Entry(d) = Entry(m)
  BY <1>2, RightSet
<1>6. q.t = Repair(d) /\ q.rc = r.rc /\ q.ok = (o /\ r.ok)
  BY OutcomeHas DEF Repaired
<1> HIDE DEF d
<1>7. Settled(n, Repair(d), h, EntriesOver(d, L, M), H, X)
  BY <1>1, <1>3, <1>4
<1>8. EntriesOver(d, L, M) = EntriesOver(m, L, M)
  BY <1>5, StandsAs
<1>9. r.ok
  BY DEF RbGone
<1> QED
  BY <1>3, <1>6, <1>7, <1>8, <1>9 DEF RbRemoved

\* The removal of a node that the first one on its right replaces
LEMMA RbRemovesIt ==
  ASSUME NEW H, NEW X, NEW n, NEW m, NEW s, NEW h, NEW b, NEW L, NEW R, NEW r, NEW q, NEW o,
         RbTrees(H, X), Stands(m, L, R, X),
         \A t, M, d : /\ M \in SUBSET R /\ Shrunk(m.right, t, b, M, H) /\ Puts(d, m, t, R, M)
                      => Settled(n, Repair(d), h, EntriesOver(d, L, M), H, X),
         \E M : FirstGone(Entry(s), R, M), RbFirstTaken(r, m.right, b, R, H), o = TRUE,
         q = Repaired([MoveData(m, s) EXCEPT !.right = r.t], r.rc, o /\ r.ok)
  PROVE  RbRemoved(q, n, h, EntriesOver(m, L, R), m.key, H, X)
<1>1. PICK u, M : FirstGone(u, R, M) /\ Shrunk(m.right, r.t, b, M, H)
  BY DEF RbFirstTaken
<1>2. Placed(m, L, R, X) /\ (\A e \in X : e[1] \in Int) /\ IsNode(m)
  BY DEF Stands, RbTrees
<1>3. FirstGone(Entry(s), R, M)
  <2>1. PICK F : FirstGone(Entry(s), R, F)
    OBVIOUS
  <2>2. \A e \in R : e[1] \in Int
    BY <1>2 DEF Placed
  <2>3. Entry(s) = u /\ F = M
    BY <1>1, <2>1, <2>2, FirstUnique
  <2> QED
    BY <2>1, <2>3
<1> DEFINE d == [MoveData(m, s) EXCEPT !.right = r.t]
<1>4. q.t = Repair(d) /\ q.rc = r.rc /\ q.ok = (o /\ r.ok)
  BY OutcomeHas DEF Repaired
<1>5. Moved(d, m, s, r.t)
  BY DEF Moved
<1> HIDE DEF d
<1>6. Puts(d, m, r.t, R, M)
  <2>1. Entry(s)[1] = s.key
    BY DEF Entry
  <2>2. Entry(s) \in R /\ \A e \in M : s.key < e[1]
    BY <1>3, <2>1 DEF FirstGone
  <2> QED
    BY <1>5, <2>2 DEF Puts
<1>7. Entry(d) = Entry(s)
  BY <1>2, <1>5, MovedSet
<1>8. M \in SUBSET R /\ Removed(EntriesOver(m, L, R), m.key, EntriesOver(d, L, M), 1)
  BY <1>2, <1>3, <1>7, RemovedHere
<1>9. Settled(n, Repair(d), h, EntriesOver(d, L, M), H, X)
  BY <1>1, <1>6, <1>8
<1>10. r.ok /\ r.rc = 1
  BY DEF RbFirstTaken
<1> QED
  BY <1>4, <1>8, <1>9, <1>10 DEF RbRemoved

\* The removal of a leaf
LEMMA RbRemovesLeaf ==
  ASSUME NEW H, NEW X, NEW n, NEW h, NEW E, NEW q, RbTrees(H, X), IsNode(n),
      n.flag \in {RED, BLACK},
         Leaf(n, h, E), q = Outcome(NULL, 1, 0, n.left = NULL)
  PROVE  RbRemoved(q, n, h, E, n.key, H, X)
<1>1. n.left = NULL /\ n.right = NULL /\ E = {Entry(n)} /\ h = n.flag
  BY DEF Leaf
<1>2. q = Outcome(NULL, 1, 0, TRUE)
  BY <1>1
<1>3. q.t = NULL /\ q.rc = 1 /\ q.ok
  BY <1>2 DEF Outcome
<1>4. Entry(n)[1] = n.key
  BY DEF Entry
<1>5. Removed(E, n.key, {}, 1)
  BY <1>1, <1>4 DEF Removed
<1>6. <<NULL, 0, {}>> \in H /\ ~IsRed(NULL) /\ n # NULL
  BY DEF RbTrees, IsRed
<1>7. CASE n.flag = RED
  <2>1. Shrunk(n, NULL, h, {}, H)
    BY <1>1, <1>6, <1>7 DEF Shrunk, RED
  <2> QED
    BY <1>3, <1>5, <2>1 DEF RbRemoved, Settled
<1>8. CASE n.flag = BLACK
  <2>1. h - 1 = 0 /\ NoneRed(n)
    BY <1>1, <1>6, <1>8 DEF RED, BLACK, NoneRed, IsRed
  <2> QED
    BY <1>3, <1>5, <1>6, <2>1 DEF RbRemoved
<1> QED
  BY <1>7, <1>8

\* A removal of k calls itself for the trees of H and for lenders.
RbReached(n, H, X) ==
  (\E h, E : <<n, h, E>> \in H) \/ (\E h, E : Lender(n, h, E, H, X))

\* RbRemove is the recursion of the code, in a removal of k from each of them.
RbRemoving(k, H, X) ==
  \A n : RbReached(n, H, X)
    => RbRemove(n, k) = RbRemoveStep(n, k)

\* What is said of the removal holds for all subtrees lighter than w.
GoneBelow(w, k, H) ==
  \A n, h, E : /\ <<n, h, E>> \in H /\ Weight(n, h) < w /\ (n = NULL \/ NotTwo(n))
               => RbGone(RbRemove(n, k), n, h, E, k, H)

\* Two ways on: to the node itself, or further to the right.
LEMMA RbOnRightIs ==
  ASSUME NEW g, NEW k, NEW q, NEW m, NEW o,
         q = RbOnRight(g, k),
         m = IF IsTwoNode(g.right) THEN MoveRedRight(g) ELSE g,
         o = (IsTwoNode(g.right) => MayMoveRed(g))
  PROVE  /\ Compare(k, m.key) = 0
              => q = Repaired([MoveData(m,
                  Leftmost(m.right)) EXCEPT !.right = RbRemoveMin(m.right).t],
                              RbRemoveMin(m.right).rc, o /\ RbRemoveMin(m.right).ok)
         /\ Compare(k, m.key) # 0
              => q = Repaired([m EXCEPT !.right = RbRemove(m.right, k).t],
                  RbRemove(m.right, k).rc, o /\ RbRemove(m.right, k).ok)
  BY Zenon DEF RbOnRight

\* A removal at m, which replaces g, or in the tree to its right
LEMMA RbRemovesAbove ==
  ASSUME NEW H, NEW X, NEW k, NEW g, NEW m, NEW h, NEW b, NEW L, NEW R,
         NEW q, NEW o, RbTrees(H, X), Comparable(k, X), Leftmosts(H), RbTakingFirst(H),
         Stands(m, L, R, X), k \in Int, m.key <= k,
         \A t, M, d : /\ M \in SUBSET R /\ Shrunk(m.right, t, b, M, H) /\ Puts(d, m, t, R, M)
                      => Settled(g, Repair(d), h, EntriesOver(d, L, M), H, X),
         k = m.key => <<m.right, b, R>> \in H /\ m.right # NULL /\ NotTwo(m.right),
         k # m.key => RbGone(RbRemove(m.right, k), m.right, b, R, k, H),
         o = TRUE,
         Compare(k, m.key) = 0
           => q = Repaired([MoveData(m, Leftmost(m.right)) EXCEPT !.right = RbRemoveMin(m.right).t],
                           RbRemoveMin(m.right).rc, o /\ RbRemoveMin(m.right).ok),
         Compare(k, m.key) # 0
           => q = Repaired([m EXCEPT !.right = RbRemove(m.right, k).t],
                           RbRemove(m.right, k).rc, o /\ RbRemove(m.right, k).ok)
  PROVE  RbRemoved(q, g, h, EntriesOver(m, L, R), k, H, X)
<1>1. /\ Compare(k, m.key) = 0 <=> k = m.key
      /\ m.key \in Int /\ Placed(m, L, R, X) /\ \A e \in X : e[1] \in Int
  <2>1. Entry(m) \in X /\ Entry(m)[1] = m.key
    BY DEF Stands, Placed, Entry
  <2> QED
    BY <2>1 DEF Comparable, RbTrees, Stands
<1>2. CASE k = m.key
  <2>1. q = Repaired([MoveData(m, Leftmost(m.right)) EXCEPT !.right = RbRemoveMin(m.right).t],
                     RbRemoveMin(m.right).rc, o /\ RbRemoveMin(m.right).ok)
    BY <1>1, <1>2
  <2>2. <<m.right, b, R>> \in H /\ m.right # NULL /\ NotTwo(m.right)
    BY <1>2
  <2>3. \E M : FirstGone(Entry(Leftmost(m.right)), R, M)
    BY <2>2, RbLeftmostIsFirst
  <2>4. RbFirstTaken(RbRemoveMin(m.right), m.right, b, R, H)
    BY <2>2, RbTakesFirst
  <2>5. RbRemoved(q, g, h, EntriesOver(m, L, R), m.key, H, X)
    BY <2>1, <2>3, <2>4, RbRemovesIt
  <2> QED
    BY <1>2, <2>5
<1>3. CASE k # m.key
  <2>1. q = Repaired([m EXCEPT !.right = RbRemove(m.right, k).t],
                     RbRemove(m.right, k).rc, o /\ RbRemove(m.right, k).ok)
    BY <1>1, <1>3
  <2>2. RbGone(RbRemove(m.right, k), m.right, b, R, k, H)
    BY <1>3
  <2>3. m.key < k
    BY <1>1, <1>3
  <2>4. \A e \in EntriesOver(m, L, R) : e[1] = k => e \in R
    BY <1>1, <2>3, AboveIsRight
  <2> QED
    BY <2>1, <2>2, <2>4, RbRemovesRight
<1> QED
  BY <1>2, <1>3

\* A removal at a lender, which no entry precedes that it might look for
LEMMA RbRemovesLender ==
  ASSUME NEW H, NEW X, NEW k, NEW w, NEW b, NEW E,
         RbTrees(H, X), Comparable(k, X), Leftmosts(H), RbTakingFirst(H),
         RbRemoving(k, H, X), Lender(w, b, E, H, X), k \in Int, w.key <= k,
         GoneBelow(Weight(w, b), k, H)
  PROVE  RbGone(RbRemove(w, k), w, b, E, k, H)
<1>1. PICK c, P, Q : /\ c \in Nat /\ Poised(w, c, P, Q, H, X) /\ E = EntriesOver(w, P, Q)
          /\ b = c + 1
                     /\ w.flag = BLACK /\ IsRed(w.right)
  BY DEF Lender
<1>2. /\ RbOver(w, c, P, Q, H, X) /\ ~IsRed(w.left) /\ Stands(w, P, Q, X)
      /\ <<w.right, c, Q>> \in H /\ w # NULL /\ ~IsRed(w)
  BY <1>1, Colors DEF Poised, RbOver, RED, BLACK
<1>3. w.right # NULL /\ ~IsTwoNode(w.right) /\ NotTwo(w.right) /\ ~NoneRed(w)
  BY <1>1 DEF IsRed, IsTwoNode, NotTwo, NoneRed
<1>4. GoesRight(w, w, b, E, H, X)
  <2>1. c + w.flag = b
    BY <1>1 DEF BLACK
  <2> QED
    BY <1>1, <1>3, <2>1, RbRemovalGoesRight
<1>5. w.key \in Int /\ (Compare(k, w.key) < 0 <=> k < w.key)
  <2>1. Entry(w) \in X /\ Entry(w)[1] = w.key
    BY <1>2 DEF Stands, Placed, Entry
  <2> QED
    BY <2>1 DEF Comparable, RbTrees
<1> DEFINE q == RbOnRight(w, k)
<1>6. RbRemove(w, k) = q
  <2>1. RbRemove(w, k) = RbRemoveStep(w, k)
    BY DEF RbRemoving, RbReached
  <2>2. ~(Compare(k, w.key) < 0)
    BY <1>5
  <2> QED
    BY <1>2, <1>3, <2>1, <2>2, Zenon DEF RbRemoveStep
<1> DEFINE o == IsTwoNode(w.right) => MayMoveRed(w)
<1>7. /\ Compare(k, w.key) = 0
           => q = Repaired([MoveData(w, Leftmost(w.right)) EXCEPT !.right = RbRemoveMin(w.right).t],
                           RbRemoveMin(w.right).rc, o /\ RbRemoveMin(w.right).ok)
      /\ Compare(k, w.key) # 0
           => q = Repaired([w EXCEPT !.right = RbRemove(w.right, k).t], RbRemove(w.right, k).rc, o
               /\ RbRemove(w.right, k).ok)
      /\ o = TRUE
  <2>1. w = (IF IsTwoNode(w.right) THEN MoveRedRight(w) ELSE w) /\ o = TRUE
    BY <1>3
  <2>2. q = RbOnRight(w, k)
    OBVIOUS
  <2>3. o = (IsTwoNode(w.right) => MayMoveRed(w))
    OBVIOUS
  <2> HIDE DEF q, o
  <2> QED
    BY <2>1, <2>2, <2>3, RbOnRightIs
<1> HIDE DEF q, o
<1>8. PICK a, L, R :
        /\ Stands(w, L, R, X) /\ EntriesOver(w, L, R) = E
        /\ a \in Nat /\ Weight(w.right, a) < Weight(w, b) /\ <<w.right, a, R>> \in H
        /\ \A t, M, d : /\ M \in SUBSET R /\ Shrunk(w.right, t, a, M, H) /\ Puts(d, w, t, R, M)
                        => Settled(w, Repair(d), b, EntriesOver(d, L, M), H, X)
  <2>1. ~(w.key < w.key)
    BY <1>5
  <2> QED
    BY <1>4, <2>1 DEF GoesRight
<1>9. RbGone(RbRemove(w.right, k), w.right, a, R, k, H)
  BY <1>3, <1>8 DEF GoneBelow
<1>10. RbRemoved(q, w, b, E, k, H, X)
  BY <1>3, <1>7, <1>8, <1>9, RbRemovesAbove
<1> QED
  BY <1>3, <1>6, <1>10, RbGoneIs

\* A removal that goes on to the left of n
OnLeft(n, k) == RbFromLeft(n, RbRemove(RbToLeft(n).left, k))

\* What the functions compute and what of k does not overflow
RbRemovalBy(k, H, X) ==
  /\ RbTrees(H, X) /\ k \in Int /\ Comparable(k, X)
  /\ RbRemoving(k, H, X) /\ RbTakingFirst(H) /\ Leftmosts(H)

\* One level of a removal that goes on to the left
LEMMA RbRemovesBelow ==
  ASSUME NEW H, NEW X, NEW k, NEW n, NEW h, NEW E,
         RbRemovalBy(k, H, X), <<n, h, E>> \in H, n # NULL, k < n.key,
         GoneBelow(Weight(n, h), k, H)
  PROVE  RbRemoved(OnLeft(n, k), n, h, E, k, H, X)
<1>1. RbTrees(H, X) /\ k \in Int
  BY DEF RbRemovalBy
<1> DEFINE m == IF IsTwoNode(n.left) THEN MoveRedLeft(n) ELSE n
           o == IsTwoNode(n.left) => MayMoveRed(n)
           q == OnLeft(n, k)
<1>2. o = TRUE /\ GoesLeft(n, m, h, E, H, X)
  BY <1>1, RbRemovalGoesLeft
<1>3. q = Repaired([m EXCEPT !.left = RbRemove(m.left, k).t], RbRemove(m.left, k).rc, o
          /\ RbRemove(m.left, k).ok)
  BY Zenon DEF OnLeft, RbFromLeft, RbToLeft
<1> HIDE DEF m, o, q
<1>4. PICK b, L, R :
        /\ b \in Nat /\ RbOver(m, b, L, R, H, X) /\ EntriesOver(m, L, R) = E
        /\ m.left = NULL \/ NotTwo(m.left)
        /\ Weight(m.left, b) < Weight(n, h)
        /\ \A e \in E : e[1] < n.key => e \in L
        /\ \A t, M : M \in SUBSET L /\ Shrunk(m.left, t, b, M, H)
                 => Settled(n, Repair([m EXCEPT !.left = t]), h, EntriesOver(m, M, R), H, X)
  BY <1>2 DEF GoesLeft
<1>5. <<m.left, b, L>> \in H
  BY <1>4 DEF RbOver
<1>6. RbGone(RbRemove(m.left, k), m.left, b, L, k, H)
  BY <1>4, <1>5 DEF GoneBelow
<1>7. \A e \in EntriesOver(m, L, R) : e[1] = k => e \in L
  BY <1>4
<1>8. RbRemoved(q, n, h, E, k, H, X)
  BY <1>1, <1>2, <1>3, <1>4, <1>6, <1>7, RbRemovesLeft
<1> QED
  BY <1>8 DEF q

\* One level of a removal at n or to its right
LEMMA RbRemovesBeyond ==
  ASSUME NEW H, NEW X, NEW k, NEW g, NEW a, NEW P, NEW Q, NEW h, NEW E,
         RbRemovalBy(k, H, X), a \in Nat, Poised(g, a, P, Q, H, X), h = a + g.flag,
         E = EntriesOver(g, P, Q), g.key <= k, GoneBelow(Weight(g, h), k, H),
         ~(k = g.key /\ g.right = NULL)
  PROVE  RbRemoved(RbOnRight(g, k), g, h, E, k, H, X)
<1>1. /\ RbTrees(H, X) /\ k \in Int /\ Comparable(k, X)
      /\ RbRemoving(k, H, X) /\ RbTakingFirst(H) /\ Leftmosts(H)
  BY DEF RbRemovalBy
<1> DEFINE m == IF IsTwoNode(g.right) THEN MoveRedRight(g) ELSE g
           o == IsTwoNode(g.right) => MayMoveRed(g)
           q == RbOnRight(g, k)
<1>2. o = TRUE /\ GoesRight(g, m, h, E, H, X)
  BY <1>1, RbRemovalGoesRight
<1>3. /\ Compare(k, m.key) = 0
           => q = Repaired([MoveData(m, Leftmost(m.right)) EXCEPT !.right = RbRemoveMin(m.right).t],
                           RbRemoveMin(m.right).rc, o /\ RbRemoveMin(m.right).ok)
      /\ Compare(k, m.key) # 0
           => q = Repaired([m EXCEPT !.right = RbRemove(m.right, k).t],
                           RbRemove(m.right, k).rc, o /\ RbRemove(m.right, k).ok)
  <2>1. /\ q = RbOnRight(g, k)
        /\ m = IF IsTwoNode(g.right) THEN MoveRedRight(g) ELSE g
        /\ o = (IsTwoNode(g.right) => MayMoveRed(g))
    OBVIOUS
  <2> HIDE DEF m, o, q
  <2> QED
    BY <2>1, RbOnRightIs
<1> HIDE DEF m, o, q
<1>4. PICK b, L, R :
        /\ Stands(m, L, R, X) /\ EntriesOver(m, L, R) = E
        /\ b \in Nat /\ Weight(m.right, b) < Weight(g, h)
        /\ \/ /\ Entry(m) = Entry(g) /\ <<m.right, b, R>> \in H
              /\ IF g.right = NULL THEN m.right = NULL ELSE m.right # NULL /\ NotTwo(m.right)
           \/ m.key < g.key /\ Entry(m.right) = Entry(g) /\ Lender(m.right, b, R, H, X)
        /\ \A e \in E : g.key < e[1] => e \in R
        /\ \A t, M, d : /\ M \in SUBSET R /\ Shrunk(m.right, t, b, M, H) /\ Puts(d, m, t, R, M)
                        => Settled(g, Repair(d), h, EntriesOver(d, L, M), H, X)
  BY <1>2 DEF GoesRight
<1>5. CASE /\ Entry(m) = Entry(g) /\ <<m.right, b, R>> \in H
           /\ IF g.right = NULL THEN m.right = NULL ELSE m.right # NULL /\ NotTwo(m.right)
  <2>1. m.key = g.key
    BY <1>5 DEF Entry
  <2>2. k = m.key => m.right # NULL /\ NotTwo(m.right)
    BY <1>5, <2>1
  <2>3. RbGone(RbRemove(m.right, k), m.right, b, R, k, H)
    BY <1>4, <1>5 DEF GoneBelow
  <2>4. m.key <= k /\ (k = m.key => <<m.right, b, R>> \in H /\ m.right # NULL /\ NotTwo(m.right))
    BY <1>5, <2>1, <2>2
  <2>5. RbRemoved(q, g, h, EntriesOver(m, L, R), k, H, X)
    BY <1>1, <1>2, <1>3, <1>4, <2>3, <2>4, RbRemovesAbove
  <2> QED
    BY <1>4, <2>5 DEF q
<1>6. CASE m.key < g.key /\ Entry(m.right) = Entry(g) /\ Lender(m.right, b, R, H, X)
  <2>1. m.key < k /\ m.right.key = g.key
    <3>1. Entry(m) \in X /\ Entry(m)[1] = m.key /\ Entry(g) \in X /\ Entry(g)[1] = g.key
      BY <1>4 DEF Stands, Placed, Entry, Poised, RbOver
    <3>2. m.key \in Int /\ g.key \in Int
      BY <1>1, <3>1 DEF RbTrees
    <3> QED
      BY <1>1, <1>6, <3>2 DEF Entry
  <2>2. m.key \in Int /\ m.key <= k /\ k # m.key
    <3>1. Entry(m) \in X /\ Entry(m)[1] = m.key
      BY <1>4 DEF Stands, Placed, Entry
    <3> QED
      BY <1>1, <2>1, <3>1 DEF RbTrees
  <2>3. GoneBelow(Weight(m.right, b), k, H)
    <3> SUFFICES ASSUME NEW u, NEW c, NEW F, <<u, c, F>> \in H, Weight(u, c) < Weight(m.right, b),
                        u = NULL \/ NotTwo(u)
                 PROVE  RbGone(RbRemove(u, k), u, c, F, k, H)
      BY DEF GoneBelow
    <3>1. Weight(u, c) \in Int
      BY <1>1, HeightsAre
    <3>2. Weight(m.right, b) \in Int /\ Weight(g, h) \in Int
      <4>1. h \in Int
        BY <1>1, Colors DEF RED, BLACK, Poised, RbOver
      <4> QED
        BY <1>4, <4>1 DEF Weight
    <3>3. Weight(u, c) < Weight(g, h)
      BY <1>4, <3>1, <3>2
    <3> QED
      BY <3>3 DEF GoneBelow
  <2>4. RbGone(RbRemove(m.right, k), m.right, b, R, k, H)
    BY <1>1, <1>6, <2>1, <2>3, RbRemovesLender
  <2>5. RbRemoved(q, g, h, E, k, H, X)
    BY <1>1, <1>2, <1>3, <1>4, <2>2, <2>4, RbRemovesAbove
  <2> QED
    BY <2>5 DEF q
<1> QED
  BY <1>4, <1>5, <1>6

\* rb_n_remove does right on a tree if it does on all lighter ones.
LEMMA RbRemoves ==
  ASSUME NEW H, NEW X, NEW k, NEW n, NEW h, NEW E,
         RbRemovalBy(k, H, X), <<n, h, E>> \in H, n # NULL,
         GoneBelow(Weight(n, h), k, H)
  PROVE  RbRemoved(RbRemove(n, k), n, h, E, k, H, X)
<1>1. /\ RbTrees(H, X) /\ k \in Int /\ Comparable(k, X) /\ RbRemoving(k, H, X)
  BY DEF RbRemovalBy
<1> DEFINE g == IF IsRed(n.left) THEN RotateRight(n) ELSE n
<1>2. RbRemove(n, k) = RbRemoveStep(n, k)
  BY <1>1 DEF RbRemoving, RbReached
<1>3. Compare(k, n.key) < 0 => RbRemove(n, k) = OnLeft(n, k)
  BY <1>2, Zenon DEF RbRemoveStep, OnLeft
<1>4. ~(Compare(k, n.key) < 0)
        => RbRemove(n, k) = IF Compare(k, g.key) = 0 /\ g.right = NULL
                    THEN Outcome(NULL, 1, 0, g.left = NULL) ELSE RbOnRight(g, k)
  BY <1>2, Zenon DEF RbRemoveStep
<1>5. /\ \E b \in Nat : \E L, R :
           Poised(g, b, L, R, H, X) /\ E = EntriesOver(g, L, R) /\ h = b + g.flag
      /\ Weight(g, h) = Weight(n, h) /\ g.key <= n.key /\ (NoneRed(g) => g = n)
      /\ \A t, F : Settled(g, t, h, F, H, X) => Settled(n, t, h, F, H, X)
  BY <1>1, RbRemovalTurnsRight
<1> HIDE DEF g
<1>6. PICK b, L, R : b \in Nat /\ Poised(g, b, L, R, H, X) /\ E = EntriesOver(g, L, R)
          /\ h = b + g.flag
  BY <1>5
<1>7. /\ n.key \in Int /\ (Compare(k, n.key) < 0 <=> k < n.key)
      /\ g.key \in Int /\ (Compare(k, g.key) = 0 <=> k = g.key)
      /\ IsNode(g) /\ g.flag \in {RED, BLACK}
  <2>1. RbRoot(n, h, E, H, X)
    BY <1>1, RbTake
  <2>2. Entry(n) \in X /\ Entry(n)[1] = n.key
    BY <2>1 DEF RbRoot, RbOver, Stands, Placed, Entry
  <2>3. Entry(g) \in X /\ Entry(g)[1] = g.key /\ IsNode(g) /\ g.flag \in {RED, BLACK}
    BY <1>6 DEF Poised, RbOver, Stands, Placed, Entry
  <2> QED
    BY <1>1, <2>2, <2>3 DEF Comparable, RbTrees
<1>8. CASE k < n.key
  BY <1>3, <1>7, <1>8, RbRemovesBelow
<1>9. CASE ~(k < n.key)
  <2>1. g.key <= k
    BY <1>1, <1>5, <1>7, <1>9
  <2>2. RbRemoved(RbRemove(n, k), g, h, E, k, H, X)
    <3>1. CASE k = g.key /\ g.right = NULL
      <4>1. Leaf(g, h, E)
        BY <1>1, <1>6, <3>1, RbRemovalGoesRight
      <4>2. RbRemove(n, k) = Outcome(NULL, 1, 0, g.left = NULL)
        BY <1>4, <1>7, <1>9, <3>1
      <4>3. RbRemoved(RbRemove(n, k), g, h, E, g.key, H, X)
        BY <1>1, <1>7, <4>1, <4>2, RbRemovesLeaf
      <4> QED
        BY <3>1, <4>3
    <3>2. CASE ~(k = g.key /\ g.right = NULL)
      <4>1. RbRemove(n, k) = RbOnRight(g, k)
        BY <1>4, <1>7, <1>9, <3>2
      <4>2. GoneBelow(Weight(g, h), k, H)
        BY <1>5
      <4> QED
        BY <1>6, <2>1, <3>2, <4>1, <4>2, RbRemovesBeyond
    <3> QED
      BY <3>1, <3>2
  <2> QED
    BY <1>5, <2>2 DEF RbRemoved
<1> QED
  BY <1>8, <1>9

\* rb_n_remove as a whole: it takes the entry of the key out of a left-leaning tree and
\* leaves a tree of the same black height, or, of a 2-node, one whose black height is less
\* by one or is so once its root is made black; no assertion of the borrowing on the way
\* fails (rb.c:178-234).
THEOREM RbRemoveSound ==
  ASSUME NEW H, NEW X, NEW k, RbRemovalBy(k, H, X)
  PROVE  \A n, h, E : <<n, h, E>> \in H
           => IF n = NULL THEN RbGone(RbRemove(n, k), n, h, E, k,
               H) ELSE RbRemoved(RbRemove(n, k), n, h, E, k, H, X)
<1>1. RbTrees(H, X) /\ RbRemoving(k, H, X)
  BY DEF RbRemovalBy
<1>2. \A n, h, E : <<n, h, E>> \in H /\ n = NULL => RbGone(RbRemove(n, k), n, h, E, k, H)
  <2> SUFFICES ASSUME NEW h, NEW E,
          <<NULL, h, E>> \in H PROVE RbGone(RbRemove(NULL, k), NULL, h, E, k, H)
    OBVIOUS
  <2>1. h = 0 /\ E = {}
    BY <1>1 DEF RbTrees, RbRoot, RbOver, Stands
  <2>2. RbRemove(NULL, k) = RbRemoveStep(NULL, k)
    BY <1>1 DEF RbRemoving, RbReached
  <2>3. RbRemove(NULL, k) = Result(NULL, 0)
    BY <2>2, Zenon DEF RbRemoveStep
  <2> QED
    BY <1>1, <2>1, <2>3, RbRemovesNone
<1> DEFINE Bad == {b \in H : \E n, h, E : /\ b = <<n, h, E>> /\ n # NULL
                                          /\ ~RbRemoved(RbRemove(n, k), n, h, E, k, H, X)}
<1>3. \A n, h, E : <<n, h, E>> \in Bad
                     <=> <<n, h, E>> \in H /\ n # NULL
                         /\ ~RbRemoved(RbRemove(n, k), n, h, E, k, H, X)
  OBVIOUS
<1>4. Bad \in SUBSET H
  OBVIOUS
<1> HIDE DEF Bad
<1>5. ASSUME \E n, h, E : <<n, h, E>> \in Bad
      PROVE  FALSE
  <2>1. PICK n, h, E : /\ <<n, h, E>> \in Bad /\ <<n, h, E>> \in H
                       /\ \A m, g, F : <<m, g, F>> \in Bad => ~(Weight(m, g) < Weight(n, h))
    BY <1>1, <1>4, <1>5, RbLightest
  <2>2. GoneBelow(Weight(n, h), k, H)
    <3> SUFFICES ASSUME NEW m, NEW g, NEW F, <<m, g, F>> \in H, Weight(m, g) < Weight(n, h),
            m = NULL \/ NotTwo(m)
                 PROVE  RbGone(RbRemove(m, k), m, g, F, k, H)
      BY DEF GoneBelow
    <3>1. CASE m = NULL
      BY <1>2, <3>1
    <3>2. CASE m # NULL /\ NotTwo(m)
      <4>1. RbRemoved(RbRemove(m, k), m, g, F, k, H, X)
        BY <1>3, <2>1, <3>2
      <4>2. ~NoneRed(m)
        BY <3>2 DEF NotTwo, NoneRed
      <4> QED
        BY <4>1, <4>2, RbGoneIs
    <3> QED
      BY <3>1, <3>2
  <2>3. n # NULL /\ ~RbRemoved(RbRemove(n, k), n, h, E, k, H, X)
    BY <1>3, <2>1
  <2> QED
    BY <2>1, <2>2, <2>3, RbRemoves
<1> QED
  BY <1>2, <1>3, <1>5

-----------------------------------------------------------------------------
(* Searching red-black trees.                                              *)

\* T holds the trees of H with their weights for ranks.
Weighed(T, H) ==
  \A n, w, E : <<n, w, E>> \in T <=> \E h : <<n, h, E>> \in H /\ w = Weight(n, h)

\* Red-black trees are ordered, with their weights for ranks, so that FindSound holds of them.
LEMMA RbTreesOrdered ==
  ASSUME NEW H, NEW X, NEW T, RbTrees(H, X), Weighed(T, H)
  PROVE  OrderedTrees(T, X)
<1>1. \A e \in X : e[1] \in Int
  BY DEF RbTrees
<1>2. \A n, w, E : <<n, w, E>> \in T => w \in Nat /\ E \in SUBSET X /\ (n = NULL => E = {})
  <2> TAKE n, w, E
  <2> HAVE <<n, w, E>> \in T
  <2>1. PICK h : <<n, h, E>> \in H /\ w = Weight(n, h)
    BY DEF Weighed
  <2>2. w \in Nat /\ E \in SUBSET X
    BY <2>1, HeightsAre
  <2>3. n = NULL => E = {}
    BY <2>1, RbTake
  <2> QED
    BY <2>2, <2>3
<1>3. \A n, w, E : <<n, w, E>> \in T /\ n # NULL => OverLesser(n, w, E, T, X)
  <2> TAKE n, w, E
  <2> HAVE <<n, w, E>> \in T /\ n # NULL
  <2>1. PICK h : <<n, h, E>> \in H /\ w = Weight(n, h)
    BY DEF Weighed
  <2>2. PICK b, L, R :
           /\ b \in Nat /\ RbOver(n, b, L, R, H, X) /\ E = EntriesOver(n, L, R) /\ ~IsRed(n.right)
           /\ \/ n.flag = RED /\ IsRed(n) /\ h = b /\ ~IsRed(n.left)
              \/ n.flag = BLACK /\ ~IsRed(n) /\ h = b + 1
    BY <2>1, RbTop
  <2>3. Weight(n.left, b) < w /\ Weight(n.right, b) < w
    BY <2>1, <2>2, RbLighter
  <2>4. <<n.left, Weight(n.left, b), L>> \in T /\ <<n.right, Weight(n.right, b), R>> \in T
    BY <2>2 DEF RbOver, Weighed
  <2>5. Placed(n, L, R, X)
    BY <2>2 DEF RbOver, Stands
  <2> QED
    BY <2>2, <2>3, <2>4, <2>5 DEF OverLesser
<1> QED
  BY <1>1, <1>2, <1>3 DEF OrderedTrees

-----------------------------------------------------------------------------
(* What an ordered tree holds, and its subtrees.                           *)

KeysIn(E) == {e[1] : e \in E}

\* No two entries have the same key.
OnePerKey(E) == \A d, e \in E : d[1] = e[1] => d = e

\* The entries of an ordered tree have different keys.
LEMMA KeysDiffer ==
  ASSUME NEW T, NEW X, OrderedTrees(T, X)
  PROVE  \A n, w, E : <<n, w, E>> \in T => OnePerKey(E)
<1> DEFINE Bad == {b \in T : \E n, w, E : b = <<n, w, E>> /\ ~OnePerKey(E)}
<1>1. \A n, w, E : <<n, w, E>> \in Bad <=> <<n, w, E>> \in T /\ ~OnePerKey(E)
  OBVIOUS
<1>2. Bad \in SUBSET T
  OBVIOUS
<1> HIDE DEF Bad
<1> SUFFICES ASSUME \E n, w, E : <<n, w, E>> \in Bad
             PROVE  FALSE
  BY <1>1
<1>3. PICK n, w, E : /\ <<n, w, E>> \in Bad /\ <<n, w, E>> \in T
                     /\ \A m, g, F : <<m, g, F>> \in Bad => ~(g < w)
  BY <1>2, LeastRank
<1>4. ~OnePerKey(E) /\ \A e \in X : e[1] \in Int
  BY <1>1, <1>3 DEF OrderedTrees
<1>5. CASE n = NULL
  BY <1>3, <1>4, <1>5 DEF OrderedTrees, OnePerKey
<1>6. CASE n # NULL
  <2>1. PICK x, y, L, R :
         /\ <<n.left, x, L>> \in T /\ <<n.right, y, R>> \in T /\ x < w /\ y < w
         /\ Placed(n, L, R, X) /\ E = EntriesOver(n, L, R)
    BY <1>3, <1>6 DEF OrderedTrees, OverLesser
  <2>2. OnePerKey(L) /\ OnePerKey(R)
    BY <1>1, <1>3, <2>1
  <2>3. Entry(n)[1] = n.key /\ n.key \in Int
    BY <1>4, <2>1 DEF Placed, Entry
  <2>4. /\ \A e \in L : e[1] \in Int /\ e[1] < n.key
        /\ \A e \in R : e[1] \in Int /\ n.key < e[1]
    BY <1>4, <2>1 DEF Placed
  <2>5. OnePerKey(E)
    BY <2>1, <2>2, <2>3, <2>4 DEF EntriesOver, OnePerKey
  <2> QED
    BY <1>4, <2>5
<1> QED
  BY <1>5, <1>6

\* Subtrees is the recursion of the code on each tree of T.
Branching(T) == \A n, w, E : <<n, w, E>> \in T => Subtrees(n) = SubtreesStep(n)

\* The nodes of n are trees of T and hold, one by one, what n holds.
NodesHold(n, E, T) ==
  /\ \A m \in Subtrees(n) : m # NULL /\ Entry(m) \in E /\ \E g, F : <<m, g, F>> \in T
  /\ \A e \in E : \E m \in Subtrees(n) : Entry(m) = e

LEMMA SubtreesHold ==
  ASSUME NEW T, NEW X, OrderedTrees(T, X), Branching(T)
  PROVE  \A n, w, E : <<n, w, E>> \in T => NodesHold(n, E, T)
<1> DEFINE Bad == {b \in T : \E n, w, E : b = <<n, w, E>> /\ ~NodesHold(n, E, T)}
<1>1. \A n, w, E : <<n, w, E>> \in Bad <=> <<n, w, E>> \in T /\ ~NodesHold(n, E, T)
  OBVIOUS
<1>2. Bad \in SUBSET T
  OBVIOUS
<1> HIDE DEF Bad
<1> SUFFICES ASSUME \E n, w, E : <<n, w, E>> \in Bad
             PROVE  FALSE
  BY <1>1
<1>3. PICK n, w, E : /\ <<n, w, E>> \in Bad /\ <<n, w, E>> \in T
                     /\ \A m, g, F : <<m, g, F>> \in Bad => ~(g < w)
  BY <1>2, LeastRank
<1>4. ~NodesHold(n, E, T) /\ Subtrees(n) = SubtreesStep(n)
  BY <1>1, <1>3 DEF Branching
<1>5. CASE n = NULL
  <2>1. Subtrees(n) = {} /\ E = {}
    BY <1>3, <1>4, <1>5 DEF OrderedTrees, SubtreesStep
  <2> QED
    BY <1>4, <2>1 DEF NodesHold
<1>6. CASE n # NULL
  <2>1. PICK x, y, L, R :
         /\ <<n.left, x, L>> \in T /\ <<n.right, y, R>> \in T /\ x < w /\ y < w
         /\ Placed(n, L, R, X) /\ E = EntriesOver(n, L, R)
    BY <1>3, <1>6 DEF OrderedTrees, OverLesser
  <2>2. NodesHold(n.left, L, T) /\ NodesHold(n.right, R, T)
    BY <1>1, <1>3, <2>1
  <2>3. Subtrees(n) = {n} \cup Subtrees(n.left) \cup Subtrees(n.right)
    BY <1>4, <1>6 DEF SubtreesStep
  <2>4. NodesHold(n, E, T)
    BY <1>3, <1>6, <2>1, <2>2, <2>3 DEF EntriesOver, NodesHold
  <2> QED
    BY <1>4, <2>4
<1> QED
  BY <1>5, <1>6

\* What the entries E map to what
MapOf(E) == [k \in KeysIn(E) |-> (CHOOSE e \in E : e[1] = k)[2]]

LEMMA MapAt ==
  ASSUME NEW E, NEW e, OnePerKey(E), e \in E
  PROVE  e[1] \in DOMAIN MapOf(E) /\ MapOf(E)[e[1]] = e[2]
<1>1. e[1] \in KeysIn(E)
  BY DEF KeysIn
<1>2. PICK d : d = CHOOSE c \in E : c[1] = e[1]
  OBVIOUS
<1>3. d \in E /\ d[1] = e[1]
  BY <1>2
<1>4. d = e
  BY <1>3 DEF OnePerKey
<1> QED
  BY <1>1, <1>2, <1>4 DEF MapOf

\* The contents of a tree are the map of what it holds.
LEMMA EntriesAre ==
  ASSUME NEW T, NEW n, NEW E, NodesHold(n, E, T), OnePerKey(E)
  PROVE  EntriesOf(n) = MapOf(E)
<1> DEFINE K == {m.key : m \in Subtrees(n)}
<1>1. \A m : Entry(m)[1] = m.key /\ Entry(m)[2] = m.val
  BY DEF Entry
<1>2. K = KeysIn(E)
  BY <1>1 DEF KeysIn, NodesHold
<1>3. ASSUME NEW k \in K
      PROVE  (CHOOSE m \in Subtrees(n) : m.key = k).val = MapOf(E)[k]
  <2>1. PICK m : m = CHOOSE x \in Subtrees(n) : x.key = k
    OBVIOUS
  <2>2. m \in Subtrees(n) /\ m.key = k
    BY <2>1
  <2>3. Entry(m) \in E
    BY <2>2 DEF NodesHold
  <2>4. MapOf(E)[Entry(m)[1]] = Entry(m)[2]
    BY <2>3, MapAt
  <2> QED
    BY <1>1, <2>1, <2>2, <2>4
<1>4. EntriesOf(n) = [k \in K |-> MapOf(E)[k]]
  BY <1>3 DEF EntriesOf
<1>5. MapOf(E) = [k \in KeysIn(E) |-> MapOf(E)[k]]
  BY DEF MapOf
<1> QED
  BY <1>2, <1>4, <1>5

\* The map m with k mapped to v
Put(m, k, v) == [x \in DOMAIN m \cup {k} |-> IF x = k THEN v ELSE m[x]]

\* What an insertion makes of a map
MapInserted(m, k, v, alloc, p, code) ==
  IF k \in DOMAIN m THEN code = 0 /\ p = IF v = NULL THEN m ELSE Put(m, k, v)
  ELSE IF alloc THEN code = 1 /\ p = Put(m, k, v) ELSE code = -1 /\ p = m

LEMMA InsertedInMap ==
  ASSUME NEW E, NEW F, NEW k, NEW v, NEW alloc, NEW code, OnePerKey(E), OnePerKey(F),
         Inserted(E, k, v, alloc, F, code)
  PROVE  /\ MapInserted(MapOf(E), k, v, alloc, MapOf(F), code)
         /\ KeysIn(F) = IF code = 1 THEN KeysIn(E) \cup {k} ELSE KeysIn(E)
         /\ code = 1 => k \notin KeysIn(E)
         /\ code \in {-1, 0, 1}
<1>1. DOMAIN MapOf(E) = KeysIn(E) /\ DOMAIN MapOf(F) = KeysIn(F)
  BY DEF MapOf
<1>2. k \in KeysIn(E) <=> \E e \in E : e[1] = k
  BY DEF KeysIn
<1>3. <<k, v>>[1] = k /\ <<k, v>>[2] = v
  OBVIOUS
<1>4. CASE F = E
  <2>1. code # 1
    <3>1. (\E e \in E : e[1] = k) => code = 0
      BY DEF Inserted
    <3>2. ~(\E e \in E : e[1] = k) /\ code = 1 => <<k, v>> \in E
      BY <1>4 DEF Inserted
    <3> QED
      BY <1>3, <3>1, <3>2
  <2>2. k \in KeysIn(E) => code = 0 /\ (v # NULL => MapOf(E) = Put(MapOf(E), k, v))
    <3> SUFFICES ASSUME k \in KeysIn(E), v # NULL PROVE MapOf(E) = Put(MapOf(E), k, v)
      BY <1>2 DEF Inserted
    <3>1. <<k, v>> \in E
      BY <1>2, <1>4 DEF Inserted
    <3>2. MapOf(E)[k] = v
      BY <1>3, <3>1, MapAt
    <3> QED
      <4>1. MapOf(E) = [x \in KeysIn(E) |-> MapOf(E)[x]] /\ KeysIn(E) = KeysIn(E) \cup {k}
        BY DEF MapOf
      <4> QED
        BY <1>1, <3>2, <4>1 DEF Put
  <2>3. k \notin KeysIn(E) => ~alloc /\ code = -1
    BY <1>2, <2>1 DEF Inserted
  <2> QED
    BY <1>1, <1>4, <2>1, <2>2, <2>3 DEF MapInserted
<1>5. CASE F # E
  <2>1. /\ <<k, v>> \in F
        /\ \A e \in F : e = <<k, v>> \/ e \in E
        /\ \A e \in E : e[1] = k \/ e \in F
    BY <1>5 DEF Inserted
  <2>2. KeysIn(F) = KeysIn(E) \cup {k}
    BY <1>3, <2>1 DEF KeysIn
  <2>3. MapOf(F)[k] = v
    BY <1>3, <2>1, MapAt
  <2>4. ASSUME NEW x \in KeysIn(E), x # k PROVE MapOf(F)[x] = MapOf(E)[x]
    <3>1. PICK e \in E : e[1] = x
      BY DEF KeysIn
    <3>2. e \in F
      BY <2>1, <2>4, <3>1
    <3> QED
      BY <3>1, <3>2, MapAt
  <2>5. MapOf(F) = Put(MapOf(E), k, v)
    <3>1. MapOf(F) = [x \in KeysIn(F) |-> MapOf(F)[x]]
      BY DEF MapOf
    <3> QED
      BY <1>1, <2>2, <2>3, <2>4, <3>1 DEF Put
  <2> QED
    BY <1>1, <1>2, <1>5, <2>2, <2>5 DEF MapInserted, Inserted
<1> QED
  BY <1>4, <1>5

\* What a removal makes of a map
MapRemoved(m, k, p, code) ==
  IF k \in DOMAIN m THEN code = 1 /\ p = [x \in DOMAIN m \ {k} |-> m[x]] ELSE code = 0 /\ p = m

LEMMA RemovedFromMap ==
  ASSUME NEW E, NEW F, NEW k, NEW code, OnePerKey(E), Removed(E, k, F, code)
  PROVE  /\ MapRemoved(MapOf(E), k, MapOf(F), code)
         /\ KeysIn(F) = IF code = 1 THEN KeysIn(E) \ {k} ELSE KeysIn(E)
         /\ code = 1 => k \in KeysIn(E)
         /\ code \in {0, 1}
<1>1. DOMAIN MapOf(E) = KeysIn(E) /\ DOMAIN MapOf(F) = KeysIn(F)
  BY DEF MapOf
<1>2. k \in KeysIn(E) <=> \E e \in E : e[1] = k
  BY DEF KeysIn
<1>3. CASE k \notin KeysIn(E)
  BY <1>1, <1>2, <1>3 DEF Removed, MapRemoved
<1>4. CASE k \in KeysIn(E)
  <2>1. code = 1 /\ F = {e \in E : e[1] # k}
    BY <1>2, <1>4 DEF Removed
  <2>2. KeysIn(F) = KeysIn(E) \ {k} /\ OnePerKey(F)
    BY <2>1 DEF KeysIn, OnePerKey
  <2>3. ASSUME NEW x \in KeysIn(F) PROVE MapOf(F)[x] = MapOf(E)[x]
    <3>1. PICK e \in F : e[1] = x
      BY DEF KeysIn
    <3>2. e \in E
      BY <2>1
    <3> QED
      BY <2>2, <3>1, <3>2, MapAt
  <2>4. MapOf(F) = [x \in KeysIn(F) |-> MapOf(F)[x]]
    BY DEF MapOf
  <2> QED
    BY <1>1, <1>4, <2>1, <2>2, <2>3, <2>4 DEF MapRemoved
<1> QED
  BY <1>3, <1>4

-----------------------------------------------------------------------------
(* The walks.                                                              *)

\* The keys of a walk on the left of k, k, and those of a walk on its right
Joined(a, k, b) == Append(a, k) \o b

\* u is a, k and b one after the other.
Joins(u, a, k, b) ==
  /\ u \in Seq(Int) /\ Len(u) = Len(a) + 1 + Len(b) /\ Len(a) \in Nat /\ Len(b) \in Nat
  /\ \A p \in 1 .. Len(a) : u[p] = a[p]
  /\ u[Len(a) + 1] = k
  /\ \A p \in 1 .. Len(b) : u[Len(a) + 1 + p] = b[p]

LEMMA JoinedHas ==
  ASSUME NEW a \in Seq(Int), NEW b \in Seq(Int), NEW k \in Int
  PROVE  Joins(Joined(a, k, b), a, k, b)
<1> DEFINE c == Append(a, k)
<1>1. /\ c \in Seq(Int) /\ Len(c) = Len(a) + 1 /\ \A p \in 1 .. Len(a) : c[p] = a[p]
      /\ c[Len(a) + 1] = k
  BY AppendProperties
<1>2. Len(a) \in Nat /\ Len(b) \in Nat
  BY LenProperties
<1> HIDE DEF c
<1>3. /\ c \o b \in Seq(Int) /\ Len(c \o b) = Len(c) + Len(b)
      /\ \A i \in 1 .. Len(c) + Len(b) : (c \o b)[i] = IF i <= Len(c) THEN c[i] ELSE b[i - Len(c)]
  BY <1>1, ConcatProperties
<1>4. \A p \in 1 .. Len(a) : (c \o b)[p] = a[p]
  BY <1>1, <1>2, <1>3
<1>5. (c \o b)[Len(a) + 1] = k
  BY <1>1, <1>2, <1>3
<1>6. ASSUME NEW p \in 1 .. Len(b) PROVE (c \o b)[Len(a) + 1 + p] = b[p]
  <2>1. PICK i \in Int : i = Len(a) + 1 + p
    BY <1>2
  <2>2. i \in 1 .. Len(c) + Len(b) /\ ~(i <= Len(c)) /\ i - Len(c) = p
    BY <1>1, <1>2, <2>1
  <2> QED
    BY <1>3, <2>1, <2>2
<1> QED
  BY <1>1, <1>2, <1>3, <1>4, <1>5, <1>6 DEF Joined, c, Joins

\* The same keys in the other direction
Reversed(up) == [p \in 1 .. Len(up) |-> up[Len(up) + 1 - p]]

LEMMA ReversedHas ==
  ASSUME NEW up \in Seq(Int)
  PROVE  /\ Reversed(up) \in Seq(Int) /\ Len(Reversed(up)) = Len(up) /\ Len(up) \in Nat
         /\ \A p \in 1 .. Len(up) : /\ Reversed(up)[p] = up[Len(up) + 1 - p]
                                    /\ Reversed(up)[p] \in Int
<1>1. Len(up) \in Nat
  BY LenProperties
<1>2. \A p \in 1 .. Len(up) : up[p] \in Int
  BY ElementOfSeq
<1>3. Reversed(up) \in [1 .. Len(up) -> Int]
  BY <1>1, <1>2 DEF Reversed
<1>4. Reversed(up) \in Seq(Int)
  BY <1>1, <1>3, SeqDef
<1>5. Len(Reversed(up)) = Len(up)
  BY <1>1, <1>3, <1>4, LenProperties
<1> QED
  BY <1>1, <1>2, <1>3, <1>4, <1>5 DEF Reversed

LEMMA ReversedJoined ==
  ASSUME NEW a \in Seq(Int), NEW b \in Seq(Int), NEW k \in Int
  PROVE  Reversed(Joined(a, k, b)) = Joined(Reversed(b), k, Reversed(a))
<1> DEFINE u == Joined(a, k, b)
           x == Reversed(a)
           y == Reversed(b)
           d == Joined(y, k, x)
           r == Reversed(u)
<1>1. /\ u \in Seq(Int) /\ Len(u) = Len(a) + 1 + Len(b)
      /\ \A p \in 1 .. Len(a) : u[p] = a[p]
      /\ u[Len(a) + 1] = k
      /\ \A p \in 1 .. Len(b) : u[Len(a) + 1 + p] = b[p]
  <2>1. Joins(u, a, k, b)
    BY JoinedHas
  <2> HIDE DEF u
  <2> QED
    BY <2>1 DEF Joins
<1>2. /\ x \in Seq(Int) /\ Len(x) = Len(a) /\ Len(a) \in Nat
      /\ \A p \in 1 .. Len(a) : x[p] = a[Len(a) + 1 - p]
  BY ReversedHas
<1>3. /\ y \in Seq(Int) /\ Len(y) = Len(b) /\ Len(b) \in Nat
      /\ \A p \in 1 .. Len(b) : y[p] = b[Len(b) + 1 - p]
  BY ReversedHas
<1> HIDE DEF u, x, y
<1>4. /\ d \in Seq(Int) /\ Len(d) = Len(y) + 1 + Len(x)
      /\ \A p \in 1 .. Len(y) : d[p] = y[p]
      /\ d[Len(y) + 1] = k
      /\ \A p \in 1 .. Len(x) : d[Len(y) + 1 + p] = x[p]
  <2>1. x \in Seq(Int) /\ y \in Seq(Int)
    BY <1>2, <1>3
  <2>2. /\ Joined(y, k, x) \in Seq(Int) /\ Len(Joined(y, k, x)) = Len(y) + 1 + Len(x)
        /\ \A p \in 1 .. Len(y) : Joined(y, k, x)[p] = y[p]
        /\ Joined(y, k, x)[Len(y) + 1] = k
    <3>1. Joins(Joined(y, k, x), y, k, x)
      BY <2>1, JoinedHas
    <3> QED
      BY <3>1 DEF Joins
  <2>3. \A p \in 1 .. Len(x) : Joined(y, k, x)[Len(y) + 1 + p] = x[p]
    BY <2>1, JoinedHas DEF Joins
  <2> QED
    BY <2>2, <2>3
<1>5. /\ r \in Seq(Int) /\ Len(r) = Len(u)
      /\ \A p \in 1 .. Len(u) : r[p] = u[Len(u) + 1 - p]
  BY <1>1, ReversedHas
<1> HIDE DEF d, r
<1>6. Len(r) = Len(d)
  BY <1>1, <1>2, <1>3, <1>4, <1>5
<1>7. ASSUME NEW i \in 1 .. Len(r) PROVE r[i] = d[i]
  <2>1. r[i] = u[Len(u) + 1 - i] /\ i \in Int
    BY <1>5
  <2>2. CASE i <= Len(b)
    <3>0. Len(b) + 1 - i \in Int
      BY <1>3, <2>1
    <3>1. PICK p \in Int : p = Len(b) + 1 - i
      BY <3>0
    <3>2. p \in 1 .. Len(b) /\ Len(a) + 1 + p = Len(u) + 1 - i
      BY <1>1, <1>2, <1>3, <2>2, <3>1
    <3>3. u[Len(a) + 1 + p] = b[p]
      BY <1>1, <3>2
    <3>4. i \in 1 .. Len(y) /\ i \in 1 .. Len(b)
      BY <1>1, <1>2, <1>3, <1>5, <2>2
    <3>5. d[i] = b[p]
      BY <1>3, <1>4, <3>1, <3>4
    <3> QED
      BY <2>1, <3>2, <3>3, <3>5
  <2>3. CASE i = Len(b) + 1
    <3>1. Len(u) + 1 - i = Len(a) + 1 /\ i = Len(y) + 1
      BY <1>1, <1>2, <1>3, <2>3
    <3> QED
      BY <1>1, <1>4, <2>1, <3>1
  <2>4. CASE i > Len(b) + 1
    <3>0. i - (Len(b) + 1) \in Int
      BY <1>3, <2>1
    <3>1. PICK p \in Int : p = i - (Len(b) + 1)
      BY <3>0
    <3>2. p \in 1 .. Len(x) /\ p \in 1 .. Len(a) /\ Len(y) + 1 + p = i
      BY <1>1, <1>2, <1>3, <1>5, <2>4, <3>1
    <3>3. d[i] = a[Len(a) + 1 - p]
      BY <1>2, <1>4, <3>2
    <3>4. Len(a) + 1 - p \in 1 .. Len(a) /\ Len(u) + 1 - i = Len(a) + 1 - p
      BY <1>1, <1>2, <1>3, <3>1, <3>2
    <3>5. u[Len(a) + 1 - p] = a[Len(a) + 1 - p]
      BY <1>1, <3>4
    <3> QED
      BY <2>1, <3>3, <3>4, <3>5
  <2> QED
    BY <1>3, <2>2, <2>3, <2>4
<1>8. r = d
  BY <1>4, <1>5, <1>6, <1>7, SeqEqual
<1> QED
  BY <1>8 DEF r, d, u, x, y

\* What a walk along up returns that stops at the first key of s
StoppedAt(up, s, r) ==
  \/ (\A p \in 1 .. Len(up) : up[p] \notin s) /\ r = Walked(up, 0)
  \/ \E p \in 1 .. Len(up) : /\ up[p] \in s /\ r = Walked(SubSeq(up, 1, p), 1)
                             /\ \A q \in 1 .. Len(up) : q < p => up[q] \notin s

LEMMA WalkedHas ==
  ASSUME NEW a, NEW c
  PROVE  Walked(a, c).keys = a /\ Walked(a, c).rc = c
  BY DEF Walked

\* A walk that stops on the left of k, ...
LEMMA StopsLeft ==
  ASSUME NEW a \in Seq(Int), NEW b \in Seq(Int), NEW k \in Int, NEW s, NEW l,
         StoppedAt(a, s, l), l.rc # 0
  PROVE  StoppedAt(Joined(a, k, b), s, l)
<1> DEFINE u == Joined(a, k, b)
<1>1. /\ u \in Seq(Int) /\ Len(u) = Len(a) + 1 + Len(b) /\ Len(a) \in Nat /\ Len(b) \in Nat
      /\ \A p \in 1 .. Len(a) : u[p] = a[p]
  <2>1. Joins(u, a, k, b)
    BY JoinedHas
  <2> HIDE DEF u
  <2> QED
    BY <2>1 DEF Joins
<1> HIDE DEF u
<1>2. PICK p \in 1 .. Len(a) : /\ a[p] \in s /\ l = Walked(SubSeq(a, 1, p), 1)
                               /\ \A q \in 1 .. Len(a) : q < p => a[q] \notin s
  BY WalkedHas DEF StoppedAt
<1>3. SubSeq(u, 1, p) = SubSeq(a, 1, p)
  <2>1. p \in Int /\ \A i \in 1 .. p : i \in 1 .. Len(a) /\ i \in 1 .. Len(u)
    BY <1>1
  <2>2. \A i \in 1 .. p : u[i] \in Int /\ a[i] \in Int
    BY <1>1, <2>1, ElementOfSeq
  <2>3. /\ SubSeq(u, 1, p) \in Seq(Int) /\ Len(SubSeq(u, 1, p)) = p
        /\ \A i \in 1 .. p : SubSeq(u, 1, p)[i] = u[i]
    <3>1. /\ SubSeq(u, 1, p) \in Seq(Int)
          /\ Len(SubSeq(u, 1, p)) = IF 1 <= p THEN p - 1 + 1 ELSE 0
          /\ \A i \in 1 .. p - 1 + 1 : SubSeq(u, 1, p)[i] = u[1 + i - 1]
      BY <2>1, <2>2, SubSeqProperties
    <3> QED
      BY <2>1, <3>1
  <2>4. /\ SubSeq(a, 1, p) \in Seq(Int) /\ Len(SubSeq(a, 1, p)) = p
        /\ \A i \in 1 .. p : SubSeq(a, 1, p)[i] = a[i]
    <3>1. /\ SubSeq(a, 1, p) \in Seq(Int)
          /\ Len(SubSeq(a, 1, p)) = IF 1 <= p THEN p - 1 + 1 ELSE 0
          /\ \A i \in 1 .. p - 1 + 1 : SubSeq(a, 1, p)[i] = a[1 + i - 1]
      BY <2>1, <2>2, SubSeqProperties
    <3> QED
      BY <2>1, <3>1
  <2>5. \A i \in 1 .. p : SubSeq(u, 1, p)[i] = SubSeq(a, 1, p)[i]
    BY <1>1, <2>1, <2>3, <2>4
  <2> QED
    BY <2>3, <2>4, <2>5, SeqEqual
<1>4. p \in 1 .. Len(u) /\ u[p] \in s /\ l = Walked(SubSeq(u, 1, p), 1)
  <2>1. p \in 1 .. Len(u) /\ u[p] = a[p]
    BY <1>1
  <2> QED
    BY <1>2, <1>3, <2>1
<1>5. ASSUME NEW q \in 1 .. Len(u), q < p PROVE u[q] \notin s
  <2>1. q \in 1 .. Len(a)
    BY <1>1, <1>5
  <2> QED
    BY <1>1, <1>2, <1>5, <2>1
<1> QED
  BY <1>4, <1>5 DEF StoppedAt, u

\* ... at k ...
LEMMA StopsHere ==
  ASSUME NEW a \in Seq(Int), NEW b \in Seq(Int), NEW k \in Int, NEW s, NEW l,
         StoppedAt(a, s, l), l.rc = 0, k \in s
  PROVE  StoppedAt(Joined(a, k, b), s, Walked(Append(l.keys, k), 1))
<1> DEFINE u == Joined(a, k, b)
           c == Append(a, k)
<1>1. /\ u \in Seq(Int) /\ Len(u) = Len(a) + 1 + Len(b) /\ Len(a) \in Nat /\ Len(b) \in Nat
      /\ \A p \in 1 .. Len(a) : u[p] = a[p]
      /\ u[Len(a) + 1] = k
  BY JoinedHas DEF Joins
<1>2. c \in Seq(Int) /\ Len(c) = Len(a) + 1 /\ u = c \o b
  BY AppendProperties DEF Joined
<1> HIDE DEF u, c
<1>3. l.keys = a /\ \A p \in 1 .. Len(a) : a[p] \notin s
  BY WalkedHas DEF StoppedAt
<1>4. SubSeq(u, 1, Len(c)) = c
  <2>1. 1 \in 1 .. Len(c) /\ Len(c) \in 1 .. Len(c)
    BY <1>1, <1>2
  <2>2. SubSeq(c \o b, 1, Len(c)) = SubSeq(c, 1, Len(c))
    BY <1>2, <2>1, SubSeqOfConcat1
  <2> QED
    BY <1>2, <2>2, SubSeqFull
<1>5. PICK p \in Int : p = Len(a) + 1
  BY <1>1
<1>6. p \in 1 .. Len(u) /\ u[p] \in s /\ SubSeq(u, 1, p) = c
  BY <1>1, <1>2, <1>4, <1>5
<1>7. ASSUME NEW q \in 1 .. Len(u), q < p PROVE u[q] \notin s
  <2>1. q \in 1 .. Len(a)
    BY <1>1, <1>5, <1>7
  <2> QED
    BY <1>1, <1>3, <2>1
<1>8. StoppedAt(u, s, Walked(c, 1))
  BY <1>6, <1>7 DEF StoppedAt
<1> QED
  BY <1>3, <1>8 DEF u, c

\* A first part of a sequence
LEMMA FirstPart ==
  ASSUME NEW u \in Seq(Int), NEW n \in 1 .. Len(u)
  PROVE  /\ SubSeq(u, 1, n) \in Seq(Int) /\ Len(SubSeq(u, 1, n)) = n
         /\ \A i \in 1 .. n : SubSeq(u, 1, n)[i] = u[i]
<1>1. Len(u) \in Nat /\ n \in Int
  BY LenProperties
<1>2. \A i \in 1 .. n : u[i] \in Int
  BY <1>1, ElementOfSeq
<1>3. /\ SubSeq(u, 1, n) \in Seq(Int)
      /\ Len(SubSeq(u, 1, n)) = IF 1 <= n THEN n - 1 + 1 ELSE 0
      /\ \A i \in 1 .. n - 1 + 1 : SubSeq(u, 1, n)[i] = u[1 + i - 1]
  BY <1>1, <1>2, SubSeqProperties
<1> QED
  BY <1>1, <1>3

\* The first part of a joined walk that ends on the right of k
LEMMA PartJoined ==
  ASSUME NEW a \in Seq(Int), NEW b \in Seq(Int), NEW k \in Int, NEW p \in 1 .. Len(b)
  PROVE  SubSeq(Joined(a, k, b), 1, Len(a) + 1 + p) = Joined(a, k, SubSeq(b, 1, p))
<1> DEFINE u == Joined(a, k, b)
           d == SubSeq(b, 1, p)
           w == Joined(a, k, d)
           n == Len(a) + 1 + p
           t == SubSeq(u, 1, n)
<1>0. Joins(u, a, k, b)
  BY JoinedHas
<1>1. /\ u \in Seq(Int) /\ Len(u) = Len(a) + 1 + Len(b) /\ Len(a) \in Nat /\ Len(b) \in Nat
      /\ \A q \in 1 .. Len(a) : u[q] = a[q]
      /\ u[Len(a) + 1] = k
      /\ \A q \in 1 .. Len(b) : u[Len(a) + 1 + q] = b[q]
  BY <1>0 DEF Joins
<1>2. d \in Seq(Int) /\ Len(d) = p /\ \A i \in 1 .. p : d[i] = b[i]
  BY FirstPart
<1> HIDE DEF d
<1>3. /\ w \in Seq(Int) /\ Len(w) = Len(a) + 1 + Len(d)
      /\ \A q \in 1 .. Len(a) : w[q] = a[q]
      /\ w[Len(a) + 1] = k
      /\ \A q \in 1 .. Len(d) : w[Len(a) + 1 + q] = d[q]
  <2>1. Joins(w, a, k, d)
    BY <1>2, JoinedHas
  <2> HIDE DEF w
  <2> QED
    BY <2>1 DEF Joins
<1> HIDE DEF u, w
<1>4. n \in 1 .. Len(u)
  BY <1>1
<1>5. t \in Seq(Int) /\ Len(t) = n /\ \A i \in 1 .. n : t[i] = u[i]
  <2> HIDE DEF n
  <2> QED
    BY <1>1, <1>4, FirstPart
<1>6. ASSUME NEW i \in 1 .. n PROVE t[i] = w[i]
  <2>1. t[i] = u[i] /\ i \in Int
    BY <1>5
  <2>2. CASE i <= Len(a)
    BY <1>1, <1>3, <2>1, <2>2
  <2>3. CASE i = Len(a) + 1
    BY <1>1, <1>3, <2>1, <2>3
  <2>4. CASE i > Len(a) + 1
    <3>0. i - (Len(a) + 1) \in Int
      BY <1>1, <2>1
    <3>1. PICK q \in Int : q = i - (Len(a) + 1)
      BY <3>0
    <3>2. q \in 1 .. p /\ q \in 1 .. Len(b) /\ q \in 1 .. Len(d) /\ i = Len(a) + 1 + q
      <4>1. /\ i \in Int /\ i <= Len(a) + 1 + p /\ i > Len(a) + 1 /\ p \in Int /\ p <= Len(b)
            /\ Len(a) \in Nat /\ Len(b) \in Nat /\ Len(d) = p
        BY <1>1, <1>2, <2>1, <2>4
      <4> QED
        BY <3>1, <4>1
    <3>3. u[Len(a) + 1 + q] = b[q] /\ w[Len(a) + 1 + q] = d[q] /\ d[q] = b[q]
      BY <1>1, <1>2, <1>3, <3>2
    <3> QED
      BY <2>1, <3>2, <3>3
  <2>5. i <= Len(a) \/ i = Len(a) + 1 \/ i > Len(a) + 1
    <3>1. Len(a) \in Int /\ i \in Int
      BY <1>1, <2>1
    <3>2. \A x, y \in Int : y <= x \/ y = x + 1 \/ y > x + 1
      OBVIOUS
    <3> QED
      BY <3>1, <3>2, Zenon
  <2> QED
    BY <2>2, <2>3, <2>4, <2>5
<1>7. t = w
  <2>1. Len(t) = Len(w)
    BY <1>2, <1>3, <1>5
  <2>2. \A i \in 1 .. Len(t) : t[i] = w[i]
    BY <1>5, <1>6
  <2> QED
    BY <1>3, <1>5, <2>1, <2>2, SeqEqual
<1> QED
  BY <1>7 DEF t, w, u, d

\* ... and on its right or not at all
LEMMA StopsRight ==
  ASSUME NEW a \in Seq(Int), NEW b \in Seq(Int), NEW k \in Int, NEW s, NEW l, NEW r,
         StoppedAt(a, s, l), l.rc = 0, k \notin s, StoppedAt(b, s, r)
  PROVE  StoppedAt(Joined(a, k, b), s, Walked(Append(l.keys, k) \o r.keys, r.rc))
<1> DEFINE u == Joined(a, k, b)
<1>0. Joins(u, a, k, b)
  BY JoinedHas
<1> HIDE DEF u
<1>1. /\ u \in Seq(Int) /\ Len(u) = Len(a) + 1 + Len(b) /\ Len(a) \in Nat /\ Len(b) \in Nat
      /\ \A p \in 1 .. Len(a) : u[p] = a[p]
      /\ u[Len(a) + 1] = k
      /\ \A p \in 1 .. Len(b) : u[Len(a) + 1 + p] = b[p]
  BY <1>0 DEF Joins
<1>2. l.keys = a /\ \A p \in 1 .. Len(a) : a[p] \notin s
  BY WalkedHas DEF StoppedAt
<1>3. Append(l.keys, k) \o r.keys = Joined(a, k, r.keys)
  BY <1>2 DEF Joined
<1>10. Len(a) \in Nat /\ Len(b) \in Nat /\ Len(u) = Len(a) + 1 + Len(b)
  BY <1>1
<1>4. ASSUME NEW q \in 1 .. Len(u), u[q] \in s
      PROVE  \E p \in 1 .. Len(b) : q = Len(a) + 1 + p /\ b[p] \in s
  <2>0. q \in Int /\ 1 <= q /\ q <= Len(a) + 1 + Len(b)
    BY <1>10
  <2>1. ~(q <= Len(a)) /\ q # Len(a) + 1
    <3>1. CASE q <= Len(a)
      <4>1. q \in 1 .. Len(a)
        BY <1>10, <2>0, <3>1
      <4>2. u[q] = a[q] /\ a[q] \notin s
        BY <1>1, <1>2, <4>1
      <4> QED
        BY <1>4, <4>2
    <3>2. CASE q = Len(a) + 1
      BY <1>1, <1>4, <3>2
    <3> QED
      BY <3>1, <3>2
  <2>2. q - (Len(a) + 1) \in Int
    BY <1>10, <2>0
  <2>3. PICK p \in Int : p = q - (Len(a) + 1)
    BY <2>2
  <2>4. p \in 1 .. Len(b) /\ q = Len(a) + 1 + p
    BY <1>10, <2>0, <2>1, <2>3
  <2> QED
    BY <1>1, <1>4, <2>4
<1>5. CASE (\A p \in 1 .. Len(b) : b[p] \notin s) /\ r = Walked(b, 0)
  <2>1. \A q \in 1 .. Len(u) : u[q] \notin s
    BY <1>4, <1>5
  <2>2. r.keys = b /\ r.rc = 0
    BY <1>5, WalkedHas
  <2>3. Walked(Append(l.keys, k) \o r.keys, r.rc) = Walked(u, 0)
    BY <1>3, <2>2 DEF u
  <2> QED
    BY <2>1, <2>3 DEF StoppedAt, u
<1>6. CASE \E p \in 1 .. Len(b) : /\ b[p] \in s /\ r = Walked(SubSeq(b, 1, p), 1)
                                  /\ \A q \in 1 .. Len(b) : q < p => b[q] \notin s
  <2>1. PICK p \in 1 .. Len(b) : /\ b[p] \in s /\ r = Walked(SubSeq(b, 1, p), 1)
                                 /\ \A q \in 1 .. Len(b) : q < p => b[q] \notin s
    BY <1>6
  <2>2. PICK n \in Int : n = Len(a) + 1 + p
    BY <1>1
  <2>3. n \in 1 .. Len(u) /\ u[n] \in s
    <3>1. u[Len(a) + 1 + p] = b[p] /\ b[p] \in s
      BY <1>1, <2>1
    <3>2. n \in 1 .. Len(u)
      BY <1>10, <2>2
    <3> QED
      BY <2>2, <3>1, <3>2
  <2>4. r.keys = SubSeq(b, 1, p) /\ r.rc = 1
    <3>1. r = Walked(SubSeq(b, 1, p), 1)
      BY <2>1
    <3> QED
      BY <3>1, WalkedHas, Zenon
  <2>5. Walked(Append(l.keys, k) \o r.keys, r.rc) = Walked(SubSeq(u, 1, n), 1)
    <3>1. SubSeq(Joined(a, k, b), 1, Len(a) + 1 + p) = Joined(a, k, SubSeq(b, 1, p))
      BY PartJoined
    <3> QED
      BY <1>3, <2>2, <2>4, <3>1 DEF u
  <2>6. ASSUME NEW q \in 1 .. Len(u), q < n PROVE u[q] \notin s
    <3> SUFFICES ASSUME u[q] \in s PROVE FALSE
      OBVIOUS
    <3>1. PICK i \in 1 .. Len(b) : q = Len(a) + 1 + i /\ b[i] \in s
      BY <1>4
    <3>2. i < p
      BY <1>1, <2>2, <2>6, <3>1
    <3> QED
      BY <2>1, <3>1, <3>2
  <2> QED
    BY <2>3, <2>5, <2>6 DEF StoppedAt, u
<1> QED
  BY <1>5, <1>6 DEF StoppedAt

-----------------------------------------------------------------------------

\* up are the keys of E in ascending order.
InOrder(up, E) ==
  /\ up \in Seq(Int)
  /\ \A p, q \in 1 .. Len(up) : p < q => up[p] < up[q]
  /\ KeysIn(E) = {up[p] : p \in 1 .. Len(up)}

\* The walks of n in both directions go along up.
Walks(n, up) ==
  \A s \in SUBSET Int : /\ StoppedAt(up, s, Traverse(n, s))
                        /\ StoppedAt(Reversed(up), s, TraverseR(n, s))

WalkOf(n, E) == \E up : InOrder(up, E) /\ Walks(n, up)

\* Traverse and TraverseR are the recursions of the code on each of the trees of T.
Walking(T) ==
  \A n, w, E : <<n, w, E>> \in T =>
    \A s \in SUBSET Int :
      Traverse(n, s) = TraverseStep(n, s) /\ TraverseR(n, s) = TraverseRStep(n, s)

LEMMA InOrderJoined ==
  ASSUME NEW a, NEW b, NEW n, NEW L, NEW R, NEW X, InOrder(a, L), InOrder(b, R),
         Placed(n, L, R, X), \A e \in X : e[1] \in Int
  PROVE  InOrder(Joined(a, n.key, b), EntriesOver(n, L, R)) /\ n.key \in Int
<1> DEFINE k == n.key
           u == Joined(a, k, b)
<1>1. k \in Int /\ Entry(n)[1] = k
  BY DEF Placed, Entry
<1>2. a \in Seq(Int) /\ b \in Seq(Int)
  BY DEF InOrder
<1>3. Joins(u, a, k, b)
  BY <1>1, <1>2, JoinedHas
<1>4. /\ \A p \in 1 .. Len(a) : a[p] \in KeysIn(L) /\ a[p] \in Int
      /\ \A p \in 1 .. Len(b) : b[p] \in KeysIn(R) /\ b[p] \in Int
  BY <1>2, ElementOfSeq DEF InOrder
<1>5. /\ \A x \in KeysIn(L) : x < k
      /\ \A x \in KeysIn(R) : k < x
  BY DEF KeysIn, Placed
<1> HIDE DEF u, k
<1>6. Len(a) \in Nat /\ Len(b) \in Nat /\ Len(u) = Len(a) + 1 + Len(b) /\ u \in Seq(Int)
  BY <1>3 DEF Joins
<1>7. ASSUME NEW q \in 1 .. Len(u)
      PROVE  \/ q \in 1 .. Len(a)
             \/ q = Len(a) + 1
             \/ \E p \in 1 .. Len(b) : q = Len(a) + 1 + p
  <2>1. CASE q > Len(a) + 1
    <3>1. q - (Len(a) + 1) \in Int
      BY <1>6
    <3>2. PICK p \in Int : p = q - (Len(a) + 1)
      BY <3>1
    <3>3. p \in 1 .. Len(b) /\ q = Len(a) + 1 + p
      BY <1>6, <2>1, <3>2
    <3> QED
      BY <3>3
  <2> QED
    BY <1>6, <2>1
<1>8. ASSUME NEW p \in 1 .. Len(u), NEW q \in 1 .. Len(u), p < q PROVE u[p] < u[q]
  <2>1. CASE p \in 1 .. Len(a) /\ q \in 1 .. Len(a)
    <3>1. u[p] = a[p] /\ u[q] = a[q]
      BY <1>3, <2>1 DEF Joins
    <3> QED
      BY <1>8, <2>1, <3>1 DEF InOrder
  <2>2. CASE p \in 1 .. Len(a) /\ q = Len(a) + 1
    <3>1. u[p] = a[p] /\ u[q] = k
      BY <1>3, <2>2 DEF Joins
    <3> QED
      BY <1>4, <1>5, <2>2, <3>1
  <2>3. CASE p \in 1 .. Len(a) /\ \E i \in 1 .. Len(b) : q = Len(a) + 1 + i
    <3>1. PICK i \in 1 .. Len(b) : q = Len(a) + 1 + i
      BY <2>3
    <3>2. u[p] = a[p] /\ u[q] = b[i]
      BY <1>3, <2>3, <3>1 DEF Joins
    <3>3. a[p] \in Int /\ b[i] \in Int /\ a[p] < k /\ k < b[i]
      BY <1>4, <1>5, <2>3
    <3> QED
      BY <1>1, <3>2, <3>3
  <2>4. CASE p = Len(a) + 1 /\ \E i \in 1 .. Len(b) : q = Len(a) + 1 + i
    <3>1. PICK i \in 1 .. Len(b) : q = Len(a) + 1 + i
      BY <2>4
    <3>2. u[p] = k /\ u[q] = b[i]
      BY <1>3, <2>4, <3>1 DEF Joins
    <3> QED
      BY <1>4, <1>5, <3>2
  <2>5. CASE /\ \E i \in 1 .. Len(b) : p = Len(a) + 1 + i
             /\ \E i \in 1 .. Len(b) : q = Len(a) + 1 + i
    <3>1. PICK i \in 1 .. Len(b) : p = Len(a) + 1 + i
      BY <2>5
    <3>2. PICK j \in 1 .. Len(b) : q = Len(a) + 1 + j
      BY <2>5
    <3>3. u[p] = b[i] /\ u[q] = b[j]
      BY <1>3, <3>1, <3>2 DEF Joins
    <3>4. i < j
      BY <1>6, <1>8, <3>1, <3>2
    <3> QED
      BY <3>3, <3>4 DEF InOrder
  <2>6. \/ p \in 1 .. Len(a) \/ p = Len(a) + 1
        \/ \E i \in 1 .. Len(b) : p = Len(a) + 1 + i
    BY <1>7
  <2>7. \/ q \in 1 .. Len(a) \/ q = Len(a) + 1
        \/ \E i \in 1 .. Len(b) : q = Len(a) + 1 + i
    BY <1>7
  <2>8. ~(p = Len(a) + 1 /\ q \in 1 .. Len(a)) /\ ~(p = Len(a) + 1 /\ q = Len(a) + 1)
    BY <1>6, <1>8
  <2>9. ~((\E i \in 1 .. Len(b) : p = Len(a) + 1 + i) /\ (q \in 1 .. Len(a) \/ q = Len(a) + 1))
    BY <1>6, <1>8
  <2> QED
    BY <2>1, <2>2, <2>3, <2>4, <2>5, <2>6, <2>7, <2>8, <2>9
<1>9. KeysIn(EntriesOver(n, L, R)) = KeysIn(L) \cup {k} \cup KeysIn(R)
  BY <1>1 DEF KeysIn, EntriesOver
<1>10. KeysIn(EntriesOver(n, L, R)) = {u[p] : p \in 1 .. Len(u)}
  <2>1. ASSUME NEW p \in 1 .. Len(u) PROVE u[p] \in KeysIn(L) \cup {k} \cup KeysIn(R)
    <3>1. CASE p \in 1 .. Len(a)
      BY <1>3, <1>4, <3>1 DEF Joins
    <3>2. CASE p = Len(a) + 1
      BY <1>3, <3>2 DEF Joins
    <3>3. CASE \E i \in 1 .. Len(b) : p = Len(a) + 1 + i
      BY <1>3, <1>4, <3>3 DEF Joins
    <3> QED
      BY <1>7, <3>1, <3>2, <3>3
  <2>2. ASSUME NEW x \in KeysIn(L) PROVE \E p \in 1 .. Len(u) : u[p] = x
    <3>1. PICK p \in 1 .. Len(a) : a[p] = x
      BY DEF InOrder
    <3>2. p \in 1 .. Len(u) /\ u[p] = a[p]
      BY <1>3, <1>6 DEF Joins
    <3> QED
      BY <3>1, <3>2
  <2>3. ASSUME NEW x \in KeysIn(R) PROVE \E p \in 1 .. Len(u) : u[p] = x
    <3>1. PICK p \in 1 .. Len(b) : b[p] = x
      BY DEF InOrder
    <3>2. Len(a) + 1 + p \in 1 .. Len(u) /\ u[Len(a) + 1 + p] = b[p]
      BY <1>3, <1>6 DEF Joins
    <3> QED
      BY <3>1, <3>2
  <2>4. \E p \in 1 .. Len(u) : u[p] = k
    <3>1. Len(a) + 1 \in 1 .. Len(u) /\ u[Len(a) + 1] = k
      BY <1>3, <1>6 DEF Joins
    <3> QED
      BY <3>1
  <2>5. \A x \in KeysIn(L) \cup {k} \cup KeysIn(R) : \E p \in 1 .. Len(u) : u[p] = x
    BY <2>2, <2>3, <2>4
  <2> QED
    BY <1>9, <2>1, <2>5
<1> QED
  BY <1>1, <1>6, <1>8, <1>10 DEF InOrder, u, k

LEMMA WalkLeft ==
  ASSUME NEW n, NEW s, NEW a \in Seq(Int), NEW b \in Seq(Int), n # NULL, n.key \in Int,
         StoppedAt(a, s, Traverse(n.left, s)), StoppedAt(b, s, Traverse(n.right, s)),
         Traverse(n, s) = TraverseStep(n, s)
  PROVE  StoppedAt(Joined(a, n.key, b), s, Traverse(n, s))
<1> DEFINE l == Traverse(n.left, s)
           r == Traverse(n.right, s)
<1>1. Traverse(n, s) =
        IF l.rc # 0 THEN l ELSE IF n.key \in s THEN Walked(Append(l.keys, n.key), 1)
        ELSE Walked(Append(l.keys, n.key) \o r.keys, r.rc)
  BY Zenon DEF TraverseStep
<1> HIDE DEF l, r
<1>2. StoppedAt(a, s, l) /\ StoppedAt(b, s, r)
  BY DEF l, r
<1>3. CASE l.rc # 0
  BY <1>1, <1>2, <1>3, StopsLeft
<1>4. CASE l.rc = 0 /\ n.key \in s
  BY <1>1, <1>2, <1>4, StopsHere
<1>5. CASE l.rc = 0 /\ n.key \notin s
  BY <1>1, <1>2, <1>5, StopsRight
<1> QED
  BY <1>3, <1>4, <1>5

LEMMA WalkRight ==
  ASSUME NEW n, NEW s, NEW a \in Seq(Int), NEW b \in Seq(Int), n # NULL, n.key \in Int,
         StoppedAt(a, s, TraverseR(n.right, s)), StoppedAt(b, s, TraverseR(n.left, s)),
         TraverseR(n, s) = TraverseRStep(n, s)
  PROVE  StoppedAt(Joined(a, n.key, b), s, TraverseR(n, s))
<1> DEFINE l == TraverseR(n.right, s)
           r == TraverseR(n.left, s)
<1>1. TraverseR(n, s) =
        IF l.rc # 0 THEN l ELSE IF n.key \in s THEN Walked(Append(l.keys, n.key), 1)
        ELSE Walked(Append(l.keys, n.key) \o r.keys, r.rc)
  BY Zenon DEF TraverseRStep
<1> HIDE DEF l, r
<1>2. StoppedAt(a, s, l) /\ StoppedAt(b, s, r)
  BY DEF l, r
<1>3. CASE l.rc # 0
  BY <1>1, <1>2, <1>3, StopsLeft
<1>4. CASE l.rc = 0 /\ n.key \in s
  BY <1>1, <1>2, <1>4, StopsHere
<1>5. CASE l.rc = 0 /\ n.key \notin s
  BY <1>1, <1>2, <1>5, StopsRight
<1> QED
  BY <1>3, <1>4, <1>5

\* The walks of a tree go through the keys it holds, in order.
LEMMA WalksAre ==
  ASSUME NEW T, NEW X, OrderedTrees(T, X), Walking(T)
  PROVE  \A n, w, E : <<n, w, E>> \in T => WalkOf(n, E)
<1> DEFINE Bad == {b \in T : \E n, w, E : b = <<n, w, E>> /\ ~WalkOf(n, E)}
<1>1. \A n, w, E : <<n, w, E>> \in Bad <=> <<n, w, E>> \in T /\ ~WalkOf(n, E)
  OBVIOUS
<1>2. Bad \in SUBSET T
  OBVIOUS
<1> HIDE DEF Bad
<1> SUFFICES ASSUME \E n, w, E : <<n, w, E>> \in Bad
             PROVE  FALSE
  BY <1>1
<1>3. PICK n, w, E : /\ <<n, w, E>> \in Bad /\ <<n, w, E>> \in T
                     /\ \A m, g, F : <<m, g, F>> \in Bad => ~(g < w)
  BY <1>2, LeastRank
<1>4. ~WalkOf(n, E) /\ \A e \in X : e[1] \in Int
  BY <1>1, <1>3 DEF OrderedTrees
<1>5. \A s \in SUBSET Int :
         Traverse(n, s) = TraverseStep(n, s) /\ TraverseR(n, s) = TraverseRStep(n, s)
  BY <1>3 DEF Walking
<1>6. CASE n = NULL
  <2>1. KeysIn(E) = {}
    BY <1>3, <1>6 DEF OrderedTrees, KeysIn
  <2>2. <<>> \in Seq(Int) /\ Len(<<>>) = 0
    BY EmptySeq
  <2>3. InOrder(<<>>, E)
    BY <2>1, <2>2 DEF InOrder
  <2>4. Len(Reversed(<<>>)) = 0
    BY <2>2, ReversedHas
  <2>5. Reversed(<<>>) = <<>>
    BY <2>2, <2>4, ReversedHas, SeqEqual
  <2>6. ASSUME NEW s \in SUBSET Int
        PROVE  Traverse(n, s) = Walked(<<>>, 0) /\ TraverseR(n, s) = Walked(<<>>, 0)
    BY <1>5, <1>6, Zenon DEF TraverseStep, TraverseRStep
  <2>7. Walks(n, <<>>)
    BY <2>2, <2>5, <2>6 DEF Walks, StoppedAt
  <2> QED
    BY <1>4, <2>3, <2>7 DEF WalkOf
<1>7. CASE n # NULL
  <2>1. PICK x, y, L, R :
         /\ <<n.left, x, L>> \in T /\ <<n.right, y, R>> \in T /\ x < w /\ y < w
         /\ Placed(n, L, R, X) /\ E = EntriesOver(n, L, R)
    BY <1>3, <1>7 DEF OrderedTrees, OverLesser
  <2>2. WalkOf(n.left, L) /\ WalkOf(n.right, R)
    BY <1>1, <1>3, <2>1
  <2>3. PICK a : InOrder(a, L) /\ Walks(n.left, a)
    BY <2>2 DEF WalkOf
  <2>4. PICK b : InOrder(b, R) /\ Walks(n.right, b)
    BY <2>2 DEF WalkOf
  <2>5. InOrder(Joined(a, n.key, b), E) /\ n.key \in Int
    BY <1>4, <2>1, <2>3, <2>4, InOrderJoined
  <2>6. a \in Seq(Int) /\ b \in Seq(Int)
    BY <2>3, <2>4 DEF InOrder
  <2>7. Reversed(a) \in Seq(Int) /\ Reversed(b) \in Seq(Int)
    BY <2>6, ReversedHas
  <2>8. Reversed(Joined(a, n.key, b)) = Joined(Reversed(b), n.key, Reversed(a))
    BY <2>5, <2>6, ReversedJoined
  <2>9. ASSUME NEW s \in SUBSET Int
        PROVE  /\ StoppedAt(Joined(a, n.key, b), s, Traverse(n, s))
               /\ StoppedAt(Reversed(Joined(a, n.key, b)), s, TraverseR(n, s))
    <3>1. /\ StoppedAt(a, s, Traverse(n.left, s)) /\ StoppedAt(b, s, Traverse(n.right, s))
          /\ StoppedAt(Reversed(a), s, TraverseR(n.left, s))
          /\ StoppedAt(Reversed(b), s, TraverseR(n.right, s))
      BY <2>3, <2>4 DEF Walks
    <3>2. Traverse(n, s) = TraverseStep(n, s) /\ TraverseR(n, s) = TraverseRStep(n, s)
      BY <1>5
    <3>3. StoppedAt(Joined(a, n.key, b), s, Traverse(n, s))
      BY <1>7, <2>5, <2>6, <3>1, <3>2, WalkLeft
    <3>4. StoppedAt(Joined(Reversed(b), n.key, Reversed(a)), s, TraverseR(n, s))
      BY <1>7, <2>5, <2>7, <3>1, <3>2, WalkRight
    <3> QED
      BY <2>8, <3>3, <3>4
  <2>10. Walks(n, Joined(a, n.key, b))
    BY <2>9 DEF Walks
  <2> QED
    BY <1>4, <2>5, <2>10 DEF WalkOf
<1> QED
  BY <1>6, <1>7

\* The walk of a whole tree is as long as the tree has keys.
LEMMA WalkCounts ==
  ASSUME NEW up, NEW E, InOrder(up, E)
  PROVE  Len(up) \in Nat /\ IsFiniteSet(KeysIn(E)) /\ Cardinality(KeysIn(E)) = Len(up)
<1> DEFINE S == 1 .. Len(up)
           f == [p \in S |-> up[p]]
<1>1. Len(up) \in Nat
  BY LenProperties DEF InOrder
<1>2. \A p \in S : up[p] \in Int
  BY ElementOfSeq DEF InOrder
<1>3. IsFiniteSet(S) /\ Cardinality(S) = Len(up)
  <2>1. 1 \in Int /\ Len(up) \in Int /\ ~(1 > Len(up) /\ Len(up) > 0)
    BY <1>1
  <2>2. IsFiniteSet(S) /\ Cardinality(S) = IF 1 > Len(up) THEN 0 ELSE Len(up) - 1 + 1
    BY <2>1, FS_Interval
  <2> HIDE DEF S
  <2> QED
    BY <1>1, <2>2
<1>4. ASSUME NEW p \in S, NEW q \in S, up[p] = up[q] PROVE p = q
  <2>1. p < q \/ p = q \/ q < p
    BY <1>1
  <2>2. ~(p < q) /\ ~(q < p)
    BY <1>2, <1>4 DEF InOrder
  <2> QED
    BY <2>1, <2>2
<1>5. f \in Injection(S, KeysIn(E))
  <2>1. f \in [S -> KeysIn(E)]
    BY DEF InOrder
  <2> QED
    BY <1>4, <2>1 DEF Injection, IsInjective
<1>6. f \in Surjection(S, KeysIn(E))
  <2>1. f \in [S -> KeysIn(E)] /\ \A x \in KeysIn(E) : \E p \in S : f[p] = x
    BY DEF InOrder
  <2> QED
    BY <2>1 DEF Surjection
<1>7. ExistsBijection(S, KeysIn(E))
  BY <1>5, <1>6 DEF ExistsBijection, Bijection
<1> QED
  BY <1>1, <1>3, <1>7, FS_Bijection

\* All that WalksInOrder says follows from the way a tree is walked.
WalksAlong(n, up) ==
  /\ \A p, q \in 1 .. Len(up) : p < q => up[p] < up[q]
  /\ TraverseR(n, {}).keys = [p \in 1 .. Len(up) |-> up[Len(up) + 1 - p]]
  /\ \A p \in 1 .. Len(up) :
       /\ Traverse(n, {up[p]}) = Walked(SubSeq(up, 1, p), 1)
       /\ TraverseR(n, {up[p]}).keys = [q \in 1 .. Len(up) + 1 - p |-> up[Len(up) + 1 - q]]

LEMMA WalkWhole ==
  ASSUME NEW n, NEW up, Walks(n, up)
  PROVE  Traverse(n, {}).keys = up /\ TraverseR(n, {}).keys = Reversed(up)
<1>1. StoppedAt(up, {}, Traverse(n, {})) /\ StoppedAt(Reversed(up), {}, TraverseR(n, {}))
  BY DEF Walks
<1>2. Traverse(n, {}) = Walked(up, 0) /\ TraverseR(n, {}) = Walked(Reversed(up), 0)
  BY <1>1 DEF StoppedAt
<1> QED
  BY <1>2, WalkedHas

LEMMA WalksKeepOrder ==
  ASSUME NEW n, NEW E, NEW up, InOrder(up, E), Walks(n, up)
  PROVE  WalksAlong(n, Traverse(n, {}).keys)
<1> DEFINE m == Len(up)
           down == Reversed(up)
<1>1. Traverse(n, {}).keys = up /\ TraverseR(n, {}).keys = down
  BY WalkWhole
<1>2. down = [p \in 1 .. m |-> up[m + 1 - p]]
  BY DEF Reversed
<1>3. /\ up \in Seq(Int) /\ m \in Nat /\ down \in Seq(Int) /\ Len(down) = m
      /\ \A p \in 1 .. m : down[p] = up[m + 1 - p]
  BY ReversedHas DEF InOrder
<1>4. \A p \in 1 .. m : up[p] \in Int
  BY <1>3, ElementOfSeq
<1>5. \A p, q \in 1 .. m : up[p] = up[q] => p = q
  <2> SUFFICES ASSUME NEW p \in 1 .. m, NEW q \in 1 .. m, up[p] = up[q] PROVE p = q
    OBVIOUS
  <2>1. p < q \/ p = q \/ q < p
    BY <1>3
  <2>2. /\ \A i, j \in 1 .. m : i < j => up[i] < up[j]
        /\ up[p] \in Int /\ up[q] \in Int
    BY <1>4 DEF InOrder
  <2>3. ~(up[p] < up[q]) /\ ~(up[q] < up[p])
    BY <2>2
  <2>4. ~(p < q) /\ ~(q < p)
    BY <2>2, <2>3
  <2> QED
    BY <2>1, <2>4
<1> HIDE DEF down, m
<1>6. ASSUME NEW p \in 1 .. m
      PROVE  /\ Traverse(n, {up[p]}) = Walked(SubSeq(up, 1, p), 1)
             /\ TraverseR(n, {up[p]}).keys = [q \in 1 .. m + 1 - p |-> up[m + 1 - q]]
  <2> DEFINE s == {up[p]}
  <2>1. s \in SUBSET Int
    BY <1>4
  <2>2. StoppedAt(up, s, Traverse(n, s)) /\ StoppedAt(down, s, TraverseR(n, s))
    BY <2>1 DEF Walks, down
  <2> HIDE DEF s
  <2>3. Traverse(n, s) = Walked(SubSeq(up, 1, p), 1)
    <3>1. \A q \in 1 .. Len(up) : up[q] \in s <=> q = p
      BY <1>5 DEF s, m
    <3>2. p \in 1 .. Len(up)
      BY DEF m
    <3> QED
      BY <2>2, <3>1, <3>2 DEF StoppedAt
  <2>4. m + 1 - p \in 1 .. m /\ down[m + 1 - p] = up[p]
    <3>1. m + 1 - p \in 1 .. m /\ m + 1 - (m + 1 - p) = p
      <4>1. m \in Nat
        BY <1>3
      <4> QED
        BY <4>1
    <3> QED
      BY <1>3, <3>1
  <2>5. PICK o \in 1 .. m : o = m + 1 - p
    BY <2>4
  <2>6. TraverseR(n, s) = Walked(SubSeq(down, 1, o), 1)
    <3>1. \A q \in 1 .. Len(down) : down[q] \in s <=> q = o
      <4> SUFFICES ASSUME NEW q \in 1 .. m PROVE down[q] \in s <=> q = o
        BY <1>3
      <4>1. m + 1 - q \in 1 .. m /\ (m + 1 - q = p <=> q = o)
        BY <1>3, <2>5
      <4>2. down[q] = up[m + 1 - q]
        BY <1>3
      <4> QED
        BY <1>5, <4>1, <4>2 DEF s
    <3>2. o \in 1 .. Len(down)
      BY <1>3
    <3> QED
      BY <2>2, <3>1, <3>2 DEF StoppedAt
  <2>7. SubSeq(down, 1, o) = [q \in 1 .. o |-> up[m + 1 - q]]
    <3>1. /\ SubSeq(down, 1, o) \in Seq(Int) /\ Len(SubSeq(down, 1, o)) = o
          /\ \A i \in 1 .. o : SubSeq(down, 1, o)[i] = down[i]
      BY <1>3, FirstPart
    <3>2. \A i \in 1 .. o : i \in 1 .. m /\ down[i] = up[m + 1 - i]
      BY <1>3
    <3>3. SubSeq(down, 1, o) = [q \in 1 .. o |-> SubSeq(down, 1, o)[q]]
      BY <3>1, LenProperties
    <3> QED
      BY <3>1, <3>2, <3>3
  <2>8. TraverseR(n, s).keys = [q \in 1 .. o |-> up[m + 1 - q]]
    BY <2>6, <2>7, WalkedHas
  <2>9. TraverseR(n, s).keys = [q \in 1 .. m + 1 - p |-> up[m + 1 - q]]
    BY <2>5, <2>8
  <2> QED
    BY <2>3, <2>9 DEF s
<1>7. \A p, q \in 1 .. Len(up) : p < q => up[p] < up[q]
  BY DEF InOrder
<1>8. TraverseR(n, {}).keys = [p \in 1 .. Len(up) |-> up[Len(up) + 1 - p]]
  BY <1>1, <1>2 DEF m
<1>9. WalksAlong(n, up)
  BY <1>6, <1>7, <1>8, Zenon DEF WalksAlong, m
<1> QED
  BY <1>1, <1>9

-----------------------------------------------------------------------------
(* The invariants the code asserts.                                        *)

\* Comparing the keys of X does not overflow.
Fits(X) == \A e \in X : Comparable(e[1], X)

\* Every node of an ordered tree stands in order to its children, as Compare tells it.
LEMMA KeysAreOrdered ==
  ASSUME NEW T, NEW X, NEW n, NEW E, OrderedTrees(T, X), NodesHold(n, E, T),
         Fits(X)
  PROVE  KeysOrdered(n)
<1> SUFFICES ASSUME NEW m \in Subtrees(n)
             PROVE  /\ m.left # NULL => Compare(m.left.key, m.key) < 0
                    /\ m.right # NULL => Compare(m.right.key, m.key) > 0
  BY DEF KeysOrdered
<1>1. PICK g, F : <<m, g, F>> \in T
  BY DEF NodesHold
<1>2. m # NULL
  BY DEF NodesHold
<1>3. PICK x, y, L, R :
        /\ <<m.left, x, L>> \in T /\ <<m.right, y, R>> \in T /\ x < g /\ y < g
        /\ Placed(m, L, R, X) /\ F = EntriesOver(m, L, R)
  <2>1. OverLesser(m, g, F, T, X)
    BY <1>1, <1>2 DEF OrderedTrees
  <2> QED
    BY <2>1 DEF OverLesser
<1>4. \A c : Entry(c)[1] = c.key
  BY DEF Entry
<1>5. \A c, w, G : <<c, w, G>> \in T /\ c # NULL => Entry(c) \in G
  <2> TAKE c, w, G
  <2> HAVE <<c, w, G>> \in T /\ c # NULL
  <2>1. OverLesser(c, w, G, T, X)
    BY DEF OrderedTrees
  <2> QED
    BY <2>1 DEF OverLesser, EntriesOver
<1>6. Entry(m) \in X /\ L \in SUBSET X /\ R \in SUBSET X
  BY <1>3 DEF Placed
<1>7. ASSUME m.left # NULL PROVE Compare(m.left.key, m.key) < 0
  <2>1. Entry(m.left) \in L
    BY <1>3, <1>5, <1>7
  <2>2. m.left.key < m.key
    BY <1>3, <1>4, <2>1 DEF Placed
  <2>3. Comparable(m.left.key, X)
    BY <1>4, <1>6, <2>1 DEF Fits
  <2>4. Entry(m)[1] = m.key
    BY <1>4
  <2> QED
    BY <1>6, <2>2, <2>3, <2>4 DEF Comparable
<1>8. ASSUME m.right # NULL PROVE Compare(m.right.key, m.key) > 0
  <2>1. Entry(m.right) \in R
    BY <1>3, <1>5, <1>8
  <2>2. m.right.key > m.key
    <3>1. m.key < m.right.key
      BY <1>3, <1>4, <2>1 DEF Placed
    <3>2. m.key \in Int /\ m.right.key \in Int
      BY <1>4, <1>6, <2>1 DEF OrderedTrees
    <3> QED
      BY <3>1, <3>2
  <2>3. Comparable(m.right.key, X)
    BY <1>4, <1>6, <2>1 DEF Fits
  <2>4. Entry(m)[1] = m.key
    BY <1>4
  <2> QED
    BY <1>6, <2>2, <2>3, <2>4 DEF Comparable
<1> QED
  BY <1>7, <1>8

\* Height is the recursion of the code on each tree of H.
Measuring(H) == \A n, h, E : <<n, h, E>> \in H => Height(n) = HeightStep(n)

\* The height of an AVL tree is the one it has in H.
LEMMA HeightIs ==
  ASSUME NEW H, NEW X, AvlTrees(H, X), Measuring(H)
  PROVE  \A n, h, E : <<n, h, E>> \in H => Height(n) = h
<1> DEFINE Bad == {b \in H : \E n, h, E : b = <<n, h, E>> /\ ~(Height(n) = h)}
<1>1. \A n, h, E : <<n, h, E>> \in Bad <=> <<n, h, E>> \in H /\ ~(Height(n) = h)
  OBVIOUS
<1>2. Bad \in SUBSET H
  OBVIOUS
<1> HIDE DEF Bad
<1> SUFFICES ASSUME \E n, h, E : <<n, h, E>> \in Bad
             PROVE  FALSE
  BY <1>1
<1>3. PICK n, h, E : /\ <<n, h, E>> \in Bad /\ <<n, h, E>> \in H
                     /\ \A m, g, F : <<m, g, F>> \in Bad => ~(g < h)
  BY <1>2, AvlTreesOrdered, LeastRank
<1>4. Height(n) = HeightStep(n) /\ Height(n) # h
  BY <1>1, <1>3 DEF Measuring
<1>5. CASE n = NULL
  <2>1. h = 0
    BY <1>3, <1>5, AvlTake
  <2>2. Height(n) = 0
    BY <1>4, <1>5 DEF HeightStep
  <2> QED
    BY <1>4, <2>1, <2>2
<1>6. CASE n # NULL
  <2>1. \E a \in Nat, b \in Nat : \E L, R :
           /\ AvlOver(n, a, b, L, R, H, X) /\ b - a \in -1 .. 1 /\ a < h /\ b < h
           /\ h = HeightOf(a, b) /\ E = EntriesOver(n, L, R)
    BY <1>3, <1>6, AvlTake
  <2>2. PICK a, b, L, R :
          a \in Nat /\ b \in Nat /\ AvlOver(n, a, b, L, R, H, X) /\ a < h /\ b < h
              /\ h = HeightOf(a, b)
    BY <2>1
  <2>3. Height(n.left) = a /\ Height(n.right) = b
    BY <1>1, <1>3, <2>2 DEF AvlOver
  <2>4. Height(n) = (IF a > b THEN a ELSE b) + 1
    BY <1>4, <1>6, <2>3 DEF HeightStep
  <2>5. Height(n) = h
    BY <2>2, <2>4 DEF HeightOf, Taller
  <2> QED
    BY <1>4, <2>5
<1> QED
  BY <1>5, <1>6

\* An AVL tree keeps the invariant avl_n_invariant asserts.
LEMMA AvlKeeps ==
  ASSUME NEW H, NEW X, NEW n, NEW E, AvlTrees(H, X), Measuring(H), NodesHold(n, E, H)
  PROVE  AvlInvariant(n) /\ \A m \in Subtrees(n) : m.flag \in -1 .. 1
<1>1. ASSUME NEW m \in Subtrees(n)
      PROVE  m.flag = Height(m.right) - Height(m.left) /\ m.flag \in -1 .. 1
  <2>1. PICK g, F : <<m, g, F>> \in H
    BY DEF NodesHold
  <2>2. m # NULL
    BY DEF NodesHold
  <2>3. \E a \in Nat, b \in Nat : \E L, R :
           /\ AvlOver(m, a, b, L, R, H, X) /\ b - a \in -1 .. 1
           /\ g = HeightOf(a, b) /\ F = EntriesOver(m, L, R)
    BY <2>1, <2>2, AvlSubtrees
  <2>4. PICK a, b, L, R :
          a \in Nat /\ b \in Nat /\ AvlOver(m, a, b, L, R, H, X) /\ b - a \in -1 .. 1
    BY <2>3
  <2>5. Height(m.left) = a /\ Height(m.right) = b
    BY <2>4, HeightIs DEF AvlOver
  <2>6. m.flag = b - a
    BY <2>4 DEF AvlOver, Exact
  <2> QED
    BY <2>4, <2>5, <2>6
<1> QED
  BY <1>1 DEF AvlInvariant

\* BlackDepths is the recursion of the code on each tree of H.
Counting(H) ==
  \A n, h, E : <<n, h, E>> \in H =>
    \A b \in Nat : BlackDepths(n, b) = BlackDepthsStep(n, b)

\* All black depths below a node lie one black height further down.
OneDepth(n, h) == \A b \in Nat : BlackDepths(n, b) \in SUBSET {b + h}

LEMMA BlackDepthsAre ==
  ASSUME NEW H, NEW X, RbTrees(H, X), Counting(H)
  PROVE  \A n, h, E : <<n, h, E>> \in H => OneDepth(n, h)
<1> DEFINE Bad == {b \in H : \E n, h, E : b = <<n, h, E>> /\ ~OneDepth(n, h)}
<1>1. \A n, h, E : <<n, h, E>> \in Bad <=> <<n, h, E>> \in H /\ ~OneDepth(n, h)
  OBVIOUS
<1>2. Bad \in SUBSET H
  OBVIOUS
<1> HIDE DEF Bad
<1> SUFFICES ASSUME \E n, h, E : <<n, h, E>> \in Bad
             PROVE  FALSE
  BY <1>1
<1>3. PICK n, h, E : /\ <<n, h, E>> \in Bad /\ <<n, h, E>> \in H
                     /\ \A m, g, F : <<m, g, F>> \in Bad => ~(Weight(m, g) < Weight(n, h))
  BY <1>2, RbLightest
<1>4. ~OneDepth(n, h) /\ \A b \in Nat : BlackDepths(n, b) = BlackDepthsStep(n, b)
  BY <1>1, <1>3 DEF Counting
<1>5. CASE n = NULL
  <2>1. \A b \in Nat : BlackDepths(n, b) = {}
    BY <1>4, <1>5 DEF BlackDepthsStep
  <2> QED
    BY <1>4, <2>1 DEF OneDepth
<1>6. CASE n # NULL
  <2>1. PICK c, L, R :
           /\ c \in Nat /\ RbOver(n, c, L, R, H, X) /\ ~IsRed(n.right)
           /\ \/ n.flag = RED /\ IsRed(n) /\ h = c /\ ~IsRed(n.left)
              \/ n.flag = BLACK /\ ~IsRed(n) /\ h = c + 1
    BY <1>3, <1>6, RbTop
  <2>2. Weight(n.left, c) < Weight(n, h) /\ Weight(n.right, c) < Weight(n, h)
    BY <1>3, <1>6, <2>1, RbLighter
  <2>3. <<n.left, c, L>> \in H /\ <<n.right, c, R>> \in H
    BY <2>1 DEF RbOver
  <2>4. OneDepth(n.left, c) /\ OneDepth(n.right, c)
    BY <1>1, <1>3, <2>2, <2>3
  <2>5. n.left = NULL \/ n.right = NULL => c = 0
    BY <2>3, RbTake
  <2>6. ASSUME NEW b \in Nat PROVE BlackDepths(n, b) \in SUBSET {b + h}
    <3>1. PICK here : here = IF IsRed(n) THEN b ELSE b + 1
      OBVIOUS
    <3>2. here \in Nat /\ here + c = b + h
      BY <2>1, <3>1
    <3>3. BlackDepths(n, b) = (IF n.left = NULL \/ n.right = NULL THEN {here} ELSE {})
                                \cup (BlackDepths(n.left, here) \cup BlackDepths(n.right, here))
      <4>1. BlackDepths(n, b) = BlackDepthsStep(n, b)
        BY <1>4
      <4> QED
        BY <1>6, <3>1, <4>1, Zenon DEF BlackDepthsStep
    <3>4. /\ BlackDepths(n.left, here) \in SUBSET {b + h}
          /\ BlackDepths(n.right, here) \in SUBSET {b + h}
      BY <2>4, <3>2 DEF OneDepth
    <3>5. n.left = NULL \/ n.right = NULL => here = b + h
      BY <2>5, <3>2
    <3> QED
      BY <3>3, <3>4, <3>5
  <2> QED
    BY <1>4, <2>6 DEF OneDepth
<1> QED
  BY <1>5, <1>6

\* A left-leaning tree keeps the invariant rb_n_invariant asserts.
LEMMA RbKeeps ==
  ASSUME NEW H, NEW X, NEW n, NEW h, NEW E, NEW T, RbTrees(H, X), Counting(H), <<n, h, E>> \in H,
         NodesHold(n, E, T), Weighed(T, H)
  PROVE  RbInvariant(n) /\ \A m \in Subtrees(n) : ~IsRed(m.right) /\ m.flag \in {RED, BLACK}
<1>1. ASSUME NEW m \in Subtrees(n)
      PROVE  /\ ~IsRed(m.right) /\ (IsRed(m) => ~IsRed(m.left)) /\ m.flag \in {RED, BLACK}
  <2>1. PICK w, F : <<m, w, F>> \in T
    BY DEF NodesHold
  <2>2. PICK g : <<m, g, F>> \in H
    BY <2>1 DEF Weighed
  <2>3. m # NULL
    BY DEF NodesHold
  <2>4. Leans(m) /\ RbRoot(m, g, F, H, X)
    BY <2>2, <2>3, RbTake
  <2> QED
    BY <2>4 DEF Leans, RbRoot, RbOver, Stands
<1>2. OneDepth(n, h) /\ h \in Nat
  BY BlackDepthsAre, HeightsAre
<1>3. BlackDepths(n, 0) \in SUBSET {h}
  BY <1>2 DEF OneDepth
<1>4. Cardinality(BlackDepths(n, 0)) <= 1
  <2>1. IsFiniteSet({h}) /\ Cardinality({h}) = 1
    BY FS_Singleton
  <2> QED
    BY <1>3, <2>1, FS_Subset
<1>5. RbInvariant(n)
  BY <1>1, <1>4, Zenon DEF RbInvariant
<1> QED
  BY <1>1, <1>5

\* Red-black trees can be given their weights for ranks.
LEMMA WeightsExist ==
  ASSUME NEW H
  PROVE  \E T : Weighed(T, H)
<1> DEFINE B == {b \in H : \E n, h, E : b = <<n, h, E>>}
           T == {<<b[1], Weight(b[1], b[2]), b[3]>> : b \in B}
<1>1. ASSUME NEW n, NEW w, NEW E, <<n, w, E>> \in T
      PROVE  \E h : <<n, h, E>> \in H /\ w = Weight(n, h)
  <2>1. PICK b \in B : <<n, w, E>> = <<b[1], Weight(b[1], b[2]), b[3]>>
    BY <1>1
  <2>2. PICK m, h, F : b = <<m, h, F>>
    OBVIOUS
  <2>3. n = m /\ E = F /\ w = Weight(m, h)
    BY <2>1, <2>2
  <2> QED
    BY <2>2, <2>3
<1>2. ASSUME NEW n, NEW w, NEW E, NEW h, <<n, h, E>> \in H, w = Weight(n, h)
      PROVE  <<n, w, E>> \in T
  <2>1. <<n, h, E>> \in B
    BY <1>2
  <2>2. PICK b : b = <<n, h, E>>
    OBVIOUS
  <2>3. b \in B /\ <<n, w, E>> = <<b[1], Weight(b[1], b[2]), b[3]>>
    BY <1>2, <2>1, <2>2
  <2> QED
    BY <2>3
<1> HIDE DEF T
<1>3. Weighed(T, H)
  BY <1>1, <1>2 DEF Weighed
<1> QED
  BY <1>3

-----------------------------------------------------------------------------
(* What is read off a tree of any flavor.                                  *)

\* The functions that read a tree are the recursions of the code on each tree of H,
\* in searches for keys of K.
Reading(H, K) == Branching(H) /\ Walking(H) /\ \A k \in K : Searching(H, k)

\* What is read off n, which holds E, with keys of K and values of V
ReadsAs(n, E, K, V) ==
  /\ OnePerKey(E) /\ KeysIn(E) \in SUBSET K /\ EntriesOf(n) = MapOf(E)
  /\ KeysOrdered(n) /\ WalkOf(n, E)
  /\ \A k \in K : Found(Find(n, k), E, k)
  /\ \A m \in Subtrees(n) : m.key \in K /\ m.val \in V

LEMMA OrderedReads ==
  ASSUME NEW T, NEW K, NEW V, NEW n, NEW w, NEW E, OrderedTrees(T, K \X V), Reading(T, K),
         Fits(K \X V), NULL \in V, <<n, w, E>> \in T
  PROVE  NodesHold(n, E, T) /\ ReadsAs(n, E, K, V)
<1> DEFINE X == K \X V
<1>1. OrderedTrees(T, X) /\ Fits(X)
  OBVIOUS
<1>2. \A k \in K : <<k, NULL>> \in X /\ <<k, NULL>>[1] = k
  OBVIOUS
<1>3. \A e \in X : e[1] \in K /\ e[2] \in V
  OBVIOUS
<1> HIDE DEF X
<1>4. NodesHold(n, E, T)
  BY <1>1, SubtreesHold DEF Reading
<1>5. OnePerKey(E)
  BY <1>1, KeysDiffer
<1>6. EntriesOf(n) = MapOf(E)
  BY <1>4, <1>5, EntriesAre
<1>7. KeysOrdered(n)
  BY <1>1, <1>4, KeysAreOrdered
<1>8. WalkOf(n, E)
  BY <1>1, WalksAre DEF Reading
<1>9. ASSUME NEW k \in K PROVE Found(Find(n, k), E, k)
  <2>1. Comparable(k, X) /\ k \in Int
    BY <1>1, <1>2 DEF Fits, OrderedTrees
  <2>2. Searching(T, k)
    BY DEF Reading
  <2> QED
    BY <1>1, <2>1, <2>2, FindSound
<1>10. E \in SUBSET X
  BY <1>1 DEF OrderedTrees
<1>11. \A m \in Subtrees(n) : m.key \in K /\ m.val \in V
  <2>1. \A m : Entry(m)[1] = m.key /\ Entry(m)[2] = m.val
    BY DEF Entry
  <2> QED
    BY <1>3, <1>4, <1>10, <2>1 DEF NodesHold
<1>12. KeysIn(E) \in SUBSET K
  BY <1>3, <1>10 DEF KeysIn
<1> QED
  BY <1>4, <1>5, <1>6, <1>7, <1>8, <1>9, <1>11, <1>12 DEF ReadsAs

\* The functions of rb.c are the recursions of the code on H, the red-black trees with
\* entries in X, for keys of K and values of V.
RbForest(H, X, K, V) ==
  /\ RbTrees(H, X) /\ Counting(H) /\ Leftmosts(H) /\ RbTakingFirst(H)
  /\ \A k \in K : RbRemoving(k, H, X)
  /\ \A k \in K, v \in V, alloc \in BOOLEAN : RbInserting(H, k, v, alloc)

\* Those of avl.c are so on H, the AVL trees, ...
AvlForest(H, X, K, V) ==
  /\ AvlTrees(H, X) /\ Measuring(H) /\ Leftmosts(H) /\ AvlTakingFirst(H)
  /\ \A k \in K : AvlRemoving(H, k)
  /\ \A k \in K, v \in V, alloc \in BOOLEAN : AvlInserting(H, k, v, alloc)

\* ... and those of bst.c on H, the ordered trees.
PlainForest(H, X, K, V) ==
  /\ PlainTrees(H, X) /\ Leftmosts(H) /\ PlainTakingFirst(H)
  /\ \A k \in K : PlainRemoving(H, k)
  /\ \A k \in K, v \in V, alloc \in BOOLEAN : PlainInserting(H, k, v, alloc)

\* What the caller may map a key to, or none
Data == Values \cup {NULL}
Pairs(f) == KeysOf[f] \X Data

\* H is the set of all trees of flavor f.
ForestOf(f, H) ==
  /\ Fits(Pairs(f)) /\ IsFiniteSet(KeysOf[f]) /\ Reading(H, KeysOf[f])
  /\ f = "RB" => RbForest(H, Pairs(f), KeysOf[f], Data)
  /\ f = "AVL" => AvlForest(H, Pairs(f), KeysOf[f], Data)
  /\ f = "NONE" => PlainForest(H, Pairs(f), KeysOf[f], Data)

\* What the code asserts of a tree n of flavor f
Balanced(n, f) ==
  /\ f = "RB" => RbInvariant(n) /\ \A m \in Subtrees(n) : ~IsRed(m.right)
  /\ f = "AVL" => AvlInvariant(n)
  /\ \A m \in Subtrees(n) : m.flag \in -4 .. 3

LEMMA RbReads ==
  ASSUME NEW H, NEW n, NEW h, NEW E, ForestOf("RB", H), <<n, h, E>> \in H
  PROVE  ReadsAs(n, E, KeysOf["RB"], Data) /\ Balanced(n, "RB")
<1> DEFINE K == KeysOf["RB"]
           X == K \X Data
<1>1. RbTrees(H, X) /\ Counting(H) /\ Reading(H, K) /\ Fits(X)
  BY DEF ForestOf, RbForest, Pairs
<1>2. NULL \in Data
  BY DEF Data
<1>3. PICK T : Weighed(T, H)
  BY WeightsExist
<1> HIDE DEF K, X
<1>4. OrderedTrees(T, X)
  BY <1>1, <1>3, RbTreesOrdered
<1>5. Reading(T, K)
  <2>1. Branching(T)
    BY <1>1, <1>3 DEF Reading, Branching, Weighed
  <2>2. Walking(T)
    BY <1>1, <1>3 DEF Reading, Walking, Weighed
  <2>3. ASSUME NEW k \in K PROVE Searching(T, k)
    BY <1>1, <1>3 DEF Reading, Searching, Weighed
  <2> QED
    BY <2>1, <2>2, <2>3 DEF Reading
<1>6. PICK w : <<n, w, E>> \in T
  BY <1>3 DEF Weighed
<1>7. NodesHold(n, E, T) /\ ReadsAs(n, E, K, Data)
  BY <1>1, <1>2, <1>4, <1>5, <1>6, OrderedReads DEF X
<1>8. RbInvariant(n) /\ \A m \in Subtrees(n) : ~IsRed(m.right) /\ m.flag \in {RED, BLACK}
  BY <1>1, <1>3, <1>7, RbKeeps
<1>9. Balanced(n, "RB")
  BY <1>8 DEF Balanced, RED, BLACK
<1> QED
  BY <1>7, <1>9 DEF K

LEMMA AvlReads ==
  ASSUME NEW H, NEW n, NEW h, NEW E, ForestOf("AVL", H), <<n, h, E>> \in H
  PROVE  ReadsAs(n, E, KeysOf["AVL"], Data) /\ Balanced(n, "AVL")
<1> DEFINE K == KeysOf["AVL"]
           X == K \X Data
<1>1. AvlTrees(H, X) /\ Measuring(H) /\ Reading(H, K) /\ Fits(X)
  BY DEF ForestOf, AvlForest, Pairs
<1>2. NULL \in Data
  BY DEF Data
<1> HIDE DEF K, X
<1>3. OrderedTrees(H, X)
  BY <1>1, AvlTreesOrdered
<1>4. NodesHold(n, E, H) /\ ReadsAs(n, E, K, Data)
  BY <1>1, <1>2, <1>3, OrderedReads DEF X
<1>5. AvlInvariant(n) /\ \A m \in Subtrees(n) : m.flag \in -1 .. 1
  BY <1>1, <1>4, AvlKeeps
<1>6. Balanced(n, "AVL")
  BY <1>5 DEF Balanced
<1> QED
  BY <1>4, <1>6 DEF K

LEMMA PlainReads ==
  ASSUME NEW H, NEW n, NEW h, NEW E, ForestOf("NONE", H), <<n, h, E>> \in H
  PROVE  ReadsAs(n, E, KeysOf["NONE"], Data) /\ Balanced(n, "NONE")
<1> DEFINE K == KeysOf["NONE"]
           X == K \X Data
<1>1. PlainTrees(H, X) /\ Reading(H, K) /\ Fits(X)
  BY DEF ForestOf, PlainForest, Pairs
<1>2. NULL \in Data
  BY DEF Data
<1> HIDE DEF K, X
<1>3. OrderedTrees(H, X)
  BY <1>1, PlainTreesOrdered
<1>4. NodesHold(n, E, H) /\ ReadsAs(n, E, K, Data)
  BY <1>1, <1>2, <1>3, OrderedReads DEF X
<1>5. ASSUME NEW m \in Subtrees(n) PROVE m.flag \in -4 .. 3
  <2>1. PICK g, F : <<m, g, F>> \in H
    BY <1>4 DEF NodesHold
  <2>2. m # NULL
    BY <1>4 DEF NodesHold
  <2>3. m.flag = 0
    BY <1>1, <2>1, <2>2 DEF PlainTrees, PlainRoot, PlainOver, IsPlain
  <2> QED
    BY <2>3
<1>6. Balanced(n, "NONE")
  BY <1>5 DEF Balanced
<1> QED
  BY <1>4, <1>6 DEF K

\* What is read off a tree of any flavor in use
LEMMA TreeReads ==
  ASSUME NEW f \in Flavors, NEW H, NEW n, NEW h, NEW E, ForestOf(f, H), <<n, h, E>> \in H
  PROVE  ReadsAs(n, E, KeysOf[f], Data) /\ Balanced(n, f)
<1>1. f \in {"NONE", "RB", "AVL"}
  BY BstAssumption
<1> QED
  BY <1>1, RbReads, AvlReads, PlainReads

-----------------------------------------------------------------------------
(* One call on a tree of any flavor.                                       *)

\* t, the new root, is that of a tree that holds F, a black one if the flavor has colors.
Rooted(t, F, H) == (\E h : <<t, h, F>> \in H) /\ (flavor = "RB" => ~IsRed(t))

\* r is the outcome of an insertion into a tree that holds E, ...
Adds(r, E, k, v, alloc, H) ==
  r.ok /\ \E F : Inserted(E, k, v, alloc, F, r.rc) /\ Rooted(Blackened(r.t), F, H)

\* ... or of a removal.
Takes(r, E, k, H) ==
  r.ok /\ \E F : Removed(E, k, F, r.rc) /\ Rooted(Blackened(r.t), F, H)

\* Whatever a red-black call returns, its root can be made black.
LEMMA RootedBlack ==
  ASSUME NEW H, NEW X, NEW t, NEW h, NEW F, RbTrees(H, X), flavor = "RB",
         <<t, h, F>> \in H \/ Leaning(t, h, F, H, X)
  PROVE  Rooted(Blackened(t), F, H)
<1>1. CASE t = NULL
  <2>1. <<t, h, F>> \in H
    BY <1>1 DEF Leaning, RbOver, Stands, RbTrees
  <2> QED
    BY <1>1, <2>1 DEF Blackened, Rooted, IsRed
<1>2. CASE t # NULL
  <2>1. PICK m : m = [t EXCEPT !.flag = BLACK]
    OBVIOUS
  <2>2. ~IsRed(m) /\ <<m, IF IsRed(t) THEN h + 1 ELSE h, F>> \in H
    BY <1>2, <2>1, RbBlackened
  <2>3. Blackened(t) = m
    BY <1>2, <2>1 DEF Blackened
  <2> QED
    BY <2>2, <2>3 DEF Rooted
<1> QED
  BY <1>1, <1>2

\* The root of a tree without colors stays as it is.
LEMMA RootedPlain ==
  ASSUME NEW H, NEW t, NEW h, NEW F, flavor # "RB", <<t, h, F>> \in H
  PROVE  Rooted(Blackened(t), F, H)
  BY DEF Blackened, Rooted

LEMMA RbAdds ==
  ASSUME NEW H, NEW h, NEW E, NEW k, NEW v, NEW alloc \in BOOLEAN, flavor = "RB",
         ForestOf("RB", H), <<root, h, E>> \in H, ~IsRed(root), k \in KeysOf["RB"], v \in Data
  PROVE  Adds(InsertNode(k, v, alloc), E, k, v, alloc, H)
<1> DEFINE X == Pairs("RB")
           r == RbInsert(root, k, v, alloc)
<1>1. RbTrees(H, X) /\ RbInserting(H, k, v, alloc) /\ Fits(X)
  BY DEF ForestOf, RbForest
<1>2. <<k, v>> \in X /\ <<k, v>>[1] = k
  BY DEF Pairs
<1> HIDE DEF X
<1>3. Comparable(k, X)
  BY <1>1, <1>2 DEF Fits
<1>4. RbInserted(r, root, h, E, k, v, alloc, H, X)
  BY <1>1, <1>2, <1>3, RbInsertSound
<1> HIDE DEF r
<1>5. PICK F : Grown(root, r.t, h, F, H, X) /\ Inserted(E, k, v, alloc, F, r.rc)
  BY <1>4 DEF RbInserted
<1>6. Rooted(Blackened(r.t), F, H)
  BY <1>1, <1>5, RootedBlack DEF Grown
<1>7. Adds(r, E, k, v, alloc, H)
  BY <1>4, <1>5, <1>6 DEF Adds, RbInserted
<1> QED
  BY <1>7 DEF r, InsertNode

LEMMA AvlAdds ==
  ASSUME NEW H, NEW h, NEW E, NEW k, NEW v, NEW alloc \in BOOLEAN, flavor = "AVL",
         ForestOf("AVL", H), <<root, h, E>> \in H, k \in KeysOf["AVL"], v \in Data
  PROVE  Adds(InsertNode(k, v, alloc), E, k, v, alloc, H)
<1> DEFINE X == Pairs("AVL")
           r == AvlInsert(root, k, v, alloc)
<1>1. AvlTrees(H, X) /\ AvlInserting(H, k, v, alloc) /\ Fits(X)
  BY DEF ForestOf, AvlForest
<1>2. <<k, v>> \in X /\ <<k, v>>[1] = k
  BY DEF Pairs
<1> HIDE DEF X
<1>3. Comparable(k, X)
  BY <1>1, <1>2 DEF Fits
<1>4. AvlInserted(r, h, E, k, v, alloc, H)
  BY <1>1, <1>2, <1>3, AvlInsertSound
<1> HIDE DEF r
<1>5. PICK F : <<r.t, h + r.dh, F>> \in H /\ Inserted(E, k, v, alloc, F, r.rc)
  BY <1>4 DEF AvlInserted
<1>6. Rooted(Blackened(r.t), F, H)
  BY <1>5, RootedPlain
<1>7. Adds(r, E, k, v, alloc, H)
  BY <1>4, <1>5, <1>6 DEF Adds, AvlInserted
<1> QED
  BY <1>7 DEF r, InsertNode

LEMMA PlainAdds ==
  ASSUME NEW H, NEW h, NEW E, NEW k, NEW v, NEW alloc \in BOOLEAN, flavor = "NONE",
         ForestOf("NONE", H), <<root, h, E>> \in H, k \in KeysOf["NONE"], v \in Data
  PROVE  Adds(InsertNode(k, v, alloc), E, k, v, alloc, H)
<1> DEFINE X == Pairs("NONE")
           r == PlainInsert(root, k, v, alloc)
<1>1. PlainTrees(H, X) /\ PlainInserting(H, k, v, alloc) /\ Fits(X)
  BY DEF ForestOf, PlainForest
<1>2. <<k, v>> \in X /\ <<k, v>>[1] = k
  BY DEF Pairs
<1> HIDE DEF X
<1>3. Comparable(k, X) /\ k \in Int
  BY <1>1, <1>2 DEF Fits, PlainTrees
<1>4. PlainInserted(r, E, k, v, alloc, H)
  BY <1>1, <1>2, <1>3, PlainInsertSound
<1>5. r.ok
  <2>1. PlainInsert(root, k, v, alloc) = PlainInsertStep(root, k, v, alloc)
    BY <1>1 DEF PlainInserting
  <2>2. PlainInsertStep(root, k, v, alloc).ok
    BY DEF PlainInsertStep, Result, NewNode, Outcome
  <2> QED
    BY <2>1, <2>2
<1> HIDE DEF r
<1>6. PICK F : Holds(r.t, F, H) /\ Inserted(E, k, v, alloc, F, r.rc)
  BY <1>4 DEF PlainInserted
<1>7. Rooted(Blackened(r.t), F, H)
  BY <1>6, RootedPlain DEF Holds
<1>8. Adds(r, E, k, v, alloc, H)
  BY <1>5, <1>6, <1>7 DEF Adds
<1> QED
  BY <1>8 DEF r, InsertNode

LEMMA RbRemovesRoot ==
  ASSUME NEW H, NEW h, NEW E, NEW k, flavor = "RB",
         ForestOf("RB", H), <<root, h, E>> \in H, ~IsRed(root), k \in KeysOf["RB"]
  PROVE  Takes(RemoveNode(k), E, k, H)
<1> DEFINE X == Pairs("RB")
           r == RbRemove(root, k)
<1>1. RbTrees(H, X) /\ RbRemoving(k, H, X) /\ RbTakingFirst(H) /\ Leftmosts(H) /\ Fits(X)
  BY DEF ForestOf, RbForest
<1>2. <<k, NULL>> \in X /\ <<k, NULL>>[1] = k
  BY DEF Pairs, Data
<1> HIDE DEF X
<1>3. Comparable(k, X) /\ k \in Int
  BY <1>1, <1>2 DEF Fits, RbTrees
<1>4. RbRemovalBy(k, H, X)
  BY <1>1, <1>3 DEF RbRemovalBy
<1>5. IF root = NULL THEN RbGone(r, root, h, E, k, H) ELSE RbRemoved(r, root, h, E, k, H, X)
  BY <1>4, RbRemoveSound
<1> HIDE DEF r
<1>6. PICK F, g : /\ Removed(E, k, F, r.rc) /\ r.ok
                  /\ <<r.t, g, F>> \in H \/ Leaning(r.t, g, F, H, X)
  <2>1. CASE RbGone(r, root, h, E, k, H)
    BY <2>1 DEF RbGone, Shrunk
  <2>2. CASE RbRemoved(r, root, h, E, k, H, X)
    BY <2>2 DEF RbRemoved, Settled, Shrunk
  <2> QED
    BY <1>5, <2>1, <2>2
<1>7. Rooted(Blackened(r.t), F, H)
  BY <1>1, <1>6, RootedBlack
<1>8. Takes(r, E, k, H)
  BY <1>6, <1>7 DEF Takes
<1> QED
  BY <1>8 DEF r, RemoveNode

LEMMA AvlRemovesRoot ==
  ASSUME NEW H, NEW h, NEW E, NEW k, flavor = "AVL",
         ForestOf("AVL", H), <<root, h, E>> \in H, k \in KeysOf["AVL"]
  PROVE  Takes(RemoveNode(k), E, k, H)
<1> DEFINE X == Pairs("AVL")
           r == AvlRemove(root, k)
<1>1. AvlTrees(H, X) /\ AvlRemoving(H, k) /\ AvlTakingFirst(H) /\ Leftmosts(H) /\ Fits(X)
  BY DEF ForestOf, AvlForest
<1>2. <<k, NULL>> \in X /\ <<k, NULL>>[1] = k
  BY DEF Pairs, Data
<1> HIDE DEF X
<1>3. Comparable(k, X) /\ k \in Int
  BY <1>1, <1>2 DEF Fits, AvlTrees
<1>4. AvlRemoved(r, h, E, k, H)
  BY <1>1, <1>3, AvlRemoveSound
<1> HIDE DEF r
<1>5. PICK F : <<r.t, h + r.dh, F>> \in H /\ Removed(E, k, F, r.rc)
  BY <1>4 DEF AvlRemoved
<1>6. Rooted(Blackened(r.t), F, H)
  BY <1>5, RootedPlain
<1>7. Takes(r, E, k, H)
  BY <1>4, <1>5, <1>6 DEF Takes, AvlRemoved
<1> QED
  BY <1>7 DEF r, RemoveNode

LEMMA PlainRemovesRoot ==
  ASSUME NEW H, NEW h, NEW E, NEW k, flavor = "NONE",
         ForestOf("NONE", H), <<root, h, E>> \in H, k \in KeysOf["NONE"]
  PROVE  Takes(RemoveNode(k), E, k, H)
<1> DEFINE X == Pairs("NONE")
           r == PlainRemove(root, k)
<1>1. PlainTrees(H, X) /\ PlainRemoving(H, k) /\ PlainTakingFirst(H) /\ Leftmosts(H) /\ Fits(X)
  BY DEF ForestOf, PlainForest
<1>2. <<k, NULL>> \in X /\ <<k, NULL>>[1] = k
  BY DEF Pairs, Data
<1> HIDE DEF X
<1>3. Comparable(k, X) /\ k \in Int
  BY <1>1, <1>2 DEF Fits, PlainTrees
<1>4. PlainRemoved(r, E, k, H)
  BY <1>1, <1>3, PlainRemoveSound
<1>5. r.ok
  <2>1. PlainRemove(root, k) = PlainRemoveStep(root, k)
    BY <1>1 DEF PlainRemoving
  <2>2. PlainRemoveStep(root, k).ok
    BY DEF PlainRemoveStep, Result, Outcome
  <2> QED
    BY <2>1, <2>2
<1> HIDE DEF r
<1>6. PICK F : Holds(r.t, F, H) /\ Removed(E, k, F, r.rc)
  BY <1>4 DEF PlainRemoved
<1>7. Rooted(Blackened(r.t), F, H)
  BY <1>6, RootedPlain DEF Holds
<1>8. Takes(r, E, k, H)
  BY <1>5, <1>6, <1>7 DEF Takes
<1> QED
  BY <1>8 DEF r, RemoveNode

\* A call of any flavor
LEMMA TreeCalls ==
  ASSUME NEW H, NEW h, NEW E, NEW k \in Keys, flavor \in Flavors,
         ForestOf(flavor, H), <<root, h, E>> \in H, flavor = "RB" => ~IsRed(root)
  PROVE  /\ \A v \in Data, alloc \in BOOLEAN : Adds(InsertNode(k, v, alloc), E, k, v, alloc, H)
         /\ Takes(RemoveNode(k), E, k, H)
<1>1. flavor \in {"NONE", "RB", "AVL"} /\ k \in KeysOf[flavor]
  BY BstAssumption DEF Keys
<1>2. ASSUME NEW v \in Data, NEW alloc \in BOOLEAN
      PROVE  Adds(InsertNode(k, v, alloc), E, k, v, alloc, H)
  BY <1>1, RbAdds, AvlAdds, PlainAdds
<1>3. Takes(RemoveNode(k), E, k, H)
  BY <1>1, RbRemovesRoot, AvlRemovesRoot, PlainRemovesRoot
<1> QED
  BY <1>2, <1>3

-----------------------------------------------------------------------------
(* The state of a tree under any sequence of calls.                        *)

\* Trees[f] is the set of all trees of each flavor f in use.
Forest(Trees) == \A f \in Flavors : ForestOf(f, Trees[f])

\* The root is that of a tree of H that holds E, whose keys count counts.
Standing(E, H) == Rooted(root, E, H) /\ count = Cardinality(KeysIn(E))

\* The inductive invariant: the root is that of one of the trees of its flavor, and black
\* if it has a color, count counts its keys and no assertion has failed.
Sound(Trees) ==
  /\ flavor \in Flavors /\ rc \in {-1, 0, 1} /\ ok = TRUE /\ crashed \in BOOLEAN
  /\ \E E : Standing(E, Trees[flavor])

\* What a tree that holds E shows
LEMMA StandingReads ==
  ASSUME NEW CONSTANT Trees, Forest(Trees), flavor \in Flavors, NEW E,
         Standing(E, Trees[flavor])
  PROVE  /\ ReadsAs(root, E, Keys, Data) /\ Balanced(root, flavor) /\ Entries = MapOf(E)
         /\ IsFiniteSet(Keys) /\ IsFiniteSet(KeysIn(E))
<1>1. ForestOf(flavor, Trees[flavor])
  BY DEF Forest
<1>2. PICK h : <<root, h, E>> \in Trees[flavor]
  BY DEF Standing, Rooted
<1>3. ReadsAs(root, E, KeysOf[flavor], Data) /\ Balanced(root, flavor)
  BY <1>1, <1>2, TreeReads
<1>4. IsFiniteSet(KeysOf[flavor])
  BY <1>1 DEF ForestOf
<1>5. IsFiniteSet(KeysIn(E))
  BY <1>3, <1>4, FS_Subset DEF ReadsAs
<1> QED
  BY <1>3, <1>4, <1>5 DEF ReadsAs, Keys, Entries

\* The empty tree is a tree of every flavor.
LEMMA EmptyTree ==
  ASSUME NEW f \in Flavors, NEW H, ForestOf(f, H)
  PROVE  <<NULL, 0, {}>> \in H
<1>1. f \in {"NONE", "RB", "AVL"}
  BY BstAssumption
<1>2. CASE f = "RB"
  BY <1>2 DEF ForestOf, RbForest, RbTrees
<1>3. CASE f = "AVL"
  BY <1>3 DEF ForestOf, AvlForest, AvlTrees
<1>4. CASE f = "NONE"
  BY <1>4 DEF ForestOf, PlainForest, PlainTrees
<1> QED
  BY <1>1, <1>2, <1>3, <1>4

\* ... and the only tree whose root is NULL.
LEMMA EmptyHolds ==
  ASSUME NEW H, NEW F, flavor = "RB", ForestOf("RB", H), Rooted(NULL, F, H)
  PROVE  F = {}
<1>1. PICK h : <<NULL, h, F>> \in H
  BY DEF Rooted
<1>2. RbTrees(H, Pairs("RB"))
  BY DEF ForestOf, RbForest
<1> QED
  BY <1>1, <1>2, RbTake

\* The map of no entries
LEMMA EmptyMap ==
  /\ MapOf({}) = [k \in {} |-> NULL] /\ KeysIn({}) = {} /\ Cardinality({}) = 0
<1>1. KeysIn({}) = {}
  BY DEF KeysIn
<1>2. Cardinality({}) = 0
  BY FS_EmptySet
<1> QED
  BY <1>1, <1>2 DEF MapOf

LEMMA InitSound ==
  ASSUME NEW CONSTANT Trees, Forest(Trees), Init
  PROVE  Sound(Trees) /\ Entries = [k \in {} |-> NULL]
<1>1. flavor \in Flavors /\ root = NULL /\ count = 0 /\ rc = 0 /\ ok = TRUE /\ crashed = FALSE
  BY DEF Init
<1>2. <<NULL, 0, {}>> \in Trees[flavor]
  BY <1>1, EmptyTree DEF Forest
<1>3. Standing({}, Trees[flavor])
  BY <1>1, <1>2, EmptyMap DEF Standing, Rooted, IsRed
<1>4. Entries = MapOf({})
  BY <1>1, <1>3, StandingReads
<1> QED
  BY <1>1, <1>3, <1>4, EmptyMap DEF Sound

\* The call ends the program, for want of memory, with everything as it was.
Failed(alloc) == crashed' /\ ~alloc /\ UNCHANGED <<root, rc>>

\* An insertion keeps the tree sound and does to the map what it should.
LEMMA AddKeeps ==
  ASSUME NEW CONSTANT Trees, Forest(Trees), Sound(Trees), NEW k \in Keys, NEW v \in Data,
         NEW alloc \in BOOLEAN, Add(k, v, alloc)
  PROVE  /\ Sound(Trees)'
         /\ \/ Failed(alloc)
            \/ MapInserted(Entries, k, v, alloc, Entries', rc')
<1> DEFINE H == Trees[flavor]
           r == InsertNode(k, v, alloc)
<1>1. flavor \in Flavors /\ rc \in {-1, 0, 1} /\ ok = TRUE /\ crashed \in BOOLEAN
  BY DEF Sound
<1>2. PICK E : Standing(E, H)
  BY DEF Sound
<1>3. PICK h : <<root, h, E>> \in H /\ (flavor = "RB" => ~IsRed(root))
  BY <1>2 DEF Standing, Rooted
<1>4. ForestOf(flavor, H)
  BY <1>1 DEF Forest
<1>5. Adds(r, E, k, v, alloc, H)
  BY <1>1, <1>3, <1>4, TreeCalls
<1>6. ReadsAs(root, E, Keys, Data) /\ Entries = MapOf(E) /\ IsFiniteSet(KeysIn(E))
  BY <1>1, <1>2, StandingReads
<1> HIDE DEF r
<1>7. PICK F : r.ok /\ Inserted(E, k, v, alloc, F, r.rc) /\ Rooted(Blackened(r.t), F, H)
  BY <1>5 DEF Adds
<1>8. CASE flavor = "RB" /\ r.t = NULL
  <2>1. crashed' = TRUE /\ UNCHANGED <<flavor, root, count, rc, ok>>
    BY <1>8 DEF Add, r
  <2>2. ~alloc
    <3>1. Blackened(r.t) = NULL
      BY <1>8 DEF Blackened
    <3>2. F = {}
      BY <1>4, <1>7, <1>8, <3>1, EmptyHolds
    <3> QED
      BY <1>7, <3>2 DEF Inserted
  <2>3. Sound(Trees)'
    BY <1>1, <1>2, <2>1 DEF Sound, Standing, Rooted
  <2> QED
    BY <2>1, <2>2, <2>3 DEF Failed
<1>9. CASE ~(flavor = "RB" /\ r.t = NULL)
  <2>1. Store(r, 1)
    BY <1>9 DEF Add, r
  <2>2. /\ root' = Blackened(r.t) /\ count' = IF r.rc = 1 THEN count + 1 ELSE count
        /\ rc' = r.rc /\ ok' = TRUE /\ flavor' = flavor /\ crashed' = crashed
    BY <1>1, <1>7, <2>1 DEF Store
  <2>3. Rooted(root, F, H)'
    BY <1>7, <2>2 DEF Rooted
  <2>4. PICK m : <<root', m, F>> \in H
    BY <2>3, <2>2 DEF Rooted
  <2>5. ReadsAs(root', F, KeysOf[flavor], Data)
    BY <1>1, <1>4, <2>4, TreeReads
  <2>6. OnePerKey(E) /\ OnePerKey(F)
    BY <1>6, <2>5 DEF ReadsAs
  <2>7. /\ MapInserted(MapOf(E), k, v, alloc, MapOf(F), rc')
        /\ KeysIn(F) = IF rc' = 1 THEN KeysIn(E) \cup {k} ELSE KeysIn(E)
        /\ rc' = 1 => k \notin KeysIn(E)
        /\ rc' \in {-1, 0, 1}
    BY <1>7, <2>2, <2>6, InsertedInMap
  <2>8. Entries' = MapOf(F)
    BY <2>5 DEF ReadsAs, Entries
  <2>9. count' = Cardinality(KeysIn(F))
    <3>1. count = Cardinality(KeysIn(E))
      BY <1>2 DEF Standing
    <3>2. CASE rc' = 1
      <4>1. Cardinality(KeysIn(E) \cup {k}) = Cardinality(KeysIn(E)) + 1
        BY <1>6, <2>7, <3>2, FS_AddElement
      <4> QED
        BY <2>2, <2>7, <3>1, <3>2, <4>1
    <3>3. CASE rc' # 1
      BY <2>2, <2>7, <3>1, <3>3
    <3> QED
      BY <3>2, <3>3
  <2>10. Standing(F, Trees[flavor])'
    BY <2>2, <2>3, <2>9 DEF Standing
  <2>11. Sound(Trees)'
    BY <1>1, <2>2, <2>7, <2>10 DEF Sound
  <2> QED
    BY <1>6, <2>7, <2>8, <2>11
<1> QED
  BY <1>8, <1>9

\* So does a removal, ...
LEMMA RemoveKeeps ==
  ASSUME NEW CONSTANT Trees, Forest(Trees), Sound(Trees), NEW k \in Keys, Remove(k)
  PROVE  Sound(Trees)' /\ Map!Remove(k)
<1> DEFINE H == Trees[flavor]
           r == RemoveNode(k)
<1>1. flavor \in Flavors /\ rc \in {-1, 0, 1} /\ ok = TRUE /\ crashed \in BOOLEAN
  BY DEF Sound
<1>2. PICK E : Standing(E, H)
  BY DEF Sound
<1>3. PICK h : <<root, h, E>> \in H /\ (flavor = "RB" => ~IsRed(root))
  BY <1>2 DEF Standing, Rooted
<1>4. ForestOf(flavor, H)
  BY <1>1 DEF Forest
<1>5. Takes(r, E, k, H)
  BY <1>1, <1>3, <1>4, TreeCalls
<1>6. ReadsAs(root, E, Keys, Data) /\ Entries = MapOf(E) /\ IsFiniteSet(KeysIn(E))
  BY <1>1, <1>2, StandingReads
<1> HIDE DEF r
<1>7. PICK F : r.ok /\ Removed(E, k, F, r.rc) /\ Rooted(Blackened(r.t), F, H)
  BY <1>5 DEF Takes
<1>8. Store(r, -1)
  BY DEF Remove, r
<1>9. /\ root' = Blackened(r.t) /\ count' = IF r.rc = 1 THEN count + (-1) ELSE count
      /\ rc' = r.rc /\ ok' = TRUE /\ flavor' = flavor /\ crashed' = crashed
  BY <1>1, <1>7, <1>8 DEF Store
<1>10. Rooted(root, F, H)'
  BY <1>7, <1>9 DEF Rooted
<1>11. PICK m : <<root', m, F>> \in H
  BY <1>10, <1>9 DEF Rooted
<1>12. ReadsAs(root', F, KeysOf[flavor], Data)
  BY <1>1, <1>4, <1>11, TreeReads
<1>13. OnePerKey(E)
  BY <1>6 DEF ReadsAs
<1>14. /\ MapRemoved(MapOf(E), k, MapOf(F), rc')
       /\ KeysIn(F) = IF rc' = 1 THEN KeysIn(E) \ {k} ELSE KeysIn(E)
       /\ rc' = 1 => k \in KeysIn(E)
       /\ rc' \in {0, 1}
  BY <1>7, <1>9, <1>13, RemovedFromMap
<1>15. Entries' = MapOf(F)
  BY <1>12 DEF ReadsAs, Entries
<1>16. count' = Cardinality(KeysIn(F))
  <2>1. count = Cardinality(KeysIn(E)) /\ Cardinality(KeysIn(E)) \in Nat
    BY <1>2, <1>6, FS_CardinalityType DEF Standing
  <2>2. CASE rc' = 1
    <3>1. Cardinality(KeysIn(E) \ {k}) = Cardinality(KeysIn(E)) - 1
      BY <1>6, <1>14, <2>2, FS_RemoveElement
    <3>2. KeysIn(F) = KeysIn(E) \ {k} /\ count' = count + (-1)
      BY <1>9, <1>14, <2>2
    <3> QED
      BY <2>1, <3>1, <3>2
  <2>3. CASE rc' # 1
    BY <1>9, <1>14, <2>1, <2>3
  <2> QED
    BY <2>2, <2>3
<1>17. Standing(F, Trees[flavor])'
  BY <1>9, <1>10, <1>16 DEF Standing
<1>18. Sound(Trees)'
  BY <1>1, <1>9, <1>14, <1>17 DEF Sound
<1>19. Map!Remove(k)
  BY <1>6, <1>14, <1>15 DEF MapRemoved, Map!Remove, Map!Has, Map!Returns, Map!Without
<1> QED
  BY <1>18, <1>19

\* ... and clearing.
LEMMA ClearKeeps ==
  ASSUME NEW CONSTANT Trees, Forest(Trees), Sound(Trees), Clear
  PROVE  Sound(Trees)' /\ Map!Clear
<1>1. flavor \in Flavors /\ ok = TRUE /\ crashed \in BOOLEAN
  BY DEF Sound
<1>2. /\ root' = NULL /\ count' = 0 /\ rc' = 0
      /\ flavor' = flavor /\ ok' = ok /\ crashed' = crashed
  BY DEF Clear
<1>3. ForestOf(flavor, Trees[flavor])
  BY <1>1 DEF Forest
<1>4. <<NULL, 0, {}>> \in Trees[flavor]
  BY <1>1, <1>3, EmptyTree
<1>5. Standing({}, Trees[flavor])'
  BY <1>2, <1>4, EmptyMap DEF Standing, Rooted, IsRed
<1>6. ReadsAs(NULL, {}, KeysOf[flavor], Data)
  BY <1>1, <1>3, <1>4, TreeReads
<1>7. Entries' = [k \in {} |-> NULL]
  BY <1>2, <1>6, EmptyMap DEF ReadsAs, Entries
<1>8. Sound(Trees)'
  BY <1>1, <1>2, <1>5 DEF Sound
<1> QED
  BY <1>2, <1>7, <1>8 DEF Map!Clear, Map!Returns

-----------------------------------------------------------------------------

\* Every step keeps the tree sound, and changes and returns what the map's call does.
LEMMA InsertMaps ==
  ASSUME NEW k, MapInserted(Entries, k, NULL, TRUE, Entries', rc')
           \/ MapInserted(Entries, k, NULL, FALSE, Entries', rc')
  PROVE  Map!Insert(k)
  BY DEF MapInserted, Put, Map!Insert, Map!Has, Map!Returns, Map!With, Map!Fail

LEMMA SetMaps ==
  ASSUME NEW k, NEW v, v # NULL,
         MapInserted(Entries, k, v, TRUE, Entries', rc')
           \/ MapInserted(Entries, k, v, FALSE, Entries', rc')
  PROVE  Map!Set(k, v)
  BY DEF MapInserted, Put, Map!Set, Map!Has, Map!Returns, Map!With, Map!Fail

LEMMA CallsKeep ==
  ASSUME NEW CONSTANT Trees, Forest(Trees), Sound(Trees)
  PROVE  /\ \A k \in Keys, alloc \in BOOLEAN :
              /\ Insert(k, alloc) =>
                   Sound(Trees)' /\ (Failed(alloc) \/ Map!Insert(k))
              /\ \A v \in Values : Set(k, v, alloc) =>
                   Sound(Trees)' /\ (Failed(alloc) \/ Map!Set(k, v))
              /\ Insert(k, TRUE) \/ (\E v \in Values : Set(k, v, TRUE)) => rc' # -1
         /\ \A k \in Keys : Remove(k) => Sound(Trees)' /\ Map!Remove(k)
         /\ Clear => Sound(Trees)' /\ Map!Clear
<1>1. NULL \in Data /\ \A v \in Values : v \in Data /\ v # NULL
  BY BstAssumption DEF Data
<1>2. ASSUME NEW k \in Keys, NEW alloc \in BOOLEAN, Insert(k, alloc)
      PROVE  Sound(Trees)' /\ (Failed(alloc) \/ Map!Insert(k))
  <2>1. Add(k, NULL, alloc)
    BY <1>2 DEF Insert
  <2>2. /\ Sound(Trees)'
        /\ \/ Failed(alloc)
           \/ MapInserted(Entries, k, NULL, alloc, Entries', rc')
    BY <1>1, <2>1, AddKeeps
  <2>3. alloc = TRUE \/ alloc = FALSE
    OBVIOUS
  <2> QED
    BY <2>2, <2>3, InsertMaps
<1>3. ASSUME NEW k \in Keys, NEW alloc \in BOOLEAN, NEW v \in Values, Set(k, v, alloc)
      PROVE  Sound(Trees)' /\ (Failed(alloc) \/ Map!Set(k, v))
  <2>1. Add(k, v, alloc)
    BY <1>3 DEF Set
  <2>2. /\ Sound(Trees)'
        /\ \/ Failed(alloc)
           \/ MapInserted(Entries, k, v, alloc, Entries', rc')
    BY <1>1, <2>1, AddKeeps
  <2>3. alloc = TRUE \/ alloc = FALSE
    OBVIOUS
  <2> QED
    BY <1>1, <2>2, <2>3, SetMaps
<1>4. ASSUME NEW k \in Keys, NEW v \in Data, Add(k, v, TRUE) PROVE rc' # -1
  <2>1. \/ Failed(TRUE)
        \/ MapInserted(Entries, k, v, TRUE, Entries', rc')
    BY <1>4, AddKeeps
  <2>2. MapInserted(Entries, k, v, TRUE, Entries', rc')
    BY <2>1 DEF Failed
  <2> QED
    BY <2>2 DEF MapInserted
<1>5. ASSUME NEW k \in Keys, Insert(k, TRUE) \/ \E v \in Values : Set(k, v, TRUE) PROVE rc' # -1
  BY <1>1, <1>4, <1>5 DEF Insert, Set
<1>6. ASSUME NEW k \in Keys, Remove(k) PROVE Sound(Trees)' /\ Map!Remove(k)
  BY <1>6, RemoveKeeps
<1>7. ASSUME Clear PROVE Sound(Trees)' /\ Map!Clear
  BY <1>7, ClearKeeps
<1> QED
  BY <1>2, <1>3, <1>5, <1>6, <1>7

LEMMA NextSound ==
  ASSUME NEW CONSTANT Trees, Forest(Trees), Sound(Trees), [Next]_vars
  PROVE  Sound(Trees)' /\ [Map!Next]_(Map!vars)
<1>1. CASE UNCHANGED vars
  <2>1. UNCHANGED <<flavor, root, count, rc, ok, crashed>>
    BY <1>1 DEF vars
  <2>2. Sound(Trees)'
    BY <2>1 DEF Sound, Standing, Rooted
  <2>3. Entries' = Entries
    BY <2>1 DEF Entries
  <2> QED
    BY <2>1, <2>2, <2>3 DEF Map!vars
<1>2. flavor \in Flavors
  BY DEF Sound
<1>3. Keys \in SUBSET AllKeys
  BY <1>2 DEF Keys, AllKeys
<1>4. UNCHANGED <<root, rc>> => UNCHANGED Map!vars
  BY DEF Entries, Map!vars
<1>9. \A alloc : Failed(alloc) => UNCHANGED <<root, rc>>
  BY DEF Failed
<1>5. CASE \E k \in Keys, alloc \in BOOLEAN : Insert(k, alloc)
  <2>1. PICK k \in Keys : \E alloc \in BOOLEAN : Insert(k, alloc)
    BY <1>5
  <2>2. Sound(Trees)' /\ (UNCHANGED <<root, rc>> \/ Map!Insert(k))
    BY <1>9, <2>1, CallsKeep
  <2> QED
    BY <1>3, <1>4, <2>2 DEF Map!Next
<1>6. CASE \E k \in Keys, alloc \in BOOLEAN : \E v \in Values : Set(k, v, alloc)
  <2>1. PICK k \in Keys, v \in Values : \E alloc \in BOOLEAN : Set(k, v, alloc)
    BY <1>6
  <2>2. Sound(Trees)' /\ (UNCHANGED <<root, rc>> \/ Map!Set(k, v))
    BY <1>9, <2>1, CallsKeep
  <2> QED
    BY <1>3, <1>4, <2>2 DEF Map!Next
<1>7. CASE \E k \in Keys : Remove(k)
  <2>1. PICK k \in Keys : Remove(k)
    BY <1>7
  <2>2. Sound(Trees)' /\ Map!Remove(k)
    BY <2>1, CallsKeep
  <2> QED
    BY <1>3, <2>2 DEF Map!Next
<1>8. CASE Clear
  <2>1. Sound(Trees)' /\ Map!Clear
    BY <1>8, CallsKeep
  <2> QED
    BY <2>1 DEF Map!Next
<1> QED
  BY <1>1, <1>5, <1>6, <1>7, <1>8 DEF Next

\* What the runs check of a single state
LEMMA SoundMeans ==
  ASSUME NEW CONSTANT Trees, Forest(Trees), Sound(Trees)
  PROVE  InvariantAsserted /\ WalksInOrder /\ SearchFindsAll /\ LeansLeft
<1>1. flavor \in Flavors /\ rc \in {-1, 0, 1} /\ ok = TRUE /\ crashed \in BOOLEAN
  BY DEF Sound
<1>2. PICK E : Standing(E, Trees[flavor])
  BY DEF Sound
<1>3. /\ ReadsAs(root, E, Keys, Data) /\ Balanced(root, flavor) /\ Entries = MapOf(E)
      /\ IsFiniteSet(Keys) /\ IsFiniteSet(KeysIn(E))
  BY <1>1, <1>2, StandingReads
<1>4. PICK up : InOrder(up, E) /\ Walks(root, up)
  BY <1>3 DEF ReadsAs, WalkOf
<1>5. TotalNodes(root) = count
  <2>1. Traverse(root, {}).keys = up
    BY <1>4, WalkWhole
  <2>2. Cardinality(KeysIn(E)) = Len(up)
    BY <1>4, WalkCounts
  <2> QED
    BY <1>2, <2>1, <2>2 DEF TotalNodes, Standing
<1>6. count \in 0 .. Cardinality(Keys)
  <2>1. KeysIn(E) \in SUBSET Keys
    BY <1>3 DEF ReadsAs
  <2>2. Cardinality(KeysIn(E)) <= Cardinality(Keys)
    BY <1>3, <2>1, FS_Subset
  <2>3. Cardinality(KeysIn(E)) \in Nat /\ Cardinality(Keys) \in Nat
    BY <1>3, FS_CardinalityType
  <2> QED
    BY <1>2, <2>2, <2>3 DEF Standing
<1>7. TypeOK
  BY <1>1, <1>3, <1>6 DEF TypeOK, ReadsAs, Balanced, Data
<1>8. BstInvariant(root, count)
  BY <1>3, <1>5 DEF BstInvariant, ReadsAs, Balanced
<1>9. InvariantAsserted
  BY <1>1, <1>7, <1>8 DEF InvariantAsserted
<1>10. WalksInOrder
  <2>1. WalksAlong(root, Traverse(root, {}).keys)
    BY <1>4, WalksKeepOrder
  <2> QED
    BY <2>1, Zenon DEF WalksInOrder, WalksAlong
<1>11. SearchFindsAll
  <2>1. DOMAIN Entries = KeysIn(E)
    BY <1>3 DEF MapOf
  <2>2. ASSUME NEW k \in Keys PROVE Find(root, k) # NULL <=> k \in KeysIn(E)
    <3>1. Found(Find(root, k), E, k)
      BY <1>3 DEF ReadsAs
    <3> QED
      BY <3>1 DEF Found, KeysIn
  <2> QED
    BY <2>1, <2>2 DEF SearchFindsAll
<1>12. LeansLeft
  BY <1>2, <1>3 DEF LeansLeft, Standing, Rooted, Balanced
<1> QED
  BY <1>9, <1>10, <1>11, <1>12

\* The invariant of all four theorems that follow
LEMMA AlwaysSound ==
  ASSUME NEW CONSTANT Trees, Forest(Trees)
  PROVE  Spec => []Sound(Trees)
<1>1. Init => Sound(Trees)
  BY InitSound
<1>2. Sound(Trees) /\ [Next]_vars => Sound(Trees)'
  BY NextSound
<1> QED
  BY <1>1, <1>2, PTL DEF Spec

\* The library's own assertion around every call holds after any calls and failures:
\* count is the number of nodes, every node stands in order to its children, and the
\* tree is balanced in the way of its flavor (bst.c:459, 475, 490, 506, 524, 540).
THEOREM TreeInvariantAsserted ==
  ASSUME NEW CONSTANT Trees, Forest(Trees)
  PROVE  Spec => []InvariantAsserted
<1>1. Sound(Trees) => InvariantAsserted
  BY SoundMeans
<1> QED
  BY <1>1, AlwaysSound, PTL

\* The walks in both directions meet every key once, in order, and end where the
\* callback asks for it (bst.c:569-764).
THEOREM TreeWalksInOrder ==
  ASSUME NEW CONSTANT Trees, Forest(Trees)
  PROVE  Spec => []WalksInOrder
<1>1. Sound(Trees) => WalksInOrder
  BY SoundMeans
<1> QED
  BY <1>1, AlwaysSound, PTL

\* A search finds just the keys that some node holds (bst.c:100-114, 429-448).
THEOREM TreeSearchFindsAll ==
  ASSUME NEW CONSTANT Trees, Forest(Trees)
  PROVE  Spec => []SearchFindsAll
<1>1. Sound(Trees) => SearchFindsAll
  BY SoundMeans
<1> QED
  BY <1>1, AlwaysSound, PTL

\* A red-black tree leans left and has a black root (rb.c:160-163, 203, 207).
THEOREM TreeLeansLeft ==
  ASSUME NEW CONSTANT Trees, Forest(Trees)
  PROVE  Spec => []LeansLeft
<1>1. Sound(Trees) => LeansLeft
  BY SoundMeans
<1> QED
  BY <1>1, AlwaysSound, PTL

\* A tree of any flavor implements the map that the comments of bst.c promise: it starts
\* empty, and every step is a step of the map or changes nothing it shows.
THEOREM TreeImplementsMap ==
  ASSUME NEW CONSTANT Trees, Forest(Trees)
  PROVE  Spec => ImplementsMap
<1>1. Init => Map!Init
  <2>1. Init => rc = 0
    BY DEF Init
  <2>2. Init => Entries = [k \in {} |-> NULL]
    BY InitSound
  <2> QED
    BY <2>1, <2>2 DEF Map!Init
<1>2. Sound(Trees) /\ [Next]_vars => [Map!Next]_(Map!vars)
  BY NextSound
<1> QED
  BY <1>1, <1>2, AlwaysSound, PTL DEF Spec, ImplementsMap, Map!Spec

\* Every single call has the effect and the return code promised for its own key and
\* value, unless it ends the program, and none fails for want of memory it got
\* (bst.c:349-350, 450-452, 481-483, 512-515).
THEOREM TreeCallsKeepPromises ==
  ASSUME NEW CONSTANT Trees, Forest(Trees)
  PROVE  Spec => CallsKeepTheirPromises
<1> DEFINE P ==
      /\ \A k \in Keys, alloc \in BOOLEAN :
           /\ Insert(k, alloc) => crashed' \/ Map!Insert(k)
           /\ \A v \in Values : Set(k, v, alloc) => crashed' \/ Map!Set(k, v)
           /\ (Insert(k, TRUE) \/ \E v \in Values : Set(k, v, TRUE)) => rc' # -1
      /\ \A k \in Keys : Remove(k) => Map!Remove(k)
      /\ Clear => Map!Clear
<1>1. Sound(Trees) => P
  BY CallsKeep DEF Failed
<1>2. Sound(Trees) /\ [Next]_vars => [P]_vars
  BY <1>1
<1> HIDE DEF P
<1>3. Spec => [][P]_vars
  BY <1>2, AlwaysSound, PTL DEF Spec
<1> QED
  BY <1>3 DEF P, CallsKeepTheirPromises
=============================================================================
