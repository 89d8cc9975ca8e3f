---------------------------- MODULE ChainsProofs -----------------------------
(***************************************************************************)
(* Theorems about Chains: for any address space, number of buckets, hash   *)
(* function and contents, a forward list and a hashmap that share their    *)
(* memory never have a node in common and lose none, and each does what    *)
(* its calls promise whatever the other did before.                        *)
(***************************************************************************)
EXTENDS Chains, NodeMemoryProofs

LOCAL Numbers == INSTANCE HeapProofs

-----------------------------------------------------------------------------
(* The operators that both modules take from NodeMemory.                   *)

\* The list's and the map's copies of an operator are the same.
LEMMA SameOperators ==
  ASSUME NEW m, NEW p
  PROVE  /\ List!Chain(m, p) = Chain(m, p) /\ Map!Chain(m, p) = Chain(m, p)
         /\ List!FreeChain(m, p) = FreeChain(m, p) /\ Map!FreeChain(m, p) = FreeChain(m, p)
         /\ \A i : List!Walk(m, p, i) = Walk(m, p, i)
<1>1. \A S : List!Cardinality(S) = Cardinality(S) /\ Map!Cardinality(S) = Cardinality(S)
  BY DEF List!Cardinality, Cardinality, Map!Cardinality
<1>2. List!NextOf(m) = NextOf(m) /\ Map!NextOf(m) = NextOf(m)
  BY DEF List!NextOf, Map!NextOf, NextOf
<1>3. \A l, n : List!Met(l, p, n) = Met(l, p, n) /\ Map!Met(l, p, n) = Met(l, p, n)
  BY DEF List!Met, Map!Met, Met
<1>4. \A l, n : List!ChainAlong(l, p, n) = ChainAlong(l, p, n) /\ Map!ChainAlong(l, p, n) = ChainAlong(l, p, n)
  BY <1>3 DEF List!ChainAlong, Map!ChainAlong, ChainAlong
<1>5. List!Chain(m, p) = Chain(m, p) /\ Map!Chain(m, p) = Chain(m, p)
  BY <1>1, <1>2, <1>4 DEF List!Chain, Map!Chain, Chain
<1>6. List!FreeChain(m, p) = FreeChain(m, p) /\ Map!FreeChain(m, p) = FreeChain(m, p)
  <2> DEFINE ends(at) == {n \in DOMAIN at : at[n] = NULL /\ \A k \in 0 .. n - 1 : at[k] \in DOMAIN m}
             left(at) == {[x \in DOMAIN m \ {at[k] : k \in 0 .. n - 1} |-> m[x]] : n \in ends(at)}
  <2>1. /\ List!FreeChain(m, p) = left(List!Met(List!NextOf(m), p, List!Cardinality(DOMAIN m)))
        /\ Map!FreeChain(m, p) = left(Map!Met(Map!NextOf(m), p, Map!Cardinality(DOMAIN m)))
        /\ FreeChain(m, p) = left(Met(NextOf(m), p, Cardinality(DOMAIN m)))
    BY DEF List!FreeChain, Map!FreeChain, FreeChain
  <2> HIDE DEF left
  <2> QED
    BY <1>1, <1>2, <1>3, <2>1
<1>7. \A i : List!Walk(m, p, i) = Walk(m, p, i)
  BY <1>2, <1>3 DEF List!Walk, Walk
<1> QED
  BY <1>5, <1>6, <1>7

-----------------------------------------------------------------------------
(* What is where in the memory.                                            *)

Link == Addr \cup {NULL}
ListNode == [next : Link, data : Elem]
MapNode  == [next : Link, key : Keys, value : Values]

\* Where the chains of a list at f and of buckets b begin; the list is at -1.
Heads(f, b) == [i \in {-1} \cup DOMAIN b |-> IF i = -1 THEN f ELSE b[i]]

\* Which nodes of m are where: the list's on its chain, those of the map on the
\* chains of its buckets, each key in the bucket of its hash and in one node.
Sorted(m, b, n, c) ==
  /\ \A x : On(c[-1], n[-1], x) => m[x] \in ListNode
  /\ \A i \in DOMAIN b : \A x : On(c[i], n[i], x) => m[x] \in MapNode /\ Map!BucketOf(m[x].key) = i
  /\ \A i \in DOMAIN b : \A x, y :
       On(c[i], n[i], x) /\ On(c[i], n[i], y) /\ m[x].key = m[y].key => x = y

\* The allocated nodes are those of a list at f and a map with buckets b.
Held(m, f, b, n, c) ==
  /\ IsFiniteSet(DOMAIN m) /\ \A x \in DOMAIN m : x \in Addr
  /\ f \in Link /\ (b = Map!NoArray \/ b \in [Map!Bucket -> Link])
  /\ Apart(NextOf(m), Heads(f, b), n, c)
  /\ Sorted(m, b, n, c)

\* The nodes that are not the list's
MapNodes(m, n, c) == {x \in DOMAIN m : ~On(c[-1], n[-1], x)}

\* The heads, by list and bucket
LEMMA HeadsAre ==
  ASSUME NEW f, NEW b, b = Map!NoArray \/ b \in [Map!Bucket -> Link]
  PROVE  /\ DOMAIN Heads(f, b) = {-1} \cup DOMAIN b /\ Heads(f, b)[-1] = f
         /\ \A i \in DOMAIN b : i # -1 /\ i \in Map!Bucket /\ Heads(f, b)[i] = b[i] /\ b[i] \in Link
         /\ b = Map!NoArray <=> DOMAIN b = {}
         /\ b # Map!NoArray => DOMAIN b = Map!Bucket
<1>1. Map!Bucket # {} /\ \A i \in Map!Bucket : i # -1
  <2>1. 0 \in 0 .. NBuckets - 1 /\ \A i \in 0 .. NBuckets - 1 : i # -1
    BY ChainsAssumption
  <2> QED
    BY <2>1 DEF Map!Bucket
<1>2. DOMAIN Map!NoArray = {}
  BY DEF Map!NoArray
<1>3. b \in [Map!Bucket -> Link] => b # Map!NoArray /\ DOMAIN b = Map!Bucket
  BY <1>1, <1>2
<1>4. \A i \in DOMAIN b : i # -1 /\ i \in Map!Bucket /\ b[i] \in Link
  BY <1>1, <1>2
<1>5. DOMAIN Heads(f, b) = {-1} \cup DOMAIN b /\ Heads(f, b)[-1] = f
  BY DEF Heads
<1>6. \A i \in DOMAIN b : Heads(f, b)[i] = b[i]
  BY <1>4 DEF Heads
<1> QED
  BY <1>1, <1>2, <1>3, <1>4, <1>5, <1>6

\* The chains of the list and of the buckets
LEMMA HeldChains ==
  ASSUME NEW m, NEW f, NEW b, NEW n, NEW c, Held(m, f, b, n, c)
  PROVE  /\ NULL \notin DOMAIN m /\ IsFiniteSet(DOMAIN m) /\ DOMAIN NextOf(m) = DOMAIN m
         /\ Strand(NextOf(m), f, n[-1], c[-1]) /\ n[-1] \in Nat
         /\ \A i \in DOMAIN b : Strand(NextOf(m), b[i], n[i], c[i]) /\ n[i] \in Nat
         /\ Chain(m, f) = [k \in 1 .. n[-1] |-> c[-1][k - 1]]
         /\ \A i \in DOMAIN b : Chain(m, b[i]) = [k \in 1 .. n[i] |-> c[i][k - 1]]
         /\ \A x : On(c[-1], n[-1], x) => x \in DOMAIN m
         /\ \A x : x \in MapNodes(m, n, c) <=> \E i \in DOMAIN b : On(c[i], n[i], x)
<1> DEFINE h == Heads(f, b)
           link == NextOf(m)
<1>1. NULL \notin DOMAIN m /\ IsFiniteSet(DOMAIN m) /\ DOMAIN link = DOMAIN m
  BY NodeMemoryAssumption DEF Held, NextOf
<1>2. /\ DOMAIN h = {-1} \cup DOMAIN b /\ h[-1] = f
      /\ \A i \in DOMAIN b : i # -1 /\ h[i] = b[i]
  BY HeadsAre DEF Held
<1>3. Apart(link, h, n, c)
  BY DEF Held
<1> HIDE DEF h, link
<1>4. Strand(link, f, n[-1], c[-1]) /\ \A i \in DOMAIN b : Strand(link, b[i], n[i], c[i])
  <2>1. -1 \in DOMAIN h
    BY <1>2
  <2>2. Strand(link, h[-1], n[-1], c[-1])
    BY <1>3, <2>1 DEF Apart
  <2>3. ASSUME NEW i \in DOMAIN b PROVE Strand(link, b[i], n[i], c[i])
    <3>1. i \in DOMAIN h /\ h[i] = b[i]
      BY <1>2
    <3> QED
      BY <1>3, <3>1 DEF Apart
  <2> QED
    BY <1>2, <2>2, <2>3
<1>5. n[-1] \in Nat /\ \A i \in DOMAIN b : n[i] \in Nat
  BY <1>4 DEF Strand
<1>6. /\ Chain(m, f) = [k \in 1 .. n[-1] |-> c[-1][k - 1]]
      /\ \A i \in DOMAIN b : Chain(m, b[i]) = [k \in 1 .. n[i] |-> c[i][k - 1]]
  BY <1>1, <1>4, StrandChain DEF link
<1>7. \A x : On(c[-1], n[-1], x) => x \in DOMAIN m
  BY <1>1, <1>4, StrandNodes
<1>8. \A x : x \in MapNodes(m, n, c) <=> \E i \in DOMAIN b : On(c[i], n[i], x)
  BY <1>1, <1>2, <1>3 DEF MapNodes, Apart
<1> QED
  BY <1>1, <1>4, <1>5, <1>6, <1>7, <1>8 DEF link

-----------------------------------------------------------------------------
(* A step changes one chain.                                               *)

\* M has the nodes of m but for those of a chain, and allocates from Addr.
OthersKept(m, M, n, c) ==
  /\ IsFiniteSet(DOMAIN M) /\ \A x \in DOMAIN M : x \in Addr
  /\ \A x \in DOMAIN m : ~On(c, n, x) => M[x] = m[x]

\* Whatever the list does with its own chain leaves the map as it is.
LEMMA ListChanges ==
  ASSUME NEW m, NEW f, NEW b, NEW n, NEW c, Held(m, f, b, n, c),
         NEW M, OthersKept(m, M, n[-1], c[-1]), NEW F \in Link, NEW l, NEW d,
         Strand(NextOf(M), F, l, d), Replaced(NextOf(m), NextOf(M), n[-1], c[-1], l, d),
         \A x : On(d, l, x) => M[x] \in ListNode
  PROVE  \E N, C : /\ Held(M, F, b, N, C) /\ N[-1] = l /\ C[-1] = d
                   /\ MapNodes(M, N, C) = MapNodes(m, n, c)
                   /\ \A x \in MapNodes(m, n, c) : M[x] = m[x]
<1> DEFINE h == Heads(f, b)
           H == Heads(F, b)
           N == [i \in DOMAIN h |-> IF i = -1 THEN l ELSE n[i]]
           C == [i \in DOMAIN h |-> IF i = -1 THEN d ELSE c[i]]
<1>1. /\ b = Map!NoArray \/ b \in [Map!Bucket -> Link]
      /\ Apart(NextOf(m), h, n, c) /\ Sorted(m, b, n, c)
  BY DEF Held
<1>2. /\ DOMAIN h = {-1} \cup DOMAIN b /\ DOMAIN H = DOMAIN h /\ h[-1] = f /\ H[-1] = F
      /\ \A i \in DOMAIN b : i # -1 /\ h[i] = b[i] /\ H[i] = b[i]
  <2>1. /\ DOMAIN h = {-1} \cup DOMAIN b /\ h[-1] = f
        /\ \A i \in DOMAIN b : i # -1 /\ h[i] = b[i]
    BY <1>1, HeadsAre
  <2>2. /\ DOMAIN H = {-1} \cup DOMAIN b /\ H[-1] = F
        /\ \A i \in DOMAIN b : H[i] = b[i]
    BY <1>1, HeadsAre
  <2> HIDE DEF h, H
  <2> QED
    BY <2>1, <2>2
<1> HIDE DEF h, H
<1>3. N[-1] = l /\ C[-1] = d /\ \A i \in DOMAIN b : N[i] = n[i] /\ C[i] = c[i]
  BY <1>2
<1> HIDE DEF N, C
<1>4. SameBut(-1, h, n, c, H, N, C)
  BY <1>2, <1>3 DEF SameBut
<1>5. Strand(NextOf(M), H[-1], N[-1], C[-1]) /\ Replaced(NextOf(m), NextOf(M), n[-1], c[-1], N[-1], C[-1])
  BY <1>2, <1>3
<1>6. Apart(NextOf(M), H, N, C)
  BY <1>1, <1>4, <1>5, ApartReplace
<1>7. DOMAIN NextOf(m) = DOMAIN m /\ DOMAIN NextOf(M) = DOMAIN M
  BY DEF NextOf
<1>8. \A i \in DOMAIN b : \A x : On(c[i], n[i], x) => M[x] = m[x]
  <2>1. \A i \in DOMAIN b : \A x : On(c[i], n[i], x) => x \in DOMAIN m /\ ~On(c[-1], n[-1], x)
    BY <1>1, <1>2, <1>7 DEF Apart
  <2> QED
    BY <2>1 DEF OthersKept
<1>9. Sorted(M, b, N, C)
  BY <1>1, <1>3, <1>8 DEF Sorted
<1>10. Held(M, F, b, N, C)
  BY <1>1, <1>6, <1>9 DEF Held, OthersKept, H
<1>11. MapNodes(M, N, C) = MapNodes(m, n, c)
  <2>1. \A x : x \in MapNodes(M, N, C) <=> x \in MapNodes(m, n, c)
    BY <1>3, <1>7 DEF MapNodes, Replaced
  <2> QED
    BY <2>1
<1>12. \A x \in MapNodes(m, n, c) : M[x] = m[x]
  BY DEF MapNodes, OthersKept
<1> QED
  BY <1>3, <1>10, <1>11, <1>12

\* The l nodes of d fit into bucket i: each key is of that bucket, and in one node.
FitsBucket(m, i, l, d) ==
  /\ \A x : On(d, l, x) => m[x] \in MapNode /\ Map!BucketOf(m[x].key) = i
  /\ \A x, y : On(d, l, x) /\ On(d, l, y) /\ m[x].key = m[y].key => x = y

\* In memory M the l nodes of d have taken the place of those of bucket i.
BucketBecomes(m, f, n, c, M, B, i, l, d) ==
  \E N, C : /\ Held(M, f, B, N, C) /\ N[-1] = n[-1]
            /\ \A x : x \in MapNodes(M, N, C)
                        <=> On(d, l, x) \/ (x \in MapNodes(m, n, c) /\ ~On(c[i], n[i], x))

\* Whatever the map does with the chain of a bucket leaves the list as it is.
LEMMA BucketChanges ==
  ASSUME NEW m, NEW f, NEW b, NEW n, NEW c, NEW i, NEW M, NEW p, NEW l, NEW d, Held(m, f, b, n, c),
         Strand(NextOf(M), p, l, d), Replaced(NextOf(m), NextOf(M), n[i], c[i], l, d),
         OthersKept(m, M, n[i], c[i]), FitsBucket(M, i, l, d), i \in DOMAIN b, p \in Link
  PROVE  BucketBecomes(m, f, n, c, M, [b EXCEPT ![i] = p], i, l, d)
<1> DEFINE B == [b EXCEPT ![i] = p]
           h == Heads(f, b)
           H == Heads(f, B)
           N == [j \in DOMAIN h |-> IF j = i THEN l ELSE n[j]]
           C == [j \in DOMAIN h |-> IF j = i THEN d ELSE c[j]]
<1>1. /\ b = Map!NoArray \/ b \in [Map!Bucket -> Link]
      /\ Apart(NextOf(m), h, n, c) /\ Sorted(m, b, n, c) /\ f \in Link
  BY DEF Held
<1>2. b \in [Map!Bucket -> Link]
  BY <1>1, HeadsAre
<1>3. B \in [Map!Bucket -> Link] /\ DOMAIN B = DOMAIN b /\ B[i] = p /\ \A j \in DOMAIN b : j # i => B[j] = b[j]
  BY <1>2
<1> HIDE DEF B
<1>4. /\ DOMAIN h = {-1} \cup DOMAIN b /\ DOMAIN H = DOMAIN h /\ h[-1] = f /\ H[-1] = f
      /\ \A j \in DOMAIN b : j # -1 /\ h[j] = b[j] /\ H[j] = B[j]
  <2>1. /\ DOMAIN h = {-1} \cup DOMAIN b /\ h[-1] = f
        /\ \A j \in DOMAIN b : j # -1 /\ h[j] = b[j]
    BY <1>2, HeadsAre
  <2>2. /\ DOMAIN H = {-1} \cup DOMAIN B /\ H[-1] = f
        /\ \A j \in DOMAIN B : H[j] = B[j]
    <3>1. B = Map!NoArray \/ B \in [Map!Bucket -> Link]
      BY <1>3
    <3> QED
      BY <3>1, HeadsAre
  <2> QED
    BY <1>3, <2>1, <2>2
<1> HIDE DEF h, H
<1>5. /\ N[i] = l /\ C[i] = d /\ N[-1] = n[-1] /\ C[-1] = c[-1]
      /\ \A j \in DOMAIN b : j # i => N[j] = n[j] /\ C[j] = c[j]
  BY <1>4
<1> HIDE DEF N, C
<1>6. SameBut(i, h, n, c, H, N, C)
  BY <1>3, <1>4, <1>5 DEF SameBut
<1>7. Strand(NextOf(M), H[i], N[i], C[i]) /\ Replaced(NextOf(m), NextOf(M), n[i], c[i], N[i], C[i])
  BY <1>3, <1>4, <1>5
<1>8. Apart(NextOf(M), H, N, C)
  BY <1>1, <1>6, <1>7, ApartReplace
<1>9. DOMAIN NextOf(m) = DOMAIN m /\ DOMAIN NextOf(M) = DOMAIN M
  BY DEF NextOf
<1>10. \A j \in DOMAIN h : j # i => \A x : On(c[j], n[j], x) => M[x] = m[x]
  <2>1. \A j \in DOMAIN h : j # i => \A x : On(c[j], n[j], x) => x \in DOMAIN m /\ ~On(c[i], n[i], x)
    BY <1>1, <1>4, <1>9 DEF Apart
  <2> QED
    BY <2>1 DEF OthersKept
<1>11. \A x : On(c[-1], n[-1], x) => M[x] = m[x]
  BY <1>4, <1>10
<1>12. \A x : On(C[-1], N[-1], x) => M[x] \in ListNode
  BY <1>1, <1>5, <1>11 DEF Sorted
<1>13. ASSUME NEW j \in DOMAIN B
       PROVE  /\ \A x : On(C[j], N[j], x) => M[x] \in MapNode /\ Map!BucketOf(M[x].key) = j
              /\ \A x, y : On(C[j], N[j], x) /\ On(C[j], N[j], y) /\ M[x].key = M[y].key => x = y
  <2>1. CASE j = i
    BY <1>5, <2>1 DEF FitsBucket
  <2>2. CASE j # i
    <3>1. j \in DOMAIN h /\ j \in DOMAIN b /\ N[j] = n[j] /\ C[j] = c[j]
      BY <1>3, <1>4, <1>5, <2>2
    <3>2. \A x : On(c[j], n[j], x) => M[x] = m[x]
      BY <1>10, <2>2, <3>1
    <3> QED
      BY <1>1, <3>1, <3>2 DEF Sorted
  <2> QED
    BY <2>1, <2>2
<1>14. Sorted(M, B, N, C)
  BY <1>12, <1>13 DEF Sorted
<1>15. Held(M, f, B, N, C)
  BY <1>1, <1>3, <1>8, <1>14 DEF Held, OthersKept, H
<1>16. \A x : On(d, l, x) => ~On(c[-1], n[-1], x)
  <2>1. \A x : On(c[i], n[i], x) => ~On(c[-1], n[-1], x)
    BY <1>1, <1>4 DEF Apart
  <2>2. \A x : On(c[-1], n[-1], x) => x \in DOMAIN NextOf(m)
    BY <1>1, <1>4 DEF Apart
  <2> QED
    BY <2>1, <2>2 DEF Replaced
<1>17. \A x : x \in MapNodes(M, N, C)
                <=> On(d, l, x) \/ (x \in MapNodes(m, n, c) /\ ~On(c[i], n[i], x))
  BY <1>5, <1>9, <1>16 DEF MapNodes, Replaced
<1> QED
  BY <1>5, <1>15, <1>17 DEF B, BucketBecomes

-----------------------------------------------------------------------------
(* The steps of the list.                                                  *)

\* Every node has a link, into the memory of both.
LEMMA HeldNodes ==
  ASSUME NEW m, NEW f, NEW b, NEW n, NEW c, Held(m, f, b, n, c)
  PROVE  /\ \A x \in DOMAIN m : m[x] \in ListNode \/ m[x] \in MapNode
         /\ HasNext(m) /\ \A x \in DOMAIN m : m[x].next \in Link
         /\ \A x : On(c[-1], n[-1], x) => m[x] \in ListNode
         /\ \A x \in MapNodes(m, n, c) : m[x] \in MapNode
<1>1. \A x \in DOMAIN m : On(c[-1], n[-1], x) \/ x \in MapNodes(m, n, c)
  BY DEF MapNodes
<1>2. \A x \in MapNodes(m, n, c) : m[x] \in MapNode
  BY HeldChains DEF Held, Sorted
<1>3. \A x : On(c[-1], n[-1], x) => m[x] \in ListNode
  BY DEF Held, Sorted
<1>4. \A r : r \in ListNode \/ r \in MapNode => "next" \in DOMAIN r /\ r.next \in Link
  BY DEF ListNode, MapNode
<1> QED
  BY <1>1, <1>2, <1>3, <1>4 DEF HasNext

\* The elements of the list are a sequence.
LEMMA HeldData ==
  ASSUME NEW m, NEW f, NEW b, NEW n, NEW c, Held(m, f, b, n, c)
  PROVE  Data(m, n[-1], c[-1]) \in Seq(Elem) /\ Len(Data(m, n[-1], c[-1])) = n[-1]
<1>1. n[-1] \in Nat
  BY HeldChains
<1>2. \A x : On(c[-1], n[-1], x) => m[x].data \in Elem
  BY HeldNodes DEF ListNode
<1>3. \A k \in 0 .. n[-1] - 1 : m[c[-1][k]].data \in Elem
  BY <1>2 DEF On
<1> QED
  BY <1>1, <1>3, DataIsSeq

\* With a node at a as the i-th a list at f begins at F; without its first, at
\* the next node.
HeadWith(f, i, a, F) == F = IF i = 0 THEN a ELSE f
HeadWithout(f, i, next, F) == F = IF i = 0 THEN next ELSE f

\* Memory M holds a list at F of length l and elements s, and the map of m.
ListBecomes(m, n, c, M, F, b, l, s) ==
  \E N, C : /\ Held(M, F, b, N, C) /\ N[-1] = l /\ Data(M, N[-1], C[-1]) = s
            /\ MapNodes(M, N, C) = MapNodes(m, n, c)
            /\ \A x \in MapNodes(m, n, c) : M[x] = m[x]

\* A node is linked into the list.
LEMMA ListInserts ==
  ASSUME NEW m, NEW f, NEW b, NEW n, NEW c, NEW M, NEW i, NEW a, NEW node, Held(m, f, b, n, c),
         LinkedIn(m, M, f, c[-1], i, a, node), i \in 0 .. n[-1], a \in Addr, node \in ListNode,
         NEW F, HeadWith(f, i, a, F)
  PROVE  ListBecomes(m, n, c, M, F, b, n[-1] + 1, With(Data(m, n[-1], c[-1]), i, node.data))
<1> DEFINE l == n[-1]
           d == c[-1]
           D == Squeezed(d, l, i, a)
<1>1. Strand(NextOf(m), f, l, d) /\ l \in Nat /\ IsFiniteSet(DOMAIN m) /\ HasNext(m) /\ f \in Link
  BY HeldChains, HeldNodes DEF Held
<1>2. \A x : On(d, l, x) => x \in DOMAIN m /\ m[x] \in ListNode
  BY HeldChains, HeldNodes
<1>3. Data(m, l, d) \in Seq(Elem) /\ Len(Data(m, l, d)) = l
  BY HeldData
<1>4. \A x \in DOMAIN m : x \in Addr
  BY DEF Held
<1> HIDE DEF l, d
<1>5. /\ Strand(NextOf(M), F, l + 1, D) /\ Replaced(NextOf(m), NextOf(M), l, d, l + 1, D)
      /\ \A x : On(D, l + 1, x) <=> x = a \/ On(d, l, x)
  BY <1>1, LinkInStrand DEF l, d, HeadWith
<1> HIDE DEF D
<1>6. i # 0 => On(d, l, d[i - 1])
  <2>1. i # 0 => i - 1 \in 0 .. l - 1
    BY <1>1 DEF l
  <2> QED
    BY <2>1 DEF On
<1>7. OthersKept(m, M, l, d)
  <2>1. DOMAIN M = DOMAIN m \cup {a}
    BY DEF LinkedIn
  <2>2. IsFiniteSet(DOMAIN M)
    BY <1>1, <2>1, FS_AddElement
  <2>3. \A x \in DOMAIN m : ~On(d, l, x) => M[x] = m[x]
    BY <1>6 DEF LinkedIn, d
  <2> QED
    BY <1>4, <2>1, <2>2, <2>3 DEF OthersKept
<1>8. \A x : On(d, l, x) => M[x] \in ListNode /\ M[x].data = m[x].data
  <2>1. ASSUME NEW x, On(d, l, x), i = 0 \/ x # d[i - 1]
        PROVE  M[x] \in ListNode /\ M[x].data = m[x].data
    BY <1>2, <2>1 DEF LinkedIn, d
  <2>2. ASSUME i # 0
        PROVE  M[d[i - 1]] \in ListNode /\ M[d[i - 1]].data = m[d[i - 1]].data
    <3>1. m[d[i - 1]] \in ListNode /\ M[d[i - 1]] = [m[d[i - 1]] EXCEPT !.next = a]
      BY <1>2, <1>6, <2>2 DEF LinkedIn, d
    <3> QED
      BY <3>1 DEF ListNode, Link
  <2> QED
    BY <2>1, <2>2
<1>9. \A x : On(D, l + 1, x) => M[x] \in ListNode
  BY <1>5, <1>8 DEF LinkedIn
<1>10. Data(M, l + 1, D) = With(Data(m, l, d), i, node.data)
  <2>1. SameData(m, M, d, l, l)
    BY <1>8 DEF SameData, On
  <2>2. M[a].data = node.data /\ i \in 0 .. l
    BY DEF LinkedIn, l
  <2> QED
    BY <1>1, <1>3, <2>1, <2>2, DataWith DEF D
<1>11. F \in Link
  BY <1>1 DEF Link, HeadWith
<1>12. PICK N, C : /\ Held(M, F, b, N, C) /\ N[-1] = l + 1 /\ C[-1] = D
                   /\ MapNodes(M, N, C) = MapNodes(m, n, c)
                   /\ \A x \in MapNodes(m, n, c) : M[x] = m[x]
  BY <1>5, <1>7, <1>9, <1>11, ListChanges DEF l, d
<1> QED
  BY <1>10, <1>12 DEF l, d, ListBecomes

\* A node is taken out of the list.
LEMMA ListRemoves ==
  ASSUME NEW m, NEW f, NEW b, NEW n, NEW c, NEW M, NEW i, Held(m, f, b, n, c),
         TakenOut(m, M, c[-1], i), i \in 0 .. n[-1] - 1,
         NEW F, HeadWithout(f, i, m[c[-1][0]].next, F)
  PROVE  ListBecomes(m, n, c, M, F, b, n[-1] - 1, Without(Data(m, n[-1], c[-1]), i))
<1> DEFINE l == n[-1]
           d == c[-1]
           D == Closed(d, l, i)
<1>1. Strand(NextOf(m), f, l, d) /\ l \in Nat /\ IsFiniteSet(DOMAIN m) /\ HasNext(m) /\ f \in Link
  BY HeldChains, HeldNodes DEF Held
<1>2. \A x : On(d, l, x) => x \in DOMAIN m /\ m[x] \in ListNode
  BY HeldChains, HeldNodes
<1>3. Data(m, l, d) \in Seq(Elem) /\ Len(Data(m, l, d)) = l
  BY HeldData
<1>4. \A x \in DOMAIN m : x \in Addr
  BY DEF Held
<1> HIDE DEF l, d
<1>5. /\ Strand(NextOf(M), F, l - 1, D) /\ Replaced(NextOf(m), NextOf(M), l, d, l - 1, D)
      /\ \A x : On(D, l - 1, x) <=> On(d, l, x) /\ x # d[i]
  BY <1>1, TakeOutStrand DEF l, d, HeadWithout
<1> HIDE DEF D
<1>6. On(d, l, d[i]) /\ On(d, l, d[0]) /\ (i # 0 => On(d, l, d[i - 1]))
  <2>1. i \in 0 .. l - 1 /\ 0 \in 0 .. l - 1 /\ (i # 0 => i - 1 \in 0 .. l - 1)
    BY <1>1 DEF l
  <2> QED
    BY <2>1 DEF On
<1>7. OthersKept(m, M, l, d)
  <2>1. DOMAIN M = DOMAIN m \ {d[i]}
    BY DEF TakenOut, d
  <2>2. IsFiniteSet(DOMAIN M)
    BY <1>1, <2>1, FS_RemoveElement
  <2>3. \A x \in DOMAIN m : ~On(d, l, x) => x \in DOMAIN M /\ (i = 0 \/ x # d[i - 1])
    BY <1>6, <2>1
  <2>4. \A x \in DOMAIN m : ~On(d, l, x) => M[x] = m[x]
    BY <2>3 DEF TakenOut, d
  <2> QED
    BY <1>4, <2>1, <2>2, <2>4 DEF OthersKept
<1>8. \A x : On(d, l, x) /\ x # d[i] => M[x] \in ListNode /\ M[x].data = m[x].data
  <2>1. ASSUME NEW x, On(d, l, x), x # d[i], i = 0 \/ x # d[i - 1]
        PROVE  M[x] \in ListNode /\ M[x].data = m[x].data
    BY <1>2, <2>1 DEF TakenOut, d
  <2>2. ASSUME i # 0
        PROVE  M[d[i - 1]] \in ListNode /\ M[d[i - 1]].data = m[d[i - 1]].data
    <3>1. m[d[i - 1]] \in ListNode /\ M[d[i - 1]] = [m[d[i - 1]] EXCEPT !.next = m[d[i]].next]
      BY <1>2, <1>6, <2>2 DEF TakenOut, d
    <3>2. m[d[i]].next \in Link
      BY <1>2, <1>6 DEF ListNode
    <3> QED
      BY <3>1, <3>2 DEF ListNode
  <2> QED
    BY <2>1, <2>2
<1>9. \A x : On(D, l - 1, x) => M[x] \in ListNode
  BY <1>5, <1>8
<1>10. Data(M, l - 1, D) = Without(Data(m, l, d), i)
  <2>1. ASSUME NEW k \in 0 .. l - 1, k # i PROVE On(d, l, d[k]) /\ d[k] # d[i]
    BY <1>1, <2>1 DEF On, Strand, l
  <2>2. SameData(m, M, d, l, i)
    BY <1>8, <2>1 DEF SameData
  <2>3. i \in 0 .. l - 1
    BY DEF l
  <2> QED
    BY <1>1, <1>3, <2>2, <2>3, DataWithout DEF D
<1>11. F \in Link
  BY <1>1, <1>2, <1>6 DEF ListNode, d, HeadWithout
<1>12. PICK N, C : /\ Held(M, F, b, N, C) /\ N[-1] = l - 1 /\ C[-1] = D
                   /\ MapNodes(M, N, C) = MapNodes(m, n, c)
                   /\ \A x \in MapNodes(m, n, c) : M[x] = m[x]
  BY <1>5, <1>7, <1>9, <1>11, ListChanges DEF l, d
<1> QED
  BY <1>10, <1>12 DEF l, d, ListBecomes

\* M is m with element v in the node at x.
Stored(m, M, x, v) == M = [m EXCEPT ![x].data = v]

\* An element of the list is replaced.
LEMMA ListSets ==
  ASSUME NEW m, NEW f, NEW b, NEW n, NEW c, NEW M, NEW i, NEW v, Held(m, f, b, n, c),
         Stored(m, M, c[-1][i], v), i \in 0 .. n[-1] - 1, v \in Elem
  PROVE  ListBecomes(m, n, c, M, f, b, n[-1], [Data(m, n[-1], c[-1]) EXCEPT ![i + 1] = v])
<1> DEFINE l == n[-1]
           d == c[-1]
<1>1. Strand(NextOf(m), f, l, d) /\ l \in Nat /\ IsFiniteSet(DOMAIN m) /\ HasNext(m) /\ f \in Link
  BY HeldChains, HeldNodes DEF Held
<1>2. \A x : On(d, l, x) => x \in DOMAIN m /\ m[x] \in ListNode
  BY HeldChains, HeldNodes
<1>3. \A x \in DOMAIN m : x \in Addr
  BY DEF Held
<1>4. M = [m EXCEPT ![d[i]] = [m[d[i]] EXCEPT !.data = v]] /\ i \in 0 .. l - 1
  BY DEF Stored
<1> HIDE DEF l, d
<1>5. On(d, l, d[i])
  BY <1>4 DEF On
<1>6. /\ DOMAIN M = DOMAIN m /\ M[d[i]] = [m[d[i]] EXCEPT !.data = v]
      /\ \A x \in DOMAIN m : x # d[i] => M[x] = m[x]
  BY <1>2, <1>4, <1>5
<1>7. M[d[i]] \in ListNode /\ M[d[i]].data = v /\ M[d[i]].next = m[d[i]].next
  <2>1. m[d[i]] \in ListNode
    BY <1>2, <1>5
  <2> QED
    BY <1>6, <2>1 DEF ListNode
<1>8. NextOf(M) = NextOf(m)
  <2>1. \A x \in DOMAIN m : M[x].next = m[x].next
    BY <1>6, <1>7
  <2> QED
    BY <1>6, <2>1 DEF NextOf
<1>9. Strand(NextOf(M), f, l, d) /\ Replaced(NextOf(m), NextOf(M), l, d, l, d)
  <2>1. \A x : On(d, l, x) => x \in DOMAIN NextOf(m)
    BY <1>2 DEF NextOf
  <2> QED
    BY <1>1, <1>8, <2>1 DEF Replaced
<1>10. \A x : On(d, l, x) => M[x] \in ListNode
  BY <1>2, <1>6, <1>7
<1>11. OthersKept(m, M, l, d)
  BY <1>1, <1>3, <1>5, <1>6 DEF OthersKept
<1>12. Data(M, l, d) = [Data(m, l, d) EXCEPT ![i + 1] = v]
  <2>1. ASSUME NEW k \in 1 .. l
        PROVE  M[d[k - 1]].data = IF k = i + 1 THEN v ELSE m[d[k - 1]].data
    <3>1. CASE k = i + 1
      <4>1. k - 1 = i
        BY <1>4, <3>1
      <4> QED
        BY <1>7, <3>1, <4>1
    <3>2. CASE k # i + 1
      <4>1. k - 1 \in 0 .. l - 1 /\ k - 1 # i
        BY <1>1, <1>4, <3>2
      <4>2. d[k - 1] # d[i] /\ On(d, l, d[k - 1])
        BY <1>1, <1>4, <4>1 DEF Strand, On
      <4>3. \A x : On(d, l, x) /\ x # d[i] => M[x].data = m[x].data
        BY <1>2, <1>6
      <4> QED
        BY <3>2, <4>2, <4>3
    <3> QED
      BY <3>1, <3>2
  <2>2. Data(M, l, d) = [k \in 1 .. l |-> IF k = i + 1 THEN v ELSE m[d[k - 1]].data]
    BY <2>1 DEF Data
  <2>3. Data(m, l, d) = [k \in 1 .. l |-> m[d[k - 1]].data] /\ i + 1 \in 1 .. l
    BY <1>1, <1>4 DEF Data
  <2> QED
    BY <2>2, <2>3
<1>13. PICK N, C : /\ Held(M, f, b, N, C) /\ N[-1] = l /\ C[-1] = d
                   /\ MapNodes(M, N, C) = MapNodes(m, n, c)
                   /\ \A x \in MapNodes(m, n, c) : M[x] = m[x]
  <2>1. OthersKept(m, M, n[-1], c[-1]) /\ f \in Link
    BY <1>1, <1>11 DEF l, d
  <2>2. Strand(NextOf(M), f, l, d) /\ Replaced(NextOf(m), NextOf(M), n[-1], c[-1], l, d)
    BY <1>9 DEF l, d
  <2> QED
    BY <1>10, <2>1, <2>2, ListChanges
<1> QED
  BY <1>12, <1>13 DEF l, d, ListBecomes

\* The nodes of the list are freed.
LEMMA ListClears ==
  ASSUME NEW m, NEW f, NEW b, NEW n, NEW c, Held(m, f, b, n, c), NEW M \in List!FreeChain(m, f)
  PROVE  ListBecomes(m, n, c, M, NULL, b, 0, <<>>)
<1> DEFINE l == n[-1]
           d == c[-1]
           rest == {x \in DOMAIN m : ~On(d, l, x)}
<1>1. /\ Strand(NextOf(m), f, l, d) /\ IsFiniteSet(DOMAIN m) /\ NULL \notin DOMAIN m
      /\ \A x : On(d, l, x) => x \in DOMAIN NextOf(m)
  BY HeldChains
<1>2. \A x \in DOMAIN m : x \in Addr
  BY DEF Held
<1> HIDE DEF l, d
<1>3. M = [x \in rest |-> m[x]]
  <2>1. FreeChain(m, f) = {[x \in rest |-> m[x]]}
    BY <1>1, StrandFree DEF Freed
  <2>2. M \in FreeChain(m, f)
    BY SameOperators
  <2> QED
    BY <2>1, <2>2
<1>4. DOMAIN M = rest /\ \A x \in rest : M[x] = m[x]
  BY <1>3
<1>5. \A x : ~On(d, 0, x)
  BY DEF On
<1>6. Strand(NextOf(M), NULL, 0, d)
  BY DEF Strand, Runs
<1>7. Replaced(NextOf(m), NextOf(M), l, d, 0, d)
  <2>1. DOMAIN NextOf(m) = DOMAIN m /\ DOMAIN NextOf(M) = rest
    BY <1>4 DEF NextOf
  <2>2. \A x \in rest : NextOf(M)[x] = NextOf(m)[x]
    BY <1>4 DEF NextOf
  <2> QED
    BY <1>5, <2>1, <2>2 DEF Replaced
<1>8. OthersKept(m, M, l, d)
  <2>1. IsFiniteSet(rest)
    BY <1>1, FS_Subset
  <2> QED
    BY <1>2, <1>4, <2>1 DEF OthersKept
<1>9. NULL \in Link
  BY DEF Link
<1>10. PICK N, C : /\ Held(M, NULL, b, N, C) /\ N[-1] = 0 /\ C[-1] = d
                   /\ MapNodes(M, N, C) = MapNodes(m, n, c)
                   /\ \A x \in MapNodes(m, n, c) : M[x] = m[x]
  BY <1>5, <1>6, <1>7, <1>8, <1>9, ListChanges DEF l, d
<1>11. Data(M, 0, d) = <<>>
  <2>1. 1 .. 0 = {}
    OBVIOUS
  <2> QED
    BY <2>1 DEF Data
<1> QED
  BY <1>10, <1>11 DEF ListBecomes

-----------------------------------------------------------------------------
(* The calls of the list.                                                  *)

\* The memory, a list at f of length l and a map with buckets b and k entries
\* fit together.
Shared(m, f, l, b, k) ==
  \E n, c : Held(m, f, b, n, c) /\ l = n[-1] /\ Cardinality(MapNodes(m, n, c)) = k

\* Reading the list yields the elements of its chain, before and after a step.
LEMMA ListReads ==
  ASSUME NEW b, NEW n, NEW c
  PROVE  /\ Held(mem, front, b, n, c) => List!Contents = Data(mem, n[-1], c[-1])
         /\ Held(mem', front', b, n, c) => List!Contents' = Data(mem', n[-1], c[-1])
<1>1. ASSUME NEW m, NEW f, Held(m, f, b, n, c)
      PROVE  [k \in DOMAIN List!Chain(m, f) |-> m[List!Chain(m, f)[k]].data] = Data(m, n[-1], c[-1])
  <2>1. List!Chain(m, f) = [k \in 1 .. n[-1] |-> c[-1][k - 1]]
    BY <1>1, HeldChains, SameOperators
  <2> QED
    BY <2>1 DEF Data
<1> QED
  BY <1>1 DEF List!Contents, List!Nodes

\* The list's chain is walked and followed to its nodes.
LEMMA ListWalks ==
  ASSUME NEW m, NEW f, NEW b, NEW n, NEW c, Held(m, f, b, n, c), NEW i \in 0 .. n[-1] - 1
  PROVE  /\ List!Walk(m, f, i) = c[-1][i] /\ c[-1][i] \in DOMAIN m
         /\ m[c[-1][i]].next = IF i = n[-1] - 1 THEN NULL ELSE c[-1][i + 1]
         /\ c[-1][i] # f <=> i # 0
         /\ f = c[-1][0]
<1> DEFINE l == n[-1]
           d == c[-1]
<1>1. Strand(NextOf(m), f, l, d) /\ l \in Nat
  BY HeldChains
<1>2. i \in 0 .. l - 1 /\ 0 \in 0 .. l - 1 /\ l # 0
  BY <1>1
<1> HIDE DEF l, d
<1>3. Runs(NextOf(m), f, d, l, NULL) /\ \A j, k \in 0 .. l - 1 : d[j] = d[k] => j = k
  BY <1>1 DEF Strand
<1>4. Walk(m, f, i) = d[i] /\ d[i] \in DOMAIN m
  BY <1>1, <1>2, <1>3, WalkRuns
<1>5. f = d[0] /\ NextOf(m)[d[i]] = IF i = l - 1 THEN NULL ELSE d[i + 1]
  BY <1>2, <1>3 DEF Runs
<1>6. NextOf(m)[d[i]] = m[d[i]].next
  BY <1>4 DEF NextOf
<1>7. d[i] # f <=> i # 0
  BY <1>2, <1>3, <1>5
<1> QED
  BY <1>4, <1>5, <1>6, <1>7, SameOperators DEF l, d

\* What a call of the list leaves to the map
ListLeaves ==
  /\ Shared(mem', front', length', buckets, count)
  /\ rc' \in {-1, 0, 1} /\ out' \in Elem \cup {NoElem}

\* Between two calls the list and the map hold the allocated nodes together,
\* none of them twice.
ChainsInv ==
  /\ Shared(mem, front, length, buckets, count)
  /\ rc \in {-1, 0, 1} /\ out \in Elem \cup {NoElem} /\ freed \in BOOLEAN

\* A call that fails changes nothing.
LEMMA ListNoChange ==
  ASSUME ChainsInv, NEW code \in {-1, 0, 1}, List!NoChange(code)
  PROVE  ListLeaves /\ List!Sequence!Returns(List!Contents, code, NoElem)
<1>1. /\ mem' = mem /\ front' = front /\ length' = length
      /\ rc' = code /\ out' = NoElem
  BY DEF List!NoChange, List!Return
<1>2. ListLeaves
  BY <1>1 DEF ChainsInv, ListLeaves
<1>3. List!Contents' = List!Contents
  <2>1. PICK n, c : Held(mem, front, buckets, n, c)
    BY DEF ChainsInv, Shared
  <2>2. Held(mem', front', buckets, n, c)
    BY <1>1, <2>1
  <2> QED
    BY <1>1, <2>1, <2>2, ListReads
<1> QED
  BY <1>1, <1>2, <1>3 DEF List!Sequence!Returns

\* A call that changes the list's chain, and returns.
LEMMA ListReturns ==
  ASSUME ChainsInv, NEW n, NEW c, Held(mem, front, buckets, n, c),
         Cardinality(MapNodes(mem, n, c)) = count,
         NEW s, ListBecomes(mem, n, c, mem', front', buckets, length', s),
         NEW code \in {-1, 0, 1}, rc' = code, NEW o \in Elem \cup {NoElem}, out' = o
  PROVE  ListLeaves /\ List!Sequence!Returns(s, code, o)
<1> PICK N, C : /\ Held(mem', front', buckets, N, C) /\ N[-1] = length'
                /\ Data(mem', N[-1], C[-1]) = s /\ MapNodes(mem', N, C) = MapNodes(mem, n, c)
  BY DEF ListBecomes
<1>1. ListLeaves
  BY DEF ListLeaves, Shared
<1>2. List!Contents' = s
  BY ListReads
<1> QED
  BY <1>1, <1>2 DEF List!Sequence!Returns

\* Inserting does what it promises, and leaves the map alone.
LEMMA ListInsertStep ==
  ASSUME ChainsInv, NEW i \in List!Index, NEW v \in Elem, List!Insert(i, v)
  PROVE  ListLeaves /\ List!Sequence!Insert(i, v)
<1>1. PICK n, c : /\ Held(mem, front, buckets, n, c) /\ length = n[-1]
                  /\ Cardinality(MapNodes(mem, n, c)) = count
  BY DEF ChainsInv, Shared
<1>2. length \in Nat /\ front \in Link
  BY <1>1, HeldChains DEF Held
<1>3. i \in 0 .. length
  BY DEF List!Index
<1> DEFINE s == List!Contents
<1>4. s = Data(mem, n[-1], c[-1]) /\ s \in Seq(Elem) /\ Len(s) = length
  BY <1>1, HeldData, ListReads
<1> HIDE DEF s
<1>5. CASE List!NoChange(-1)
  BY <1>5, ListNoChange DEF List!Sequence!Insert, List!Sequence!Fail
<1>6. CASE /\ i < length \/ i = 0
           /\ \E a \in Addr \ DOMAIN mem :
                IF i = 0 THEN List!InsertFront(a, v) ELSE List!InsertLater(a, i, v)
  <2>1. PICK a \in Addr \ DOMAIN mem :
               IF i = 0 THEN List!InsertFront(a, v) ELSE List!InsertLater(a, i, v)
    BY <1>6
  <2> DEFINE prev == List!GetNode(i - 1)
             node == [next |-> IF i = 0 THEN front ELSE mem[prev].next, data |-> v]
  <2>2. i # 0 => /\ prev = c[-1][i - 1] /\ prev \in DOMAIN mem /\ mem[prev].next \in Link
    <3>1. i # 0 => i - 1 \in 0 .. n[-1] - 1
      BY <1>1, <1>2, <1>3
    <3>2. \A x \in DOMAIN mem : mem[x].next \in Link
      BY <1>1, HeldNodes
    <3> QED
      BY <1>1, <3>1, <3>2, ListWalks DEF List!GetNode
  <2> HIDE DEF prev
  <2>3. LinkedIn(mem, mem', front, c[-1], i, a, node)
    <3>1. CASE i = 0
      <4>1. mem' = [x \in DOMAIN mem \cup {a} |-> IF x = a THEN node ELSE mem[x]]
        BY <2>1, <3>1 DEF List!InsertFront, List!Return, List!Alloc, List!NewNode
      <4> QED
        BY <3>1, <4>1 DEF LinkedIn
    <3>2. CASE i # 0
      <4> DEFINE m == [x \in DOMAIN mem \cup {a} |-> IF x = a THEN node ELSE mem[x]]
      <4>1. mem' = [m EXCEPT ![prev].next = a]
        BY <2>1, <3>2 DEF List!InsertLater, List!Return, List!Alloc, List!NewNode, prev
      <4>2. prev \in DOMAIN m /\ prev # a /\ m[prev] = mem[prev]
        BY <2>2, <3>2
      <4>3. mem' = [m EXCEPT ![prev] = [mem[prev] EXCEPT !.next = a]]
        BY <4>1, <4>2
      <4> QED
        BY <2>2, <3>2, <4>2, <4>3 DEF LinkedIn
    <3> QED
      BY <3>1, <3>2
  <2>4. node \in ListNode /\ node.data = v
    BY <1>2, <2>2 DEF ListNode
  <2> HIDE DEF node
  <2>5. HeadWith(front, i, a, front')
    BY <2>1 DEF HeadWith, List!InsertFront, List!InsertLater, List!Return
  <2>6. rc' = 1 /\ out' = NoElem /\ length' = length + 1
    BY <2>1 DEF List!InsertFront, List!InsertLater, List!Return
  <2>7. ListBecomes(mem, n, c, mem', front', buckets, length', With(s, i, v))
    <3>1. i \in 0 .. n[-1] /\ a \in Addr
      BY <1>1, <1>3
    <3>2. ListBecomes(mem, n, c, mem', front', buckets, n[-1] + 1,
                      With(Data(mem, n[-1], c[-1]), i, node.data))
      BY <1>1, <2>3, <2>4, <2>5, <3>1, ListInserts
    <3> QED
      BY <1>1, <1>4, <2>4, <2>6, <3>2
  <2>8. With(s, i, v) = SubSeq(s, 1, i) \o <<v>> \o SubSeq(s, i + 1, Len(s))
    <3>1. i \in 0 .. Len(s) /\ s \in Seq(Elem)
      BY <1>3, <1>4
    <3> QED
      BY <3>1, WithIsBetween
  <2>9. ListLeaves /\ List!Sequence!Returns(With(s, i, v), 1, NoElem)
    BY <1>1, <2>6, <2>7, ListReturns
  <2>10. i < Len(s) \/ i = 0
    BY <1>4, <1>6
  <2> QED
    BY <2>8, <2>9, <2>10 DEF List!Sequence!Insert, List!Sequence!InRange, s
<1> QED
  BY <1>5, <1>6 DEF List!Insert

\* Setting does what it promises, and leaves the map alone.
LEMMA ListSetStep ==
  ASSUME ChainsInv, NEW i \in List!Index, NEW v \in Elem, List!Set(i, v)
  PROVE  ListLeaves /\ List!Sequence!Set(i, v)
<1>1. PICK n, c : /\ Held(mem, front, buckets, n, c) /\ length = n[-1]
                  /\ Cardinality(MapNodes(mem, n, c)) = count
  BY DEF ChainsInv, Shared
<1>2. length \in Nat /\ i \in 0 .. length
  BY <1>1, HeldChains DEF List!Index
<1> DEFINE s == List!Contents
<1>3. s = Data(mem, n[-1], c[-1]) /\ Len(s) = length
  BY <1>1, HeldData, ListReads
<1> HIDE DEF s
<1>4. CASE i >= length
  <2>1. List!NoChange(-1)
    BY <1>4 DEF List!Set
  <2>2. ListLeaves /\ List!Sequence!Fail
    BY <2>1, ListNoChange DEF List!Sequence!Fail
  <2>3. ~(i < Len(s))
    BY <1>2, <1>3, <1>4
  <2> QED
    BY <2>2, <2>3 DEF List!Sequence!Set, List!Sequence!InRange, s
<1>5. CASE ~(i >= length)
  <2>1. i \in 0 .. n[-1] - 1 /\ i < Len(s)
    BY <1>1, <1>2, <1>3, <1>5
  <2>2. List!GetNode(i) = c[-1][i]
    BY <1>1, <2>1, ListWalks DEF List!GetNode
  <2>3. /\ mem' = [mem EXCEPT ![c[-1][i]].data = v] /\ front' = front /\ length' = length
        /\ rc' = 0 /\ out' = NoElem
    BY <1>5, <2>2 DEF List!Set, List!Return
  <2>4. Stored(mem, mem', c[-1][i], v)
    BY <2>3 DEF Stored
  <2>5. ListBecomes(mem, n, c, mem', front, buckets, n[-1], [Data(mem, n[-1], c[-1]) EXCEPT ![i + 1] = v])
    BY <1>1, <2>1, <2>4, ListSets
  <2>6. ListBecomes(mem, n, c, mem', front', buckets, length', [s EXCEPT ![i + 1] = v])
    BY <1>1, <1>3, <2>3, <2>5
  <2>7. ListLeaves /\ List!Sequence!Returns([s EXCEPT ![i + 1] = v], 0, NoElem)
    BY <1>1, <2>3, <2>6, ListReturns
  <2> QED
    BY <2>1, <2>7 DEF List!Sequence!Set, List!Sequence!InRange, s
<1> QED
  BY <1>4, <1>5

\* The first node is unlinked from the head, ...
LEMMA ListUnlinksFirst ==
  ASSUME NEW n, NEW c, Held(mem, front, buckets, n, c), length = n[-1], length > 0,
         mem' = List!FreeNode(mem, front), front' = mem[front].next, length' = length - 1
  PROVE  ListBecomes(mem, n, c, mem', front', buckets, length', Without(List!Contents, 0))
<1>1. 0 \in 0 .. n[-1] - 1
  BY HeldChains
<1>2. front = c[-1][0]
  BY <1>1, ListWalks
<1>3. TakenOut(mem, mem', c[-1], 0)
  BY <1>2 DEF TakenOut, List!FreeNode
<1>4. HeadWithout(front, 0, mem[c[-1][0]].next, front')
  BY <1>2 DEF HeadWithout
<1>5. ListBecomes(mem, n, c, mem', front', buckets, n[-1] - 1, Without(Data(mem, n[-1], c[-1]), 0))
  BY <1>1, <1>3, <1>4, ListRemoves
<1> QED
  BY <1>5, ListReads

\* ... any other from the node before it.
LEMMA ListUnlinksLater ==
  ASSUME NEW n, NEW c, Held(mem, front, buckets, n, c), length = n[-1], NEW i, i \in 1 .. length - 1,
         NEW prev, prev = List!GetNode(i - 1), NEW x, x = mem[prev].next,
         mem' = List!FreeNode([mem EXCEPT ![prev].next = mem[x].next], x), front' = front,
         length' = length - 1
  PROVE  ListBecomes(mem, n, c, mem', front', buckets, length', Without(List!Contents, i))
<1> DEFINE d == c[-1]
<1>1. i \in 0 .. n[-1] - 1 /\ i - 1 \in 0 .. n[-1] - 1 /\ i # 0 /\ i - 1 # n[-1] - 1 /\ (i - 1) + 1 = i
  BY HeldChains
<1>2. prev = d[i - 1] /\ prev \in DOMAIN mem /\ x = d[i]
  <2>1. /\ List!Walk(mem, front, i - 1) = d[i - 1] /\ d[i - 1] \in DOMAIN mem
        /\ mem[d[i - 1]].next = IF i - 1 = n[-1] - 1 THEN NULL ELSE d[(i - 1) + 1]
    BY <1>1, ListWalks
  <2> QED
    BY <1>1, <2>1 DEF List!GetNode
<1>3. x # prev
  <2>1. Strand(NextOf(mem), front, n[-1], d)
    BY HeldChains
  <2> QED
    BY <1>1, <1>2, <2>1 DEF Strand
<1> HIDE DEF d
<1>4. TakenOut(mem, mem', d, i)
  <2> DEFINE r == [mem[prev] EXCEPT !.next = mem[x].next]
             m == [mem EXCEPT ![prev] = r]
  <2>1. mem' = [y \in DOMAIN m \ {x} |-> m[y]]
    BY DEF List!FreeNode
  <2>2. DOMAIN m = DOMAIN mem /\ m[prev] = r /\ \A y \in DOMAIN mem : y # prev => m[y] = mem[y]
    BY <1>2
  <2> HIDE DEF m
  <2>3. DOMAIN mem' = DOMAIN mem \ {x} /\ mem'[prev] = r
        /\ \A y \in DOMAIN mem' : y # prev => mem'[y] = mem[y]
    BY <1>2, <1>3, <2>1, <2>2
  <2>4. \A y : y \in DOMAIN mem' <=> y \in DOMAIN mem /\ y # d[i]
    BY <1>2, <2>3
  <2>5. \A y \in DOMAIN mem' : i = 0 \/ y # d[i - 1] => mem'[y] = mem[y]
    BY <1>1, <1>2, <2>3
  <2>6. mem'[d[i - 1]] = [mem[d[i - 1]] EXCEPT !.next = mem[d[i]].next]
    BY <1>2, <2>3
  <2> QED
    BY <2>4, <2>5, <2>6 DEF TakenOut
<1>5. HeadWithout(front, i, mem[d[0]].next, front')
  BY <1>1 DEF HeadWithout
<1>6. ListBecomes(mem, n, c, mem', front', buckets, n[-1] - 1, Without(Data(mem, n[-1], c[-1]), i))
  BY <1>1, <1>4, <1>5, ListRemoves DEF d
<1> QED
  BY <1>6, ListReads

\* Removing does what it promises, and leaves the map alone.
LEMMA ListRemoveStep ==
  ASSUME ChainsInv, NEW i \in List!Index, List!Remove(i)
  PROVE  ListLeaves /\ List!Sequence!Remove(i)
<1>1. PICK n, c : /\ Held(mem, front, buckets, n, c) /\ length = n[-1]
                  /\ Cardinality(MapNodes(mem, n, c)) = count
  BY DEF ChainsInv, Shared
<1>2. length \in Nat /\ i \in 0 .. length
  BY <1>1, HeldChains DEF List!Index
<1> DEFINE s == List!Contents
<1>3. s \in Seq(Elem) /\ Len(s) = length
  BY <1>1, HeldData, ListReads
<1> HIDE DEF s
<1>4. CASE i >= length
  <2>1. List!NoChange(-1)
    BY <1>4 DEF List!Remove
  <2>2. ListLeaves /\ List!Sequence!Fail
    BY <2>1, ListNoChange DEF List!Sequence!Fail
  <2>3. ~(i < Len(s))
    BY <1>2, <1>3, <1>4
  <2> QED
    BY <2>2, <2>3 DEF List!Sequence!Remove, List!Sequence!InRange, s
<1>5. CASE ~(i >= length)
  <2>1. i \in 0 .. Len(s) - 1 /\ i < Len(s)
    BY <1>2, <1>3, <1>5
  <2>2. ListBecomes(mem, n, c, mem', front', buckets, length', Without(s, i))
    <3>1. CASE i = 0
      <4>1. /\ mem' = List!FreeNode(mem, front) /\ front' = mem[front].next /\ length' = length - 1
            /\ length > 0
        BY <1>2, <1>5, <3>1 DEF List!Remove, List!Return
      <4> QED
        BY <1>1, <3>1, <4>1, ListUnlinksFirst DEF s
    <3>2. CASE i # 0
      <4> DEFINE prev == List!GetNode(i - 1)
                 x == mem[prev].next
      <4>1. /\ mem' = List!FreeNode([mem EXCEPT ![prev].next = mem[x].next], x) /\ front' = front
            /\ length' = length - 1
        BY <1>5, <3>2 DEF List!Remove, List!Return
      <4>2. i \in 1 .. length - 1
        BY <1>2, <1>5, <3>2
      <4> QED
        BY <1>1, <4>1, <4>2, ListUnlinksLater DEF s
    <3> QED
      BY <3>1, <3>2
  <2>3. rc' = 1 /\ out' = NoElem
    BY <1>5 DEF List!Remove, List!Return
  <2>4. ListLeaves /\ List!Sequence!Returns(Without(s, i), 1, NoElem)
    BY <1>1, <2>2, <2>3, ListReturns
  <2>5. Without(s, i) = SubSeq(s, 1, i) \o SubSeq(s, i + 2, Len(s))
    BY <1>3, <2>1, WithoutIsAround
  <2> QED
    BY <2>1, <2>4, <2>5 DEF List!Sequence!Remove, List!Sequence!InRange, s
<1> QED
  BY <1>4, <1>5

\* Popping does what it promises, and leaves the map alone.
LEMMA ListPopStep ==
  ASSUME ChainsInv, NEW keep \in BOOLEAN, List!PopFront(keep)
  PROVE  ListLeaves /\ List!Sequence!PopFront
<1>1. PICK n, c : /\ Held(mem, front, buckets, n, c) /\ length = n[-1]
                  /\ Cardinality(MapNodes(mem, n, c)) = count
  BY DEF ChainsInv, Shared
<1>2. length \in Nat
  BY <1>1, HeldChains
<1> DEFINE s == List!Contents
<1>3. s \in Seq(Elem) /\ Len(s) = length /\ s = Data(mem, n[-1], c[-1])
  BY <1>1, HeldData, ListReads
<1> HIDE DEF s
<1>4. CASE length = 0
  <2>1. List!NoChange(0)
    BY <1>4 DEF List!PopFront
  <2>2. ListLeaves /\ List!Sequence!Returns(s, 0, NoElem)
    BY <2>1, ListNoChange DEF s
  <2>3. s = <<>>
    BY <1>3, <1>4, EmptySeq
  <2> QED
    BY <2>2, <2>3 DEF List!Sequence!PopFront, List!Sequence!Pop, s
<1>5. CASE length # 0
  <2> DEFINE o == IF keep THEN mem[front].data ELSE NoElem
  <2>1. /\ mem' = List!FreeNode(mem, front) /\ front' = mem[front].next /\ length' = length - 1
        /\ rc' = 1 /\ out' = o /\ length > 0
    BY <1>2, <1>5 DEF List!PopFront, List!Return
  <2>2. ListBecomes(mem, n, c, mem', front', buckets, length', Without(s, 0))
    BY <1>1, <2>1, ListUnlinksFirst DEF s
  <2>3. mem[front].data = s[1]
    <3>1. 0 \in 0 .. n[-1] - 1 /\ 1 \in 1 .. n[-1] /\ 1 - 1 = 0
      BY <1>1, <1>2, <1>5
    <3>2. front = c[-1][0]
      BY <1>1, <3>1, ListWalks
    <3> QED
      BY <1>3, <3>1, <3>2 DEF Data
  <2>4. s[1] \in Elem
    BY <1>2, <1>3, <1>5, ElementOfSeq
  <2>5. o \in Elem \cup {NoElem} /\ o \in {s[1], NoElem}
    BY <2>3, <2>4
  <2> HIDE DEF o
  <2>6. ListLeaves /\ List!Sequence!Returns(Without(s, 0), 1, o)
    BY <1>1, <2>1, <2>2, <2>5, ListReturns
  <2>7. Without(s, 0) = SubSeq(s, 2, Len(s)) /\ s # <<>>
    <3>1. Len(s) > 0
      BY <2>1, <1>3
    <3>2. s # <<>>
      BY <3>1
    <3> QED
      BY <1>3, <3>1, <3>2, WithoutIsRest
  <2> QED
    BY <2>5, <2>6, <2>7 DEF List!Sequence!PopFront, List!Sequence!Pop, s
<1> QED
  BY <1>4, <1>5

\* Clearing does what it promises, and leaves the map alone.
LEMMA ListClearStep ==
  ASSUME ChainsInv, List!Clear
  PROVE  ListLeaves /\ List!Sequence!Clear
<1>1. PICK n, c : /\ Held(mem, front, buckets, n, c) /\ length = n[-1]
                  /\ Cardinality(MapNodes(mem, n, c)) = count
  BY DEF ChainsInv, Shared
<1>2. PICK m \in List!FreeChain(mem, front) : List!Return(m, NULL, 0, 0, NoElem)
  BY DEF List!Clear
<1>3. mem' = m /\ front' = NULL /\ length' = 0 /\ rc' = 0 /\ out' = NoElem
  BY <1>2 DEF List!Return
<1>4. ListBecomes(mem, n, c, mem', front', buckets, length', <<>>)
  BY <1>1, <1>3, ListClears
<1>5. ListLeaves /\ List!Sequence!Returns(<<>>, 0, NoElem)
  BY <1>1, <1>3, <1>4, ListReturns
<1> QED
  BY <1>5 DEF List!Sequence!Clear

-----------------------------------------------------------------------------
(* Nodes that hold a map.                                                  *)

\* The map that the nodes of S hold, if each has a key of its own
MapOf(m, S) == [k \in {m[x].key : x \in S} |-> m[CHOOSE x \in S : m[x].key = k].value]

OwnKeys(m, S) == \A x, y \in S : m[x].key = m[y].key => x = y

\* A map with value v for key k, and without that key
Entered(t, k, v) == [x \in DOMAIN t \cup {k} |-> IF x = k THEN v ELSE t[x]]
Dropped(t, k)    == [x \in DOMAIN t \ {k} |-> t[x]]

\* A map is read off its nodes.
LEMMA MapOfNodes ==
  ASSUME NEW m, NEW S, OwnKeys(m, S)
  PROVE  /\ \A k : k \in DOMAIN MapOf(m, S) <=> \E x \in S : m[x].key = k
         /\ \A x \in S : MapOf(m, S)[m[x].key] = m[x].value
<1>1. ASSUME NEW x \in S PROVE MapOf(m, S)[m[x].key] = m[x].value
  <2> DEFINE y == CHOOSE z \in S : m[z].key = m[x].key
  <2>1. y \in S /\ m[y].key = m[x].key
    OBVIOUS
  <2>2. y = x
    BY <2>1 DEF OwnKeys
  <2>3. m[x].key \in {m[z].key : z \in S}
    OBVIOUS
  <2>4. MapOf(m, S)[m[x].key] = m[y].value
    BY <2>3 DEF MapOf
  <2> QED
    BY <2>2, <2>4
<1>2. \A k : k \in DOMAIN MapOf(m, S) <=> \E x \in S : m[x].key = k
  BY DEF MapOf
<1> QED
  BY <1>1, <1>2

\* The nodes T of M are those S of m, but for node a that has key k and value v.
OneMore(m, S, M, T, a, k, v) ==
  /\ \A x : x \in T <=> x = a \/ x \in S
  /\ M[a].key = k /\ M[a].value = v /\ (a \in S => m[a].key = k)
  /\ \A x \in S : x # a => M[x].key = m[x].key /\ M[x].value = m[x].value

\* Such a node enters its key into the map.
LEMMA MapOfEntered ==
  ASSUME NEW m, NEW S, OwnKeys(m, S), NEW M, NEW T, OwnKeys(M, T),
         NEW a, NEW k, NEW v, OneMore(m, S, M, T, a, k, v)
  PROVE  MapOf(M, T) = Entered(MapOf(m, S), k, v)
<1> DEFINE t == MapOf(m, S)
           u == MapOf(M, T)
<1>1. /\ \A j : j \in DOMAIN t <=> \E x \in S : m[x].key = j
      /\ \A x \in S : t[m[x].key] = m[x].value
  BY MapOfNodes
<1>2. /\ \A j : j \in DOMAIN u <=> \E x \in T : M[x].key = j
      /\ \A x \in T : u[M[x].key] = M[x].value
  BY MapOfNodes
<1>3. u = [j \in DOMAIN u |-> u[j]]
  BY DEF MapOf
<1> HIDE DEF t, u
<1>4. \A j : j \in DOMAIN u <=> j = k \/ j \in DOMAIN t
  BY <1>1, <1>2 DEF OneMore
<1>5. ASSUME NEW j \in DOMAIN u PROVE u[j] = IF j = k THEN v ELSE t[j]
  <2>1. a \in T /\ M[a].key = k /\ M[a].value = v
    BY DEF OneMore
  <2>2. CASE j = k
    BY <1>2, <2>1, <2>2
  <2>3. CASE j # k
    <3>1. PICK x \in T : M[x].key = j
      BY <1>2
    <3>2. x \in S /\ x # a /\ M[x].key = m[x].key /\ M[x].value = m[x].value
      BY <2>1, <2>3, <3>1 DEF OneMore
    <3> QED
      BY <1>1, <1>2, <2>3, <3>1, <3>2
  <2> QED
    BY <2>2, <2>3
<1>6. DOMAIN u = DOMAIN t \cup {k}
  BY <1>4
<1>7. u = Entered(t, k, v)
  BY <1>3, <1>5, <1>6 DEF Entered
<1> QED
  BY <1>7 DEF t, u

\* The nodes T of M are those S of m without node a, which had key k.
OneLess(m, S, M, T, a, k) ==
  /\ \A x : x \in T <=> x \in S /\ x # a
  /\ a \in S /\ m[a].key = k
  /\ \A x \in T : M[x].key = m[x].key /\ M[x].value = m[x].value

\* Without the node the map has no entry of its key.
LEMMA MapOfDropped ==
  ASSUME NEW m, NEW S, OwnKeys(m, S), NEW M, NEW T, NEW a, NEW k, OneLess(m, S, M, T, a, k)
  PROVE  OwnKeys(M, T) /\ MapOf(M, T) = Dropped(MapOf(m, S), k)
<1> DEFINE t == MapOf(m, S)
           u == MapOf(M, T)
<1>0. OwnKeys(M, T)
  BY DEF OwnKeys, OneLess
<1>1. /\ \A j : j \in DOMAIN t <=> \E x \in S : m[x].key = j
      /\ \A x \in S : t[m[x].key] = m[x].value
  BY MapOfNodes
<1>2. /\ \A j : j \in DOMAIN u <=> \E x \in T : M[x].key = j
      /\ \A x \in T : u[M[x].key] = M[x].value
  BY <1>0, MapOfNodes
<1>3. u = [j \in DOMAIN u |-> u[j]]
  BY DEF MapOf
<1> HIDE DEF t, u
<1>4. \A x \in S : x # a => m[x].key # k
  BY DEF OwnKeys, OneLess
<1>5. \A j : j \in DOMAIN u <=> j # k /\ j \in DOMAIN t
  BY <1>1, <1>2, <1>4 DEF OneLess
<1>6. ASSUME NEW j \in DOMAIN u PROVE u[j] = t[j]
  <2>1. PICK x \in T : M[x].key = j
    BY <1>2
  <2>2. x \in S /\ M[x].key = m[x].key /\ M[x].value = m[x].value
    BY DEF OneLess
  <2> QED
    BY <1>1, <1>2, <2>1, <2>2
<1>7. DOMAIN u = DOMAIN t \ {k}
  BY <1>5
<1>8. u = Dropped(t, k)
  BY <1>3, <1>6, <1>7 DEF Dropped
<1> QED
  BY <1>0, <1>8 DEF t, u

\* The nodes of the map have keys of their own.
LEMMA HeldKeys ==
  ASSUME NEW m, NEW f, NEW b, NEW n, NEW c, Held(m, f, b, n, c)
  PROVE  OwnKeys(m, MapNodes(m, n, c)) /\ IsFiniteSet(MapNodes(m, n, c))
<1>1. ASSUME NEW x \in MapNodes(m, n, c), NEW y \in MapNodes(m, n, c), m[x].key = m[y].key
      PROVE  x = y
  <2>1. PICK i \in DOMAIN b : On(c[i], n[i], x)
    BY HeldChains
  <2>2. PICK j \in DOMAIN b : On(c[j], n[j], y)
    BY HeldChains
  <2>3. Map!BucketOf(m[x].key) = i /\ Map!BucketOf(m[y].key) = j
    BY <2>1, <2>2 DEF Held, Sorted
  <2>4. i = j
    BY <1>1, <2>3
  <2> QED
    BY <1>1, <2>1, <2>2, <2>4 DEF Held, Sorted
<1>2. MapNodes(m, n, c) \in SUBSET DOMAIN m /\ IsFiniteSet(DOMAIN m)
  BY DEF MapNodes, Held
<1> QED
  BY <1>1, <1>2, FS_Subset DEF OwnKeys

\* Reading the map yields what its nodes hold, before and after a step.
LEMMA MapReads ==
  ASSUME NEW f, NEW n, NEW c
  PROVE  /\ Held(mem, f, buckets, n, c)
              => Map!Nodes = MapNodes(mem, n, c) /\ Map!Contents = MapOf(mem, MapNodes(mem, n, c))
         /\ Held(mem', f, buckets', n, c)
              => Map!Contents' = MapOf(mem', MapNodes(mem', n, c))
<1> DEFINE NodesOf(m, b) == UNION {Map!Seqs!Range(Map!Chain(m, b[i])) : i \in DOMAIN b}
<1>1. ASSUME NEW m, NEW b, Held(m, f, b, n, c) PROVE NodesOf(m, b) = MapNodes(m, n, c)
  <2>1. ASSUME NEW i \in DOMAIN b, NEW x
        PROVE  x \in Map!Seqs!Range(Map!Chain(m, b[i])) <=> On(c[i], n[i], x)
    <3> DEFINE l == n[i]
               d == c[i]
               s == [k \in 1 .. l |-> d[k - 1]]
    <3>1. Map!Chain(m, b[i]) = s /\ l \in Nat
      BY <1>1, HeldChains, SameOperators
    <3>2. x \in Map!Seqs!Range(s) <=> \E k \in 1 .. l : s[k] = x
      BY DEF Map!Seqs!Range
    <3> HIDE DEF l, d
    <3>3. ASSUME NEW k \in 1 .. l, s[k] = x PROVE On(d, l, x)
      <4>1. k - 1 \in 0 .. l - 1
        BY <3>1
      <4> QED
        BY <3>3, <4>1 DEF On
    <3>4. ASSUME NEW k \in 0 .. l - 1, d[k] = x PROVE \E j \in 1 .. l : s[j] = x
      <4>1. k + 1 \in 1 .. l /\ (k + 1) - 1 = k
        BY <3>1
      <4>2. s[k + 1] = x
        BY <3>4, <4>1
      <4> QED
        BY <4>1, <4>2
    <3>5. On(d, l, x) <=> \E k \in 0 .. l - 1 : d[k] = x
      BY DEF On
    <3> HIDE DEF s
    <3> QED
      BY <3>1, <3>2, <3>3, <3>4, <3>5 DEF l, d
  <2>2. \A x : x \in NodesOf(m, b) <=> \E i \in DOMAIN b : On(c[i], n[i], x)
    BY <2>1
  <2>3. \A x : x \in MapNodes(m, n, c) <=> \E i \in DOMAIN b : On(c[i], n[i], x)
    BY <1>1, HeldChains
  <2> HIDE DEF NodesOf
  <2> QED
    BY <2>2, <2>3
<1>2. /\ Map!Nodes = NodesOf(mem, buckets) /\ Map!Nodes' = NodesOf(mem', buckets')
      /\ Map!Contents = MapOf(mem, Map!Nodes) /\ Map!Contents' = MapOf(mem', Map!Nodes')
  BY DEF Map!Nodes, Map!Contents, MapOf
<1> HIDE DEF NodesOf
<1> QED
  BY <1>1, <1>2

\* A key has a bucket, ...
LEMMA BucketExists ==
  ASSUME NEW k \in Keys
  PROVE  Map!BucketOf(k) \in Map!Bucket
<1>1. Hash[k] \in Nat /\ NBuckets \in Nat \ {0}
  BY ChainsAssumption
<1>2. Hash[k] % NBuckets \in 0 .. NBuckets - 1
  BY <1>1
<1> QED
  BY <1>2 DEF Map!BucketOf, Map!Bucket

\* ... and is found there if some node has it.
LEMMA MapFinds ==
  ASSUME NEW f, NEW n, NEW c, Held(mem, f, buckets, n, c), Map!IsMap, NEW k \in Keys,
         NEW i, i = Map!BucketOf(k), NEW j, j = Map!Position(k)
  PROVE  /\ i \in DOMAIN buckets
         /\ j \in Nat /\ (j = 0 \/ (j > 0 /\ j - 1 \in 0 .. n[i] - 1))
         /\ j = 0 => \A x \in MapNodes(mem, n, c) : mem[x].key # k
         /\ j > 0 => /\ Map!NodeAt(k) = c[i][j - 1] /\ mem[c[i][j - 1]].key = k
                     /\ c[i][j - 1] \in MapNodes(mem, n, c)
<1> DEFINE l == n[i]
           d == c[i]
           s == [q \in 1 .. l |-> d[q - 1]]
           hits == {q \in 1 .. Len(s) : mem[s[q]].key = k}
<1>1. i \in DOMAIN buckets
  BY BucketExists, HeadsAre DEF Map!IsMap, Held
<1>2. l \in Nat /\ Map!Chain(mem, buckets[i]) = s
  BY <1>1, HeldChains, SameOperators
<1>3. j = IF hits # {} THEN Map!Seqs!Min(hits) ELSE 0
  BY <1>2 DEF Map!Position, Map!Seqs!SelectInSeq
<1>4. \A x : On(d, l, x) => x \in MapNodes(mem, n, c)
  BY <1>1, HeldChains
<1>5. \A x \in MapNodes(mem, n, c) : mem[x].key = k => On(d, l, x)
  <2>1. ASSUME NEW x \in MapNodes(mem, n, c), mem[x].key = k PROVE On(d, l, x)
    <3>1. PICK h \in DOMAIN buckets : On(c[h], n[h], x)
      BY HeldChains
    <3>2. Map!BucketOf(mem[x].key) = h
      BY <3>1 DEF Held, Sorted
    <3> QED
      BY <2>1, <3>1, <3>2
  <2> QED
    BY <2>1
<1>6. Map!NodeAt(k) = s[j]
  BY <1>2 DEF Map!NodeAt
<1> HIDE DEF l, d
<1>7. Len(s) = l
  BY <1>2, FunctionIsSeq
<1>8. \A q \in 1 .. l : s[q] = d[q - 1] /\ q - 1 \in 0 .. l - 1
  BY <1>2
<1> HIDE DEF s
<1>9. hits \in SUBSET Nat /\ \A q \in hits : q \in 1 .. l /\ mem[s[q]].key = k
  BY <1>7
<1>10. ASSUME j # 0 PROVE j \in hits
  <2>1. hits # {} /\ j = Map!Seqs!Min(hits)
    BY <1>3, <1>10
  <2>2. \E q \in hits : \A r \in hits : q <= r
    <3> HIDE DEF hits
    <3> QED
      BY <1>9, <2>1, Numbers!LeastNumber
  <2> HIDE DEF hits
  <2> QED
    BY <2>1, <2>2 DEF Map!Seqs!Min
<1>11. j \in Nat /\ (j = 0 \/ (j > 0 /\ j - 1 \in 0 .. l - 1))
  BY <1>2, <1>9, <1>10
<1>12. ASSUME j = 0, NEW x \in MapNodes(mem, n, c), mem[x].key = k PROVE FALSE
  <2>1. PICK q \in 0 .. l - 1 : d[q] = x
    BY <1>5, <1>12 DEF On
  <2>2. q + 1 \in 1 .. l /\ (q + 1) - 1 = q
    BY <1>2
  <2>3. s[q + 1] = x
    BY <1>8, <2>1, <2>2
  <2>4. q + 1 \in hits
    BY <1>7, <1>12, <2>2, <2>3
  <2>5. j = Map!Seqs!Min(hits)
    BY <1>3, <2>4
  <2>6. \E y \in hits : \A r \in hits : y <= r
    <3> HIDE DEF hits
    <3> QED
      BY <1>9, <2>4, Numbers!LeastNumber
  <2>7. j \in hits
    <3> HIDE DEF hits
    <3> QED
      BY <2>5, <2>6 DEF Map!Seqs!Min
  <2> QED
    BY <1>9, <1>12, <2>7
<1>13. ASSUME j > 0
       PROVE  /\ Map!NodeAt(k) = d[j - 1] /\ mem[d[j - 1]].key = k
              /\ d[j - 1] \in MapNodes(mem, n, c)
  <2>1. j \in 1 .. l /\ mem[s[j]].key = k
    BY <1>9, <1>10, <1>13
  <2>2. s[j] = d[j - 1] /\ j - 1 \in 0 .. l - 1
    BY <1>8, <2>1
  <2> QED
    BY <1>4, <1>6, <2>1, <2>2 DEF On
<1> QED
  BY <1>1, <1>11, <1>12, <1>13 DEF l, d

-----------------------------------------------------------------------------
(* The steps of the map.                                                   *)

\* Memory M holds a map with buckets B of j entries that is t, and the list of m.
MapBecomes(m, f, n, c, M, B, t, j) ==
  \E N, C : /\ Held(M, f, B, N, C) /\ N[-1] = n[-1]
            /\ MapOf(M, MapNodes(M, N, C)) = t /\ Cardinality(MapNodes(M, N, C)) = j

\* The nodes of a bucket
LEMMA BucketNodes ==
  ASSUME NEW m, NEW f, NEW b, NEW n, NEW c, Held(m, f, b, n, c), NEW i \in DOMAIN b
  PROVE  /\ Strand(NextOf(m), b[i], n[i], c[i]) /\ n[i] \in Nat /\ b[i] \in Link
         /\ \A x : On(c[i], n[i], x) => /\ x \in DOMAIN m /\ x \in MapNodes(m, n, c)
                                        /\ m[x] \in MapNode /\ Map!BucketOf(m[x].key) = i
         /\ \A x \in MapNodes(m, n, c) : Map!BucketOf(m[x].key) = i => On(c[i], n[i], x)
<1>1. \A x : On(c[i], n[i], x) => x \in MapNodes(m, n, c)
  BY HeldChains
<1>2. \A x : On(c[i], n[i], x) => m[x] \in MapNode /\ Map!BucketOf(m[x].key) = i
  BY DEF Held, Sorted
<1>3. ASSUME NEW x \in MapNodes(m, n, c), Map!BucketOf(m[x].key) = i PROVE On(c[i], n[i], x)
  <2>1. PICK h \in DOMAIN b : On(c[h], n[h], x)
    BY HeldChains
  <2>2. Map!BucketOf(m[x].key) = h
    BY <2>1 DEF Held, Sorted
  <2> QED
    BY <1>3, <2>1, <2>2
<1>4. \A x \in MapNodes(m, n, c) : x \in DOMAIN m
  BY DEF MapNodes
<1>5. b[i] \in Link
  BY HeadsAre DEF Held
<1>6. Strand(NextOf(m), b[i], n[i], c[i]) /\ n[i] \in Nat
  BY HeldChains
<1> QED
  BY <1>1, <1>2, <1>3, <1>4, <1>5, <1>6

\* A node with a new key is put in front of the others of its bucket.
LEMMA BucketInserts ==
  ASSUME NEW m, NEW f, NEW b, NEW n, NEW c, NEW M, NEW i, NEW a, NEW node, Held(m, f, b, n, c),
         LinkedIn(m, M, b[i], c[i], 0, a, node), i \in DOMAIN b, a \in Addr, node \in MapNode,
         Map!BucketOf(node.key) = i, \A x \in MapNodes(m, n, c) : m[x].key # node.key
  PROVE  MapBecomes(m, f, n, c, M, [b EXCEPT ![i] = a],
                    Entered(MapOf(m, MapNodes(m, n, c)), node.key, node.value),
                    Cardinality(MapNodes(m, n, c)) + 1)
<1> DEFINE l == n[i]
           d == c[i]
           D == Squeezed(d, l, 0, a)
           S == MapNodes(m, n, c)
<1>1. Strand(NextOf(m), b[i], l, d) /\ l \in Nat /\ 0 \in 0 .. l
  BY BucketNodes
<1>2. /\ \A x : On(d, l, x) => x \in DOMAIN m /\ x \in S /\ m[x] \in MapNode /\ Map!BucketOf(m[x].key) = i
      /\ \A x, y : On(d, l, x) /\ On(d, l, y) /\ m[x].key = m[y].key => x = y
  BY BucketNodes DEF Held, Sorted
<1>3. IsFiniteSet(DOMAIN m) /\ HasNext(m) /\ \A x \in DOMAIN m : x \in Addr
  BY HeldNodes DEF Held
<1>4. OwnKeys(m, S) /\ IsFiniteSet(S)
  BY HeldKeys
<1>5. \A x \in S : x \in DOMAIN m /\ x # a
  BY DEF MapNodes, LinkedIn
<1> HIDE DEF l, d, S
<1>6. /\ Strand(NextOf(M), a, l + 1, D) /\ Replaced(NextOf(m), NextOf(M), l, d, l + 1, D)
      /\ \A x : On(D, l + 1, x) <=> x = a \/ On(d, l, x)
  BY <1>1, <1>3, LinkInStrand DEF d
<1> HIDE DEF D
<1>7. M[a] = node /\ \A x \in DOMAIN m : M[x] = m[x]
  BY DEF LinkedIn
<1>8. OthersKept(m, M, l, d)
  <2>1. DOMAIN M = DOMAIN m \cup {a}
    BY DEF LinkedIn
  <2>2. IsFiniteSet(DOMAIN M)
    BY <1>3, <2>1, FS_AddElement
  <2> QED
    BY <1>3, <1>7, <2>1, <2>2 DEF OthersKept
<1>9. \A x : On(D, l + 1, x) => M[x] \in MapNode /\ Map!BucketOf(M[x].key) = i
  BY <1>2, <1>6, <1>7
<1>10. FitsBucket(M, i, l + 1, D)
  BY <1>2, <1>6, <1>7, <1>9 DEF S, FitsBucket
<1>11. PICK N, C : /\ Held(M, f, [b EXCEPT ![i] = a], N, C) /\ N[-1] = n[-1]
                   /\ \A x : x \in MapNodes(M, N, C) <=> On(D, l + 1, x) \/ (x \in S /\ ~On(d, l, x))
  <2>1. a \in Link
    BY DEF Link
  <2> QED
    BY <1>6, <1>8, <1>10, <2>1, BucketChanges DEF l, d, S, BucketBecomes
<1> DEFINE T == MapNodes(M, N, C)
<1>12. \A x : x \in T <=> x = a \/ x \in S
  BY <1>2, <1>6, <1>11
<1>13. OwnKeys(M, T)
  BY <1>11, HeldKeys
<1> HIDE DEF T
<1>14. MapOf(M, T) = Entered(MapOf(m, S), node.key, node.value)
  <2>1. OneMore(m, S, M, T, a, node.key, node.value)
    BY <1>5, <1>7, <1>12 DEF OneMore
  <2> QED
    BY <1>4, <1>13, <2>1, MapOfEntered
<1>15. Cardinality(T) = Cardinality(S) + 1
  <2>1. T = S \cup {a} /\ a \notin S
    BY <1>5, <1>12
  <2> QED
    BY <1>4, <2>1, FS_AddElement
<1> QED
  BY <1>11, <1>14, <1>15 DEF MapBecomes, S, T

\* M is m with value v in the node at x.
Valued(m, M, x, v) == M = [m EXCEPT ![x].value = v]

\* The value of a key is replaced.
LEMMA BucketSets ==
  ASSUME NEW m, NEW f, NEW b, NEW n, NEW c, NEW M, NEW x, NEW v, Held(m, f, b, n, c),
         Valued(m, M, x, v), x \in MapNodes(m, n, c), v \in Values
  PROVE  MapBecomes(m, f, n, c, M, b, Entered(MapOf(m, MapNodes(m, n, c)), m[x].key, v),
                    Cardinality(MapNodes(m, n, c)))
<1> DEFINE S == MapNodes(m, n, c)
           i == Map!BucketOf(m[x].key)
           l == n[i]
           d == c[i]
<1>1. i \in DOMAIN b
  <2>1. PICK h \in DOMAIN b : On(c[h], n[h], x)
    BY HeldChains
  <2>2. Map!BucketOf(m[x].key) = h
    BY <2>1 DEF Held, Sorted
  <2> QED
    BY <2>2
<1> HIDE DEF i
<1>2. Strand(NextOf(m), b[i], l, d) /\ b[i] \in Link /\ On(d, l, x)
  BY <1>1, BucketNodes DEF i
<1>3. /\ \A y : On(d, l, y) => y \in DOMAIN m /\ y \in S /\ m[y] \in MapNode /\ Map!BucketOf(m[y].key) = i
      /\ \A y, z : On(d, l, y) /\ On(d, l, z) /\ m[y].key = m[z].key => y = z
  BY <1>1, BucketNodes DEF Held, Sorted
<1>4. IsFiniteSet(DOMAIN m) /\ \A y \in DOMAIN m : y \in Addr
  BY DEF Held
<1>5. OwnKeys(m, S) /\ IsFiniteSet(S) /\ \A y \in S : y \in DOMAIN m
  BY HeldKeys DEF MapNodes
<1> HIDE DEF l, d, S
<1>6. /\ DOMAIN M = DOMAIN m /\ M[x] = [m[x] EXCEPT !.value = v]
      /\ \A y \in DOMAIN m : y # x => M[y] = m[y]
  BY <1>2, <1>3 DEF Valued
<1>7. M[x] \in MapNode /\ M[x].value = v /\ M[x].key = m[x].key /\ M[x].next = m[x].next
  <2>1. m[x] \in MapNode
    BY <1>2, <1>3
  <2> QED
    BY <1>6, <2>1 DEF MapNode
<1>8. NextOf(M) = NextOf(m)
  <2>1. \A y \in DOMAIN m : M[y].next = m[y].next
    BY <1>6, <1>7
  <2> QED
    BY <1>6, <2>1 DEF NextOf
<1>9. Strand(NextOf(M), b[i], l, d) /\ Replaced(NextOf(m), NextOf(M), l, d, l, d)
  <2>1. \A y : On(d, l, y) => y \in DOMAIN NextOf(m)
    BY <1>3 DEF NextOf
  <2> QED
    BY <1>2, <1>8, <2>1 DEF Replaced
<1>10. OthersKept(m, M, l, d)
  BY <1>2, <1>4, <1>6 DEF OthersKept
<1>11. \A y : On(d, l, y) => M[y] \in MapNode /\ Map!BucketOf(M[y].key) = i /\ M[y].key = m[y].key
  BY <1>3, <1>6, <1>7
<1>12. FitsBucket(M, i, l, d)
  BY <1>3, <1>11 DEF FitsBucket
<1>13. PICK N, C : /\ Held(M, f, [b EXCEPT ![i] = b[i]], N, C) /\ N[-1] = n[-1]
                   /\ \A y : y \in MapNodes(M, N, C) <=> On(d, l, y) \/ (y \in S /\ ~On(d, l, y))
  <2>1. OthersKept(m, M, n[i], c[i]) /\ Replaced(NextOf(m), NextOf(M), n[i], c[i], l, d)
    BY <1>9, <1>10 DEF l, d
  <2>2. BucketBecomes(m, f, n, c, M, [b EXCEPT ![i] = b[i]], i, l, d)
    BY <1>1, <1>2, <1>9, <1>12, <2>1, BucketChanges
  <2> QED
    BY <2>2 DEF BucketBecomes, l, d, S
<1>14. [b EXCEPT ![i] = b[i]] = b
  <2>1. b = [h \in DOMAIN b |-> b[h]]
    BY DEF Held, Map!NoArray
  <2> QED
    BY <2>1
<1>15. MapNodes(M, N, C) = S
  <2>1. \A y : y \in MapNodes(M, N, C) <=> y \in S
    BY <1>3, <1>13
  <2> QED
    BY <2>1
<1>16. OwnKeys(M, S)
  BY <1>13, <1>15, HeldKeys
<1>17. MapOf(M, S) = Entered(MapOf(m, S), m[x].key, v)
  <2>1. \A y \in S : y # x => M[y] = m[y]
    BY <1>5, <1>6
  <2>2. OneMore(m, S, M, S, x, m[x].key, v)
    BY <1>7, <2>1 DEF OneMore, S
  <2> QED
    BY <1>5, <1>16, <2>2, MapOfEntered
<1> QED
  BY <1>13, <1>14, <1>15, <1>17 DEF MapBecomes, S

\* The node of a key is taken out of its bucket.
LEMMA BucketRemoves ==
  ASSUME NEW m, NEW f, NEW b, NEW n, NEW c, NEW M, NEW i, NEW j, Held(m, f, b, n, c),
         TakenOut(m, M, c[i], j), i \in DOMAIN b, j \in 0 .. n[i] - 1,
         NEW p, HeadWithout(b[i], j, m[c[i][0]].next, p)
  PROVE  MapBecomes(m, f, n, c, M, [b EXCEPT ![i] = p],
                    Dropped(MapOf(m, MapNodes(m, n, c)), m[c[i][j]].key),
                    Cardinality(MapNodes(m, n, c)) - 1)
<1> DEFINE l == n[i]
           d == c[i]
           D == Closed(d, l, j)
           S == MapNodes(m, n, c)
<1>1. Strand(NextOf(m), b[i], l, d) /\ l \in Nat /\ b[i] \in Link
  BY BucketNodes
<1>2. /\ \A x : On(d, l, x) => x \in DOMAIN m /\ x \in S /\ m[x] \in MapNode /\ Map!BucketOf(m[x].key) = i
      /\ \A x, y : On(d, l, x) /\ On(d, l, y) /\ m[x].key = m[y].key => x = y
  BY BucketNodes DEF Held, Sorted
<1>3. IsFiniteSet(DOMAIN m) /\ HasNext(m) /\ \A x \in DOMAIN m : x \in Addr /\ m[x].next \in Link
  BY HeldNodes DEF Held
<1>4. OwnKeys(m, S) /\ IsFiniteSet(S) /\ \A x \in S : x \in DOMAIN m
  BY HeldKeys DEF MapNodes
<1>5. \A x \in S : m[x] \in MapNode
  BY HeldNodes
<1> HIDE DEF l, d, S
<1>6. /\ Strand(NextOf(M), p, l - 1, D) /\ Replaced(NextOf(m), NextOf(M), l, d, l - 1, D)
      /\ \A x : On(D, l - 1, x) <=> On(d, l, x) /\ x # d[j]
  BY <1>1, <1>3, TakeOutStrand DEF l, d, HeadWithout
<1> HIDE DEF D
<1>7. On(d, l, d[j]) /\ On(d, l, d[0]) /\ (j # 0 => On(d, l, d[j - 1]))
  <2>1. j \in 0 .. l - 1 /\ 0 \in 0 .. l - 1 /\ (j # 0 => j - 1 \in 0 .. l - 1)
    BY <1>1 DEF l
  <2> QED
    BY <2>1 DEF On
<1>8. OthersKept(m, M, l, d)
  <2>1. DOMAIN M = DOMAIN m \ {d[j]}
    BY DEF TakenOut, d
  <2>2. IsFiniteSet(DOMAIN M)
    BY <1>3, <2>1, FS_RemoveElement
  <2>3. \A x \in DOMAIN m : ~On(d, l, x) => x \in DOMAIN M /\ (j = 0 \/ x # d[j - 1])
    BY <1>7, <2>1
  <2>4. \A x \in DOMAIN m : ~On(d, l, x) => M[x] = m[x]
    BY <2>3 DEF TakenOut, d
  <2> QED
    BY <1>3, <2>1, <2>2, <2>4 DEF OthersKept
<1>9. \A x \in S : x # d[j] => M[x] \in MapNode /\ M[x].key = m[x].key /\ M[x].value = m[x].value
  <2>1. ASSUME NEW x \in S, x # d[j], j = 0 \/ x # d[j - 1]
        PROVE  M[x] \in MapNode /\ M[x].key = m[x].key /\ M[x].value = m[x].value
    BY <1>4, <1>5, <2>1 DEF TakenOut, d
  <2>2. ASSUME j # 0
        PROVE  LET x == d[j - 1]
               IN  M[x] \in MapNode /\ M[x].key = m[x].key /\ M[x].value = m[x].value
    <3>1. m[d[j - 1]] \in MapNode /\ M[d[j - 1]] = [m[d[j - 1]] EXCEPT !.next = m[d[j]].next]
      BY <1>2, <1>7, <2>2 DEF TakenOut, d
    <3>2. m[d[j]].next \in Link
      BY <1>2, <1>3, <1>7
    <3> QED
      BY <3>1, <3>2 DEF MapNode
  <2> QED
    BY <2>1, <2>2
<1>10. \A x : On(D, l - 1, x) => M[x] \in MapNode /\ Map!BucketOf(M[x].key) = i /\ M[x].key = m[x].key
  BY <1>2, <1>6, <1>9
<1>11. FitsBucket(M, i, l - 1, D)
  BY <1>2, <1>6, <1>10 DEF FitsBucket
<1>12. p \in Link
  BY <1>1, <1>2, <1>3, <1>7 DEF HeadWithout, d
<1>13. PICK N, C : /\ Held(M, f, [b EXCEPT ![i] = p], N, C) /\ N[-1] = n[-1]
                   /\ \A x : x \in MapNodes(M, N, C) <=> On(D, l - 1, x) \/ (x \in S /\ ~On(d, l, x))
  <2>1. OthersKept(m, M, n[i], c[i]) /\ Replaced(NextOf(m), NextOf(M), n[i], c[i], l - 1, D)
    BY <1>6, <1>8 DEF l, d
  <2>2. BucketBecomes(m, f, n, c, M, [b EXCEPT ![i] = p], i, l - 1, D)
    BY <1>6, <1>11, <1>12, <2>1, BucketChanges
  <2> QED
    BY <2>2 DEF BucketBecomes, l, d, S
<1> DEFINE T == MapNodes(M, N, C)
<1>14. \A x : x \in T <=> x \in S /\ x # d[j]
  BY <1>2, <1>6, <1>7, <1>13
<1> HIDE DEF T
<1>15. d[j] \in S
  BY <1>2, <1>7
<1>16. MapOf(M, T) = Dropped(MapOf(m, S), m[d[j]].key)
  <2>1. OneLess(m, S, M, T, d[j], m[d[j]].key)
    BY <1>9, <1>14, <1>15 DEF OneLess
  <2> QED
    BY <1>4, <2>1, MapOfDropped
<1>17. Cardinality(T) = Cardinality(S) - 1
  <2>1. T = S \ {d[j]}
    BY <1>14
  <2> QED
    BY <1>4, <1>15, <2>1, FS_RemoveElement
<1> QED
  BY <1>13, <1>16, <1>17 DEF MapBecomes, S, T, d

\* What is left of m without the nodes of the first i buckets
Left(m, n, c, i) == [x \in {y \in DOMAIN m : \A h \in 0 .. i - 1 : ~On(c[h], n[h], y)} |-> m[x]]

\* r is such a memory.
IsLeft(m, n, c, i, r) ==
  /\ \A x : x \in DOMAIN r <=> x \in DOMAIN m /\ \A h \in 0 .. i - 1 : ~On(c[h], n[h], x)
  /\ \A x \in DOMAIN r : r[x] = m[x]

\* Freeing one more bucket leaves one bucket less.
LEMMA FreesBucket ==
  ASSUME NEW m, NEW f, NEW b, NEW n, NEW c, NEW r, NEW i, Held(m, f, b, n, c), IsLeft(m, n, c, i, r),
         DOMAIN b = 0 .. NBuckets - 1, i \in 0 .. NBuckets - 1
  PROVE  Map!FreeChain(r, b[i]) = {Left(m, n, c, i + 1)}
<1> DEFINE rest == {y \in DOMAIN r : ~On(c[i], n[i], y)}
<1>0. NBuckets \in Nat /\ i \in DOMAIN b
  BY ChainsAssumption
<1>1. /\ \A x : x \in DOMAIN r <=> x \in DOMAIN m /\ \A h \in 0 .. i - 1 : ~On(c[h], n[h], x)
      /\ \A x \in DOMAIN r : r[x] = m[x]
  BY DEF IsLeft
<1>2. NULL \notin DOMAIN r /\ IsFiniteSet(DOMAIN r)
  <2>1. NULL \notin DOMAIN m /\ IsFiniteSet(DOMAIN m) /\ DOMAIN r \in SUBSET DOMAIN m
    BY <1>1, HeldChains
  <2> QED
    BY <2>1, FS_Subset
<1>3. Strand(NextOf(m), b[i], n[i], c[i])
  BY <1>0, HeldChains
<1>4. \A x : On(c[i], n[i], x) => x \in DOMAIN r
  <2>1. ASSUME NEW x, On(c[i], n[i], x), NEW h \in 0 .. i - 1, On(c[h], n[h], x) PROVE FALSE
    <3>1. h \in DOMAIN b /\ h # i
      BY <1>0
    <3>2. Map!BucketOf(m[x].key) = h /\ Map!BucketOf(m[x].key) = i
      BY <1>0, <2>1, <3>1, BucketNodes
    <3> QED
      BY <3>1, <3>2
  <2>2. \A x : On(c[i], n[i], x) => x \in DOMAIN m
    BY <1>0, BucketNodes
  <2> QED
    BY <1>1, <2>1, <2>2
<1>5. Strand(NextOf(r), b[i], n[i], c[i])
  <2>1. \A x : On(c[i], n[i], x) => x \in DOMAIN NextOf(r) /\ NextOf(r)[x] = NextOf(m)[x]
    BY <1>1, <1>4 DEF NextOf
  <2> QED
    BY <1>3, <2>1, StrandStays
<1>6. FreeChain(r, b[i]) = {[x \in rest |-> r[x]]}
  <2> DEFINE l == n[i]
             d == c[i]
             p == b[i]
  <2>1. Strand(NextOf(r), p, l, d)
    BY <1>5
  <2>2. rest = {y \in DOMAIN r : ~On(d, l, y)}
    OBVIOUS
  <2> HIDE DEF l, d, p, rest
  <2>3. FreeChain(r, p) = {Freed(r, l, d)}
    BY <1>2, <2>1, StrandFree
  <2> QED
    BY <2>2, <2>3 DEF p, Freed
<1>7. [x \in rest |-> r[x]] = Left(m, n, c, i + 1)
  <2>1. \A h : h \in 0 .. (i + 1) - 1 <=> h \in 0 .. i - 1 \/ h = i
    BY <1>0
  <2>2. rest = {y \in DOMAIN m : \A h \in 0 .. (i + 1) - 1 : ~On(c[h], n[h], y)}
    BY <1>1, <2>1
  <2>3. \A x \in rest : r[x] = m[x]
    BY <1>1
  <2> HIDE DEF rest
  <2> QED
    BY <2>2, <2>3 DEF Left
<1>8. Map!FreeChain(r, b[i]) = FreeChain(r, b[i])
  BY SameOperators
<1> HIDE DEF rest
<1> QED
  BY <1>6, <1>7, <1>8

\* The recursion that Emptied is defined by
IsEmptied(g) ==
  g = [i \in 0 .. NBuckets |->
         IF i = 0 THEN {mem} ELSE UNION {Map!FreeChain(m, buckets[i - 1]) : m \in g[i - 1]}]

\* Its loops leave one memory, that without the nodes of any bucket.
LEMMA EmptiedIs ==
  ASSUME NEW f, NEW n, NEW c, Held(mem, f, buckets, n, c), Map!IsMap
  PROVE  Map!Emptied = {Left(mem, n, c, NBuckets)}
<1> DEFINE L(i) == IF i = 0 THEN mem ELSE Left(mem, n, c, i)
           Step(g, i) == UNION {Map!FreeChain(m, buckets[i - 1]) : m \in g[i - 1]}
           G == [i \in 0 .. NBuckets |-> {L(i)}]
<1>0. NBuckets \in Nat /\ DOMAIN buckets = 0 .. NBuckets - 1
  BY ChainsAssumption, HeadsAre DEF Map!IsMap, Held, Map!Bucket
<1>1. L(0) = mem /\ L(NBuckets) = Left(mem, n, c, NBuckets)
  BY ChainsAssumption
<1>2. \A i \in 0 .. NBuckets - 1 : Map!FreeChain(L(i), buckets[i]) = {L(i + 1)}
  <2>1. ASSUME NEW i \in 0 .. NBuckets - 1 PROVE Map!FreeChain(L(i), buckets[i]) = {L(i + 1)}
    <3>1. L(i + 1) = Left(mem, n, c, i + 1)
      BY <1>0
    <3>2. IsLeft(mem, n, c, i, L(i))
      <4>1. CASE i # 0
        BY <4>1 DEF IsLeft, Left
      <4>2. CASE i = 0
        <5>1. \A h \in 0 .. i - 1 : FALSE
          BY <4>2
        <5> QED
          BY <4>2, <5>1 DEF IsLeft
      <4> QED
        BY <4>1, <4>2
    <3> DEFINE r == L(i)
    <3> HIDE DEF L, r
    <3>3. Map!FreeChain(r, buckets[i]) = {Left(mem, n, c, i + 1)}
      BY <1>0, <3>2, FreesBucket DEF r
    <3> QED
      BY <3>1, <3>3 DEF r
  <2> QED
    BY <2>1
<1> HIDE DEF L
<1>3. ASSUME NEW g, NEW i \in 1 .. NBuckets, g[i - 1] = {L(i - 1)} PROVE Step(g, i) = {L(i)}
  <2>1. i - 1 \in 0 .. NBuckets - 1 /\ (i - 1) + 1 = i
    BY <1>0
  <2>2. Map!FreeChain(L(i - 1), buckets[i - 1]) = {L(i)}
    BY <1>2, <2>1
  <2> QED
    BY <1>3, <2>2
<1>4. IsEmptied(G)
  <2>1. ASSUME NEW i \in 0 .. NBuckets PROVE G[i] = IF i = 0 THEN {mem} ELSE Step(G, i)
    <3>1. CASE i = 0
      BY <1>1, <3>1
    <3>2. CASE i # 0
      <4>1. i \in 1 .. NBuckets /\ i - 1 \in 0 .. NBuckets
        BY <1>0, <3>2
      <4>2. G[i - 1] = {L(i - 1)} /\ G[i] = {L(i)}
        BY <4>1
      <4> HIDE DEF G, Step
      <4> QED
        BY <1>3, <3>2, <4>1, <4>2
    <3> QED
      BY <3>1, <3>2
  <2>2. G = [i \in 0 .. NBuckets |-> G[i]]
    OBVIOUS
  <2> HIDE DEF G
  <2> QED
    BY <2>1, <2>2 DEF IsEmptied
<1>5. ASSUME NEW g, IsEmptied(g) PROVE g[NBuckets] = {L(NBuckets)}
  <2>1. \A i \in 0 .. NBuckets : g[i] = IF i = 0 THEN {mem} ELSE Step(g, i)
    BY <1>5 DEF IsEmptied
  <2> DEFINE Wrong == {i \in Nat : i <= NBuckets /\ g[i] # {L(i)}}
  <2> HIDE DEF Step
  <2>2. ASSUME Wrong # {} PROVE FALSE
    <3>1. PICK i \in Wrong : \A j \in Wrong : i <= j
      <4>1. Wrong \in SUBSET Nat
        OBVIOUS
      <4> HIDE DEF Wrong
      <4> QED
        BY <2>2, <4>1, Numbers!LeastNumber
    <3>2. i \in Nat /\ i <= NBuckets /\ g[i] # {L(i)}
      BY <3>1
    <3>3. i # 0
      BY <1>0, <1>1, <2>1, <3>2
    <3>4. i \in 1 .. NBuckets /\ i - 1 \in Nat /\ i - 1 <= NBuckets /\ ~(i <= i - 1)
      BY <1>0, <3>2, <3>3
    <3>5. g[i - 1] = {L(i - 1)}
      BY <3>1, <3>4
    <3> QED
      BY <1>0, <1>3, <2>1, <3>2, <3>3, <3>4, <3>5
  <2> QED
    BY <1>0, <2>2
<1>6. Map!Emptied = (CHOOSE g : IsEmptied(g))[NBuckets]
  BY DEF Map!Emptied, IsEmptied
<1>7. IsEmptied(CHOOSE g : IsEmptied(g))
  BY <1>4
<1> QED
  BY <1>1, <1>5, <1>6, <1>7

\* M holds the list of m and nothing else.
OnlyList(m, n, c, M) ==
  /\ \A x : x \in DOMAIN M <=> On(c[-1], n[-1], x)
  /\ \A x \in DOMAIN M : M[x] = m[x]

\* Without the nodes of the map its buckets are empty, or gone.
LEMMA MapVanishes ==
  ASSUME NEW m, NEW f, NEW b, NEW n, NEW c, NEW M, NEW B, Held(m, f, b, n, c),
         OnlyList(m, n, c, M), B = Map!NoNodes \/ B = Map!NoArray
  PROVE  MapBecomes(m, f, n, c, M, B, [k \in {} |-> NULL], 0)
<1> DEFINE h == Heads(f, b)
           H == Heads(f, B)
           l == n[-1]
           d == c[-1]
           N == [i \in DOMAIN H |-> IF i = -1 THEN l ELSE 0]
           C == [i \in DOMAIN H |-> d]
<1>1. /\ b = Map!NoArray \/ b \in [Map!Bucket -> Link]
      /\ Apart(NextOf(m), h, n, c) /\ f \in Link
      /\ \A x : On(d, l, x) => m[x] \in ListNode
  BY DEF Held, Sorted
<1>2. /\ B = Map!NoArray \/ B \in [Map!Bucket -> Link]
      /\ \A i \in DOMAIN B : B[i] = NULL
  BY DEF Map!NoNodes, Map!NoArray, Link
<1>3. DOMAIN h = {-1} \cup DOMAIN b /\ h[-1] = f
  BY <1>1, HeadsAre
<1>4. /\ DOMAIN H = {-1} \cup DOMAIN B /\ H[-1] = f
      /\ \A i \in DOMAIN B : i # -1 /\ H[i] = NULL
  <2>1. B = Map!NoArray \/ B \in [Map!Bucket -> Link]
    BY <1>2
  <2>2. /\ DOMAIN H = {-1} \cup DOMAIN B /\ H[-1] = f
        /\ \A i \in DOMAIN B : i # -1 /\ H[i] = B[i]
    <3>1. DOMAIN Heads(f, B) = {-1} \cup DOMAIN B /\ Heads(f, B)[-1] = f
      BY <2>1, HeadsAre
    <3>2. \A i \in DOMAIN B : i # -1
      <4>1. \A i \in Map!Bucket : i # -1
        BY ChainsAssumption DEF Map!Bucket
      <4> QED
        BY <2>1, <4>1 DEF Map!NoArray
    <3>3. \A i \in DOMAIN B : Heads(f, B)[i] = B[i]
      BY <3>2 DEF Heads
    <3> QED
      BY <3>1, <3>2, <3>3
  <2> QED
    BY <1>2, <2>2
<1> HIDE DEF h, H
<1>5. /\ N[-1] = l /\ C[-1] = d
      /\ \A i \in DOMAIN B : N[i] = 0 /\ C[i] = d
  BY <1>4
<1> HIDE DEF N, C
<1>6. Kept({-1}, h, n, c, H, N, C)
  BY <1>3, <1>4, <1>5 DEF Kept
<1>7. \A x : ~On(d, 0, x)
  BY DEF On
<1> HIDE DEF l, d
<1>8. /\ \A x : x \in DOMAIN M <=> On(d, l, x)
      /\ \A x \in DOMAIN M : M[x] = m[x]
  BY DEF OnlyList, l, d
<1>9. Apart(NextOf(M), H, N, C)
  <2>1. \A x : x \in DOMAIN NextOf(M) <=> \E i \in {-1} : On(c[i], n[i], x)
    BY <1>8 DEF NextOf, l, d
  <2>2. \A x : On(d, l, x) => x \in DOMAIN m
    BY HeldChains DEF l, d
  <2>3. \A x \in DOMAIN NextOf(M) : NextOf(M)[x] = NextOf(m)[x]
    BY <1>8, <2>2 DEF NextOf
  <2> QED
    BY <1>1, <1>6, <2>1, <2>3, ApartKeep
<1>10. Sorted(M, B, N, C)
  BY <1>1, <1>5, <1>7, <1>8 DEF Sorted
<1>11. IsFiniteSet(DOMAIN M) /\ \A x \in DOMAIN M : x \in Addr
  <2>1. DOMAIN M \in SUBSET DOMAIN m
    BY <1>8, HeldChains DEF l, d
  <2>2. IsFiniteSet(DOMAIN m) /\ \A x \in DOMAIN m : x \in Addr
    BY DEF Held
  <2> QED
    BY <2>1, <2>2, FS_Subset
<1>12. Held(M, f, B, N, C)
  BY <1>1, <1>2, <1>9, <1>10, <1>11 DEF Held, H
<1>13. MapNodes(M, N, C) = {}
  BY <1>5, <1>8 DEF MapNodes
<1>14. MapOf(M, {}) = [k \in {} |-> NULL]
  BY DEF MapOf
<1> QED
  BY <1>5, <1>12, <1>13, <1>14, FS_EmptySet DEF MapBecomes, l

-----------------------------------------------------------------------------
(* The calls of the map.                                                   *)

\* What a call of the map leaves to the list
MapLeaves == Shared(mem', front, length, buckets', count') /\ rc' \in {-1, 0, 1}

\* A call that changes the chain of a bucket, and returns.
LEMMA MapReturns ==
  ASSUME NEW n, NEW c, Held(mem, front, buckets, n, c), length = n[-1],
         NEW t, MapBecomes(mem, front, n, c, mem', buckets', t, count'),
         NEW code \in {-1, 0, 1}, rc' = code
  PROVE  MapLeaves /\ Map!Map!Returns(t, code)
<1> PICK N, C : /\ Held(mem', front, buckets', N, C) /\ N[-1] = n[-1]
                /\ MapOf(mem', MapNodes(mem', N, C)) = t
                /\ Cardinality(MapNodes(mem', N, C)) = count'
  BY DEF MapBecomes
<1>1. MapLeaves
  BY DEF MapLeaves, Shared
<1>2. Map!Contents' = t
  BY MapReads
<1> QED
  BY <1>1, <1>2 DEF Map!Map!Returns

\* A call that finds nothing to do, or fails, changes nothing.
LEMMA MapNoChange ==
  ASSUME ChainsInv, NEW code \in {-1, 0, 1}, Map!Return(mem, buckets, count, code)
  PROVE  MapLeaves /\ Map!Map!Returns(Map!Contents, code)
<1>1. mem' = mem /\ buckets' = buckets /\ count' = count /\ rc' = code
  BY DEF Map!Return
<1>2. MapLeaves
  BY <1>1 DEF ChainsInv, MapLeaves
<1>3. Map!Contents' = Map!Contents
  <2>1. PICK n, c : Held(mem, front, buckets, n, c)
    BY DEF ChainsInv, Shared
  <2>2. Held(mem', front, buckets', n, c)
    BY <1>1, <2>1
  <2> QED
    BY <1>1, <2>1, <2>2, MapReads
<1> QED
  BY <1>1, <1>2, <1>3 DEF Map!Map!Returns

\* Searching finds the keys of the map and no others.
LEMMA SearchFinds ==
  ASSUME NEW n, NEW c, Held(mem, front, buckets, n, c), Map!IsMap, NEW k \in Keys
  PROVE  Map!Position(k) > 0 <=> k \in DOMAIN Map!Contents
<1> DEFINE j == Map!Position(k)
           i == Map!BucketOf(k)
           S == MapNodes(mem, n, c)
<1>1. /\ j = 0 \/ j > 0
      /\ j = 0 => \A x \in S : mem[x].key # k
      /\ j > 0 => mem[c[i][j - 1]].key = k /\ c[i][j - 1] \in S
  BY MapFinds
<1>2. \A q : q \in DOMAIN MapOf(mem, S) <=> \E x \in S : mem[x].key = q
  BY HeldKeys, MapOfNodes
<1>3. Map!Contents = MapOf(mem, S)
  BY MapReads
<1>4. ~(0 > 0)
  OBVIOUS
<1> HIDE DEF i, j, S
<1> QED
  BY <1>1, <1>2, <1>3, <1>4 DEF j

\* Storing does what it promises, and leaves the list alone.
LEMMA MapSetStep ==
  ASSUME ChainsInv, NEW k \in Keys, NEW v \in Values, Map!Set(k, v)
  PROVE  MapLeaves /\ Map!Map!Set(k, v)
<1>1. PICK n, c : /\ Held(mem, front, buckets, n, c) /\ length = n[-1]
                  /\ Cardinality(MapNodes(mem, n, c)) = count
  BY DEF ChainsInv, Shared
<1> DEFINE i == Map!BucketOf(k)
           j == Map!Position(k)
           S == MapNodes(mem, n, c)
           t == Map!Contents
<1>2. Map!IsMap
  BY DEF Map!Set
<1>3. /\ i \in DOMAIN buckets /\ (j = 0 \/ j > 0)
      /\ j = 0 => \A x \in S : mem[x].key # k
      /\ j > 0 => Map!NodeAt(k) = c[i][j - 1] /\ mem[c[i][j - 1]].key = k /\ c[i][j - 1] \in S
  BY <1>1, <1>2, MapFinds
<1>4. t = MapOf(mem, S) /\ (j > 0 <=> k \in DOMAIN t)
  BY <1>1, <1>2, MapReads, SearchFinds
<1>5. Entered(t, k, v) = Map!Map!With(k, v)
  BY DEF Entered, Map!Map!With
<1> HIDE DEF t
<1>6. CASE j > 0
  <2> DEFINE x == Map!NodeAt(k)
  <2>1. mem' = [mem EXCEPT ![x].value = v] /\ buckets' = buckets /\ count' = count /\ rc' = 0
    BY <1>6 DEF Map!Set, Map!Return
  <2>2. mem[x].key = k /\ x \in S
    BY <1>3, <1>6
  <2> HIDE DEF x
  <2>3. Valued(mem, mem', x, v)
    BY <2>1 DEF Valued
  <2>4. MapBecomes(mem, front, n, c, mem', buckets, Entered(MapOf(mem, S), mem[x].key, v), Cardinality(S))
    BY <1>1, <2>2, <2>3, BucketSets
  <2>5. MapBecomes(mem, front, n, c, mem', buckets', Entered(t, k, v), count')
    BY <1>1, <1>4, <2>1, <2>2, <2>4
  <2>6. MapLeaves /\ Map!Map!Returns(Entered(t, k, v), 0)
    BY <1>1, <2>1, <2>5, MapReturns
  <2> QED
    BY <1>4, <1>5, <1>6, <2>6 DEF Map!Map!Set, Map!Map!Has, t
<1>7. CASE ~(j > 0) /\ Map!Return(mem, buckets, count, -1)
  <2>1. MapLeaves /\ Map!Map!Returns(t, -1)
    BY <1>7, MapNoChange DEF t
  <2> QED
    BY <1>4, <1>7, <2>1 DEF Map!Map!Set, Map!Map!Has, Map!Map!Fail, t
<1>8. CASE /\ ~(j > 0)
           /\ \E a \in Addr \ DOMAIN mem :
                Map!Return(Map!NewNode(mem, a, [next |-> buckets[i], key |-> k, value |-> v]),
                           [buckets EXCEPT ![i] = a], count + 1, 1)
  <2> DEFINE node == [next |-> buckets[i], key |-> k, value |-> v]
  <2>1. PICK a \in Addr \ DOMAIN mem :
               Map!Return(Map!NewNode(mem, a, node), [buckets EXCEPT ![i] = a], count + 1, 1)
    BY <1>8
  <2>2. /\ mem' = [x \in DOMAIN mem \cup {a} |-> IF x = a THEN node ELSE mem[x]]
        /\ buckets' = [buckets EXCEPT ![i] = a] /\ count' = count + 1 /\ rc' = 1
    BY <2>1 DEF Map!Return, Map!NewNode
  <2>3. node.key = k /\ node.value = v /\ node.next = buckets[i]
    OBVIOUS
  <2>4. node \in MapNode
    <3>1. buckets[i] \in Link
      BY <1>1, <1>3, BucketNodes
    <3> QED
      BY <3>1 DEF MapNode
  <2> HIDE DEF node
  <2>5. LinkedIn(mem, mem', buckets[i], c[i], 0, a, node)
    BY <2>2, <2>3 DEF LinkedIn
  <2>6. Map!BucketOf(node.key) = i /\ \A x \in S : mem[x].key # node.key
    BY <1>3, <1>8, <2>3
  <2>7. MapBecomes(mem, front, n, c, mem', [buckets EXCEPT ![i] = a],
                   Entered(MapOf(mem, S), node.key, node.value), Cardinality(S) + 1)
    <3> HIDE DEF i
    <3> QED
      BY <1>1, <1>3, <2>4, <2>5, <2>6, BucketInserts
  <2>8. MapBecomes(mem, front, n, c, mem', buckets', Entered(t, k, v), count')
    BY <1>1, <1>4, <2>2, <2>3, <2>7
  <2>9. MapLeaves /\ Map!Map!Returns(Entered(t, k, v), 1)
    BY <1>1, <2>2, <2>8, MapReturns
  <2> QED
    BY <1>4, <1>5, <1>8, <2>9 DEF Map!Map!Set, Map!Map!Has, t
<1> QED
  BY <1>6, <1>7, <1>8 DEF Map!Set

\* The node of a key is unlinked from its bucket, or from the node before it.
LEMMA MapUnlinks ==
  ASSUME NEW n, NEW c, Held(mem, front, buckets, n, c), Map!IsMap, NEW k \in Keys,
         Map!Position(k) > 0, Map!Unlink(k)
  PROVE  /\ MapBecomes(mem, front, n, c, mem', buckets', Dropped(Map!Contents, k),
                       Cardinality(MapNodes(mem, n, c)) - 1)
         /\ count' = count - 1 /\ rc' = 1
<1> DEFINE i == Map!BucketOf(k)
           j == Map!Position(k)
           l == n[i]
           d == c[i]
           q == j - 1
           node == Map!NodeAt(k)
           prev == Map!Chain(mem, buckets[i])[j - 1]
           p == IF j > 1 THEN buckets[i] ELSE mem[node].next
<1>1. /\ i \in DOMAIN buckets /\ q \in 0 .. l - 1
      /\ node = d[q] /\ mem[node].key = k
  BY MapFinds
<1>2. /\ Strand(NextOf(mem), buckets[i], l, d) /\ l \in Nat
      /\ \A x : On(d, l, x) => x \in DOMAIN mem
  BY <1>1, BucketNodes
<1>3. j = q + 1 /\ (j > 1 <=> q # 0)
  <2>1. j \in Nat /\ j > 0
    BY MapFinds
  <2> HIDE DEF j
  <2> QED
    BY <2>1
<1>4. count' = count - 1 /\ rc' = 1
  BY DEF Map!Unlink, Map!Return
<1>5. /\ j > 1 => /\ mem' = Map!FreeNode([mem EXCEPT ![prev].next = mem[node].next], node)
                  /\ buckets' = buckets
      /\ ~(j > 1) => mem' = Map!FreeNode(mem, node) /\ buckets' = [buckets EXCEPT ![i] = mem[node].next]
  BY DEF Map!Unlink, Map!Return
<1>6. q # 0 => prev = d[q - 1] /\ prev \in DOMAIN mem /\ prev # node
  <2>1. Map!Chain(mem, buckets[i]) = [m \in 1 .. l |-> d[m - 1]]
    BY <1>1, HeldChains, SameOperators
  <2>2. q # 0 => q \in 1 .. l /\ q - 1 \in 0 .. l - 1 /\ q - 1 # q
    <3>1. q \in 0 .. l - 1 /\ l \in Nat
      BY <1>1, <1>2
    <3> HIDE DEF q, l
    <3> QED
      BY <3>1
  <2>3. q # 0 => prev = d[q - 1]
    BY <2>1, <2>2
  <2>4. \A x, y \in 0 .. l - 1 : d[x] = d[y] => x = y
    BY <1>2 DEF Strand
  <2>5. q # 0 => On(d, l, d[q - 1])
    BY <2>2 DEF On
  <2> HIDE DEF prev, q, node, l, d
  <2> QED
    BY <1>1, <1>2, <2>2, <2>3, <2>4, <2>5
<1>7. buckets' = [buckets EXCEPT ![i] = p]
  <2>1. buckets = [h \in DOMAIN buckets |-> buckets[h]]
    BY DEF Held, Map!NoArray
  <2>2. j > 1 => buckets' = buckets
    BY <1>5
  <2> QED
    BY <1>5, <2>1, <2>2
<1> HIDE DEF j, q, node, prev, p, i, d, l
<1>8. TakenOut(mem, mem', d, q)
  <2>1. CASE q = 0
    BY <1>1, <1>3, <1>5, <2>1 DEF TakenOut, Map!FreeNode
  <2>2. CASE q # 0
    <3> DEFINE r == [mem[prev] EXCEPT !.next = mem[node].next]
               m == [mem EXCEPT ![prev] = r]
    <3>1. mem' = [y \in DOMAIN m \ {node} |-> m[y]]
      BY <1>3, <1>5, <2>2 DEF Map!FreeNode
    <3>2. DOMAIN m = DOMAIN mem /\ m[prev] = r /\ \A y \in DOMAIN mem : y # prev => m[y] = mem[y]
      BY <1>6, <2>2
    <3> HIDE DEF m
    <3>3. DOMAIN mem' = DOMAIN mem \ {node} /\ mem'[prev] = r
          /\ \A y \in DOMAIN mem' : y # prev => mem'[y] = mem[y]
      BY <1>6, <2>2, <3>1, <3>2
    <3> QED
      BY <1>1, <1>6, <2>2, <3>3 DEF TakenOut
  <2> QED
    BY <2>1, <2>2
<1>9. HeadWithout(buckets[i], q, mem[d[0]].next, p)
  BY <1>1, <1>3 DEF HeadWithout, p
<1>10. MapBecomes(mem, front, n, c, mem', [buckets EXCEPT ![i] = p],
                  Dropped(MapOf(mem, MapNodes(mem, n, c)), mem[d[q]].key),
                  Cardinality(MapNodes(mem, n, c)) - 1)
  <2>1. TakenOut(mem, mem', c[i], q) /\ q \in 0 .. n[i] - 1 /\ HeadWithout(buckets[i], q, mem[c[i][0]].next, p)
    BY <1>1, <1>8, <1>9 DEF l, d
  <2> QED
    BY <1>1, <2>1, BucketRemoves DEF d
<1> QED
  BY <1>1, <1>4, <1>7, <1>10, MapReads

\* Removing does what it promises, and leaves the list alone.
LEMMA MapRemoveStep ==
  ASSUME ChainsInv, NEW k \in Keys, Map!Remove(k)
  PROVE  MapLeaves /\ Map!Map!Remove(k)
<1>1. PICK n, c : /\ Held(mem, front, buckets, n, c) /\ length = n[-1]
                  /\ Cardinality(MapNodes(mem, n, c)) = count
  BY DEF ChainsInv, Shared
<1>2. Map!IsMap
  BY DEF Map!Remove
<1>3. Map!Position(k) > 0 <=> k \in DOMAIN Map!Contents
  BY <1>1, <1>2, SearchFinds
<1>4. CASE Map!Position(k) > 0
  <2>1. Map!Unlink(k)
    BY <1>4 DEF Map!Remove
  <2>2. /\ MapBecomes(mem, front, n, c, mem', buckets', Dropped(Map!Contents, k),
                      Cardinality(MapNodes(mem, n, c)) - 1)
        /\ count' = count - 1 /\ rc' = 1
    BY <1>1, <1>2, <1>4, <2>1, MapUnlinks
  <2>3. MapBecomes(mem, front, n, c, mem', buckets', Dropped(Map!Contents, k), count')
    BY <1>1, <2>2
  <2>4. MapLeaves /\ Map!Map!Returns(Dropped(Map!Contents, k), 1)
    BY <1>1, <2>2, <2>3, MapReturns
  <2>5. Dropped(Map!Contents, k) = Map!Map!Without(k)
    BY DEF Dropped, Map!Map!Without
  <2> QED
    BY <1>3, <1>4, <2>4, <2>5 DEF Map!Map!Remove, Map!Map!Has
<1>5. CASE ~(Map!Position(k) > 0)
  <2>1. Map!Return(mem, buckets, count, 0)
    BY <1>5 DEF Map!Remove
  <2>2. MapLeaves /\ Map!Map!Returns(Map!Contents, 0)
    BY <2>1, MapNoChange
  <2> QED
    BY <1>3, <1>5, <2>2 DEF Map!Map!Remove, Map!Map!Has
<1> QED
  BY <1>4, <1>5

\* Looking a key up changes nothing, and finds it if it is there.
LEMMA MapHasStep ==
  ASSUME ChainsInv, NEW k \in Keys, Map!Has(k)
  PROVE  /\ MapLeaves /\ Map!Contents' = Map!Contents
         /\ rc' = IF k \in DOMAIN Map!Contents THEN 1 ELSE 0
<1>1. PICK n, c : Held(mem, front, buckets, n, c)
  BY DEF ChainsInv, Shared
<1> DEFINE code == IF Map!Position(k) > 0 THEN 1 ELSE 0
<1>2. Map!IsMap /\ Map!Return(mem, buckets, count, code)
  BY DEF Map!Has
<1>3. Map!Position(k) > 0 <=> k \in DOMAIN Map!Contents
  BY <1>1, <1>2, SearchFinds
<1>4. MapLeaves /\ Map!Map!Returns(Map!Contents, code)
  BY <1>2, MapNoChange
<1> QED
  BY <1>3, <1>4 DEF Map!Map!Returns

\* All nodes of the map are gone, or there were none.
LEMMA MapEmpties ==
  ASSUME ChainsInv, NEW M, NEW B, B = Map!NoNodes \/ B = Map!NoArray, NEW code \in {-1, 0, 1},
         (Map!IsMap /\ M \in Map!Emptied) \/ (~Map!IsMap /\ M = mem),
         mem' = M, buckets' = B, count' = 0, rc' = code
  PROVE  MapLeaves /\ Map!Map!Returns([k \in {} |-> NULL], code)
<1>1. PICK n, c : /\ Held(mem, front, buckets, n, c) /\ length = n[-1]
                  /\ Cardinality(MapNodes(mem, n, c)) = count
  BY DEF ChainsInv, Shared
<1>2. /\ \A x : On(c[-1], n[-1], x) => x \in DOMAIN mem
      /\ \A x : x \in MapNodes(mem, n, c) <=> \E i \in DOMAIN buckets : On(c[i], n[i], x)
  BY <1>1, HeldChains
<1>3. OnlyList(mem, n, c, M)
  <2>1. CASE Map!IsMap /\ M \in Map!Emptied
    <3>1. M = Left(mem, n, c, NBuckets)
      BY <1>1, <2>1, EmptiedIs
    <3>2. DOMAIN buckets = 0 .. NBuckets - 1
      BY <1>1, <2>1, HeadsAre DEF Map!IsMap, Held, Map!Bucket
    <3>3. /\ \A x : x \in DOMAIN M <=> x \in DOMAIN mem /\ \A i \in DOMAIN buckets : ~On(c[i], n[i], x)
          /\ \A x \in DOMAIN M : M[x] = mem[x]
      BY <3>1, <3>2 DEF Left
    <3> QED
      BY <1>2, <3>3 DEF OnlyList, MapNodes
  <2>2. CASE ~Map!IsMap /\ M = mem
    <3>1. DOMAIN buckets = {}
      BY <2>2 DEF Map!IsMap, Map!NoArray
    <3> QED
      BY <1>2, <2>2, <3>1 DEF OnlyList, MapNodes
  <2> QED
    BY <2>1, <2>2
<1>4. MapBecomes(mem, front, n, c, M, B, [k \in {} |-> NULL], 0)
  BY <1>1, <1>3, MapVanishes
<1>5. MapBecomes(mem, front, n, c, mem', buckets', [k \in {} |-> NULL], count')
  BY <1>4
<1> QED
  BY <1>1, <1>5, MapReturns

\* Clearing the map and destroying it do what they promise, and leave the list alone.
LEMMA MapClearStep ==
  ASSUME ChainsInv, Map!Clear \/ Map!Destroy
  PROVE  MapLeaves /\ Map!Map!Clear
<1>1. CASE Map!IsMap
  <2>1. PICK M \in Map!Emptied : Map!Return(M, Map!NoNodes, 0, 0) \/ Map!Return(M, Map!NoArray, 0, 0)
    BY <1>1 DEF Map!Clear, Map!Destroy
  <2>2. /\ mem' = M /\ count' = 0 /\ rc' = 0
        /\ buckets' = Map!NoNodes \/ buckets' = Map!NoArray
    BY <2>1 DEF Map!Return
  <2> QED
    BY <1>1, <2>2, MapEmpties DEF Map!Map!Clear
<1>2. CASE ~Map!IsMap
  <2>1. mem' = mem /\ buckets' = Map!NoArray /\ count' = count /\ rc' = 0
    BY <1>2 DEF Map!Clear, Map!Destroy, Map!Return, Map!IsMap
  <2>2. count = 0
    <3>1. PICK n, c : Held(mem, front, buckets, n, c) /\ Cardinality(MapNodes(mem, n, c)) = count
      BY DEF ChainsInv, Shared
    <3>2. \A i \in DOMAIN buckets : FALSE
      BY <1>2 DEF Map!IsMap, Map!NoArray
    <3>3. MapNodes(mem, n, c) = {}
      BY <3>1, <3>2, HeldChains
    <3> QED
      BY <3>1, <3>3, FS_EmptySet
  <2> QED
    BY <1>2, <2>1, <2>2, MapEmpties DEF Map!Map!Clear
<1> QED
  BY <1>1, <1>2

\* Initializing makes a map without entries, if there was none.
LEMMA MapInitializeStep ==
  ASSUME ChainsInv, Map!Initialize
  PROVE  MapLeaves /\ Map!Contents' = Map!Contents
<1>1. ~Map!IsMap /\ mem' = mem /\ count' = 0
  BY DEF Map!Initialize, Map!Return
<1>2. /\ buckets' = Map!NoNodes \/ buckets' = Map!NoArray
      /\ rc' \in {-1, 0, 1}
  BY DEF Map!Initialize, Map!Return
<1>3. MapLeaves /\ Map!Contents' = [k \in {} |-> NULL]
  BY <1>1, <1>2, MapEmpties DEF Map!Map!Returns
<1>4. Map!Contents = [k \in {} |-> NULL]
  <2>1. PICK n, c : Held(mem, front, buckets, n, c)
    BY DEF ChainsInv, Shared
  <2>2. \A i \in DOMAIN buckets : FALSE
    BY <1>1 DEF Map!IsMap, Map!NoArray
  <2>3. MapNodes(mem, n, c) = {}
    BY <2>1, <2>2, HeldChains
  <2>4. Map!Contents = MapOf(mem, {})
    BY <2>1, <2>3, MapReads
  <2> QED
    BY <2>4 DEF MapOf
<1> QED
  BY <1>3, <1>4

-----------------------------------------------------------------------------
(* The theorems.                                                           *)

\* Each call of the list keeps its promises.
LEMMA ListStep ==
  ASSUME ChainsInv, List!Next
  PROVE  ListLeaves
<1>1. ASSUME NEW i \in List!Index, NEW v \in Elem, List!Insert(i, v) \/ List!Set(i, v) PROVE ListLeaves
  BY <1>1, ListInsertStep, ListSetStep
<1>2. ASSUME NEW i \in List!Index, List!Remove(i) PROVE ListLeaves
  BY <1>2, ListRemoveStep
<1>3. ASSUME NEW keep \in BOOLEAN, List!PopFront(keep) PROVE ListLeaves
  BY <1>3, ListPopStep
<1>4. ASSUME List!Clear PROVE ListLeaves
  BY <1>4, ListClearStep
<1> QED
  BY <1>1, <1>2, <1>3, <1>4 DEF List!Next

\* So does each call of the map.
LEMMA MapStep ==
  ASSUME ChainsInv, Map!Next
  PROVE  MapLeaves
<1>1. ASSUME NEW k \in Keys, Map!Remove(k) \/ Map!Has(k) PROVE MapLeaves
  BY <1>1, MapRemoveStep, MapHasStep
<1>2. ASSUME NEW k \in Keys, NEW v \in Values, Map!Set(k, v) PROVE MapLeaves
  BY <1>2, MapSetStep
<1>3. ASSUME Map!Clear \/ Map!Destroy PROVE MapLeaves
  BY <1>3, MapClearStep
<1>4. ASSUME Map!Initialize PROVE MapLeaves
  BY <1>4, MapInitializeStep
<1> QED
  BY <1>1, <1>2, <1>3, <1>4 DEF Map!Next

\* The array of buckets is known to be freed or not.
LEMMA FreedStep ==
  ASSUME freed \in BOOLEAN, Map!Next
  PROVE  freed' \in BOOLEAN
<1>1. ASSUME NEW k \in Keys, Map!Remove(k) \/ Map!Has(k) PROVE freed' = freed
  BY <1>1 DEF Map!Remove, Map!Has
<1>2. ASSUME NEW k \in Keys, NEW v \in Values, Map!Set(k, v) PROVE freed' = freed
  BY <1>2 DEF Map!Set
<1>3. ASSUME Map!Clear PROVE freed' = freed
  BY <1>3 DEF Map!Clear
<1>4. ASSUME Map!Initialize \/ Map!Destroy PROVE freed' \in BOOLEAN
  BY <1>4 DEF Map!Initialize, Map!Destroy, Map!IsMap
<1> QED
  BY <1>1, <1>2, <1>3, <1>4 DEF Map!Next

\* Both begin without a node.
LEMMA InitInv == Init => ChainsInv
<1> SUFFICES ASSUME Init PROVE ChainsInv
  OBVIOUS
<1> DEFINE n == [i \in {-1} \cup Map!Bucket |-> 0]
           c == [i \in {-1} \cup Map!Bucket |-> 0]
           h == Heads(NULL, Map!NoNodes)
<1>1. /\ mem = [a \in {} |-> NULL] /\ front = NULL /\ length = 0
      /\ buckets = Map!NoNodes /\ count = 0 /\ freed = FALSE /\ rc = 0 /\ out = NoElem
  BY DEF Init, List!Init, Map!Init
<1>2. buckets \in [Map!Bucket -> Link] /\ front \in Link
  BY <1>1 DEF Map!NoNodes, Link
<1>3. DOMAIN mem = {} /\ DOMAIN NextOf(mem) = {} /\ IsFiniteSet(DOMAIN mem)
  BY <1>1, FS_EmptySet DEF NextOf
<1>4. DOMAIN h = {-1} \cup Map!Bucket /\ \A i \in DOMAIN h : h[i] = NULL /\ n[i] = 0 /\ c[i] = 0
  BY DEF Heads, Map!NoNodes
<1>5. n[-1] = 0
  OBVIOUS
<1> HIDE DEF n, c, h
<1>6. \A x, d : ~On(d, 0, x)
  BY DEF On
<1>7. \A d : Strand(NextOf(mem), NULL, 0, d)
  BY DEF Strand, Runs
<1>8. Apart(NextOf(mem), h, n, c)
  BY <1>3, <1>4, <1>6, <1>7 DEF Apart
<1>9. DOMAIN buckets \in SUBSET DOMAIN h /\ -1 \in DOMAIN h
  BY <1>2, <1>4
<1>10. Sorted(mem, buckets, n, c)
  BY <1>4, <1>6, <1>9 DEF Sorted
<1>11. Held(mem, front, buckets, n, c)
  BY <1>1, <1>2, <1>3, <1>8, <1>10 DEF Held, h
<1>12. MapNodes(mem, n, c) = {}
  BY <1>3 DEF MapNodes
<1>13. Cardinality(MapNodes(mem, n, c)) = 0
  BY <1>12, FS_EmptySet
<1> QED
  BY <1>1, <1>5, <1>11, <1>13 DEF ChainsInv, Shared

\* Whatever is called, the nodes of the list and those of the map remain apart
\* and on their chains, each key in the bucket of its hash and in one node,
\* and both counts right: the inductive invariant of Chains.
THEOREM ListAndMapApart == Spec => []ChainsInv
<1>1. ASSUME ChainsInv, [Next]_vars PROVE ChainsInv'
  <2>1. CASE ListCall
    <3>1. ListLeaves /\ buckets' = buckets /\ count' = count /\ freed' = freed
      BY <1>1, <2>1, ListStep DEF ListCall
    <3> QED
      BY <1>1, <3>1 DEF ListLeaves, ChainsInv, Shared
  <2>2. CASE MapCall
    <3>1. MapLeaves /\ front' = front /\ length' = length /\ out' = out
      BY <1>1, <2>2, MapStep DEF MapCall
    <3>2. Shared(mem', front', length', buckets', count')
      BY <3>1 DEF MapLeaves
    <3>3. freed' \in BOOLEAN
      BY <1>1, <2>2, FreedStep DEF MapCall, ChainsInv
    <3> QED
      BY <1>1, <3>1, <3>2, <3>3 DEF MapLeaves, ChainsInv
  <2>3. CASE UNCHANGED vars
    BY <1>1, <2>3 DEF vars, ChainsInv, Shared
  <2> QED
    BY <1>1, <2>1, <2>2, <2>3 DEF Next
<1> QED
  BY <1>1, InitInv, PTL DEF Spec

\* What is allocated is on one chain each, in that of the list or of a bucket,
\* and all variables keep their type.
LEMMA EachOwned == ChainsInv => EachNodeOwnedOnce
<1> SUFFICES ASSUME ChainsInv PROVE EachNodeOwnedOnce
  OBVIOUS
<1>1. PICK n, c : /\ Held(mem, front, buckets, n, c) /\ length = n[-1]
                  /\ Cardinality(MapNodes(mem, n, c)) = count
  BY DEF ChainsInv, Shared
<1> DEFINE h == Heads(front, buckets)
           S == MapNodes(mem, n, c)
           head(i) == <<i, h[i]>>
           nodes(q) == Chain(mem, q[2])
           chains == {<<-1, front>>} \cup {<<i, buckets[i]>> : i \in DOMAIN buckets}
<1>2. /\ front \in Link /\ (buckets = Map!NoArray \/ buckets \in [Map!Bucket -> Link])
      /\ Apart(NextOf(mem), h, n, c) /\ \A x \in DOMAIN mem : x \in Addr
  BY <1>1 DEF Held
<1>3. /\ DOMAIN h = {-1} \cup DOMAIN buckets /\ h[-1] = front
      /\ \A i \in DOMAIN buckets : h[i] = buckets[i]
  BY <1>2, HeadsAre
<1> HIDE DEF h
<1>4. ASSUME NEW i \in DOMAIN h
      PROVE  /\ n[i] \in Nat /\ Strand(NextOf(mem), h[i], n[i], c[i])
             /\ nodes(head(i)) = [k \in 1 .. n[i] |-> c[i][k - 1]]
  <2>1. Strand(NextOf(mem), h[i], n[i], c[i])
    BY <1>2 DEF Apart
  <2>2. Chain(mem, h[i]) = [k \in 1 .. n[i] |-> c[i][k - 1]]
    <3>1. CASE i = -1
      BY <1>1, <1>3, <3>1, HeldChains
    <3>2. CASE i \in DOMAIN buckets
      BY <1>1, <1>3, <3>2, HeldChains
    <3> QED
      BY <1>3, <3>1, <3>2
  <2> QED
    BY <2>1, <2>2 DEF Strand
<1>5. \A q : q \in chains <=> \E i \in DOMAIN h : q = head(i)
  BY <1>3
<1> HIDE DEF nodes, chains, head
<1>6. \A q \in chains : nodes(q) = <<>> => q[2] = NULL
  <2>1. ASSUME NEW i \in DOMAIN h, nodes(head(i)) = <<>> PROVE head(i)[2] = NULL
    <3>1. n[i] = 0
      <4>1. DOMAIN nodes(head(i)) = 1 .. n[i] /\ n[i] \in Nat
        BY <1>4
      <4>2. DOMAIN nodes(head(i)) = {}
        BY <2>1
      <4> QED
        BY <4>1, <4>2
    <3> QED
      BY <1>4, <3>1 DEF Strand, Runs, head
  <2> QED
    BY <1>5, <2>1
<1>7. \A q \in chains : nodes(q) # <<>> => mem[nodes(q)[Len(nodes(q))]].next = NULL
  <2>1. ASSUME NEW i \in DOMAIN h, nodes(head(i)) # <<>>
        PROVE  mem[nodes(head(i))[Len(nodes(head(i)))]].next = NULL
    <3> DEFINE l == n[i]
               d == c[i]
               s == nodes(head(i))
    <3>1. s = [k \in 1 .. l |-> d[k - 1]] /\ l \in Nat /\ Strand(NextOf(mem), h[i], l, d)
      BY <1>4
    <3> HIDE DEF l, d, s
    <3>2. Len(s) = l /\ l # 0
      <4>1. Len(s) = l /\ s \in [1 .. l -> {d[k - 1] : k \in 1 .. l}]
        BY <3>1, FunctionIsSeq
      <4>2. l = 0 => s = <<>>
        BY <3>1
      <4> QED
        BY <2>1, <4>1, <4>2 DEF s
    <3>3. s[l] = d[l - 1] /\ l - 1 \in 0 .. l - 1
      BY <3>1, <3>2
    <3>4. d[l - 1] \in DOMAIN mem /\ NextOf(mem)[d[l - 1]] = NULL
      BY <3>1, <3>3 DEF Strand, Runs, NextOf
    <3> QED
      BY <3>2, <3>3, <3>4 DEF s, NextOf
  <2> QED
    BY <1>5, <2>1
<1>8. \A i, j \in DOMAIN h : \A k \in DOMAIN nodes(head(i)), l \in DOMAIN nodes(head(j)) :
        nodes(head(i))[k] = nodes(head(j))[l] => i = j /\ k = l
  <2>1. ASSUME NEW i \in DOMAIN h, NEW j \in DOMAIN h, NEW k \in 1 .. n[i], NEW l \in 1 .. n[j],
               c[i][k - 1] = c[j][l - 1]
        PROVE  i = j /\ k = l
    <3>1. /\ n[i] \in Nat /\ n[j] \in Nat
          /\ k - 1 \in 0 .. n[i] - 1 /\ l - 1 \in 0 .. n[j] - 1 /\ (k - 1 = l - 1 => k = l)
      BY <1>4
    <3>2. On(c[i], n[i], c[i][k - 1]) /\ On(c[j], n[j], c[i][k - 1])
      BY <2>1, <3>1 DEF On
    <3>3. i = j
      BY <1>2, <3>2 DEF Apart
    <3>4. \A x, y \in 0 .. n[i] - 1 : c[i][x] = c[i][y] => x = y
      BY <1>4 DEF Strand
    <3>5. k - 1 = l - 1
      BY <2>1, <3>1, <3>3, <3>4
    <3> QED
      BY <3>1, <3>3, <3>5
  <2>2. \A i \in DOMAIN h : /\ DOMAIN nodes(head(i)) = 1 .. n[i]
                            /\ \A k \in 1 .. n[i] : nodes(head(i))[k] = c[i][k - 1]
    BY <1>4
  <2>3. ASSUME NEW i \in DOMAIN h, NEW j \in DOMAIN h,
               NEW k \in DOMAIN nodes(head(i)), NEW l \in DOMAIN nodes(head(j)),
               nodes(head(i))[k] = nodes(head(j))[l]
        PROVE  i = j /\ k = l
    <3>1. k \in 1 .. n[i] /\ l \in 1 .. n[j]
      BY <2>2
    <3>2. c[i][k - 1] = c[j][l - 1]
      BY <2>2, <2>3, <3>1
    <3> QED
      BY <2>1, <3>1, <3>2
  <2> QED
    BY <2>3
<1>9. \A q, r \in chains : \A k \in DOMAIN nodes(q), l \in DOMAIN nodes(r) :
        nodes(q)[k] = nodes(r)[l] => q = r /\ k = l
  BY <1>5, <1>8
<1>10. DOMAIN mem = UNION {{nodes(q)[k] : k \in DOMAIN nodes(q)} : q \in chains}
  <2>1. ASSUME NEW i \in DOMAIN h, NEW x
        PROVE  x \in {nodes(head(i))[k] : k \in DOMAIN nodes(head(i))} <=> On(c[i], n[i], x)
    <3> DEFINE l == n[i]
               d == c[i]
               s == nodes(head(i))
    <3>1. DOMAIN s = 1 .. l /\ l \in Nat /\ \A k \in 1 .. l : s[k] = d[k - 1]
      BY <1>4
    <3> HIDE DEF l, d, s
    <3>2. ASSUME NEW k \in 1 .. l, s[k] = x PROVE On(d, l, x)
      <4>1. k - 1 \in 0 .. l - 1
        BY <3>1
      <4> QED
        BY <3>1, <3>2, <4>1 DEF On
    <3>3. ASSUME NEW k \in 0 .. l - 1, d[k] = x PROVE \E j \in 1 .. l : s[j] = x
      <4>1. k + 1 \in 1 .. l /\ (k + 1) - 1 = k
        BY <3>1
      <4> QED
        BY <3>1, <3>3, <4>1
    <3>4. On(d, l, x) <=> \E k \in 0 .. l - 1 : d[k] = x
      BY DEF On
    <3> QED
      BY <3>1, <3>2, <3>3, <3>4 DEF l, d, s
  <2>2. \A x : x \in DOMAIN mem <=> \E i \in DOMAIN h : On(c[i], n[i], x)
    BY <1>2 DEF Apart, NextOf
  <2>3. \A x : x \in UNION {{nodes(q)[k] : k \in DOMAIN nodes(q)} : q \in chains}
                 <=> \E i \in DOMAIN h : On(c[i], n[i], x)
    <3> DEFINE on(q) == {nodes(q)[k] : k \in DOMAIN nodes(q)}
    <3>1. \A i \in DOMAIN h : \A x : x \in on(head(i)) <=> On(c[i], n[i], x)
      BY <2>1
    <3>2. \A x : x \in UNION {on(q) : q \in chains} <=> \E q \in chains : x \in on(q)
      OBVIOUS
    <3> HIDE DEF on
    <3>3. \A x : (\E q \in chains : x \in on(q)) <=> \E i \in DOMAIN h : x \in on(head(i))
      BY <1>5
    <3>4. \A x : x \in UNION {on(q) : q \in chains} <=> \E i \in DOMAIN h : On(c[i], n[i], x)
      BY <3>1, <3>2, <3>3
    <3> QED
      BY <3>4 DEF on
  <2> QED
    BY <2>2, <2>3
<1>11. length = Len(List!Nodes) /\ count = Cardinality(Map!Nodes)
  <2>1. List!Nodes = [k \in 1 .. n[-1] |-> c[-1][k - 1]] /\ n[-1] \in Nat
    BY <1>1, HeldChains, SameOperators DEF List!Nodes
  <2>2. Len(List!Nodes) = n[-1]
    BY <2>1, FunctionIsSeq
  <2>3. Map!Nodes = S
    BY <1>1, MapReads
  <2> QED
    BY <1>1, <2>2, <2>3
<1>12. TypeOK
  <2>1. \A a \in DOMAIN mem :
          /\ a \in Addr /\ mem[a].next \in Link
          /\ mem[a] \in ListNode \cup MapNode
    BY <1>1, <1>2, HeldNodes
  <2>2. front \in Link /\ (buckets = Map!NoArray \/ buckets \in [Map!Bucket -> Link])
    BY <1>2
  <2>3. length \in Nat /\ count \in Nat
    <3>1. n[-1] \in Nat /\ IsFiniteSet(S)
      BY <1>1, HeldChains, HeldKeys
    <3> QED
      BY <1>1, <3>1, FS_CardinalityType
  <2> QED
    BY <2>1, <2>2, <2>3 DEF TypeOK, ChainsInv, Link, ListNode, MapNode
<1> QED
  BY <1>6, <1>7, <1>9, <1>10, <1>11, <1>12 DEF EachNodeOwnedOnce, nodes, chains

\* Nothing leaks, no link dangles, and no node is reached from both.
THEOREM NodesOwnedOnce == Spec => []EachNodeOwnedOnce
  BY ListAndMapApart, EachOwned, PTL

\* Keys are in their buckets, as the invariant says.
LEMMA KeysHeld == ChainsInv => KeysPlaced
<1> SUFFICES ASSUME ChainsInv PROVE KeysPlaced
  OBVIOUS
<1>1. PICK n, c : Held(mem, front, buckets, n, c)
  BY DEF ChainsInv, Shared
<1>2. ASSUME NEW i \in DOMAIN buckets, NEW x \in Map!Seqs!Range(Map!Chain(mem, buckets[i]))
      PROVE  Map!BucketOf(mem[x].key) = i
  <2>1. Map!Chain(mem, buckets[i]) = [k \in 1 .. n[i] |-> c[i][k - 1]] /\ n[i] \in Nat
    BY <1>1, HeldChains, SameOperators
  <2>2. PICK k \in 1 .. n[i] : c[i][k - 1] = x
    BY <2>1 DEF Map!Seqs!Range
  <2>3. k - 1 \in 0 .. n[i] - 1
    BY <2>1
  <2>4. On(c[i], n[i], x)
    BY <2>2, <2>3 DEF On
  <2> QED
    BY <1>1, <2>4, BucketNodes
<1>3. OwnKeys(mem, Map!Nodes)
  BY <1>1, HeldKeys, MapReads
<1> QED
  BY <1>2, <1>3 DEF KeysPlaced, Map!KeysPlaced, OwnKeys

\* A key is stored where it is looked for, and once.
THEOREM KeysStayPlaced == Spec => []KeysPlaced
  BY ListAndMapApart, KeysHeld, PTL

\* Each call of the list has the effect and returns the code its comment
\* promises, whatever the map did with the memory before.
THEOREM ListKeepsPromises == Spec => ListPromises
<1> DEFINE Promises ==
      /\ \A i \in List!Index, v \in Elem :
           /\ List!Insert(i, v) => List!Sequence!Insert(i, v)
           /\ List!Set(i, v) => List!Sequence!Set(i, v)
      /\ \A i \in List!Index : List!Remove(i) => List!Sequence!Remove(i)
      /\ (\E keep \in BOOLEAN : List!PopFront(keep)) => List!Sequence!PopFront
      /\ List!Clear => List!Sequence!Clear
<1>1. ASSUME ChainsInv PROVE Promises
  BY <1>1, ListInsertStep, ListSetStep, ListRemoveStep, ListPopStep, ListClearStep
<1> QED
  BY <1>1, ListAndMapApart, PTL DEF ListPromises, List!CallsKeepTheirPromises

\* Each call of the map has the effect and returns the code its comment
\* promises, whatever the list did with the memory before.
THEOREM MapKeepsPromises == Spec => MapPromises
<1> DEFINE Promises ==
      /\ \A k \in Keys :
           /\ Map!Remove(k) => Map!Map!Remove(k)
           /\ Map!Has(k) => UNCHANGED Map!Contents /\ rc' = (IF k \in DOMAIN Map!Contents THEN 1 ELSE 0)
           /\ \A v \in Values : Map!Set(k, v) => Map!Map!Set(k, v)
      /\ Map!Clear \/ Map!Destroy => Map!Map!Clear
      /\ Map!Initialize => UNCHANGED Map!Contents
<1>1. ASSUME ChainsInv PROVE Promises
  BY <1>1, MapRemoveStep, MapHasStep, MapSetStep, MapClearStep, MapInitializeStep
<1> QED
  BY <1>1, ListAndMapApart, PTL DEF MapPromises, Map!CallsKeepTheirPromises
=============================================================================
