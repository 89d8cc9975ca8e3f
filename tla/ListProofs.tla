----------------------------- MODULE ListProofs -----------------------------
(***************************************************************************)
(* Proofs about List, for every element type, address space and set of     *)
(* clients: how its nodes are linked, that none is lost, and what each     *)
(* call does to the sequence of elements.                                  *)
(***************************************************************************)
EXTENDS List, NodeMemoryProofs

-----------------------------------------------------------------------------
(* Memory.                                                                 *)

Pointer == Addr \cup {NULL}
Node == [prev : Pointer, next : Pointer, data : Elem]

\* A memory that holds nodes at some addresses
Typed(m) == m \in [DOMAIN m -> Node] /\ DOMAIN m \subseteq Addr

\* NULL is not the address of a node.
LEMMA NoNodeAtNull == ASSUME NEW m, Typed(m) PROVE NULL \notin DOMAIN m
BY NodeMemoryAssumption DEF Typed

\* The fields of a node
LEMMA NodeFields ==
  ASSUME NEW m, Typed(m), NEW x \in DOMAIN m
  PROVE  m[x].prev \in Pointer /\ m[x].next \in Pointer /\ m[x].data \in Elem /\ x \in Pointer
BY DEF Typed, Node, Pointer

\* A new node holds its element and no links.
LEMMA AllocFields ==
  ASSUME NEW m, Typed(m), NEW a \in Addr \ DOMAIN m, NEW v \in Elem
  PROVE  LET M == Alloc(m, a, v)
         IN  /\ Typed(M) /\ a \in Pointer
             /\ \A x : x \in DOMAIN M <=> x \in DOMAIN m \/ x = a
             /\ M[a].prev = NULL /\ M[a].next = NULL /\ M[a].data = v
             /\ \A x \in DOMAIN m : M[x] = m[x]
<1> DEFINE node == [prev |-> NULL, next |-> NULL, data |-> v]
           M == Alloc(m, a, v)
<1>1. node \in Node
  BY DEF Node, Pointer
<1>2. node.prev = NULL /\ node.next = NULL /\ node.data = v
  OBVIOUS
<1> HIDE DEF node
<1>3. M = [x \in DOMAIN m \cup {a} |-> IF x = a THEN node ELSE m[x]]
  BY DEF Alloc, NewNode, node
<1> HIDE DEF M
<1>4. Typed(M)
  BY <1>1, <1>3 DEF Typed
<1> QED
  BY <1>2, <1>3, <1>4 DEF M, Pointer

\* Setting next changes nothing else, and so on.
LEMMA SetNextFields ==
  ASSUME NEW m, Typed(m), NEW a \in DOMAIN m, NEW p \in Pointer
  PROVE  LET M == SetNext(m, a, p)
         IN  /\ Typed(M) /\ DOMAIN M = DOMAIN m
             /\ \A x \in DOMAIN m : /\ M[x].prev = m[x].prev /\ M[x].data = m[x].data
                                    /\ M[x].next = IF x = a THEN p ELSE m[x].next
<1> DEFINE M == SetNext(m, a, p)
           node == [m[a] EXCEPT !.next = p]
<1>1. m[a] \in Node
  BY DEF Typed
<1>2. node \in Node /\ node.prev = m[a].prev /\ node.next = p /\ node.data = m[a].data
  BY <1>1 DEF Node
<1> HIDE DEF node
<1>3. M = [m EXCEPT ![a] = node]
  BY DEF SetNext, node
<1> HIDE DEF M
<1>4. DOMAIN M = DOMAIN m /\ \A x \in DOMAIN m : M[x] = IF x = a THEN node ELSE m[x]
  BY <1>3 DEF Typed
<1>5. Typed(M)
  BY <1>2, <1>3 DEF Typed
<1> QED
  BY <1>2, <1>4, <1>5 DEF M

\* Setting prev, likewise
LEMMA SetPrevFields ==
  ASSUME NEW m, Typed(m), NEW a \in DOMAIN m, NEW p \in Pointer
  PROVE  LET M == SetPrev(m, a, p)
         IN  /\ Typed(M) /\ DOMAIN M = DOMAIN m
             /\ \A x \in DOMAIN m : /\ M[x].next = m[x].next /\ M[x].data = m[x].data
                                    /\ M[x].prev = IF x = a THEN p ELSE m[x].prev
<1> DEFINE M == SetPrev(m, a, p)
           node == [m[a] EXCEPT !.prev = p]
<1>1. m[a] \in Node
  BY DEF Typed
<1>2. node \in Node /\ node.prev = p /\ node.next = m[a].next /\ node.data = m[a].data
  BY <1>1 DEF Node
<1> HIDE DEF node
<1>3. M = [m EXCEPT ![a] = node]
  BY DEF SetPrev, node
<1> HIDE DEF M
<1>4. DOMAIN M = DOMAIN m /\ \A x \in DOMAIN m : M[x] = IF x = a THEN node ELSE m[x]
  BY <1>3 DEF Typed
<1>5. Typed(M)
  BY <1>2, <1>3 DEF Typed
<1> QED
  BY <1>2, <1>4, <1>5 DEF M

\* Setting the element of a node
LEMMA SetDataFields ==
  ASSUME NEW m, Typed(m), NEW a \in DOMAIN m, NEW v \in Elem
  PROVE  LET M == [m EXCEPT ![a].data = v]
         IN  /\ Typed(M) /\ DOMAIN M = DOMAIN m
             /\ \A x \in DOMAIN m : /\ M[x].next = m[x].next /\ M[x].prev = m[x].prev
                                    /\ M[x].data = IF x = a THEN v ELSE m[x].data
<1> DEFINE M == [m EXCEPT ![a].data = v]
           node == [m[a] EXCEPT !.data = v]
<1>1. m[a] \in Node
  BY DEF Typed
<1>2. node \in Node /\ node.prev = m[a].prev /\ node.next = m[a].next /\ node.data = v
  BY <1>1 DEF Node
<1> HIDE DEF node
<1>3. M = [m EXCEPT ![a] = node]
  BY DEF node
<1> HIDE DEF M
<1>4. DOMAIN M = DOMAIN m /\ \A x \in DOMAIN m : M[x] = IF x = a THEN node ELSE m[x]
  BY <1>3 DEF Typed
<1>5. Typed(M)
  BY <1>2, <1>3 DEF Typed
<1> QED
  BY <1>2, <1>4, <1>5 DEF M

\* Freeing a node leaves the others as they are.
LEMMA FreeFields ==
  ASSUME NEW m, Typed(m), NEW a
  PROVE  LET M == FreeNode(m, a)
         IN  /\ Typed(M) /\ \A x : x \in DOMAIN M <=> x \in DOMAIN m /\ x # a
             /\ \A x \in DOMAIN M : M[x] = m[x]
BY DEF FreeNode, Typed

-----------------------------------------------------------------------------
(* A list in memory.                                                       *)

\* The nodes of memory m are those of c, in which every node is linked with
\* its neighbors; f and l are the first and the last.  Nothing is said of the
\* links that lead out of the list.
Row(m, f, l, n, c) ==
  /\ c \in [0 .. n - 1 -> DOMAIN m]
  /\ \A a \in DOMAIN m : \E k \in 0 .. n - 1 : c[k] = a
  /\ \A j, k \in 0 .. n - 1 : c[j] = c[k] => j = k
  /\ f = IF n = 0 THEN NULL ELSE c[0]
  /\ l = IF n = 0 THEN NULL ELSE c[n - 1]
  /\ \A k \in 0 .. n - 2 : m[c[k]].next = c[k + 1] /\ m[c[k + 1]].prev = c[k]

BackOf(m) == [p \in DOMAIN m |-> m[p].prev]
Turned(c, n) == [k \in 0 .. n - 1 |-> c[n - 1 - k]]

\* A list ends at its nodes c[0] and c[n - 1].
LEMMA RowEnds ==
  ASSUME NEW m, NEW f, NEW l, NEW c, NEW n \in Nat, Typed(m),
         Row(m, f, l, n, c)
  PROVE  /\ n = 0 => f = NULL /\ l = NULL /\ \A x : x \notin DOMAIN m
         /\ n > 0 => /\ f = c[0] /\ f \in DOMAIN m /\ f # NULL
                     /\ l = c[n - 1] /\ l \in DOMAIN m /\ l # NULL
         /\ f \in Pointer /\ l \in Pointer /\ NULL \notin DOMAIN m
<1>1. NULL \notin DOMAIN m /\ DOMAIN m \subseteq Pointer /\ NULL \in Pointer
  BY NoNodeAtNull DEF Typed, Pointer
<1>2. CASE n = 0
  <2>1. \A k \in 0 .. n - 1 : FALSE
    BY <1>2
  <2> QED
    BY <1>1, <1>2, <2>1 DEF Row
<1>3. CASE n > 0
  <2>1. 0 \in 0 .. n - 1 /\ n - 1 \in 0 .. n - 1 /\ n # 0
    BY <1>3
  <2> QED
    BY <1>1, <2>1 DEF Row
<1> QED
  BY <1>2, <1>3

\* Along next a list leads from its first node to its last and on to where
\* that points; along prev it leads back.
LEMMA RowRuns ==
  ASSUME NEW m, NEW f, NEW l, NEW c, NEW n \in Nat, Typed(m),
         Row(m, f, l, n, c)
  PROVE  /\ Runs(NextOf(m), f, c, n, IF n = 0 THEN NULL ELSE m[l].next)
         /\ Runs(BackOf(m), l, Turned(c, n), n, IF n = 0 THEN NULL ELSE m[f].prev)
<1> DEFINE d == Turned(c, n)
<1>1. /\ c \in [0 .. n - 1 -> DOMAIN m] /\ \A k \in 0 .. n - 1 : c[k] \in DOMAIN m
      /\ f = IF n = 0 THEN NULL ELSE c[0]
      /\ l = IF n = 0 THEN NULL ELSE c[n - 1]
      /\ \A k \in 0 .. n - 2 : m[c[k]].next = c[k + 1] /\ m[c[k + 1]].prev = c[k]
  BY DEF Row
<1>2. \A k \in 0 .. n - 1 : d[k] = c[n - 1 - k]
  BY DEF Turned
<1> HIDE DEF d
<1>3. Runs(NextOf(m), f, c, n, IF n = 0 THEN NULL ELSE m[l].next)
  <2> SUFFICES ASSUME NEW k \in 0 .. n - 1
               PROVE  m[c[k]].next = IF k = n - 1 THEN m[l].next ELSE c[k + 1]
    BY <1>1 DEF Runs, NextOf
  <2>1. CASE k = n - 1
    BY <1>1, <2>1
  <2>2. CASE k # n - 1
    <3>1. k \in 0 .. n - 2
      BY <2>2
    <3> QED
      BY <1>1, <2>2, <3>1
  <2> QED
    BY <2>1, <2>2
<1>4. Runs(BackOf(m), l, d, n, IF n = 0 THEN NULL ELSE m[f].prev)
  <2>1. ASSUME NEW k \in 0 .. n - 1
        PROVE  d[k] \in DOMAIN m /\ m[d[k]].prev = IF k = n - 1 THEN m[f].prev ELSE d[k + 1]
    <3>1. n - 1 - k \in 0 .. n - 1
      OBVIOUS
    <3>2. CASE k = n - 1
      <4>1. n - 1 - k = 0 /\ n # 0
        BY <3>2
      <4> QED
        BY <1>1, <1>2, <3>1, <3>2, <4>1
    <3>3. CASE k # n - 1
      <4>1. /\ k + 1 \in 0 .. n - 1 /\ n - 1 - (k + 1) \in 0 .. n - 2
            /\ (n - 1 - (k + 1)) + 1 = n - 1 - k
        BY <3>3
      <4>2. d[k + 1] = c[n - 1 - (k + 1)]
        BY <1>2, <4>1
      <4>3. m[c[(n - 1 - (k + 1)) + 1]].prev = c[n - 1 - (k + 1)]
        BY <1>1, <4>1
      <4> QED
        BY <1>1, <1>2, <3>1, <3>3, <4>1, <4>2, <4>3
    <3> QED
      BY <3>2, <3>3
  <2>2. l = IF n = 0 THEN NULL ELSE d[0]
    <3>1. n # 0 => 0 \in 0 .. n - 1 /\ n - 1 - 0 = n - 1
      OBVIOUS
    <3> QED
      BY <1>1, <1>2, <3>1
  <2>3. n = 0 \/ n # 0
    OBVIOUS
  <2>4. \A k \in 0 .. n - 1 : n # 0
    OBVIOUS
  <2> QED
    BY <2>1, <2>2, <2>3, <2>4 DEF Runs, BackOf
<1> QED
  BY <1>3, <1>4 DEF d

\* The elements read along next, and those read along prev in reverse
ReadOn(m, p, n) ==
  LET c == ChainAlong(NextOf(m), p, n) IN [k \in 1 .. Len(c) |-> m[c[k]].data]
ReadBack(m, p, n) ==
  LET c == ChainAlong(BackOf(m), p, n) IN [k \in 1 .. Len(c) |-> m[c[Len(c) + 1 - k]].data]

\* They are the elements of the list.
LEMMA RowReads ==
  ASSUME NEW m, NEW f, NEW l, NEW c, NEW n \in Nat, Typed(m),
         Row(m, f, l, n, c)
  PROVE  /\ ReadOn(m, f, n) = Data(m, n, c) /\ ReadBack(m, l, n) = Data(m, n, c)
         /\ Data(m, n, c) \in Seq(Elem) /\ Len(Data(m, n, c)) = n
<1> DEFINE fc == ChainAlong(NextOf(m), f, n)
           bc == ChainAlong(BackOf(m), l, n)
           d == Turned(c, n)
<1>0. c \in [0 .. n - 1 -> DOMAIN m]
  BY DEF Row
<1>1. NULL \notin DOMAIN m /\ DOMAIN NextOf(m) = DOMAIN m /\ DOMAIN BackOf(m) = DOMAIN m
  BY NoNodeAtNull DEF NextOf, BackOf
<1>2. fc = [k \in 1 .. n |-> c[k - 1]]
  <2>1. \A link, p : \A e : Runs(link, p, c, n, e) /\ NULL \notin DOMAIN link
                          => ChainAlong(link, p, n) = [k \in 1 .. n |-> c[k - 1]]
    BY ChainRuns
  <2>2. NULL \notin DOMAIN NextOf(m)
    BY <1>1
  <2>3. Runs(NextOf(m), f, c, n, IF n = 0 THEN NULL ELSE m[l].next)
    BY RowRuns
  <2> QED
    BY <2>1, <2>2, <2>3
<1>3. bc = [k \in 1 .. n |-> d[k - 1]]
  <2>1. PICK e : Runs(BackOf(m), l, d, n, e)
    BY RowRuns
  <2> HIDE DEF d
  <2> QED
    BY <1>1, <2>1, ChainRuns
<1>4. \A k \in 0 .. n - 1 : d[k] = c[n - 1 - k]
  BY DEF Turned
<1> HIDE DEF fc, bc, d
<1>5. \A k \in 1 .. n : /\ k - 1 \in 0 .. n - 1 /\ n + 1 - k \in 1 .. n
                        /\ n + 1 - k - 1 \in 0 .. n - 1 /\ n - 1 - (n + 1 - k - 1) = k - 1
  OBVIOUS
<1>6. \A k \in 0 .. n - 1 : c[k] \in DOMAIN m /\ m[c[k]].data \in Elem
  BY <1>0, NodeFields
<1>7. fc \in [1 .. n -> DOMAIN m]
  BY <1>2, <1>5, <1>6
<1>8. Len(fc) = n
  BY <1>7, FunctionIsSeq
<1>9. bc \in [1 .. n -> DOMAIN m] /\ \A k \in 1 .. n : bc[n + 1 - k] = c[k - 1]
  <2>1. \A k \in 1 .. n : d[k - 1] \in DOMAIN m
    <3>1. \A k \in 1 .. n : n - 1 - (k - 1) \in 0 .. n - 1
      OBVIOUS
    <3> QED
      BY <1>4, <1>5, <1>6, <3>1
  <2>2. \A k \in 1 .. n : bc[n + 1 - k] = d[n + 1 - k - 1]
    BY <1>3, <1>5
  <2>3. \A k \in 1 .. n : d[n + 1 - k - 1] = c[n - 1 - (n + 1 - k - 1)]
    BY <1>4, <1>5
  <2>4. \A k \in 1 .. n : d[n + 1 - k - 1] = c[k - 1]
    BY <1>5, <2>3
  <2> QED
    BY <1>3, <2>1, <2>2, <2>4
<1>10. Len(bc) = n
  BY <1>9, FunctionIsSeq
<1>11. \A k \in 1 .. n : fc[k] = c[k - 1]
  BY <1>2
<1>12. Data(m, n, c) \in [1 .. n -> Elem]
  BY <1>5, <1>6 DEF Data
<1>13. [k \in 1 .. Len(fc) |-> m[fc[k]].data] = Data(m, n, c)
  BY <1>8, <1>11 DEF Data
<1>14. [k \in 1 .. Len(bc) |-> m[bc[Len(bc) + 1 - k]].data] = Data(m, n, c)
  BY <1>9, <1>10 DEF Data
<1>15. Data(m, n, c) \in Seq(Elem) /\ Len(Data(m, n, c)) = n
  BY <1>12, FunctionIsSeq
<1> QED
  BY <1>13, <1>14, <1>15 DEF fc, bc, ReadOn, ReadBack

\* A list of n nodes has n nodes.
LEMMA RowCardinality ==
  ASSUME NEW m, NEW f, NEW l, NEW c, NEW n \in Nat,
         Row(m, f, l, n, c)
  PROVE  Cardinality(DOMAIN m) = n
<1>1. IsFiniteSet(0 .. n - 1) /\ Cardinality(0 .. n - 1) = n
  <2>1. n - 1 \in Int /\ 0 \in Int /\ (0 > n - 1 <=> n = 0) /\ (n - 1) - 0 + 1 = n
    OBVIOUS
  <2>2. Cardinality(0 .. n - 1) = IF 0 > n - 1 THEN 0 ELSE (n - 1) - 0 + 1
    BY <2>1, FS_Interval
  <2>3. IsFiniteSet(0 .. n - 1)
    BY <2>1, FS_Interval
  <2> QED
    BY <2>1, <2>2, <2>3
<1>2. c \in Bijection(0 .. n - 1, DOMAIN m)
  BY DEF Row, Bijection, Injection, Surjection, IsInjective
<1>3. ExistsBijection(0 .. n - 1, DOMAIN m)
  BY <1>2 DEF ExistsBijection
<1>4. Cardinality(0 .. n - 1) = Cardinality(DOMAIN m)
  BY <1>1, <1>3, FS_Bijection
<1> QED
  BY <1>1, <1>4

\* M is m with a new node a that holds v, linked in between the neighbors at
\* i - 1 and i, as far as there are such; a link out of the list may change.
Joined(m, M, n, c, i, a, v) ==
  /\ Typed(M) /\ a \notin DOMAIN m /\ \A x : x \in DOMAIN M <=> x \in DOMAIN m \/ x = a
  /\ \A k \in 0 .. n - 1 : k # i - 1 /\ k # n - 1 => M[c[k]].next = m[c[k]].next
  /\ \A k \in 0 .. n - 1 : k # i /\ k # 0 => M[c[k]].prev = m[c[k]].prev
  /\ i > 0 => M[c[i - 1]].next = a /\ M[a].prev = c[i - 1]
  /\ i < n => M[c[i]].prev = a /\ M[a].next = c[i]
  /\ M[a].data = v /\ \A x \in DOMAIN m : M[x].data = m[x].data

\* M is m without the node at i, whose neighbors are linked with each other.
Parted(m, M, n, c, i) ==
  /\ Typed(M) /\ \A x : x \in DOMAIN M <=> x \in DOMAIN m /\ x # c[i]
  /\ \A k \in 0 .. n - 1 : k # i /\ k # i - 1 /\ k # n - 1 => M[c[k]].next = m[c[k]].next
  /\ \A k \in 0 .. n - 1 : k # i /\ k # i + 1 /\ k # 0 => M[c[k]].prev = m[c[k]].prev
  /\ i > 0 /\ i < n - 1 => M[c[i - 1]].next = c[i + 1] /\ M[c[i + 1]].prev = c[i - 1]
  /\ \A x \in DOMAIN M : M[x].data = m[x].data

\* Linking a new node in between two neighbors, or at an end, makes it the i-th.
LEMMA InsertRow ==
  ASSUME NEW m, NEW f, NEW l, NEW c, NEW n \in Nat,
         Row(m, f, l, n, c), NEW M, NEW a, NEW v, NEW i \in 0 .. n, Joined(m, M, n, c, i, a, v),
         NEW F, NEW L, F = IF i = 0 THEN a ELSE c[0], L = IF i = n THEN a ELSE c[n - 1]
  PROVE  Row(M, F, L, n + 1, Squeezed(c, n, i, a))
<1> DEFINE d == Squeezed(c, n, i, a)
           Old(k) == IF k < i THEN k ELSE k - 1
           New(k) == IF k < i THEN k ELSE k + 1
<1>0. /\ a \notin DOMAIN m /\ \A x : x \in DOMAIN M <=> x \in DOMAIN m \/ x = a
      /\ \A k \in 0 .. n - 1 : k # i - 1 /\ k # n - 1 => M[c[k]].next = m[c[k]].next
      /\ \A k \in 0 .. n - 1 : k # i /\ k # 0 => M[c[k]].prev = m[c[k]].prev
      /\ i > 0 => M[c[i - 1]].next = a /\ M[a].prev = c[i - 1]
      /\ i < n => M[c[i]].prev = a /\ M[a].next = c[i]
  BY DEF Joined
<1>1. /\ \A k \in 0 .. n - 1 : c[k] \in DOMAIN m
      /\ \A x \in DOMAIN m : \E k \in 0 .. n - 1 : c[k] = x
      /\ \A j, k \in 0 .. n - 1 : c[j] = c[k] => j = k
      /\ \A k \in 0 .. n - 2 : m[c[k]].next = c[k + 1] /\ m[c[k + 1]].prev = c[k]
  BY DEF Row
<1>2. /\ DOMAIN d = 0 .. n /\ d[i] = a
      /\ \A k \in 0 .. n : k # i => d[k] = c[Old(k)]
  <2>1. \A k \in 0 .. n : k # i => (k < i => Old(k) = k) /\ (~(k < i) => Old(k) = k - 1)
    OBVIOUS
  <2> QED
    BY <2>1 DEF Squeezed
<1> HIDE DEF d
<1>3. \A k \in 0 .. n : k # i => Old(k) \in 0 .. n - 1 /\ New(Old(k)) = k
  OBVIOUS
<1>4. \A k \in 0 .. n - 1 : New(k) \in 0 .. n /\ New(k) # i /\ Old(New(k)) = k
  OBVIOUS
<1>5. \A k \in 0 .. n : d[k] \in DOMAIN M
  BY ZenonT(30), <1>0, <1>1, <1>2, <1>3
<1>6. ASSUME NEW x \in DOMAIN M PROVE \E k \in 0 .. n : d[k] = x
  <2>1. CASE x = a
    BY <1>2, <2>1
  <2>2. CASE x \in DOMAIN m
    <3>1. PICK k \in 0 .. n - 1 : c[k] = x
      BY <1>1, <2>2
    <3>2. New(k) \in 0 .. n /\ d[New(k)] = c[Old(New(k))] /\ Old(New(k)) = k
      BY <1>2, <1>4
    <3> HIDE DEF New, Old
    <3> QED
      BY <3>1, <3>2
  <2> QED
    BY <1>0, <2>1, <2>2
<1>7. ASSUME NEW j \in 0 .. n, NEW k \in 0 .. n, d[j] = d[k] PROVE j = k
  <2>1. \A x \in 0 .. n : x # i => d[x] # a
    <3> TAKE x \in 0 .. n
    <3> HAVE x # i
    <3>1. Old(x) \in 0 .. n - 1 /\ d[x] = c[Old(x)]
      BY <1>2, <1>3
    <3> HIDE DEF Old, New
    <3>2. c[Old(x)] \in DOMAIN m
      BY <1>1, <3>1
    <3> QED
      BY <1>0, <3>1, <3>2
  <2>2. CASE j = i \/ k = i
    BY <1>2, <1>7, <2>1, <2>2
  <2>3. CASE j # i /\ k # i
    <3>1. c[Old(j)] = c[Old(k)] /\ Old(j) \in 0 .. n - 1 /\ Old(k) \in 0 .. n - 1
      BY <1>2, <1>3, <1>7, <2>3
    <3>2. New(Old(j)) = j /\ New(Old(k)) = k
      BY <1>3, <2>3
    <3> HIDE DEF New, Old
    <3>3. Old(j) = Old(k)
      BY <1>1, <3>1
    <3> QED
      BY <3>2, <3>3
  <2> QED
    BY <2>2, <2>3
<1>8. ASSUME NEW k \in 0 .. n - 1 PROVE M[d[k]].next = d[k + 1] /\ M[d[k + 1]].prev = d[k]
  <2>1. CASE k < i - 1
    <3>1. /\ k \in 0 .. n /\ k # i /\ Old(k) = k /\ k + 1 \in 0 .. n /\ k + 1 # i /\ Old(k + 1) = k + 1
          /\ k # i - 1 /\ k # n - 1 /\ k \in 0 .. n - 2 /\ k + 1 \in 0 .. n - 1 /\ k + 1 # 0
      BY <2>1
    <3>2. d[k] = c[k] /\ d[k + 1] = c[k + 1]
      <4> HIDE DEF Old
      <4> QED
        BY <1>2, <3>1
    <3> QED
      BY <1>0, <1>1, <3>1, <3>2
  <2>2. CASE k = i - 1
    <3>1. k \in 0 .. n /\ k # i /\ Old(k) = k /\ k + 1 = i /\ i > 0
      BY <2>2
    <3>2. d[k] = c[i - 1] /\ d[k + 1] = a
      <4> HIDE DEF Old
      <4> QED
        BY <1>2, <2>2, <3>1
    <3> QED
      BY <1>0, <3>1, <3>2
  <2>3. CASE k = i
    <3>1. k + 1 \in 0 .. n /\ k + 1 # i /\ Old(k + 1) = i /\ i < n
      BY <2>3
    <3>2. d[k] = a /\ d[k + 1] = c[i]
      <4> HIDE DEF Old
      <4> QED
        BY <1>2, <2>3, <3>1
    <3> QED
      BY <1>0, <3>1, <3>2
  <2>4. CASE k > i
    <3>1. /\ k \in 0 .. n /\ k # i /\ Old(k) = k - 1 /\ k + 1 \in 0 .. n /\ k + 1 # i /\ Old(k + 1) = k
          /\ k - 1 \in 0 .. n - 1 /\ k - 1 # i - 1 /\ k - 1 # n - 1 /\ k # 0
          /\ k - 1 \in 0 .. n - 2 /\ (k - 1) + 1 = k
      BY <2>4
    <3>2. d[k] = c[k - 1] /\ d[k + 1] = c[k]
      <4> HIDE DEF Old
      <4> QED
        BY <1>2, <3>1
    <3>3. m[c[k - 1]].next = c[(k - 1) + 1] /\ m[c[(k - 1) + 1]].prev = c[k - 1]
      BY <1>1, <3>1
    <3> QED
      BY <1>0, <3>1, <3>2, <3>3
  <2> QED
    BY <2>1, <2>2, <2>3, <2>4
<1>9. F = d[0] /\ L = d[n]
  <2>1. /\ 0 \in 0 .. n /\ n \in 0 .. n
        /\ i # 0 => 0 # i /\ Old(0) = 0
        /\ i # n => n # i /\ Old(n) = n - 1
    OBVIOUS
  <2> HIDE DEF Old
  <2> QED
    BY <1>2, <2>1
<1>10. (n + 1) - 1 = n /\ (n + 1) - 2 = n - 1 /\ n + 1 # 0
  OBVIOUS
<1>11. d = [k \in 0 .. n |-> d[k]]
  BY <1>2 DEF d, Squeezed
<1>12. d \in [0 .. n -> DOMAIN M]
  BY <1>5, <1>11
<1>13. Row(M, F, L, n + 1, d)
  <2> HIDE DEF Old, New
  <2> QED
    BY <1>6, <1>7, <1>8, <1>9, <1>10, <1>12 DEF Row
<1> QED
  BY <1>13 DEF d

\* And its element becomes the i-th.
LEMMA InsertData ==
  ASSUME NEW m, NEW f, NEW l, NEW c, NEW n \in Nat, Typed(m), Row(m, f, l, n, c),
         NEW M, NEW a, NEW v, NEW i \in 0 .. n, Joined(m, M, n, c, i, a, v)
  PROVE  Data(M, n + 1, Squeezed(c, n, i, a)) = With(Data(m, n, c), i, v)
<1>1. M[a].data = v /\ SameData(m, M, c, n, n)
  BY DEF Joined, Row, SameData
<1>2. Len(Data(m, n, c)) = n
  BY RowReads
<1>3. Data(M, n + 1, Squeezed(c, n, i, a)) = With(Data(m, n, c), i, M[a].data)
  BY <1>1, <1>2, DataWith
<1> QED
  BY <1>1, <1>3

\* Linking the neighbors of the i-th node with each other and freeing it
\* takes it out of the list; at an end the struct names the neighbor.
LEMMA RemoveRow ==
  ASSUME NEW m, NEW f, NEW l, NEW c, NEW n \in Nat,
         Row(m, f, l, n, c), NEW M, NEW i \in 0 .. n - 1, Parted(m, M, n, c, i), NEW F, NEW L,
         F = IF n = 1 THEN NULL ELSE IF i = 0 THEN c[1] ELSE c[0],
         L = IF n = 1 THEN NULL ELSE IF i = n - 1 THEN c[n - 2] ELSE c[n - 1]
  PROVE  Row(M, F, L, n - 1, Closed(c, n, i))
<1> DEFINE d == Closed(c, n, i)
           Old(k) == IF k < i THEN k ELSE k + 1
           New(k) == IF k < i THEN k ELSE k - 1
<1>0. /\ \A x : x \in DOMAIN M <=> x \in DOMAIN m /\ x # c[i]
      /\ \A k \in 0 .. n - 1 : k # i /\ k # i - 1 /\ k # n - 1 => M[c[k]].next = m[c[k]].next
      /\ \A k \in 0 .. n - 1 : k # i /\ k # i + 1 /\ k # 0 => M[c[k]].prev = m[c[k]].prev
      /\ i > 0 /\ i < n - 1 => M[c[i - 1]].next = c[i + 1] /\ M[c[i + 1]].prev = c[i - 1]
  BY DEF Parted
<1>1. /\ \A k \in 0 .. n - 1 : c[k] \in DOMAIN m
      /\ \A x \in DOMAIN m : \E k \in 0 .. n - 1 : c[k] = x
      /\ \A j, k \in 0 .. n - 1 : c[j] = c[k] => j = k
      /\ \A k \in 0 .. n - 2 : m[c[k]].next = c[k + 1] /\ m[c[k + 1]].prev = c[k]
  BY DEF Row
<1>2. DOMAIN d = 0 .. n - 2 /\ \A k \in 0 .. n - 2 : d[k] = c[Old(k)]
  <2>1. \A k \in 0 .. n - 2 : (k < i => Old(k) = k) /\ (~(k < i) => Old(k) = k + 1)
    OBVIOUS
  <2> QED
    BY <2>1 DEF Closed
<1> HIDE DEF d
<1>3. \A k \in 0 .. n - 2 : Old(k) \in 0 .. n - 1 /\ Old(k) # i /\ New(Old(k)) = k
  OBVIOUS
<1>4. \A k \in 0 .. n - 1 : k # i => New(k) \in 0 .. n - 2 /\ Old(New(k)) = k
  OBVIOUS
<1>5. \A k \in 0 .. n - 2 : d[k] \in DOMAIN M
  <2>1. \A k \in 0 .. n - 1 : k # i => c[k] # c[i] /\ c[k] \in DOMAIN m
    BY <1>1
  <2> HIDE DEF Old, New
  <2> QED
    BY <1>0, <1>2, <1>3, <2>1
<1>6. ASSUME NEW x \in DOMAIN M PROVE \E k \in 0 .. n - 2 : d[k] = x
  <2>1. PICK k \in 0 .. n - 1 : c[k] = x
    BY <1>0, <1>1
  <2>2. k # i
    BY <1>0, <2>1
  <2> HIDE DEF Old, New
  <2> QED
    BY <1>2, <1>4, <2>1, <2>2
<1>7. ASSUME NEW j \in 0 .. n - 2, NEW k \in 0 .. n - 2, d[j] = d[k] PROVE j = k
  <2>1. c[Old(j)] = c[Old(k)] /\ Old(j) \in 0 .. n - 1 /\ Old(k) \in 0 .. n - 1
    BY <1>2, <1>3, <1>7
  <2> HIDE DEF Old, New
  <2>2. Old(j) = Old(k)
    BY <1>1, <2>1
  <2> QED
    BY <1>3, <2>2
<1>8. ASSUME NEW k \in 0 .. n - 3 PROVE M[d[k]].next = d[k + 1] /\ M[d[k + 1]].prev = d[k]
  <2>1. CASE k < i - 1
    <3>1. /\ k \in 0 .. n - 2 /\ Old(k) = k /\ k + 1 \in 0 .. n - 2 /\ Old(k + 1) = k + 1
          /\ k \in 0 .. n - 1 /\ k # i /\ k # i - 1 /\ k # n - 1
          /\ k + 1 \in 0 .. n - 1 /\ k + 1 # i /\ k + 1 # i + 1 /\ k + 1 # 0
      BY <2>1
    <3> HIDE DEF Old
    <3>2. d[k] = c[k] /\ d[k + 1] = c[k + 1]
      BY <1>2, <3>1
    <3> QED
      BY <1>0, <1>1, <3>1, <3>2
  <2>2. CASE k = i - 1
    <3>1. /\ k \in 0 .. n - 2 /\ Old(k) = i - 1 /\ k + 1 \in 0 .. n - 2 /\ Old(k + 1) = i + 1
          /\ i > 0 /\ i < n - 1
      BY <2>2
    <3> HIDE DEF Old
    <3>2. d[k] = c[i - 1] /\ d[k + 1] = c[i + 1]
      BY <1>2, <3>1
    <3> QED
      BY <1>0, <3>1, <3>2
  <2>3. CASE k >= i
    <3>1. /\ k \in 0 .. n - 2 /\ Old(k) = k + 1 /\ k + 1 \in 0 .. n - 2 /\ Old(k + 1) = k + 1 + 1
          /\ k + 1 \in 0 .. n - 1 /\ k + 1 # i /\ k + 1 # i - 1 /\ k + 1 # n - 1
          /\ k + 1 + 1 \in 0 .. n - 1 /\ k + 1 + 1 # i /\ k + 1 + 1 # i + 1 /\ k + 1 + 1 # 0
      BY <2>3
    <3> HIDE DEF Old
    <3>2. d[k] = c[k + 1] /\ d[k + 1] = c[k + 1 + 1]
      BY <1>2, <3>1
    <3> QED
      BY <1>0, <1>1, <3>1, <3>2
  <2> QED
    BY <2>1, <2>2, <2>3
<1>9. F = (IF n - 1 = 0 THEN NULL ELSE d[0]) /\ L = IF n - 1 = 0 THEN NULL ELSE d[n - 2]
  <2>1. n - 1 = 0 <=> n = 1
    OBVIOUS
  <2>2. n # 1 => 0 \in 0 .. n - 2 /\ n - 2 \in 0 .. n - 2
    OBVIOUS
  <2>3. n # 1 => Old(0) = (IF i = 0 THEN 1 ELSE 0) /\ Old(n - 2) = IF i = n - 1 THEN n - 2 ELSE n - 1
    OBVIOUS
  <2> HIDE DEF Old
  <2> QED
    BY <1>2, <2>1, <2>2, <2>3
<1>10. (n - 1) - 1 = n - 2 /\ (n - 1) - 2 = n - 3
  OBVIOUS
<1>11. d = [k \in 0 .. n - 2 |-> d[k]]
  BY <1>2 DEF d, Closed
<1>12. d \in [0 .. n - 2 -> DOMAIN M]
  BY <1>5, <1>11
<1>13. Row(M, F, L, n - 1, d)
  <2> HIDE DEF Old, New
  <2> QED
    BY <1>6, <1>7, <1>8, <1>9, <1>10, <1>12 DEF Row
<1> QED
  BY <1>13 DEF d

\* And its element out of the sequence.
LEMMA RemoveData ==
  ASSUME NEW m, NEW f, NEW l, NEW c, NEW n \in Nat, Typed(m), Row(m, f, l, n, c),
         NEW M, NEW i \in 0 .. n - 1, Parted(m, M, n, c, i)
  PROVE  Data(M, n - 1, Closed(c, n, i)) = Without(Data(m, n, c), i)
<1>1. SameData(m, M, c, n, i)
  BY DEF Row, Parted, SameData
<1>2. Len(Data(m, n, c)) = n
  BY RowReads
<1> QED
  BY <1>1, <1>2, DataWithout

\* M is m with v as the element of the i-th node.
ElementSet(m, M, c, i, v) ==
  /\ DOMAIN M = DOMAIN m
  /\ \A x \in DOMAIN m : /\ M[x].next = m[x].next /\ M[x].prev = m[x].prev
                         /\ M[x].data = IF x = c[i] THEN v ELSE m[x].data

\* Replacing the element of the i-th node leaves the nodes where they are.
LEMMA SetRow ==
  ASSUME NEW m, NEW f, NEW l, NEW c, NEW n \in Nat, Typed(m),
         Row(m, f, l, n, c), NEW M, NEW v, NEW i \in 0 .. n - 1, ElementSet(m, M, c, i, v)
  PROVE  Row(M, f, l, n, c) /\ Data(M, n, c) = [Data(m, n, c) EXCEPT ![i + 1] = v]
<1> USE DEF ElementSet
<1> DEFINE s == Data(m, n, c)
<1>1. \A k \in 0 .. n - 1 : c[k] \in DOMAIN m
  BY DEF Row
<1>2. Row(M, f, l, n, c)
  <2>1. \A k \in 0 .. n - 2 : k \in 0 .. n - 1 /\ k + 1 \in 0 .. n - 1
    OBVIOUS
  <2> QED
    BY <1>1, <2>1 DEF Row
<1>3. s = [k \in 1 .. n |-> m[c[k - 1]].data]
  BY DEF Data
<1> HIDE DEF s
<1>4. ASSUME NEW k \in 1 .. n PROVE M[c[k - 1]].data = [s EXCEPT ![i + 1] = v][k]
  <2>1. k - 1 \in 0 .. n - 1 /\ (k - 1 = i <=> k = i + 1)
    OBVIOUS
  <2>2. c[k - 1] = c[i] <=> k - 1 = i
    BY <2>1 DEF Row
  <2>3. [s EXCEPT ![i + 1] = v][k] = IF k = i + 1 THEN v ELSE s[k]
    BY <1>3
  <2>4. M[c[k - 1]].data = IF c[k - 1] = c[i] THEN v ELSE m[c[k - 1]].data
    BY <1>1, <2>1
  <2> QED
    BY <1>3, <2>1, <2>2, <2>3, <2>4
<1>5. [s EXCEPT ![i + 1] = v] = [k \in 1 .. n |-> [s EXCEPT ![i + 1] = v][k]]
  BY <1>3
<1>6. Data(M, n, c) = [s EXCEPT ![i + 1] = v]
  BY <1>4, <1>5 DEF Data
<1> QED
  BY <1>2, <1>6 DEF s

-----------------------------------------------------------------------------
(* The invariant.                                                          *)

\* The links that lead out of the list are NULL as far as the client's calls
\* leave them so: a pop makes the neighbor of the node it frees an end and
\* does not touch the link to that node.
Ends(m, f, l, n) ==
  /\ NeverPops \/ IsQueue => (n > 0 => m[f].prev = NULL)
  /\ NeverPops => (n > 0 => m[l].next = NULL)

\* Unless the program has ended by a fault, the allocated nodes are a list; a
\* client that never pops, or uses it as a queue, runs into no fault.
ListInv ==
  /\ TypeOK /\ Typed(mem)
  /\ NeverPops \/ IsQueue => fault = "none"
  /\ fault = "none" => /\ \E c \in [0 .. count - 1 -> DOMAIN mem] : Row(mem, first, last, count, c)
                       /\ Ends(mem, first, last, count)

\* The sequence of elements is s, whichever way it is read.
Reads(s) == Forward = s /\ Backward = s

\* What is known of the list before a call
Now(m, f, l, n, c) ==
  /\ m = mem /\ f = first /\ l = last /\ n = count /\ calls \in Clients
  /\ Typed(m) /\ Row(m, f, l, n, c) /\ Ends(m, f, l, n)

\* It holds as long as no fault has ended the program.
LEMMA Before ==
  ASSUME ListInv, fault = "none"
  PROVE  \E m, f, l, c : \E n \in Nat :
           /\ Now(m, f, l, n, c) /\ Reads(Data(m, n, c))
           /\ Data(m, n, c) \in Seq(Elem) /\ Len(Data(m, n, c)) = n
<1>1. count \in Nat /\ Typed(mem) /\ Ends(mem, first, last, count) /\ calls \in Clients
  BY DEF ListInv, TypeOK
<1>2. PICK c : Row(mem, first, last, count, c)
  BY DEF ListInv
<1>3. BackOf(mem) = PrevOf
  BY DEF BackOf, PrevOf
<1> DEFINE s == Data(mem, count, c)
<1>4. /\ ReadOn(mem, first, count) = s /\ ReadBack(mem, last, count) = s
      /\ s \in Seq(Elem) /\ Len(s) = count
  BY <1>1, <1>2, RowReads
<1>5. Forward = ReadOn(mem, first, count) /\ Backward = ReadBack(mem, last, count)
  BY <1>3 DEF Forward, Backward, ReadOn, ReadBack
<1>6. Now(mem, first, last, count, c) /\ Reads(s)
  BY <1>1, <1>2, <1>4, <1>5 DEF Now, Reads
<1> QED
  BY <1>1, <1>4, <1>6

\* A call that returns a list keeps the invariant, and that list is read after it.
LEMMA Returned ==
  ASSUME calls \in Clients, NEW m, NEW f, NEW l, NEW c, NEW n \in Nat,
         Typed(m), Row(m, f, l, n, c), Ends(m, f, l, n),
         NEW code \in {-1, 0, 1}, NEW o \in Elem \cup {NoElem}, Return(m, f, l, n, code, o)
  PROVE  /\ ListInv' /\ fault' = "none" /\ rc' = code /\ out' = o
         /\ Forward' = Data(m, n, c) /\ Backward' = Data(m, n, c)
<1>1. /\ mem' = m /\ first' = f /\ last' = l /\ count' = n /\ rc' = code /\ out' = o /\ calls' = calls
  BY DEF Return
<1>2. ListInvariant(f, l, n) /\ f \in Pointer /\ l \in Pointer
  <2>1. /\ n = 0 => f = NULL /\ l = NULL
        /\ n > 0 => f # NULL /\ l # NULL
        /\ f \in Pointer /\ l \in Pointer
    BY RowEnds
  <2> QED
    BY <2>1 DEF ListInvariant
<1>3. fault' = "none"
  BY <1>2 DEF Return
<1>4. TypeOK' /\ Typed(mem)'
  BY <1>1, <1>2, <1>3, NodeFields DEF TypeOK, Typed, Pointer
<1>5. Ends(mem, first, last, count)'
  BY <1>1 DEF Ends, NeverPops, IsQueue
<1>6. ListInv'
  <2>1. c \in [0 .. count' - 1 -> DOMAIN mem'] /\ Row(mem', first', last', count', c)
    BY <1>1 DEF Row
  <2> QED
    BY <1>3, <1>4, <1>5, <2>1 DEF ListInv
<1>7. BackOf(m) = PrevOf'
  BY <1>1 DEF BackOf, PrevOf
<1>8. Forward' = ReadOn(m, f, n) /\ Backward' = ReadBack(m, l, n)
  BY <1>1, <1>7 DEF Forward, Backward, ReadOn, ReadBack
<1>9. ReadOn(m, f, n) = Data(m, n, c) /\ ReadBack(m, l, n) = Data(m, n, c)
  BY RowReads
<1> QED
  BY <1>1, <1>3, <1>6, <1>8, <1>9

\* A call that changes nothing
LEMMA Unchanged ==
  ASSUME ListInv, fault = "none", NEW code \in {-1, 0, 1}, NoChange(code)
  PROVE  /\ ListInv' /\ Forward' = Forward /\ Backward' = Backward /\ rc' = code /\ out' = NoElem
         /\ fault' = "none"
<1>1. PICK m, f, l, c : \E n \in Nat : Now(m, f, l, n, c) /\ Reads(Data(m, n, c))
  BY Before
<1>2. PICK n \in Nat : Now(m, f, l, n, c) /\ Reads(Data(m, n, c))
  BY <1>1
<1>3. Return(m, f, l, n, code, NoElem)
  BY <1>2 DEF NoChange, Now
<1>4. /\ ListInv' /\ fault' = "none" /\ rc' = code /\ out' = NoElem
      /\ Forward' = Data(m, n, c) /\ Backward' = Data(m, n, c)
  BY <1>2, <1>3, Returned DEF Now
<1> QED
  BY <1>2, <1>4 DEF Reads

\* Only clients that pop, and use the list otherwise too, run into a fault.
LEMMA Stopped ==
  ASSUME ListInv, NEW kind \in {"memory", "assert"}, Stop(kind), ~NeverPops, ~IsQueue
  PROVE  ListInv' /\ fault' # "none"
<1>1. fault' = kind /\ UNCHANGED <<calls, mem, first, last, count, rc, out>>
  BY DEF Stop
<1>2. TypeOK' /\ Typed(mem)'
  BY <1>1 DEF ListInv, TypeOK, Typed
<1> QED
  BY <1>1, <1>2 DEF ListInv, NeverPops, IsQueue

\* The assertion at the end of a call fails.
LEMMA Asserted ==
  ASSUME calls \in Clients, NEW m, Typed(m), NEW f \in Pointer, NEW l \in Pointer, NEW n \in Nat,
         NEW code \in {-1, 0, 1}, NEW o \in Elem \cup {NoElem}, Return(m, f, l, n, code, o),
         ~ListInvariant(f, l, n), ~NeverPops, ~IsQueue
  PROVE  ListInv' /\ fault' # "none"
<1>1. /\ mem' = m /\ first' = f /\ last' = l /\ count' = n /\ rc' = code /\ out' = o /\ calls' = calls
      /\ fault' = "assert"
  BY DEF Return
<1>2. TypeOK' /\ Typed(mem)'
  BY <1>1, NodeFields DEF TypeOK, Typed, Pointer
<1> QED
  BY <1>1, <1>2 DEF ListInv, NeverPops, IsQueue

-----------------------------------------------------------------------------
(* The calls.                                                              *)

\* After a call that joins a node, both ways of reading the list find its
\* element at i.
LEMMA JoinedReturns ==
  ASSUME calls \in Clients, NEW m, NEW f, NEW l, NEW c, NEW n \in Nat, Typed(m),
         Row(m, f, l, n, c), NEW M, NEW a, NEW v, NEW i \in 0 .. n, Joined(m, M, n, c, i, a, v),
         NEW F, NEW L, F = IF i = 0 THEN a ELSE c[0], L = IF i = n THEN a ELSE c[n - 1],
         Ends(M, F, L, n + 1), Return(M, F, L, n + 1, 1, NoElem)
  PROVE  /\ ListInv' /\ fault' = "none" /\ rc' = 1 /\ out' = NoElem
         /\ Forward' = With(Data(m, n, c), i, v) /\ Backward' = With(Data(m, n, c), i, v)
<1>1. Row(M, F, L, n + 1, Squeezed(c, n, i, a))
  BY InsertRow
<1>2. Data(M, n + 1, Squeezed(c, n, i, a)) = With(Data(m, n, c), i, v)
  BY InsertData
<1>3. n + 1 \in Nat /\ 1 \in {-1, 0, 1} /\ NoElem \in Elem \cup {NoElem} /\ Typed(M)
  BY DEF Joined
<1> QED
  BY <1>1, <1>2, <1>3, Returned

\* After one that takes a node out they do not find its element.
LEMMA PartedReturns ==
  ASSUME calls \in Clients, NEW m, NEW f, NEW l, NEW c, NEW n \in Nat, Typed(m),
         Row(m, f, l, n, c), NEW M, NEW i \in 0 .. n - 1, Parted(m, M, n, c, i), NEW F, NEW L,
         F = IF n = 1 THEN NULL ELSE IF i = 0 THEN c[1] ELSE c[0],
         L = IF n = 1 THEN NULL ELSE IF i = n - 1 THEN c[n - 2] ELSE c[n - 1],
         NEW o \in Elem \cup {NoElem}, Ends(M, F, L, n - 1), Return(M, F, L, n - 1, 1, o)
  PROVE  /\ ListInv' /\ fault' = "none" /\ rc' = 1 /\ out' = o
         /\ Forward' = Without(Data(m, n, c), i) /\ Backward' = Without(Data(m, n, c), i)
<1>1. Row(M, F, L, n - 1, Closed(c, n, i))
  BY RemoveRow
<1>2. Data(M, n - 1, Closed(c, n, i)) = Without(Data(m, n, c), i)
  BY RemoveData
<1>3. n - 1 \in Nat /\ 1 \in {-1, 0, 1} /\ Typed(M)
  BY DEF Parted
<1> QED
  BY <1>1, <1>2, <1>3, Returned

\* list_insert at index 0 puts the element before all others.
LEMMA InsertFrontKeeps ==
  ASSUME NEW m, NEW f, NEW l, NEW c, NEW n \in Nat, Now(m, f, l, n, c),
         NEW a \in Addr \ DOMAIN m, NEW v \in Elem, InsertFront(a, v)
  PROVE  /\ ListInv' /\ fault' = "none" /\ rc' = 1 /\ out' = NoElem
         /\ Forward' = With(Data(m, n, c), 0, v) /\ Backward' = With(Data(m, n, c), 0, v)
<1> DEFINE m1 == Alloc(m, a, v)
           m2 == IF f # NULL THEN SetPrev(m1, f, a) ELSE m1
           M == SetNext(m2, a, f)
           L == IF n = 0 THEN a ELSE l
<1>0. /\ m = mem /\ f = first /\ l = last /\ n = count /\ calls \in Clients
      /\ Typed(m) /\ Row(m, f, l, n, c) /\ Ends(m, f, l, n)
  BY DEF Now
<1>1. /\ Typed(m1) /\ a \in Pointer /\ \A x : x \in DOMAIN m1 <=> x \in DOMAIN m \/ x = a
      /\ m1[a].prev = NULL /\ m1[a].next = NULL /\ m1[a].data = v
      /\ \A x \in DOMAIN m : m1[x] = m[x]
  BY <1>0, AllocFields
<1>2. /\ n = 0 => f = NULL /\ l = NULL /\ \A x : x \notin DOMAIN m
      /\ n > 0 => /\ f = c[0] /\ f \in DOMAIN m /\ f # NULL
                  /\ l = c[n - 1] /\ l \in DOMAIN m /\ l # NULL
      /\ f \in Pointer /\ l \in Pointer
  BY <1>0, RowEnds
<1>3. Return(M, a, L, n + 1, 1, NoElem)
  <2>1. ~(f # NULL /\ f \notin DOMAIN m1)
    BY <1>1, <1>2
  <2> QED
    BY <1>0, <2>1 DEF InsertFront
<1> HIDE DEF m1
<1>4. /\ Typed(m2) /\ DOMAIN m2 = DOMAIN m1
      /\ \A x \in DOMAIN m1 : /\ m2[x].next = m1[x].next /\ m2[x].data = m1[x].data
                              /\ m2[x].prev = IF x = f /\ f # NULL THEN a ELSE m1[x].prev
  <2>1. CASE f = NULL
    BY <1>1, <2>1
  <2>2. CASE f # NULL
    <3>1. f \in DOMAIN m1
      BY <1>1, <1>2, <2>2
    <3> QED
      BY <1>1, <2>2, <3>1, SetPrevFields
  <2> QED
    BY <2>1, <2>2
<1> HIDE DEF m2
<1>5. /\ Typed(M) /\ DOMAIN M = DOMAIN m2
      /\ \A x \in DOMAIN m2 : /\ M[x].prev = m2[x].prev /\ M[x].data = m2[x].data
                              /\ M[x].next = IF x = a THEN f ELSE m2[x].next
  <2>1. a \in DOMAIN m2
    BY <1>1, <1>4
  <2> QED
    BY <1>2, <1>4, <2>1, SetNextFields
<1> HIDE DEF M
<1>6. /\ \A x : x \in DOMAIN M <=> x \in DOMAIN m \/ x = a
      /\ \A x \in DOMAIN m : /\ M[x].next = m[x].next /\ M[x].data = m[x].data
                             /\ x # f => M[x].prev = m[x].prev
      /\ f # NULL => M[f].prev = a
      /\ M[a].next = f /\ M[a].prev = NULL /\ M[a].data = v
  <2>1. a # f
    BY <1>0, <1>2, NoNodeAtNull, NodeMemoryAssumption
  <2> QED
    BY <1>1, <1>2, <1>4, <1>5, <2>1
<1>7. Joined(m, M, n, c, 0, a, v)
  <2>1. \A k \in 0 .. n - 1 : c[k] \in DOMAIN m /\ (k # 0 => c[k] # f)
    BY <1>0, <1>2 DEF Row
  <2>2. 0 < n => M[c[0]].prev = a /\ M[a].next = c[0]
    BY <1>2, <1>6
  <2> QED
    BY <1>5, <1>6, <2>1, <2>2 DEF Joined
<1>8. Ends(M, a, L, n + 1)
  <2>1. n > 0 => L = l /\ M[l].next = m[l].next
    BY <1>2, <1>6
  <2>2. n = 0 => L = a /\ M[a].next = NULL
    BY <1>2, <1>6
  <2> QED
    BY <1>0, <1>6, <2>1, <2>2 DEF Ends
<1>9. 0 \in 0 .. n /\ (L = IF 0 = n THEN a ELSE c[n - 1]) /\ a = IF 0 = 0 THEN a ELSE c[0]
  BY <1>2
<1> HIDE DEF L
<1> QED
  BY <1>0, <1>3, <1>7, <1>8, <1>9, JoinedReturns

\* Steps along next that are the same in both memories lead to the same nodes.
LEMMA RunsOn ==
  ASSUME NEW m, NEW M, NEW p, NEW c, NEW e, NEW n \in Nat, Runs(NextOf(m), p, c, n, e),
         \A x \in DOMAIN m : x \in DOMAIN M /\ M[x].next = m[x].next
  PROVE  Runs(NextOf(M), p, c, n, e)
BY DEF Runs, NextOf

\* Two different nodes of a list have different addresses.
LEMMA RowDiffers ==
  ASSUME NEW m, NEW f, NEW l, NEW c, NEW n \in Nat, Row(m, f, l, n, c), NEW i \in 0 .. n - 1
  PROVE  /\ c[i] \in DOMAIN m
         /\ \A k \in 0 .. n - 1 : c[k] \in DOMAIN m /\ (c[k] = c[i] => k = i)
BY DEF Row

\* The links between two neighbors
LEMMA RowLinks ==
  ASSUME NEW m, NEW f, NEW l, NEW c, NEW n \in Nat, Row(m, f, l, n, c), NEW i \in 0 .. n - 2
  PROVE  m[c[i]].next = c[i + 1] /\ m[c[i + 1]].prev = c[i]
BY DEF Row

\* list_insert at a later index links the new node in before the one found there.
LEMMA InsertLaterKeeps ==
  ASSUME NEW m, NEW f, NEW l, NEW c, NEW n \in Nat, Now(m, f, l, n, c),
         NEW a \in Addr \ DOMAIN m, NEW v \in Elem, NEW i \in 1 .. n - 1, InsertLater(a, i, v)
  PROVE  /\ ListInv' /\ fault' = "none" /\ rc' = 1 /\ out' = NoElem
         /\ Forward' = With(Data(m, n, c), i, v) /\ Backward' = With(Data(m, n, c), i, v)
<1> DEFINE m1 == Alloc(m, a, v)
           q == c[i]
           p == c[i - 1]
           m2 == SetNext(m1, p, a)
           m3 == SetPrev(m2, a, p)
           m4 == SetPrev(m3, q, a)
           M == SetNext(m4, a, q)
<1>0. /\ m = mem /\ f = first /\ l = last /\ n = count /\ calls \in Clients
      /\ Typed(m) /\ Row(m, f, l, n, c) /\ Ends(m, f, l, n)
  BY DEF Now
<1>1. /\ Typed(m1) /\ a \in Pointer /\ \A x : x \in DOMAIN m1 <=> x \in DOMAIN m \/ x = a
      /\ m1[a].prev = NULL /\ m1[a].next = NULL /\ m1[a].data = v
      /\ \A x \in DOMAIN m : m1[x] = m[x]
  BY <1>0, AllocFields
<1>2. /\ i - 1 \in 0 .. n - 1 /\ i \in 0 .. n - 1 /\ i - 1 \in 0 .. n - 2 /\ (i - 1) + 1 = i
      /\ i \in 0 .. n /\ i # 0 /\ i # n /\ n > 0 /\ i - 1 # i
  OBVIOUS
<1>3. /\ p \in DOMAIN m /\ q \in DOMAIN m /\ p # q
      /\ \A k \in 0 .. n - 1 : c[k] \in DOMAIN m /\ (c[k] = p => k = i - 1) /\ (c[k] = q => k = i)
  BY <1>0, <1>2, RowDiffers
<1>4. m[q].prev = p
  BY <1>0, <1>2, RowLinks
<1>5. f = c[0] /\ f \in DOMAIN m /\ l = c[n - 1] /\ l \in DOMAIN m
  BY <1>0, <1>2, RowEnds
<1>6. Walk(m1, f, i) = q
  <2>1. PICK e : Runs(NextOf(m), f, c, n, e)
    BY <1>0, RowRuns
  <2>2. Runs(NextOf(m1), f, c, n, e)
    BY <1>1, <2>1, RunsOn
  <2> QED
    BY <1>2, <2>2, WalkRuns
<1>7. q # NULL /\ p \in Pointer /\ q \in Pointer
  BY <1>0, <1>3, NoNodeAtNull, NodeFields
<1>8. Return(M, f, l, n + 1, 1, NoElem)
  <2>1. m1[q].prev = p /\ p \in DOMAIN m1
    BY <1>1, <1>3, <1>4
  <2> HIDE DEF m1, p, q
  <2> QED
    BY <1>0, <1>6, <1>7, <2>1 DEF InsertLater, m1
<1> HIDE DEF m1, p, q
<1>9. a \in DOMAIN m1 /\ p \in DOMAIN m1 /\ q \in DOMAIN m1 /\ a # p /\ a # q /\ a \notin DOMAIN m
  BY <1>1, <1>3
<1>10. /\ Typed(m2) /\ DOMAIN m2 = DOMAIN m1
       /\ \A x \in DOMAIN m1 : /\ m2[x].prev = m1[x].prev /\ m2[x].data = m1[x].data
                               /\ m2[x].next = IF x = p THEN a ELSE m1[x].next
  BY <1>1, <1>9, SetNextFields
<1> HIDE DEF m2
<1>11. /\ Typed(m3) /\ DOMAIN m3 = DOMAIN m2
       /\ \A x \in DOMAIN m2 : /\ m3[x].next = m2[x].next /\ m3[x].data = m2[x].data
                               /\ m3[x].prev = IF x = a THEN p ELSE m2[x].prev
  BY <1>7, <1>9, <1>10, SetPrevFields
<1> HIDE DEF m3
<1>12. /\ Typed(m4) /\ DOMAIN m4 = DOMAIN m3
       /\ \A x \in DOMAIN m3 : /\ m4[x].next = m3[x].next /\ m4[x].data = m3[x].data
                               /\ m4[x].prev = IF x = q THEN a ELSE m3[x].prev
  <2>1. q \in DOMAIN m3
    BY <1>9, <1>10, <1>11
  <2> QED
    BY <1>1, <1>11, <2>1, SetPrevFields
<1> HIDE DEF m4
<1>13. /\ Typed(M) /\ DOMAIN M = DOMAIN m4
       /\ \A x \in DOMAIN m4 : /\ M[x].prev = m4[x].prev /\ M[x].data = m4[x].data
                               /\ M[x].next = IF x = a THEN q ELSE m4[x].next
  BY <1>7, <1>9, <1>10, <1>11, <1>12, SetNextFields
<1> HIDE DEF M
<1>14. /\ DOMAIN M = DOMAIN m1
       /\ \A x \in DOMAIN m1 : /\ M[x].next = IF x = a THEN q ELSE IF x = p THEN a ELSE m1[x].next
                               /\ M[x].prev = IF x = q THEN a ELSE IF x = a THEN p ELSE m1[x].prev
                               /\ M[x].data = m1[x].data
  BY <1>10, <1>11, <1>12, <1>13
<1>15. /\ \A x : x \in DOMAIN M <=> x \in DOMAIN m \/ x = a
       /\ M[a].next = q /\ M[a].prev = p /\ M[a].data = v
       /\ \A x \in DOMAIN m : /\ x # a /\ M[x].data = m[x].data
                              /\ M[x].next = IF x = p THEN a ELSE m[x].next
                              /\ M[x].prev = IF x = q THEN a ELSE m[x].prev
  BY <1>1, <1>9, <1>14
<1>16. Joined(m, M, n, c, i, a, v)
  <2>1. /\ \A k \in 0 .. n - 1 : k # i - 1 => M[c[k]].next = m[c[k]].next
        /\ \A k \in 0 .. n - 1 : k # i => M[c[k]].prev = m[c[k]].prev
    BY <1>3, <1>15
  <2>2. M[c[i - 1]].next = a /\ M[a].prev = c[i - 1] /\ M[c[i]].prev = a /\ M[a].next = c[i]
    BY <1>3, <1>15 DEF p, q
  <2> QED
    BY <1>9, <1>13, <1>15, <2>1, <2>2 DEF Joined
<1>17. Ends(M, f, l, n + 1)
  <2>1. f # q /\ l # p
    <3>1. 0 \in 0 .. n - 1 /\ n - 1 \in 0 .. n - 1 /\ 0 # i /\ n - 1 # i - 1
      OBVIOUS
    <3> QED
      BY <1>3, <1>5, <3>1
  <2>2. M[f].prev = m[f].prev /\ M[l].next = m[l].next
    BY <1>5, <1>15, <2>1
  <2> QED
    BY <1>0, <1>2, <2>2 DEF Ends
<1>18. (f = IF i = 0 THEN a ELSE c[0]) /\ l = IF i = n THEN a ELSE c[n - 1]
  BY <1>2, <1>5
<1> QED
  BY <1>0, <1>2, <1>8, <1>16, <1>17, <1>18, JoinedReturns

\* list_push_back puts the element behind all others.
LEMMA PushBackKeeps ==
  ASSUME NEW m, NEW f, NEW l, NEW c, NEW n \in Nat, Now(m, f, l, n, c),
         NEW a \in Addr \ DOMAIN m, NEW v \in Elem,
         LET m1 == Alloc(m, a, v)
         IN  IF n = 0 THEN Return(m1, a, a, 1, 1, NoElem)
             ELSE Return(SetPrev(SetNext(m1, l, a), a, l), f, a, n + 1, 1, NoElem)
  PROVE  /\ ListInv' /\ fault' = "none" /\ rc' = 1 /\ out' = NoElem
         /\ Forward' = With(Data(m, n, c), n, v) /\ Backward' = With(Data(m, n, c), n, v)
<1> DEFINE m1 == Alloc(m, a, v)
           m2 == SetNext(m1, l, a)
           M == SetPrev(m2, a, l)
<1>0. /\ m = mem /\ f = first /\ l = last /\ n = count /\ calls \in Clients
      /\ Typed(m) /\ Row(m, f, l, n, c) /\ Ends(m, f, l, n)
  BY DEF Now
<1>1. /\ Typed(m1) /\ a \in Pointer /\ \A x : x \in DOMAIN m1 <=> x \in DOMAIN m \/ x = a
      /\ m1[a].prev = NULL /\ m1[a].next = NULL /\ m1[a].data = v
      /\ \A x \in DOMAIN m : m1[x] = m[x]
  BY <1>0, AllocFields
<1>2. CASE n = 0
  <2>1. Return(m1, a, a, n + 1, 1, NoElem)
    BY <1>2
  <2> HIDE DEF m1
  <2>2. \A k \in 0 .. n - 1 : FALSE
    BY <1>2
  <2>3. Joined(m, m1, n, c, n, a, v)
    BY <1>1, <1>2, <2>2 DEF Joined
  <2>4. Ends(m1, a, a, n + 1)
    BY <1>1 DEF Ends
  <2>5. n \in 0 .. n /\ (a = IF n = 0 THEN a ELSE c[0]) /\ a = IF n = n THEN a ELSE c[n - 1]
    BY <1>2
  <2> QED
    BY <1>0, <2>1, <2>3, <2>4, <2>5, JoinedReturns
<1>3. CASE n # 0
  <2>1. Return(M, f, a, n + 1, 1, NoElem)
    BY <1>3
  <2> HIDE DEF m1
  <2>2. n - 1 \in 0 .. n - 1 /\ n > 0 /\ n \in 0 .. n
    BY <1>3
  <2>3. /\ f = c[0] /\ f \in DOMAIN m /\ l = c[n - 1] /\ l \in DOMAIN m /\ l \in Pointer
        /\ \A k \in 0 .. n - 1 : c[k] \in DOMAIN m /\ (c[k] = l => k = n - 1)
    BY <1>0, <2>2, RowEnds, RowDiffers
  <2>4. a \in DOMAIN m1 /\ l \in DOMAIN m1 /\ a # l /\ a \notin DOMAIN m
    BY <1>1, <2>3
  <2>5. /\ Typed(m2) /\ DOMAIN m2 = DOMAIN m1
        /\ \A x \in DOMAIN m1 : /\ m2[x].prev = m1[x].prev /\ m2[x].data = m1[x].data
                                /\ m2[x].next = IF x = l THEN a ELSE m1[x].next
    BY <1>1, <2>4, SetNextFields
  <2> HIDE DEF m2
  <2>6. /\ Typed(M) /\ DOMAIN M = DOMAIN m2
        /\ \A x \in DOMAIN m2 : /\ M[x].next = m2[x].next /\ M[x].data = m2[x].data
                                /\ M[x].prev = IF x = a THEN l ELSE m2[x].prev
    BY <2>3, <2>4, <2>5, SetPrevFields
  <2> HIDE DEF M
  <2>7. /\ \A x : x \in DOMAIN M <=> x \in DOMAIN m \/ x = a
        /\ M[a].next = NULL /\ M[a].prev = l /\ M[a].data = v
        /\ \A x \in DOMAIN m : /\ x # a /\ M[x].data = m[x].data /\ M[x].prev = m[x].prev
                               /\ M[x].next = IF x = l THEN a ELSE m[x].next
    BY <1>1, <2>4, <2>5, <2>6
  <2>8. Joined(m, M, n, c, n, a, v)
    <3>1. /\ \A k \in 0 .. n - 1 : k # n - 1 => M[c[k]].next = m[c[k]].next
          /\ \A k \in 0 .. n - 1 : M[c[k]].prev = m[c[k]].prev
      BY <2>3, <2>7
    <3>2. M[c[n - 1]].next = a /\ M[a].prev = c[n - 1] /\ ~(n < n)
      BY <2>3, <2>7
    <3> QED
      BY <2>4, <2>6, <2>7, <3>1, <3>2 DEF Joined
  <2>9. Ends(M, f, a, n + 1)
    BY <1>0, <2>2, <2>3, <2>7 DEF Ends
  <2>10. (f = IF n = 0 THEN a ELSE c[0]) /\ a = IF n = n THEN a ELSE c[n - 1]
    BY <1>3, <2>3
  <2> QED
    BY <1>0, <2>1, <2>2, <2>8, <2>9, <2>10, JoinedReturns
<1> QED
  BY <1>2, <1>3

\* What a call that inserts leaves behind is what is promised of it.
LEMMA InsertPromised ==
  ASSUME NEW s \in Seq(Elem), Reads(s), NEW i \in 0 .. Len(s), NEW v \in Elem,
         i < Len(s) \/ i = 0, rc' = 1, out' = NoElem,
         Forward' = With(s, i, v), Backward' = With(s, i, v)
  PROVE  Sequence!Insert(i, v) /\ Queue!Insert(i, v)
<1>1. With(s, i, v) = SubSeq(s, 1, i) \o <<v>> \o SubSeq(s, i + 1, Len(s))
  BY WithIsBetween
<1> QED
  BY <1>1 DEF Reads, Sequence!Insert, Queue!Insert, Sequence!Returns, Queue!Returns,
              Sequence!InRange, Queue!InRange

\* A call that returns -1 and changes nothing has failed as is promised.
LEMMA Failed ==
  ASSUME ListInv, fault = "none", NoChange(-1)
  PROVE  ListInv' /\ fault' = "none" /\ Sequence!Fail /\ Queue!Fail
<1>1. -1 \in {-1, 0, 1}
  OBVIOUS
<1>2. /\ ListInv' /\ Forward' = Forward /\ Backward' = Backward /\ rc' = -1 /\ out' = NoElem
      /\ fault' = "none"
  BY <1>1, Unchanged
<1> QED
  BY <1>2 DEF Sequence!Fail, Queue!Fail, Sequence!Returns, Queue!Returns

\* list_insert
LEMMA InsertKeeps ==
  ASSUME ListInv, NEW i \in Index, NEW v \in Elem, Insert(i, v)
  PROVE  ListInv' /\ fault' = "none" /\ Sequence!Insert(i, v) /\ Queue!Insert(i, v)
<1>1. fault = "none" /\ count \in Nat
  BY DEF Insert, Allowed, ListInv, TypeOK
<1>2. PICK m, f, l, c : \E n \in Nat : /\ Now(m, f, l, n, c) /\ Reads(Data(m, n, c))
                                       /\ Data(m, n, c) \in Seq(Elem) /\ Len(Data(m, n, c)) = n
  BY <1>1, Before
<1>3. PICK n \in Nat : /\ Now(m, f, l, n, c) /\ Reads(Data(m, n, c))
                       /\ Data(m, n, c) \in Seq(Elem) /\ Len(Data(m, n, c)) = n
  BY <1>2
<1> DEFINE s == Data(m, n, c)
<1>4. m = mem /\ n = count
  BY <1>3 DEF Now
<1>5. CASE NoChange(-1)
  BY <1>1, <1>5, Failed DEF Sequence!Insert, Queue!Insert
<1>6. CASE (i < count \/ i = 0) /\ \E a \in Addr \ DOMAIN mem :
                                    IF i = 0 THEN InsertFront(a, v) ELSE InsertLater(a, i, v)
  <2>1. PICK a \in Addr \ DOMAIN m : IF i = 0 THEN InsertFront(a, v) ELSE InsertLater(a, i, v)
    BY <1>4, <1>6
  <2>2. i \in 0 .. n /\ (i < n \/ i = 0) /\ (i # 0 => i \in 1 .. n - 1)
    BY <1>1, <1>4, <1>6 DEF Index
  <2>3. ListInv' /\ fault' = "none" /\ rc' = 1 /\ out' = NoElem /\ Forward' = With(s, i, v) /\ Backward' = With(s, i, v)
    <3>1. CASE i = 0
      BY <1>3, <2>1, <3>1, InsertFrontKeeps
    <3>2. CASE i # 0
      BY <1>3, <2>1, <2>2, <3>2, InsertLaterKeeps
    <3> QED
      BY <3>1, <3>2
  <2> HIDE DEF s
  <2>4. Sequence!Insert(i, v) /\ Queue!Insert(i, v)
    BY <1>3, <2>2, <2>3, InsertPromised DEF s
  <2> QED
    BY <2>3, <2>4
<1> QED
  BY <1>5, <1>6 DEF Insert

\* list_push_back
LEMMA AppendKeeps ==
  ASSUME ListInv, NEW v \in Elem, PushBack(v)
  PROVE  ListInv' /\ fault' = "none" /\ Sequence!PushBack(v)
<1>1. fault = "none"
  BY DEF PushBack, Allowed
<1>2. PICK m, f, l, c : \E n \in Nat : /\ Now(m, f, l, n, c) /\ Reads(Data(m, n, c))
                                       /\ Data(m, n, c) \in Seq(Elem) /\ Len(Data(m, n, c)) = n
  BY <1>1, Before
<1>3. PICK n \in Nat : /\ Now(m, f, l, n, c) /\ Reads(Data(m, n, c))
                       /\ Data(m, n, c) \in Seq(Elem) /\ Len(Data(m, n, c)) = n
  BY <1>2
<1> DEFINE s == Data(m, n, c)
<1>4. m = mem /\ n = count /\ f = first /\ l = last
  BY <1>3 DEF Now
<1>5. CASE NoChange(-1)
  BY <1>1, <1>5, Failed DEF Sequence!PushBack
<1>6. CASE ~NoChange(-1)
  <2>1. PICK a \in Addr \ DOMAIN m :
          LET m1 == Alloc(m, a, v)
          IN  IF n = 0 THEN Return(m1, a, a, 1, 1, NoElem)
              ELSE IF l \notin DOMAIN m1 THEN Stop("memory")
              ELSE Return(SetPrev(SetNext(m1, l, a), a, l), f, a, n + 1, 1, NoElem)
    BY <1>4, <1>6 DEF PushBack
  <2>2. n # 0 => l \in DOMAIN Alloc(m, a, v)
    <3>1. Typed(m) /\ Row(m, f, l, n, c)
      BY <1>3 DEF Now
    <3>2. n > 0 => l \in DOMAIN m
      BY <3>1, RowEnds
    <3> QED
      BY <3>1, <3>2, AllocFields
  <2>3. LET m1 == Alloc(m, a, v)
        IN  IF n = 0 THEN Return(m1, a, a, 1, 1, NoElem)
            ELSE Return(SetPrev(SetNext(m1, l, a), a, l), f, a, n + 1, 1, NoElem)
    BY <2>1, <2>2
  <2>4. ListInv' /\ fault' = "none" /\ rc' = 1 /\ out' = NoElem /\ Forward' = With(s, n, v)
    BY <1>3, <2>3, PushBackKeeps
  <2>5. With(s, n, v) = Append(s, v)
    BY <1>3, WithIsAppend
  <2> HIDE DEF s
  <2>6. Forward = s
    BY <1>3 DEF Reads, s
  <2> QED
    BY <2>4, <2>5, <2>6 DEF Sequence!PushBack, Sequence!Returns
<1> QED
  BY <1>5, <1>6

\* list_remove at index 0.  If the only node has a next link, left by a pop,
\* the program ends by a fault.
LEMMA RemoveFirstKeeps ==
  ASSUME NEW m, NEW f, NEW l, NEW c, NEW n \in Nat, Now(m, f, l, n, c),
         n > 0, ListInv, ~IsQueue, RemoveFirst(f)
  PROVE  /\ ListInv'
         /\ fault' = "none" => rc' = 1 /\ out' = NoElem /\ Forward' = Without(Data(m, n, c), 0)
<1> DEFINE next == m[f].next
           m1 == SetPrev(m, next, NULL)
           M == FreeNode(m1, f)
<1>0. /\ m = mem /\ f = first /\ l = last /\ n = count /\ calls \in Clients
      /\ Typed(m) /\ Row(m, f, l, n, c) /\ Ends(m, f, l, n)
  BY DEF Now
<1>1. f = c[0] /\ f \in DOMAIN m /\ l = c[n - 1] /\ l \in DOMAIN m /\ l # NULL /\ l \in Pointer
  BY <1>0, RowEnds
<1>2. next \in Pointer /\ 0 \in 0 .. n - 1 /\ 1 \in {-1, 0, 1} /\ NoElem \in Elem \cup {NoElem}
      /\ NULL \in Pointer /\ n - 1 \in Nat
  BY <1>0, <1>1, NodeFields DEF Pointer
<1>3. CASE m[f].prev # NULL
  <2>1. Stop("assert") /\ ~NeverPops
    BY <1>0, <1>3 DEF RemoveFirst, Ends
  <2> QED
    BY <2>1, Stopped
<1>4. CASE m[f].prev = NULL /\ n = 1
  <2>1. f = l /\ \A x : x \in DOMAIN m <=> x = f
    <3>1. \A k \in 0 .. n - 1 : k = 0
      BY <1>4
    <3> QED
      BY <1>0, <1>1, <1>4, <3>1 DEF Row
  <2>2. CASE next = NULL
    <3>1. Return(FreeNode(m, f), NULL, NULL, n - 1, 1, NoElem)
      BY <1>0, <1>4, <2>2 DEF RemoveFirst
    <3>2. Typed(FreeNode(m, f)) /\ \A x : x \notin DOMAIN FreeNode(m, f)
      BY <1>0, <2>1, FreeFields
    <3>3. \A k \in 0 .. n - 1 : k = 0
      BY <1>4
    <3> DEFINE R == FreeNode(m, f)
    <3> HIDE DEF R
    <3>4. Parted(m, R, n, c, 0)
      BY <1>1, <2>1, <3>2, <3>3 DEF Parted, R
    <3>5. Ends(R, NULL, NULL, n - 1)
      BY <1>4 DEF Ends
    <3>6. /\ NULL = IF n = 1 THEN NULL ELSE IF 0 = 0 THEN c[1] ELSE c[0]
          /\ NULL = IF n = 1 THEN NULL ELSE IF 0 = n - 1 THEN c[n - 2] ELSE c[n - 1]
      BY <1>4
    <3>7. Return(R, NULL, NULL, n - 1, 1, NoElem)
      BY <3>1 DEF R
    <3> QED
      BY ZenonT(30), <1>0, <1>2, <3>4, <3>5, <3>6, <3>7, PartedReturns
  <2>3. CASE next # NULL /\ next \notin DOMAIN m
    <3>1. Stop("memory") /\ ~NeverPops
      BY <1>0, <1>4, <2>1, <2>3 DEF RemoveFirst, Ends
    <3> QED
      BY <3>1, Stopped
  <2>4. CASE next # NULL /\ next \in DOMAIN m
    <3>1. Return(M, next, l, n - 1, 1, NoElem) /\ ~NeverPops
      BY <1>0, <1>4, <2>1, <2>4 DEF RemoveFirst, Ends
    <3>2. Typed(m1)
      BY <1>0, <1>2, <2>4, SetPrevFields
    <3>3. Typed(M)
      BY <3>2, FreeFields
    <3>4. ~ListInvariant(next, l, n - 1)
      BY <1>4, <2>4 DEF ListInvariant
    <3> HIDE DEF M, next
    <3> QED
      BY <1>0, <1>1, <1>2, <3>1, <3>3, <3>4, Asserted
  <2> QED
    BY <2>2, <2>3, <2>4
<1>5. CASE m[f].prev = NULL /\ n # 1
  <2>1. n - 1 > 0 /\ 0 \in 0 .. n - 2 /\ 0 + 1 = 1 /\ 1 \in 0 .. n - 1 /\ n - 1 \in 0 .. n - 1 /\ n - 1 # 0
    BY <1>5
  <2>2. next = c[1]
    BY <1>0, <1>1, <2>1, RowLinks
  <2>3. /\ \A k \in 0 .. n - 1 : c[k] \in DOMAIN m /\ (c[k] = f => k = 0)
        /\ \A k \in 0 .. n - 1 : c[k] \in DOMAIN m /\ (c[k] = next => k = 1)
    BY <1>0, <1>1, <2>1, <2>2, RowDiffers
  <2>4. next \in DOMAIN m /\ next # NULL /\ next # f /\ l # f
    BY <1>0, <1>1, <2>1, <2>2, <2>3, NoNodeAtNull
  <2>5. Return(M, next, l, n - 1, 1, NoElem)
    BY <1>0, <1>5, <2>4 DEF RemoveFirst
  <2>6. /\ Typed(m1) /\ DOMAIN m1 = DOMAIN m
        /\ \A x \in DOMAIN m : /\ m1[x].next = m[x].next /\ m1[x].data = m[x].data
                               /\ m1[x].prev = IF x = next THEN NULL ELSE m[x].prev
    <3> HIDE DEF next
    <3> QED
      BY <1>0, <1>2, <2>4, SetPrevFields
  <2> HIDE DEF m1
  <2>7. /\ Typed(M) /\ \A x : x \in DOMAIN M <=> x \in DOMAIN m1 /\ x # f
        /\ \A x \in DOMAIN M : M[x] = m1[x]
    BY <2>6, FreeFields
  <2> HIDE DEF M, next
  <2>8. /\ \A x : x \in DOMAIN M <=> x \in DOMAIN m /\ x # f
        /\ \A x \in DOMAIN M : /\ M[x].next = m[x].next /\ M[x].data = m[x].data
                               /\ x # next => M[x].prev = m[x].prev
        /\ M[next].prev = NULL /\ M[l].next = m[l].next
    BY <1>1, <2>4, <2>6, <2>7
  <2>9. Parted(m, M, n, c, 0)
    <3>1. \A k \in 0 .. n - 1 : k # 0 => M[c[k]].next = m[c[k]].next
      BY <2>3, <2>8
    <3>2. \A k \in 0 .. n - 1 : k # 0 /\ k # 0 + 1 => M[c[k]].prev = m[c[k]].prev
      BY <2>1, <2>3, <2>8
    <3> QED
      BY <1>1, <2>7, <2>8, <3>1, <3>2 DEF Parted
  <2>10. Ends(M, next, l, n - 1)
    BY <1>0, <2>8 DEF Ends
  <2>11. /\ next = IF n = 1 THEN NULL ELSE IF 0 = 0 THEN c[1] ELSE c[0]
         /\ l = IF n = 1 THEN NULL ELSE IF 0 = n - 1 THEN c[n - 2] ELSE c[n - 1]
    BY <1>1, <1>5, <2>1, <2>2
  <2> QED
    BY ZenonT(30), <1>0, <1>2, <2>5, <2>9, <2>10, <2>11, PartedReturns
<1> QED
  BY <1>3, <1>4, <1>5

\* list_remove at the last index, of a list of two nodes or more
LEMMA RemoveLastKeeps ==
  ASSUME NEW m, NEW f, NEW l, NEW c, NEW n \in Nat, Now(m, f, l, n, c),
         n > 1, ListInv, ~IsQueue, RemoveLast(l)
  PROVE  /\ ListInv'
         /\ fault' = "none" => rc' = 1 /\ out' = NoElem /\ Forward' = Without(Data(m, n, c), n - 1)
<1> DEFINE prev == m[l].prev
           m1 == SetNext(m, prev, NULL)
           M == FreeNode(m1, l)
<1>0. /\ m = mem /\ f = first /\ l = last /\ n = count /\ calls \in Clients
      /\ Typed(m) /\ Row(m, f, l, n, c) /\ Ends(m, f, l, n)
  BY DEF Now
<1>1. f = c[0] /\ f \in DOMAIN m /\ l = c[n - 1] /\ l \in DOMAIN m /\ NULL \in Pointer
  BY <1>0, RowEnds DEF Pointer
<1>2. /\ n - 2 \in 0 .. n - 2 /\ (n - 2) + 1 = n - 1 /\ n - 2 \in 0 .. n - 1 /\ n - 1 \in 0 .. n - 1
      /\ n # 1 /\ n - 1 # 0 /\ n - 1 # n - 2 /\ 0 \in 0 .. n - 1 /\ (n - 1) - 1 = n - 2
      /\ n - 1 > 0 /\ n > 0 /\ ~(n - 1 < n - 1)
  OBVIOUS
<1>3. prev = c[n - 2]
  <2>1. m[c[(n - 2) + 1]].prev = c[n - 2]
    BY <1>0, <1>2, RowLinks
  <2> QED
    BY <1>1, <1>2, <2>1
<1>4. /\ \A k \in 0 .. n - 1 : c[k] \in DOMAIN m /\ (c[k] = l => k = n - 1)
      /\ \A k \in 0 .. n - 1 : c[k] \in DOMAIN m /\ (c[k] = prev => k = n - 2)
  BY <1>0, <1>1, <1>2, <1>3, RowDiffers
<1>5. prev \in DOMAIN m /\ prev # l /\ f # l
  BY <1>1, <1>2, <1>3, <1>4
<1>6. CASE m[l].next # NULL
  <2>1. Stop("assert") /\ ~NeverPops
    BY <1>0, <1>2, <1>6 DEF RemoveLast, Ends
  <2> QED
    BY <2>1, Stopped
<1>7. CASE m[l].next = NULL
  <2>1. Return(M, f, prev, n - 1, 1, NoElem)
    BY <1>0, <1>5, <1>7 DEF RemoveLast
  <2>2. /\ Typed(m1) /\ DOMAIN m1 = DOMAIN m
        /\ \A x \in DOMAIN m : /\ m1[x].prev = m[x].prev /\ m1[x].data = m[x].data
                               /\ m1[x].next = IF x = prev THEN NULL ELSE m[x].next
    <3> HIDE DEF prev
    <3> QED
      BY <1>0, <1>1, <1>5, SetNextFields
  <2> HIDE DEF m1
  <2>3. /\ Typed(M) /\ \A x : x \in DOMAIN M <=> x \in DOMAIN m1 /\ x # l
        /\ \A x \in DOMAIN M : M[x] = m1[x]
    BY <2>2, FreeFields
  <2> HIDE DEF M, prev
  <2>4. /\ \A x : x \in DOMAIN M <=> x \in DOMAIN m /\ x # l
        /\ \A x \in DOMAIN M : /\ M[x].prev = m[x].prev /\ M[x].data = m[x].data
                               /\ x # prev => M[x].next = m[x].next
        /\ M[prev].next = NULL /\ M[f].prev = m[f].prev
    BY <1>1, <1>5, <2>2, <2>3
  <2>5. Parted(m, M, n, c, n - 1)
    <3>1. \A k \in 0 .. n - 1 : k # n - 1 /\ k # (n - 1) - 1 => M[c[k]].next = m[c[k]].next
      BY <1>2, <1>4, <2>4
    <3>2. \A k \in 0 .. n - 1 : k # n - 1 => M[c[k]].prev = m[c[k]].prev
      BY <1>4, <2>4
    <3> QED
      BY <1>1, <1>2, <2>3, <2>4, <3>1, <3>2 DEF Parted
  <2>6. Ends(M, f, prev, n - 1)
    BY <1>0, <1>2, <2>4 DEF Ends
  <2>7. /\ f = IF n = 1 THEN NULL ELSE IF n - 1 = 0 THEN c[1] ELSE c[0]
        /\ prev = IF n = 1 THEN NULL ELSE IF n - 1 = n - 1 THEN c[n - 2] ELSE c[n - 1]
    BY <1>1, <1>2, <1>3
  <2>8. NoElem \in Elem \cup {NoElem}
    OBVIOUS
  <2> QED
    BY ZenonT(30), <1>0, <1>2, <2>1, <2>5, <2>6, <2>7, <2>8, PartedReturns
<1> QED
  BY <1>6, <1>7

\* list_remove of a node between two others
LEMMA RemoveMiddleKeeps ==
  ASSUME NEW m, NEW f, NEW l, NEW c, NEW n \in Nat, Now(m, f, l, n, c),
         NEW i \in 1 .. n - 2, RemoveMiddle(c[i])
  PROVE  /\ ListInv' /\ fault' = "none"
         /\ rc' = 1 /\ out' = NoElem /\ Forward' = Without(Data(m, n, c), i)
<1> DEFINE q == c[i]
           next == m[q].next
           prev == m[q].prev
           m1 == SetNext(m, prev, next)
           m2 == SetPrev(m1, next, prev)
           M == FreeNode(m2, q)
<1>0. /\ m = mem /\ f = first /\ l = last /\ n = count /\ calls \in Clients
      /\ Typed(m) /\ Row(m, f, l, n, c) /\ Ends(m, f, l, n)
  BY DEF Now
<1>1. /\ i - 1 \in 0 .. n - 2 /\ (i - 1) + 1 = i /\ i \in 0 .. n - 2 /\ i + 1 \in 0 .. n - 1
      /\ i \in 0 .. n - 1 /\ i - 1 \in 0 .. n - 1 /\ i - 1 # i /\ i + 1 # i /\ i - 1 # i + 1
      /\ n # 1 /\ i # 0 /\ i # n - 1 /\ n > 0 /\ n - 1 > 0 /\ 0 # i + 1 /\ n - 1 # i - 1
      /\ 0 \in 0 .. n - 1 /\ n - 1 \in 0 .. n - 1
  OBVIOUS
<1>2. f = c[0] /\ f \in DOMAIN m /\ l = c[n - 1] /\ l \in DOMAIN m
  BY <1>0, <1>1, RowEnds
<1>3. next = c[i + 1] /\ prev = c[i - 1]
  <2>1. m[c[i]].next = c[i + 1]
    BY <1>0, <1>1, RowLinks
  <2>2. m[c[(i - 1) + 1]].prev = c[i - 1]
    BY <1>0, <1>1, RowLinks
  <2> QED
    BY <1>1, <2>1, <2>2
<1>4. /\ \A k \in 0 .. n - 1 : c[k] \in DOMAIN m /\ (c[k] = q => k = i)
      /\ \A k \in 0 .. n - 1 : c[k] \in DOMAIN m /\ (c[k] = next => k = i + 1)
      /\ \A k \in 0 .. n - 1 : c[k] \in DOMAIN m /\ (c[k] = prev => k = i - 1)
  BY <1>0, <1>1, <1>3, RowDiffers
<1>5. /\ q \in DOMAIN m /\ next \in DOMAIN m /\ prev \in DOMAIN m
      /\ next # q /\ prev # q /\ next # prev /\ f # next /\ f # q /\ l # prev /\ l # q
  BY <1>1, <1>2, <1>3, <1>4
<1>6. next \in Pointer /\ prev \in Pointer
  BY <1>0, <1>5, NodeFields
<1>7. Return(M, f, l, n - 1, 1, NoElem)
  BY <1>0, <1>5 DEF RemoveMiddle
<1>8. /\ Typed(m1) /\ DOMAIN m1 = DOMAIN m
      /\ \A x \in DOMAIN m : /\ m1[x].prev = m[x].prev /\ m1[x].data = m[x].data
                             /\ m1[x].next = IF x = prev THEN next ELSE m[x].next
  <2>1. Typed(m) /\ prev \in DOMAIN m /\ next \in Pointer
    BY <1>0, <1>5, <1>6
  <2> HIDE DEF next, prev, q
  <2> QED
    BY <2>1, SetNextFields
<1> HIDE DEF m1
<1>9. /\ Typed(m2) /\ DOMAIN m2 = DOMAIN m1
      /\ \A x \in DOMAIN m1 : /\ m2[x].next = m1[x].next /\ m2[x].data = m1[x].data
                              /\ m2[x].prev = IF x = next THEN prev ELSE m1[x].prev
  <2>1. next \in DOMAIN m1
    BY <1>5, <1>8
  <2> HIDE DEF next, prev, q
  <2> QED
    BY <1>6, <1>8, <2>1, SetPrevFields
<1> HIDE DEF m2
<1>10. /\ Typed(M) /\ \A x : x \in DOMAIN M <=> x \in DOMAIN m2 /\ x # q
       /\ \A x \in DOMAIN M : M[x] = m2[x]
  BY <1>9, FreeFields
<1> HIDE DEF M, next, prev, q
<1>11. /\ \A x : x \in DOMAIN M <=> x \in DOMAIN m /\ x # q
       /\ \A x \in DOMAIN M : /\ M[x].data = m[x].data
                              /\ M[x].next = IF x = prev THEN next ELSE m[x].next
                              /\ M[x].prev = IF x = next THEN prev ELSE m[x].prev
  BY <1>8, <1>9, <1>10
<1>12. Parted(m, M, n, c, i)
  <2>1. \A k \in 0 .. n - 1 : k # i /\ k # i - 1 => M[c[k]].next = m[c[k]].next
    BY <1>4, <1>11
  <2>2. \A k \in 0 .. n - 1 : k # i /\ k # i + 1 => M[c[k]].prev = m[c[k]].prev
    BY <1>4, <1>11
  <2>3. M[c[i - 1]].next = c[i + 1] /\ M[c[i + 1]].prev = c[i - 1]
    BY <1>3, <1>5, <1>11
  <2> QED
    BY <1>10, <1>11, <2>1, <2>2, <2>3 DEF Parted, q
<1>13. Ends(M, f, l, n - 1)
  BY <1>0, <1>1, <1>2, <1>5, <1>11 DEF Ends
<1>14. /\ f = IF n = 1 THEN NULL ELSE IF i = 0 THEN c[1] ELSE c[0]
       /\ l = IF n = 1 THEN NULL ELSE IF i = n - 1 THEN c[n - 2] ELSE c[n - 1]
  BY <1>1, <1>2
<1>15. NoElem \in Elem \cup {NoElem}
  OBVIOUS
<1> QED
  BY <1>0, <1>1, <1>7, <1>12, <1>13, <1>14, <1>15, PartedReturns

\* list_remove
LEMMA RemoveKeeps ==
  ASSUME ListInv, NEW i \in Index, Remove(i)
  PROVE  ListInv' /\ (fault' = "none" => Sequence!Remove(i))
<1>1. fault = "none" /\ count \in Nat /\ ~IsQueue
  BY DEF Remove, Allowed, ListInv, TypeOK, IsQueue
<1>2. PICK m, f, l, c : \E n \in Nat : /\ Now(m, f, l, n, c) /\ Reads(Data(m, n, c))
                                       /\ Data(m, n, c) \in Seq(Elem) /\ Len(Data(m, n, c)) = n
  BY <1>1, Before
<1>3. PICK n \in Nat : /\ Now(m, f, l, n, c) /\ Reads(Data(m, n, c))
                       /\ Data(m, n, c) \in Seq(Elem) /\ Len(Data(m, n, c)) = n
  BY <1>2
<1> DEFINE s == Data(m, n, c)
<1>4. /\ m = mem /\ n = count /\ f = first /\ l = last
      /\ Typed(m) /\ Row(m, f, l, n, c)
  BY <1>3 DEF Now
<1>5. Forward = s /\ s \in Seq(Elem) /\ Len(s) = n
  BY <1>3 DEF Reads
<1>6. CASE i >= count
  <2>1. NoChange(-1)
    BY <1>6 DEF Remove
  <2>2. ~(i < n)
    BY <1>4, <1>6 DEF Index
  <2> HIDE DEF s
  <2> QED
    BY <1>1, <1>5, <2>1, <2>2, Failed DEF Sequence!Remove, Sequence!InRange
<1>7. CASE ~(i >= count)
  <2>1. i \in 0 .. n - 1 /\ n > 0 /\ i < n
    BY <1>4, <1>7 DEF Index
  <2>2. Walk(m, f, i) = c[i] /\ c[i] \in DOMAIN m /\ c[i] # NULL
    <3>1. PICK e : Runs(NextOf(m), f, c, n, e)
      BY <1>4, RowRuns
    <3> QED
      BY <1>4, <2>1, <3>1, WalkRuns, NoNodeAtNull
  <2>3. f = c[0] /\ l = c[n - 1]
    BY <1>4, <2>1, RowEnds
  <2>4. /\ ListInv'
        /\ fault' = "none" => rc' = 1 /\ out' = NoElem /\ Forward' = Without(s, i)
    <3>1. CASE i = 0
      <4>1. RemoveFirst(f)
        BY <1>4, <1>7, <2>2, <2>3, <3>1 DEF Remove
      <4> QED
        BY <1>1, <1>3, <2>1, <3>1, <4>1, RemoveFirstKeeps
    <3>2. CASE i # 0 /\ i = n - 1
      <4>1. RemoveLast(l) /\ n > 1
        BY <1>4, <1>7, <2>1, <2>2, <2>3, <3>2 DEF Remove
      <4> QED
        BY <1>1, <1>3, <3>2, <4>1, RemoveLastKeeps
    <3>3. CASE i # 0 /\ i # n - 1
      <4>1. RemoveMiddle(c[i])
        BY <1>4, <1>7, <2>2, <3>3 DEF Remove
      <4>2. i \in 1 .. n - 2
        BY <2>1, <3>3
      <4> QED
        BY <1>3, <4>1, <4>2, RemoveMiddleKeeps
    <3> QED
      BY <3>1, <3>2, <3>3
  <2>5. Without(s, i) = SubSeq(s, 1, i) \o SubSeq(s, i + 2, Len(s))
    BY <1>5, <2>1, WithoutIsAround
  <2> HIDE DEF s
  <2> QED
    BY <1>5, <2>1, <2>4, <2>5 DEF Sequence!Remove, Sequence!InRange, Sequence!Returns
<1> QED
  BY <1>6, <1>7

\* list_set
LEMMA SetKeeps ==
  ASSUME ListInv, NEW i \in Index, NEW v \in Elem, Set(i, v)
  PROVE  ListInv' /\ Sequence!Set(i, v)
<1>1. fault = "none" /\ count \in Nat
  BY DEF Set, Allowed, ListInv, TypeOK
<1>2. PICK m, f, l, c : \E n \in Nat : /\ Now(m, f, l, n, c) /\ Reads(Data(m, n, c))
                                       /\ Data(m, n, c) \in Seq(Elem) /\ Len(Data(m, n, c)) = n
  BY <1>1, Before
<1>3. PICK n \in Nat : /\ Now(m, f, l, n, c) /\ Reads(Data(m, n, c))
                       /\ Data(m, n, c) \in Seq(Elem) /\ Len(Data(m, n, c)) = n
  BY <1>2
<1> DEFINE s == Data(m, n, c)
<1>4. /\ m = mem /\ n = count /\ f = first /\ l = last /\ calls \in Clients
      /\ Typed(m) /\ Row(m, f, l, n, c) /\ Ends(m, f, l, n)
  BY <1>3 DEF Now
<1>5. Forward = s /\ s \in Seq(Elem) /\ Len(s) = n
  BY <1>3 DEF Reads
<1>6. CASE i >= count
  <2>1. NoChange(-1)
    BY <1>6 DEF Set
  <2>2. ~(i < n)
    BY <1>4, <1>6 DEF Index
  <2> HIDE DEF s
  <2> QED
    BY <1>1, <1>5, <2>1, <2>2, Failed DEF Sequence!Set, Sequence!InRange
<1>7. CASE ~(i >= count)
  <2>1. i \in 0 .. n - 1 /\ n > 0 /\ i < n /\ 0 \in {-1, 0, 1} /\ NoElem \in Elem \cup {NoElem}
    BY <1>4, <1>7 DEF Index
  <2>2. Walk(m, f, i) = c[i] /\ c[i] \in DOMAIN m /\ c[i] # NULL
    <3>1. PICK e : Runs(NextOf(m), f, c, n, e)
      BY <1>4, RowRuns
    <3> QED
      BY <1>4, <2>1, <3>1, WalkRuns, NoNodeAtNull
  <2> DEFINE q == c[i]
             M == [m EXCEPT ![q].data = v]
  <2>3. Return(M, f, l, n, 0, NoElem)
    BY <1>4, <1>7, <2>2 DEF Set
  <2>4. /\ Typed(M) /\ DOMAIN M = DOMAIN m
        /\ \A x \in DOMAIN m : /\ M[x].next = m[x].next /\ M[x].prev = m[x].prev
                               /\ M[x].data = IF x = q THEN v ELSE m[x].data
    <3> HIDE DEF q
    <3> QED
      BY <1>4, <2>2, SetDataFields DEF q
  <2> HIDE DEF M
  <2>5. Row(M, f, l, n, c) /\ Data(M, n, c) = [s EXCEPT ![i + 1] = v]
    <3>1. ElementSet(m, M, c, i, v)
      BY <2>4 DEF ElementSet
    <3> QED
      BY <1>4, <2>1, <3>1, SetRow
  <2>6. Ends(M, f, l, n)
    <3>1. f \in DOMAIN m /\ l \in DOMAIN m
      BY <1>4, <2>1, RowEnds
    <3> QED
      BY <1>4, <2>4, <3>1 DEF Ends
  <2>7. ListInv' /\ rc' = 0 /\ out' = NoElem /\ Forward' = Data(M, n, c)
    BY <1>4, <2>1, <2>3, <2>4, <2>5, <2>6, Returned
  <2> HIDE DEF s
  <2> QED
    BY <1>5, <2>1, <2>5, <2>7 DEF Sequence!Set, Sequence!InRange, Sequence!Returns
<1> QED
  BY <1>6, <1>7

\* list_pop_front.  If the only node has a next link, left by a pop at the
\* back, the assertion at the end of the call fails.
LEMMA PopFrontKeeps ==
  ASSUME ListInv, NEW keep \in BOOLEAN, PopFront(keep)
  PROVE  ListInv'
<1>1. fault = "none" /\ ~NeverPops /\ ~IsQueue
  BY DEF PopFront, Allowed, NeverPops, IsQueue
<1>2. PICK m, f, l, c : \E n \in Nat : Now(m, f, l, n, c)
  BY <1>1, Before
<1>3. PICK n \in Nat : Now(m, f, l, n, c)
  BY <1>2
<1>4. /\ m = mem /\ n = count /\ f = first /\ l = last /\ calls \in Clients
      /\ Typed(m) /\ Row(m, f, l, n, c)
  BY <1>3 DEF Now
<1>5. CASE n = 0
  <2>1. NoChange(0) /\ 0 \in {-1, 0, 1}
    BY <1>4, <1>5 DEF PopFront
  <2> QED
    BY <1>1, <2>1, Unchanged
<1>6. CASE n > 0
  <2> DEFINE next == m[f].next
             o == IF keep THEN m[f].data ELSE NoElem
             M == FreeNode(m, f)
             L == IF next # NULL THEN l ELSE NULL
  <2>1. f = c[0] /\ l = c[n - 1] /\ f \in DOMAIN m /\ l \in DOMAIN m /\ l # NULL /\ l \in Pointer
    BY <1>4, <1>6, RowEnds
  <2>2. Return(M, next, L, n - 1, 1, o)
    BY <1>4, <1>6, <2>1 DEF PopFront
  <2>3. next \in Pointer /\ o \in Elem \cup {NoElem} /\ L \in Pointer
    BY <1>4, <2>1, NodeFields DEF Pointer
  <2>4. n - 1 \in Nat /\ 0 \in 0 .. n - 1 /\ 1 \in {-1, 0, 1}
    BY <1>6
  <2>5. /\ Typed(M) /\ \A x : x \in DOMAIN M <=> x \in DOMAIN m /\ x # f
        /\ \A x \in DOMAIN M : M[x] = m[x]
    BY <1>4, FreeFields
  <2> HIDE DEF M, o
  <2>6. Parted(m, M, n, c, 0)
    <3>1. \A k \in 0 .. n - 1 : k # 0 => c[k] \in DOMAIN M
      BY <1>4, <2>1, <2>4, <2>5, RowDiffers
    <3> QED
      BY <2>1, <2>5, <3>1 DEF Parted
  <2>7. Ends(M, next, L, n - 1)
    BY <1>1 DEF Ends
  <2>8. CASE n = 1 /\ next # NULL
    <3>1. ~ListInvariant(next, L, n - 1)
      BY <2>8 DEF ListInvariant
    <3> HIDE DEF next, L
    <3> QED
      BY <1>1, <1>4, <2>2, <2>3, <2>4, <2>5, <3>1, Asserted
  <2>9. CASE n = 1 => next = NULL
    <3>1. n # 1 => next = c[1] /\ next # NULL
      <4>1. ASSUME n # 1 PROVE 0 \in 0 .. n - 2 /\ 0 + 1 = 1 /\ 1 \in 0 .. n - 1
        BY <1>6, <4>1
      <4>2. ASSUME n # 1 PROVE next = c[1] /\ c[1] \in DOMAIN m
        BY <1>4, <2>1, <4>1, <4>2, RowLinks, RowDiffers
      <4> HIDE DEF next
      <4> QED
        BY <1>4, <4>2, NoNodeAtNull
    <3>2. n # 1 => 0 # n - 1
      BY <1>6
    <3>3. /\ next = IF n = 1 THEN NULL ELSE IF 0 = 0 THEN c[1] ELSE c[0]
          /\ L = IF n = 1 THEN NULL ELSE IF 0 = n - 1 THEN c[n - 2] ELSE c[n - 1]
      <4> HIDE DEF next
      <4> QED
        BY <2>1, <2>9, <3>1, <3>2
    <3> HIDE DEF next, L
    <3> QED
      BY <1>4, <2>2, <2>3, <2>4, <2>6, <2>7, <3>3, PartedReturns
  <2> QED
    BY <2>8, <2>9
<1> QED
  BY <1>4, <1>5, <1>6 DEF ListInv, TypeOK

\* list_pop_back, by which a queue is left without its last element
LEMMA PopBackKeeps ==
  ASSUME ListInv, NEW keep \in BOOLEAN, PopBack(keep)
  PROVE  ListInv' /\ (fault' = "none" => Queue!PopBack)
<1>1. fault = "none" /\ ~NeverPops
  BY DEF PopBack, Allowed, NeverPops
<1>2. PICK m, f, l, c : \E n \in Nat : /\ Now(m, f, l, n, c) /\ Reads(Data(m, n, c))
                                       /\ Data(m, n, c) \in Seq(Elem) /\ Len(Data(m, n, c)) = n
  BY <1>1, Before
<1>3. PICK n \in Nat : /\ Now(m, f, l, n, c) /\ Reads(Data(m, n, c))
                       /\ Data(m, n, c) \in Seq(Elem) /\ Len(Data(m, n, c)) = n
  BY <1>2
<1> DEFINE s == Data(m, n, c)
<1>4. /\ m = mem /\ n = count /\ f = first /\ l = last /\ calls \in Clients
      /\ Typed(m) /\ Row(m, f, l, n, c) /\ Ends(m, f, l, n)
  BY <1>3 DEF Now
<1>5. Backward = s /\ s \in Seq(Elem) /\ Len(s) = n
  BY <1>3 DEF Reads
<1>6. CASE n = 0
  <2>1. NoChange(0) /\ 0 \in {-1, 0, 1}
    BY <1>4, <1>6 DEF PopBack
  <2>2. ListInv' /\ Backward' = Backward /\ rc' = 0 /\ out' = NoElem
    BY <1>1, <2>1, Unchanged
  <2> HIDE DEF s
  <2>3. s = <<>>
    BY <1>5, <1>6
  <2> QED
    BY <1>5, <2>2, <2>3 DEF Queue!PopBack, Queue!Pop, Queue!Returns
<1>7. CASE n > 0
  <2> DEFINE prev == m[l].prev
             o == IF keep THEN m[l].data ELSE NoElem
             M == FreeNode(m, l)
             F == IF prev # NULL THEN f ELSE NULL
  <2>1. f = c[0] /\ l = c[n - 1] /\ f \in DOMAIN m /\ l \in DOMAIN m /\ f # NULL /\ f \in Pointer
    BY <1>4, <1>7, RowEnds
  <2>2. Return(M, F, prev, n - 1, 1, o)
    BY <1>4, <1>7, <2>1 DEF PopBack
  <2>3. prev \in Pointer /\ o \in Elem \cup {NoElem} /\ F \in Pointer
    BY <1>4, <2>1, NodeFields DEF Pointer
  <2>4. n - 1 \in Nat /\ n - 1 \in 0 .. n - 1 /\ 1 \in {-1, 0, 1}
    BY <1>7
  <2>5. /\ Typed(M) /\ \A x : x \in DOMAIN M <=> x \in DOMAIN m /\ x # l
        /\ \A x \in DOMAIN M : M[x] = m[x]
    BY <1>4, FreeFields
  <2>6. o \in {s[n], NoElem}
    <3>1. n \in 1 .. n
      BY <1>7
    <3> QED
      BY <2>1, <3>1 DEF Data
  <2> HIDE DEF M, o
  <2>7. Parted(m, M, n, c, n - 1)
    <3>1. \A k \in 0 .. n - 1 : k # n - 1 => c[k] \in DOMAIN M
      BY <1>4, <2>1, <2>4, <2>5, RowDiffers
    <3>2. ~(n - 1 < n - 1)
      BY <2>4
    <3> QED
      BY <2>1, <2>5, <3>1, <3>2 DEF Parted
  <2>8. n # 1 => prev = c[n - 2] /\ prev # NULL /\ f # l
    <3>1. ASSUME n # 1
          PROVE /\ n - 2 \in 0 .. n - 2 /\ (n - 2) + 1 = n - 1 /\ n - 2 \in 0 .. n - 1
                /\ 0 \in 0 .. n - 1 /\ n - 1 # 0
      BY <1>7, <3>1
    <3>2. ASSUME n # 1 PROVE m[c[(n - 2) + 1]].prev = c[n - 2]
      BY <1>4, <3>1, <3>2, RowLinks
    <3>3. ASSUME n # 1 PROVE prev = c[n - 2] /\ c[n - 2] \in DOMAIN m /\ f # l
      BY <1>4, <2>1, <2>4, <3>1, <3>2, <3>3, RowDiffers
    <3> HIDE DEF prev
    <3> QED
      BY <1>4, <3>3, NoNodeAtNull
  <2>9. Ends(M, F, prev, n - 1)
    <3>1. ASSUME n - 1 > 0, IsQueue PROVE M[F].prev = NULL
      <4>1. n # 1
        BY <3>1
      <4>2. F = f /\ f \in DOMAIN M
        BY <2>1, <2>5, <2>8, <4>1
      <4> QED
        BY <1>4, <1>7, <2>5, <3>1, <4>2 DEF Ends
    <3> QED
      BY <1>1, <3>1 DEF Ends
  <2>10. CASE n = 1 /\ prev # NULL
    <3>1. ~ListInvariant(F, prev, n - 1)
      BY <2>1, <2>10 DEF ListInvariant
    <3>2. ~IsQueue
      <4>1. f = l
        BY <2>1, <2>10
      <4> QED
        BY <1>4, <1>7, <2>10, <4>1 DEF Ends
    <3> HIDE DEF prev, F
    <3>3. ListInv' /\ fault' # "none"
      BY <1>1, <1>4, <2>2, <2>3, <2>4, <2>5, <3>1, <3>2, Asserted
    <3> QED
      BY <3>3
  <2>11. CASE n = 1 => prev = NULL
    <3>1. n # 1 => n - 1 # 0
      BY <1>7
    <3>2. /\ F = IF n = 1 THEN NULL ELSE IF n - 1 = 0 THEN c[1] ELSE c[0]
          /\ prev = IF n = 1 THEN NULL ELSE IF n - 1 = n - 1 THEN c[n - 2] ELSE c[n - 1]
      <4> HIDE DEF prev
      <4> QED
        BY <2>1, <2>8, <2>11, <3>1
    <3> HIDE DEF prev, F
    <3>3. ListInv' /\ rc' = 1 /\ out' = o /\ Backward' = Without(s, n - 1)
      BY <1>4, <2>2, <2>3, <2>4, <2>7, <2>9, <3>2, PartedReturns
    <3> HIDE DEF s
    <3>4. Without(s, n - 1) = SubSeq(s, 1, n - 1) /\ s # <<>>
      BY <1>5, <1>7, WithoutIsPrefix
    <3> QED
      BY <1>5, <2>6, <3>3, <3>4 DEF Queue!PopBack, Queue!Pop, Queue!Returns
  <2> QED
    BY <2>10, <2>11
<1> QED
  BY <1>4, <1>6, <1>7 DEF ListInv, TypeOK

\* list_clear.  A next link left by a pop at the back leads it astray.
LEMMA ClearKeeps ==
  ASSUME ListInv, Clear
  PROVE  ListInv' /\ (fault' = "none" => Sequence!Clear)
<1>1. fault = "none" /\ ~IsQueue
  BY DEF Clear, Allowed, IsQueue
<1>2. PICK m, f, l, c : \E n \in Nat : Now(m, f, l, n, c)
  BY <1>1, Before
<1>3. PICK n \in Nat : Now(m, f, l, n, c)
  BY <1>2
<1>4. /\ m = mem /\ n = count /\ f = first /\ l = last /\ calls \in Clients
      /\ Typed(m) /\ Row(m, f, l, n, c) /\ Ends(m, f, l, n)
  BY <1>3 DEF Now
<1> DEFINE e == IF n = 0 THEN NULL ELSE m[l].next
<1>5. /\ \A r \in FreeChain(m, f) : r = [x \in {} |-> NULL]
      /\ e = NULL => FreeChain(m, f) # {}
  <2>1. Runs(NextOf(m), f, c, n, e)
    BY <1>4, RowRuns
  <2> HIDE DEF e
  <2>2. NULL \notin DOMAIN m /\ Cardinality(DOMAIN m) = n
    BY <1>4, NoNodeAtNull, RowCardinality
  <2>3. \A a \in DOMAIN m : \E k \in 0 .. n - 1 : c[k] = a
    BY <1>4 DEF Row
  <2> QED
    BY <2>1, <2>2, <2>3, FreeRuns
<1>6. CASE \E r \in FreeChain(mem, first) : Return(r, NULL, NULL, 0, 0, NoElem)
  <2> DEFINE r == [x \in {} |-> NULL]
             d == [x \in {} |-> NULL]
  <2>1. Return(r, NULL, NULL, 0, 0, NoElem)
    BY <1>4, <1>5, <1>6
  <2>2. Typed(r)
    BY DEF Typed
  <2>3. Row(r, NULL, NULL, 0, d) /\ Data(r, 0, d) = <<>>
    <3>1. \A k \in 0 .. 0 - 1 : FALSE
      OBVIOUS
    <3>2. \A k \in 0 .. 0 - 2 : FALSE
      OBVIOUS
    <3>3. 0 .. 0 - 1 = {} /\ 1 .. 0 = {}
      OBVIOUS
    <3>4. Data(r, 0, d) = <<>>
      BY <3>3 DEF Data
    <3>5. d \in [0 .. 0 - 1 -> DOMAIN r] /\ \A a : a \notin DOMAIN r
      BY <3>3
    <3> HIDE DEF r, d
    <3> QED
      BY <3>1, <3>2, <3>4, <3>5 DEF Row
  <2>4. Ends(r, NULL, NULL, 0)
    BY DEF Ends
  <2>5. 0 \in Nat /\ 0 \in {-1, 0, 1} /\ NoElem \in Elem \cup {NoElem}
    OBVIOUS
  <2> HIDE DEF r, d
  <2>6. ListInv' /\ rc' = 0 /\ out' = NoElem /\ Forward' = <<>>
    BY <1>4, <2>1, <2>2, <2>3, <2>4, <2>5, Returned
  <2> QED
    BY <2>6 DEF Sequence!Clear, Sequence!Returns
<1>7. CASE FreeChain(mem, first) = {} /\ Stop("memory")
  <2>1. n > 0 /\ m[l].next # NULL
    BY <1>4, <1>5, <1>7
  <2>2. ~NeverPops
    BY <1>4, <2>1 DEF Ends
  <2>3. ListInv' /\ fault' # "none"
    BY <1>1, <1>7, <2>2, Stopped
  <2> QED
    BY <2>3
<1> QED
  BY <1>6, <1>7 DEF Clear

-----------------------------------------------------------------------------
(* The theorems.                                                           *)

\* list_initialize
LEMMA InitHolds == Init => ListInv
<1> SUFFICES ASSUME Init PROVE ListInv
  OBVIOUS
<1> DEFINE d == [x \in {} |-> NULL]
<1>1. mem = d /\ first = NULL /\ last = NULL /\ count = 0 /\ calls \in Clients /\ fault = "none"
  BY DEF Init
<1>2. TypeOK /\ Typed(mem) /\ Ends(mem, first, last, count)
  BY DEF Init, TypeOK, Typed, Ends
<1>3. 0 .. 0 - 1 = {} /\ \A k \in 0 .. 0 - 2 : FALSE
  OBVIOUS
<1>4. d \in [0 .. 0 - 1 -> DOMAIN d] /\ \A a : a \notin DOMAIN d
  BY <1>3
<1>5. Row(d, NULL, NULL, 0, d)
  <2> HIDE DEF d
  <2> QED
    BY <1>3, <1>4 DEF Row
<1> HIDE DEF d
<1> QED
  BY <1>1, <1>2, <1>4, <1>5 DEF ListInv

\* Every call keeps the invariant.
LEMMA StepHolds == ListInv /\ [Next]_vars => ListInv'
<1> SUFFICES ASSUME ListInv, [Next]_vars PROVE ListInv'
  OBVIOUS
<1>1. ASSUME NEW i \in Index, NEW v \in Elem, Insert(i, v) PROVE ListInv'
  BY <1>1, InsertKeeps
<1>2. ASSUME NEW i \in Index, NEW v \in Elem, Set(i, v) PROVE ListInv'
  BY <1>2, SetKeeps
<1>3. ASSUME NEW v \in Elem, PushBack(v) PROVE ListInv'
  BY <1>3, AppendKeeps
<1>4. ASSUME NEW i \in Index, Remove(i) PROVE ListInv'
  BY <1>4, RemoveKeeps
<1>5. ASSUME NEW keep \in BOOLEAN, PopFront(keep) PROVE ListInv'
  BY <1>5, PopFrontKeeps
<1>6. ASSUME NEW keep \in BOOLEAN, PopBack(keep) PROVE ListInv'
  BY <1>6, PopBackKeeps
<1>7. CASE Clear
  BY <1>7, ClearKeeps
<1>8. CASE UNCHANGED vars
  BY ZenonT(30), <1>8 DEF vars, ListInv, TypeOK, Typed, Row, Ends, NeverPops, IsQueue
<1> QED
  BY <1>1, <1>2, <1>3, <1>4, <1>5, <1>6, <1>7, <1>8 DEF Next

\* In every reachable state without a fault the allocated nodes form the list,
\* each linked with its neighbors in both directions; and a client that never
\* pops, or uses the list as a queue, meets no fault (src/list.c).
THEOREM ListStaysList == Spec => []ListInv
<1> QED
  BY InitHolds, StepHolds, PTL DEF Spec

\* For a client that never pops both chains run through exactly the count
\* nodes, in opposite directions, and end in NULL.
THEOREM ListWellLinked == Spec => []WellLinked
<1>1. ListInv => WellLinked
  <2> SUFFICES ASSUME ListInv, NeverPops
               PROVE  LET forward  == ChainAlong(NextOf(mem), first, count + 1)
                          backward == ChainAlong(PrevOf, last, count + 1)
                      IN  /\ Len(forward) = count /\ Len(backward) = count
                          /\ \A k \in 1 .. count : backward[k] = forward[count + 1 - k]
                          /\ DOMAIN mem = {forward[k] : k \in 1 .. count}
                          /\ count = 0 => first = NULL /\ last = NULL
                          /\ count > 0 => mem[first].prev = NULL /\ mem[last].next = NULL
    BY DEF WellLinked
  <2>1. PICK m, f, l, c : \E n \in Nat : Now(m, f, l, n, c)
    BY Before DEF ListInv
  <2>2. PICK n \in Nat : Now(m, f, l, n, c)
    BY <2>1
  <2>3. /\ m = mem /\ n = count /\ f = first /\ l = last
        /\ Typed(m) /\ Row(m, f, l, n, c) /\ Ends(m, f, l, n)
    BY <2>2 DEF Now
  <2> DEFINE fc == ChainAlong(NextOf(m), f, n + 1)
             bc == ChainAlong(BackOf(m), l, n + 1)
             d == Turned(c, n)
  <2>4. /\ NULL \notin DOMAIN NextOf(m) /\ NULL \notin DOMAIN BackOf(m)
        /\ BackOf(mem) = PrevOf /\ n + 1 \in Nat /\ n + 1 > n
    BY <2>3, NoNodeAtNull DEF NextOf, BackOf, PrevOf
  <2>5. /\ n = 0 => f = NULL /\ l = NULL
        /\ n > 0 => m[f].prev = NULL /\ m[l].next = NULL
    BY <2>3, RowEnds DEF Ends
  <2>6. fc = [k \in 1 .. n |-> c[k - 1]] /\ bc = [k \in 1 .. n |-> d[k - 1]]
    <3>1. /\ Runs(NextOf(m), f, c, n, IF n = 0 THEN NULL ELSE m[l].next)
          /\ Runs(BackOf(m), l, d, n, IF n = 0 THEN NULL ELSE m[f].prev)
      BY <2>3, RowRuns
    <3>2. Runs(NextOf(m), f, c, n, NULL) /\ Runs(BackOf(m), l, d, n, NULL)
      BY <2>5, <3>1
    <3> HIDE DEF d
    <3>3. ChainAlong(NextOf(m), f, n + 1) = [k \in 1 .. n |-> c[k - 1]]
      BY <2>4, <3>2, ChainRuns
    <3>4. ChainAlong(BackOf(m), l, n + 1) = [k \in 1 .. n |-> d[k - 1]]
      BY <2>4, <3>2, ChainRuns
    <3> QED
      BY <3>3, <3>4
  <2> HIDE DEF fc, bc
  <2>7. \A k \in 1 .. n : bc[k] = c[n - k] /\ fc[k] = c[k - 1] /\ fc[n + 1 - k] = c[n - k]
    <3>1. \A k \in 1 .. n : /\ k - 1 \in 0 .. n - 1 /\ n - 1 - (k - 1) = n - k
                            /\ n + 1 - k \in 1 .. n /\ n + 1 - k - 1 = n - k
      OBVIOUS
    <3> QED
      BY <2>6, <3>1 DEF Turned
  <2>8. \A k \in 0 .. n - 1 : c[k] \in DOMAIN m
    BY <2>3 DEF Row
  <2>9. Len(fc) = n /\ Len(bc) = n
    <3>1. \A k \in 1 .. n : k - 1 \in 0 .. n - 1 /\ n - k \in 0 .. n - 1
      OBVIOUS
    <3>2. fc \in [1 .. n -> DOMAIN m] /\ bc \in [1 .. n -> DOMAIN m]
      BY <2>6, <2>7, <2>8, <3>1
    <3> QED
      BY <3>2, FunctionIsSeq
  <2>10. DOMAIN m = {fc[k] : k \in 1 .. n}
    <3>1. \A k \in 1 .. n : k - 1 \in 0 .. n - 1
      OBVIOUS
    <3>2. \A k \in 0 .. n - 1 : k + 1 \in 1 .. n /\ (k + 1) - 1 = k
      OBVIOUS
    <3>3. \A k \in 0 .. n - 1 : fc[k + 1] = c[k]
      BY <2>7, <3>2
    <3>4. \A k \in 1 .. n : fc[k] \in DOMAIN m
      BY <2>7, <2>8, <3>1
    <3>5. ASSUME NEW a \in DOMAIN m PROVE \E k \in 1 .. n : fc[k] = a
      <4>1. PICK k \in 0 .. n - 1 : c[k] = a
        BY <2>3 DEF Row
      <4>2. k + 1 \in 1 .. n /\ fc[k + 1] = a
        BY <3>2, <3>3, <4>1
      <4> QED
        BY <4>2
    <3> QED
      BY <3>4, <3>5
  <2> QED
    BY <2>3, <2>4, <2>5, <2>7, <2>9, <2>10 DEF fc, bc
<1> QED
  BY <1>1, ListStaysList, PTL

\* In a queue the prev chain from last runs through exactly the count nodes
\* and ends at first.
THEOREM QueueLinkedBackward == Spec => []LinkedBackward
<1>1. ListInv => LinkedBackward
  <2> SUFFICES ASSUME ListInv, IsQueue
               PROVE  LET backward == ChainAlong(PrevOf, last, count + 1)
                      IN  /\ Len(backward) = count
                          /\ DOMAIN mem = {backward[k] : k \in 1 .. count}
                          /\ count > 0 => backward[count] = first /\ mem[first].prev = NULL
    BY DEF LinkedBackward
  <2>1. PICK m, f, l, c : \E n \in Nat : Now(m, f, l, n, c)
    BY Before DEF ListInv
  <2>2. PICK n \in Nat : Now(m, f, l, n, c)
    BY <2>1
  <2>3. /\ m = mem /\ n = count /\ f = first /\ l = last
        /\ Typed(m) /\ Row(m, f, l, n, c) /\ Ends(m, f, l, n)
    BY <2>2 DEF Now
  <2> DEFINE bc == ChainAlong(BackOf(m), l, n + 1)
             d == Turned(c, n)
  <2>4. NULL \notin DOMAIN BackOf(m) /\ BackOf(mem) = PrevOf /\ n + 1 \in Nat /\ n + 1 > n
    BY <2>3, NoNodeAtNull DEF BackOf, PrevOf
  <2>5. /\ n = 0 => f = NULL /\ l = NULL
        /\ n > 0 => f = c[0] /\ m[f].prev = NULL
    BY <2>3, RowEnds DEF Ends
  <2>6. bc = [k \in 1 .. n |-> d[k - 1]]
    <3>1. Runs(BackOf(m), l, d, n, IF n = 0 THEN NULL ELSE m[f].prev)
      BY <2>3, RowRuns
    <3>2. Runs(BackOf(m), l, d, n, NULL)
      BY <2>5, <3>1
    <3> HIDE DEF d
    <3> QED
      BY <2>4, <3>2, ChainRuns
  <2> HIDE DEF bc
  <2>7. \A k \in 1 .. n : bc[k] = c[n - k]
    <3>1. \A k \in 1 .. n : k - 1 \in 0 .. n - 1 /\ n - 1 - (k - 1) = n - k
      OBVIOUS
    <3> QED
      BY <2>6, <3>1 DEF Turned
  <2>8. \A k \in 0 .. n - 1 : c[k] \in DOMAIN m
    BY <2>3 DEF Row
  <2>9. Len(bc) = n
    <3>1. \A k \in 1 .. n : n - k \in 0 .. n - 1
      OBVIOUS
    <3>2. bc \in [1 .. n -> DOMAIN m]
      BY <2>6, <2>7, <2>8, <3>1
    <3> QED
      BY <3>2, FunctionIsSeq
  <2>10. DOMAIN m = {bc[k] : k \in 1 .. n}
    <3>1. \A k \in 1 .. n : n - k \in 0 .. n - 1
      OBVIOUS
    <3>2. \A k \in 0 .. n - 1 : n - k \in 1 .. n /\ n - (n - k) = k
      OBVIOUS
    <3>3. \A k \in 0 .. n - 1 : bc[n - k] = c[k]
      BY <2>7, <3>2
    <3>4. \A k \in 1 .. n : bc[k] \in DOMAIN m
      BY <2>7, <2>8, <3>1
    <3>5. ASSUME NEW a \in DOMAIN m PROVE \E k \in 1 .. n : bc[k] = a
      <4>1. PICK k \in 0 .. n - 1 : c[k] = a
        BY <2>3 DEF Row
      <4>2. n - k \in 1 .. n /\ bc[n - k] = a
        BY <3>2, <3>3, <4>1
      <4> QED
        BY <4>2
    <3> QED
      BY <3>4, <3>5
  <2>11. n > 0 => bc[n] = f
    <3>1. n > 0 => n \in 1 .. n /\ n - n = 0
      OBVIOUS
    <3> QED
      BY <2>5, <2>7, <3>1
  <2> QED
    BY <2>3, <2>4, <2>5, <2>9, <2>10, <2>11 DEF bc
<1> QED
  BY <1>1, ListStaysList, PTL

\* However the calls are mixed, no node leaks: as many are allocated as the
\* list counts, until a fault ends the program.
THEOREM ListLeaksNothing == Spec => []NoNodeLeaks
<1>1. ListInv => NoNodeLeaks
  <2> SUFFICES ASSUME ListInv PROVE fault = "none" => Cardinality(DOMAIN mem) = count
    BY DEF NoNodeLeaks, ListInv
  <2> HAVE fault = "none"
  <2>1. PICK m, f, l, c : \E n \in Nat : Now(m, f, l, n, c)
    BY Before
  <2>2. PICK n \in Nat : Now(m, f, l, n, c)
    BY <2>1
  <2>3. m = mem /\ n = count /\ Row(m, f, l, n, c)
    BY <2>2 DEF Now
  <2> QED
    BY <2>3, RowCardinality
<1> QED
  BY <1>1, ListStaysList, PTL

\* A client that never pops meets no fault, in this call either.
LEMMA NoFault ==
  ASSUME ListInv', calls' = calls, NeverPops \/ IsQueue
  PROVE  fault' = "none"
BY DEF ListInv, NeverPops, IsQueue

\* For such a client every call does to the sequence of elements what its
\* comment in src/list.c promises.
THEOREM ListKeepsPromises == Spec => CallsKeepTheirPromises
<1> DEFINE Promises ==
      NeverPops =>
        /\ \A i \in Index, v \in Elem :
             /\ Insert(i, v) => Sequence!Insert(i, v)
             /\ Set(i, v) => Sequence!Set(i, v)
        /\ \A v \in Elem : PushBack(v) => Sequence!PushBack(v)
        /\ \A i \in Index : Remove(i) => Sequence!Remove(i)
        /\ Clear => Sequence!Clear
<1>1. ListInv => Promises
  <2> SUFFICES ASSUME ListInv, NeverPops PROVE
        /\ \A i \in Index, v \in Elem :
             /\ Insert(i, v) => Sequence!Insert(i, v)
             /\ Set(i, v) => Sequence!Set(i, v)
        /\ \A v \in Elem : PushBack(v) => Sequence!PushBack(v)
        /\ \A i \in Index : Remove(i) => Sequence!Remove(i)
        /\ Clear => Sequence!Clear
    OBVIOUS
  <2>1. ASSUME NEW i \in Index, NEW v \in Elem
        PROVE  (Insert(i, v) => Sequence!Insert(i, v)) /\ (Set(i, v) => Sequence!Set(i, v))
    BY InsertKeeps, SetKeeps
  <2>2. \A v \in Elem : PushBack(v) => Sequence!PushBack(v)
    BY AppendKeeps
  <2>3. ASSUME NEW i \in Index, Remove(i) PROVE Sequence!Remove(i)
    <3>1. calls' = calls
      BY <2>3 DEF Remove, RemoveFirst, RemoveLast, RemoveMiddle, NoChange, Return, Stop
    <3>2. ListInv' /\ (fault' = "none" => Sequence!Remove(i))
      BY <2>3, RemoveKeeps
    <3> QED
      BY <3>1, <3>2, NoFault
  <2>4. ASSUME Clear PROVE Sequence!Clear
    <3>1. calls' = calls
      BY <2>4 DEF Clear, Return, Stop
    <3>2. ListInv' /\ (fault' = "none" => Sequence!Clear)
      BY <2>4, ClearKeeps
    <3> QED
      BY <3>1, <3>2, NoFault
  <2> QED
    BY <2>1, <2>2, <2>3, <2>4
<1> HIDE DEF Promises
<1>2. ListInv => [Promises]_vars
  BY <1>1
<1>3. []ListInv => [][Promises]_vars
  BY <1>2, PTL
<1>4. CallsKeepTheirPromises <=> [][Promises]_vars
  BY PTL DEF CallsKeepTheirPromises, Promises
<1> QED
  BY <1>3, <1>4, ListStaysList, PTL

\* A queue hands out at its back what was put in at its front, in this order
\* (src/queue.h).
THEOREM QueueFirstInFirstOut == Spec => FirstInFirstOut
<1> DEFINE Promises ==
      IsQueue =>
        /\ \A v \in Elem : Insert(0, v) => Queue!Insert(0, v)
        /\ (\E keep \in BOOLEAN : PopBack(keep)) => Queue!PopBack
<1>1. ListInv => Promises
  <2> SUFFICES ASSUME ListInv, IsQueue PROVE
        /\ \A v \in Elem : Insert(0, v) => Queue!Insert(0, v)
        /\ (\E keep \in BOOLEAN : PopBack(keep)) => Queue!PopBack
    OBVIOUS
  <2>1. 0 \in Index
    BY DEF ListInv, TypeOK, Index
  <2>2. \A v \in Elem : Insert(0, v) => Queue!Insert(0, v)
    BY <2>1, InsertKeeps
  <2>3. ASSUME NEW keep \in BOOLEAN, PopBack(keep) PROVE Queue!PopBack
    <3>1. calls' = calls
      BY <2>3 DEF PopBack, NoChange, Return, Stop
    <3>2. ListInv' /\ (fault' = "none" => Queue!PopBack)
      BY <2>3, PopBackKeeps
    <3> QED
      BY <3>1, <3>2, NoFault
  <2> QED
    BY <2>2, <2>3
<1> HIDE DEF Promises
<1>2. ListInv => [Promises]_vars
  BY <1>1
<1>3. []ListInv => [][Promises]_vars
  BY <1>2, PTL
<1>4. FirstInFirstOut <=> [][Promises]_vars
  BY PTL DEF FirstInFirstOut, Promises
<1> QED
  BY <1>3, <1>4, ListStaysList, PTL
=============================================================================
