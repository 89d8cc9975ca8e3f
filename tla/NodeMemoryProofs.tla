-------------------------- MODULE NodeMemoryProofs --------------------------
(***************************************************************************)
(* Facts about NodeMemory, for chains of every length: what the loops that *)
(* walk, read and free a chain meet, what is left of a chain when a node   *)
(* is linked in or taken out, and that several chains in one memory keep   *)
(* apart.                                                                  *)
(***************************************************************************)
EXTENDS NodeMemory, SequenceTheorems, FiniteSetTheorems, TLAPS

LOCAL Numbers == INSTANCE HeapProofs

-----------------------------------------------------------------------------
(* Chains of nodes.                                                        *)

\* One step along link
Follow(link, q) == IF q \in DOMAIN link THEN link[q] ELSE NULL

\* The recursion that Met is defined by
IsMet(at, link, p, n) ==
  at = [k \in 0 .. n |-> IF k = 0 THEN p ELSE Follow(link, at[k - 1])]

\* The recursive function that Met is defined by exists, for every number of steps.
LEMMA MetExists ==
  ASSUME NEW link, NEW p, NEW n \in Nat
  PROVE  \E at : IsMet(at, link, p, n)
<1> USE DEF IsMet
<1> DEFINE Is(at, m) == IsMet(at, link, p, m)
           None == {m \in Nat : ~ \E at : Is(at, m)}
<1>1. ASSUME None # {} PROVE FALSE
  <2>1. PICK m \in None : \A l \in None : m <= l
    <3>1. None \in SUBSET Nat
      OBVIOUS
    <3> HIDE DEF None
    <3> QED
      BY <1>1, <3>1, Numbers!LeastNumber
  <2>2. CASE m = 0
    <3>1. Is([k \in 0 .. 0 |-> p], 0)
      OBVIOUS
    <3> QED
      BY <2>1, <2>2, <3>1
  <2>3. CASE m > 0
    <3>1. m - 1 \in Nat /\ m - 1 \notin None
      <4>1. m \in Nat
        BY <2>1
      <4> HIDE DEF None
      <4> QED
        BY <2>1, <2>3, <4>1
    <3>2. PICK f : Is(f, m - 1)
      BY <3>1
    <3> DEFINE g == [k \in 0 .. m |-> IF k = m THEN Follow(link, f[m - 1]) ELSE f[k]]
    <3>3. ASSUME NEW k \in 0 .. m
          PROVE  g[k] = IF k = 0 THEN p ELSE Follow(link, g[k - 1])
      <4>1. CASE k = m
        <5>1. m - 1 \in 0 .. m /\ m - 1 # m
          BY <2>3
        <5>2. g[m - 1] = f[m - 1]
          BY <5>1
        <5> QED
          BY <2>3, <4>1, <5>2
      <4>2. CASE k # m
        <5>1. k \in 0 .. m - 1 /\ g[k] = f[k]
          BY <2>1, <4>2
        <5>2. f[k] = IF k = 0 THEN p ELSE Follow(link, f[k - 1])
          BY <3>2, <5>1
        <5>3. k # 0 => k - 1 \in 0 .. m /\ k - 1 # m
          BY <2>1, <4>2
        <5>4. k # 0 => g[k - 1] = f[k - 1]
          BY <5>3
        <5> QED
          BY <5>1, <5>2, <5>4
      <4> QED
        BY <4>1, <4>2
    <3>4. g = [k \in 0 .. m |-> g[k]]
      OBVIOUS
    <3> HIDE DEF g
    <3>5. Is(g, m)
      BY <3>3, <3>4
    <3> QED
      BY <2>1, <3>5
  <2> QED
    BY <2>1, <2>2, <2>3
<1> QED
  BY <1>1

\* What Met computes, step by step
LEMMA MetSteps ==
  ASSUME NEW link, NEW p, NEW n \in Nat
  PROVE  /\ DOMAIN Met(link, p, n) = 0 .. n /\ Met(link, p, n)[0] = p
         /\ \A k \in 1 .. n : Met(link, p, n)[k] = Follow(link, Met(link, p, n)[k - 1])
<1> DEFINE at == Met(link, p, n)
<1>1. at = CHOOSE f : IsMet(f, link, p, n)
  BY DEF Met, Follow, IsMet
<1>2. \E f : IsMet(f, link, p, n)
  BY MetExists
<1> HIDE DEF at
<1>3. IsMet(at, link, p, n)
  BY <1>1, <1>2
<1>4. DOMAIN at = 0 .. n /\ at[0] = p
  BY <1>3 DEF IsMet
<1>5. \A k \in 1 .. n : k \in 0 .. n /\ k # 0
  OBVIOUS
<1>6. \A k \in 1 .. n : at[k] = Follow(link, at[k - 1])
  BY <1>3, <1>5 DEF IsMet
<1> QED
  BY <1>4, <1>6 DEF at

\* From p, link leads through the n nodes of c and then to e.
Runs(link, p, c, n, e) ==
  /\ p = IF n = 0 THEN e ELSE c[0]
  /\ \A k \in 0 .. n - 1 :
       c[k] \in DOMAIN link /\ link[c[k]] = IF k = n - 1 THEN e ELSE c[k + 1]

\* Then these are the addresses that are met, whatever the number of steps.
LEMMA MetRuns ==
  ASSUME NEW link, NEW p, NEW c, NEW e, NEW n \in Nat, Runs(link, p, c, n, e), NEW m \in Nat
  PROVE  \A k \in 0 .. m : k <= n => Met(link, p, m)[k] = IF k = n THEN e ELSE c[k]
<1> DEFINE at == Met(link, p, m)
           Right(k) == at[k] = IF k = n THEN e ELSE c[k]
           Wrong == {k \in Nat : k <= m /\ k <= n /\ ~Right(k)}
<1>1. at[0] = p /\ \A k \in 1 .. m : at[k] = Follow(link, at[k - 1])
  BY MetSteps
<1> HIDE DEF at
<1>2. ASSUME Wrong # {} PROVE FALSE
  <2>1. PICK k \in Wrong : \A l \in Wrong : k <= l
    <3>1. Wrong \in SUBSET Nat
      OBVIOUS
    <3> HIDE DEF Wrong
    <3> QED
      BY <1>2, <3>1, Numbers!LeastNumber
  <2>2. k \in Nat /\ k <= m /\ k <= n /\ ~Right(k)
    BY <2>1
  <2>3. CASE k = 0
    BY <1>1, <2>2, <2>3 DEF Runs
  <2>4. CASE k > 0
    <3>1. k - 1 \in Nat /\ k - 1 <= m /\ k - 1 <= n /\ ~(k <= k - 1) /\ k \in 1 .. m
          /\ k - 1 \in 0 .. n - 1 /\ (k - 1) + 1 = k
          /\ k - 1 # n /\ (k - 1 = n - 1 <=> k = n)
      BY <2>2, <2>4
    <3>2. Right(k - 1)
      BY <2>1, <3>1
    <3>3. at[k - 1] = c[k - 1]
      BY <3>1, <3>2
    <3>4. at[k] = link[c[k - 1]]
      BY <1>1, <3>1, <3>3 DEF Runs, Follow
    <3>5. link[c[k - 1]] = IF k - 1 = n - 1 THEN e ELSE c[(k - 1) + 1]
      BY <3>1 DEF Runs
    <3> QED
      BY <2>2, <3>1, <3>4, <3>5
  <2> QED
    BY <2>2, <2>3, <2>4
<1>3. \A k \in 0 .. m : k <= n => Right(k)
  BY <1>2
<1> QED
  BY <1>3 DEF at

\* Behind the end nothing is met.
LEMMA MetBeyond ==
  ASSUME NEW link, NEW p, NEW n \in Nat, NEW m \in Nat,
         n <= m => Met(link, p, m)[n] \notin DOMAIN link, NULL \notin DOMAIN link
  PROVE  \A k \in n .. m : Met(link, p, m)[k] \notin DOMAIN link
<1> DEFINE at == Met(link, p, m)
           In == {k \in Nat : n <= k /\ k <= m /\ at[k] \in DOMAIN link}
<1>1. at[0] = p /\ \A k \in 1 .. m : at[k] = Follow(link, at[k - 1])
  BY MetSteps
<1> HIDE DEF at
<1>2. ASSUME In # {} PROVE FALSE
  <2>1. PICK k \in In : \A l \in In : k <= l
    <3>1. In \in SUBSET Nat
      OBVIOUS
    <3> HIDE DEF In
    <3> QED
      BY <1>2, <3>1, Numbers!LeastNumber
  <2>2. k \in Nat /\ n <= k /\ k <= m /\ at[k] \in DOMAIN link
    BY <2>1
  <2>3. CASE k = n
    BY <2>2, <2>3 DEF at
  <2>4. CASE k > n
    <3>1. k - 1 \in Nat /\ n <= k - 1 /\ k - 1 <= m /\ ~(k <= k - 1) /\ k \in 1 .. m
      BY <2>2, <2>4
    <3>2. at[k - 1] \notin DOMAIN link
      BY <2>1, <3>1
    <3>3. at[k] = NULL
      BY <1>1, <3>1, <3>2 DEF Follow
    <3> QED
      BY <2>2, <3>3
  <2> QED
    BY <2>2, <2>3, <2>4
<1>3. \A k \in n .. m : k \in Nat /\ n <= k /\ k <= m
  OBVIOUS
<1>4. \A k \in n .. m : at[k] \notin DOMAIN link
  BY <1>2, <1>3
<1> QED
  BY <1>4 DEF at

\* Walking i nodes along a chain leads to the i-th.
LEMMA WalkRuns ==
  ASSUME NEW m, NEW p, NEW c, NEW e, NEW n \in Nat, Runs(NextOf(m), p, c, n, e),
         NEW i \in 0 .. n - 1
  PROVE  Walk(m, p, i) = c[i] /\ c[i] \in DOMAIN m
<1>1. c[i] \in DOMAIN m
  BY DEF Runs, NextOf
<1>2. i \in Nat /\ i <= n /\ i # n /\ i \in 0 .. i
  OBVIOUS
<1>3. Met(NextOf(m), p, i)[i] = c[i]
  BY <1>2, MetRuns
<1> QED
  BY <1>1, <1>3 DEF Walk

\* The chain is what is met, up to its end or up to its length.
LEMMA ChainRuns ==
  ASSUME NEW link, NEW p, NEW c, NEW e, NEW n \in Nat, Runs(link, p, c, n, e),
         NULL \notin DOMAIN link, NEW m \in Nat, m = n \/ (m > n /\ e \notin DOMAIN link)
  PROVE  ChainAlong(link, p, m) = [k \in 1 .. n |-> c[k - 1]]
<1> DEFINE at == Met(link, p, m)
           nodes == {j \in 1 .. m : at[j - 1] \in DOMAIN link}
<1>1. \A k \in 0 .. m : k <= n => at[k] = IF k = n THEN e ELSE c[k]
  BY MetRuns
<1>2. m > n => \A k \in n .. m : at[k] \notin DOMAIN link
  <2>1. ASSUME m > n PROVE at[n] \notin DOMAIN link
    BY <1>1, <2>1
  <2> QED
    BY <2>1, MetBeyond
<1>3. ChainAlong(link, p, m) = [k \in nodes |-> at[k - 1]]
  BY DEF ChainAlong
<1> HIDE DEF at
<1>4. ASSUME NEW k \in 1 .. n PROVE k \in nodes /\ at[k - 1] = c[k - 1]
  <2>1. k - 1 \in 0 .. m /\ k - 1 <= n /\ k - 1 # n /\ k - 1 \in 0 .. n - 1 /\ k \in 1 .. m
    OBVIOUS
  <2>2. at[k - 1] = c[k - 1]
    BY <1>1, <2>1
  <2>3. c[k - 1] \in DOMAIN link
    BY <2>1 DEF Runs
  <2> QED
    BY <2>1, <2>2, <2>3
<1>5. ASSUME NEW k \in nodes PROVE k \in 1 .. n
  <2>1. k \in 1 .. m /\ at[k - 1] \in DOMAIN link
    OBVIOUS
  <2>2. ASSUME k > n PROVE FALSE
    <3>1. m > n /\ k - 1 \in n .. m
      BY <2>1, <2>2
    <3> QED
      BY <1>2, <2>1, <3>1
  <2> QED
    BY <2>1, <2>2
<1> HIDE DEF nodes
<1>6. nodes = 1 .. n
  BY <1>4, <1>5
<1> QED
  BY <1>3, <1>4, <1>6

\* What freeing along a chain that holds all nodes leaves, if it does not go
\* astray: nothing; and it does not if the chain ends in NULL.
LEMMA FreeRuns ==
  ASSUME NEW m, NEW p, NEW c, NEW e, NEW n \in Nat, Runs(NextOf(m), p, c, n, e),
         NULL \notin DOMAIN m, \A a \in DOMAIN m : \E k \in 0 .. n - 1 : c[k] = a,
         Cardinality(DOMAIN m) = n
  PROVE  /\ \A r \in FreeChain(m, p) : r = [x \in {} |-> NULL]
         /\ e = NULL => FreeChain(m, p) # {}
<1> DEFINE at == Met(NextOf(m), p, Cardinality(DOMAIN m))
           ends == {j \in DOMAIN at : at[j] = NULL /\ \A k \in 0 .. j - 1 : at[k] \in DOMAIN m}
           gone(j) == {at[k] : k \in 0 .. j - 1}
<1>1. FreeChain(m, p) = {[x \in DOMAIN m \ gone(j) |-> m[x]] : j \in ends}
  BY DEF FreeChain
<1>2. at = Met(NextOf(m), p, n)
  OBVIOUS
<1> HIDE DEF at
<1>3. DOMAIN at = 0 .. n /\ \A k \in 0 .. n : k <= n => at[k] = IF k = n THEN e ELSE c[k]
  BY <1>2, MetRuns, MetSteps
<1>4. \A k \in 0 .. n - 1 : at[k] = c[k] /\ at[k] \in DOMAIN m
  <2>1. \A k \in 0 .. n - 1 : k \in 0 .. n /\ k <= n /\ k # n
    OBVIOUS
  <2>2. \A k \in 0 .. n - 1 : c[k] \in DOMAIN m
    BY DEF Runs, NextOf
  <2> QED
    BY <1>3, <2>1, <2>2
<1>5. ASSUME NEW j \in ends PROVE DOMAIN m \subseteq gone(j)
  <2>1. j \in 0 .. n /\ at[j] = NULL
    BY <1>3
  <2>2. j = n
    BY <1>4, <2>1
  <2> QED
    BY <1>4, <2>2
<1>6. e = NULL => n \in ends
  BY <1>3, <1>4
<1>7. \A j \in ends : [x \in DOMAIN m \ gone(j) |-> m[x]] = [x \in {} |-> NULL]
  <2>1. \A j \in ends : DOMAIN m \ gone(j) = {}
    BY <1>5
  <2> HIDE DEF ends, gone
  <2> QED
    BY <2>1
<1> HIDE DEF ends, gone
<1> QED
  BY <1>1, <1>6, <1>7

-----------------------------------------------------------------------------
(* Sequences.                                                              *)

\* s with v at position i + 1, and s without its element at that position
With(s, i, v)  == [k \in 1 .. Len(s) + 1 |-> IF k <= i THEN s[k] ELSE IF k = i + 1 THEN v ELSE s[k - 1]]
Without(s, i)  == [k \in 1 .. Len(s) - 1 |-> IF k <= i THEN s[k] ELSE s[k + 1]]

\* A function on 1 .. n is a sequence of length n.
LEMMA FunctionIsSeq ==
  ASSUME NEW n \in Nat, NEW S, NEW f \in [1 .. n -> S]
  PROVE  f \in Seq(S) /\ Len(f) = n
<1>1. f \in Seq(S)
  BY SeqDef
<1>2. Len(f) \in Nat /\ DOMAIN f = 1 .. Len(f)
  BY <1>1, LenProperties
<1>3. 1 .. n = 1 .. Len(f)
  BY <1>2
<1> QED
  BY <1>1, <1>2, <1>3

\* The first i elements of a sequence, and what is left without the first i.
LEMMA Parts ==
  ASSUME NEW S, NEW s \in Seq(S), NEW i \in 0 .. Len(s)
  PROVE  /\ SubSeq(s, 1, i) \in Seq(S) /\ Len(SubSeq(s, 1, i)) = i
         /\ \A k \in 1 .. i : SubSeq(s, 1, i)[k] = s[k]
         /\ SubSeq(s, i + 1, Len(s)) \in Seq(S)
         /\ Len(SubSeq(s, i + 1, Len(s))) = Len(s) - i
         /\ \A k \in 1 .. Len(s) - i : SubSeq(s, i + 1, Len(s))[k] = s[i + k]
<1> DEFINE n == Len(s)
           p == SubSeq(s, 1, i)
           q == SubSeq(s, i + 1, n)
<1>1. n \in Nat /\ i \in 0 .. n /\ \A k \in 1 .. n : s[k] \in S
  BY LenProperties, ElementOfSeq
<1> HIDE DEF n
<1>2. /\ p \in Seq(S) /\ Len(p) = IF 1 <= i THEN i - 1 + 1 ELSE 0
      /\ \A k \in 1 .. i - 1 + 1 : p[k] = s[1 + k - 1]
  <2>1. \A k \in 1 .. i : s[k] \in S
    BY <1>1
  <2> QED
    BY <1>1, <2>1, SubSeqProperties
<1>3. /\ q \in Seq(S) /\ Len(q) = IF i + 1 <= n THEN n - (i + 1) + 1 ELSE 0
      /\ \A k \in 1 .. n - (i + 1) + 1 : q[k] = s[(i + 1) + k - 1]
  <2>1. \A k \in i + 1 .. n : s[k] \in S
    BY <1>1
  <2> QED
    BY <1>1, <2>1, SubSeqProperties
<1> HIDE DEF p, q
<1>4. Len(p) = i /\ Len(q) = n - i
  BY <1>1, <1>2, <1>3
<1>5. \A k \in 1 .. i : k \in 1 .. i - 1 + 1 /\ 1 + k - 1 = k
  BY <1>1
<1>6. \A k \in 1 .. n - i : k \in 1 .. n - (i + 1) + 1 /\ (i + 1) + k - 1 = i + k
  BY <1>1
<1>7. (\A k \in 1 .. i : p[k] = s[k]) /\ \A k \in 1 .. n - i : q[k] = s[i + k]
  BY <1>2, <1>3, <1>5, <1>6
<1> QED
  BY <1>2, <1>3, <1>4, <1>7 DEF n, p, q

\* Inserting an element puts it between two parts of the sequence.
LEMMA WithIsBetween ==
  ASSUME NEW S, NEW s \in Seq(S), NEW i \in 0 .. Len(s), NEW v \in S
  PROVE  /\ With(s, i, v) \in Seq(S) /\ Len(With(s, i, v)) = Len(s) + 1
         /\ With(s, i, v) = SubSeq(s, 1, i) \o <<v>> \o SubSeq(s, i + 1, Len(s))
<1> DEFINE n == Len(s)
           p == SubSeq(s, 1, i)
           q == SubSeq(s, i + 1, Len(s))
           pv == p \o <<v>>
           t == pv \o q
           w == With(s, i, v)
<1>1. n \in Nat /\ n + 1 \in Nat /\ i \in 0 .. n /\ \A k \in 1 .. n : s[k] \in S
  BY LenProperties, ElementOfSeq
<1>2. /\ p \in Seq(S) /\ Len(p) = i /\ \A k \in 1 .. i : p[k] = s[k]
      /\ q \in Seq(S) /\ Len(q) = n - i /\ \A k \in 1 .. n - i : q[k] = s[i + k]
  BY Parts
<1>3. w = [k \in 1 .. n + 1 |-> IF k <= i THEN s[k] ELSE IF k = i + 1 THEN v ELSE s[k - 1]]
  BY DEF With
<1> HIDE DEF n, p, q, w
<1>4. \A k \in 1 .. n + 1 : /\ k <= i => k \in 1 .. n
                            /\ k > i + 1 => k - 1 \in 1 .. n
                            /\ k <= i \/ k = i + 1 \/ k > i + 1
  BY <1>1
<1>5. w \in [1 .. n + 1 -> S]
  BY <1>1, <1>3, <1>4
<1>6. w \in Seq(S) /\ Len(w) = n + 1
  BY <1>1, <1>5, FunctionIsSeq
<1>7. <<v>> \in Seq(S) /\ Len(<<v>>) = 1 /\ <<v>>[1] = v
  OBVIOUS
<1>8. /\ pv \in Seq(S) /\ Len(pv) = i + 1
      /\ \A k \in 1 .. i + 1 : pv[k] = IF k <= i THEN p[k] ELSE <<v>>[k - i]
  BY <1>2, <1>7, ConcatProperties
<1>9. \A k \in 1 .. i + 1 : pv[k] = IF k <= i THEN p[k] ELSE v
  BY <1>1, <1>7, <1>8
<1> HIDE DEF pv
<1>10. /\ t \in Seq(S) /\ Len(t) = Len(pv) + Len(q)
       /\ \A k \in 1 .. Len(pv) + Len(q) : t[k] = IF k <= Len(pv) THEN pv[k] ELSE q[k - Len(pv)]
  BY ZenonT(30), <1>2, <1>8, ConcatProperties
<1>11. i + 1 + (n - i) = n + 1
  BY <1>1
<1>12. Len(t) = n + 1 /\ \A k \in 1 .. n + 1 : t[k] = IF k <= i + 1 THEN pv[k] ELSE q[k - (i + 1)]
  BY <1>2, <1>8, <1>10, <1>11
<1> HIDE DEF t
<1>13. \A k \in 1 .. n + 1 : w[k] = t[k]
  <2> TAKE k \in 1 .. n + 1
  <2>1. CASE k <= i
    <3>1. k \in 1 .. i /\ k \in 1 .. i + 1 /\ k <= i + 1
      BY <1>1, <2>1
    <3> QED
      BY <1>2, <1>3, <1>9, <1>12, <2>1, <3>1
  <2>2. CASE k = i + 1
    <3>1. k \in 1 .. i + 1 /\ k <= i + 1 /\ ~(k <= i)
      BY <1>1, <2>2
    <3> QED
      BY <1>3, <1>9, <1>12, <2>2, <3>1
  <2>3. CASE k > i + 1
    <3>1. k - (i + 1) \in 1 .. n - i /\ i + (k - (i + 1)) = k - 1 /\ ~(k <= i + 1) /\ ~(k <= i) /\ k # i + 1
      BY <1>1, <2>3
    <3> QED
      BY <1>2, <1>3, <1>12, <3>1
  <2> QED
    BY <1>4, <2>1, <2>2, <2>3
<1>14. w = t
  BY <1>6, <1>10, <1>12, <1>13, SeqEqual
<1> QED
  BY <1>6, <1>14 DEF w, t, pv, p, q, n

\* Removing an element leaves the parts of the sequence before and after it.
LEMMA WithoutIsAround ==
  ASSUME NEW S, NEW s \in Seq(S), NEW i \in 0 .. Len(s) - 1
  PROVE  /\ Without(s, i) \in Seq(S) /\ Len(Without(s, i)) = Len(s) - 1
         /\ Without(s, i) = SubSeq(s, 1, i) \o SubSeq(s, i + 2, Len(s))
<1> DEFINE n == Len(s)
           p == SubSeq(s, 1, i)
           q == SubSeq(s, i + 2, Len(s))
           t == p \o q
           w == Without(s, i)
<1>1. n \in Nat /\ n - 1 \in Nat /\ i \in 0 .. n - 1 /\ i \in 0 .. n /\ i + 1 \in 0 .. n
      /\ (i + 1) + 1 = i + 2 /\ \A k \in 1 .. n : s[k] \in S
  BY LenProperties, ElementOfSeq
<1>2. p \in Seq(S) /\ Len(p) = i /\ \A k \in 1 .. i : p[k] = s[k]
  BY <1>1, Parts
<1>3. /\ SubSeq(s, (i + 1) + 1, Len(s)) \in Seq(S)
      /\ Len(SubSeq(s, (i + 1) + 1, Len(s))) = n - (i + 1)
      /\ \A k \in 1 .. n - (i + 1) : SubSeq(s, (i + 1) + 1, Len(s))[k] = s[(i + 1) + k]
  BY <1>1, Parts
<1>4. q \in Seq(S) /\ Len(q) = n - (i + 1) /\ \A k \in 1 .. n - (i + 1) : q[k] = s[(i + 1) + k]
  BY <1>1, <1>3
<1>5. w = [k \in 1 .. n - 1 |-> IF k <= i THEN s[k] ELSE s[k + 1]]
  BY DEF Without
<1> HIDE DEF n, p, q, w
<1>6. \A k \in 1 .. n - 1 : k \in 1 .. n /\ k + 1 \in 1 .. n
  BY <1>1
<1>7. w \in [1 .. n - 1 -> S]
  BY <1>1, <1>5, <1>6
<1>8. w \in Seq(S) /\ Len(w) = n - 1
  BY <1>1, <1>7, FunctionIsSeq
<1>9. /\ t \in Seq(S) /\ Len(t) = Len(p) + Len(q)
      /\ \A k \in 1 .. Len(p) + Len(q) : t[k] = IF k <= Len(p) THEN p[k] ELSE q[k - Len(p)]
  BY <1>2, <1>4, ConcatProperties
<1>10. i + (n - (i + 1)) = n - 1
  BY <1>1
<1>11. Len(t) = n - 1 /\ \A k \in 1 .. n - 1 : t[k] = IF k <= i THEN p[k] ELSE q[k - i]
  BY <1>2, <1>4, <1>9, <1>10
<1> HIDE DEF t
<1>12. \A k \in 1 .. n - 1 : w[k] = t[k]
  <2> TAKE k \in 1 .. n - 1
  <2>1. CASE k <= i
    <3>1. k \in 1 .. i
      BY <1>1, <2>1
    <3> QED
      BY <1>2, <1>5, <1>11, <2>1, <3>1
  <2>2. CASE ~(k <= i)
    <3>1. k - i \in 1 .. n - (i + 1) /\ (i + 1) + (k - i) = k + 1
      BY <1>1, <2>2
    <3> QED
      BY <1>4, <1>5, <1>11, <2>2, <3>1
  <2> QED
    BY <2>1, <2>2
<1>13. w = t
  BY <1>8, <1>9, <1>11, <1>12, SeqEqual
<1> QED
  BY <1>8, <1>13 DEF w, t, p, q, n

\* Appending is inserting behind the last element.
LEMMA WithIsAppend ==
  ASSUME NEW S, NEW s \in Seq(S), NEW v \in S
  PROVE  With(s, Len(s), v) = Append(s, v)
<1> DEFINE n == Len(s)
           w == With(s, n, v)
           t == Append(s, v)
<1>1. n \in Nat /\ n \in 0 .. n
  BY LenProperties
<1>2. w \in Seq(S) /\ Len(w) = n + 1
  BY <1>1, WithIsBetween
<1>3. t \in Seq(S) /\ Len(t) = n + 1 /\ t[n + 1] = v /\ \A k \in 1 .. n : t[k] = s[k]
  OBVIOUS
<1>4. w = [k \in 1 .. n + 1 |-> IF k <= n THEN s[k] ELSE IF k = n + 1 THEN v ELSE s[k - 1]]
  BY DEF With
<1> HIDE DEF n, w, t
<1>5. \A k \in 1 .. n + 1 : (k \in 1 .. n /\ k <= n) \/ (k = n + 1 /\ ~(k <= n))
  <2>1. n \in Nat
    BY <1>1
  <2> QED
    BY <2>1
<1>6. \A k \in 1 .. n + 1 : w[k] = t[k]
  BY <1>3, <1>4, <1>5
<1>7. w = t
  BY <1>2, <1>3, <1>6, SeqEqual
<1> QED
  BY <1>7 DEF w, t, n

\* Taking the first n - 1 elements is removing the last.
LEMMA WithoutIsPrefix ==
  ASSUME NEW S, NEW s \in Seq(S), Len(s) > 0
  PROVE  Without(s, Len(s) - 1) = SubSeq(s, 1, Len(s) - 1)
<1> DEFINE n == Len(s)
           w == Without(s, n - 1)
           t == SubSeq(s, 1, n - 1)
<1>1. n \in Nat /\ n - 1 \in 0 .. n /\ n - 1 \in 0 .. n - 1
  BY LenProperties
<1>2. w \in Seq(S) /\ Len(w) = n - 1
  BY <1>1, WithoutIsAround
<1>3. t \in Seq(S) /\ Len(t) = n - 1 /\ \A k \in 1 .. n - 1 : t[k] = s[k]
  BY ZenonT(30), <1>1, Parts
<1>4. w = [k \in 1 .. n - 1 |-> IF k <= n - 1 THEN s[k] ELSE s[k + 1]]
  BY DEF Without
<1> HIDE DEF n, w, t
<1>5. \A k \in 1 .. n - 1 : w[k] = t[k]
  BY <1>1, <1>3, <1>4
<1>6. w = t
  BY <1>2, <1>3, <1>5, SeqEqual
<1> QED
  BY <1>6 DEF w, t, n

\* Taking what is left without the first element is removing that.
LEMMA WithoutIsRest ==
  ASSUME NEW S, NEW s \in Seq(S), Len(s) > 0
  PROVE  Without(s, 0) = SubSeq(s, 2, Len(s))
<1> DEFINE n == Len(s)
           w == Without(s, 0)
           t == SubSeq(s, 2, n)
<1>1. n \in Nat /\ 1 \in 0 .. n /\ 0 \in 0 .. n - 1 /\ 1 + 1 = 2
  BY LenProperties
<1>2. w \in Seq(S) /\ Len(w) = n - 1
  BY <1>1, WithoutIsAround
<1>3. t \in Seq(S) /\ Len(t) = n - 1 /\ \A k \in 1 .. n - 1 : t[k] = s[1 + k]
  <2> DEFINE u == SubSeq(s, 1 + 1, Len(s))
  <2>1. u \in Seq(S) /\ Len(u) = Len(s) - 1 /\ \A k \in 1 .. Len(s) - 1 : u[k] = s[1 + k]
    BY ZenonT(30), <1>1, Parts
  <2>2. u = t
    BY <1>1
  <2> HIDE DEF u, t
  <2> QED
    BY <2>1, <2>2
<1>4. w = [k \in 1 .. n - 1 |-> IF k <= 0 THEN s[k] ELSE s[k + 1]]
  BY DEF Without
<1> HIDE DEF n, w, t
<1>5. \A k \in 1 .. n - 1 : ~(k <= 0) /\ k + 1 = 1 + k
  BY <1>1
<1>6. \A k \in 1 .. n - 1 : w[k] = t[k]
  BY <1>3, <1>4, <1>5
<1>7. w = t
  BY <1>2, <1>3, <1>6, SeqEqual
<1> QED
  BY <1>7 DEF w, t, n

-----------------------------------------------------------------------------
(* Nodes in a row.                                                         *)

\* The nodes with a after the first i, and without the one after the first i
Squeezed(c, n, i, a) == [k \in 0 .. n |-> IF k < i THEN c[k] ELSE IF k = i THEN a ELSE c[k - 1]]
Closed(c, n, i) == [k \in 0 .. n - 2 |-> IF k < i THEN c[k] ELSE c[k + 1]]

\* The elements of the n nodes of c
Data(m, n, c) == [k \in 1 .. n |-> m[c[k - 1]].data]

\* In memory M they are the same, except perhaps that of the node at i.
SameData(m, M, c, n, i) == \A k \in 0 .. n - 1 : k # i => M[c[k]].data = m[c[k]].data

\* They are a sequence.
LEMMA DataIsSeq ==
  ASSUME NEW m, NEW S, NEW c, NEW n \in Nat, \A k \in 0 .. n - 1 : m[c[k]].data \in S
  PROVE  Data(m, n, c) \in Seq(S) /\ Len(Data(m, n, c)) = n
<1>1. \A k \in 1 .. n : k - 1 \in 0 .. n - 1
  OBVIOUS
<1>2. Data(m, n, c) \in [1 .. n -> S]
  BY <1>1 DEF Data
<1> QED
  BY <1>2, FunctionIsSeq

\* A node that is linked in adds its element to those of the chain.
LEMMA DataWith ==
  ASSUME NEW m, NEW c, NEW n \in Nat, Len(Data(m, n, c)) = n, NEW M, SameData(m, M, c, n, n),
         NEW a, NEW i \in 0 .. n
  PROVE  Data(M, n + 1, Squeezed(c, n, i, a)) = With(Data(m, n, c), i, M[a].data)
<1> DEFINE d == Squeezed(c, n, i, a)
           s == Data(m, n, c)
           v == M[a].data
<1>0. /\ M[a].data = v /\ \A k \in 0 .. n - 1 : M[c[k]].data = m[c[k]].data
  BY DEF SameData
<1>1. \A k \in 0 .. n : d[k] = IF k < i THEN c[k] ELSE IF k = i THEN a ELSE c[k - 1]
  BY DEF Squeezed
<1>2. \A k \in 1 .. n : s[k] = m[c[k - 1]].data
  BY DEF Data
<1>3. Len(s) = n
  OBVIOUS
<1> HIDE DEF d, s
<1>4. ASSUME NEW k \in 1 .. n + 1
      PROVE  M[d[k - 1]].data = IF k <= i THEN s[k] ELSE IF k = i + 1 THEN v ELSE s[k - 1]
  <2>1. k - 1 \in 0 .. n /\ (k <= i <=> k - 1 < i) /\ (k = i + 1 <=> k - 1 = i)
    OBVIOUS
  <2>2. d[k - 1] = IF k <= i THEN c[k - 1] ELSE IF k = i + 1 THEN a ELSE c[k - 1 - 1]
    BY <1>1, <2>1
  <2>3. CASE k <= i
    <3>1. k \in 1 .. n /\ k - 1 \in 0 .. n - 1
      BY <2>3
    <3> QED
      BY <1>0, <1>2, <2>2, <2>3, <3>1
  <2>4. CASE k = i + 1
    <3>1. ~(k <= i)
      BY <2>4
    <3> QED
      BY <1>0, <2>2, <2>4, <3>1
  <2>5. CASE k > i + 1
    <3>1. k - 1 \in 1 .. n /\ k - 1 - 1 \in 0 .. n - 1 /\ ~(k <= i) /\ k # i + 1
      BY <2>5
    <3> QED
      BY <1>0, <1>2, <2>2, <3>1
  <2> QED
    BY <2>3, <2>4, <2>5
<1>5. [k \in 1 .. n + 1 |-> M[d[k - 1]].data]
        = [k \in 1 .. n + 1 |-> IF k <= i THEN s[k] ELSE IF k = i + 1 THEN v ELSE s[k - 1]]
  BY <1>4
<1>6. Data(M, n + 1, d) = With(s, i, v)
  BY <1>3, <1>5 DEF Data, With
<1> QED
  BY <1>6 DEF d, s

\* A node that is taken out takes its element with it.
LEMMA DataWithout ==
  ASSUME NEW m, NEW c, NEW n \in Nat, Len(Data(m, n, c)) = n, NEW M, NEW i \in 0 .. n - 1,
         SameData(m, M, c, n, i)
  PROVE  Data(M, n - 1, Closed(c, n, i)) = Without(Data(m, n, c), i)
<1> DEFINE d == Closed(c, n, i)
           s == Data(m, n, c)
<1>1. \A k \in 0 .. n - 2 : d[k] = IF k < i THEN c[k] ELSE c[k + 1]
  BY DEF Closed
<1>2. \A k \in 1 .. n : s[k] = m[c[k - 1]].data
  BY DEF Data
<1>3. \A k \in 0 .. n - 1 : k # i => M[c[k]].data = m[c[k]].data
  BY DEF SameData
<1>4. Len(s) = n
  OBVIOUS
<1> HIDE DEF d, s
<1>5. ASSUME NEW k \in 1 .. n - 1
      PROVE  M[d[k - 1]].data = IF k <= i THEN s[k] ELSE s[k + 1]
  <2>1. /\ k - 1 \in 0 .. n - 2 /\ (k <= i <=> k - 1 < i) /\ (k - 1) + 1 = k /\ (k + 1) - 1 = k
        /\ k - 1 \in 0 .. n - 1 /\ k \in 0 .. n - 1 /\ k \in 1 .. n /\ k + 1 \in 1 .. n
        /\ k <= i => k - 1 # i
        /\ ~(k <= i) => k # i
    OBVIOUS
  <2>2. d[k - 1] = IF k <= i THEN c[k - 1] ELSE c[k]
    BY <1>1, <2>1
  <2>3. s[k] = m[c[k - 1]].data /\ s[k + 1] = m[c[k]].data
    BY <1>2, <2>1
  <2> QED
    BY <1>3, <2>1, <2>2, <2>3
<1>6. [k \in 1 .. n - 1 |-> M[d[k - 1]].data]
        = [k \in 1 .. n - 1 |-> IF k <= i THEN s[k] ELSE s[k + 1]]
  BY <1>5
<1>7. Data(M, n - 1, d) = Without(s, i)
  BY <1>4, <1>6 DEF Data, Without
<1> QED
  BY <1>7 DEF d, s

-----------------------------------------------------------------------------
(* A chain that ends in NULL.                                              *)

On(c, n, x) == \E k \in 0 .. n - 1 : c[k] = x

\* From p, link leads through the n nodes of c, each once, and ends.
Strand(link, p, n, c) ==
  /\ n \in Nat /\ Runs(link, p, c, n, NULL)
  /\ \A j, k \in 0 .. n - 1 : c[j] = c[k] => j = k

\* The links of its nodes are all that it depends on.
LEMMA StrandStays ==
  ASSUME NEW link, NEW p, NEW n, NEW c, Strand(link, p, n, c),
         NEW L, \A x : On(c, n, x) => x \in DOMAIN L /\ L[x] = link[x]
  PROVE  Strand(L, p, n, c)
<1>1. \A k \in 0 .. n - 1 : c[k] \in DOMAIN L /\ L[c[k]] = link[c[k]]
  BY DEF On
<1> QED
  BY <1>1 DEF Strand, Runs

\* Its nodes are allocated, and where it begins.
LEMMA StrandNodes ==
  ASSUME NEW link, NEW p, NEW n, NEW c, Strand(link, p, n, c)
  PROVE  /\ n \in Nat /\ \A x : On(c, n, x) => x \in DOMAIN link
         /\ n = 0 => p = NULL
         /\ n > 0 => p = c[0] /\ On(c, n, p)
<1>1. n > 0 => 0 \in 0 .. n - 1 /\ n # 0
  BY DEF Strand
<1> QED
  BY <1>1 DEF Strand, Runs, On

\* L differs from link in that a was linked in after the first i of c.
Spliced(link, L, c, n, i, a) ==
  /\ a \in DOMAIN L /\ L[a] = IF i = n THEN NULL ELSE c[i]
  /\ \A k \in 0 .. n - 1 : c[k] \in DOMAIN L /\ L[c[k]] = IF k = i - 1 THEN a ELSE link[c[k]]

\* L differs from link in that the one after the first i was taken out.
Cut(link, L, c, n, i) ==
  \A k \in 0 .. n - 1 :
    k # i => c[k] \in DOMAIN L /\ L[c[k]] = IF k = i - 1 THEN link[c[i]] ELSE link[c[k]]

\* Linking a node in makes a longer chain.
LEMMA StrandInsert ==
  ASSUME NEW link, NEW p, NEW n, NEW c, Strand(link, p, n, c), NEW a, ~On(c, n, a),
         NEW L, NEW i \in 0 .. n, Spliced(link, L, c, n, i, a), NEW P, P = IF i = 0 THEN a ELSE p
  PROVE  /\ Strand(L, P, n + 1, Squeezed(c, n, i, a))
         /\ \A x : On(Squeezed(c, n, i, a), n + 1, x) <=> x = a \/ On(c, n, x)
<1> DEFINE d == Squeezed(c, n, i, a)
           Old(k) == IF k < i THEN k ELSE k - 1
           New(k) == IF k < i THEN k ELSE k + 1
<1>0. n \in Nat /\ n + 1 \in Nat /\ (n + 1) - 1 = n /\ n + 1 # 0 /\ 0 \in 0 .. n /\ i \in Nat
  BY DEF Strand
<1>1. /\ \A k \in 0 .. n - 1 : link[c[k]] = IF k = n - 1 THEN NULL ELSE c[k + 1]
      /\ p = IF n = 0 THEN NULL ELSE c[0]
      /\ \A j, k \in 0 .. n - 1 : c[j] = c[k] => j = k
  BY DEF Strand, Runs
<1>2. d[i] = a /\ \A k \in 0 .. n : k # i => d[k] = c[Old(k)]
  <2>1. \A k \in 0 .. n : k # i => (k < i => Old(k) = k) /\ (~(k < i) => Old(k) = k - 1)
    BY <1>0
  <2> QED
    BY <1>0, <2>1 DEF Squeezed
<1> HIDE DEF d
<1>3. \A k \in 0 .. n : k # i => Old(k) \in 0 .. n - 1 /\ New(Old(k)) = k
  BY <1>0
<1>4. \A k \in 0 .. n - 1 : New(k) \in 0 .. n /\ New(k) # i /\ Old(New(k)) = k
  BY <1>0
<1>5. \A x : (\E k \in 0 .. n : d[k] = x) <=> x = a \/ \E k \in 0 .. n - 1 : c[k] = x
  <2> TAKE x
  <2>1. ASSUME NEW k \in 0 .. n, d[k] = x PROVE x = a \/ \E j \in 0 .. n - 1 : c[j] = x
    <3> HIDE DEF Old, New
    <3> QED
      BY <1>2, <1>3, <2>1
  <2>2. ASSUME NEW k \in 0 .. n - 1, c[k] = x PROVE \E j \in 0 .. n : d[j] = x
    <3> HIDE DEF Old, New
    <3>1. New(k) \in 0 .. n /\ d[New(k)] = c[k]
      BY <1>2, <1>4
    <3> QED
      BY <2>2, <3>1
  <2>3. x = a => \E j \in 0 .. n : d[j] = x
    BY <1>2
  <2> QED
    BY <2>1, <2>2, <2>3
<1>6. ASSUME NEW j \in 0 .. n, NEW k \in 0 .. n, d[j] = d[k] PROVE j = k
  <2>1. \A x \in 0 .. n : x # i => d[x] # a
    <3> HIDE DEF Old, New
    <3> QED
      BY <1>2, <1>3 DEF On
  <2>2. CASE j = i \/ k = i
    BY <1>2, <1>6, <2>1, <2>2
  <2>3. CASE j # i /\ k # i
    <3> HIDE DEF Old, New
    <3>1. c[Old(j)] = c[Old(k)] /\ Old(j) \in 0 .. n - 1 /\ Old(k) \in 0 .. n - 1
      BY <1>2, <1>3, <1>6, <2>3
    <3>2. Old(j) = Old(k)
      BY <1>1, <3>1
    <3> QED
      BY <1>3, <2>3, <3>2
  <2> QED
    BY <2>2, <2>3
<1>7. ASSUME NEW k \in 0 .. n PROVE d[k] \in DOMAIN L /\ L[d[k]] = IF k = n THEN NULL ELSE d[k + 1]
  <2>1. CASE k < i
    <3>1. k # i /\ Old(k) = k /\ k \in 0 .. n - 1 /\ k # n
      BY <1>0, <2>1
    <3>2. d[k] = c[k] /\ d[k] \in DOMAIN L /\ L[d[k]] = IF k = i - 1 THEN a ELSE link[c[k]]
      <4> HIDE DEF Old
      <4> QED
        BY <1>2, <3>1 DEF Spliced
    <3>3. CASE k = i - 1
      BY <1>0, <1>2, <3>1, <3>2, <3>3
    <3>4. CASE k # i - 1
      <4>1. k + 1 \in 0 .. n /\ k + 1 # i /\ Old(k + 1) = k + 1 /\ k # n - 1
        BY <1>0, <2>1, <3>4
      <4> HIDE DEF Old
      <4>2. d[k + 1] = c[k + 1]
        BY <1>2, <4>1
      <4> QED
        BY <1>1, <3>1, <3>2, <3>4, <4>1, <4>2
    <3> QED
      BY <3>3, <3>4
  <2>2. CASE k = i
    <3>1. k # n => k + 1 \in 0 .. n /\ k + 1 # i /\ Old(k + 1) = i
      BY <1>0, <2>2
    <3> HIDE DEF Old
    <3> QED
      BY <1>2, <2>2, <3>1 DEF Spliced
  <2>3. CASE k > i
    <3>1. /\ k # i /\ Old(k) = k - 1 /\ k - 1 \in 0 .. n - 1 /\ k - 1 # i - 1
          /\ (k - 1 = n - 1 <=> k = n) /\ (k - 1) + 1 = k
          /\ k # n => k + 1 \in 0 .. n /\ k + 1 # i /\ Old(k + 1) = k
      BY <1>0, <2>3
    <3> HIDE DEF Old
    <3>2. d[k] = c[k - 1] /\ (k # n => d[k + 1] = c[k])
      BY <1>2, <3>1
    <3>3. c[k - 1] \in DOMAIN L /\ L[c[k - 1]] = link[c[k - 1]]
      BY <3>1 DEF Spliced
    <3>4. link[c[k - 1]] = IF k = n THEN NULL ELSE c[k]
      BY <1>1, <3>1
    <3> QED
      BY <3>2, <3>3, <3>4
  <2> QED
    BY <1>0, <2>1, <2>2, <2>3
<1>8. P = d[0]
  <2>1. i # 0 => 0 # i /\ Old(0) = 0 /\ n # 0
    BY <1>0
  <2> HIDE DEF Old
  <2> QED
    BY <1>0, <1>1, <1>2, <2>1
<1> HIDE DEF Old, New
<1>9. Strand(L, P, n + 1, d)
  BY <1>0, <1>6, <1>7, <1>8 DEF Strand, Runs
<1>10. \A x : On(d, n + 1, x) <=> x = a \/ On(c, n, x)
  BY <1>0, <1>5 DEF On
<1> QED
  BY <1>9, <1>10 DEF d

\* Taking a node out makes a shorter one.
LEMMA StrandRemove ==
  ASSUME NEW link, NEW p, NEW n, NEW c, Strand(link, p, n, c), NEW L, NEW i \in 0 .. n - 1,
         Cut(link, L, c, n, i), NEW P, P = IF i = 0 THEN link[c[0]] ELSE p
  PROVE  /\ Strand(L, P, n - 1, Closed(c, n, i))
         /\ \A x : On(Closed(c, n, i), n - 1, x) <=> On(c, n, x) /\ x # c[i]
<1> DEFINE d == Closed(c, n, i)
           Old(k) == IF k < i THEN k ELSE k + 1
           New(k) == IF k < i THEN k ELSE k - 1
<1>0. n \in Nat /\ n - 1 \in Nat /\ (n - 1) - 1 = n - 2 /\ n # 0 /\ i \in Nat /\ 0 \in 0 .. n - 1
  BY DEF Strand
<1>1. /\ \A k \in 0 .. n - 1 : link[c[k]] = IF k = n - 1 THEN NULL ELSE c[k + 1]
      /\ p = c[0]
      /\ \A j, k \in 0 .. n - 1 : c[j] = c[k] => j = k
  BY <1>0 DEF Strand, Runs
<1>2. \A k \in 0 .. n - 2 : d[k] = c[Old(k)]
  <2>1. \A k \in 0 .. n - 2 : (k < i => Old(k) = k) /\ (~(k < i) => Old(k) = k + 1)
    OBVIOUS
  <2> QED
    BY <2>1 DEF Closed
<1> HIDE DEF d
<1>3. \A k \in 0 .. n - 2 : Old(k) \in 0 .. n - 1 /\ Old(k) # i /\ New(Old(k)) = k
  BY <1>0
<1>4. \A k \in 0 .. n - 1 : k # i => New(k) \in 0 .. n - 2 /\ Old(New(k)) = k
  BY <1>0
<1>5. \A x : (\E k \in 0 .. n - 2 : d[k] = x) <=> (\E k \in 0 .. n - 1 : c[k] = x) /\ x # c[i]
  <2> TAKE x
  <2> HIDE DEF Old, New
  <2>1. ASSUME NEW k \in 0 .. n - 2, d[k] = x PROVE (\E j \in 0 .. n - 1 : c[j] = x) /\ x # c[i]
    BY <1>1, <1>2, <1>3, <2>1
  <2>2. ASSUME NEW k \in 0 .. n - 1, c[k] = x, x # c[i] PROVE \E j \in 0 .. n - 2 : d[j] = x
    <3>1. New(k) \in 0 .. n - 2 /\ d[New(k)] = c[k]
      BY <1>2, <1>4, <2>2
    <3> QED
      BY <2>2, <3>1
  <2> QED
    BY <2>1, <2>2
<1>6. ASSUME NEW j \in 0 .. n - 2, NEW k \in 0 .. n - 2, d[j] = d[k] PROVE j = k
  <2> HIDE DEF Old, New
  <2>1. c[Old(j)] = c[Old(k)] /\ Old(j) \in 0 .. n - 1 /\ Old(k) \in 0 .. n - 1
    BY <1>2, <1>3, <1>6
  <2>2. Old(j) = Old(k)
    BY <1>1, <2>1
  <2> QED
    BY <1>3, <2>2
<1>7. ASSUME NEW k \in 0 .. n - 2
      PROVE  d[k] \in DOMAIN L /\ L[d[k]] = IF k = n - 2 THEN NULL ELSE d[k + 1]
  <2>1. CASE k < i - 1
    <3>1. /\ Old(k) = k /\ k \in 0 .. n - 1 /\ k # i /\ k # i - 1 /\ k # n - 1 /\ k # n - 2
          /\ k + 1 \in 0 .. n - 2 /\ Old(k + 1) = k + 1
      BY <1>0, <2>1
    <3> HIDE DEF Old
    <3>2. d[k] = c[k] /\ d[k + 1] = c[k + 1]
      BY <1>2, <3>1
    <3> QED
      BY <1>1, <3>1, <3>2 DEF Cut
  <2>2. CASE k = i - 1
    <3>1. /\ Old(k) = k /\ k \in 0 .. n - 1 /\ k # i /\ (k = n - 2 <=> i = n - 1)
          /\ k # n - 2 => k + 1 \in 0 .. n - 2 /\ Old(k + 1) = i + 1
      BY <1>0, <2>2
    <3> HIDE DEF Old
    <3>2. d[k] = c[k] /\ (k # n - 2 => d[k + 1] = c[i + 1])
      BY <1>2, <3>1
    <3>3. c[k] \in DOMAIN L /\ L[c[k]] = link[c[i]]
      BY <2>2, <3>1 DEF Cut
    <3> QED
      BY <1>1, <3>1, <3>2, <3>3
  <2>3. CASE k >= i
    <3>1. /\ Old(k) = k + 1 /\ k + 1 \in 0 .. n - 1 /\ k + 1 # i /\ k + 1 # i - 1
          /\ (k + 1 = n - 1 <=> k = n - 2)
          /\ k # n - 2 => k + 1 \in 0 .. n - 2 /\ Old(k + 1) = k + 1 + 1
      BY <1>0, <2>3
    <3> HIDE DEF Old
    <3>2. d[k] = c[k + 1] /\ (k # n - 2 => d[k + 1] = c[k + 1 + 1])
      BY <1>2, <3>1
    <3>3. c[k + 1] \in DOMAIN L /\ L[c[k + 1]] = link[c[k + 1]]
      BY <3>1 DEF Cut
    <3> QED
      BY <1>1, <3>1, <3>2, <3>3
  <2> QED
    BY <1>0, <2>1, <2>2, <2>3
<1>8. P = IF n - 1 = 0 THEN NULL ELSE d[0]
  <2>1. /\ n - 1 # 0 => 0 \in 0 .. n - 2 /\ Old(0) = IF i = 0 THEN 1 ELSE 0
        /\ (0 = n - 1 <=> n - 1 = 0) /\ 0 + 1 = 1 /\ (i # 0 => n - 1 # 0)
    BY <1>0
  <2>2. link[c[0]] = IF 0 = n - 1 THEN NULL ELSE c[0 + 1]
    BY <1>0, <1>1
  <2>3. n - 1 # 0 => d[0] = IF i = 0 THEN c[1] ELSE c[0]
    <3> HIDE DEF Old
    <3> QED
      BY <1>2, <2>1
  <2> HIDE DEF Old
  <2> QED
    BY <1>1, <2>1, <2>2, <2>3
<1> HIDE DEF Old, New
<1>9. Strand(L, P, n - 1, d)
  BY <1>0, <1>6, <1>7, <1>8 DEF Strand, Runs
<1>10. \A x : On(d, n - 1, x) <=> On(c, n, x) /\ x # c[i]
  BY <1>0, <1>5 DEF On
<1> QED
  BY <1>9, <1>10 DEF d

\* As many nodes lie on it as it has steps, ...
LEMMA StrandCardinality ==
  ASSUME NEW link, NEW p, NEW n, NEW c, Strand(link, p, n, c), NEW N, \A x : x \in N <=> On(c, n, x)
  PROVE  IsFiniteSet(N) /\ Cardinality(N) = n
<1> DEFINE f == [k \in 0 .. n - 1 |-> c[k]]
<1>1. IsFiniteSet(0 .. n - 1) /\ Cardinality(0 .. n - 1) = n
  <2>1. n - 1 \in Int /\ 0 \in Int /\ (0 > n - 1 <=> n = 0) /\ (n - 1) - 0 + 1 = n
    BY DEF Strand
  <2>2. Cardinality(0 .. n - 1) = IF 0 > n - 1 THEN 0 ELSE (n - 1) - 0 + 1
    BY <2>1, FS_Interval
  <2>3. IsFiniteSet(0 .. n - 1)
    BY <2>1, FS_Interval
  <2> QED
    BY <2>1, <2>2, <2>3
<1>2. f \in [0 .. n - 1 -> N] /\ \A x \in N : \E k \in 0 .. n - 1 : f[k] = x
  BY DEF On
<1>3. \A j, k \in 0 .. n - 1 : f[j] = f[k] => j = k
  BY DEF Strand
<1> HIDE DEF f
<1>4. f \in Bijection(0 .. n - 1, N)
  BY <1>2, <1>3 DEF Bijection, Injection, Surjection, IsInjective
<1>5. ExistsBijection(0 .. n - 1, N)
  BY <1>4 DEF ExistsBijection
<1>6. IsFiniteSet(N) /\ Cardinality(N) = Cardinality(0 .. n - 1)
  BY <1>1, <1>5, FS_Bijection
<1> QED
  BY <1>1, <1>6

\* ... and no more than are allocated.
LEMMA StrandFits ==
  ASSUME NEW link, NEW p, NEW n, NEW c, Strand(link, p, n, c), IsFiniteSet(DOMAIN link)
  PROVE  Cardinality(DOMAIN link) \in Nat /\ n <= Cardinality(DOMAIN link)
<1> DEFINE N == {x \in DOMAIN link : On(c, n, x)}
<1>1. \A x : x \in N <=> On(c, n, x)
  BY StrandNodes
<1>2. N \in SUBSET DOMAIN link
  OBVIOUS
<1> HIDE DEF N
<1>3. Cardinality(N) = n
  BY <1>1, StrandCardinality
<1>4. Cardinality(N) <= Cardinality(DOMAIN link)
  BY <1>2, FS_Subset
<1>5. Cardinality(DOMAIN link) \in Nat
  BY FS_CardinalityType
<1> QED
  BY <1>3, <1>4, <1>5

\* It is the chain from its first node.
LEMMA StrandChain ==
  ASSUME NEW m, NULL \notin DOMAIN m, IsFiniteSet(DOMAIN m),
         NEW p, NEW n, NEW c, Strand(NextOf(m), p, n, c)
  PROVE  Chain(m, p) = [k \in 1 .. n |-> c[k - 1]]
<1> DEFINE link == NextOf(m)
           s == Cardinality(DOMAIN m)
<1>1. DOMAIN link = DOMAIN m
  BY DEF NextOf
<1>2. n \in Nat /\ Runs(link, p, c, n, NULL)
  BY DEF Strand
<1> HIDE DEF link
<1>3. Cardinality(DOMAIN link) \in Nat /\ n <= Cardinality(DOMAIN link)
  BY <1>1, StrandFits DEF link
<1>4. s \in Nat /\ n <= s
  BY <1>1, <1>3
<1> HIDE DEF s
<1>5. s = n \/ (s > n /\ NULL \notin DOMAIN link)
  BY <1>1, <1>2, <1>4
<1>6. ChainAlong(link, p, s) = [k \in 1 .. n |-> c[k - 1]]
  BY <1>1, <1>2, <1>4, <1>5, ChainRuns
<1> QED
  BY <1>6 DEF Chain, link, s

\* What is left of m without the n nodes of c
Freed(m, n, c) == [x \in {y \in DOMAIN m : ~On(c, n, y)} |-> m[x]]

\* Freeing along it leaves the other nodes.
LEMMA StrandFree ==
  ASSUME NEW m, NULL \notin DOMAIN m, IsFiniteSet(DOMAIN m),
         NEW p, NEW n, NEW c, Strand(NextOf(m), p, n, c)
  PROVE  FreeChain(m, p) = {Freed(m, n, c)}
<1> DEFINE s == Cardinality(DOMAIN m)
           at == Met(NextOf(m), p, s)
           ends == {j \in DOMAIN at : at[j] = NULL /\ \A k \in 0 .. j - 1 : at[k] \in DOMAIN m}
           left(j) == [x \in DOMAIN m \ {at[k] : k \in 0 .. j - 1} |-> m[x]]
           rest == {y \in DOMAIN m : ~On(c, n, y)}
<1>1. FreeChain(m, p) = {left(j) : j \in ends}
  BY DEF FreeChain
<1>2. n \in Nat /\ Runs(NextOf(m), p, c, n, NULL)
  BY DEF Strand
<1>3. s \in Nat /\ n <= s
  <2>1. DOMAIN NextOf(m) = DOMAIN m
    BY DEF NextOf
  <2>2. Cardinality(DOMAIN NextOf(m)) \in Nat /\ n <= Cardinality(DOMAIN NextOf(m))
    BY <2>1, StrandFits
  <2> QED
    BY <2>1, <2>2
<1> HIDE DEF s
<1>4. \A k \in 0 .. s : k <= n => at[k] = IF k = n THEN NULL ELSE c[k]
  BY <1>2, <1>3, MetRuns
<1>5. DOMAIN at = 0 .. s
  BY <1>3, MetSteps
<1> HIDE DEF at
<1>6. \A k \in 0 .. n - 1 : at[k] = c[k] /\ at[k] \in DOMAIN m
  <2>1. \A k \in 0 .. n - 1 : k \in 0 .. s /\ k <= n /\ k # n
    BY <1>2, <1>3
  <2>2. \A k \in 0 .. n - 1 : c[k] \in DOMAIN m
    BY <1>2 DEF Runs, NextOf
  <2> QED
    BY <1>4, <2>1, <2>2
<1>7. at[n] = NULL /\ n \in 0 .. s
  BY <1>2, <1>3, <1>4
<1>8. n \in ends
  BY <1>5, <1>6, <1>7
<1>9. ASSUME NEW j \in ends PROVE j = n
  <2>1. j \in 0 .. s /\ at[j] = NULL /\ \A k \in 0 .. j - 1 : at[k] \in DOMAIN m
    BY <1>5
  <2>2. ASSUME j < n PROVE FALSE
    <3>1. j \in 0 .. n - 1
      BY <1>2, <2>1, <2>2
    <3> QED
      BY <1>6, <2>1, <3>1
  <2>3. ASSUME j > n PROVE FALSE
    <3>1. n \in 0 .. j - 1
      BY <1>2, <2>1, <2>3
    <3> QED
      BY <1>7, <2>1, <3>1
  <2> QED
    BY <1>2, <2>1, <2>2, <2>3
<1>10. DOMAIN m \ {at[k] : k \in 0 .. n - 1} = rest
  BY <1>6 DEF On
<1>11. left(n) = [x \in rest |-> m[x]]
  BY <1>10
<1> HIDE DEF ends, left, rest
<1>12. {left(j) : j \in ends} = {left(n)}
  BY <1>8, <1>9
<1> QED
  BY <1>1, <1>11, <1>12 DEF rest, Freed

-----------------------------------------------------------------------------
(* Several chains in one memory.                                           *)

\* From each head h[i], link leads through the n[i] nodes of c[i] to NULL; the
\* chains have no node in common, and every node is on one.
Apart(link, h, n, c) ==
  /\ \A i \in DOMAIN h : Strand(link, h[i], n[i], c[i])
  /\ \A x : x \in DOMAIN link <=> \E i \in DOMAIN h : On(c[i], n[i], x)
  /\ \A i, j \in DOMAIN h : \A x : On(c[i], n[i], x) /\ On(c[j], n[j], x) => i = j

\* The chains are the same, except perhaps that of i.
SameBut(i, h, n, c, H, N, C) ==
  /\ DOMAIN H = DOMAIN h /\ i \in DOMAIN h
  /\ \A j \in DOMAIN h : j # i => H[j] = h[j] /\ N[j] = n[j] /\ C[j] = c[j]

\* The n nodes of c became the N nodes of C; new ones were not allocated.
Replaced(link, L, n, c, N, C) ==
  \A x : /\ x \in DOMAIN L <=> On(C, N, x) \/ (x \in DOMAIN link /\ ~On(c, n, x))
         /\ x \in DOMAIN link /\ ~On(c, n, x) => L[x] = link[x]
         /\ On(C, N, x) => On(c, n, x) \/ x \notin DOMAIN link

\* A chain that changes does not get in the way of the others.
LEMMA ApartReplace ==
  ASSUME NEW link, NEW h, NEW n, NEW c, Apart(link, h, n, c),
         NEW i, NEW H, NEW N, NEW C, SameBut(i, h, n, c, H, N, C),
         NEW L, Strand(L, H[i], N[i], C[i]), Replaced(link, L, n[i], c[i], N[i], C[i])
  PROVE  Apart(L, H, N, C)
<1>1. ASSUME NEW j \in DOMAIN H, j # i
      PROVE  /\ Strand(link, H[j], N[j], C[j]) /\ N[j] = n[j] /\ C[j] = c[j]
             /\ \A x : On(C[j], N[j], x) => x \in DOMAIN link /\ ~On(c[i], n[i], x)
  <2>1. j \in DOMAIN h /\ i \in DOMAIN h /\ H[j] = h[j] /\ N[j] = n[j] /\ C[j] = c[j]
    BY <1>1 DEF SameBut
  <2>2. Strand(link, H[j], N[j], C[j])
    BY <2>1 DEF Apart
  <2>3. \A x : On(C[j], N[j], x) => x \in DOMAIN link /\ ~On(c[i], n[i], x)
    BY <1>1, <2>1 DEF Apart
  <2> QED
    BY <2>1, <2>2, <2>3
<1>2. ASSUME NEW j \in DOMAIN H PROVE Strand(L, H[j], N[j], C[j])
  <2>1. CASE j = i
    BY <2>1
  <2>2. CASE j # i
    <3>1. \A x : On(C[j], N[j], x) => x \in DOMAIN L /\ L[x] = link[x]
      BY <1>1, <2>2 DEF Replaced
    <3> QED
      BY <1>1, <2>2, <3>1, StrandStays
  <2> QED
    BY <2>1, <2>2
<1>3. ASSUME NEW x PROVE x \in DOMAIN L <=> \E j \in DOMAIN H : On(C[j], N[j], x)
  <2>1. ASSUME NEW j \in DOMAIN H, On(C[j], N[j], x) PROVE x \in DOMAIN L
    BY <1>1, <2>1 DEF Replaced
  <2>2. ASSUME x \in DOMAIN L PROVE \E j \in DOMAIN H : On(C[j], N[j], x)
    <3>1. i \in DOMAIN H
      BY DEF SameBut
    <3>2. CASE On(C[i], N[i], x)
      BY <3>1, <3>2
    <3>3. CASE ~On(C[i], N[i], x)
      <4>1. x \in DOMAIN link /\ ~On(c[i], n[i], x)
        BY <2>2, <3>3 DEF Replaced
      <4>2. PICK j \in DOMAIN h : On(c[j], n[j], x)
        BY <4>1 DEF Apart
      <4>3. j # i
        BY <4>1, <4>2
      <4> QED
        BY <4>2, <4>3 DEF SameBut
    <3> QED
      BY <3>2, <3>3
  <2> QED
    BY <2>1, <2>2
<1>4. ASSUME NEW j \in DOMAIN H, NEW k \in DOMAIN H, NEW x, On(C[j], N[j], x), On(C[k], N[k], x)
      PROVE  j = k
  <2>1. CASE j = i \/ k = i
    BY <1>1, <1>4, <2>1 DEF Replaced
  <2>2. CASE j # i /\ k # i
    <3>1. j \in DOMAIN h /\ k \in DOMAIN h /\ On(c[j], n[j], x) /\ On(c[k], n[k], x)
      BY <1>4, <2>2 DEF SameBut
    <3> QED
      BY <3>1 DEF Apart
  <2> QED
    BY <2>1, <2>2
<1> QED
  BY <1>2, <1>3, <1>4 DEF Apart

\* The chains of K are kept with their nodes; the others are empty or gone.
Kept(K, h, n, c, H, N, C) ==
  /\ \A j \in K : j \in DOMAIN h /\ j \in DOMAIN H
  /\ \A j \in K : H[j] = h[j] /\ N[j] = n[j] /\ C[j] = c[j]
  /\ \A j \in DOMAIN H : j \notin K => H[j] = NULL /\ N[j] = 0

\* Keeping only some of the chains keeps those apart.
LEMMA ApartKeep ==
  ASSUME NEW link, NEW h, NEW n, NEW c, Apart(link, h, n, c),
         NEW K, NEW H, NEW N, NEW C, Kept(K, h, n, c, H, N, C),
         NEW L, \A x : x \in DOMAIN L <=> \E j \in K : On(c[j], n[j], x),
         \A x \in DOMAIN L : L[x] = link[x]
  PROVE  Apart(L, H, N, C)
<1>1. ASSUME NEW j \in K
      PROVE  /\ j \in DOMAIN h /\ j \in DOMAIN H /\ N[j] = n[j] /\ C[j] = c[j]
             /\ Strand(L, H[j], N[j], C[j])
  <2>1. j \in DOMAIN h /\ j \in DOMAIN H /\ H[j] = h[j] /\ N[j] = n[j] /\ C[j] = c[j]
    BY DEF Kept
  <2>2. Strand(link, H[j], N[j], C[j])
    BY <2>1 DEF Apart
  <2>3. \A x : On(C[j], N[j], x) => x \in DOMAIN L /\ L[x] = link[x]
    BY <2>1
  <2> QED
    BY <2>1, <2>2, <2>3, StrandStays
<1>2. ASSUME NEW j \in DOMAIN H, j \notin K
      PROVE  Strand(L, H[j], N[j], C[j]) /\ \A x : ~On(C[j], N[j], x)
  <2>1. H[j] = NULL /\ N[j] = 0
    BY <1>2 DEF Kept
  <2>2. \A k \in 0 .. 0 - 1 : FALSE
    OBVIOUS
  <2> QED
    BY <2>1, <2>2 DEF Strand, Runs, On
<1>3. \A j \in DOMAIN H : Strand(L, H[j], N[j], C[j])
  BY <1>1, <1>2
<1>4. \A x : x \in DOMAIN L <=> \E j \in DOMAIN H : On(C[j], N[j], x)
  BY <1>1, <1>2
<1>5. ASSUME NEW j \in DOMAIN H, NEW k \in DOMAIN H, NEW x, On(C[j], N[j], x), On(C[k], N[k], x)
      PROVE  j = k
  <2>1. j \in K /\ k \in K
    BY <1>2, <1>5
  <2>2. j \in DOMAIN h /\ k \in DOMAIN h /\ On(c[j], n[j], x) /\ On(c[k], n[k], x)
    BY <1>1, <1>5, <2>1
  <2> QED
    BY <2>2 DEF Apart
<1> QED
  BY <1>3, <1>4, <1>5 DEF Apart

-----------------------------------------------------------------------------
(* Nodes that are linked in and taken out.                                 *)

\* M is m with a node at a, linked in after the first i of c, or at the head.
LinkedIn(m, M, p, c, i, a, node) ==
  /\ a \notin DOMAIN m /\ \A x : x \in DOMAIN M <=> x = a \/ x \in DOMAIN m
  /\ M[a] = node /\ node.next = IF i = 0 THEN p ELSE m[c[i - 1]].next
  /\ \A x \in DOMAIN m : i = 0 \/ x # c[i - 1] => M[x] = m[x]
  /\ i # 0 => M[c[i - 1]] = [m[c[i - 1]] EXCEPT !.next = a]

\* M is m without the node after the first i of c.
TakenOut(m, M, c, i) ==
  /\ \A x : x \in DOMAIN M <=> x \in DOMAIN m /\ x # c[i]
  /\ \A x \in DOMAIN M : i = 0 \/ x # c[i - 1] => M[x] = m[x]
  /\ i # 0 => M[c[i - 1]] = [m[c[i - 1]] EXCEPT !.next = m[c[i]].next]

\* A node has a link.
HasNext(m) == \A x \in DOMAIN m : "next" \in DOMAIN m[x]

\* Then the chain is longer by that node, and no other changes.
LEMMA LinkInStrand ==
  ASSUME NEW m, HasNext(m), NEW p, NEW n, NEW c, Strand(NextOf(m), p, n, c), NEW i \in 0 .. n,
         NEW M, NEW a, NEW node, LinkedIn(m, M, p, c, i, a, node), NEW P, P = IF i = 0 THEN a ELSE p
  PROVE  /\ Strand(NextOf(M), P, n + 1, Squeezed(c, n, i, a))
         /\ Replaced(NextOf(m), NextOf(M), n, c, n + 1, Squeezed(c, n, i, a))
         /\ \A x : On(Squeezed(c, n, i, a), n + 1, x) <=> x = a \/ On(c, n, x)
<1> DEFINE link == NextOf(m)
           L == NextOf(M)
           d == Squeezed(c, n, i, a)
<1>1. n \in Nat /\ (\A x : On(c, n, x) => x \in DOMAIN link) /\ DOMAIN link = DOMAIN m
  BY StrandNodes DEF NextOf
<1>2. /\ \A x \in DOMAIN m : link[x] = m[x].next
      /\ \A x \in DOMAIN M : L[x] = M[x].next
      /\ DOMAIN L = DOMAIN M
  BY DEF NextOf
<1>3. /\ p = IF n = 0 THEN NULL ELSE c[0]
      /\ \A k \in 0 .. n - 1 : c[k] \in DOMAIN m /\ link[c[k]] = IF k = n - 1 THEN NULL ELSE c[k + 1]
      /\ \A j, k \in 0 .. n - 1 : c[j] = c[k] => j = k
  BY <1>1 DEF Strand, Runs
<1>4. i # 0 => i - 1 \in 0 .. n - 1 /\ (i - 1 = n - 1 <=> i = n) /\ (i - 1) + 1 = i
  BY <1>1
<1> HIDE DEF link, L
<1>5. \A x \in DOMAIN m : i = 0 \/ x # c[i - 1] => x \in DOMAIN M /\ L[x] = link[x]
  BY <1>2 DEF LinkedIn
<1>6. i # 0 => L[c[i - 1]] = a
  <2>1. i # 0 => c[i - 1] \in DOMAIN m /\ c[i - 1] \in DOMAIN M
    BY <1>3, <1>4 DEF LinkedIn
  <2>2. i # 0 => M[c[i - 1]].next = a
    BY <2>1 DEF LinkedIn, HasNext
  <2> QED
    BY <1>2, <2>1, <2>2
<1>7. a \in DOMAIN L /\ L[a] = IF i = n THEN NULL ELSE c[i]
  <2>1. a \in DOMAIN M /\ L[a] = IF i = 0 THEN p ELSE m[c[i - 1]].next
    BY <1>2 DEF LinkedIn
  <2>2. i # 0 => m[c[i - 1]].next = IF i = n THEN NULL ELSE c[i]
    BY <1>2, <1>3, <1>4
  <2>3. i = 0 => p = IF i = n THEN NULL ELSE c[i]
    BY <1>1, <1>3
  <2> QED
    BY <1>2, <2>1, <2>2, <2>3
<1>8. \A k \in 0 .. n - 1 : c[k] \in DOMAIN L /\ L[c[k]] = IF k = i - 1 THEN a ELSE link[c[k]]
  <2> TAKE k \in 0 .. n - 1
  <2>1. c[k] \in DOMAIN m /\ c[k] \in DOMAIN L
    BY <1>2, <1>3 DEF LinkedIn
  <2>2. CASE k = i - 1
    <3>1. i # 0
      BY <2>2
    <3> QED
      BY <1>6, <2>1, <2>2, <3>1
  <2>3. CASE k # i - 1
    <3>1. i = 0 \/ c[k] # c[i - 1]
      BY <1>3, <1>4, <2>3
    <3> QED
      BY <1>5, <2>1, <2>3, <3>1
  <2> QED
    BY <2>2, <2>3
<1>9. Spliced(link, L, c, n, i, a)
  BY <1>7, <1>8 DEF Spliced
<1>10. ~On(c, n, a)
  BY <1>1 DEF LinkedIn
<1>11. Strand(link, p, n, c)
  BY DEF link
<1> HIDE DEF d
<1>12. Strand(L, P, n + 1, d) /\ \A x : On(d, n + 1, x) <=> x = a \/ On(c, n, x)
  BY <1>9, <1>10, <1>11, StrandInsert DEF d
<1>13. ASSUME NEW x
       PROVE  /\ x \in DOMAIN L <=> On(d, n + 1, x) \/ (x \in DOMAIN link /\ ~On(c, n, x))
              /\ x \in DOMAIN link /\ ~On(c, n, x) => L[x] = link[x]
              /\ On(d, n + 1, x) => On(c, n, x) \/ x \notin DOMAIN link
  <2>1. x \in DOMAIN L <=> x = a \/ x \in DOMAIN link
    BY <1>1, <1>2 DEF LinkedIn
  <2>2. x \in DOMAIN link /\ ~On(c, n, x) => L[x] = link[x]
    <3>1. i # 0 => On(c, n, c[i - 1])
      BY <1>4 DEF On
    <3> QED
      BY <1>1, <1>5, <3>1
  <2> QED
    BY <1>1, <1>12, <2>1, <2>2 DEF LinkedIn
<1>14. Replaced(link, L, n, c, n + 1, d)
  BY <1>13 DEF Replaced
<1> QED
  BY <1>12, <1>14 DEF d, L, link

\* Then the chain is shorter by that node, and no other changes.
LEMMA TakeOutStrand ==
  ASSUME NEW m, HasNext(m), NEW p, NEW n, NEW c, Strand(NextOf(m), p, n, c), NEW i \in 0 .. n - 1,
         NEW M, TakenOut(m, M, c, i), NEW P, P = IF i = 0 THEN m[c[0]].next ELSE p
  PROVE  /\ Strand(NextOf(M), P, n - 1, Closed(c, n, i))
         /\ Replaced(NextOf(m), NextOf(M), n, c, n - 1, Closed(c, n, i))
         /\ \A x : On(Closed(c, n, i), n - 1, x) <=> On(c, n, x) /\ x # c[i]
<1> DEFINE link == NextOf(m)
           L == NextOf(M)
           d == Closed(c, n, i)
<1>1. n \in Nat /\ (\A x : On(c, n, x) => x \in DOMAIN link) /\ DOMAIN link = DOMAIN m
  BY StrandNodes DEF NextOf
<1>2. /\ \A x \in DOMAIN m : link[x] = m[x].next
      /\ \A x \in DOMAIN M : L[x] = M[x].next
      /\ DOMAIN L = DOMAIN M
  BY DEF NextOf
<1>3. /\ \A k \in 0 .. n - 1 : c[k] \in DOMAIN m
      /\ \A j, k \in 0 .. n - 1 : c[j] = c[k] => j = k
  BY <1>1 DEF Strand, Runs
<1>4. (i # 0 => i - 1 \in 0 .. n - 1 /\ i - 1 # i) /\ 0 \in 0 .. n - 1
  BY <1>1
<1> HIDE DEF link, L
<1>5. \A x \in DOMAIN M : i = 0 \/ x # c[i - 1] => L[x] = link[x]
  BY <1>2 DEF TakenOut
<1>6. i # 0 => c[i - 1] \in DOMAIN M /\ L[c[i - 1]] = link[c[i]]
  <2>1. i # 0 => c[i - 1] \in DOMAIN m /\ c[i - 1] # c[i] /\ c[i] \in DOMAIN m
    BY <1>3, <1>4
  <2>2. i # 0 => c[i - 1] \in DOMAIN M
    BY <2>1 DEF TakenOut
  <2>3. i # 0 => M[c[i - 1]].next = m[c[i]].next
    BY <2>1 DEF TakenOut, HasNext
  <2> QED
    BY <1>2, <2>1, <2>2, <2>3
<1>7. \A k \in 0 .. n - 1 :
        k # i => c[k] \in DOMAIN L /\ L[c[k]] = IF k = i - 1 THEN link[c[i]] ELSE link[c[k]]
  <2> TAKE k \in 0 .. n - 1
  <2>1. k # i => c[k] \in DOMAIN M
    BY <1>3 DEF TakenOut
  <2>2. CASE k = i - 1
    <3>1. i # 0
      BY <2>2
    <3> QED
      BY <1>2, <1>6, <2>2, <3>1
  <2>3. CASE k # i - 1
    <3>1. i = 0 \/ c[k] # c[i - 1]
      BY <1>3, <1>4, <2>3
    <3> QED
      BY <1>2, <1>5, <2>1, <2>3, <3>1
  <2> QED
    BY <2>2, <2>3
<1>8. Cut(link, L, c, n, i)
  BY <1>7 DEF Cut
<1>9. P = IF i = 0 THEN link[c[0]] ELSE p
  BY <1>2, <1>3, <1>4
<1>10. Strand(link, p, n, c)
  BY DEF link
<1> HIDE DEF d
<1>11. Strand(L, P, n - 1, d) /\ \A x : On(d, n - 1, x) <=> On(c, n, x) /\ x # c[i]
  BY <1>8, <1>9, <1>10, StrandRemove DEF d
<1>12. ASSUME NEW x
       PROVE  /\ x \in DOMAIN L <=> On(d, n - 1, x) \/ (x \in DOMAIN link /\ ~On(c, n, x))
              /\ x \in DOMAIN link /\ ~On(c, n, x) => L[x] = link[x]
              /\ On(d, n - 1, x) => On(c, n, x) \/ x \notin DOMAIN link
  <2>1. (x \in DOMAIN L <=> x \in DOMAIN link /\ x # c[i]) /\ On(c, n, c[i])
    BY <1>1, <1>2 DEF TakenOut, On
  <2>2. x \in DOMAIN link /\ ~On(c, n, x) => L[x] = link[x]
    <3>1. i # 0 => On(c, n, c[i - 1])
      BY <1>4 DEF On
    <3> QED
      BY <1>2, <1>5, <2>1, <3>1
  <2> QED
    BY <1>1, <1>11, <2>1, <2>2
<1>13. Replaced(link, L, n, c, n - 1, d)
  BY <1>12 DEF Replaced
<1> QED
  BY <1>11, <1>13 DEF d, L, link
=============================================================================
