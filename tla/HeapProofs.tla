----------------------------- MODULE HeapProofs -----------------------------
(***************************************************************************)
(* Facts about Heap for heaps of every size: what one turn of each loop    *)
(* of src/heap.c does to the order of the nodes, and what the order says   *)
(* of the first node.                                                      *)
(***************************************************************************)
EXTENDS Heap, FiniteSetTheorems, TLAPS

-----------------------------------------------------------------------------
(* Induction over the natural numbers, without an operator as parameter.   *)

\* A set of natural numbers that is not empty has a least member: of the
\* intervals from 0 to its members one has no proper part among them.
LEMMA LeastNumber ==
  ASSUME NEW T \in SUBSET Nat, T # {}
  PROVE  \E x \in T : \A y \in T : x <= y
<1> DEFINE Below == {0 .. x : x \in T}
<1>1. Below \subseteq FiniteSubsetsOf(Nat)
  <2>1. ASSUME NEW x \in T PROVE 0 .. x \in FiniteSubsetsOf(Nat)
    <3>1. IsFiniteSet(0 .. x)
      BY FS_Interval
    <3>2. QED
      BY <3>1 DEF FiniteSubsetsOf
  <2>2. QED
    BY <2>1
<1>2. Below # {}
  OBVIOUS
<1>3. PICK X \in Below : \A Y \in Below : ~(<<Y, X>> \in StrictSubsetOrdering(Nat))
  <2> HIDE DEF Below
  <2>1. QED
    BY <1>1, <1>2, FS_StrictSubsetOrderingWellFounded, WFMin
<1>4. PICK x \in T : X = 0 .. x
  OBVIOUS
<1>5. ASSUME NEW y \in T, y < x PROVE FALSE
  <2>1. /\ 0 .. y \in SUBSET Nat /\ 0 .. x \in SUBSET Nat /\ 0 .. y \subseteq 0 .. x
        /\ x \in 0 .. x /\ x \notin 0 .. y
    BY <1>5
  <2>2. <<0 .. y, 0 .. x>> \in StrictSubsetOrdering(Nat)
    BY <2>1 DEF StrictSubsetOrdering
  <2>3. 0 .. y \in Below
    OBVIOUS
  <2>4. QED
    BY <1>3, <1>4, <2>2, <2>3
<1>6. QED
  BY <1>5

-----------------------------------------------------------------------------
(* Nodes.                                                                  *)

\* A node is one of the two children of its parent, which stands before it.
LEMMA ParentAndChildren ==
  /\ \A c \in Nat \ {0} : /\ Parent(c) \in 0 .. c - 1
                          /\ c = LChild(Parent(c)) \/ c = RChild(Parent(c))
  /\ \A x \in Nat : /\ LChild(x) \in Nat /\ Parent(LChild(x)) = x /\ x < LChild(x)
                    /\ RChild(x) \in Nat /\ Parent(RChild(x)) = x /\ x < RChild(x)
                    /\ LChild(x) # RChild(x)
BY DEF Parent, LChild, RChild

\* An array of n elements that can be compared, in a block of m slots
Array(order, f, n, m) ==
  /\ n \in Nat /\ m \in Nat /\ n <= m /\ DOMAIN f = 0 .. m - 1
  /\ \A x \in 0 .. n - 1 : order[f[x]] \in Int

\* The order holds between all nodes from f on and their parents.
InHeap(order, g, n, f) ==
  \A c \in 1 .. n - 1 : Parent(c) >= f => ~Less(order, g[Parent(c)], g[c])

\* A swap of two slots swaps their elements and leaves the others alone.
LEMMA SwapExchanges ==
  ASSUME NEW order, NEW g, NEW n, NEW m, Array(order, g, n, m), NEW x \in 0 .. n - 1, NEW y \in 0 .. n - 1
  PROVE  /\ Swapped(g, x, y)[x] = g[y] /\ Swapped(g, x, y)[y] = g[x]
         /\ \A z \in 0 .. m - 1 : z # x /\ z # y => Swapped(g, x, y)[z] = g[z]
         /\ Array(order, Swapped(g, x, y), n, m)
<1> DEFINE h == Swapped(g, x, y)
<1>1. /\ DOMAIN h = DOMAIN g /\ h[x] = g[y] /\ h[y] = g[x]
      /\ \A z \in 0 .. m - 1 : z # x /\ z # y => h[z] = g[z]
  BY DEF Swapped, Array
<1>2. \A z \in 0 .. n - 1 : order[h[z]] \in Int
  BY <1>1 DEF Array
<1>3. QED
  BY <1>1, <1>2 DEF Array

-----------------------------------------------------------------------------
(* heap_sift_down                                                          *)

\* The node goes on to the larger one of its children, which is larger than it.
LEMMA LargestIsChild ==
  ASSUME NEW order, NEW g, NEW n, NEW m, Array(order, g, n, m), NEW x \in 0 .. n - 1,
         SiftsDown(order, g, n, x)
  PROVE  /\ Largest(order, g, n, x) \in x + 1 .. n - 1
         /\ Parent(Largest(order, g, n, x)) = x
         /\ Less(order, g[x], g[Largest(order, g, n, x)])
         /\ \A c \in 1 .. n - 1 : Parent(c) = x => ~Less(order, g[Largest(order, g, n, x)], g[c])
<1> DEFINE max == Largest(order, g, n, x)
           l == LChild(x)
           r == RChild(x)
<1>1. n \in Nat /\ x \in Nat /\ n # 1 /\ x <= Parent(n - 1) /\ max # x
  BY DEF Array, SiftsDown
<1>2. l \in x + 1 .. n - 1 /\ Parent(l) = x /\ r \in Nat /\ r > x /\ Parent(r) = x /\ l # r
  BY <1>1 DEF LChild, RChild, Parent
<1>3. \A c \in 1 .. n - 1 : Parent(c) = x => c = l \/ (c = r /\ r < n)
  BY <1>1, ParentAndChildren
<1>4. order[g[x]] \in Int /\ order[g[l]] \in Int /\ (r < n => order[g[r]] \in Int)
  BY <1>1, <1>2 DEF Array
<1>5. \/ max = l /\ order[g[x]] < order[g[l]] /\ (r < n => ~(order[g[l]] < order[g[r]]))
      \/ max = r /\ r < n /\ order[g[x]] < order[g[r]] /\ ~(order[g[r]] < order[g[l]])
  <2> HIDE DEF l, r
  <2>1. CASE order[g[x]] < order[g[l]]
    BY <1>1, <1>2, <1>4, <2>1 DEF Largest, Less, l, r
  <2>2. CASE ~(order[g[x]] < order[g[l]])
    BY <1>1, <1>2, <1>4, <2>2 DEF Largest, Less, l, r
  <2>3. QED
    BY <2>1, <2>2
<1>6. QED
  <2> HIDE DEF l, r, max
  <2>1. max \in x + 1 .. n - 1 /\ Parent(max) = x /\ order[g[x]] < order[g[max]]
    BY <1>1, <1>2, <1>5
  <2>2. \A c \in 1 .. n - 1 : Parent(c) = x => ~(order[g[max]] < order[g[c]])
    BY <1>3, <1>4, <1>5
  <2>3. QED
    BY <2>1, <2>2 DEF Less, max

\* One turn of the loop: the only node out of order is now the child.
LEMMA SiftTurn ==
  ASSUME NEW order, NEW g, NEW n, NEW m, Array(order, g, n, m), NEW f \in Nat, NEW x \in f .. n - 1,
         HeapBelow(order, g, n, f, x), SiftsDown(order, g, n, x)
  PROVE  LET max == Largest(order, g, n, x)
         IN  HeapBelow(order, Swapped(g, x, max), n, f, max)
<1> DEFINE max == Largest(order, g, n, x)
           h == Swapped(g, x, max)
<1>1. n \in Nat /\ x \in 0 .. n - 1 /\ m \in Nat /\ n <= m /\ \A z \in 0 .. n - 1 : order[g[z]] \in Int
  BY DEF Array
<1>2. /\ max \in x + 1 .. n - 1 /\ Parent(max) = x /\ order[g[x]] < order[g[max]]
      /\ \A c \in 1 .. n - 1 : Parent(c) = x => ~(order[g[max]] < order[g[c]])
  BY <1>1, LargestIsChild DEF Less
<1> HIDE DEF max
<1>3. /\ h[x] = g[max] /\ h[max] = g[x]
      /\ \A z \in 0 .. n - 1 : z # x /\ z # max => h[z] = g[z]
  BY <1>1, <1>2, SwapExchanges
<1>4. \A c \in 1 .. n - 1 :
        /\ Parent(c) >= f /\ Parent(c) # x => ~(order[g[Parent(c)]] < order[g[c]])
        /\ Parent(c) = x /\ x > 0 /\ Parent(x) >= f => ~(order[g[Parent(x)]] < order[g[c]])
  BY DEF HeapBelow, Less
<1> HIDE DEF h
<1>5. ASSUME NEW c \in 1 .. n - 1
      PROVE  /\ Parent(c) >= f /\ Parent(c) # max => ~(order[h[Parent(c)]] < order[h[c]])
             /\ Parent(c) = max /\ max > 0 /\ Parent(max) >= f => ~(order[h[Parent(max)]] < order[h[c]])
  <2>1. Parent(c) \in 0 .. n - 1 /\ Parent(c) < c /\ c \in Nat
    BY <1>1, ParentAndChildren
  <2>2. CASE Parent(c) = x
    BY <1>1, <1>2, <1>3, <2>1, <2>2
  <2>3. CASE Parent(c) # x /\ c = x
    BY <1>1, <1>2, <1>3, <1>4, <2>1, <2>3
  <2>4. CASE Parent(c) # x /\ c # x
    <3>1. c # max /\ h[c] = g[c]
      BY <1>1, <1>2, <1>3, <2>1, <2>4
    <3>2. CASE Parent(c) = max
      BY <1>1, <1>2, <1>3, <1>4, <2>1, <2>4, <3>1, <3>2
    <3>3. CASE Parent(c) # max
      BY <1>1, <1>2, <1>3, <1>4, <2>1, <2>4, <3>1, <3>3
    <3>4. QED
      BY <3>2, <3>3
  <2>5. QED
    BY <2>2, <2>3, <2>4
<1>6. QED
  BY <1>5 DEF HeapBelow, Less, h, max

\* Where the loop stops, the node is in order too.
LEMMA SiftStops ==
  ASSUME NEW order, NEW g, NEW n, NEW m, Array(order, g, n, m), NEW f \in Nat, NEW x \in f .. n - 1,
         HeapBelow(order, g, n, f, x), ~SiftsDown(order, g, n, x)
  PROVE  InHeap(order, g, n, f)
<1>1. n \in Nat /\ x \in 0 .. n - 1 /\ \A z \in 0 .. n - 1 : order[g[z]] \in Int
  BY DEF Array
<1>2. ASSUME NEW c \in 1 .. n - 1, Parent(c) >= f
      PROVE  ~Less(order, g[Parent(c)], g[c])
  <2>1. CASE Parent(c) # x
    BY <1>2, <2>1 DEF HeapBelow
  <2>2. CASE Parent(c) = x
    <3>1. c = LChild(x) \/ c = RChild(x)
      BY <2>2, ParentAndChildren
    <3>2. n # 1 /\ x <= Parent(n - 1) /\ LChild(x) \in 0 .. n - 1 /\ RChild(x) \in Nat /\ x # LChild(x)
          /\ x # RChild(x) /\ LChild(x) # RChild(x)
      BY <1>1, <2>2 DEF Parent, LChild, RChild
    <3>3. Largest(order, g, n, x) = x
      BY <3>2 DEF SiftsDown
    <3>4. ~Less(order, g[x], g[LChild(x)]) /\ (RChild(x) < n => ~Less(order, g[x], g[RChild(x)]))
      BY <3>2, <3>3 DEF Largest
    <3>5. QED
      BY <1>1, <2>2, <3>1, <3>4
  <2>3. QED
    BY <2>1, <2>2
<1>3. QED
  BY <1>2 DEF InHeap

\* Sifting may start at a node below which all are in order, ...
LEMMA SiftStarts ==
  ASSUME NEW order, NEW g, NEW n, NEW m, Array(order, g, n, m), NEW f \in Nat,
         InHeap(order, g, n, f + 1)
  PROVE  HeapBelow(order, g, n, f, f)
<1>1. n \in Nat
  BY DEF Array
<1>2. \A c \in 1 .. n - 1 : Parent(c) \in Nat
  BY <1>1, ParentAndChildren
<1>3. f > 0 => ~(Parent(f) >= f)
  BY ParentAndChildren
<1>4. QED
  BY <1>2, <1>3 DEF InHeap, HeapBelow

\* ... and a heap of which the last element was exchanged for the first is
\* one, but for the first, in the slots before the last.
LEMMA ExtractStarts ==
  ASSUME NEW order, NEW g, NEW n, NEW m, Array(order, g, n, m), n > 1, InHeap(order, g, n, 0)
  PROVE  HeapBelow(order, Swapped(g, 0, n - 1), n - 1, 0, 0)
<1> DEFINE h == Swapped(g, 0, n - 1)
<1>1. n \in Nat /\ 0 \in 0 .. n - 1 /\ n - 1 \in 0 .. n - 1 /\ 0 .. n - 1 \subseteq 0 .. m - 1
  BY DEF Array
<1>2. \A z \in 0 .. n - 1 : z # 0 /\ z # n - 1 => h[z] = g[z]
  <2>1. \A z \in 0 .. m - 1 : z # 0 /\ z # n - 1 => h[z] = g[z]
    BY <1>1 DEF Swapped, Array
  <2>2. QED
    BY <1>1, <2>1
<1> HIDE DEF h
<1>3. ASSUME NEW c \in 1 .. (n - 1) - 1, Parent(c) # 0
      PROVE  ~Less(order, h[Parent(c)], h[c])
  <2>1. Parent(c) \in 0 .. c - 1
    BY <1>1, ParentAndChildren
  <2>2. h[c] = g[c] /\ h[Parent(c)] = g[Parent(c)] /\ c \in 1 .. n - 1 /\ Parent(c) >= 0
    BY <1>1, <1>2, <1>3, <2>1
  <2>3. QED
    BY <2>2 DEF InHeap
<1>4. QED
  BY <1>3 DEF HeapBelow, h

\* With all nodes in order there is none to be excepted.
LEMMA InOrderBelow ==
  ASSUME NEW order, NEW g, NEW n, NEW m, Array(order, g, n, m), NEW f \in Nat,
         InHeap(order, g, n, f), NEW x \in Nat, x >= n
  PROVE  HeapBelow(order, g, n, f, x)
<1>1. n \in Nat
  BY DEF Array
<1>2. \A c \in 1 .. n - 1 : Parent(c) \in 0 .. n - 1
  BY <1>1, ParentAndChildren
<1>3. QED
  BY <1>1, <1>2 DEF InHeap, HeapBelow

-----------------------------------------------------------------------------
(* heap_bubble_up                                                          *)

\* A new last element is the only one that may be out of order.
LEMMA BubbleStarts ==
  ASSUME NEW order, NEW g, NEW n \in Nat, InHeap(order, g, n, 0),
         NEW h, \A x \in 0 .. n - 1 : h[x] = g[x]
  PROVE  HeapAbove(order, h, n + 1, n)
<1>1. ASSUME NEW c \in 1 .. (n + 1) - 1
      PROVE  /\ c # n => ~Less(order, h[Parent(c)], h[c])
             /\ Parent(c) # n
  <2>1. Parent(c) \in 0 .. c - 1
    BY ParentAndChildren
  <2>2. CASE c # n
    <3>1. h[c] = g[c] /\ h[Parent(c)] = g[Parent(c)] /\ c \in 1 .. n - 1 /\ Parent(c) >= 0
      BY <2>1, <2>2
    <3>2. QED
      BY <2>1, <3>1 DEF InHeap
  <2>3. QED
    BY <2>1, <2>2
<1>2. QED
  BY <1>1 DEF HeapAbove

\* One turn of the loop: the only node out of order is now the parent.
LEMMA BubbleTurn ==
  ASSUME NEW order, NEW g, NEW n, NEW m, Array(order, g, n, m), NEW x \in 0 .. n - 1,
         HeapAbove(order, g, n, x), BubblesUp(order, g, x)
  PROVE  /\ Parent(x) \in 0 .. n - 1
         /\ HeapAbove(order, Swapped(g, x, Parent(x)), n, Parent(x))
<1> DEFINE p == Parent(x)
           h == Swapped(g, x, p)
<1>1. /\ n \in Nat /\ x \in 1 .. n - 1 /\ 0 .. n - 1 \subseteq 0 .. m - 1
      /\ \A z \in 0 .. n - 1 : order[g[z]] \in Int
  BY DEF Array, BubblesUp
<1>2. p \in 0 .. n - 1 /\ p < x /\ order[g[p]] < order[g[x]] /\ (p > 0 => Parent(p) \in 0 .. p - 1)
  BY <1>1, ParentAndChildren DEF BubblesUp, Less
<1> HIDE DEF p
<1>3. /\ h[x] = g[p] /\ h[p] = g[x]
      /\ \A z \in 0 .. n - 1 : z # x /\ z # p => h[z] = g[z]
  BY <1>1, <1>2, SwapExchanges
<1>4. \A c \in 1 .. n - 1 :
        /\ c # x => ~(order[g[Parent(c)]] < order[g[c]])
        /\ Parent(c) = x /\ x > 0 => ~(order[g[p]] < order[g[c]])
  BY DEF HeapAbove, Less, p
<1> HIDE DEF h
<1>5. ASSUME NEW c \in 1 .. n - 1
      PROVE  /\ c # p => ~(order[h[Parent(c)]] < order[h[c]])
             /\ Parent(c) = p /\ p > 0 => ~(order[h[Parent(p)]] < order[h[c]])
  <2>1. Parent(c) \in 0 .. n - 1 /\ Parent(c) < c /\ c \in Nat
    BY <1>1, ParentAndChildren
  <2>2. CASE c = x
    <3>1. Parent(c) = p
      BY <2>2 DEF p
    <3>2. p > 0 => p \in 1 .. n - 1 /\ Parent(p) \in 0 .. n - 1 /\ Parent(p) # x /\ Parent(p) # p
      BY <1>1, <1>2
    <3>3. QED
      BY <1>1, <1>2, <1>3, <1>4, <2>1, <2>2, <3>1, <3>2
  <2>3. CASE c # x /\ Parent(c) = p
    <3>1. c # p /\ h[c] = g[c] /\ ~(order[g[p]] < order[g[c]])
      BY <1>2, <1>3, <1>4, <2>1, <2>3
    <3>2. p > 0 => /\ p \in 1 .. n - 1 /\ Parent(p) \in 0 .. n - 1 /\ Parent(p) # x /\ Parent(p) # p
                   /\ ~(order[g[Parent(p)]] < order[g[p]])
      BY <1>1, <1>2, <1>4
    <3>3. QED
      BY <1>1, <1>2, <1>3, <2>1, <2>3, <3>1, <3>2
  <2>4. CASE c # x /\ Parent(c) # p /\ c # p
    BY <1>1, <1>2, <1>3, <1>4, <2>1, <2>4
  <2>5. QED
    BY <2>2, <2>3, <2>4
<1>6. QED
  BY <1>2, <1>5 DEF HeapAbove, Less, h, p

\* Where the loop stops, all nodes are in order.
LEMMA BubbleStops ==
  ASSUME NEW order, NEW g, NEW n \in Nat, NEW x \in 0 .. n - 1,
         HeapAbove(order, g, n, x), ~BubblesUp(order, g, x)
  PROVE  InHeap(order, g, n, 0)
<1>1. ASSUME NEW c \in 1 .. n - 1 PROVE ~Less(order, g[Parent(c)], g[c])
  BY DEF HeapAbove, BubblesUp
<1>2. QED
  BY <1>1 DEF InHeap

-----------------------------------------------------------------------------
(* Heaps.                                                                  *)

\* is_heap looks at the children of all inner nodes, which are all nodes but
\* the first.
LEMMA IsHeapInOrder ==
  ASSUME NEW order, NEW g, NEW n \in Nat
  PROVE  IsHeap(order, g, n) <=> InHeap(order, g, n, 0)
<1>1. ASSUME IsHeap(order, g, n), NEW c \in 1 .. n - 1
      PROVE  ~Less(order, g[Parent(c)], g[c])
  <2>1. n > 1 /\ Parent(c) \in 0 .. Parent(n - 1) /\ (c = LChild(Parent(c)) \/ c = RChild(Parent(c)))
    BY ParentAndChildren DEF Parent
  <2>2. c < n
    OBVIOUS
  <2>3. QED
    BY <1>1, <2>1, <2>2 DEF IsHeap
<1>2. ASSUME InHeap(order, g, n, 0), n > 1, NEW x \in 0 .. Parent(n - 1)
      PROVE  /\ ~Less(order, g[x], g[LChild(x)])
             /\ RChild(x) < n => ~Less(order, g[x], g[RChild(x)])
  <2>1. x \in Nat /\ LChild(x) \in 1 .. n - 1
    BY <1>2 DEF Parent, LChild
  <2>2. RChild(x) < n => RChild(x) \in 1 .. n - 1
    BY <2>1 DEF RChild
  <2>3. Parent(LChild(x)) = x /\ Parent(RChild(x)) = x
    BY <2>1, ParentAndChildren
  <2>4. QED
    BY <1>2, <2>1, <2>2, <2>3 DEF InHeap
<1>3. QED
  BY <1>1, <1>2 DEF IsHeap, InHeap

\* The first node of a heap is a largest one: from any larger one the way to
\* the first would lead to a least node that is larger, and to its parent.
LEMMA FirstIsLargest ==
  ASSUME NEW order, NEW g, NEW n, NEW m, Array(order, g, n, m), InHeap(order, g, n, 0)
  PROVE  \A x \in 0 .. n - 1 : ~Less(order, g[0], g[x])
<1> DEFINE Larger == {x \in 0 .. n - 1 : Less(order, g[0], g[x])}
<1>1. n \in Nat /\ \A x \in 0 .. n - 1 : order[g[x]] \in Int
  BY DEF Array
<1>2. ASSUME Larger # {} PROVE FALSE
  <2>1. PICK x \in Larger : \A y \in Larger : x <= y
    <3>1. Larger \in SUBSET Nat
      BY <1>1
    <3>2. QED
      BY <1>2, <3>1, LeastNumber
  <2>2. x \in 1 .. n - 1 /\ order[g[0]] < order[g[x]]
    BY <1>1, <2>1 DEF Less
  <2>3. Parent(x) \in 0 .. x - 1
    BY <2>2, ParentAndChildren
  <2>4. ~(order[g[0]] < order[g[Parent(x)]])
    BY <1>1, <2>1, <2>2, <2>3 DEF Less
  <2>5. ~(order[g[Parent(x)]] < order[g[x]])
    BY <2>2, <2>3 DEF InHeap, Less
  <2>6. QED
    BY <1>1, <2>2, <2>3, <2>4, <2>5
<1>3. QED
  BY <1>2
=============================================================================
