---------------------------- MODULE SortingProofs ----------------------------
(***************************************************************************)
(* Proofs about Sorting, for arrays of every length over every ordering:   *)
(* no step of the three sorting functions loses an element, the scans of   *)
(* the partition stay inside of their range, and what is returned is in    *)
(* order.                                                                  *)
(***************************************************************************)
EXTENDS Sorting, HeapProofs, SequenceTheorems, FiniteSetTheorems, TLAPS

\* The frames of quicksort and mergesort: ranges of the array
Frames ==
  {f \in [do : {"sort", "merge"}, start : Nat, end : Nat] :
     f.start <= f.end /\ f.end <= Length}

\* What holds of the input of the call
Input ==
  /\ prog \in Programs
  /\ Length \in Nat /\ Slots = 0 .. Length - 1 /\ Length < SizeMax
  /\ rank \in [Slots -> Ranks]
  /\ prog = "heapsort" => Length > 0

Values == a \in [Slots -> Slots] /\ temp \in [DOMAIN temp -> Slots]

Indices == i \in Slots \cup {0, Length, SizeMax} /\ j \in -1 .. Length /\ k \in 0 .. Length

\* The elements in the slots S of an array
Content(f, S) == {f[x] : x \in S}

Permuted == Content(a, Slots) = Slots

InSort(what) == prog # "heapsort" /\ stack # <<>> /\ Head(stack).do = what

AtStart == pc = "start" => stack = <<>> /\ i = 0 /\ j = 0 /\ k = 0

\* Only quicksort and mergesort keep ranges on the stack.
Stacked ==
  /\ prog # "heapsort" => stack \in Seq(Frames)
  /\ prog = "heapsort" =>
       stack = <<>> \/ \E do \in {"heapify", "extract"} : stack = <<[do |-> do]>>

InInsertion ==
  pc = "insertion" =>
    InSort("sort") /\ i \in Start + 1 .. End /\ j \in Start .. i

Partitioning ==
  /\ prog = "quicksort" /\ InSort("sort") /\ End - Start >= 2
  /\ 1 \in DOMAIN temp

\* What the scans have passed, left of l and right of r
Passed(l, r) ==
  /\ \A x \in Start .. l - 1 : ~Before(temp[1], a[x])
  /\ \A x \in r .. End - 1 : ~Before(a[x], temp[1])

\* An element not below the pivot stops the upper scan, which is going to look
\* at l first, at j at the latest; in the first turn it is the pivot itself,
\* which is not the last element.
StopsUp(l) ==
  \E x \in l .. End - 1 : x <= j /\ (j = End => x < End - 1) /\ ~Before(a[x], temp[1])

\* An element not above the pivot stops the lower scan, at l - 1 at the latest.
StopsLow(l) ==
  \E y \in Start .. j - 1 : l - 1 <= y /\ ~Before(temp[1], a[y])

ScanningUp ==
  pc = "up" =>
    /\ Partitioning
    /\ i \in 0 .. SizeMax /\ j \in Start + 1 .. End
    /\ Next1(i) \in Start .. End - 1
    /\ Passed(Next1(i), j) /\ StopsUp(Next1(i)) /\ StopsLow(Next1(i))

ScanningDown ==
  pc = "down" =>
    /\ Partitioning
    /\ i \in Start .. End - 1 /\ j \in Start + 1 .. End
    /\ j = End => i < End - 1
    /\ ~Before(a[i], temp[1])
    /\ Passed(i, j) /\ StopsLow(i)

Meeting ==
  pc = "meet" =>
    /\ Partitioning
    /\ i \in Start .. End - 1 /\ j \in Start .. End - 1
    /\ i - 1 <= j /\ (j = End - 1 => i < End - 1)
    /\ ~Before(a[i], temp[1]) /\ ~Before(temp[1], a[j])
    /\ Passed(i, j + 1)

Merging ==
  pc = "merge" =>
    /\ InSort("merge")
    /\ i \in Start .. Middle /\ j \in Middle .. End /\ k = j - (Middle - i)
    /\ Start .. Middle - 1 \subseteq DOMAIN temp
    /\ Content(a, Slots \ (k .. j - 1)) \cup Content(temp, i .. Middle - 1) = Slots

\* heapsort: the heap has k elements, and the node that sinks is one of them.
Heaping ==
  /\ pc = "heapify" => prog = "heapsort" /\ k = Length /\ k > 0 /\ j \in -1 .. Length - 1
  /\ pc = "extract" => prog = "heapsort" /\ k = j + 1
  /\ pc = "sift" =>
       /\ prog = "heapsort" /\ k > 0 /\ i \in 0 .. k - 1 /\ stack # <<>>
       /\ Head(stack).do = "heapify" => k = Length /\ j \in 0 .. Length - 1
       /\ Head(stack).do = "extract" => j = k

Loops == {"insertion", "up", "down", "meet", "merge", "heapify", "extract", "sift"}

Inv ==
  /\ Input /\ Values /\ Indices /\ Stacked
  /\ pc \in Loops \cup {"start", "call", "done", "unsorted"}
  /\ pc # "merge" => Permuted
  /\ pc = "call" => prog # "heapsort"
  /\ AtStart /\ InInsertion /\ ScanningUp /\ ScanningDown /\ Meeting /\ Merging /\ Heaping

-----------------------------------------------------------------------------
(* Frames, indices and permutations.                                       *)

\* The running call is a range of the array, and the others stay when it
\* returns or is replaced by two or three calls on ranges.
LEMMA RunningFrame ==
  ASSUME Length \in Nat, stack \in Seq(Frames), stack # <<>>
  PROVE  /\ Start \in Nat /\ End \in Nat /\ Start <= End /\ End <= Length
         /\ Head(stack).do \in {"sort", "merge"}
         /\ Tail(stack) \in Seq(Frames)
<1>1. Head(stack) \in Frames /\ Tail(stack) \in Seq(Frames)
  BY HeadTailProperties
<1>2. QED
  BY <1>1 DEF Frames, Start, End

\* Pushing two or three entries leaves a stack of entries.
LEMMA MoreFrames ==
  ASSUME NEW rest \in Seq(Frames), NEW f \in Frames, NEW g \in Frames
  PROVE  /\ <<f, g>> \o rest \in Seq(Frames)
         /\ \A h \in Frames : <<f, g, h>> \o rest \in Seq(Frames)
<1>1. <<f, g>> \in Seq(Frames)
  OBVIOUS
<1>2. ASSUME NEW h \in Frames PROVE <<f, g, h>> \in Seq(Frames)
  OBVIOUS
<1>3. QED
  BY <1>1, <1>2, ConcatProperties

\* The ranges within the array are entries of the stack.
LEMMA RangeFrames ==
  ASSUME Length \in Nat, NEW s \in Nat, NEW e \in Nat, s <= e, e <= Length
  PROVE  Sort(s, e) \in Frames /\ Merge(s, e) \in Frames
BY DEF Sort, Merge, Frames

\* The upper scan starts one left of the range, which is SIZE_MAX at 0, and
\* adding one leads into it.
LEMMA Next1Steps ==
  ASSUME NEW x \in 0 .. SizeMax
  PROVE  Next1(x) = IF x = SizeMax THEN 0 ELSE x + 1
BY SortingAssumption DEF Next1

\* A swap of two slots keeps the elements of an array.
LEMMA SwapKeeps ==
  ASSUME NEW S, NEW f \in [S -> S], NEW x \in S, NEW y \in S
  PROVE  /\ Swapped(f, x, y) \in [S -> S]
         /\ Content(Swapped(f, x, y), S) = Content(f, S)
<1> DEFINE g == Swapped(f, x, y)
<1>1. /\ g \in [S -> S] /\ g[x] = f[y] /\ g[y] = f[x]
      /\ \A z \in S \ {x, y} : g[z] = f[z]
  BY DEF Swapped
<1>2. \A z \in S : \E w \in S : g[z] = f[w]
  BY <1>1
<1>3. \A z \in S : \E w \in S : f[z] = g[w]
  BY <1>1
<1>4. QED
  BY SMTT(30), <1>1, <1>2, <1>3 DEF Content

\* No step changes what is sorted.
LEMMA SameInput ==
  ASSUME UNCHANGED input
  PROVE  /\ prog' = prog /\ rank' = rank /\ Length' = Length /\ Slots' = Slots
         /\ Frames' = Frames /\ (Input => Input')
<1>1. prog' = prog /\ rank' = rank
  BY DEF input
<1>2. Length' = Length /\ Slots' = Slots
  BY <1>1 DEF Length, Slots
<1>3. QED
  BY <1>1, <1>2 DEF Frames, Input

\* At the start the array is the input.
LEMMA Initially == Init => Inv
<1> SUFFICES ASSUME Init PROVE Inv
  OBVIOUS
<1>1. PICK n \in 0 .. MaxLength : rank \in [0 .. n - 1 -> Ranks]
  BY SortingAssumption DEF Init
<1>2. Length = n /\ Slots = 0 .. n - 1
  <2>1. Cardinality(0 .. n - 1) = n
    BY FS_Interval, SortingAssumption
  <2>2. QED
    BY <1>1, <2>1 DEF Length, Slots
<1>3. Input
  BY <1>1, <1>2, SortingAssumption DEF Init, Input
<1>4. Values /\ Permuted
  BY <1>2 DEF Init, Values, Permuted, Content, Slots
<1>5. Indices
  BY <1>2 DEF Init, Indices
<1>6. Stacked
  BY EmptySeq DEF Init, Stacked
<1>7. QED
  BY <1>3, <1>4, <1>5, <1>6
     DEF Init, Inv, AtStart, InInsertion, ScanningUp, ScanningDown, Meeting, Merging, Heaping

-----------------------------------------------------------------------------
(* Each kind of step keeps the invariant: what the step changes, and       *)
(* which loop it leads to.                                                 *)

\* What holds of the array whatever the next loop is
Always == Input /\ Values /\ Indices /\ Stacked

\* In a state between the loops there is nothing else to show.
LEMMA BetweenLoops ==
  ASSUME Always', pc' \in {"call", "done", "unsorted"}, Permuted', pc' = "call" => prog' # "heapsort"
  PROVE  Inv'
BY DEF Always, Inv, AtStart, InInsertion, ScanningUp, ScanningDown, Meeting, Merging, Heaping

\* In a loop what holds of the others says nothing.
LEMMA InsideLoop ==
  ASSUME Always', pc' \in Loops, pc' # "merge" => Permuted',
         \/ pc' = "insertion" /\ InInsertion'
         \/ pc' = "up" /\ ScanningUp'
         \/ pc' = "down" /\ ScanningDown'
         \/ pc' = "meet" /\ Meeting'
         \/ pc' = "merge" /\ Merging'
         \/ pc' \in {"heapify", "extract", "sift"} /\ Heaping'
  PROVE  Inv'
BY DEF Always, Inv, Loops, AtStart, InInsertion, ScanningUp, ScanningDown, Meeting, Merging, Heaping

\* The range of the running call, in a loop of quicksort or mergesort
LEMMA RunningRange ==
  ASSUME Inv, prog # "heapsort", stack # <<>>
  PROVE  /\ stack \in Seq(Frames) /\ Tail(stack) \in Seq(Frames)
         /\ Length \in Nat /\ Slots = 0 .. Length - 1
         /\ Start \in Nat /\ End \in Nat /\ Start <= End /\ End <= Length
         /\ Middle \in Start .. End
<1>1. stack \in Seq(Frames) /\ Length \in Nat /\ Slots = 0 .. Length - 1
  BY DEF Inv, Stacked, Input
<1>2. Start \in Nat /\ End \in Nat /\ Start <= End /\ End <= Length /\ Tail(stack) \in Seq(Frames)
  BY <1>1, RunningFrame
<1>3. Middle \in Start .. End
  BY <1>2 DEF Middle
<1>4. QED
  BY <1>1, <1>2, <1>3

\* A step that moves nothing keeps what holds of the array.
LEMMA NothingMoved ==
  ASSUME Inv, UNCHANGED <<input, a, temp>>
  PROVE  Input' /\ Values' /\ (Permuted => Permuted')
BY SameInput DEF Inv, Values, Permuted

\* A step within a loop keeps the calls and the range.
LEMMA SameCalls ==
  ASSUME Inv, UNCHANGED <<input, stack>>
  PROVE  /\ Stacked' /\ Start' = Start /\ End' = End /\ Middle' = Middle
         /\ \A what : InSort(what)' <=> InSort(what)
BY SameInput DEF Inv, Stacked, Start, End, Middle, InSort

\* A sort without a workspace returns at once.
LEMMA NoMemoryKeepsInv == Inv /\ NoMemory => Inv'
<1> SUFFICES ASSUME Inv, NoMemory PROVE Inv'
  OBVIOUS
<1>1. Always' /\ Permuted'
  BY SameInput DEF Inv, NoMemory, Always, Values, Indices, Stacked, Permuted
<1>2. QED
  BY <1>1, BetweenLoops DEF NoMemory

\* The recursion is at its end.
LEMMA FinishKeepsInv == Inv /\ Finish => Inv'
<1> SUFFICES ASSUME Inv, Finish PROVE Inv'
  OBVIOUS
<1>1. Always' /\ Permuted'
  BY SameInput DEF Inv, Finish, Always, Values, Indices, Stacked, Permuted
<1>2. QED
  BY <1>1, BetweenLoops DEF Finish

\* The first call covers the whole array.
LEMMA BeginKeepsInv == Inv /\ Begin => Inv'
<1> SUFFICES ASSUME Inv, Begin PROVE Inv'
  OBVIOUS
<1>1. UNCHANGED input /\ pc = "start" /\ stack = <<>> /\ a' = a /\ temp' = temp /\ i' = i
  BY DEF Begin, Inv, AtStart
<1>2. Input' /\ Values' /\ Permuted' /\ Length' = Length /\ Slots' = Slots /\ prog' = prog
  BY <1>1, SameInput DEF Inv, Values, Permuted
<1>3. Input
  BY DEF Inv
<1>4. CASE prog = "heapsort"
  <2>1. Length \in Nat /\ Length > 0 /\ pc' = "heapify" /\ k' = Length /\ stack' = stack
    BY <1>3, <1>4 DEF Begin, Input
  <2>2. j' \in 0 .. Length - 1
    BY <1>4, <2>1 DEF Begin, Parent
  <2>3. Indices' /\ Stacked' /\ Heaping'
    BY <1>1, <1>2, <1>4, <2>1, <2>2 DEF Inv, Indices, Stacked, Heaping
  <2>4. QED
    BY <1>2, <2>1, <2>3, InsideLoop DEF Always, Loops
<1>5. CASE prog # "heapsort"
  <2>1. pc' = "call" /\ stack' = <<Sort(0, Length)>> /\ UNCHANGED <<j, k>>
    BY <1>5 DEF Begin
  <2>2. Sort(0, Length) \in Frames
    BY <1>3, RangeFrames DEF Input
  <2>3. stack' \in Seq(Frames) /\ Frames' = Frames
    BY <1>1, <2>1, <2>2, SameInput
  <2>4. Indices' /\ Stacked'
    BY <1>1, <1>2, <1>5, <2>1, <2>3 DEF Inv, Indices, Stacked
  <2>5. QED
    BY <1>2, <1>5, <2>1, <2>4, BetweenLoops DEF Always
<1>6. QED
  BY <1>4, <1>5

\* A range of one element or none is left as it is.
LEMMA ShortRangeKeepsInv == Inv /\ ShortRange => Inv'
<1> SUFFICES ASSUME Inv, ShortRange PROVE Inv'
  OBVIOUS
<1>1. prog # "heapsort" /\ stack # <<>> /\ UNCHANGED <<input, a, temp, i, j, k>>
      /\ pc' = "call" /\ stack' = Tail(stack) /\ pc # "merge"
  BY DEF Inv, ShortRange, Calls, Done
<1>2. Always' /\ Permuted' /\ prog' = prog
  BY <1>1, RunningRange, SameInput DEF Inv, Always, Values, Indices, Stacked, Permuted
<1>3. QED
  BY <1>1, <1>2, BetweenLoops

\* A short range is left to the insertion sort.
LEMMA EnterInsertionKeepsInv == Inv /\ EnterInsertion => Inv'
<1> SUFFICES ASSUME Inv, EnterInsertion PROVE Inv'
  OBVIOUS
<1>1. prog # "heapsort" /\ stack # <<>> /\ UNCHANGED <<input, a, temp, stack, k>>
      /\ pc' = "insertion" /\ pc = "call" /\ InSort("sort")
      /\ i' = Start + 1 /\ j' = Start + 1 /\ End - Start \in 2 .. InsertionMax[prog]
  BY DEF Inv, EnterInsertion, Calls, InSort
<1>2. Length' = Length /\ Slots' = Slots /\ Input' /\ Values' /\ Permuted'
  BY <1>1, SameInput, NothingMoved DEF Inv
<1>3. Stacked' /\ Start' = Start /\ End' = End /\ InSort("sort")'
  BY <1>1, SameCalls
<1>4. InsertionMax[prog] \in Nat
  BY SortingAssumption DEF Inv, Input
<1>5. i' \in Start + 1 .. End /\ j' \in Start .. i' /\ i' \in 0 .. Length /\ j' \in 0 .. Length
  BY <1>1, <1>4, RunningRange
<1>6. Indices'
  BY <1>1, <1>2, <1>5, RunningRange DEF Indices, Inv
<1>7. InInsertion'
  BY <1>3, <1>5 DEF InInsertion
<1>8. QED
  BY <1>1, <1>2, <1>3, <1>6, <1>7, InsideLoop DEF Loops, Always

\* mergesort calls itself for both halves and then merges them.
LEMMA SplitInHalvesKeepsInv == Inv /\ SplitInHalves => Inv'
<1> SUFFICES ASSUME Inv, SplitInHalves PROVE Inv'
  OBVIOUS
<1>1. prog # "heapsort" /\ stack # <<>> /\ UNCHANGED <<input, a, temp, i, j, k>>
      /\ pc' = "call" /\ pc = "call"
      /\ stack' = <<Sort(Start, Middle), Sort(Middle, End), Merge(Start, End)>> \o Tail(stack)
  BY DEF Inv, SplitInHalves, Calls
<1>2. Length' = Length /\ Slots' = Slots /\ Frames' = Frames /\ prog' = prog
      /\ Input' /\ Values' /\ Permuted'
  BY <1>1, SameInput, NothingMoved DEF Inv
<1>3. Sort(Start, Middle) \in Frames /\ Sort(Middle, End) \in Frames /\ Merge(Start, End) \in Frames
  <2>1. Middle \in Nat /\ Start <= Middle /\ Middle <= End /\ Middle <= Length
    BY <1>1, RunningRange
  <2>2. QED
    BY <1>1, <2>1, RunningRange, RangeFrames
<1>4. stack' \in Seq(Frames)
  BY <1>1, <1>3, RunningRange, MoreFrames
<1>5. Indices' /\ Stacked'
  BY <1>1, <1>2, <1>4 DEF Inv, Indices, Stacked
<1>6. QED
  BY <1>1, <1>2, <1>5, BetweenLoops DEF Always

\* A turn of the insertion sort exchanges neighbors or goes on.
LEMMA InsertionKeepsInv == Inv /\ Insertion => Inv'
<1> SUFFICES ASSUME Inv, Insertion PROVE Inv'
  OBVIOUS
<1>1. /\ UNCHANGED <<input, temp, k>> /\ pc = "insertion" /\ InSort("sort")
      /\ prog # "heapsort" /\ stack # <<>> /\ i \in Start + 1 .. End /\ j \in Start .. i
  BY DEF Insertion, Inv, InInsertion, InSort
<1>2. Length' = Length /\ Slots' = Slots /\ Input' /\ Permuted /\ prog' = prog /\ Frames' = Frames
  BY <1>1, SameInput DEF Inv
<1>3. CASE i < End /\ Sinks /\ a' = Swapped(a, j, j - 1) /\ j' = j - 1 /\ UNCHANGED <<i, pc, stack>>
  <2>1. j \in Slots /\ j - 1 \in Slots /\ j - 1 >= Start
    BY <1>1, <1>3, RunningRange DEF Sinks
  <2>2. a' \in [Slots -> Slots] /\ Content(a', Slots) = Content(a, Slots)
    <3>1. a \in [Slots -> Slots]
      BY DEF Inv, Values
    <3>2. QED
      BY <1>3, <2>1, <3>1, SwapKeeps
  <2>3. Values' /\ Permuted'
    BY <1>1, <1>2, <2>2 DEF Inv, Values, Permuted
  <2>4. Stacked' /\ InInsertion'
    BY <1>1, <1>3, <2>1, SameCalls, RunningRange DEF InInsertion
  <2>5. Indices'
    BY <1>1, <1>2, <1>3, <2>1, RunningRange DEF Inv, Indices
  <2>6. QED
    BY <1>1, <1>2, <1>3, <2>3, <2>4, <2>5, InsideLoop DEF Loops, Always
<1>4. CASE i < End /\ ~Sinks /\ i' = i + 1 /\ j' = i + 1 /\ UNCHANGED <<a, pc, stack>>
  <2>1. Values' /\ Permuted'
    BY <1>1, <1>2, <1>4, NothingMoved
  <2>2. Stacked' /\ InInsertion'
    BY <1>1, <1>4, SameCalls, RunningRange DEF InInsertion
  <2>3. Indices'
    BY <1>1, <1>2, <1>4, RunningRange DEF Inv, Indices
  <2>4. QED
    BY <1>1, <1>2, <1>4, <2>1, <2>2, <2>3, InsideLoop DEF Loops, Always
<1>5. CASE i >= End /\ Done /\ UNCHANGED <<a, i, j>>
  <2>1. Values' /\ Permuted'
    BY <1>1, <1>2, <1>5, NothingMoved
  <2>2. Indices' /\ Stacked'
    BY <1>1, <1>2, <1>5, RunningRange DEF Inv, Indices, Stacked, Done
  <2>3. QED
    BY <1>1, <1>2, <1>5, <2>1, <2>2, BetweenLoops DEF Done, Always
<1>6. QED
  BY <1>3, <1>4, <1>5 DEF Insertion

-----------------------------------------------------------------------------
(* The partition.                                                          *)

\* Comparing elements compares integers.
LEMMA BeforeOrders ==
  ASSUME Inv
  PROVE  \A x, y \in Slots :
           /\ Before(x, y) \in BOOLEAN
           /\ Before(x, y) <=> rank[x] < rank[y]
           /\ Before(x, y) => ~Before(y, x)
           /\ rank[x] \in Int
<1>1. \A x \in Slots : rank[x] \in Int
  BY SortingAssumption DEF Inv, Input
<1>2. QED
  BY <1>1 DEF Before, Less

\* The partition begins, with the pivot to stop its first scan.
LEMMA EnterPartitionKeepsInv == Inv /\ EnterPartition => Inv'
<1> SUFFICES ASSUME Inv, EnterPartition PROVE Inv'
  OBVIOUS
<1>0. /\ UNCHANGED <<input, a, stack, k>> /\ prog = "quicksort" /\ stack # <<>> /\ InSort("sort")
      /\ pc = "call" /\ pc' = "up" /\ End - Start > 1
      /\ temp' = [x \in {1} |-> a[PivotAt(Start, End)]]
      /\ i' = (IF Start = 0 THEN SizeMax ELSE Start - 1) /\ j' = End
  BY DEF EnterPartition, Calls, InSort, Inv
<1>1. /\ Start \in Nat /\ End \in Nat /\ End <= Length /\ Length \in Nat /\ Length < SizeMax
      /\ Slots = 0 .. Length - 1 /\ SizeMax \in Nat
  BY <1>0, RunningRange, SortingAssumption DEF Inv, Input
<1>2. PICK p \in Start .. End - 2 : p = PivotAt(Start, End)
  BY <1>0, <1>1 DEF PivotAt
<1>3. p \in Slots /\ p >= Start /\ p < End - 1 /\ End - Start >= 2
  BY <1>0, <1>1, <1>2
<1>4. /\ Length' = Length /\ Slots' = Slots /\ Input' /\ rank' = rank /\ prog' = prog
      /\ Stacked' /\ Start' = Start /\ End' = End /\ InSort("sort")'
  BY <1>0, SameInput, SameCalls DEF Inv
<1>5. a[p] \in Slots /\ temp'[1] = a[p] /\ a' = a /\ DOMAIN temp' = {1}
  BY <1>0, <1>2, <1>3 DEF Inv, Values
<1>6. Values' /\ Permuted'
  BY <1>0, <1>4, <1>5 DEF Inv, Values, Permuted
<1>7. i' \in 0 .. SizeMax /\ Next1(i') = Start
  BY <1>0, <1>1, Next1Steps
<1>8. Indices'
  BY <1>0, <1>1, <1>3, <1>4 DEF Inv, Indices
<1>9. ~Before(a[p], temp[1])' /\ ~Before(temp[1], a[p])'
  <2>1. rank[a[p]] \in Int
    BY <1>5, BeforeOrders
  <2>2. QED
    BY <1>4, <1>5, <2>1 DEF Before, Less
<1>10. ScanningUp'
  <2>1. Partitioning'
    BY <1>0, <1>3, <1>4, <1>5 DEF Partitioning
  <2>2. Passed(Next1(i), j)'
    BY <1>0, <1>1, <1>4, <1>7 DEF Passed, Next1
  <2>3. StopsUp(Next1(i))' /\ StopsLow(Next1(i))'
    BY <1>0, <1>1, <1>3, <1>4, <1>5, <1>7, <1>9 DEF StopsUp, StopsLow, Next1
  <2>4. QED
    BY <1>0, <1>1, <1>3, <1>4, <1>7, <2>1, <2>2, <2>3 DEF ScanningUp, Next1
<1>11. QED
  BY <1>0, <1>4, <1>6, <1>8, <1>10, InsideLoop DEF Loops, Always

\* What a scan leaves alone
LEMMA ScanFrame ==
  ASSUME Inv, Partitioning, UNCHANGED <<input, a, temp, stack>>, Permuted
  PROVE  /\ Start \in Nat /\ End \in Nat /\ End <= Length /\ Length \in Nat /\ Length < SizeMax
         /\ End - Start >= 2 /\ Slots = 0 .. Length - 1 /\ SizeMax \in Nat
         /\ Length' = Length /\ Slots' = Slots /\ Start' = Start /\ End' = End
         /\ a' = a /\ temp' = temp /\ rank' = rank
         /\ Input' /\ Values' /\ Permuted' /\ Stacked' /\ Partitioning'
         /\ temp[1] \in Slots
         /\ \A x \in Slots : a[x] \in Slots
<1>1. prog = "quicksort" /\ stack # <<>> /\ InSort("sort") /\ End - Start >= 2 /\ 1 \in DOMAIN temp
  BY DEF Partitioning, InSort
<1>2. /\ Length' = Length /\ Slots' = Slots /\ Start' = Start /\ End' = End /\ rank' = rank
      /\ Input' /\ Values' /\ Permuted' /\ Stacked' /\ InSort("sort")' /\ prog' = prog
  BY <1>1, SameInput, SameCalls, NothingMoved
<1>3. Partitioning'
  BY <1>1, <1>2 DEF Partitioning
<1>4. QED
  BY <1>1, <1>2, <1>3, RunningRange, SortingAssumption DEF Inv, Input, Values

\* A turn of the scan from the left
LEMMA ScanUpKeepsInv == Inv /\ ScanUp => Inv'
<1> SUFFICES ASSUME Inv, ScanUp PROVE Inv'
  OBVIOUS
<1>1. /\ UNCHANGED <<input, a, temp, stack, j, k>> /\ Partitioning /\ Permuted
      /\ i' = Next1(i) /\ pc' = IF Before(a[i'], temp[1]) THEN "up" ELSE "down"
      /\ i \in 0 .. SizeMax /\ j \in Start + 1 .. End
  BY DEF ScanUp, Inv, ScanningUp
<1>2. PICK n \in Start .. End - 1 : /\ n = Next1(i) /\ i' = n
                                  /\ Passed(n, j) /\ StopsUp(n) /\ StopsLow(n)
  BY <1>1 DEF ScanUp, Inv, ScanningUp
<1>3. /\ Start \in Nat /\ End \in Nat /\ End <= Length /\ Length \in Nat /\ Length < SizeMax
      /\ Slots = 0 .. Length - 1 /\ SizeMax \in Nat
      /\ Length' = Length /\ Slots' = Slots /\ Start' = Start /\ End' = End
      /\ a' = a /\ temp' = temp /\ rank' = rank /\ j' = j
      /\ Input' /\ Values' /\ Permuted' /\ Stacked' /\ Partitioning'
      /\ temp[1] \in Slots /\ \A x \in Slots : a[x] \in Slots
  BY <1>1, ScanFrame
<1>4. n \in Slots /\ (Before(a[n], temp[1]) => ~Before(temp[1], a[n]))
  BY <1>2, <1>3, BeforeOrders
<1>5. Indices'
  BY <1>1, <1>2, <1>3 DEF Inv, Indices
<1>6. CASE Before(a[n], temp[1])
  <2>1. PICK x \in n .. End - 1 : x <= j /\ (j = End => x < End - 1) /\ ~Before(a[x], temp[1])
    BY <1>2 DEF StopsUp
  <2>2. x # n /\ n + 1 <= x /\ n + 1 \in Start .. End - 1 /\ n <= j - 1
    BY <1>1, <1>2, <1>3, <1>6, <2>1
  <2>3. Next1(n) = n + 1
    BY <1>2, <1>3, Next1Steps
  <2>4. ~Before(temp[1], a[n])
    BY <1>4, <1>6
  <2>5. Passed(n + 1, j)
    BY <1>2, <1>3, <2>4 DEF Passed
  <2>6. StopsUp(n + 1)
    BY <1>3, <2>1, <2>2 DEF StopsUp
  <2>7. StopsLow(n + 1)
    <3>1. PICK y \in Start .. j - 1 : n - 1 <= y /\ ~Before(temp[1], a[y])
      BY <1>2 DEF StopsLow
    <3>2. CASE y = n - 1
      BY <1>1, <1>3, <2>2, <2>4, <3>2 DEF StopsLow
    <3>3. CASE y >= n
      BY <1>1, <1>3, <3>1, <3>3 DEF StopsLow
    <3>4. QED
      BY <1>1, <1>3, <3>1, <3>2, <3>3
  <2>8. Passed(Next1(i), j)' /\ StopsUp(Next1(i))' /\ StopsLow(Next1(i))' /\ Next1(i)' = n + 1
    <3>1. Next1(i)' = n + 1
      BY <1>2, <2>3 DEF Next1
    <3>2. QED
      BY <1>3, <2>5, <2>6, <2>7, <3>1 DEF Passed, StopsUp, StopsLow, Before, Less
  <2>9. ScanningUp'
    BY <1>1, <1>2, <1>3, <2>2, <2>8 DEF ScanningUp
  <2>10. pc' = "up"
    BY <1>1, <1>2, <1>6
  <2>11. QED
    BY <1>3, <1>5, <2>9, <2>10, InsideLoop DEF Loops, Always
<1>7. CASE ~Before(a[n], temp[1])
  <2>1. j = End => n < End - 1
    BY <1>2, <1>3 DEF StopsUp
  <2>2. Passed(i, j)' /\ StopsLow(i)' /\ ~Before(a[i], temp[1])'
    BY <1>2, <1>3, <1>7 DEF Passed, StopsLow, Before, Less
  <2>3. ScanningDown'
    BY <1>1, <1>2, <1>3, <2>1, <2>2 DEF ScanningDown
  <2>4. pc' = "down"
    BY <1>1, <1>2, <1>7
  <2>5. QED
    BY <1>3, <1>5, <2>3, <2>4, InsideLoop DEF Loops, Always
<1>8. QED
  BY <1>6, <1>7

\* A turn of the scan from the right
LEMMA ScanDownKeepsInv == Inv /\ ScanDown => Inv'
<1> SUFFICES ASSUME Inv, ScanDown PROVE Inv'
  OBVIOUS
<1>1. /\ UNCHANGED <<input, a, temp, stack, i, k>> /\ Partitioning /\ Permuted
      /\ j' = j - 1 /\ pc' = IF StopsDown(a[j']) THEN "meet" ELSE "down"
      /\ i \in Start .. End - 1 /\ j \in Start + 1 .. End /\ (j = End => i < End - 1)
      /\ ~Before(a[i], temp[1]) /\ Passed(i, j) /\ StopsLow(i)
  BY DEF ScanDown, Inv, ScanningDown
<1>2. /\ Start \in Nat /\ End \in Nat /\ End <= Length /\ Length \in Nat
      /\ Slots = 0 .. Length - 1
      /\ Length' = Length /\ Slots' = Slots /\ Start' = Start /\ End' = End
      /\ a' = a /\ temp' = temp /\ rank' = rank /\ i' = i
      /\ Input' /\ Values' /\ Permuted' /\ Stacked' /\ Partitioning'
      /\ temp[1] \in Slots /\ \A x \in Slots : a[x] \in Slots
  BY <1>1, ScanFrame
<1>3. PICK m \in Start .. End - 1 : m = j - 1 /\ j' = m
  BY <1>1, <1>2
<1>4. m \in Slots /\ (Before(temp[1], a[m]) => ~Before(a[m], temp[1]))
  BY <1>2, <1>3, BeforeOrders
<1>5. Indices'
  BY <1>1, <1>2, <1>3 DEF Inv, Indices
<1>6. PICK y \in Start .. j - 1 : i - 1 <= y /\ ~Before(temp[1], a[y])
  BY <1>1 DEF StopsLow
<1>7. CASE StopsDown(a[m])
  <2>1. ~Before(temp[1], a[m])
    BY <1>7 DEF StopsDown
  <2>2. Passed(i, m + 1)
    BY <1>1, <1>2, <1>3 DEF Passed
  <2>3. Passed(i, j + 1)' /\ ~Before(a[i], temp[1])' /\ ~Before(temp[1], a[j])'
    BY <1>1, <1>2, <1>3, <2>1, <2>2 DEF Passed, Before, Less
  <2>4. i - 1 <= m /\ (m = End - 1 => i < End - 1)
    BY <1>1, <1>2, <1>3, <1>6
  <2>5. Meeting'
    BY <1>1, <1>2, <1>3, <2>3, <2>4 DEF Meeting
  <2>6. pc' = "meet"
    BY <1>1, <1>3, <1>7
  <2>7. QED
    BY <1>2, <1>5, <2>5, <2>6, InsideLoop DEF Loops, Always
<1>8. CASE ~StopsDown(a[m])
  <2>1. Before(temp[1], a[m]) /\ ~Before(a[m], temp[1])
    BY <1>4, <1>8 DEF StopsDown
  <2>2. Passed(i, m)
    <3>1. \A x \in m .. End - 1 : x = m \/ x \in j .. End - 1
      BY <1>1, <1>2, <1>3
    <3>2. \A x \in m .. End - 1 : ~Before(a[x], temp[1])
      BY <1>1, <2>1, <3>1 DEF Passed
    <3>3. QED
      BY <1>1, <3>2 DEF Passed
  <2>3. y # m /\ y \in Start .. m - 1
    BY <1>2, <1>3, <1>6, <2>1
  <2>4. Passed(i, j)' /\ StopsLow(i)' /\ ~Before(a[i], temp[1])'
    BY <1>1, <1>2, <1>3, <1>6, <2>2, <2>3 DEF Passed, StopsLow, Before, Less
  <2>5. ScanningDown'
    BY <1>1, <1>2, <1>3, <2>3, <2>4 DEF ScanningDown
  <2>6. pc' = "down"
    BY <1>1, <1>3, <1>8
  <2>7. QED
    BY <1>2, <1>5, <2>5, <2>6, InsideLoop DEF Loops, Always
<1>9. QED
  BY <1>7, <1>8

\* The scans have met, or exchange the elements they stand at.
LEMMA MeetKeepsInv == Inv /\ Meet => Inv'
<1> SUFFICES ASSUME Inv, Meet PROVE Inv'
  OBVIOUS
<1>1. /\ UNCHANGED <<input, temp, i, j, k>> /\ Partitioning /\ Permuted
      /\ prog # "heapsort" /\ stack # <<>>
      /\ i \in Start .. End - 1 /\ j \in Start .. End - 1
      /\ ~Before(a[i], temp[1]) /\ ~Before(temp[1], a[j]) /\ Passed(i, j + 1)
  BY DEF Meet, Inv, Meeting, Partitioning, InSort
<1>2. /\ Start \in Nat /\ End \in Nat /\ End <= Length /\ Length \in Nat /\ Length < SizeMax
      /\ Slots = 0 .. Length - 1 /\ i \in Slots /\ j \in Slots
  BY <1>1, RunningRange DEF Inv, Input
<1>3. Length' = Length /\ Slots' = Slots /\ Frames' = Frames /\ prog' = prog /\ rank' = rank /\ Input'
  BY <1>1, SameInput DEF Inv
<1>4. Indices'
  BY <1>1, <1>3 DEF Inv, Indices
<1>5. CASE i >= j
  <2>1. /\ pc' = "call" /\ a' = a
        /\ stack' = <<Sort(Start, j + 1), Sort(j + 1, End)>> \o Tail(stack)
    BY <1>5 DEF Meet
  <2>2. Sort(Start, j + 1) \in Frames /\ Sort(j + 1, End) \in Frames
    BY <1>1, <1>2, RangeFrames
  <2>3. stack' \in Seq(Frames)
    BY <1>1, <2>1, <2>2, RunningRange, MoreFrames
  <2>4. Values' /\ Permuted' /\ Stacked'
    BY <1>1, <1>3, <2>1, <2>3, NothingMoved DEF Stacked
  <2>5. QED
    BY <1>1, <1>3, <1>4, <2>1, <2>4, BetweenLoops DEF Always
<1>6. CASE i < j
  <2>1. pc' = "up" /\ a' = Swapped(a, i, j) /\ stack' = stack
    BY <1>1, <1>2, <1>6 DEF Meet
  <2>2. Stacked' /\ Start' = Start /\ End' = End /\ InSort("sort")'
    BY <1>1, <2>1, SameCalls DEF Partitioning
  <2>3. a' \in [Slots -> Slots] /\ Content(a', Slots) = Content(a, Slots)
    <3>1. a \in [Slots -> Slots] /\ i \in Slots /\ j \in Slots
      BY <1>2 DEF Inv, Values
    <3>2. QED
      BY <2>1, <3>1, SwapKeeps
  <2>4. Values' /\ Permuted'
    BY <1>1, <1>3, <2>3 DEF Inv, Values, Permuted
  <2>5. a'[i] = a[j] /\ a'[j] = a[i] /\ \A x \in Slots \ {i, j} : a'[x] = a[x]
    BY <1>2, <2>1 DEF Inv, Values, Swapped
  <2>6. Next1(i) = i + 1 /\ Next1(i)' = i + 1 /\ i \in 0 .. SizeMax
    <3>1. i \in 0 .. SizeMax /\ i # SizeMax
      BY <1>2, SortingAssumption
    <3>2. QED
      BY <1>1, <3>1, Next1Steps DEF Next1
  <2>7. Partitioning'
    BY <1>1, <1>3, <2>2 DEF Partitioning
  <2>8. Passed(Next1(i), j)'
    <3>1. \A x \in Start .. i : ~Before(temp[1], a'[x])
      <4>1. \A x \in Start .. i : x = i \/ (x \in Start .. i - 1 /\ x \in Slots \ {i, j})
        BY <1>1, <1>2, <1>6
      <4>2. QED
        BY <1>1, <2>5, <4>1 DEF Passed
    <3>2. \A x \in j .. End - 1 : ~Before(a'[x], temp[1])
      <4>1. \A x \in j .. End - 1 : x = j \/ (x \in j + 1 .. End - 1 /\ x \in Slots \ {i, j})
        BY <1>1, <1>2, <1>6
      <4>2. QED
        BY <1>1, <2>5, <4>1 DEF Passed
    <3>3. Start .. (i + 1) - 1 = Start .. i
      BY <1>1, <1>2
    <3>4. QED
      BY <1>1, <1>3, <2>2, <2>6, <3>1, <3>2, <3>3 DEF Passed, Before, Less
  <2>9. StopsUp(Next1(i))'
    <3>1. j \in i + 1 .. End - 1 /\ j # End
      BY <1>1, <1>2, <1>6
    <3>2. ~Before(a'[j], temp[1])
      BY <1>1, <2>5
    <3>3. QED
      BY <1>1, <1>2, <1>3, <2>2, <2>6, <3>1, <3>2 DEF StopsUp, Before, Less
  <2>10. StopsLow(Next1(i))'
    <3>1. i \in Start .. j - 1 /\ (i + 1) - 1 <= i
      BY <1>1, <1>2, <1>6
    <3>2. ~Before(temp[1], a'[i])
      BY <1>1, <2>5
    <3>3. QED
      BY <1>1, <1>3, <2>2, <2>6, <3>1, <3>2 DEF StopsLow, Before, Less
  <2>11. ScanningUp'
    BY <1>1, <1>2, <1>6, <2>2, <2>6, <2>7, <2>8, <2>9, <2>10 DEF ScanningUp
  <2>12. QED
    BY <1>3, <1>4, <2>1, <2>2, <2>4, <2>11, InsideLoop DEF Loops, Always
<1>7. QED
  BY <1>2, <1>5, <1>6

-----------------------------------------------------------------------------
(* The merge.                                                              *)

\* The left half moves into the workspace.
LEMMA EnterMergeKeepsInv == Inv /\ EnterMerge => Inv'
<1> SUFFICES ASSUME Inv, EnterMerge PROVE Inv'
  OBVIOUS
<1>1. /\ UNCHANGED <<input, a, stack>> /\ pc = "call" /\ pc' = "merge"
      /\ prog # "heapsort" /\ stack # <<>> /\ InSort("merge") /\ Permuted
      /\ i' = Start /\ j' = Middle /\ k' = Start
      /\ temp' = [x \in DOMAIN temp \cup (Start .. Middle - 1) |->
                    IF x \in Start .. Middle - 1 THEN a[x] ELSE temp[x]]
  BY DEF EnterMerge, Inv, InSort
<1>2. /\ Start \in Nat /\ End \in Nat /\ End <= Length /\ Length \in Nat
      /\ Middle \in Start .. End /\ Slots = 0 .. Length - 1
  BY <1>1, RunningRange
<1>3. /\ Length' = Length /\ Slots' = Slots /\ Input' /\ Stacked' /\ InSort("merge")'
      /\ Start' = Start /\ End' = End /\ Middle' = Middle
  BY <1>1, SameInput, SameCalls DEF Inv
<1>4. /\ a \in [Slots -> Slots] /\ temp \in [DOMAIN temp -> Slots]
      /\ Start .. Middle - 1 \subseteq Slots /\ Start .. Middle - 1 \subseteq DOMAIN temp'
      /\ \A x \in Start .. Middle - 1 : temp'[x] = a[x]
  BY <1>1, <1>2 DEF Inv, Values
<1>5. Values'
  BY <1>1, <1>3, <1>4 DEF Values
<1>6. Indices'
  BY <1>1, <1>2, <1>3 DEF Indices
<1>7. Content(a, Slots \ (Start .. Middle - 1)) \cup Content(temp', Start .. Middle - 1) = Slots
  BY <1>1, <1>4 DEF Permuted, Content
<1>8. Merging'
  <2>1. (Content(a, Slots \ (k .. j - 1)) \cup Content(temp, i .. Middle - 1))' = Slots'
    BY <1>1, <1>3, <1>7
  <2>2. i' \in Start .. Middle /\ j' \in Middle .. End /\ k' = j' - (Middle - i')
    BY <1>1, <1>2
  <2>3. QED
    BY <1>1, <1>3, <1>4, <2>1, <2>2 DEF Merging
<1>9. QED
  BY <1>1, <1>3, <1>5, <1>6, <1>8, InsideLoop DEF Loops, Always

\* A turn of the merge moves one element into the gap.
LEMMA MergeTurnKeepsInv == Inv /\ MergeTurn => Inv'
<1> SUFFICES ASSUME Inv, MergeTurn PROVE Inv'
  OBVIOUS
<1>1. /\ UNCHANGED <<input, temp>> /\ pc = "merge" /\ InSort("merge")
      /\ prog # "heapsort" /\ stack # <<>>
      /\ i \in Start .. Middle /\ j \in Middle .. End /\ k = j - (Middle - i)
      /\ Start .. Middle - 1 \subseteq DOMAIN temp
      /\ Content(a, Slots \ (k .. j - 1)) \cup Content(temp, i .. Middle - 1) = Slots
  BY DEF MergeTurn, Inv, Merging, InSort
<1>2. /\ Start \in Nat /\ End \in Nat /\ End <= Length /\ Length \in Nat
      /\ Middle \in Start .. End /\ Slots = 0 .. Length - 1
  BY <1>1, RunningRange
<1>3. Length' = Length /\ Slots' = Slots /\ Input' /\ prog' = prog /\ Frames' = Frames
  BY <1>1, SameInput DEF Inv
<1>4. a \in [Slots -> Slots] /\ temp \in [DOMAIN temp -> Slots] /\ temp' = temp
  BY <1>1 DEF Inv, Values
<1>5. CASE TakesLeft /\ a' = [a EXCEPT ![k] = temp[i]] /\ i' = i + 1 /\ k' = k + 1
             /\ UNCHANGED <<j, stack, pc>>
  <2>1. i < Middle /\ k \in Slots /\ i \in DOMAIN temp /\ temp[i] \in Slots /\ k + 1 <= j /\ k >= 0
    BY <1>1, <1>2, <1>4, <1>5 DEF TakesLeft
  <2>2. /\ Stacked' /\ InSort("merge")' /\ Start' = Start /\ End' = End /\ Middle' = Middle
    BY <1>1, <1>5, SameCalls
  <2>3. a' \in [Slots -> Slots] /\ a'[k] = temp[i] /\ \A x \in Slots \ {k} : a'[x] = a[x]
    BY <1>4, <1>5, <2>1
  <2>4. Content(a', Slots \ (k + 1 .. j - 1)) = Content(a, Slots \ (k .. j - 1)) \cup {temp[i]}
    <3>1. Slots \ (k + 1 .. j - 1) = (Slots \ (k .. j - 1)) \cup {k}
      BY <1>1, <1>2, <2>1
    <3>2. k \notin Slots \ (k .. j - 1)
      BY <1>1, <1>2, <2>1
    <3>3. QED
      BY <2>3, <3>1, <3>2 DEF Content
  <2>5. Content(temp, i .. Middle - 1) = Content(temp, i + 1 .. Middle - 1) \cup {temp[i]}
    <3>1. i .. Middle - 1 = (i + 1 .. Middle - 1) \cup {i}
      BY <1>1, <1>2, <2>1
    <3>2. QED
      BY <3>1 DEF Content
  <2>6. Content(a', Slots \ (k + 1 .. j - 1)) \cup Content(temp, i + 1 .. Middle - 1) = Slots
    BY <1>1, <2>4, <2>5
  <2>7. Merging'
    <3>1. (Content(a, Slots \ (k .. j - 1)) \cup Content(temp, i .. Middle - 1))' = Slots'
      BY <1>3, <1>4, <1>5, <2>2, <2>6
    <3>2. i' \in Start .. Middle /\ j' \in Middle .. End /\ k' = j' - (Middle - i')
      BY <1>1, <1>2, <1>5, <2>1
    <3>3. QED
      BY <1>1, <1>4, <2>2, <3>1, <3>2 DEF Merging
  <2>8. Values' /\ Indices'
    BY SMTT(30), <1>1, <1>2, <1>3, <1>4, <1>5, <2>1, <2>3 DEF Values, Indices
  <2>9. QED
    BY <1>1, <1>3, <1>5, <2>2, <2>7, <2>8, InsideLoop DEF Loops, Always
<1>6. CASE i < Middle /\ ~TakesLeft /\ a' = [a EXCEPT ![k] = a[j]] /\ j' = j + 1 /\ k' = k + 1
             /\ UNCHANGED <<i, stack, pc>>
  <2>1. j < End /\ j \in Slots /\ k \in Slots /\ k + 1 <= j /\ k >= 0
    BY <1>1, <1>2, <1>6 DEF TakesLeft
  <2>2. /\ Stacked' /\ InSort("merge")' /\ Start' = Start /\ End' = End /\ Middle' = Middle
    BY <1>1, <1>6, SameCalls
  <2>3. a' \in [Slots -> Slots] /\ a'[k] = a[j] /\ \A x \in Slots \ {k} : a'[x] = a[x]
    BY <1>4, <1>6, <2>1
  <2>4. Content(a', Slots \ (k + 1 .. j)) = Content(a, Slots \ (k .. j - 1))
    <3> DEFINE R == Slots \ (k .. j)
    <3>1. Slots \ (k + 1 .. j) = R \cup {k} /\ Slots \ (k .. j - 1) = R \cup {j} /\ R \subseteq Slots \ {k}
      BY <1>1, <1>2, <2>1
    <3>2. QED
      BY <2>3, <3>1 DEF Content
  <2>5. (j + 1) - 1 = j /\ Content(a', Slots \ (k + 1 .. j)) \cup Content(temp, i .. Middle - 1) = Slots
    BY <1>1, <1>2, <2>4
  <2>6. Merging'
    <3>1. (Content(a, Slots \ (k .. j - 1)) \cup Content(temp, i .. Middle - 1))' = Slots'
      BY <1>3, <1>4, <1>6, <2>2, <2>5
    <3>2. i' \in Start .. Middle /\ j' \in Middle .. End /\ k' = j' - (Middle - i')
      BY <1>1, <1>2, <1>6, <2>1
    <3>3. QED
      BY <1>1, <1>4, <2>2, <3>1, <3>2 DEF Merging
  <2>7. Values' /\ Indices'
    BY SMTT(30), <1>1, <1>2, <1>3, <1>4, <1>6, <2>1, <2>3 DEF Inv, Values, Indices
  <2>8. QED
    BY <1>1, <1>3, <1>6, <2>2, <2>6, <2>7, InsideLoop DEF Loops, Always
<1>7. CASE i >= Middle /\ Done /\ UNCHANGED <<a, i, j, k>>
  <2>1. k .. j - 1 = {} /\ i .. Middle - 1 = {}
    BY <1>1, <1>2, <1>7
  <2>2. Permuted
    BY <1>1, <2>1 DEF Permuted, Content
  <2>3. Values' /\ Permuted'
    BY <1>1, <1>7, <2>2, NothingMoved
  <2>4. Indices' /\ Stacked'
    BY <1>1, <1>3, <1>7, RunningRange DEF Inv, Indices, Stacked, Done
  <2>5. QED
    BY <1>1, <1>3, <1>7, <2>3, <2>4, BetweenLoops DEF Done, Always
<1>8. QED
  BY <1>5, <1>6, <1>7 DEF MergeTurn

-----------------------------------------------------------------------------
(* The heap.                                                               *)

\* Sifting finds the largest of three nodes within the heap: a node up to the
\* parent of the last one has a child, and the second is looked at only if
\* it exists (heap.c:65-78).
LEMMA LargestInHeap ==
  ASSUME NEW order, NEW f, NEW n \in Nat \ {0}, NEW x \in Nat, SiftsDown(order, f, n, x)
  PROVE  Largest(order, f, n, x) \in 0 .. n - 1
<1>1. n >= 2 /\ x <= Parent(n - 1)
  BY DEF SiftsDown
<1>2. 2 * x + 2 <= n
  BY <1>1 DEF Parent
<1>3. x \in 0 .. n - 1 /\ LChild(x) \in 0 .. n - 1 /\ RChild(x) \in Nat
  BY <1>2 DEF LChild, RChild
<1>4. QED
  BY <1>3 DEF Largest

\* A turn of the loop that builds the heap
LEMMA HeapifyKeepsInv == Inv /\ Heapify => Inv'
<1> SUFFICES ASSUME Inv, Heapify PROVE Inv'
  OBVIOUS
<1>1. /\ UNCHANGED <<input, a, temp, k>> /\ pc = "heapify" /\ prog = "heapsort"
      /\ k = Length /\ k > 0 /\ j \in -1 .. Length - 1 /\ Permuted
  BY DEF Heapify, Inv, Heaping
<1>2. /\ Length' = Length /\ Slots' = Slots /\ prog' = prog /\ Input' /\ Values' /\ Permuted'
      /\ Length \in Nat /\ Slots = 0 .. Length - 1
  BY <1>1, SameInput, NothingMoved DEF Inv, Input
<1>3. CASE j >= 0
  <2>1. pc' = "sift" /\ i' = j /\ j' = j /\ stack' = <<[do |-> "heapify"]>>
    BY <1>1, <1>3 DEF Heapify, SiftFrom
  <2>2. stack' # <<>> /\ Head(stack').do = "heapify"
    BY <2>1
  <2>3. Stacked' /\ Indices' /\ Heaping'
    BY <1>1, <1>2, <1>3, <2>1, <2>2 DEF Stacked, Indices, Heaping
  <2>4. QED
    BY <1>2, <2>1, <2>3, InsideLoop DEF Loops, Always
<1>4. CASE ~(j >= 0)
  <2>1. pc' = "extract" /\ j' = k - 1 /\ UNCHANGED <<i, stack>>
    BY <1>4 DEF Heapify
  <2>2. Stacked' /\ Indices' /\ Heaping'
    BY <1>1, <1>2, <2>1 DEF Inv, Stacked, Indices, Heaping
  <2>3. QED
    BY <1>2, <2>1, <2>2, InsideLoop DEF Loops, Always
<1>5. QED
  BY <1>3, <1>4

\* The maximum moves behind the heap.
LEMMA ExtractKeepsInv == Inv /\ Extract => Inv'
<1> SUFFICES ASSUME Inv, Extract PROVE Inv'
  OBVIOUS
<1>1. /\ UNCHANGED <<input, temp, j>> /\ pc = "extract" /\ prog = "heapsort"
      /\ k = j + 1 /\ k \in 0 .. Length /\ j \in -1 .. Length /\ Permuted
  BY DEF Extract, Inv, Heaping, Indices
<1>2. /\ Length' = Length /\ Slots' = Slots /\ prog' = prog /\ Input'
      /\ Length \in Nat /\ Slots = 0 .. Length - 1
  BY <1>1, SameInput DEF Inv, Input
<1>3. CASE j > 0
  <2>1. /\ a' = Swapped(a, 0, j) /\ k' = k - 1 /\ pc' = "sift" /\ i' = 0 /\ j' = j
        /\ stack' = <<[do |-> "extract"]>>
    BY <1>1, <1>3 DEF Extract, SiftFrom
  <2>2. a' \in [Slots -> Slots] /\ Content(a', Slots) = Content(a, Slots)
    <3>1. a \in [Slots -> Slots] /\ 0 \in Slots /\ j \in Slots
      BY <1>1, <1>2, <1>3 DEF Inv, Values
    <3>2. QED
      BY <2>1, <3>1, SwapKeeps
  <2>3. Values' /\ Permuted'
    BY <1>1, <1>2, <2>2 DEF Inv, Values, Permuted
  <2>4. stack' # <<>> /\ Head(stack').do = "extract"
    BY <2>1
  <2>5. Stacked' /\ Indices' /\ Heaping'
    BY <1>1, <1>2, <1>3, <2>1, <2>4 DEF Stacked, Indices, Heaping
  <2>6. QED
    BY <1>2, <2>1, <2>3, <2>5, InsideLoop DEF Loops, Always
<1>4. CASE ~(j > 0)
  <2>1. pc' = "done" /\ UNCHANGED <<a, k, i, stack>>
    BY <1>4 DEF Extract
  <2>2. Values' /\ Permuted' /\ Stacked' /\ Indices'
    BY <1>1, <1>2, <2>1, NothingMoved DEF Inv, Stacked, Indices
  <2>3. QED
    BY <1>2, <2>1, <2>2, BetweenLoops DEF Always
<1>5. QED
  BY <1>3, <1>4

\* A turn of the loop that sifts down
LEMMA SiftKeepsInv == Inv /\ Sift => Inv'
<1> SUFFICES ASSUME Inv, Sift PROVE Inv'
  OBVIOUS
<1>1. /\ UNCHANGED <<input, temp, k>> /\ pc = "sift" /\ prog = "heapsort" /\ Permuted
      /\ k > 0 /\ k \in 0 .. Length /\ i \in 0 .. k - 1 /\ stack # <<>> /\ j \in -1 .. Length
      /\ Head(stack).do = "heapify" => k = Length /\ j \in 0 .. Length - 1
      /\ Head(stack).do = "extract" => j = k
  BY DEF Sift, Inv, Heaping, Indices
<1>2. /\ Length' = Length /\ Slots' = Slots /\ prog' = prog /\ Input'
      /\ Length \in Nat /\ Slots = 0 .. Length - 1
  BY <1>1, SameInput DEF Inv, Input
<1>3. CASE SiftsDown(rank, a, k, i)
  <2>1. PICK max \in 0 .. k - 1 : /\ a' = Swapped(a, i, max) /\ i' = max
                                 /\ UNCHANGED <<pc, j, stack>>
    <3>1. k \in Nat \ {0} /\ i \in Nat
      BY <1>1, <1>2
    <3>2. Largest(rank, a, k, i) \in 0 .. k - 1
      BY <1>3, <3>1, LargestInHeap
    <3>3. QED
      BY <1>3, <3>2 DEF Sift
  <2>2. a' \in [Slots -> Slots] /\ Content(a', Slots) = Content(a, Slots)
    <3>1. a \in [Slots -> Slots] /\ i \in Slots /\ max \in Slots
      BY <1>1, <1>2, <2>1 DEF Inv, Values
    <3>2. QED
      BY <2>1, <3>1, SwapKeeps
  <2>3. Values' /\ Permuted'
    BY <1>1, <1>2, <2>2 DEF Inv, Values, Permuted
  <2>4. Stacked' /\ Indices' /\ Heaping'
    BY <1>1, <1>2, <2>1 DEF Inv, Stacked, Indices, Heaping
  <2>5. QED
    BY <1>1, <1>2, <2>1, <2>3, <2>4, InsideLoop DEF Loops, Always
<1>4. CASE ~SiftsDown(rank, a, k, i)
  <2>1. pc' = Head(stack).do /\ j' = j - 1 /\ stack' = <<>> /\ a' = a /\ i' = i
    BY <1>4 DEF Sift
  <2>2. pc' \in {"heapify", "extract"}
    BY <1>1, <2>1 DEF Inv, Stacked
  <2>3. Values' /\ Permuted'
    BY <1>1, <2>1, NothingMoved
  <2>4. j' \in -1 .. Length - 1
    BY <1>1, <1>2, <2>1, <2>2
  <2>5. Stacked' /\ Indices'
    BY <1>1, <1>2, <2>1, <2>4 DEF Inv, Stacked, Indices
  <2>6. Heaping'
    BY <1>1, <1>2, <2>1, <2>2, <2>4 DEF Heaping
  <2>7. QED
    BY <1>2, <2>2, <2>3, <2>5, <2>6, InsideLoop DEF Loops, Always
<1>5. QED
  BY <1>3, <1>4

-----------------------------------------------------------------------------
(* The theorems.                                                           *)

\* Every step keeps the invariant.
LEMMA NextKeepsInv == Inv /\ [Next]_vars => Inv'
<1> SUFFICES ASSUME Inv, [Next]_vars PROVE Inv'
  OBVIOUS
<1>1. CASE NoMemory \/ Begin \/ Finish
  BY <1>1, NoMemoryKeepsInv, BeginKeepsInv, FinishKeepsInv
<1>2. CASE ShortRange \/ EnterInsertion \/ EnterPartition \/ SplitInHalves \/ EnterMerge
  BY <1>2, ShortRangeKeepsInv, EnterInsertionKeepsInv, EnterPartitionKeepsInv,
     SplitInHalvesKeepsInv, EnterMergeKeepsInv
<1>3. CASE Insertion \/ ScanUp \/ ScanDown \/ Meet \/ MergeTurn
  BY <1>3, InsertionKeepsInv, ScanUpKeepsInv, ScanDownKeepsInv, MeetKeepsInv, MergeTurnKeepsInv
<1>4. CASE Heapify \/ Extract \/ Sift
  BY <1>4, HeapifyKeepsInv, ExtractKeepsInv, SiftKeepsInv
<1>5. CASE UNCHANGED vars
  <2>1. UNCHANGED <<input, a, temp, stack, pc, i, j, k>>
    BY <1>5 DEF vars, input
  <2>2. /\ Input' /\ Values' /\ (Permuted => Permuted') /\ Stacked'
        /\ Start' = Start /\ End' = End /\ Middle' = Middle /\ Length' = Length /\ Slots' = Slots
        /\ prog' = prog /\ rank' = rank
    BY <2>1, SameInput, NothingMoved, SameCalls
  <2>3. Indices' /\ AtStart' /\ InInsertion' /\ Heaping'
    BY <2>1, <2>2 DEF Inv, Indices, AtStart, InInsertion, InSort, Heaping
  <2>4. ScanningUp' /\ ScanningDown' /\ Meeting'
    BY <2>1, <2>2 DEF Inv, ScanningUp, ScanningDown, Meeting, Partitioning, InSort, Passed,
                      StopsUp, StopsLow, Next1, Before, Less
  <2>5. Merging'
    BY <2>1, <2>2 DEF Inv, Merging, InSort, Content
  <2>6. QED
    BY <2>1, <2>2, <2>3, <2>4, <2>5 DEF Inv
<1>6. QED
  BY <1>1, <1>2, <1>3, <1>4, <1>5 DEF Next

\* The invariant holds at every step of every call, for arrays of every
\* length: quicksort.c, mergesort.c, heapsort.c.
THEOREM InductiveInvariant == Spec => []Inv
<1>1. QED
  BY Initially, NextKeepsInv, PTL DEF Spec

\* Sorting loses no element and doubles none, at any step, and all indices
\* and ranges stay within the array (mergesort.c:21-37, quicksort.c:65-93,
\* heapsort.c:15-26, heap.c:58-79, sort_tools.c:10-24).
THEOREM SortingLosesNothing == Spec => []NothingLost
<1>1. ASSUME Inv PROVE NothingLost
  <2>1. \A c \in DOMAIN stack :
          stack[c].do \in {"sort", "merge"} =>
            0 <= stack[c].start /\ stack[c].start <= stack[c].end /\ stack[c].end <= Length
    <3>1. CASE prog # "heapsort"
      <4>1. stack \in Seq(Frames)
        BY <1>1, <3>1 DEF Inv, Stacked
      <4>2. \A c \in DOMAIN stack : stack[c] \in Frames
        BY <4>1, LenProperties, ElementOfSeq
      <4>3. QED
        BY <4>2 DEF Frames
    <3>2. CASE prog = "heapsort"
      BY <1>1, <3>2 DEF Inv, Stacked
    <3>3. QED
      BY <3>1, <3>2
  <2>2. TypeOK
    BY <1>1, <2>1 DEF Inv, Input, Values, Indices, TypeOK
  <2>3. CASE pc = "merge"
    <3>1. /\ prog # "heapsort" /\ stack # <<>> /\ i \in Start .. Middle /\ j \in Middle .. End
          /\ k = j - (Middle - i)
          /\ Content(a, Slots \ (k .. j - 1)) \cup Content(temp, i .. Middle - 1) = Slots
      BY <1>1, <2>3 DEF Inv, Merging, InSort
    <3>2. Start \in Nat /\ End \in Nat /\ Middle \in Start .. End
      BY <1>1, <3>1, RunningRange
    <3>3. k + (Middle - i) = j
      BY <3>1, <3>2
    <3>4. QED
      BY <2>2, <2>3, <3>1, <3>3 DEF NothingLost, Content
  <2>4. CASE pc # "merge"
    BY <1>1, <2>2, <2>4 DEF Inv, NothingLost, Permuted, Content
  <2>5. QED
    BY <2>3, <2>4
<1>2. QED
  BY <1>1, InductiveInvariant, PTL

\* Both scans of the partition stay in their range, whatever the elements are,
\* and where they meet the three claims of its comment hold, so that both
\* parts are shorter than the range (quicksort.c:51-64).
THEOREM PartitionScansMeet == Spec => []ScansMeet
<1>1. ASSUME Inv PROVE ScansMeet
  <2>1. pc = "down" => Start <= i /\ i < End
    <3> SUFFICES ASSUME pc = "down" PROVE Start <= i /\ i < End
      OBVIOUS
    <3>1. prog # "heapsort" /\ stack # <<>> /\ i \in Start .. End - 1
      BY <1>1 DEF Inv, ScanningDown, Partitioning, InSort
    <3>2. QED
      BY <1>1, <3>1, RunningRange
  <2>2. ASSUME pc = "meet"
        PROVE  /\ {i, j} \subseteq Start .. End - 1
               /\ \A x \in Start .. i - 1 : ~Before(temp[1], a[x])
               /\ \A x \in j + 1 .. End - 1 : ~Before(a[x], temp[1])
               /\ i >= j => /\ j >= i - 1 /\ ~Before(temp[1], a[j])
                            /\ j = i => rank[a[j]] = rank[temp[1]]
                            /\ Start <= j /\ j < End - 1
    <3>1. /\ prog # "heapsort" /\ stack # <<>> /\ 1 \in DOMAIN temp
          /\ i \in Start .. End - 1 /\ j \in Start .. End - 1
          /\ i - 1 <= j /\ (j = End - 1 => i < End - 1)
          /\ ~Before(a[i], temp[1]) /\ ~Before(temp[1], a[j])
          /\ Passed(i, j + 1)
      BY <1>1, <2>2 DEF Inv, Meeting, Partitioning, InSort
    <3>2. Start \in Nat /\ End \in Nat /\ End <= Length /\ Length \in Nat /\ Slots = 0 .. Length - 1
      BY <1>1, <3>1, RunningRange
    <3>3. a[i] \in Slots /\ a[j] \in Slots /\ temp[1] \in Slots
      BY <1>1, <3>1, <3>2 DEF Inv, Values
    <3>4. j = i => rank[a[j]] = rank[temp[1]]
      BY <1>1, <3>1, <3>3, BeforeOrders
    <3>5. i >= j => j >= i - 1 /\ Start <= j /\ j < End - 1
      BY <3>1, <3>2
    <3>6. QED
      BY <3>1, <3>4, <3>5 DEF Passed
  <2>3. QED
    BY <2>1, <2>2 DEF ScansMeet
<1>2. QED
  BY <1>1, InductiveInvariant, PTL

-----------------------------------------------------------------------------
(* The invariant: what is in order already, in each of the loops.          *)

\* heapsort: behind the heap stand the largest elements in order.
LargestBehind ==
  InOrder(k, Length) /\ \A x \in 0 .. k - 1, y \in k .. Length - 1 : ~Before(a[y], a[x])

\* The first node that is in its place, apart from the one that sinks
FirstInPlace == IF Head(stack).do = "heapify" THEN j ELSE 0

InPhase ==
  /\ pc = "heapify" => InHeap(rank, a, k, j + 1)
  /\ pc = "extract" => InHeap(rank, a, k, 0)
  /\ pc = "sift" => FirstInPlace <= i /\ HeapBelow(rank, a, k, FirstInPlace, i)
  /\ pc \in {"heapify", "extract", "sift"} => LargestBehind

\* The order that sorting comes to: equal elements keep the order they came in
\* if mergesort sorts them, and may come in any order else.
Precedes(x, y) == Before(x, y) \/ (rank[x] = rank[y] /\ (prog = "mergesort" => x < y))

Sorted(s, e) == \A x, y \in s .. e - 1 : x < y => Precedes(a[x], a[y])

\* mergesort: the elements that came in the slots from s to e, in order
Run(s, e) == Sorted(s, e) /\ \A x \in s .. e - 1 : a[x] \in s .. e - 1

Untouched(s) == \A x \in s .. Length - 1 : a[x] = x

\* All pairs that do not wait for the element that sinks are in order; in
\* mergesort that is element i, and the others came before it.
Sinking ==
  pc = "insertion" =>
    /\ i = End => j = End
    /\ \A x, y \in Start .. End - 1 : x < y /\ y <= i /\ y # j => Precedes(a[x], a[y])
    /\ prog = "mergesort" =>
         /\ i < End => a[j] = i
         /\ \A x \in Start .. End - 1 : x <= i /\ x # j => a[x] \in Start .. i - 1

\* quicksort: no element left of a border is above one right of it.
Border(b) == \A x \in 0 .. b - 1, y \in b .. Length - 1 : ~Before(a[y], a[x])

Tiled ==
  /\ \A c \in 1 .. Len(stack) - 1 : stack[c].end = stack[c + 1].start
  /\ stack # <<>> => stack[Len(stack)].end = Length
  /\ \A b, c \in DOMAIN stack : b < c => stack[b].end <= stack[c].start
  /\ \A c \in DOMAIN stack : stack[c].do = "sort"

InParts ==
  prog = "quicksort" /\ pc \in Loops \cup {"call"} =>
    /\ Tiled
    /\ \A c \in DOMAIN stack : Border(stack[c].start)
    /\ InOrder(0, IF stack = <<>> THEN Length ELSE Start)

\* mergesort: a call is followed by the merge of its range if that is the
\* second half, and else by the call for the second half and the merge.
Half(f) == (f.start + f.end) \div 2

Followed(st, c) ==
  \/ /\ st[c + 1].do = "merge"
     /\ st[c].start = Half(st[c + 1]) /\ st[c].end = st[c + 1].end
  \/ /\ st[c + 1].do = "sort" /\ st[c + 1].start = st[c].end
     /\ c + 2 \in DOMAIN st /\ st[c + 2].do = "merge"
     /\ st[c].start = st[c + 2].start /\ st[c].end = Half(st[c + 2])
     /\ st[c + 1].end = st[c + 2].end

\* An earlier call lies left of the middle of a merge, or in its second half.
Nested(st, b, c) ==
  \/ st[b].end <= Half(st[c])
  \/ Half(st[c]) <= st[b].start /\ st[b].end <= st[c].end

Halved ==
  /\ \A c \in 1 .. Len(stack) - 1 : Followed(stack, c)
  /\ \A b, c \in DOMAIN stack : b < c /\ stack[c].do = "merge" => Nested(stack, b, c)
  /\ \A c \in DOMAIN stack : stack[c].do = "merge" => stack[c].end - stack[c].start >= 2
  /\ stack # <<>> => stack[Len(stack)].start = 0 /\ stack[Len(stack)].end = Length
  /\ Len(stack) > 1 => Start < End

\* The first halves that have been sorted wait for their merge.
HalvesWait ==
  \A c \in 2 .. Len(stack) :
    stack[c].do = "merge" /\ Half(stack[c]) <= Start => Run(stack[c].start, Half(stack[c]))

\* Between two loops a range is sorted that is as it came, or two are merged
\* that have been sorted.
CallReady ==
  IF stack = <<>> THEN Run(0, Length)
  ELSE IF Head(stack).do = "sort" THEN Untouched(Start)
  ELSE Untouched(End) /\ Run(Start, Middle) /\ Run(Middle, End)

\* What was merged precedes what is to be merged, and all three are in order.
Merged ==
  /\ \A x \in Start .. k - 1 : a[x] \in Start .. End - 1
  /\ \A x \in i .. Middle - 1 : temp[x] \in Start .. Middle - 1
  /\ \A x \in j .. End - 1 : a[x] \in Middle .. End - 1
  /\ Sorted(Start, k) /\ Sorted(j, End)
  /\ \A x, y \in i .. Middle - 1 : x < y => Precedes(temp[x], temp[y])
  /\ \A x \in Start .. k - 1 : /\ \A y \in i .. Middle - 1 : Precedes(a[x], temp[y])
                               /\ \A y \in j .. End - 1 : Precedes(a[x], a[y])

InHalves ==
  prog = "mergesort" /\ pc \in Loops \cup {"call"} =>
    /\ Halved /\ HalvesWait
    /\ pc = "call" => CallReady
    /\ pc = "insertion" => Untouched(IF i < End THEN i + 1 ELSE End)
    /\ pc = "merge" => Untouched(End) /\ Merged

\* The strengthening of SortedAtEnd
InOrderSoFar ==
  /\ pc = "start" => Untouched(0)
  /\ InPhase /\ Sinking /\ InParts /\ InHalves /\ SortedAtEnd

-----------------------------------------------------------------------------
(* heapsort                                                                *)

Heapsorting == pc \in {"heapify", "extract", "sift"}

\* The heap is an array of elements that can be compared.
LEMMA HeapOfElements ==
  ASSUME Inv, Heapsorting
  PROVE  /\ prog = "heapsort" /\ Length \in Nat /\ Slots = 0 .. Length - 1 /\ k \in 0 .. Length
         /\ Array(rank, a, k, Length)
         /\ a \in [Slots -> Slots] /\ \A x \in Slots : rank[x] \in Int
<1>1. /\ prog = "heapsort" /\ Length \in Nat /\ Slots = 0 .. Length - 1 /\ k \in 0 .. Length
      /\ a \in [Slots -> Slots]
  BY DEF Heapsorting, Inv, Heaping, Input, Indices, Values
<1>2. \A x \in Slots : rank[x] \in Int
  BY BeforeOrders
<1>3. Array(rank, a, k, Length)
  <2>1. \A x \in 0 .. k - 1 : a[x] \in Slots
    BY <1>1
  <2>2. QED
    BY <1>1, <1>2, <2>1 DEF Array
<1>4. QED
  BY <1>1, <1>2, <1>3

\* What is behind the heap stays there while nothing else moves.
LEMMA StaysBehind ==
  ASSUME Inv, Heapsorting, LargestBehind, UNCHANGED <<input, k>>,
         NEW x \in 0 .. k - 1, NEW y \in 0 .. k - 1, a' = Swapped(a, x, y)
  PROVE  LargestBehind'
<1>1. /\ Length \in Nat /\ Slots = 0 .. Length - 1 /\ k \in 0 .. Length /\ Length' = Length
      /\ rank' = rank /\ k' = k /\ a \in [Slots -> Slots]
  BY HeapOfElements, SameInput
<1>2. a'[x] = a[y] /\ a'[y] = a[x] /\ \A z \in Slots : z # x /\ z # y => a'[z] = a[z]
  <2>1. x \in Slots /\ y \in Slots
    BY <1>1
  <2>2. QED
    BY <1>1, <2>1 DEF Swapped
<1>3. \A z \in k .. Length - 1 : a'[z] = a[z]
  BY <1>1, <1>2
<1>4. \A z \in k .. Length - 2 : z \in k .. Length - 1 /\ z + 1 \in k .. Length - 1
  BY <1>1
<1>5. InOrder(k, Length)'
  BY <1>1, <1>3, <1>4 DEF LargestBehind, InOrder, Before, Less
<1>6. ASSUME NEW z \in 0 .. k - 1, NEW w \in k .. Length - 1 PROVE ~Before(a'[w], a'[z])
  <2>1. PICK v \in 0 .. k - 1 : a'[z] = a[v]
    <3>1. z \in Slots
      BY <1>1
    <3>2. QED
      BY <1>2, <3>1
  <2>2. QED
    BY <1>3, <2>1 DEF LargestBehind
<1>7. QED
  BY <1>1, <1>5, <1>6 DEF LargestBehind, Before, Less

\* A turn of the loop that builds the heap
LEMMA HeapifyKeepsPhase == Inv /\ InPhase /\ Heapify => InPhase'
<1> SUFFICES ASSUME Inv, InPhase, Heapify PROVE InPhase'
  OBVIOUS
<1>1. /\ UNCHANGED <<input, a, temp, k>> /\ pc = "heapify" /\ Heapsorting /\ j \in -1 .. Length - 1
      /\ InHeap(rank, a, k, j + 1) /\ LargestBehind
  BY DEF Heapify, Inv, Heaping, InPhase, Heapsorting
<1>2. /\ Length \in Nat /\ Length' = Length /\ rank' = rank /\ a' = a /\ k' = k
      /\ Array(rank, a, k, Length)
  BY <1>1, HeapOfElements, SameInput
<1>3. LargestBehind'
  BY <1>1, <1>2 DEF LargestBehind, InOrder, Before, Less
<1>4. CASE j >= 0
  <2>1. pc' = "sift" /\ i' = j /\ j' = j /\ FirstInPlace' = j
    BY <1>4 DEF Heapify, SiftFrom, FirstInPlace
  <2>2. HeapBelow(rank, a, k, j, j)
    BY <1>1, <1>2, <1>4, SiftStarts
  <2>3. QED
    BY <1>1, <1>2, <1>3, <2>1, <2>2 DEF InPhase
<1>5. CASE ~(j >= 0)
  <2>1. pc' = "extract" /\ j + 1 = 0
    BY <1>1, <1>5 DEF Heapify
  <2>2. QED
    BY <1>1, <1>2, <1>3, <2>1 DEF InPhase
<1>6. QED
  BY <1>4, <1>5

\* Taking the maximum out puts it before those taken earlier.
LEMMA ExtractKeepsPhase == Inv /\ InPhase /\ Extract /\ j > 0 => InPhase'
<1> SUFFICES ASSUME Inv, InPhase, Extract, j > 0 PROVE InPhase'
  OBVIOUS
<1>1. /\ UNCHANGED input /\ pc = "extract" /\ Heapsorting /\ k = j + 1
      /\ pc' = "sift" /\ a' = Swapped(a, 0, j) /\ k' = k - 1 /\ i' = 0 /\ FirstInPlace' = 0
      /\ InHeap(rank, a, k, 0) /\ LargestBehind
  BY DEF Extract, SiftFrom, Inv, Heaping, InPhase, Heapsorting, FirstInPlace
<1>2. /\ Length \in Nat /\ Slots = 0 .. Length - 1 /\ Length' = Length /\ rank' = rank
      /\ Array(rank, a, k, Length) /\ a \in [Slots -> Slots] /\ k \in 0 .. Length
      /\ j \in Nat /\ k - 1 = j /\ k > 1 /\ j \in 0 .. Length - 1
  BY <1>1, HeapOfElements, SameInput DEF Inv, Indices
<1>3. HeapBelow(rank, a', k', 0, 0)
  BY <1>1, <1>2, ExtractStarts
<1>4. /\ a'[j] = a[0]
      /\ \A z \in k .. Length - 1 : a'[z] = a[z]
      /\ \A z \in 0 .. j - 1 : \E w \in 0 .. k - 1 : a'[z] = a[w]
  <2>1. 0 \in Slots /\ j \in Slots /\ j # 0
    BY <1>2
  <2>2. a'[j] = a[0] /\ a'[0] = a[j] /\ \A z \in Slots : z # 0 /\ z # j => a'[z] = a[z]
    BY <1>1, <1>2, <2>1 DEF Swapped
  <2>3. \A z \in k .. Length - 1 : a'[z] = a[z]
    <3>1. \A z \in k .. Length - 1 : z \in Slots /\ z # 0 /\ z # j
      BY <1>1, <1>2
    <3>2. QED
      BY <2>2, <3>1
  <2>4. ASSUME NEW z \in 0 .. j - 1 PROVE \E w \in 0 .. k - 1 : a'[z] = a[w]
    <3>1. z \in Slots /\ z # j /\ z \in 0 .. k - 1 /\ j \in 0 .. k - 1
      BY <1>1, <1>2
    <3>2. QED
      BY <2>2, <3>1
  <2>5. QED
    BY <2>2, <2>3, <2>4
<1>5. \A x \in 0 .. k - 1 : ~Before(a[0], a[x])
  BY <1>1, <1>2, FirstIsLargest DEF Before
<1>6. \A x \in 0 .. k - 1, y \in k .. Length - 1 : ~Before(a[y], a[x])
  BY <1>1 DEF LargestBehind
<1>7. ASSUME NEW z \in j .. Length - 2 PROVE ~Before(a'[z + 1], a'[z])
  <2>1. CASE z = j
    <3>1. z + 1 \in k .. Length - 1 /\ 0 \in 0 .. k - 1
      BY <1>1, <1>2, <2>1
    <3>2. QED
      BY <1>4, <1>6, <2>1, <3>1
  <2>2. CASE z # j
    <3>1. z \in k .. Length - 1 /\ z + 1 \in k .. Length - 1 /\ z \in k .. Length - 2
      BY <1>1, <1>2, <2>2
    <3>2. QED
      BY <1>1, <1>4, <3>1 DEF LargestBehind, InOrder
  <2>3. QED
    BY <2>1, <2>2
<1>8. ASSUME NEW x \in 0 .. j - 1, NEW y \in j .. Length - 1 PROVE ~Before(a'[y], a'[x])
  <2>1. PICK w \in 0 .. k - 1 : a'[x] = a[w]
    BY <1>4
  <2>2. CASE y = j
    BY <1>4, <1>5, <2>1, <2>2
  <2>3. CASE y # j
    <3>1. y \in k .. Length - 1
      BY <1>1, <1>2, <2>3
    <3>2. QED
      BY <1>4, <1>6, <2>1, <3>1
  <2>4. QED
    BY <2>2, <2>3
<1>9. LargestBehind'
  BY <1>1, <1>2, <1>7, <1>8 DEF LargestBehind, InOrder, Before, Less
<1>10. QED
  BY <1>1, <1>2, <1>3, <1>9 DEF InPhase

\* A turn of the loop that sifts down
LEMMA SiftKeepsPhase == Inv /\ InPhase /\ Sift => InPhase'
<1> SUFFICES ASSUME Inv, InPhase, Sift PROVE InPhase'
  OBVIOUS
<1>1. /\ UNCHANGED <<input, k>> /\ pc = "sift" /\ Heapsorting /\ stack # <<>>
      /\ i \in 0 .. k - 1 /\ LargestBehind
      /\ Head(stack).do = "heapify" => j \in 0 .. Length - 1
      /\ FirstInPlace <= i /\ HeapBelow(rank, a, k, FirstInPlace, i)
  BY DEF Sift, Inv, Heaping, InPhase, Heapsorting
<1>2. /\ Length \in Nat /\ Slots = 0 .. Length - 1 /\ Length' = Length /\ rank' = rank /\ k' = k
      /\ Array(rank, a, k, Length) /\ k \in 0 .. Length
  BY <1>1, HeapOfElements, SameInput
<1>3. FirstInPlace \in Nat /\ i \in FirstInPlace .. k - 1 /\ k \in Nat
  BY <1>1, <1>2 DEF FirstInPlace
<1>4. CASE SiftsDown(rank, a, k, i)
  <2> DEFINE max == Largest(rank, a, k, i)
  <2>1. a' = Swapped(a, i, max) /\ i' = max /\ pc' = "sift" /\ UNCHANGED <<j, stack>>
    BY <1>1, <1>4 DEF Sift
  <2>2. max \in i + 1 .. k - 1
    BY <1>1, <1>2, <1>4, LargestIsChild
  <2>3. HeapBelow(rank, Swapped(a, i, max), k, FirstInPlace, max)
    BY <1>1, <1>2, <1>3, <1>4, SiftTurn
  <2> HIDE DEF max
  <2>4. max \in 0 .. k - 1 /\ FirstInPlace <= max
    BY <1>3, <2>2
  <2>5. LargestBehind'
    BY <1>1, <2>1, <2>4, StaysBehind
  <2>6. FirstInPlace' = FirstInPlace
    BY <2>1 DEF FirstInPlace
  <2>7. QED
    BY <1>2, <2>1, <2>3, <2>4, <2>5, <2>6 DEF InPhase
<1>5. CASE ~SiftsDown(rank, a, k, i)
  <2>1. pc' = Head(stack).do /\ j' = j - 1 /\ a' = a
    BY <1>5 DEF Sift
  <2>2. pc' \in {"heapify", "extract"}
    BY <1>1, <2>1, HeapOfElements DEF Inv, Stacked
  <2>3. InHeap(rank, a, k, FirstInPlace)
    BY <1>1, <1>2, <1>3, <1>5, SiftStops
  <2>4. LargestBehind'
    BY <1>1, <1>2, <2>1 DEF LargestBehind, InOrder, Before, Less
  <2>5. pc' = "heapify" => j' + 1 = FirstInPlace
    BY <1>1, <1>2, <2>1 DEF FirstInPlace
  <2>6. pc' = "extract" => FirstInPlace = 0
    BY <2>1 DEF FirstInPlace
  <2>7. QED
    BY <1>2, <2>1, <2>2, <2>3, <2>4, <2>5, <2>6 DEF InPhase
<1>6. QED
  BY <1>4, <1>5

\* The last element of the array that the loop comes to is the smallest one.
LEMMA ExtractSorts == Inv /\ InPhase /\ Extract /\ ~(j > 0) => InOrder(0, Length)'
<1> SUFFICES ASSUME Inv, InPhase, Extract, ~(j > 0) PROVE InOrder(0, Length)'
  OBVIOUS
<1>1. /\ UNCHANGED input /\ pc = "extract" /\ Heapsorting /\ k = j + 1 /\ a' = a /\ LargestBehind
      /\ j \in -1 .. Length
  BY DEF Extract, Inv, Heaping, InPhase, Heapsorting, Indices
<1>2. /\ Length \in Nat /\ Length' = Length /\ rank' = rank /\ k \in 0 .. 1
  BY <1>1, HeapOfElements, SameInput
<1>3. ASSUME NEW x \in 0 .. Length - 2 PROVE ~Before(a[x + 1], a[x])
  <2>1. CASE x >= k
    <3>1. x \in k .. Length - 2
      BY <1>2, <2>1
    <3>2. QED
      BY <1>1, <3>1 DEF LargestBehind, InOrder
  <2>2. CASE x < k
    <3>1. x \in 0 .. k - 1 /\ x + 1 \in k .. Length - 1
      BY <1>2, <2>2
    <3>2. QED
      BY <1>1, <3>1 DEF LargestBehind
  <2>3. QED
    BY <1>2, <2>1, <2>2
<1>4. QED
  BY <1>1, <1>2, <1>3 DEF InOrder, Before, Less

-----------------------------------------------------------------------------
(* The insertion sort.                                                     *)

\* Precedes is transitive and never against the order of the elements.
LEMMA PrecedesOrders ==
  ASSUME Inv
  PROVE  /\ \A x, y, z \in Slots : Precedes(x, y) /\ Precedes(y, z) => Precedes(x, z)
         /\ \A x, y \in Slots : Precedes(x, y) => ~Before(y, x)
<1>1. \A x \in Slots : x \in Int /\ rank[x] \in Int
  BY BeforeOrders DEF Inv, Input
<1>2. QED
  BY <1>1 DEF Precedes, Before, Less

\* The range that is sorted by insertion
LEMMA InsertionRange ==
  ASSUME Inv, pc = "insertion"
  PROVE  /\ prog # "heapsort" /\ stack # <<>> /\ Head(stack).do = "sort"
         /\ Length \in Nat /\ Slots = 0 .. Length - 1 /\ a \in [Slots -> Slots]
         /\ Start \in Nat /\ End \in Nat /\ End <= Length
         /\ i \in Start + 1 .. End /\ j \in Start .. i
<1>1. prog # "heapsort" /\ stack # <<>> /\ Head(stack).do = "sort" /\ i \in Start + 1 .. End /\ j \in Start .. i
      /\ a \in [Slots -> Slots]
  BY DEF Inv, InInsertion, InSort, Values
<1>2. QED
  BY <1>1, RunningRange

\* Nothing sinks yet when the insertion sort begins.
LEMMA EnterInsertionSinks == Inv /\ InHalves /\ EnterInsertion => Sinking'
<1> SUFFICES ASSUME Inv, InHalves, EnterInsertion PROVE Sinking'
  OBVIOUS
<1>1. /\ UNCHANGED <<input, a, stack>> /\ pc = "call" /\ prog # "heapsort" /\ stack # <<>>
      /\ Head(stack).do = "sort" /\ pc' = "insertion" /\ i' = Start + 1 /\ j' = Start + 1
  BY DEF EnterInsertion, Calls, Inv
<1>2. /\ Length \in Nat /\ Start \in Nat /\ End \in Nat /\ End <= Length
      /\ Start' = Start /\ End' = End /\ prog' = prog /\ a' = a
  BY <1>1, RunningRange, SameInput, SameCalls
<1>3. prog = "mergesort" => \A x \in Start .. End - 1 : a[x] = x
  BY <1>1, <1>2 DEF InHalves, CallReady, Untouched
<1>4. prog = "mergesort" => (Start + 1 < End => a[Start + 1] = Start + 1)
  BY <1>2, <1>3
<1>5. \A x, y \in Start .. End - 1 : ~(x < y /\ y <= Start + 1 /\ y # Start + 1)
  BY <1>2
<1>6. prog = "mergesort" => \A x \in Start .. End - 1 : x <= Start + 1 /\ x # Start + 1 =>
                               a[x] \in Start .. Start + 1 - 1
  BY <1>2, <1>3
<1>7. QED
  BY <1>1, <1>2, <1>4, <1>5, <1>6 DEF Sinking

\* A turn of the loop in which the element sinks ...
LEMMA SinkTurn ==
  ASSUME Inv, Sinking, Insertion, i < End, Sinks, a' = Swapped(a, j, j - 1), j' = j - 1,
         UNCHANGED <<i, pc, stack>>
  PROVE  Sinking'
<1>1. /\ pc = "insertion" /\ UNCHANGED <<input, temp, k>> /\ j > Start /\ Before(a[j], a[j - 1])
  BY DEF Insertion, Sinks
<1>2. /\ Length \in Nat /\ Slots = 0 .. Length - 1 /\ a \in [Slots -> Slots]
      /\ Start \in Nat /\ End \in Nat /\ End <= Length /\ i \in Start + 1 .. End /\ j \in Start .. i
      /\ j - 1 \in Slots /\ j \in Slots /\ j - 1 \in Start .. End - 1 /\ j - 1 < j /\ j \in Start .. End - 1
  BY <1>1, InsertionRange
<1>3. Start' = Start /\ End' = End /\ prog' = prog /\ rank' = rank
  BY <1>1, <1>2, SameInput, SameCalls
<1>4. a'[j] = a[j - 1] /\ a'[j - 1] = a[j] /\ \A x \in Start .. End - 1 : x # j /\ x # j - 1 => a'[x] = a[x]
  <2>1. \A x \in Start .. End - 1 : x \in Slots
    BY <1>2
  <2>2. QED
    BY <1>2, <2>1 DEF Swapped
<1>5. \A x, y \in Start .. End - 1 : x < y /\ y <= i /\ y # j => Precedes(a[x], a[y])
  BY <1>1 DEF Sinking
<1>6. ASSUME NEW x \in Start .. End - 1, NEW y \in Start .. End - 1, x < y, y <= i, y # j - 1
      PROVE  Precedes(a'[x], a'[y])
  <2>1. CASE y = j /\ x = j - 1
    BY <1>1, <1>4, <2>1 DEF Precedes
  <2>2. CASE y = j /\ x # j - 1
    <3>1. x < j - 1 /\ x # j /\ j - 1 <= i /\ j - 1 # j
      BY <1>2, <1>6, <2>2
    <3>2. Precedes(a[x], a[j - 1])
      BY <1>2, <1>5, <3>1
    <3>3. QED
      BY <1>4, <2>2, <3>1, <3>2
  <2>3. CASE y # j
    <3>1. a'[y] = a[y] /\ Precedes(a[x], a[y])
      BY <1>4, <1>5, <1>6, <2>3
    <3>2. CASE x = j
      <4>1. j - 1 < y
        BY <1>2, <1>6, <3>2
      <4>2. Precedes(a[j - 1], a[y])
        BY <1>2, <1>5, <1>6, <2>3, <4>1
      <4>3. QED
        BY <1>4, <3>1, <3>2, <4>2
    <3>3. CASE x = j - 1
      <4>1. j < y
        BY <1>2, <1>6, <2>3, <3>3
      <4>2. Precedes(a[j], a[y])
        BY <1>2, <1>5, <1>6, <2>3, <4>1
      <4>3. QED
        BY <1>4, <3>1, <3>3, <4>2
    <3>4. CASE x # j /\ x # j - 1
      BY <1>4, <3>1, <3>4
    <3>5. QED
      BY <3>2, <3>3, <3>4
  <2>4. QED
    BY <2>1, <2>2, <2>3
<1>7. ASSUME prog = "mergesort"
      PROVE  /\ a'[j - 1] = i
             /\ \A x \in Start .. End - 1 : x <= i /\ x # j - 1 => a'[x] \in Start .. i - 1
  <2>1. a[j] = i /\ \A x \in Start .. End - 1 : x <= i /\ x # j => a[x] \in Start .. i - 1
    BY <1>1, <1>7 DEF Sinking
  <2>2. a[j - 1] \in Start .. i - 1
    BY <1>2, <2>1
  <2>3. QED
    BY <1>4, <2>1, <2>2
<1>8. i' # End'
  BY <1>2, <1>3
<1>9. QED
  BY <1>3, <1>6, <1>7, <1>8 DEF Sinking, Precedes, Before, Less

\* ... and one in which it stands where it belongs: the next one sinks.
LEMMA RestTurn ==
  ASSUME Inv, Sinking, InHalves, Insertion, i < End, ~Sinks, i' = i + 1, j' = i + 1,
         UNCHANGED <<a, pc, stack>>
  PROVE  Sinking'
<1>1. pc = "insertion" /\ UNCHANGED <<input, temp, k>> /\ (j > Start => ~Before(a[j], a[j - 1]))
  BY DEF Insertion, Sinks
<1>2. /\ Length \in Nat /\ Slots = 0 .. Length - 1 /\ a \in [Slots -> Slots]
      /\ Start \in Nat /\ End \in Nat /\ End <= Length /\ i \in Start + 1 .. End /\ j \in Start .. i
      /\ j \in Start .. End - 1
  BY <1>1, InsertionRange
<1>3. Start' = Start /\ End' = End /\ prog' = prog /\ rank' = rank /\ a' = a
  BY <1>1, <1>2, SameInput, SameCalls
<1>4. \A x, y \in Start .. End - 1 : x < y /\ y <= i /\ y # j => Precedes(a[x], a[y])
  BY <1>1 DEF Sinking
<1>5. prog = "mergesort" =>
        /\ a[j] = i
        /\ \A x \in Start .. End - 1 : x <= i /\ x # j => a[x] \in Start .. i - 1
  BY <1>1 DEF Sinking
<1>6. \A x \in Start .. End - 1 : x \in Slots /\ a[x] \in Slots
  BY <1>2
<1>7. j > Start => Precedes(a[j - 1], a[j])
  <2> SUFFICES ASSUME j > Start PROVE Precedes(a[j - 1], a[j])
    OBVIOUS
  <2>1. j - 1 \in Start .. End - 1 /\ j - 1 <= i /\ j - 1 # j
    BY <1>2
  <2>2. rank[a[j]] \in Int /\ rank[a[j - 1]] \in Int /\ ~(rank[a[j]] < rank[a[j - 1]])
    BY <1>1, <1>2, <1>6, <2>1, BeforeOrders
  <2>3. prog = "mergesort" => a[j - 1] < a[j]
    BY <1>2, <1>5, <2>1
  <2>4. QED
    BY <2>2, <2>3 DEF Precedes, Before, Less
<1>8. ASSUME NEW x \in Start .. End - 1, NEW y \in Start .. End - 1, x < y, y <= i + 1, y # i + 1
      PROVE  Precedes(a[x], a[y])
  <2>1. y <= i /\ y \in Nat /\ x \in Nat
    BY <1>2, <1>8
  <2>2. CASE y # j
    BY <1>4, <1>8, <2>1, <2>2
  <2>3. CASE y = j
    <3>1. j > Start /\ j - 1 \in Start .. End - 1 /\ j - 1 <= i /\ j - 1 # j /\ (x # j - 1 => x < j - 1)
      BY <1>2, <1>8, <2>3
    <3>2. x # j - 1 => Precedes(a[x], a[j - 1])
      BY <1>4, <3>1
    <3>3. QED
      BY <1>6, <1>7, <2>3, <3>1, <3>2, PrecedesOrders
  <2>4. QED
    BY <2>2, <2>3
<1>9. ASSUME prog = "mergesort"
      PROVE  /\ i + 1 < End => a[i + 1] = i + 1
             /\ \A x \in Start .. End - 1 : x <= i + 1 /\ x # i + 1 => a[x] \in Start .. i
  <2>1. Untouched(i + 1)
    BY <1>1, <1>9 DEF InHalves, Loops
  <2>2. i + 1 < End => a[i + 1] = i + 1
    BY <1>2, <2>1 DEF Untouched
  <2>3. ASSUME NEW x \in Start .. End - 1, x <= i + 1, x # i + 1 PROVE a[x] \in Start .. i
    <3>1. x <= i
      BY <1>2, <2>3
    <3>2. CASE x = j
      BY <1>2, <1>5, <1>9, <3>2
    <3>3. CASE x # j
      <4>1. a[x] \in Start .. i - 1
        BY <1>5, <1>9, <3>1, <3>3
      <4>2. QED
        BY <1>2, <4>1
    <3>4. QED
      BY <3>2, <3>3
  <2>4. QED
    BY <2>2, <2>3
<1>10. (i = End => j = End)'
  BY <1>3
<1>11. (\A x, y \in Start .. End - 1 : x < y /\ y <= i /\ y # j => Precedes(a[x], a[y]))'
  BY <1>3, <1>8 DEF Precedes, Before, Less
<1>12. ASSUME prog' = "mergesort"
       PROVE  (/\ i < End => a[j] = i
               /\ \A x \in Start .. End - 1 : x <= i /\ x # j => a[x] \in Start .. i - 1)'
  <2>1. (i < End => a[j] = i)'
    BY <1>3, <1>9, <1>12
  <2>2. (\A x \in Start .. End - 1 : x <= i /\ x # j => a[x] \in Start .. i - 1)'
    <3>1. i' - 1 = i
      BY <1>2
    <3>2. QED
      BY <1>3, <1>9, <1>12, <3>1
  <2>3. QED
    BY <2>1, <2>2
<1>13. QED
  BY <1>10, <1>11, <1>12 DEF Sinking

\* When all elements are in place, the range is sorted.
LEMMA InsertionSorts ==
  ASSUME Inv, Sinking, pc = "insertion", i >= End
  PROVE  Sorted(Start, End) /\ (prog = "mergesort" => Run(Start, End))
<1>1. Start \in Nat /\ End \in Nat /\ i = End /\ j = End
  BY InsertionRange DEF Sinking
<1>2. \A x \in Start .. End - 1 : x <= i /\ x # j
  BY <1>1
<1>3. Sorted(Start, End)
  BY <1>2 DEF Sinking, Sorted
<1>4. prog = "mergesort" => Run(Start, End)
  BY <1>1, <1>2, <1>3 DEF Sinking, Run
<1>5. QED
  BY <1>3, <1>4

-----------------------------------------------------------------------------
(* quicksort                                                               *)

\* The call that returns leaves the others, ...
LEMMA TailShifts ==
  ASSUME NEW S, NEW st \in Seq(S), st # <<>>
  PROVE  /\ Len(st) \in Nat \ {0} /\ DOMAIN st = 1 .. Len(st) /\ Head(st) = st[1]
         /\ Tail(st) \in Seq(S) /\ Len(Tail(st)) = Len(st) - 1 /\ DOMAIN Tail(st) = 1 .. Len(st) - 1
         /\ \A c \in 1 .. Len(st) - 1 : Tail(st)[c] = st[c + 1]
         /\ Tail(st) = <<>> <=> Len(st) = 1
<1>1. /\ Len(st) \in Nat \ {0} /\ DOMAIN st = 1 .. Len(st)
      /\ Tail(st) \in Seq(S) /\ Len(Tail(st)) = Len(st) - 1
      /\ \A c \in 1 .. Len(Tail(st)) : Tail(st)[c] = st[c + 1]
  BY HeadTailProperties, LenProperties, EmptySeq
<1>2. DOMAIN Tail(st) = 1 .. Len(st) - 1
  BY <1>1, LenProperties
<1>3. Tail(st) = <<>> <=> Len(st) = 1
  BY <1>1, EmptySeq
<1>4. QED
  BY <1>1, <1>2, <1>3

\* ... and one that makes calls leaves them behind those.
LEMMA CallsShift ==
  ASSUME NEW S, NEW st \in Seq(S), st # <<>>, NEW calls \in Seq(S)
  PROVE  LET more == calls \o Tail(st)
         IN  /\ more \in Seq(S) /\ Len(more) = Len(calls) + Len(st) - 1
             /\ DOMAIN more = 1 .. Len(calls) + Len(st) - 1
             /\ \A c \in 1 .. Len(calls) : more[c] = calls[c]
             /\ \A c \in Len(calls) + 1 .. Len(calls) + Len(st) - 1 : more[c] = st[c + 1 - Len(calls)]
<1> DEFINE more == calls \o Tail(st)
<1>1. /\ Len(st) \in Nat \ {0} /\ Tail(st) \in Seq(S) /\ Len(Tail(st)) = Len(st) - 1
      /\ \A c \in 1 .. Len(st) - 1 : Tail(st)[c] = st[c + 1]
  BY TailShifts
<1>2. Len(calls) \in Nat
  BY LenProperties
<1>3. /\ more \in Seq(S) /\ Len(more) = Len(calls) + (Len(st) - 1)
      /\ \A c \in 1 .. Len(calls) + (Len(st) - 1) :
            more[c] = IF c <= Len(calls) THEN calls[c] ELSE Tail(st)[c - Len(calls)]
  BY <1>1, ConcatProperties
<1>4. DOMAIN more = 1 .. Len(more)
  BY <1>3, LenProperties
<1> HIDE DEF more
<1>5. \A c \in 1 .. Len(calls) : more[c] = calls[c]
  BY <1>1, <1>2, <1>3
<1>6. ASSUME NEW c \in Len(calls) + 1 .. Len(calls) + Len(st) - 1
      PROVE  more[c] = st[c + 1 - Len(calls)]
  <2>1. /\ c \in 1 .. Len(calls) + (Len(st) - 1) /\ ~(c <= Len(calls))
        /\ c - Len(calls) \in 1 .. Len(st) - 1 /\ (c - Len(calls)) + 1 = c + 1 - Len(calls)
    BY <1>1, <1>2
  <2>2. QED
    BY <1>1, <1>3, <2>1
<1>7. Len(calls) + (Len(st) - 1) = Len(calls) + Len(st) - 1
  BY <1>1, <1>2
<1>8. QED
  BY <1>3, <1>4, <1>5, <1>6, <1>7 DEF more

\* What is known while quicksort is at work
Quicksorting == prog = "quicksort" /\ pc \in Loops \cup {"call"}

\* Two parts that are in order, with a border between them, are one.
LEMMA PartsJoin ==
  ASSUME Inv, NEW s \in Nat, NEW e \in Nat, s <= e, e <= Length,
         InOrder(0, s), Border(s), Sorted(s, e)
  PROVE  InOrder(0, e)
<1>1. Length \in Nat /\ Slots = 0 .. Length - 1 /\ a \in [Slots -> Slots]
  BY DEF Inv, Input, Values
<1>2. ASSUME NEW x \in 0 .. e - 2 PROVE ~Before(a[x + 1], a[x])
  <2>1. CASE x + 1 < s
    BY <2>1 DEF InOrder
  <2>2. CASE x + 1 = s
    <3>1. x \in 0 .. s - 1 /\ x + 1 \in s .. Length - 1
      BY <1>1, <2>2
    <3>2. QED
      BY <3>1 DEF Border
  <2>3. CASE x >= s
    <3>1. x \in s .. e - 1 /\ x + 1 \in s .. e - 1 /\ x < x + 1 /\ x \in Slots /\ x + 1 \in Slots
      BY <1>1, <2>3
    <3>2. Precedes(a[x], a[x + 1]) /\ a[x] \in Slots /\ a[x + 1] \in Slots
      BY <1>1, <3>1 DEF Sorted
    <3>3. QED
      BY <3>2, PrecedesOrders
  <2>4. QED
    BY <2>1, <2>2, <2>3
<1>3. QED
  BY <1>2 DEF InOrder

\* The running call and the others
LEMMA QuickStack ==
  ASSUME Inv, InParts, Quicksorting
  PROVE  /\ stack \in Seq(Frames) /\ Length \in Nat /\ Slots = 0 .. Length - 1 /\ a \in [Slots -> Slots]
         /\ Tiled /\ InOrder(0, IF stack = <<>> THEN Length ELSE Start)
         /\ \A c \in DOMAIN stack : Border(stack[c].start)
         /\ stack # <<>> =>
              /\ Start \in Nat /\ End \in Nat /\ Start <= End /\ End <= Length
              /\ Len(stack) \in Nat \ {0} /\ DOMAIN stack = 1 .. Len(stack)
              /\ Start = stack[1].start /\ End = stack[1].end
              /\ Border(Start)
              /\ End = IF Len(stack) = 1 THEN Length ELSE stack[2].start
<1>1. /\ stack \in Seq(Frames) /\ Length \in Nat /\ Slots = 0 .. Length - 1 /\ a \in [Slots -> Slots]
      /\ Tiled /\ InOrder(0, IF stack = <<>> THEN Length ELSE Start)
      /\ \A c \in DOMAIN stack : Border(stack[c].start)
  BY DEF Inv, Input, Values, Stacked, InParts, Quicksorting
<1>2. ASSUME stack # <<>>
      PROVE  /\ Start \in Nat /\ End \in Nat /\ Start <= End /\ End <= Length
             /\ Len(stack) \in Nat \ {0} /\ DOMAIN stack = 1 .. Len(stack)
             /\ Start = stack[1].start /\ End = stack[1].end
             /\ Border(Start)
             /\ End = IF Len(stack) = 1 THEN Length ELSE stack[2].start
  <2>1. Start \in Nat /\ End \in Nat /\ Start <= End /\ End <= Length
    BY <1>2, RunningRange DEF Quicksorting
  <2>2. /\ Len(stack) \in Nat \ {0} /\ DOMAIN stack = 1 .. Len(stack)
        /\ Start = stack[1].start /\ End = stack[1].end
    BY <1>1, <1>2, TailShifts DEF Start, End
  <2>3. Border(Start)
    BY <1>1, <2>2
  <2>4. Len(stack) # 1 => 1 \in 1 .. Len(stack) - 1 /\ 1 + 1 = 2
    BY <2>2
  <2>5. End = IF Len(stack) = 1 THEN Length ELSE stack[2].start
    BY <1>1, <1>2, <2>2, <2>4 DEF Tiled
  <2>6. QED
    BY <2>1, <2>2, <2>3, <2>5
<1>3. QED
  BY <1>1, <1>2

\* A call returns when its range is sorted.
LEMMA QuickReturns ==
  ASSUME Inv, InParts, Quicksorting, stack # <<>>, Sorted(Start, End),
         UNCHANGED <<input, a>>, stack' = Tail(stack)
  PROVE  InParts'
<1>1. /\ stack \in Seq(Frames) /\ Len(stack) \in Nat \ {0} /\ DOMAIN stack = 1 .. Len(stack)
      /\ Start \in Nat /\ End \in Nat /\ Start <= End /\ End <= Length
      /\ Tiled /\ InOrder(0, Start) /\ Border(Start)
      /\ \A c \in DOMAIN stack : Border(stack[c].start)
      /\ End = IF Len(stack) = 1 THEN Length ELSE stack[2].start
  BY QuickStack
<1>2. /\ Len(stack') = Len(stack) - 1 /\ DOMAIN stack' = 1 .. Len(stack) - 1
      /\ \A c \in 1 .. Len(stack) - 1 : stack'[c] = stack[c + 1]
      /\ stack' = <<>> <=> Len(stack) = 1
      /\ stack' # <<>> => Head(stack') = stack'[1]
  BY <1>1, TailShifts
<1>3. rank' = rank /\ Length' = Length /\ a' = a
  BY SameInput
<1>4. Tiled'
  <2>1. \A c \in 1 .. Len(stack') - 1 : stack'[c].end = stack'[c + 1].start
    <3>1. ASSUME NEW c \in 1 .. Len(stack') - 1 PROVE stack'[c].end = stack'[c + 1].start
      <4>1. c \in 1 .. Len(stack) - 1 /\ c + 1 \in 1 .. Len(stack) - 1
        BY <1>1, <1>2
      <4>2. QED
        BY <1>1, <1>2, <4>1 DEF Tiled
    <3>2. QED
      BY <3>1
  <2>2. stack' # <<>> => stack'[Len(stack')].end = Length'
    <3>1. stack' # <<>> => Len(stack) - 1 \in 1 .. Len(stack) - 1 /\ (Len(stack) - 1) + 1 = Len(stack)
      BY <1>1, <1>2
    <3>2. QED
      BY <1>1, <1>2, <1>3, <3>1 DEF Tiled
  <2>3. \A b, c \in DOMAIN stack' : b < c => stack'[b].end <= stack'[c].start
    <3>1. ASSUME NEW b \in DOMAIN stack', NEW c \in DOMAIN stack', b < c
          PROVE  stack'[b].end <= stack'[c].start
      <4>1. b + 1 \in DOMAIN stack /\ c + 1 \in DOMAIN stack /\ b + 1 < c + 1
        BY SMTT(30), <1>1, <1>2, <3>1
      <4>2. QED
        BY <1>1, <1>2, <4>1 DEF Tiled
    <3>2. QED
      BY <3>1
  <2>4. \A c \in DOMAIN stack' : stack'[c].do = "sort"
    <3>1. \A c \in DOMAIN stack' : c + 1 \in DOMAIN stack /\ stack'[c] = stack[c + 1]
      BY <1>1, <1>2
    <3>2. QED
      BY <1>1, <3>1 DEF Tiled
  <2>5. QED
    BY <2>1, <2>2, <2>3, <2>4 DEF Tiled
<1>5. \A c \in DOMAIN stack' : Border(stack[c].start)'
  <2>1. ASSUME NEW c \in DOMAIN stack' PROVE Border(stack[c].start)'
    <3>1. c + 1 \in DOMAIN stack /\ stack'[c] = stack[c + 1]
      BY <1>1, <1>2
    <3>2. Border(stack[c + 1].start)
      BY <1>1, <3>1
    <3>3. QED
      BY <1>3, <3>1, <3>2 DEF Border, Before, Less
  <2>2. QED
    BY <2>1
<1>6. InOrder(0, End)
  BY <1>1, PartsJoin
<1>7. End = (IF stack = <<>> THEN Length ELSE Start)'
  <2>1. CASE Len(stack) = 1
    BY <1>1, <1>2, <1>3, <2>1
  <2>2. CASE Len(stack) # 1
    <3>1. 1 \in 1 .. Len(stack) - 1 /\ 1 + 1 = 2
      BY <1>1, <2>2
    <3>2. QED
      BY <1>1, <1>2, <2>2, <3>1 DEF Start
  <2>3. QED
    BY <2>1, <2>2
<1>8. InOrder(0, IF stack = <<>> THEN Length ELSE Start)'
  BY <1>3, <1>6, <1>7 DEF InOrder, Before, Less
<1>9. QED
  BY <1>4, <1>5, <1>8 DEF InParts

\* Nothing changes while no element moves and no call returns, ...
LEMMA QuickStays ==
  ASSUME InParts, Quicksorting, UNCHANGED <<input, a, stack>>
  PROVE  InParts'
<1>1. rank' = rank /\ Length' = Length /\ a' = a /\ stack' = stack /\ Start' = Start
  BY SameInput DEF Start
<1>2. Tiled /\ InOrder(0, IF stack = <<>> THEN Length ELSE Start)
      /\ \A c \in DOMAIN stack : Border(stack[c].start)
  BY DEF InParts, Quicksorting
<1>3. Tiled'
  BY <1>1, <1>2 DEF Tiled
<1>4. \A c \in DOMAIN stack' : Border(stack[c].start)'
  BY <1>1, <1>2 DEF Border, Before, Less
<1>5. InOrder(0, IF stack = <<>> THEN Length ELSE Start)'
  BY <1>1, <1>2 DEF InOrder, Before, Less
<1>6. QED
  BY <1>3, <1>4, <1>5 DEF InParts

\* ... nor while elements are swapped within the range of the running call,
\* which is on one side of every border.
LEMMA QuickSwaps ==
  ASSUME Inv, InParts, Quicksorting, stack # <<>>, UNCHANGED <<input, stack>>,
         NEW x \in Start .. End - 1, NEW y \in Start .. End - 1, a' = Swapped(a, x, y)
  PROVE  InParts'
<1>1. /\ Length \in Nat /\ Slots = 0 .. Length - 1 /\ a \in [Slots -> Slots]
      /\ stack \in Seq(Frames) /\ Len(stack) \in Nat \ {0} /\ DOMAIN stack = 1 .. Len(stack)
      /\ Start \in Nat /\ End \in Nat /\ Start <= End /\ End <= Length
      /\ Start = stack[1].start /\ End = stack[1].end
      /\ Tiled /\ InOrder(0, Start)
      /\ \A c \in DOMAIN stack : Border(stack[c].start)
  BY QuickStack
<1>0. Length \in Nat /\ Start \in Nat /\ End \in Nat /\ Start <= End /\ End <= Length
  BY <1>1
<1>2. rank' = rank /\ Length' = Length /\ stack' = stack /\ Start' = Start
  BY SameInput DEF Start
<1>3. a'[x] = a[y] /\ a'[y] = a[x] /\ \A z \in Slots : z # x /\ z # y => a'[z] = a[z]
  <2>1. x \in Slots /\ y \in Slots
    BY <1>1
  <2>2. QED
    BY <1>1, <2>1 DEF Swapped
<1>4. ASSUME NEW c \in DOMAIN stack PROVE Border(stack[c].start)'
  <2> DEFINE b == stack[c].start
  <2>1. b = Start \/ (b \in Nat /\ End <= b)
    <3>1. CASE c = 1
      BY <1>1, <3>1
    <3>2. CASE c # 1
      <4>1. 1 \in DOMAIN stack /\ 1 < c
        BY <1>1, <3>2
      <4>2. stack[c] \in Frames
        BY <1>1, ElementOfSeq
      <4>3. QED
        BY <1>1, <4>1, <4>2 DEF Tiled, Frames
    <3>3. QED
      BY <3>1, <3>2
  <2>2. Border(b) /\ b \in Nat
    BY <1>1, <2>1
  <2> HIDE DEF b
  <2>3. ASSUME NEW z \in 0 .. b - 1, z \in 0 .. Length - 1
        PROVE  \E v \in 0 .. b - 1 : v \in 0 .. Length - 1 /\ a'[z] = a[v]
    <3>1. CASE z = x
      <4>1. y \in 0 .. b - 1 /\ y \in 0 .. Length - 1
        BY <1>0, <2>1, <3>1
      <4>2. QED
        BY <1>3, <3>1, <4>1
    <3>2. CASE z = y
      <4>1. x \in 0 .. b - 1 /\ x \in 0 .. Length - 1
        BY <1>0, <2>1, <3>2
      <4>2. QED
        BY <1>3, <3>2, <4>1
    <3>3. CASE z # x /\ z # y
      BY <1>1, <1>3, <2>3, <3>3
    <3>4. QED
      BY <3>1, <3>2, <3>3
  <2>4. ASSUME NEW z \in b .. Length - 1
        PROVE  \E v \in b .. Length - 1 : a'[z] = a[v]
    <3>1. CASE z = x
      <4>1. y \in b .. Length - 1
        BY <1>0, <2>1, <2>4, <3>1
      <4>2. QED
        BY <1>3, <3>1, <4>1
    <3>2. CASE z = y
      <4>1. x \in b .. Length - 1
        BY <1>0, <2>1, <2>4, <3>2
      <4>2. QED
        BY <1>3, <3>2, <4>1
    <3>3. CASE z # x /\ z # y
      <4>1. z \in Slots
        BY <1>1, <2>2
      <4>2. QED
        BY <1>3, <3>3, <4>1
    <3>4. QED
      BY <3>1, <3>2, <3>3
  <2>5. ASSUME NEW z \in 0 .. b - 1, NEW w \in b .. Length - 1
        PROVE  ~Before(a'[w], a'[z])
    <3>1. z \in 0 .. Length - 1
      BY <1>1, <2>2
    <3>2. PICK v \in 0 .. b - 1 : a'[z] = a[v]
      BY <2>3, <3>1
    <3>3. PICK u \in b .. Length - 1 : a'[w] = a[u]
      BY <2>4
    <3>4. QED
      BY <2>2, <3>2, <3>3 DEF Border
  <2>6. QED
    BY <1>2, <2>5 DEF Border, Before, Less, b
<1>5. InOrder(0, Start)'
  <2>1. \A z \in 0 .. Start - 2 : a'[z] = a[z] /\ a'[z + 1] = a[z + 1]
    <3>1. \A z \in 0 .. Start - 2 : /\ z \in Slots /\ z # x /\ z # y
                                    /\ z + 1 \in Slots /\ z + 1 # x /\ z + 1 # y
      BY SMTT(30), <1>1
    <3>2. QED
      BY <1>3, <3>1
  <2>2. QED
    BY <1>1, <1>2, <2>1 DEF InOrder, Before, Less
<1>6. Tiled'
  BY <1>1, <1>2 DEF Tiled
<1>7. QED
  BY <1>1, <1>2, <1>4, <1>5, <1>6 DEF InParts

\* Where the scans meet is a border, and a call for either side of it.
LEMMA QuickSplits ==
  ASSUME Inv, InParts, Meet, i >= j
  PROVE  InParts'
<1>1. /\ pc = "meet" /\ Quicksorting /\ Partitioning /\ stack # <<>> /\ UNCHANGED <<input, temp>>
      /\ a' = a /\ stack' = <<Sort(Start, j + 1), Sort(j + 1, End)>> \o Tail(stack)
      /\ i \in Start .. End - 1 /\ j \in Start .. End - 1
      /\ ~Before(temp[1], a[j]) /\ Passed(i, j + 1)
  BY DEF Meet, Inv, Meeting, Partitioning, InSort, Quicksorting, Loops
<1>2. /\ Length \in Nat /\ Slots = 0 .. Length - 1 /\ a \in [Slots -> Slots]
      /\ stack \in Seq(Frames) /\ Len(stack) \in Nat \ {0} /\ DOMAIN stack = 1 .. Len(stack)
      /\ Start \in Nat /\ End \in Nat /\ Start <= End /\ End <= Length
      /\ Start = stack[1].start /\ End = stack[1].end
      /\ Tiled /\ InOrder(0, Start) /\ Border(Start)
      /\ \A c \in DOMAIN stack : Border(stack[c].start)
      /\ End = IF Len(stack) = 1 THEN Length ELSE stack[2].start
  BY <1>1, QuickStack
<1>0. /\ Length \in Nat /\ Start \in Nat /\ End \in Nat /\ Start <= End /\ End <= Length
      /\ i \in Start .. End - 1 /\ j \in Start .. End - 1 /\ i >= j
      /\ Len(stack) \in Nat \ {0} /\ DOMAIN stack = 1 .. Len(stack)
  BY <1>1, <1>2
<1>3. Sort(Start, j + 1) \in Frames /\ Sort(j + 1, End) \in Frames
  <2>1. j + 1 \in Nat /\ Start <= j + 1 /\ j + 1 <= End /\ j + 1 <= Length
    BY <1>0
  <2>2. QED
    BY <1>0, <2>1, RangeFrames
<1>4. /\ Len(stack') = Len(stack) + 1 /\ DOMAIN stack' = 1 .. Len(stack) + 1
      /\ stack'[1] = Sort(Start, j + 1) /\ stack'[2] = Sort(j + 1, End)
      /\ \A c \in 3 .. Len(stack) + 1 : stack'[c] = stack[c - 1]
      /\ stack' # <<>> /\ Head(stack') = stack'[1]
  <2> DEFINE calls == <<Sort(Start, j + 1), Sort(j + 1, End)>>
  <2>1. calls \in Seq(Frames) /\ Len(calls) = 2
        /\ calls[1] = Sort(Start, j + 1) /\ calls[2] = Sort(j + 1, End)
    BY <1>3
  <2> HIDE DEF calls
  <2>2. stack' = calls \o Tail(stack)
    BY <1>1 DEF calls
  <2>3. /\ stack' \in Seq(Frames) /\ Len(stack') = 2 + Len(stack) - 1
        /\ DOMAIN stack' = 1 .. 2 + Len(stack) - 1
        /\ \A c \in 1 .. 2 : stack'[c] = calls[c]
        /\ \A c \in 2 + 1 .. 2 + Len(stack) - 1 : stack'[c] = stack[c + 1 - 2]
    BY SMTT(30), <1>1, <1>2, <2>1, <2>2, CallsShift
  <2>4. 2 + Len(stack) - 1 = Len(stack) + 1
    BY <1>2
  <2>5. \A c \in 3 .. Len(stack) + 1 : c \in 2 + 1 .. 2 + Len(stack) - 1 /\ c + 1 - 2 = c - 1
    BY <1>2
  <2>6. stack' # <<>> /\ Head(stack') = stack'[1]
    BY <1>2, <2>3, EmptySeq
  <2>7. QED
    BY <2>1, <2>3, <2>4, <2>5, <2>6
<1>5. rank' = rank /\ Length' = Length /\ a' = a /\ Start' = Start
  BY <1>1, <1>4, SameInput DEF Start, Sort
<1>6. /\ stack'[1].start = Start /\ stack'[1].end = j + 1
      /\ stack'[2].start = j + 1 /\ stack'[2].end = End
      /\ stack'[1].do = "sort" /\ stack'[2].do = "sort"
  BY <1>4 DEF Sort
<1>7. Border(j + 1)
  <2>1. /\ temp[1] \in Slots /\ \A x \in Slots : rank[x] \in Int
        /\ \A x \in Slots : x \in Nat /\ a[x] \in Slots
    BY SMTT(30), <1>1, <1>2, BeforeOrders DEF Inv, Values, Partitioning
  <2>2. ASSUME NEW x \in 0 .. (j + 1) - 1, NEW y \in j + 1 .. Length - 1
        PROVE  ~Before(a[y], a[x])
    <3>1. CASE x < Start
      <4>1. x \in 0 .. Start - 1 /\ y \in Start .. Length - 1
        BY <1>0, <3>1
      <4>2. QED
        BY <1>2, <4>1 DEF Border
    <3>2. CASE y >= End
      <4>1. x \in 0 .. End - 1 /\ y \in End .. Length - 1 /\ End # Length
        BY <1>0, <3>2
      <4>2. Len(stack) # 1 /\ End = stack[2].start
        BY <1>2, <4>1
      <4>3. 2 \in DOMAIN stack
        BY <1>0, <4>2
      <4>4. QED
        BY <1>2, <4>1, <4>2, <4>3 DEF Border
    <3>3. CASE ~(x < Start) /\ ~(y >= End)
      <4>1. x \in Start .. i - 1 \/ x = j
        BY <1>0, <3>3
      <4>2. ~Before(temp[1], a[x])
        BY <1>1, <4>1 DEF Passed
      <4>3. y \in j + 1 .. End - 1
        BY <1>0, <3>3
      <4>4. ~Before(a[y], temp[1])
        BY <1>1, <4>3 DEF Passed
      <4>5. a[x] \in Slots /\ a[y] \in Slots
        <5>1. x \in 0 .. Length - 1 /\ y \in 0 .. Length - 1
          BY <1>0
        <5>2. QED
          BY <1>2, <2>1, <5>1
      <4>6. QED
        BY <2>1, <4>2, <4>4, <4>5 DEF Before, Less
    <3>4. QED
      BY <3>1, <3>2, <3>3
  <2>3. QED
    BY <2>2 DEF Border
<1>8. \A c \in DOMAIN stack' : c = 1 \/ c = 2 \/ (c \in 3 .. Len(stack) + 1 /\ c - 1 \in DOMAIN stack)
  BY <1>2, <1>4
<1>9. Tiled'
  <2>1. ASSUME NEW c \in 1 .. Len(stack') - 1 PROVE stack'[c].end = stack'[c + 1].start
    <3>1. CASE c = 1
      BY <1>6, <3>1
    <3>2. CASE c = 2
      <4>1. Len(stack) # 1 /\ 3 \in 3 .. Len(stack) + 1 /\ 3 - 1 = 2 /\ 2 + 1 = 3
        <5>1. 2 \in 1 .. Len(stack)
          BY <1>0, <1>4, <3>2
        <5>2. QED
          BY <1>0, <5>1
      <4>2. QED
        BY <1>2, <1>4, <1>6, <3>2, <4>1
    <3>3. CASE c # 1 /\ c # 2
      <4>1. /\ c \in 3 .. Len(stack) + 1 /\ c + 1 \in 3 .. Len(stack) + 1
            /\ c - 1 \in 1 .. Len(stack) - 1 /\ (c + 1) - 1 = (c - 1) + 1
        BY <1>2, <1>4, <3>3
      <4>2. QED
        BY <1>2, <1>4, <4>1 DEF Tiled
    <3>4. QED
      BY <3>1, <3>2, <3>3
  <2>2. stack'[Len(stack')].end = Length'
    <3>1. CASE Len(stack) = 1
      BY <1>2, <1>4, <1>5, <1>6, <3>1
    <3>2. CASE Len(stack) # 1
      <4>1. Len(stack) + 1 \in 3 .. Len(stack) + 1 /\ (Len(stack) + 1) - 1 = Len(stack)
        BY <1>2, <3>2
      <4>2. QED
        BY <1>1, <1>2, <1>4, <1>5, <4>1 DEF Tiled
    <3>3. QED
      BY <3>1, <3>2
  <2>3. ASSUME NEW b \in DOMAIN stack', NEW c \in DOMAIN stack', b < c
        PROVE  stack'[b].end <= stack'[c].start
    <3>1. CASE c = 2
      <4>1. b = 1
        BY <1>0, <1>4, <2>3, <3>1
      <4>2. QED
        BY <1>0, <1>6, <3>1, <4>1
    <3>2. CASE c # 2
      <4>1. c \in 3 .. Len(stack) + 1 /\ c - 1 \in DOMAIN stack /\ 1 < c - 1 /\ 1 \in DOMAIN stack
        BY <1>0, <1>4, <2>3, <3>2
      <4>2. CASE b \in {1, 2}
        <5>1. stack[c - 1] \in Frames
          BY <1>2, <4>1, ElementOfSeq
        <5>2. End <= stack[c - 1].start /\ stack[c - 1].start \in Nat
          BY <1>2, <4>1, <5>1 DEF Tiled, Frames
        <5>3. stack'[c] = stack[c - 1] /\ stack'[b].end <= End /\ stack'[b].end \in Nat
          BY <1>0, <1>4, <1>6, <4>1, <4>2
        <5>4. QED
          BY <1>0, <5>2, <5>3
      <4>3. CASE b \notin {1, 2}
        <5>1. b \in 3 .. Len(stack) + 1 /\ b - 1 \in DOMAIN stack /\ b - 1 < c - 1
          BY <1>2, <1>4, <2>3, <4>3
        <5>2. QED
          BY <1>2, <1>4, <4>1, <5>1 DEF Tiled
      <4>4. QED
        BY <4>2, <4>3
    <3>3. QED
      BY <3>1, <3>2
  <2>4. \A c \in DOMAIN stack' : stack'[c].do = "sort"
    BY <1>2, <1>4, <1>6, <1>8 DEF Tiled
  <2>5. QED
    BY <2>1, <2>2, <2>3, <2>4 DEF Tiled
<1>10. ASSUME NEW c \in DOMAIN stack' PROVE Border(stack[c].start)'
  <2>1. Border(stack'[c].start)
    BY <1>2, <1>4, <1>6, <1>7, <1>8
  <2>2. QED
    BY <1>5, <2>1 DEF Border, Before, Less
<1>11. InOrder(0, Start)'
  BY <1>2, <1>5 DEF InOrder, Before, Less
<1>12. QED
  BY <1>4, <1>9, <1>10, <1>11 DEF InParts

-----------------------------------------------------------------------------
(* mergesort                                                               *)

\* What is known while mergesort is at work
Mergesorting == prog = "mergesort" /\ pc \in Loops \cup {"call"}

\* The running call, the others, and where the middle of a range is
LEMMA MergeStack ==
  ASSUME Inv, InHalves, Mergesorting
  PROVE  /\ stack \in Seq(Frames) /\ Length \in Nat /\ Slots = 0 .. Length - 1 /\ a \in [Slots -> Slots]
         /\ Halved /\ HalvesWait
         /\ \A c \in DOMAIN stack :
              /\ stack[c].start \in Nat /\ stack[c].end \in Nat /\ Half(stack[c]) \in Nat
              /\ stack[c].start <= Half(stack[c]) /\ Half(stack[c]) <= stack[c].end
              /\ stack[c].end <= Length /\ stack[c].do \in {"sort", "merge"}
              /\ stack[c].do = "merge" => stack[c].start < Half(stack[c]) /\ Half(stack[c]) < stack[c].end
         /\ stack # <<>> =>
              /\ Start \in Nat /\ End \in Nat /\ Start <= End /\ End <= Length /\ Middle \in Start .. End
              /\ Len(stack) \in Nat \ {0} /\ DOMAIN stack = 1 .. Len(stack)
              /\ Head(stack) = stack[1]
              /\ Start = stack[1].start /\ End = stack[1].end /\ Middle = Half(stack[1])
<1>1. /\ stack \in Seq(Frames) /\ Length \in Nat /\ Slots = 0 .. Length - 1 /\ a \in [Slots -> Slots]
      /\ Halved /\ HalvesWait
  BY DEF Inv, Input, Values, Stacked, InHalves, Mergesorting
<1>2. ASSUME NEW c \in DOMAIN stack
      PROVE  /\ stack[c].start \in Nat /\ stack[c].end \in Nat /\ Half(stack[c]) \in Nat
             /\ stack[c].start <= Half(stack[c]) /\ Half(stack[c]) <= stack[c].end
             /\ stack[c].end <= Length /\ stack[c].do \in {"sort", "merge"}
             /\ stack[c].do = "merge" => stack[c].start < Half(stack[c]) /\ Half(stack[c]) < stack[c].end
  <2>1. stack[c] \in Frames
    BY <1>1, LenProperties, ElementOfSeq
  <2>2. PICK s \in Nat, e \in Nat : s = stack[c].start /\ e = stack[c].end /\ s <= e /\ e <= Length
    BY <2>1 DEF Frames
  <2>3. stack[c].do = "merge" => e - s >= 2
    BY <1>1, <2>2 DEF Halved
  <2>4. Half(stack[c]) = (s + e) \div 2
    BY <2>2 DEF Half
  <2>5. /\ (s + e) \div 2 \in Nat /\ s <= (s + e) \div 2 /\ (s + e) \div 2 <= e
        /\ e - s >= 2 => s < (s + e) \div 2 /\ (s + e) \div 2 < e
    BY <2>2
  <2>6. stack[c].do \in {"sort", "merge"}
    BY <2>1 DEF Frames
  <2>7. QED
    BY <2>2, <2>3, <2>4, <2>5, <2>6
<1>3. ASSUME stack # <<>>
      PROVE  /\ Start \in Nat /\ End \in Nat /\ Start <= End /\ End <= Length /\ Middle \in Start .. End
             /\ Len(stack) \in Nat \ {0} /\ DOMAIN stack = 1 .. Len(stack)
             /\ Head(stack) = stack[1]
             /\ Start = stack[1].start /\ End = stack[1].end /\ Middle = Half(stack[1])
  <2>1. Start \in Nat /\ End \in Nat /\ Start <= End /\ End <= Length /\ Middle \in Start .. End
    BY <1>3, RunningRange DEF Mergesorting
  <2>2. Len(stack) \in Nat \ {0} /\ DOMAIN stack = 1 .. Len(stack) /\ Head(stack) = stack[1]
    BY <1>1, <1>3, TailShifts
  <2>3. Start = stack[1].start /\ End = stack[1].end /\ Middle = Half(stack[1])
    BY <2>2 DEF Start, End, Middle, Half
  <2>4. QED
    BY <2>1, <2>2, <2>3
<1>4. QED
  BY <1>1, <1>2, <1>3

\* Elements that are not moved stay in order, or as they came.
LEMMA RunStays ==
  ASSUME UNCHANGED input, NEW s, NEW e, \A x \in s .. e - 1 : a'[x] = a[x], Run(s, e)
  PROVE  Run(s, e)'
<1>1. rank' = rank /\ prog' = prog
  BY SameInput
<1>2. QED
  BY <1>1 DEF Run, Sorted, Precedes, Before, Less

\* What no step has moved is still untouched.
LEMMA UntouchedStays ==
  ASSUME UNCHANGED input, NEW s, \A x \in s .. Length - 1 : a'[x] = a[x], Untouched(s)
  PROVE  Untouched(s)'
<1>1. Length' = Length
  BY SameInput
<1>2. QED
  BY <1>1 DEF Untouched

\* While the running call moves elements of its own range only, the halves
\* left of it that wait are safe.
LEMMA WaitingStays ==
  ASSUME Inv, InHalves, Mergesorting, stack # <<>>, UNCHANGED <<input, stack>>,
         \A x \in 0 .. Start - 1 : a'[x] = a[x]
  PROVE  Halved' /\ HalvesWait'
<1>1. /\ Halved /\ HalvesWait /\ Start \in Nat /\ DOMAIN stack = 1 .. Len(stack)
      /\ \A c \in DOMAIN stack : stack[c].start \in Nat /\ Half(stack[c]) \in Nat
  BY MergeStack
<1>2. Start' = Start /\ End' = End /\ stack' = stack /\ Length' = Length
  BY SameInput DEF Start, End
<1>3. Halved'
  BY <1>1, <1>2 DEF Halved, Followed, Nested, Half
<1>4. ASSUME NEW c \in 2 .. Len(stack'), stack'[c].do = "merge", Half(stack'[c]) <= Start'
      PROVE  Run(stack[c].start, Half(stack[c]))'
  <2>1. c \in DOMAIN stack
    BY <1>1, <1>2
  <2>2. PICK s \in Nat, m \in Nat : s = stack[c].start /\ m = Half(stack[c]) /\ m <= Start
    BY <1>1, <1>2, <1>4, <2>1
  <2>3. Run(s, m)
    BY <1>1, <1>2, <1>4, <2>2 DEF HalvesWait
  <2>4. \A x \in s .. m - 1 : a'[x] = a[x]
    BY <1>1, <2>2
  <2>5. Run(s, m)'
    BY <2>3, <2>4, RunStays
  <2>6. s = (stack[c].start)' /\ m = Half(stack[c])'
    BY <1>2, <2>2 DEF Half
  <2>7. QED
    BY <2>5, <2>6
<1>5. HalvesWait'
  BY <1>4 DEF HalvesWait
<1>6. QED
  BY <1>3, <1>5

\* A call returns when the elements of its range stand there in order, as the
\* first half of a merge that waits, or as the second half of one that is next.
LEMMA MergeReturns ==
  ASSUME Inv, InHalves, Mergesorting, stack # <<>>, Run(Start, End), Untouched(End),
         UNCHANGED <<input, a>>, stack' = Tail(stack), pc' = "call"
  PROVE  InHalves'
<1>1. /\ stack \in Seq(Frames) /\ Halved /\ HalvesWait
      /\ Len(stack) \in Nat \ {0} /\ DOMAIN stack = 1 .. Len(stack)
      /\ Start = stack[1].start /\ End = stack[1].end
      /\ \A c \in DOMAIN stack :
           /\ stack[c].start \in Nat /\ stack[c].end \in Nat /\ Half(stack[c]) \in Nat
           /\ stack[c].start <= Half(stack[c]) /\ Half(stack[c]) <= stack[c].end
           /\ stack[c].do \in {"sort", "merge"}
           /\ stack[c].do = "merge" => stack[c].start < Half(stack[c]) /\ Half(stack[c]) < stack[c].end
  BY MergeStack
<1>0. /\ Len(stack) \in Nat \ {0} /\ Start \in Nat /\ End \in Nat
      /\ Len(stack) > 1 => 1 \in 1 .. Len(stack) - 1 /\ Len(stack) # 1
      /\ Len(stack) = 1 \/ Len(stack) > 1
  <2>1. PICK n \in Nat \ {0} : n = Len(stack)
    BY <1>1
  <2>2. (n > 1 => 1 \in 1 .. n - 1 /\ n # 1) /\ (n = 1 \/ n > 1)
    OBVIOUS
  <2>3. QED
    BY <1>1, <2>1, <2>2
<1>2. /\ Len(stack') = Len(stack) - 1 /\ DOMAIN stack' = 1 .. Len(stack) - 1
      /\ \A c \in 1 .. Len(stack) - 1 : stack'[c] = stack[c + 1]
      /\ stack' = <<>> <=> Len(stack) = 1
      /\ stack' # <<>> => Head(stack') = stack'[1]
  BY <1>1, TailShifts
<1>3. rank' = rank /\ Length' = Length /\ a' = a /\ prog' = prog
  BY SameInput
<1>4. \A c \in 1 .. Len(stack) - 1 : c \in DOMAIN stack /\ c + 1 \in DOMAIN stack
  BY <1>0, <1>1
<1>5. \A c \in 1 .. Len(stack) - 1 : Followed(stack, c)
  BY <1>1 DEF Halved
<1>6. \A b, c \in DOMAIN stack : b < c /\ stack[c].do = "merge" => Nested(stack, b, c)
  BY <1>1 DEF Halved
<1>7. Len(stack) > 1 =>
        /\ Start < End /\ 1 \in 1 .. Len(stack) - 1 /\ 2 \in DOMAIN stack
        /\ stack' # <<>> /\ stack'[1] = stack[2] /\ Start' = stack[2].start /\ End' = stack[2].end
        /\ Middle' = Half(stack[2]) /\ Head(stack').do = stack[2].do
  <2> SUFFICES ASSUME Len(stack) > 1
               PROVE  /\ Start < End /\ 1 \in 1 .. Len(stack) - 1 /\ 2 \in DOMAIN stack
                      /\ stack' # <<>> /\ stack'[1] = stack[2]
                      /\ Start' = stack[2].start /\ End' = stack[2].end
                      /\ Middle' = Half(stack[2]) /\ Head(stack').do = stack[2].do
    OBVIOUS
  <2>1. Start < End
    BY <1>1 DEF Halved
  <2>2. 1 \in 1 .. Len(stack) - 1 /\ 1 + 1 = 2 /\ Len(stack) # 1
    BY <1>0
  <2>3. 2 \in DOMAIN stack /\ stack' # <<>> /\ stack'[1] = stack[2] /\ Head(stack') = stack[2]
    BY <1>2, <1>4, <2>2
  <2>4. QED
    BY <2>1, <2>2, <2>3 DEF Start, End, Middle, Half
<1>8. CASE Len(stack) = 1
  <2>1. stack' = <<>> /\ Len(stack') = 0 /\ DOMAIN stack' = {}
    BY <1>2, <1>8
  <2>2. Start = 0 /\ End = Length
    BY <1>1, <1>8 DEF Halved
  <2>3. Run(0, Length)'
    BY <1>3, <2>2 DEF Run, Sorted, Precedes, Before, Less
  <2>4. Halved' /\ HalvesWait'
    BY <2>1 DEF Halved, HalvesWait
  <2>5. QED
    BY <2>1, <2>3, <2>4 DEF InHalves, CallReady
<1>9. CASE Len(stack) > 1
  <2>1. Halved'
    <3>1. ASSUME NEW c \in 1 .. Len(stack') - 1 PROVE Followed(stack', c)
      <4>1. /\ c + 1 \in 1 .. Len(stack) - 1 /\ c \in 1 .. Len(stack) - 1
            /\ (c + 1) + 1 = c + 2 /\ (c + 1) + 2 = c + 3 /\ (c + 2) + 1 = c + 3
        BY <1>0, <1>2
      <4>2. stack'[c] = stack[c + 1] /\ stack'[c + 1] = stack[c + 2]
        BY <1>2, <4>1
      <4>3. c + 3 \in DOMAIN stack => c + 2 \in DOMAIN stack' /\ stack'[c + 2] = stack[c + 3]
        <5>1. c + 3 \in DOMAIN stack => c + 2 \in 1 .. Len(stack) - 1
          BY <1>0, <1>1, <4>1
        <5>2. QED
          BY <1>2, <4>1, <5>1
      <4>4. QED
        BY <1>5, <4>1, <4>2, <4>3 DEF Followed
    <3>2. ASSUME NEW b \in DOMAIN stack', NEW c \in DOMAIN stack', b < c, stack'[c].do = "merge"
          PROVE  Nested(stack', b, c)
      <4>1. b + 1 \in DOMAIN stack /\ c + 1 \in DOMAIN stack /\ b + 1 < c + 1
        BY <1>0, <1>2, <1>4, <3>2
      <4>2. stack'[b] = stack[b + 1] /\ stack'[c] = stack[c + 1]
        BY <1>2
      <4>3. Nested(stack, b + 1, c + 1)
        BY <1>6, <3>2, <4>1, <4>2
      <4>4. QED
        BY <4>2, <4>3 DEF Nested
    <3>3. \A c \in DOMAIN stack' : stack'[c].do = "merge" => stack'[c].end - stack'[c].start >= 2
      BY <1>1, <1>2, <1>4 DEF Halved
    <3>4. stack'[Len(stack')].start = 0 /\ stack'[Len(stack')].end = Length'
      <4>1. Len(stack) - 1 \in 1 .. Len(stack) - 1 /\ (Len(stack) - 1) + 1 = Len(stack)
        BY <1>0, <1>9
      <4>2. QED
        BY <1>1, <1>2, <1>3, <4>1 DEF Halved
    <3>5. Start' < End'
      <4>1. Followed(stack, 1) /\ 1 + 1 = 2 /\ 1 + 2 = 3
        BY <1>5, <1>7, <1>9
      <4>2. CASE stack[2].do = "merge"
        BY <1>1, <1>7, <1>9, <4>2
      <4>3. CASE stack[2].do # "merge"
        <5>1. /\ 3 \in DOMAIN stack /\ stack[3].do = "merge" /\ stack[2].start = stack[1].end
              /\ stack[1].end = Half(stack[3]) /\ stack[2].end = stack[3].end
          BY <4>1, <4>3 DEF Followed
        <5>2. QED
          BY <1>1, <1>7, <1>9, <5>1
      <4>4. QED
        BY <4>2, <4>3
    <3>6. QED
      BY <3>1, <3>2, <3>3, <3>4, <3>5 DEF Halved
  <2>2. ASSUME NEW c \in 2 .. Len(stack'), stack'[c].do = "merge", Half(stack'[c]) <= Start'
        PROVE  Run(stack'[c].start, Half(stack'[c]))
    <3>1. /\ c + 1 \in DOMAIN stack /\ c + 1 \in 2 .. Len(stack) /\ 1 < c + 1 /\ 1 \in DOMAIN stack
          /\ stack'[c] = stack[c + 1]
      <4>1. c \in 1 .. Len(stack) - 1 /\ 1 < c + 1 /\ 1 \in 1 .. Len(stack) /\ c + 1 \in 2 .. Len(stack)
        BY <1>0, <1>2
      <4>2. QED
        BY <1>1, <1>2, <1>4, <4>1
    <3>2. CASE Half(stack[c + 1]) <= Start
      BY <1>1, <2>2, <3>1, <3>2 DEF HalvesWait
    <3>3. CASE ~(Half(stack[c + 1]) <= Start)
      <4> DEFINE m == Half(stack[c + 1])
      <4>0. m \in Nat /\ ~(m <= Start) /\ m <= Start'
        BY <1>1, <2>2, <3>1, <3>3
      <4>1. End <= m
        <5>1. Nested(stack, 1, c + 1)
          BY <1>6, <2>2, <3>1
        <5>2. QED
          BY <1>1, <3>3, <5>1 DEF Nested
      <4>2. Followed(stack, 1) /\ 1 + 1 = 2 /\ 1 + 2 = 3
        BY <1>5, <1>7, <1>9
      <4> HIDE DEF m
      <4>3. ~(stack[2].do = "merge" /\ Start = Half(stack[2]))
        <5>1. Start' = stack[2].start /\ stack[2].start <= Half(stack[2]) /\ stack[2].start \in Nat
          BY <1>1, <1>7, <1>9
        <5>2. QED
          BY <1>0, <4>0, <5>1
      <4>4. /\ 3 \in DOMAIN stack /\ stack[3].do = "merge" /\ stack[2].start = End
            /\ Start = stack[3].start /\ End = Half(stack[3])
        BY <1>1, <4>2, <4>3 DEF Followed
      <4>5. m = End
        BY <1>0, <1>7, <1>9, <4>0, <4>1, <4>4
      <4>6. CASE c = 2
        <5>1. stack'[c] = stack[3]
          BY <3>1, <4>6
        <5>2. QED
          BY <4>4, <5>1
      <4>7. CASE c # 2
        <5>1. 3 < c + 1
          BY <1>0, <1>2, <4>7
        <5>2. Nested(stack, 3, c + 1)
          BY <1>6, <2>2, <3>1, <4>4, <5>1
        <5>3. stack[3].end <= m \/ m <= stack[3].start
          BY <5>2 DEF Nested, m
        <5>4. Half(stack[3]) < stack[3].end /\ Start < End /\ stack[3].end \in Nat
          BY <1>1, <1>7, <1>9, <4>4
        <5>5. QED
          BY <1>0, <4>4, <4>5, <5>3, <5>4
      <4>8. QED
        BY <4>6, <4>7
    <3>4. QED
      BY <3>2, <3>3
  <2>3. HalvesWait'
    <3>1. \A c \in 2 .. Len(stack') :
            stack'[c].do = "merge" /\ Half(stack'[c]) <= Start' => Run(stack'[c].start, Half(stack'[c]))
      BY <2>2
    <3>2. QED
      BY <1>3, <3>1 DEF HalvesWait, Run, Sorted, Precedes, Before, Less, Half
  <2>4. CallReady'
    <3>1. Followed(stack, 1) /\ 1 + 1 = 2 /\ 1 + 2 = 3
      BY <1>5, <1>7, <1>9
    <3>2. CASE stack[2].do = "sort"
      <4>1. Start' = End
        BY <1>1, <1>7, <1>9, <3>1, <3>2 DEF Followed
      <4>2. Untouched(Start)'
        BY <1>3, <4>1 DEF Untouched
      <4>3. QED
        BY <1>7, <1>9, <3>2, <4>2 DEF CallReady
    <3>3. CASE stack[2].do = "merge"
      <4>1. Start = Half(stack[2]) /\ End = stack[2].end
        BY <1>1, <3>1, <3>3 DEF Followed
      <4>2. Start' = stack[2].start /\ Middle' = Start /\ End' = End
        BY <1>7, <1>9, <4>1
      <4>3. Run(stack[2].start, Start)
        <5>1. 2 \in 2 .. Len(stack) /\ Half(stack[2]) <= Start
          BY <1>0, <1>9, <4>1
        <5>2. QED
          BY <1>1, <3>3, <4>1, <5>1 DEF HalvesWait
      <4>4. Untouched(End)' /\ Run(Start, Middle)' /\ Run(Middle, End)'
        BY <1>3, <4>2, <4>3 DEF Untouched, Run, Sorted, Precedes, Before, Less
      <4>5. QED
        BY <1>7, <1>9, <3>3, <4>4 DEF CallReady
    <3>4. QED
      BY <1>1, <1>7, <1>9, <3>2, <3>3
  <2>5. QED
    BY <2>1, <2>3, <2>4 DEF InHalves
<1>10. QED
  BY <1>0, <1>8, <1>9

\* A call for a range of two elements or more makes one for either half.
LEMMA MergeSplits ==
  ASSUME Inv, InHalves, SplitInHalves
  PROVE  InHalves'
<1>1. /\ pc = "call" /\ pc' = "call" /\ Mergesorting /\ stack # <<>> /\ UNCHANGED <<input, a>>
      /\ End - Start > 1 /\ Head(stack).do = "sort"
      /\ stack' = <<Sort(Start, Middle), Sort(Middle, End), Merge(Start, End)>> \o Tail(stack)
  BY DEF SplitInHalves, Calls, Mergesorting
<1>2. /\ stack \in Seq(Frames) /\ Halved /\ HalvesWait
      /\ Len(stack) \in Nat \ {0} /\ DOMAIN stack = 1 .. Len(stack)
      /\ Start = stack[1].start /\ End = stack[1].end /\ Middle = Half(stack[1])
      /\ \A c \in DOMAIN stack :
           /\ stack[c].start \in Nat /\ stack[c].end \in Nat /\ Half(stack[c]) \in Nat
  BY <1>1, MergeStack
<1>3. /\ Start \in Nat /\ End \in Nat /\ End <= Length /\ Length \in Nat
      /\ Middle \in Nat /\ Start < Middle /\ Middle < End /\ Start <= Middle /\ Middle <= End
      /\ Middle <= Length /\ Start <= End
      /\ Len(stack) \in Nat \ {0} /\ 1 \in DOMAIN stack
  <2>1. /\ Start \in Nat /\ End \in Nat /\ End <= Length /\ Length \in Nat /\ 1 \in DOMAIN stack
    BY <1>1, <1>2, MergeStack
  <2>2. Middle \in Nat /\ Start < Middle /\ Middle < End
    BY <1>1, <2>1 DEF Middle
  <2>3. QED
    BY <1>2, <2>1, <2>2
<1>4. /\ Len(stack') = Len(stack) + 2 /\ DOMAIN stack' = 1 .. Len(stack) + 2
      /\ stack'[1] = Sort(Start, Middle) /\ stack'[2] = Sort(Middle, End) /\ stack'[3] = Merge(Start, End)
      /\ \A c \in 4 .. Len(stack) + 2 : stack'[c] = stack[c - 2]
      /\ stack' # <<>> /\ Head(stack') = stack'[1]
  <2> DEFINE calls == <<Sort(Start, Middle), Sort(Middle, End), Merge(Start, End)>>
  <2>1. calls \in Seq(Frames)
    <3>1. Sort(Start, Middle) \in Frames /\ Sort(Middle, End) \in Frames /\ Merge(Start, End) \in Frames
      BY <1>3, RangeFrames
    <3>2. QED
      BY <3>1
  <2>2. /\ Len(calls) = 3 /\ calls[1] = Sort(Start, Middle) /\ calls[2] = Sort(Middle, End)
        /\ calls[3] = Merge(Start, End)
    OBVIOUS
  <2> HIDE DEF calls
  <2>3. stack' = calls \o Tail(stack)
    BY <1>1 DEF calls
  <2>4. /\ stack' \in Seq(Frames) /\ Len(stack') = 3 + Len(stack) - 1
        /\ DOMAIN stack' = 1 .. 3 + Len(stack) - 1
        /\ \A c \in 1 .. 3 : stack'[c] = calls[c]
        /\ \A c \in 3 + 1 .. 3 + Len(stack) - 1 : stack'[c] = stack[c + 1 - 3]
    BY <1>1, <1>2, <2>1, <2>2, <2>3, CallsShift
  <2>5. 3 + Len(stack) - 1 = Len(stack) + 2
    BY <1>3
  <2>6. \A c \in 4 .. Len(stack) + 2 : c \in 3 + 1 .. 3 + Len(stack) - 1 /\ c + 1 - 3 = c - 2
    BY <1>3
  <2>7. stack' # <<>> /\ Head(stack') = stack'[1]
    BY <1>3, <2>4, EmptySeq
  <2>8. QED
    BY <2>2, <2>4, <2>5, <2>6, <2>7
<1>5. rank' = rank /\ Length' = Length /\ a' = a /\ prog' = prog /\ Start' = Start /\ End' = Middle
  BY <1>1, <1>4, SameInput DEF Start, End, Sort
<1>6. /\ stack'[1].do = "sort" /\ stack'[1].start = Start /\ stack'[1].end = Middle
      /\ stack'[2].do = "sort" /\ stack'[2].start = Middle /\ stack'[2].end = End
      /\ stack'[3].do = "merge" /\ stack'[3].start = Start /\ stack'[3].end = End
      /\ Half(stack'[3]) = Middle
  BY <1>4 DEF Sort, Merge, Half, Middle
<1>7. \A c \in DOMAIN stack' :
        c \in {1, 2, 3} \/ (/\ c \in 4 .. Len(stack) + 2 /\ c - 2 \in DOMAIN stack
                            /\ c - 2 \in 2 .. Len(stack) /\ stack'[c] = stack[c - 2])
  BY SMTT(30), <1>2, <1>3, <1>4
<1>8. ASSUME NEW c \in 1 .. Len(stack') - 1 PROVE Followed(stack', c)
  <2>1. CASE c = 1
    <3>1. 1 + 1 = 2 /\ 1 + 2 = 3 /\ 3 \in DOMAIN stack'
      BY <1>3, <1>4
    <3>2. QED
      BY <1>6, <2>1, <3>1 DEF Followed
  <2>2. CASE c = 2
    <3>1. 2 + 1 = 3
      OBVIOUS
    <3>2. QED
      BY <1>6, <2>2, <3>1 DEF Followed
  <2>3. CASE c # 1 /\ c # 2
    <3>1. /\ c - 2 \in 1 .. Len(stack) - 1 /\ c + 1 \in 4 .. Len(stack) + 2
          /\ (c + 1) - 2 = (c - 2) + 1 /\ (c + 2) - 2 = (c - 2) + 2
      BY <1>3, <1>4, <2>3
    <3>2. Followed(stack, c - 2)
      BY <1>2, <3>1 DEF Halved
    <3>3. stack'[c].start = stack[c - 2].start /\ stack'[c].end = stack[c - 2].end
      <4>1. CASE c = 3
        BY <1>2, <1>6, <4>1
      <4>2. CASE c # 3
        BY <1>3, <1>4, <2>3, <4>2
      <4>3. QED
        BY <4>1, <4>2
    <3>4. stack'[c + 1] = stack[(c - 2) + 1]
      BY <1>4, <3>1
    <3>5. (c - 2) + 2 \in DOMAIN stack => c + 2 \in DOMAIN stack' /\ stack'[c + 2] = stack[(c - 2) + 2]
      <4>1. (c - 2) + 2 \in DOMAIN stack => c + 2 \in 4 .. Len(stack) + 2 /\ c + 2 \in 1 .. Len(stack) + 2
        BY <1>2, <1>3, <1>4, <2>3
      <4>2. QED
        BY <1>4, <3>1, <4>1
    <3>6. QED
      BY <3>2, <3>3, <3>4, <3>5 DEF Followed
  <2>4. QED
    BY <2>1, <2>2, <2>3
<1>9. ASSUME NEW b \in DOMAIN stack', NEW c \in DOMAIN stack', b < c, stack'[c].do = "merge"
      PROVE  Nested(stack', b, c)
  <2>1. CASE c \in {1, 2, 3}
    <3>1. c = 3 /\ b \in {1, 2}
      BY <1>4, <1>6, <1>9, <2>1
    <3>2. QED
      BY <1>3, <1>6, <3>1 DEF Nested
  <2>2. CASE c \notin {1, 2, 3}
    <3>1. c - 2 \in DOMAIN stack /\ stack'[c] = stack[c - 2] /\ 1 < c - 2 /\ stack[c - 2].do = "merge"
      BY <1>3, <1>7, <1>9, <2>2
    <3>2. CASE b \in {1, 2, 3}
      <4>1. Nested(stack, 1, c - 2)
        BY <1>2, <1>3, <3>1 DEF Halved
      <4>2. \/ End <= Half(stack[c - 2])
            \/ Half(stack[c - 2]) <= Start /\ End <= stack[c - 2].end
        BY <1>2, <4>1 DEF Nested
      <4>3. Half(stack[c - 2]) \in Nat /\ stack[c - 2].end \in Nat
        BY <1>2, <3>1
      <4>4. /\ stack'[b].start \in Nat /\ stack'[b].end \in Nat
            /\ Start <= stack'[b].start /\ stack'[b].end <= End
        BY <1>3, <1>6, <3>2
      <4>5. QED
        BY <1>3, <3>1, <4>2, <4>3, <4>4 DEF Nested
    <3>3. CASE b \notin {1, 2, 3}
      <4>1. b - 2 \in DOMAIN stack /\ stack'[b] = stack[b - 2] /\ b - 2 < c - 2
        BY <1>4, <1>7, <1>9, <3>3
      <4>2. Nested(stack, b - 2, c - 2)
        BY <1>2, <3>1, <4>1 DEF Halved
      <4>3. QED
        BY <3>1, <4>1, <4>2 DEF Nested
    <3>4. QED
      BY <3>2, <3>3
  <2>3. QED
    BY <2>1, <2>2
<1>10. ASSUME NEW c \in DOMAIN stack', stack'[c].do = "merge"
       PROVE  stack'[c].end - stack'[c].start >= 2
  <2>1. CASE c \in {1, 2, 3}
    BY <1>1, <1>3, <1>6, <1>10, <2>1
  <2>2. CASE c \notin {1, 2, 3}
    <3>1. c - 2 \in DOMAIN stack /\ stack'[c] = stack[c - 2]
      BY <1>7, <2>2
    <3>2. QED
      BY <1>2, <1>10, <3>1 DEF Halved
  <2>3. QED
    BY <2>1, <2>2
<1>11. stack'[Len(stack')].start = 0 /\ stack'[Len(stack')].end = Length'
  <2>0. PICK n \in Nat \ {0} : n = Len(stack)
    BY <1>3
  <2>1. CASE Len(stack) = 1
    <3>1. Len(stack') = 3 /\ Start = 0 /\ End = Length
      BY <1>1, <1>2, <1>4, <2>1 DEF Halved
    <3>2. QED
      BY <1>5, <1>6, <3>1
  <2>2. CASE Len(stack) # 1
    <3>1. n + 2 \in 4 .. n + 2 /\ (n + 2) - 2 = n
      BY <2>0, <2>2
    <3>2. QED
      BY <1>1, <1>2, <1>4, <1>5, <2>0, <3>1 DEF Halved
  <2>3. QED
    BY <2>1, <2>2
<1>12. Halved'
  BY <1>3, <1>5, <1>8, <1>9, <1>10, <1>11 DEF Halved
<1>13. HalvesWait'
  <2>1. ASSUME NEW c \in 2 .. Len(stack'), stack'[c].do = "merge", Half(stack'[c]) <= Start'
        PROVE  Run(stack'[c].start, Half(stack'[c]))
    <3>1. c \in DOMAIN stack' /\ c # 1 /\ c # 2 /\ c # 3
      BY <1>3, <1>4, <1>5, <1>6, <2>1
    <3>2. c - 2 \in 2 .. Len(stack) /\ stack'[c] = stack[c - 2]
      BY <1>7, <3>1
    <3>3. QED
      BY <1>2, <1>5, <2>1, <3>2 DEF HalvesWait
  <2>2. \A c \in 2 .. Len(stack') :
          stack'[c].do = "merge" /\ Half(stack'[c]) <= Start' => Run(stack'[c].start, Half(stack'[c]))
    BY <2>1
  <2>3. QED
    BY <1>5, <2>2 DEF HalvesWait, Run, Sorted, Precedes, Before, Less, Half
<1>14. CallReady'
  <2>1. Untouched(Start)
    BY <1>1 DEF InHalves, CallReady, Mergesorting
  <2>2. Untouched(Start)'
    BY <1>5, <2>1 DEF Untouched
  <2>3. Head(stack').do = "sort"
    BY <1>4, <1>6
  <2>4. QED
    BY <1>4, <2>2, <2>3 DEF CallReady
<1>15. QED
  BY <1>1, <1>12, <1>13, <1>14 DEF InHalves

\* A call for a short range, which is in order as it is, returns.
LEMMA ShortRangeSorted ==
  ASSUME Inv, ShortRange
  PROVE  /\ Sorted(Start, End)
         /\ InHalves /\ Mergesorting => Run(Start, End) /\ Untouched(End)
<1>1. pc = "call" /\ stack # <<>> /\ Head(stack).do = "sort" /\ End - Start <= 1 /\ prog # "heapsort"
  BY DEF ShortRange, Calls, Inv
<1>2. Start \in Nat /\ End \in Nat /\ Start <= End /\ End <= Length /\ Length \in Nat
  BY <1>1, RunningRange
<1>3. \A x, y \in Start .. End - 1 : ~(x < y)
  BY <1>1, <1>2
<1>4. Sorted(Start, End)
  BY <1>3 DEF Sorted
<1>5. ASSUME InHalves, Mergesorting PROVE Run(Start, End) /\ Untouched(End)
  <2>1. Untouched(Start)
    BY <1>1, <1>5 DEF InHalves, Mergesorting, CallReady
  <2>2. (\A x \in Start .. End - 1 : a[x] = x) /\ (\A x \in End .. Length - 1 : a[x] = x)
    BY <1>2, <2>1 DEF Untouched
  <2>3. QED
    BY <1>4, <2>2 DEF Run, Untouched
<1>6. QED
  BY <1>4, <1>5

\* The elements behind the one that sinks are as they came.
LEMMA MergeEntersInsertion ==
  ASSUME Inv, InHalves, EnterInsertion, prog = "mergesort"
  PROVE  InHalves'
<1>1. /\ UNCHANGED <<input, a, temp, stack, k>> /\ pc = "call" /\ Mergesorting /\ stack # <<>>
      /\ Head(stack).do = "sort" /\ pc' = "insertion" /\ i' = Start + 1 /\ End - Start >= 2
  BY DEF EnterInsertion, Calls, Mergesorting
<1>2. Start \in Nat /\ End \in Nat /\ End <= Length /\ Length \in Nat
  BY <1>1, MergeStack
<1>3. Halved' /\ HalvesWait'
  BY <1>1, WaitingStays
<1>4. Length' = Length /\ a' = a /\ Start' = Start /\ End' = End
  BY <1>1, SameInput DEF Start, End
<1>5. Untouched(Start)
  BY <1>1 DEF InHalves, CallReady, Mergesorting
<1>6. i' < End' /\ \A x \in i' + 1 .. Length - 1 : a[x] = x
  BY <1>1, <1>2, <1>4, <1>5 DEF Untouched
<1>7. Untouched(IF i < End THEN i + 1 ELSE End)'
  BY <1>4, <1>6 DEF Untouched
<1>8. QED
  BY <1>1, <1>3, <1>7 DEF InHalves

\* The insertion sort moves elements within the range of the running call only.
LEMMA MergeInsertion ==
  ASSUME Inv, InHalves, Insertion, prog = "mergesort", i < End
  PROVE  InHalves'
<1>1. /\ UNCHANGED <<input, temp, k, pc, stack>> /\ pc = "insertion" /\ Mergesorting
      /\ \/ Sinks /\ a' = Swapped(a, j, j - 1) /\ i' = i
         \/ a' = a /\ i' = i + 1
  <2>1. pc = "insertion"
    BY DEF Insertion
  <2>2. ~(i >= End)
    BY <2>1, InsertionRange
  <2>3. QED
    BY <2>1, <2>2 DEF Insertion, Mergesorting, Loops
<1>2. /\ Length \in Nat /\ Slots = 0 .. Length - 1 /\ a \in [Slots -> Slots] /\ stack # <<>>
      /\ Start \in Nat /\ End \in Nat /\ End <= Length /\ i \in Start + 1 .. End /\ j \in Start .. i
  BY <1>1, InsertionRange
<1>3. Length' = Length /\ Start' = Start /\ End' = End
  BY <1>1, SameInput DEF Start, End
<1>4. \A x \in Slots : ~(Start <= x /\ x <= i) => a'[x] = a[x]
  <2>1. CASE a' = a
    BY <2>1
  <2>2. CASE Sinks /\ a' = Swapped(a, j, j - 1)
    <3>1. j \in Slots /\ j - 1 \in Slots /\ j - 1 >= Start
      BY <1>2, <2>2 DEF Sinks
    <3>2. \A x \in Slots : x # j /\ x # j - 1 => a'[x] = a[x]
      BY <1>2, <2>2, <3>1 DEF Swapped
    <3>3. \A x \in Slots : ~(Start <= x /\ x <= i) => x # j /\ x # j - 1
      BY <1>2, <3>1
    <3>4. QED
      BY <3>2, <3>3
  <2>3. QED
    BY <1>1, <2>1, <2>2
<1>5. \A x \in 0 .. Start - 1 : a'[x] = a[x]
  <2>1. \A x \in 0 .. Start - 1 : x \in Slots /\ ~(Start <= x /\ x <= i)
    BY <1>2
  <2>2. QED
    BY <1>4, <2>1
<1>6. Halved' /\ HalvesWait'
  BY <1>1, <1>2, <1>5, WaitingStays
<1>7. \A x \in i + 1 .. Length - 1 : a'[x] = x
  <2>1. Untouched(i + 1)
    BY <1>1 DEF InHalves, Mergesorting
  <2>2. \A x \in i + 1 .. Length - 1 : x \in Slots /\ ~(Start <= x /\ x <= i)
    BY <1>2
  <2>3. QED
    BY <1>4, <2>1, <2>2 DEF Untouched
<1>8. \A x \in (IF i' < End THEN i' + 1 ELSE End) .. Length - 1 : x \in i + 1 .. Length - 1
  BY <1>1, <1>2
<1>9. Untouched(IF i < End THEN i + 1 ELSE End)'
  BY <1>3, <1>7, <1>8 DEF Untouched
<1>10. QED
  BY <1>1, <1>6, <1>9 DEF InHalves

\* The first half goes to the workspace.
LEMMA MergeEnters ==
  ASSUME Inv, InHalves, EnterMerge, prog = "mergesort"
  PROVE  InHalves'
<1>1. /\ UNCHANGED <<input, a, stack>> /\ pc = "call" /\ Mergesorting /\ stack # <<>>
      /\ Head(stack).do = "merge" /\ pc' = "merge" /\ i' = Start /\ j' = Middle /\ k' = Start
      /\ \A x \in Start .. Middle - 1 : temp'[x] = a[x]
  BY DEF EnterMerge, Mergesorting
<1>2. /\ Start \in Nat /\ End \in Nat /\ Start <= End /\ End <= Length /\ Length \in Nat
      /\ Middle \in Start .. End
  BY <1>1, MergeStack
<1>3. Halved' /\ HalvesWait'
  BY <1>1, WaitingStays
<1>4. /\ Length' = Length /\ rank' = rank /\ prog' = prog /\ a' = a
      /\ Start' = Start /\ End' = End /\ Middle' = Middle
  BY <1>1, SameInput DEF Start, End, Middle
<1>5. Untouched(End) /\ Run(Start, Middle) /\ Run(Middle, End)
  BY <1>1 DEF InHalves, CallReady, Mergesorting
<1>6. Untouched(End)'
  BY <1>4, <1>5 DEF Untouched
<1>7. Merged'
  <2>1. Start .. Start - 1 = {}
    BY <1>2
  <2>2. (\A x \in Start .. k - 1 : a[x] \in Start .. End - 1)'
    BY <1>1, <1>4, <2>1
  <2>3. (\A x \in i .. Middle - 1 : temp[x] \in Start .. Middle - 1)'
    BY <1>1, <1>4, <1>5 DEF Run
  <2>4. (\A x \in j .. End - 1 : a[x] \in Middle .. End - 1)'
    BY <1>1, <1>4, <1>5 DEF Run
  <2>5. (Sorted(Start, k) /\ Sorted(j, End))'
    BY <1>1, <1>4, <1>5, <2>1 DEF Run, Sorted, Precedes, Before, Less
  <2>6. (\A x, y \in i .. Middle - 1 : x < y => Precedes(temp[x], temp[y]))'
    BY <1>1, <1>4, <1>5 DEF Run, Sorted, Precedes, Before, Less
  <2>7. (\A x \in Start .. k - 1 : /\ \A y \in i .. Middle - 1 : Precedes(a[x], temp[y])
                                   /\ \A y \in j .. End - 1 : Precedes(a[x], a[y]))'
    BY <1>1, <1>4, <2>1
  <2>8. QED
    BY <2>2, <2>3, <2>4, <2>5, <2>6, <2>7 DEF Merged
<1>8. QED
  BY <1>1, <1>3, <1>6, <1>7 DEF InHalves

\* The loop of the merge, and what it reads
LEMMA MergeRange ==
  ASSUME Inv, InHalves, pc = "merge", prog = "mergesort"
  PROVE  /\ Mergesorting /\ stack # <<>> /\ Merged /\ Untouched(End)
         /\ Length \in Nat /\ Slots = 0 .. Length - 1 /\ a \in [Slots -> Slots]
         /\ Start \in Nat /\ End \in Nat /\ End <= Length /\ Middle \in Nat /\ Start <= Middle /\ Middle <= End
         /\ i \in Start .. Middle /\ j \in Middle .. End /\ k = j - (Middle - i)
<1>1. /\ Mergesorting /\ stack # <<>> /\ Merged /\ Untouched(End)
      /\ i \in Start .. Middle /\ j \in Middle .. End /\ k = j - (Middle - i)
  BY DEF InHalves, Mergesorting, Inv, Merging, InSort, Loops
<1>2. /\ Length \in Nat /\ Slots = 0 .. Length - 1 /\ a \in [Slots -> Slots]
      /\ Start \in Nat /\ End \in Nat /\ End <= Length /\ Middle \in Start .. End
  BY <1>1, MergeStack
<1>3. Middle \in Nat /\ Start <= Middle /\ Middle <= End
  BY <1>2
<1>4. QED
  BY <1>1, <1>2, <1>3

\* The element that is merged next comes after those that were merged and
\* before those that are left.
LEMMA MergeOne ==
  ASSUME Inv, InHalves, MergeTurn, prog = "mergesort",
         NEW v \in Slots, a' = [a EXCEPT ![k] = v], k' = k + 1, UNCHANGED <<stack, pc>>,
         v \in Start .. End - 1, k \in Start .. j - 1,
         i' \in i .. Middle, j' \in j .. End,
         \A x \in Start .. k - 1 : Precedes(a[x], v),
         \A y \in i' .. Middle - 1 : Precedes(v, temp[y]),
         \A y \in j' .. End - 1 : Precedes(v, a[y])
  PROVE  InHalves'
<1>1. pc = "merge" /\ UNCHANGED <<input, temp>>
  BY DEF MergeTurn
<1>2. /\ Mergesorting /\ stack # <<>> /\ Merged /\ Untouched(End) /\ Slots = 0 .. Length - 1 /\ a \in [Slots -> Slots]
  BY <1>1, MergeRange
<1>3. /\ Start \in Nat /\ End \in Nat /\ End <= Length /\ Middle \in Nat /\ Start <= Middle /\ Middle <= End
      /\ i \in Start .. Middle /\ j \in Middle .. End /\ k \in Nat /\ k < j /\ Start <= k /\ Length \in Nat
  <2>1. /\ Start \in Nat /\ End \in Nat /\ End <= Length /\ Middle \in Nat /\ Start <= Middle
        /\ Middle <= End /\ i \in Start .. Middle /\ j \in Middle .. End /\ Length \in Nat
    BY <1>1, MergeRange
  <2>2. k \in Nat /\ k < j /\ Start <= k
    BY <2>1
  <2>3. QED
    BY <2>1, <2>2
<1>4. /\ Length' = Length /\ rank' = rank /\ prog' = prog /\ temp' = temp
      /\ Start' = Start /\ End' = End /\ Middle' = Middle
  BY <1>1, SameInput DEF Start, End, Middle
<1>5. a'[k] = v /\ \A x \in Slots : x # k => a'[x] = a[x]
  <2>1. k \in Slots
    BY <1>2, <1>3
  <2>2. QED
    BY <1>2, <2>1
<1>6. /\ \A x \in 0 .. k - 1 : a'[x] = a[x]
      /\ \A x \in j .. Length - 1 : a'[x] = a[x]
  <2>1. /\ \A x \in 0 .. k - 1 : x \in 0 .. Length - 1 /\ x # k
        /\ \A x \in j .. Length - 1 : x \in 0 .. Length - 1 /\ x # k
    BY <1>3
  <2>2. QED
    BY <1>2, <1>5, <2>1
<1>7. Halved' /\ HalvesWait'
  <2>1. \A x \in 0 .. Start - 1 : x \in 0 .. k - 1
    BY <1>3
  <2>2. \A x \in 0 .. Start - 1 : a'[x] = a[x]
    BY <1>6, <2>1
  <2>3. QED
    BY <1>1, <1>2, <2>2, WaitingStays
<1>8. Untouched(End)'
  <2>1. \A x \in End .. Length - 1 : x \in j .. Length - 1
    BY <1>3
  <2>2. QED
    BY <1>2, <1>4, <1>6, <2>1 DEF Untouched
<1>9. /\ \A x \in Start .. k : x = k \/ (x \in Start .. k - 1 /\ x \in 0 .. k - 1)
      /\ \A x \in j' .. End - 1 : x \in j .. End - 1 /\ x \in j .. Length - 1
      /\ \A x \in i' .. Middle - 1 : x \in i .. Middle - 1
      /\ k' - 1 = k
  BY <1>3
<1>10. /\ \A x \in Start .. k : a'[x] = IF x = k THEN v ELSE a[x]
       /\ \A x \in j' .. End - 1 : a'[x] = a[x]
  BY <1>5, <1>6, <1>9
<1>11. (\A x \in Start .. k - 1 : a[x] \in Start .. End - 1)'
  BY <1>2, <1>4, <1>9, <1>10 DEF Merged
<1>12. (\A x \in i .. Middle - 1 : temp[x] \in Start .. Middle - 1)'
  BY <1>2, <1>4, <1>9 DEF Merged
<1>13. (\A x \in j .. End - 1 : a[x] \in Middle .. End - 1)'
  BY <1>2, <1>4, <1>9, <1>10 DEF Merged
<1>14. Sorted(Start, k)'
  <2>1. ASSUME NEW x \in Start .. k, NEW y \in Start .. k, x < y
        PROVE  Precedes(a'[x], a'[y])
    <3>1. x # k /\ x \in Start .. k - 1
      BY <1>3, <2>1
    <3>2. CASE y = k
      BY <1>10, <3>1, <3>2
    <3>3. CASE y # k
      BY <1>2, <1>9, <1>10, <2>1, <3>1, <3>3 DEF Merged, Sorted
    <3>4. QED
      BY <3>2, <3>3
  <2>2. QED
    BY <1>4, <1>9, <2>1 DEF Sorted, Precedes, Before, Less
<1>15. Sorted(j, End)'
  <2>1. \A x, y \in j' .. End - 1 : x < y => Precedes(a'[x], a'[y])
    BY <1>2, <1>9, <1>10 DEF Merged, Sorted
  <2>2. QED
    BY <1>4, <2>1 DEF Sorted, Precedes, Before, Less
<1>16. (\A x, y \in i .. Middle - 1 : x < y => Precedes(temp[x], temp[y]))'
  <2>1. \A x, y \in i' .. Middle - 1 : x < y => Precedes(temp[x], temp[y])
    BY <1>2, <1>9 DEF Merged
  <2>2. QED
    BY <1>4, <2>1 DEF Precedes, Before, Less
<1>17. (\A x \in Start .. k - 1 : /\ \A y \in i .. Middle - 1 : Precedes(a[x], temp[y])
                                  /\ \A y \in j .. End - 1 : Precedes(a[x], a[y]))'
  <2>1. ASSUME NEW x \in Start .. k
        PROVE  /\ \A y \in i' .. Middle - 1 : Precedes(a'[x], temp[y])
               /\ \A y \in j' .. End - 1 : Precedes(a'[x], a'[y])
    <3>1. CASE x = k
      BY <1>10, <3>1
    <3>2. CASE x # k
      BY <1>2, <1>9, <1>10, <3>2 DEF Merged
    <3>3. QED
      BY <3>1, <3>2
  <2>2. QED
    BY <1>4, <1>9, <2>1 DEF Precedes, Before, Less
<1>18. Merged'
  BY <1>11, <1>12, <1>13, <1>14, <1>15, <1>16, <1>17 DEF Merged
<1>19. QED
  BY <1>1, <1>7, <1>8, <1>18 DEF InHalves

\* The merge takes the smaller one of the first elements of the halves, of
\* equal ones that of the left half, and returns when the workspace is empty.
LEMMA MergeTurns ==
  ASSUME Inv, InHalves, MergeTurn, prog = "mergesort"
  PROVE  InHalves'
<1>1. pc = "merge" /\ UNCHANGED <<input, temp>>
  BY DEF MergeTurn
<1>2. /\ Mergesorting /\ stack # <<>> /\ Merged /\ Untouched(End) /\ Slots = 0 .. Length - 1
  BY <1>1, MergeRange
<1>3. /\ Start \in Nat /\ End \in Nat /\ End <= Length /\ Middle \in Nat /\ Start <= Middle /\ Middle <= End
      /\ i \in Start .. Middle /\ j \in Middle .. End /\ k = j - (Middle - i) /\ Length \in Nat
  BY <1>1, MergeRange
<1>4. \A x \in Start .. End - 1 : x \in Slots
  BY <1>2, <1>3
<1>5. \A x \in Slots : rank[x] \in Int /\ x \in Nat
  BY <1>2, <1>3, BeforeOrders
<1>6. /\ \A x \in Start .. k - 1 : /\ a[x] \in Start .. End - 1
                                   /\ \A y \in i .. Middle - 1 : Precedes(a[x], temp[y])
                                   /\ \A y \in j .. End - 1 : Precedes(a[x], a[y])
      /\ \A x \in i .. Middle - 1 : temp[x] \in Start .. Middle - 1
      /\ \A x \in j .. End - 1 : a[x] \in Middle .. End - 1
      /\ \A x, y \in j .. End - 1 : x < y => Precedes(a[x], a[y])
      /\ \A x, y \in Start .. k - 1 : x < y => Precedes(a[x], a[y])
      /\ \A x, y \in i .. Middle - 1 : x < y => Precedes(temp[x], temp[y])
  BY <1>2 DEF Merged, Sorted
<1>7. /\ \A x \in i .. Middle - 1 : temp[x] \in Slots
      /\ \A x \in j .. End - 1 : a[x] \in Slots
  <2>1. /\ \A x \in Start .. Middle - 1 : x \in Slots
        /\ \A x \in Middle .. End - 1 : x \in Slots
    BY <1>2, <1>3
  <2>2. QED
    BY <1>6, <2>1
<1>8. CASE TakesLeft /\ a' = [a EXCEPT ![k] = temp[i]] /\ i' = i + 1 /\ k' = k + 1
             /\ UNCHANGED <<j, stack, pc>>
  <2>1. i \in i .. Middle - 1 /\ k \in Start .. j - 1 /\ i' \in i .. Middle /\ j' \in j .. End
    BY <1>3, <1>8 DEF TakesLeft
  <2>2. temp[i] \in Start .. Middle - 1 /\ temp[i] \in Start .. End - 1 /\ temp[i] \in Slots
    BY <1>3, <1>6, <1>7, <2>1
  <2>3. \A x \in Start .. k - 1 : Precedes(a[x], temp[i])
    BY <1>6, <2>1
  <2>4. \A y \in i' .. Middle - 1 : Precedes(temp[i], temp[y])
    <3>1. \A y \in i' .. Middle - 1 : y \in i .. Middle - 1 /\ i < y
      BY <1>3, <1>8
    <3>2. QED
      BY <1>6, <2>1, <3>1
  <2>5. j < End => Precedes(temp[i], a[j])
    <3> SUFFICES ASSUME j < End PROVE Precedes(temp[i], a[j])
      OBVIOUS
    <3>1. j \in j .. End - 1 /\ ~Before(a[j], temp[i])
      BY <1>3, <1>8 DEF TakesLeft
    <3>2. a[j] \in Middle .. End - 1 /\ a[j] \in Slots
      BY <1>6, <1>7, <3>1
    <3>3. temp[i] < a[j]
      BY <1>3, <2>2, <3>2
    <3>4. QED
      BY <1>5, <2>2, <3>1, <3>2, <3>3 DEF Precedes, Before, Less
  <2>6. ASSUME NEW y \in j' .. End - 1 PROVE Precedes(temp[i], a[y])
    <3>1. y \in j .. End - 1 /\ j \in j .. End - 1 /\ j < End /\ (y = j \/ j < y)
      BY <1>3, <1>8
    <3>2. a[y] \in Slots /\ a[j] \in Slots
      BY <1>7, <3>1
    <3>3. y # j => Precedes(a[j], a[y])
      BY <1>6, <3>1
    <3>4. QED
      BY <2>2, <2>5, <3>1, <3>2, <3>3, PrecedesOrders
  <2>7. QED
    BY <1>8, <2>1, <2>2, <2>3, <2>4, <2>6, MergeOne
<1>9. CASE i < Middle /\ ~TakesLeft /\ a' = [a EXCEPT ![k] = a[j]] /\ j' = j + 1 /\ k' = k + 1
             /\ UNCHANGED <<i, stack, pc>>
  <2>1. /\ i \in i .. Middle - 1 /\ j \in j .. End - 1 /\ k \in Start .. j - 1
        /\ i' \in i .. Middle /\ j' \in j .. End /\ Before(a[j], temp[i])
    BY <1>3, <1>9 DEF TakesLeft
  <2>2. a[j] \in Middle .. End - 1 /\ a[j] \in Start .. End - 1 /\ a[j] \in Slots /\ temp[i] \in Slots
    BY <1>3, <1>6, <1>7, <2>1
  <2>3. \A x \in Start .. k - 1 : Precedes(a[x], a[j])
    BY <1>6, <2>1
  <2>4. ASSUME NEW y \in i' .. Middle - 1 PROVE Precedes(a[j], temp[y])
    <3>1. y \in i .. Middle - 1 /\ (y = i \/ i < y)
      BY <1>3, <1>9
    <3>2. Precedes(a[j], temp[i]) /\ temp[y] \in Slots
      BY <1>7, <2>1, <3>1 DEF Precedes
    <3>3. y # i => Precedes(temp[i], temp[y])
      BY <1>6, <2>1, <3>1
    <3>4. QED
      BY <2>2, <3>1, <3>2, <3>3, PrecedesOrders
  <2>5. \A y \in j' .. End - 1 : Precedes(a[j], a[y])
    <3>1. \A y \in j' .. End - 1 : y \in j .. End - 1 /\ j < y
      BY <1>3, <1>9
    <3>2. QED
      BY <1>6, <2>1, <3>1
  <2>6. QED
    BY <1>9, <2>1, <2>2, <2>3, <2>4, <2>5, MergeOne
<1>10. CASE i >= Middle /\ Done /\ UNCHANGED <<a, i, j, k>>
  <2>1. k = j /\ \A x \in Start .. End - 1 : x \in Start .. k - 1 \/ x \in j .. End - 1
    BY <1>3, <1>10
  <2>2. ASSUME NEW x \in Start .. End - 1, NEW y \in Start .. End - 1, x < y
        PROVE  Precedes(a[x], a[y])
    <3>1. \/ x \in Start .. k - 1 /\ y \in Start .. k - 1
          \/ x \in Start .. k - 1 /\ y \in j .. End - 1
          \/ x \in j .. End - 1 /\ y \in j .. End - 1
      BY <1>3, <2>1, <2>2
    <3>2. QED
      BY <1>6, <2>2, <3>1
  <2>3. \A x \in Start .. End - 1 : a[x] \in Start .. End - 1
    <3>1. Middle .. End - 1 \subseteq Start .. End - 1
      BY <1>3
    <3>2. QED
      BY <1>6, <2>1, <3>1
  <2>4. Run(Start, End)
    BY <2>2, <2>3 DEF Run, Sorted
  <2>5. QED
    BY <1>1, <1>2, <1>10, <2>4, MergeReturns DEF Done
<1>11. QED
  BY <1>8, <1>9, <1>10 DEF MergeTurn

-----------------------------------------------------------------------------
(* All steps.                                                              *)

\* What there is to show of a step that does not end the call
LEMMA StillSorting ==
  ASSUME pc' \in Loops \cup {"call"},
         pc' \in {"heapify", "extract", "sift"} => InPhase',
         pc' = "insertion" => Sinking',
         prog' = "quicksort" => InParts',
         prog' = "mergesort" => InHalves'
  PROVE  InOrderSoFar'
<1>1. pc' # "start" /\ pc' # "done" /\ pc' # "unsorted"
  BY DEF Loops
<1>2. InPhase' /\ Sinking' /\ InParts' /\ InHalves' /\ SortedAtEnd'
  BY <1>1 DEF InPhase, Sinking, InParts, InHalves, SortedAtEnd
<1>3. QED
  BY <1>1, <1>2 DEF InOrderSoFar

\* The three functions
LEMMA ThreePrograms ==
  ASSUME Inv
  PROVE  prog \in {"quicksort", "mergesort", "heapsort"}
BY SortingAssumption DEF Inv, Input

\* At the start every element is in its own slot.
LEMMA InitiallyUntouched == Init => InOrderSoFar
<1> SUFFICES ASSUME Init PROVE InOrderSoFar
  OBVIOUS
<1>1. Slots = 0 .. Length - 1
  BY Initially DEF Inv, Input
<1>2. Untouched(0)
  BY <1>1 DEF Init, Untouched, Slots
<1>3. pc = "start"
  BY DEF Init
<1>4. QED
  BY <1>2, <1>3 DEF InOrderSoFar, InPhase, Sinking, InParts, InHalves, SortedAtEnd, Loops

\* Without a workspace nothing is moved.
LEMMA NoMemoryKeepsOrder == Inv /\ InOrderSoFar /\ NoMemory => InOrderSoFar'
<1> SUFFICES ASSUME Inv, InOrderSoFar, NoMemory PROVE InOrderSoFar'
  OBVIOUS
<1>1. pc' = "unsorted" /\ a' = a /\ Untouched(0) /\ Length' = Length /\ Slots' = Slots /\ Slots = 0 .. Length - 1
  BY SameInput DEF NoMemory, InOrderSoFar, Inv, Input
<1>2. \A x \in Slots' : a'[x] = x
  BY <1>1 DEF Untouched
<1>3. QED
  BY <1>1, <1>2 DEF InOrderSoFar, InPhase, Sinking, InParts, InHalves, SortedAtEnd, Loops

\* The first call covers the whole array.
LEMMA BeginKeepsOrder == Inv /\ InOrderSoFar /\ Begin => InOrderSoFar'
<1> SUFFICES ASSUME Inv, InOrderSoFar, Begin PROVE InOrderSoFar'
  OBVIOUS
<1>1. /\ UNCHANGED <<input, a, temp, i>> /\ Length' = Length /\ rank' = rank /\ prog' = prog
      /\ Untouched(0) /\ Length \in Nat
  BY SameInput DEF Begin, InOrderSoFar, Inv, Input
<1>2. CASE prog = "heapsort"
  <2>1. /\ pc' = "heapify" /\ k' = Length /\ Length > 0
        /\ j' = IF Length = 1 THEN 0 ELSE Parent(Length - 1)
    BY <1>2 DEF Begin, Inv, Input
  <2>2. InHeap(rank, a, Length, j' + 1)
    <3>1. \A c \in 1 .. Length - 1 : ~(Parent(c) >= j' + 1)
      BY <1>1, <2>1 DEF Parent
    <3>2. QED
      BY <3>1 DEF InHeap
  <2>3. LargestBehind'
    <3>1. Length .. Length - 1 = {} /\ Length .. Length - 2 = {}
      BY <1>1
    <3>2. QED
      BY <1>1, <2>1, <3>1 DEF LargestBehind, InOrder
  <2>4. InPhase'
    BY <1>1, <2>1, <2>2, <2>3 DEF InPhase
  <2>5. QED
    BY <1>1, <1>2, <2>1, <2>4, StillSorting DEF Loops
<1>3. CASE prog # "heapsort"
  <2>1. pc' = "call" /\ stack' = <<Sort(0, Length)>>
    BY <1>3 DEF Begin
  <2>2. /\ stack' # <<>> /\ Len(stack') = 1 /\ DOMAIN stack' = {1} /\ Head(stack') = Sort(0, Length)
        /\ stack'[1] = Sort(0, Length)
    BY <2>1
  <2>3. /\ stack'[1].do = "sort" /\ stack'[1].start = 0 /\ stack'[1].end = Length
        /\ Start' = 0 /\ End' = Length /\ Head(stack').do = "sort"
    BY <2>2 DEF Sort, Start, End
  <2>4. InParts'
    <3>1. Tiled'
      BY <1>1, <2>2, <2>3 DEF Tiled
    <3>2. \A c \in DOMAIN stack' : Border(stack[c].start)'
      <4>1. \A x \in 0 .. 0 - 1 : FALSE
        OBVIOUS
      <4>2. QED
        BY <2>2, <2>3, <4>1 DEF Border
    <3>3. InOrder(0, Start)'
      <4>1. \A x \in 0 .. 0 - 2 : FALSE
        OBVIOUS
      <4>2. QED
        BY <2>3, <4>1 DEF InOrder
    <3>4. QED
      BY <2>2, <3>1, <3>2, <3>3 DEF InParts
  <2>5. InHalves'
    <3>1. Halved'
      BY <1>1, <2>2, <2>3 DEF Halved
    <3>2. HalvesWait'
      BY <2>2 DEF HalvesWait
    <3>3. CallReady'
      BY <1>1, <2>2, <2>3 DEF CallReady, Untouched
    <3>4. QED
      BY <2>1, <3>1, <3>2, <3>3 DEF InHalves
  <2>6. QED
    BY <2>1, <2>4, <2>5, StillSorting
<1>4. QED
  BY <1>2, <1>3

\* An array that is a run is in order, and equal elements are too.
LEMMA FinishKeepsOrder == Inv /\ InOrderSoFar /\ Finish => InOrderSoFar'
<1> SUFFICES ASSUME Inv, InOrderSoFar, Finish PROVE InOrderSoFar'
  OBVIOUS
<1>1. /\ pc = "call" /\ stack = <<>> /\ pc' = "done" /\ a' = a /\ prog # "heapsort"
      /\ Length' = Length /\ rank' = rank /\ prog' = prog
      /\ Length \in Nat /\ Slots = 0 .. Length - 1 /\ a \in [Slots -> Slots]
  BY SameInput DEF Finish, Inv, Input, Values
<1>2. CASE prog = "quicksort"
  <2>1. InOrder(0, Length)
    BY <1>1, <1>2 DEF InOrderSoFar, InParts
  <2>2. SortedAtEnd'
    BY <1>1, <1>2, <2>1 DEF SortedAtEnd, InOrder, Before, Less
  <2>3. QED
    BY <1>1, <2>2 DEF InOrderSoFar, InPhase, Sinking, InParts, InHalves, Loops
<1>3. CASE prog = "mergesort"
  <2>1. \A x, y \in 0 .. Length - 1 : x < y => Precedes(a[x], a[y])
    BY <1>1, <1>3 DEF InOrderSoFar, InHalves, CallReady, Run, Sorted
  <2>2. \A x, y \in Slots : x < y => ~Before(a[y], a[x]) /\ Precedes(a[x], a[y])
    BY <1>1, <2>1, PrecedesOrders
  <2>3. InOrder(0, Length)
    <3>1. \A x \in 0 .. Length - 2 : x \in Slots /\ x + 1 \in Slots /\ x < x + 1
      BY <1>1
    <3>2. QED
      BY <2>2, <3>1 DEF InOrder
  <2>4. ASSUME NEW x \in Slots, NEW y \in Slots, x < y, rank[a[x]] = rank[a[y]]
        PROVE  a[x] < a[y]
    <3>1. rank[a[x]] \in Int /\ rank[a[y]] \in Int
      BY <1>1, BeforeOrders
    <3>2. ~Before(a[x], a[y])
      BY <2>4, <3>1 DEF Before, Less
    <3>3. QED
      BY <1>3, <2>2, <2>4, <3>2 DEF Precedes
  <2>5. SortedAtEnd'
    <3>1. InOrder(0, Length)'
      BY <1>1, <2>3 DEF InOrder, Before, Less
    <3>2. (\A x, y \in Slots : x < y /\ rank[a[x]] = rank[a[y]] => a[x] < a[y])'
      <4>1. Slots' = Slots
        BY SameInput DEF Finish
      <4>2. QED
        BY <1>1, <2>4, <4>1
    <3>3. QED
      BY <1>1, <3>1, <3>2 DEF SortedAtEnd
  <2>6. QED
    BY <1>1, <2>5 DEF InOrderSoFar, InPhase, Sinking, InParts, InHalves, Loops
<1>4. QED
  BY <1>1, <1>2, <1>3, ThreePrograms

\* A range of one element or none is sorted.
LEMMA ShortRangeKeepsOrder == Inv /\ InOrderSoFar /\ ShortRange => InOrderSoFar'
<1> SUFFICES ASSUME Inv, InOrderSoFar, ShortRange PROVE InOrderSoFar'
  OBVIOUS
<1>1. /\ pc = "call" /\ stack # <<>> /\ UNCHANGED <<input, a>> /\ pc' = "call" /\ stack' = Tail(stack)
      /\ prog' = prog
  BY SameInput DEF ShortRange, Calls, Done
<1>2. Sorted(Start, End) /\ (Mergesorting => Run(Start, End) /\ Untouched(End))
  BY ShortRangeSorted DEF InOrderSoFar
<1>3. prog' = "quicksort" => InParts'
  BY <1>1, <1>2, QuickReturns DEF InOrderSoFar, Quicksorting
<1>4. prog' = "mergesort" => InHalves'
  BY <1>1, <1>2, MergeReturns DEF InOrderSoFar, Mergesorting
<1>5. QED
  BY <1>1, <1>3, <1>4, StillSorting

\* The insertion sort begins.
LEMMA EnterInsertionKeepsOrder == Inv /\ InOrderSoFar /\ EnterInsertion => InOrderSoFar'
<1> SUFFICES ASSUME Inv, InOrderSoFar, EnterInsertion PROVE InOrderSoFar'
  OBVIOUS
<1>1. UNCHANGED <<input, a, stack>> /\ pc = "call" /\ pc' = "insertion" /\ prog' = prog
  BY SameInput DEF EnterInsertion, Calls
<1>2. Sinking'
  BY EnterInsertionSinks DEF InOrderSoFar
<1>3. prog' = "quicksort" => InParts'
  BY <1>1, QuickStays DEF InOrderSoFar, Quicksorting
<1>4. prog' = "mergesort" => InHalves'
  BY <1>1, MergeEntersInsertion DEF InOrderSoFar
<1>5. QED
  BY <1>1, <1>2, <1>3, <1>4, StillSorting DEF Loops

\* Only mergesort merges.
LEMMA OnlyMergesortMerges ==
  ASSUME Inv, InOrderSoFar, pc \in Loops \cup {"call"}, stack # <<>>, Head(stack).do = "merge",
         prog # "heapsort"
  PROVE  prog = "mergesort"
<1>1. ASSUME prog = "quicksort" PROVE FALSE
  <2>1. Quicksorting
    BY <1>1 DEF Quicksorting
  <2>2. Tiled /\ 1 \in DOMAIN stack /\ Head(stack) = stack[1]
    <3>1. Tiled /\ stack \in Seq(Frames) /\ Len(stack) \in Nat \ {0} /\ DOMAIN stack = 1 .. Len(stack)
      BY <2>1, QuickStack DEF InOrderSoFar
    <3>2. QED
      BY <3>1
  <2>3. QED
    BY <2>2 DEF Tiled
<1>2. QED
  BY <1>1, ThreePrograms

\* The steps of mergesort
LEMMA MergesKeepOrder ==
  Inv /\ InOrderSoFar /\ (SplitInHalves \/ EnterMerge \/ MergeTurn) => InOrderSoFar'
<1> SUFFICES ASSUME Inv, InOrderSoFar, SplitInHalves \/ EnterMerge \/ MergeTurn PROVE InOrderSoFar'
  OBVIOUS
<1>1. pc' \in {"call", "merge"} /\ prog' = prog
  BY SameInput DEF SplitInHalves, Calls, EnterMerge, MergeTurn, Done
<1>2. InHalves
  BY DEF InOrderSoFar
<1>3. prog = "mergesort"
  <2>1. CASE SplitInHalves
    BY <2>1 DEF SplitInHalves
  <2>2. CASE EnterMerge
    <3>1. pc = "call" /\ stack # <<>> /\ Head(stack).do = "merge" /\ prog # "heapsort"
      BY <2>2 DEF EnterMerge, Inv
    <3>2. QED
      BY <3>1, OnlyMergesortMerges
  <2>3. CASE MergeTurn
    <3>1. pc = "merge" /\ stack # <<>> /\ Head(stack).do = "merge" /\ prog # "heapsort"
      BY <2>3 DEF MergeTurn, Inv, Merging, InSort
    <3>2. QED
      BY <3>1, OnlyMergesortMerges DEF Loops
  <2>4. QED
    BY <2>1, <2>2, <2>3
<1>4. InHalves'
  BY <1>2, <1>3, MergeSplits, MergeEnters, MergeTurns
<1>5. QED
  BY <1>1, <1>3, <1>4, StillSorting DEF Loops

\* A turn of the insertion sort
LEMMA InsertionKeepsOrder == Inv /\ InOrderSoFar /\ Insertion => InOrderSoFar'
<1> SUFFICES ASSUME Inv, InOrderSoFar, Insertion PROVE InOrderSoFar'
  OBVIOUS
<1>1. /\ pc = "insertion" /\ UNCHANGED <<input, temp, k>> /\ prog' = prog
      /\ Sinking /\ InParts /\ InHalves
  BY SameInput DEF Insertion, InOrderSoFar
<1>2. /\ stack # <<>> /\ Length \in Nat /\ Start \in Nat /\ End \in Nat /\ i \in Start + 1 .. End /\ j \in Start .. i
  BY <1>1, InsertionRange
<1>3. CASE i < End /\ Sinks /\ a' = Swapped(a, j, j - 1) /\ j' = j - 1 /\ UNCHANGED <<i, pc, stack>>
  <2>1. Sinking'
    BY <1>1, <1>3, SinkTurn
  <2>2. prog' = "quicksort" => InParts'
    <3>1. j \in Start .. End - 1 /\ j - 1 \in Start .. End - 1
      BY <1>2, <1>3 DEF Sinks
    <3>2. QED
      BY <1>1, <1>2, <1>3, <3>1, QuickSwaps DEF Quicksorting, Loops
  <2>3. prog' = "mergesort" => InHalves'
    BY <1>1, <1>3, MergeInsertion
  <2>4. QED
    BY <1>1, <1>3, <2>1, <2>2, <2>3, StillSorting DEF Loops
<1>4. CASE i < End /\ ~Sinks /\ i' = i + 1 /\ j' = i + 1 /\ UNCHANGED <<a, pc, stack>>
  <2>1. Sinking'
    BY <1>1, <1>4, RestTurn
  <2>2. prog' = "quicksort" => InParts'
    BY <1>1, <1>4, QuickStays DEF Quicksorting, Loops
  <2>3. prog' = "mergesort" => InHalves'
    BY <1>1, <1>4, MergeInsertion
  <2>4. QED
    BY <1>1, <1>4, <2>1, <2>2, <2>3, StillSorting DEF Loops
<1>5. CASE i >= End /\ Done /\ UNCHANGED <<a, i, j>>
  <2>1. Sorted(Start, End) /\ (prog = "mergesort" => Run(Start, End))
    BY <1>1, <1>5, InsertionSorts
  <2>2. pc' = "call" /\ stack' = Tail(stack) /\ UNCHANGED <<input, a>>
    BY <1>1, <1>5 DEF Done
  <2>3. prog' = "quicksort" => InParts'
    BY <1>1, <1>2, <2>1, <2>2, QuickReturns DEF Quicksorting, Loops
  <2>4. prog' = "mergesort" => InHalves'
    <3> SUFFICES ASSUME prog' = "mergesort" PROVE InHalves'
      OBVIOUS
    <3>1. Mergesorting
      BY <1>1 DEF Mergesorting, Loops
    <3>2. ~(i < End)
      BY <1>2, <1>5
    <3>3. Untouched(End)
      BY <1>1, <3>1, <3>2 DEF InHalves, Mergesorting
    <3>4. QED
      BY <1>1, <1>2, <2>1, <2>2, <3>1, <3>3, MergeReturns
  <2>5. QED
    BY <2>2, <2>3, <2>4, StillSorting, <1>1
<1>6. QED
  BY <1>3, <1>4, <1>5 DEF Insertion

\* The partition moves elements within the range that is split.
LEMMA PartitionKeepsOrder ==
  Inv /\ InOrderSoFar /\ (EnterPartition \/ ScanUp \/ ScanDown \/ Meet) => InOrderSoFar'
<1> SUFFICES ASSUME Inv, InOrderSoFar, EnterPartition \/ ScanUp \/ ScanDown \/ Meet PROVE InOrderSoFar'
  OBVIOUS
<1>1. /\ InParts /\ Quicksorting /\ stack # <<>> /\ UNCHANGED input /\ prog' = prog
      /\ pc' \in {"up", "down", "meet", "call"}
  <2>1. pc' \in {"up", "down", "meet", "call"} /\ UNCHANGED input
    BY DEF EnterPartition, ScanUp, ScanDown, Meet
  <2>2. CASE EnterPartition
    BY <2>1, <2>2, SameInput DEF EnterPartition, Calls, Quicksorting, InOrderSoFar
  <2>3. CASE ScanUp \/ ScanDown \/ Meet
    <3>1. pc \in {"up", "down", "meet"} /\ Partitioning
      BY <2>3 DEF ScanUp, ScanDown, Meet, Inv, ScanningUp, ScanningDown, Meeting
    <3>2. QED
      BY <2>1, <3>1, SameInput DEF Partitioning, InSort, Quicksorting, InOrderSoFar, Loops
  <2>4. QED
    BY <2>2, <2>3
<1>2. CASE UNCHANGED <<a, stack>>
  BY <1>1, <1>2, QuickStays, StillSorting DEF Quicksorting, Loops
<1>3. CASE Meet /\ i >= j
  BY <1>1, <1>3, QuickSplits, StillSorting DEF Quicksorting, Loops
<1>4. CASE Meet /\ ~(i >= j)
  <2>1. a' = Swapped(a, i, j) /\ stack' = stack /\ pc = "meet"
    BY <1>4 DEF Meet
  <2>2. i \in Start .. End - 1 /\ j \in Start .. End - 1
    BY <2>1 DEF Inv, Meeting
  <2>3. InParts'
    BY <1>1, <2>1, <2>2, QuickSwaps
  <2>4. QED
    BY <1>1, <2>3, StillSorting DEF Quicksorting, Loops
<1>5. QED
  BY <1>2, <1>3, <1>4 DEF EnterPartition, ScanUp, ScanDown

\* The steps of heapsort
LEMMA HeapsortKeepsOrder ==
  Inv /\ InOrderSoFar /\ (Heapify \/ Extract \/ Sift) => InOrderSoFar'
<1> SUFFICES ASSUME Inv, InOrderSoFar, Heapify \/ Extract \/ Sift PROVE InOrderSoFar'
  OBVIOUS
<1>1. prog = "heapsort" /\ UNCHANGED input /\ prog' = prog /\ Length' = Length /\ InPhase
  BY SameInput DEF Heapify, Extract, Sift, Inv, Heaping, InOrderSoFar
<1>2. CASE Extract /\ ~(j > 0)
  <2>1. pc' = "done" /\ InOrder(0, Length)'
    BY <1>1, <1>2, ExtractSorts DEF Extract
  <2>2. QED
    BY <1>1, <2>1 DEF InOrderSoFar, InPhase, Sinking, InParts, InHalves, SortedAtEnd, Loops
<1>3. CASE ~(Extract /\ ~(j > 0))
  <2>1. InPhase'
    BY <1>1, <1>3, HeapifyKeepsPhase, ExtractKeepsPhase, SiftKeepsPhase
  <2>2. pc' \in {"heapify", "extract", "sift"}
    <3>1. CASE Sift
      <4>1. pc = "sift" /\ stack # <<>> /\ pc' \in {"sift", Head(stack).do}
        BY <3>1 DEF Sift, Inv, Heaping
      <4>2. Head(stack).do \in {"heapify", "extract"}
        BY <1>1, <4>1 DEF Inv, Stacked
      <4>3. QED
        BY <4>1, <4>2
    <3>2. QED
      BY <1>3, <3>1 DEF Heapify, Extract, SiftFrom
  <2>3. QED
    BY <1>1, <2>1, <2>2, StillSorting DEF Loops
<1>4. QED
  BY <1>2, <1>3

\* Every step keeps what has been put in order so far.
LEMMA NextKeepsOrder == Inv /\ InOrderSoFar /\ [Next]_vars => InOrderSoFar'
<1> SUFFICES ASSUME Inv, InOrderSoFar, [Next]_vars PROVE InOrderSoFar'
  OBVIOUS
<1>1. CASE NoMemory \/ Begin \/ Finish \/ ShortRange \/ EnterInsertion \/ Insertion
  BY <1>1, NoMemoryKeepsOrder, BeginKeepsOrder, FinishKeepsOrder, ShortRangeKeepsOrder,
     EnterInsertionKeepsOrder, InsertionKeepsOrder
<1>2. CASE EnterPartition \/ ScanUp \/ ScanDown \/ Meet
  BY <1>2, PartitionKeepsOrder
<1>3. CASE SplitInHalves \/ EnterMerge \/ MergeTurn
  BY <1>3, MergesKeepOrder
<1>4. CASE Heapify \/ Extract \/ Sift
  BY <1>4, HeapsortKeepsOrder
<1>5. CASE UNCHANGED vars
  <2>1. UNCHANGED <<prog, rank, a, temp, stack, pc, i, j, k>>
    BY <1>5 DEF vars
  <2>2. /\ Length' = Length /\ Slots' = Slots /\ Start' = Start /\ End' = End /\ Middle' = Middle
        /\ FirstInPlace' = FirstInPlace
    BY <2>1 DEF Length, Slots, Start, End, Middle, FirstInPlace
  <2>3. (pc = "start" => Untouched(0))' /\ SortedAtEnd'
    BY <2>1, <2>2 DEF InOrderSoFar, Untouched, SortedAtEnd, InOrder, Before, Less
  <2>4. InPhase'
    BY <2>1, <2>2 DEF InOrderSoFar, InPhase, LargestBehind, InOrder, Before, Less
  <2>5. Sinking'
    BY <2>1, <2>2 DEF InOrderSoFar, Sinking, Precedes, Before, Less
  <2>6. InParts'
    BY <2>1, <2>2 DEF InOrderSoFar, InParts, Tiled, Border, InOrder, Before, Less
  <2>7. InHalves'
    <3>1. Halved => Halved'
      BY <2>1, <2>2 DEF Halved, Followed, Nested, Half
    <3>2. HalvesWait => HalvesWait'
      BY <2>1, <2>2 DEF HalvesWait, Run, Sorted, Precedes, Before, Less, Half
    <3>3. CallReady => CallReady'
      BY <2>1, <2>2 DEF CallReady, Run, Untouched, Sorted, Precedes, Before, Less
    <3>4. Merged => Merged'
      BY <2>1, <2>2 DEF Merged, Sorted, Precedes, Before, Less
    <3>5. \A s : Untouched(s) => Untouched(s)'
      BY <2>1, <2>2 DEF Untouched
    <3>6. QED
      BY <2>1, <2>2, <3>1, <3>2, <3>3, <3>4, <3>5 DEF InOrderSoFar, InHalves
  <2>8. QED
    BY <2>3, <2>4, <2>5, <2>6, <2>7 DEF InOrderSoFar
<1>6. QED
  BY <1>1, <1>2, <1>3, <1>4, <1>5 DEF Next

-----------------------------------------------------------------------------
(* The theorems.                                                           *)

\* What is in order grows with every step of every call, for arrays of every
\* length (quicksort.c, mergesort.c, heapsort.c).
THEOREM OrderGrows == Spec => [](Inv /\ InOrderSoFar)
<1>1. QED
  BY Initially, InitiallyUntouched, NextKeepsInv, NextKeepsOrder, PTL DEF Spec

\* All three functions return the array sorted if they get their workspace, and
\* mergesort keeps equal elements in the order they came in
\* (quicksort.c:97-105, mergesort.c:60-68, heapsort.c:15-31).
THEOREM SortingSorts == Spec => []SortedAtEnd
<1>1. InOrderSoFar => SortedAtEnd
  BY DEF InOrderSoFar
<1>2. QED
  BY <1>1, OrderGrows, PTL

\* Quicksort never has to move an element across the borders of its ranges
\* (quicksort.c:86-93).
THEOREM QuicksortKeepsBorders == Spec => []PartsInOrder
<1>1. ASSUME Inv, InOrderSoFar PROVE PartsInOrder
  <2> SUFFICES ASSUME prog = "quicksort", pc # "done", pc # "unsorted", pc # "start"
               PROVE  /\ \A c \in 1 .. Len(stack) - 1 : stack[c].end = stack[c + 1].start
                      /\ stack # <<>> => stack[Len(stack)].end = Length
                      /\ InOrder(0, IF stack = <<>> THEN Length ELSE Start)
                      /\ \A c \in DOMAIN stack :
                           \A x \in 0 .. stack[c].start - 1, y \in stack[c].start .. Length - 1 :
                             ~Before(a[y], a[x])
    BY DEF PartsInOrder, Returned
  <2>1. pc \in Loops \cup {"call"}
    BY <1>1 DEF Inv
  <2>2. QED
    BY <1>1, <2>1 DEF InOrderSoFar, InParts, Tiled, Border
<1>2. QED
  BY <1>1, OrderGrows, PTL

\* heapsort keeps a heap in front of the largest elements, which are in order
\* (heap.c:38-40, 60-79, heapsort.c:20-26).
THEOREM HeapsortKeepsHeap == Spec => []HeapThenSorted
<1>1. ASSUME Inv, InOrderSoFar PROVE HeapThenSorted
  <2> DEFINE sifting == pc = "sift"
             making  == pc = "heapify" \/ (sifting /\ Head(stack).do = "heapify")
             first   == IF making THEN IF sifting THEN j ELSE j + 1 ELSE 0
  <2> SUFFICES ASSUME Heapsorting
               PROVE  /\ HeapBelow(rank, a, k, first, IF sifting THEN i ELSE Length)
                      /\ InOrder(k, Length)
                      /\ \A x \in 0 .. k - 1, y \in k .. Length - 1 : ~Before(a[y], a[x])
    BY DEF HeapThenSorted, Heapsorting
  <2>1. LargestBehind
    BY <1>1 DEF InOrderSoFar, InPhase, Heapsorting
  <2>2. HeapBelow(rank, a, k, first, IF sifting THEN i ELSE Length)
    <3>1. CASE pc = "sift"
      <4>1. first = FirstInPlace
        BY <3>1 DEF FirstInPlace
      <4>2. QED
        BY <1>1, <3>1, <4>1 DEF InOrderSoFar, InPhase
    <3>2. CASE pc # "sift"
      <4>1. /\ Array(rank, a, k, Length) /\ Length \in Nat /\ Length >= k
            /\ InHeap(rank, a, k, first) /\ first \in Nat
        <5>1. Array(rank, a, k, Length) /\ Length \in Nat /\ Length >= k
          BY <1>1, HeapOfElements
        <5>2. CASE pc = "heapify"
          <6>1. first = j + 1 /\ j \in -1 .. Length - 1
            BY <1>1, <5>2 DEF Inv, Heaping
          <6>2. QED
            BY <1>1, <5>1, <5>2, <6>1 DEF InOrderSoFar, InPhase
        <5>3. CASE pc = "extract"
          BY <1>1, <5>1, <5>3 DEF InOrderSoFar, InPhase
        <5>4. QED
          BY <3>2, <5>2, <5>3 DEF Heapsorting
      <4>2. HeapBelow(rank, a, k, first, Length)
        <5> HIDE DEF first
        <5>1. QED
          BY <4>1, InOrderBelow
      <4>3. QED
        BY <3>2, <4>2
    <3>3. QED
      BY <3>1, <3>2
  <2>3. QED
    BY <2>1, <2>2 DEF LargestBehind
<1>2. QED
  BY <1>1, OrderGrows, PTL
=============================================================================
