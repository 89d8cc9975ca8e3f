------------------------------- MODULE Sorting -------------------------------
(***************************************************************************)
(* quicksort, mergesort and heapsort (src/quicksort.c, src/mergesort.c,    *)
(* src/heapsort.c) with the insertion sort and the heap they use, one      *)
(* comparison or move per step.  The elements of an array of n are the     *)
(* numbers 0 .. n-1, named for where they stood at the start, and rank     *)
(* gives their order, so that equal elements are told apart.  stack holds  *)
(* the calls that are still to be made, the running one first.             *)
(***************************************************************************)
EXTENDS Heap, Sequences, FiniteSets

CONSTANTS
  Programs,       \* the sorting functions
  MaxLength,      \* the length of the longest array
  Ranks,          \* the values to be sorted
  InsertionMax,   \* the longest range that is left to the insertion sort
  SizeMax         \* SIZE_MAX

ASSUME SortingAssumption ==
  /\ Programs \subseteq {"quicksort", "mergesort", "heapsort"}
  /\ Ranks \subseteq Int
  /\ InsertionMax \in [Programs -> Nat \ {0}]
  /\ {MaxLength, SizeMax} \subseteq Nat /\ MaxLength < SizeMax

VARIABLES
  prog, rank,   \* the function that was called, and the order of its elements
  a,            \* the array
  temp,         \* the workspace: slot 1 is the pivot, or the half to be merged
  stack,        \* the calls to be made
  pc,           \* the loop that runs, "call" between two loops
  i, j, k       \* its variables; in heapsort the node, the outer loop and n

vars == <<prog, rank, a, temp, stack, pc, i, j, k>>
input == <<prog, rank>>

Length == Cardinality(DOMAIN rank)
Before(x, y) == Less(rank, x, y)

Sort(s, e)  == [do |-> "sort", start |-> s, end |-> e]
Merge(s, e) == [do |-> "merge", start |-> s, end |-> e]

Start  == Head(stack).start
End    == Head(stack).end
Middle == (Start + End) \div 2

\* The running call returns.
Done == pc' = "call" /\ stack' = Tail(stack)

\* heapsort reads slot n - 1 of an empty array; the others do not.
Init ==
  /\ prog \in Programs
  /\ \E n \in (IF prog = "heapsort" THEN 1 ELSE 0) .. MaxLength : rank \in [0 .. n - 1 -> Ranks]
  /\ a = [x \in DOMAIN rank |-> x]
  /\ temp = [x \in {} |-> 0] /\ stack = <<>> /\ pc = "start"
  /\ i = 0 /\ j = 0 /\ k = 0

\* Without a workspace nothing is sorted, and nobody is told.
NoMemory == pc = "start" /\ pc' = "unsorted" /\ UNCHANGED <<input, a, temp, stack, i, j, k>>

Begin ==
  /\ pc = "start" /\ UNCHANGED <<input, a, temp, i>>
  /\ IF prog = "heapsort"
     THEN /\ pc' = "heapify" /\ k' = Length /\ UNCHANGED stack
          /\ j' = IF Length = 1 THEN 0 ELSE Parent(Length - 1)
     ELSE pc' = "call" /\ stack' = <<Sort(0, Length)>> /\ UNCHANGED <<j, k>>

\* All calls have returned.
Finish ==
  /\ pc = "call" /\ stack = <<>>
  /\ pc' = "done" /\ UNCHANGED <<input, a, temp, stack, i, j, k>>

-----------------------------------------------------------------------------
(* _quicksort and _mergesort, up to the loop they enter or the calls they  *)
(* make.                                                                   *)

\* Mutant of PivotAt: the last element is the pivot.
PivotAtEnd(s, e) == e - 1

PivotAt(s, e) == (e - 1 + s) \div 2

Calls == pc = "call" /\ stack # <<>> /\ Head(stack).do = "sort"

ShortRange ==
  /\ Calls /\ End - Start <= 1
  /\ Done /\ UNCHANGED <<input, a, temp, i, j, k>>

EnterInsertion ==
  /\ Calls /\ End - Start \in 2 .. InsertionMax[prog]
  /\ pc' = "insertion" /\ i' = Start + 1 /\ j' = Start + 1
  /\ UNCHANGED <<input, a, temp, stack, k>>

\* i starts one before the range: SIZE_MAX for a range that starts at 0.
EnterPartition ==
  /\ Calls /\ End - Start > InsertionMax[prog] /\ End - Start > 1 /\ prog = "quicksort"
  /\ temp' = [x \in {1} |-> a[PivotAt(Start, End)]]
  /\ pc' = "up" /\ i' = (IF Start = 0 THEN SizeMax ELSE Start - 1) /\ j' = End
  /\ UNCHANGED <<input, a, stack, k>>

SplitInHalves ==
  /\ Calls /\ End - Start > InsertionMax[prog] /\ End - Start > 1 /\ prog = "mergesort"
  /\ stack' = <<Sort(Start, Middle), Sort(Middle, End), Merge(Start, End)>> \o Tail(stack)
  /\ UNCHANGED <<input, a, temp, pc, i, j, k>>

\* _merge moves the first half to the workspace.
EnterMerge ==
  /\ pc = "call" /\ stack # <<>> /\ Head(stack).do = "merge"
  /\ temp' = [x \in DOMAIN temp \cup (Start .. Middle - 1) |->
                IF x \in Start .. Middle - 1 THEN a[x] ELSE temp[x]]
  /\ pc' = "merge" /\ i' = Start /\ j' = Middle /\ k' = Start
  /\ UNCHANGED <<input, a, stack>>

-----------------------------------------------------------------------------
\* _insertionsort: element i sinks down by swaps.
Sinks == j > Start /\ Before(a[j], a[j - 1])

Insertion ==
  /\ pc = "insertion" /\ UNCHANGED <<input, temp, k>>
  /\ \/ i < End /\ Sinks /\ a' = Swapped(a, j, j - 1) /\ j' = j - 1 /\ UNCHANGED <<i, pc, stack>>
     \/ i < End /\ ~Sinks /\ i' = i + 1 /\ j' = i + 1 /\ UNCHANGED <<a, pc, stack>>
     \/ i >= End /\ Done /\ UNCHANGED <<a, i, j>>

Next1(x) == (x + 1) % (SizeMax + 1)

\* _partition: from the left past the elements below the pivot, ...
ScanUp ==
  /\ pc = "up"
  /\ i' = Next1(i)
  /\ pc' = IF Before(a[i'], temp[1]) THEN "up" ELSE "down"
  /\ UNCHANGED <<input, a, temp, stack, j, k>>

StopsDown(x) == ~Before(temp[1], x)

\* ... from the right past the elements above it, ...
ScanDown ==
  /\ pc = "down"
  /\ j' = j - 1
  /\ pc' = IF StopsDown(a[j']) THEN "meet" ELSE "down"
  /\ UNCHANGED <<input, a, temp, stack, i, k>>

\* Mutant of Meet: the element at j is left out, as if the pivot were there.
MeetSkipsPivot ==
  /\ pc = "meet" /\ UNCHANGED <<input, temp, i, j, k>>
  /\ IF i >= j
     THEN /\ pc' = "call" /\ UNCHANGED a
          /\ stack' = <<Sort(Start, j), Sort(j + 1, End)>> \o Tail(stack)
     ELSE pc' = "up" /\ a' = Swapped(a, i, j) /\ UNCHANGED stack

\* ... and a swap, or both parts are sorted in turn.
Meet ==
  /\ pc = "meet" /\ UNCHANGED <<input, temp, i, j, k>>
  /\ IF i >= j
     THEN /\ pc' = "call" /\ UNCHANGED a
          /\ stack' = <<Sort(Start, j + 1), Sort(j + 1, End)>> \o Tail(stack)
     ELSE pc' = "up" /\ a' = Swapped(a, i, j) /\ UNCHANGED stack

-----------------------------------------------------------------------------
\* Mutant of TakesLeft: of equal elements the right one is taken first.
TakesLeftIfBelow == i < Middle /\ (j < End => Before(temp[i], a[j]))

\* _merge takes from the workspace while it holds the smaller element, or
\* an equal one, or all that is left.
TakesLeft == i < Middle /\ (j < End => ~Before(a[j], temp[i]))

\* Mutant of MergeTurn: what is left in the workspace is not taken.
MergeTurnStops ==
  /\ pc = "merge" /\ UNCHANGED <<input, temp>>
  /\ IF i < Middle /\ j < End
     THEN /\ k' = k + 1 /\ UNCHANGED <<stack, pc>>
          /\ IF TakesLeft THEN a' = [a EXCEPT ![k] = temp[i]] /\ i' = i + 1 /\ UNCHANGED j
             ELSE a' = [a EXCEPT ![k] = a[j]] /\ j' = j + 1 /\ UNCHANGED i
     ELSE Done /\ UNCHANGED <<a, i, j, k>>

MergeTurn ==
  /\ pc = "merge" /\ UNCHANGED <<input, temp>>
  /\ \/ /\ TakesLeft
        /\ a' = [a EXCEPT ![k] = temp[i]] /\ i' = i + 1 /\ k' = k + 1 /\ UNCHANGED <<j, stack, pc>>
     \/ /\ i < Middle /\ ~TakesLeft
        /\ a' = [a EXCEPT ![k] = a[j]] /\ j' = j + 1 /\ k' = k + 1 /\ UNCHANGED <<i, stack, pc>>
     \/ i >= Middle /\ Done /\ UNCHANGED <<a, i, j, k>>

-----------------------------------------------------------------------------
(* heapsort: every call of heap_sift_down returns to the loop on stack.    *)

SiftFrom(x, caller) == pc' = "sift" /\ i' = x /\ stack' = <<[do |-> caller]>>

\* The loop of make_heap
Heapify ==
  /\ pc = "heapify"
  /\ IF j >= 0 THEN SiftFrom(j, "heapify") /\ UNCHANGED j
     ELSE pc' = "extract" /\ j' = k - 1 /\ UNCHANGED <<i, stack>>
  /\ UNCHANGED <<input, a, temp, k>>

\* The loop of heapsort
Extract ==
  /\ pc = "extract" /\ UNCHANGED <<input, temp, j>>
  /\ IF j > 0 THEN a' = Swapped(a, 0, j) /\ k' = k - 1 /\ SiftFrom(0, "extract")
     ELSE pc' = "done" /\ UNCHANGED <<a, k, i, stack>>

\* Mutant of Sift: the loop that called it does not count down.
SiftKeepsLoop ==
  /\ pc = "sift" /\ UNCHANGED <<input, temp, k, j>>
  /\ IF SiftsDown(rank, a, k, i)
     THEN LET max == Largest(rank, a, k, i)
          IN  a' = Swapped(a, i, max) /\ i' = max /\ UNCHANGED <<pc, stack>>
     ELSE pc' = Head(stack).do /\ stack' = <<>> /\ UNCHANGED <<a, i>>

\* One turn of heap_sift_down
Sift ==
  /\ pc = "sift" /\ UNCHANGED <<input, temp, k>>
  /\ LET max == Largest(rank, a, k, i)
     IN  IF SiftsDown(rank, a, k, i)
         THEN a' = Swapped(a, i, max) /\ i' = max /\ UNCHANGED <<pc, j, stack>>
         ELSE pc' = Head(stack).do /\ j' = j - 1 /\ stack' = <<>> /\ UNCHANGED <<a, i>>

Next ==
  \/ NoMemory \/ Begin \/ Finish
  \/ ShortRange \/ EnterInsertion \/ EnterPartition \/ SplitInHalves \/ EnterMerge
  \/ Insertion \/ ScanUp \/ ScanDown \/ Meet \/ MergeTurn
  \/ Heapify \/ Extract \/ Sift

Spec == Init /\ [][Next]_vars /\ WF_vars(Next)

-----------------------------------------------------------------------------
(* Properties.                                                             *)

Returned == pc \in {"done", "unsorted"}
Slots == DOMAIN rank

\* All variables keep their type, and every range lies within the array.
TypeOK ==
  /\ prog \in Programs /\ rank \in [Slots -> Ranks]
  /\ a \in [Slots -> Slots] /\ temp \in [DOMAIN temp -> Slots]
  /\ \A c \in DOMAIN stack :
       stack[c].do \in {"sort", "merge"} => 0 <= stack[c].start /\ stack[c].start <= stack[c].end
                                              /\ stack[c].end <= Length
  /\ i \in Slots \cup {0, Length, SizeMax} /\ j \in -1 .. Length /\ k \in 0 .. Length

\* No element is lost or doubled, at any step: outside of a merge the array
\* is a permutation of the input, and while two halves are merged the slots
\* between k and j are exactly as many as the workspace still holds elements
\* for (mergesort.c:21-37, quicksort.c:68, heapsort.c:23).  All variables keep
\* their type, and all ranges lie within the array.
NothingLost ==
  /\ TypeOK
  /\ IF pc = "merge"
     THEN /\ k + (Middle - i) = j
          /\ {a[x] : x \in Slots \ (k .. j - 1)} \cup {temp[x] : x \in i .. Middle - 1} = Slots
     ELSE {a[x] : x \in Slots} = Slots

InOrder(s, e) == \A x \in s .. e - 2 : ~Before(a[x + 1], a[x])

\* A call that got its workspace returns the array sorted, and mergesort
\* keeps equal elements in the order they came in; without a workspace the
\* array is as it was (quicksort.c:97-105, mergesort.c:60-68, heapsort.c:15-31).
SortedAtEnd ==
  /\ pc = "done" => /\ InOrder(0, Length)
                    /\ prog = "mergesort" =>
                         \A x, y \in Slots : x < y /\ rank[a[x]] = rank[a[y]] => a[x] < a[y]
  /\ pc = "unsorted" => \A x \in Slots : a[x] = x

\* The scans of the partition stay in their range without looking at its
\* ends, because the pivot, or an element swapped over, stops them; and where
\* they meet the claims of the comment hold (quicksort.c:51-64): (1) nothing
\* above the pivot is left of i and nothing below it right of j, and when the
\* partition ends (2) j >= i - 1 with the pivot's value at j if j = i, and
\* (3) both parts are shorter than the range.
ScansMeet ==
  /\ pc = "down" => Start <= i /\ i < End
  /\ pc = "meet" =>
       /\ {i, j} \subseteq Start .. End - 1
       /\ \A x \in Start .. i - 1 : ~Before(temp[1], a[x])
       /\ \A x \in j + 1 .. End - 1 : ~Before(a[x], temp[1])
       /\ i >= j => /\ j >= i - 1 /\ ~Before(temp[1], a[j])
                    /\ j = i => rank[a[j]] = rank[temp[1]]
                    /\ Start <= j /\ j < End - 1

\* Quicksort never has to move an element across the borders of the ranges
\* that it still has to sort: they tile the rest of the array, what is left
\* of the first is sorted, and no element left of a border is above one right
\* of it (quicksort.c:86-93).
PartsInOrder ==
  prog = "quicksort" /\ ~Returned /\ pc # "start" =>
    /\ \A c \in 1 .. Len(stack) - 1 : stack[c].end = stack[c + 1].start
    /\ stack # <<>> => stack[Len(stack)].end = Length
    /\ InOrder(0, IF stack = <<>> THEN Length ELSE Start)
    /\ \A c \in DOMAIN stack :
         \A x \in 0 .. stack[c].start - 1, y \in stack[c].start .. Length - 1 : ~Before(a[y], a[x])

\* heapsort keeps a heap in the first k slots while it builds and shrinks it,
\* but for the node that is being sifted, and behind it in order the largest
\* elements (heap.c:38-40, 60-79, heapsort.c:20-26).
HeapThenSorted ==
  prog = "heapsort" =>
    LET sifting == pc = "sift"
        making  == pc = "heapify" \/ (sifting /\ Head(stack).do = "heapify")
        first   == IF making THEN IF sifting THEN j ELSE j + 1 ELSE 0
    IN  pc \in {"heapify", "extract", "sift"} =>
          /\ HeapBelow(rank, a, k, first, IF sifting THEN i ELSE Length)
          /\ InOrder(k, Length)
          /\ \A x \in 0 .. k - 1, y \in k .. Length - 1 : ~Before(a[y], a[x])

\* Every call returns: the parts of a partition are shorter than the range,
\* whatever equals the pivot (quicksort.c:41-44), and every loop ends.
Terminates == <>Returned
=============================================================================
