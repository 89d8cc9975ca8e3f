------------------------------- MODULE Vector -------------------------------
(***************************************************************************)
(* The dynamic array of src/vector.c.                                      *)
(*                                                                         *)
(* The memory block V->data is a function from slot numbers to objects; a  *)
(* slot that holds no live object (fresh from malloc, moved out of, or     *)
(* destroyed) holds Raw.  Every allocation may fail.  The two loops that   *)
(* shift elements inside the block overlap their source and destination,   *)
(* so they run one t_move per step; the loops that fill a fresh block or   *)
(* empty a whole one have disjoint source and destination and are one      *)
(* step.  vec.fault is a ghost: it records for ever that an object was     *)
(* written over a live one (leaked), that a slot without an object was     *)
(* destroyed or moved from, or that a slot outside the block was touched.  *)
(***************************************************************************)
EXTENDS Integers, Sequences

CONSTANTS
  Elem,          \* the objects a caller may store
  Raw,           \* the contents of a slot that holds no object
  MinCapacity,   \* VECTOR_MIN_CAPACITY
  MaxCapacity,   \* malloc grants no block of more slots than this
  SizeBits,      \* the width of size_t
  SizeMax        \* SIZE_MAX

ASSUME VectorAssumption ==
  /\ Raw \notin Elem
  /\ MinCapacity \in Nat \ {0}
  /\ MaxCapacity \in Nat
  /\ MinCapacity <= MaxCapacity
  /\ SizeBits \in Nat
  /\ SizeMax \in Nat
  /\ 2 * MaxCapacity <= SizeMax

VARIABLES
  vec,   \* the vector struct: null (V->data = NULL), data, count, capacity
  pc,    \* the shifting loop in progress, or "idle"
  i, j,  \* the index argument of that call and its loop variable
  arg,   \* the element argument of vector_insert
  rc,    \* what the last completed call returned
  out    \* the object the last call moved out to its caller, or Raw

vars == <<vec, pc, i, j, arg, rc, out>>

-----------------------------------------------------------------------------
(* Operations on objects in slots.                                         *)

Live(d, x) == x \in DOMAIN d /\ d[x] # Raw
Free(d, x) == x \in DOMAIN d /\ d[x] = Raw

Put(d, x, e) == [y \in DOMAIN d \cup {x} |-> IF y = x THEN e ELSE d[y]]

\* t_copy of e into slot x
Construct(v, x, e) ==
  [v EXCEPT !.data = Put(v.data, x, e), !.fault = @ \/ ~Free(v.data, x)]

\* t_destroy of slot x, or t_move out of the vector
Vacate(v, x) ==
  [v EXCEPT !.data = Put(v.data, x, Raw), !.fault = @ \/ ~Live(v.data, x)]

\* t_move from slot x to slot y
Move(v, y, x) ==
  [v EXCEPT !.data  = Put(Put(v.data, y, IF x \in DOMAIN v.data THEN v.data[x] ELSE Raw),
                          x, Raw),
            !.fault = @ \/ ~Live(v.data, x) \/ ~Free(v.data, y)]

\* Mutant of Truncate: the elements cut off are not destroyed.
TruncateForgets(v, from) == [v EXCEPT !.count = from]

\* t_destroy of the slots from..count-1, and count = from
Truncate(v, from) ==
  [v EXCEPT !.data  = [x \in DOMAIN v.data |->
                         IF from <= x /\ x < v.count THEN Raw ELSE v.data[x]],
            !.count = from,
            !.fault = @ \/ \E x \in from .. v.count - 1 : ~Live(v.data, x)]

\* Move all elements to a new block of c slots and free the old block.
Relocate(v, c) ==
  [v EXCEPT !.data     = [x \in 0 .. c - 1 |->
                            IF x < v.count /\ x \in DOMAIN v.data
                            THEN v.data[x] ELSE Raw],
            !.capacity = c,
            !.null     = FALSE,
            !.fault    = \/ @
                         \/ v.count > c
                         \/ \E x \in 0 .. v.count - 1 : ~Live(v.data, x)
                         \/ \E x \in DOMAIN v.data : x >= v.count /\ v.data[x] # Raw]

-----------------------------------------------------------------------------
(* Capacities.                                                             *)

\* The sizes vector_reserve computes: VECTOR_MIN_CAPACITY shifted left.
Sizes == {c \in MinCapacity .. MaxCapacity : \E m \in 0 .. SizeBits - 1 : c = MinCapacity * 2^m}

\* Mutant of RoundsUp: while (c < n - 1).
RoundsUpShort(c, n) == c \in Sizes /\ n <= c + 1 /\ (c = MinCapacity \/ c < 2 * (n - 1))

\* c is where the doubling loop of vector_reserve(V, n) stops
RoundsUp(c, n) == c \in Sizes /\ n <= c /\ (c = MinCapacity \/ c < 2 * n)

\* The values the halving loop of vector_shrink_to_fit goes through
Halvings(c) == {h \in 0 .. c : \E m \in 0 .. SizeBits : h = c \div 2^m}

\* c is where the halving loop of vector_shrink_to_fit stops
RoundsDown(c, v) ==
  /\ c \in Halvings(v.capacity)
  /\ c <= 2 * v.count
  /\ \/ c = v.capacity
     \/ \E p \in Halvings(v.capacity) : p > 2 * v.count /\ c = p \div 2

Result(v, code) == [v |-> v, rc |-> code]

\* The results of vector_reserve(V, n): the elements cut off are destroyed
\* before the allocation that may fail; no block larger than MaxCapacity is granted.
Reserve(v, n) ==
  IF \E c \in Sizes : RoundsUp(c, n)
  THEN LET c == CHOOSE s \in Sizes : RoundsUp(s, n)
           w == IF c < v.count THEN Truncate(v, c) ELSE v
       IN  IF c = v.capacity THEN {Result(v, 0)}
           ELSE {Result(Relocate(w, c), 0), Result(w, -1)}
  ELSE {Result(v, -1)}

\* The results of vector_shrink_to_fit(V)
ShrinkToFit(v) ==
  IF v.count > v.capacity \div 2 \/ v.capacity <= MinCapacity
  THEN {Result(v, 0)}
  ELSE {Result(Relocate(v, c), 0) : c \in {s \in 0 .. v.capacity : RoundsDown(s, v)}}
         \cup {Result(v, -1)}

\* What vector_remove and vector_pop_back do last: contract below 25% use.
\* A failure is only logged.
Contract(v) ==
  IF v.count < v.capacity \div 4 /\ v.capacity > MinCapacity
  THEN {r.v : r \in ShrinkToFit(v)}
  ELSE {v}

\* Room for one more element: vector_set and vector_insert double when full.
Grow(v) ==
  IF v.count >= v.capacity THEN Reserve(v, 2 * v.capacity) ELSE {Result(v, 0)}

\* vector_clear: destroy everything, then reserve the initial size; the
\* result of that reserve is ignored.
Cleared(v) ==
  IF v.null THEN {v} ELSE {r.v : r \in Reserve(Truncate(v, 0), MinCapacity)}

-----------------------------------------------------------------------------
Idle == pc = "idle"

\* The call returns code, leaving the vector v and handing o to its caller.
Return(v, code, o) ==
  /\ vec' = v
  /\ rc' = code
  /\ out' = o
  /\ pc' = "idle" /\ i' = 0 /\ j' = 0 /\ arg' = Raw

\* The call goes on with the loop l over the vector v.
Enter(l, v, from, start, e) ==
  /\ vec' = v
  /\ pc' = l /\ i' = from /\ j' = start /\ arg' = e
  /\ out' = Raw

\* An empty vector with a block of c slots, or with none
Empty(isNull, c, fault) ==
  [null |-> isNull, data |-> [x \in 0 .. c - 1 |-> Raw],
   count |-> 0, capacity |-> c, fault |-> fault]

\* vector_initialize: on memory without a vector, here after vector_destroy
Initialize ==
  /\ Idle /\ vec.null
  /\ \/ Return(Empty(FALSE, MinCapacity, vec.fault), 0, Raw)
     \/ Return(vec, -1, Raw)

Destroy ==
  /\ Idle
  /\ IF vec.null THEN Return(vec, 0, Raw)
     ELSE \E v \in Cleared(vec) :
            Return(Empty(TRUE, 0, v.fault \/ \E x \in DOMAIN v.data : v.data[x] # Raw),
                   0, Raw)

Clear == Idle /\ \E v \in Cleared(vec) : Return(v, 0, Raw)

ReserveCall(n) == Idle /\ \E r \in Reserve(vec, n) : Return(r.v, r.rc, Raw)

ShrinkCall == Idle /\ \E r \in ShrinkToFit(vec) : Return(r.v, r.rc, Raw)

\* Mutant of AddLast: the new element is not counted.
AddLastUncounted(v, e) == Construct(v, v.count, e)

AddLast(v, e) == Construct([v EXCEPT !.count = @ + 1], v.count, e)

\* Mutant of Replace: 1 is returned for a replaced element too.
ReplaceReturnsOne(k, e) == Return(Construct(Vacate(vec, k), k, e), 1, Raw)

Replace(k, e) == Return(Construct(Vacate(vec, k), k, e), 0, Raw)

\* vector_set, and with k = count vector_push_back
Set(k, e) ==
  /\ Idle
  /\ \/ /\ k = vec.count
        /\ \E r \in Grow(vec) :
             IF r.rc < 0 THEN Return(r.v, -1, Raw) ELSE Return(AddLast(r.v, e), 1, Raw)
     \/ k < vec.count /\ Replace(k, e)
     \/ k > vec.count /\ Return(vec, -1, Raw)

\* vector_insert up to its loop, which starts at the last element
Insert(k, e) ==
  /\ Idle
  /\ \/ /\ k < vec.count
        /\ \E r \in Grow(vec) :
             IF r.rc < 0 THEN Return(r.v, -1, Raw)
             ELSE Enter("insert", r.v, k, r.v.count - 1, e) /\ UNCHANGED rc
     \/ k >= vec.count /\ Return(vec, -1, Raw)

\* Mutant of InsertMore: the wrap below 0 is forgotten.
InsertMoreWraps(x, k) == x >= k

\* j >= i && j != SIZE_MAX: --j wraps around below 0
InsertMore(x, k) == x >= k /\ x # SizeMax

\* Mutant of InsertShift: the loop variable stops at 0 instead of wrapping.
InsertShiftStopsAtZero ==
  /\ pc = "insert" /\ InsertMore(j, i)
  /\ vec' = Move(vec, j + 1, j)
  /\ j' = IF j = 0 THEN 0 ELSE j - 1
  /\ UNCHANGED <<pc, i, arg, rc, out>>

\* One turn of the loop
InsertShift ==
  /\ pc = "insert" /\ InsertMore(j, i)
  /\ vec' = Move(vec, j + 1, j)
  /\ j' = IF j = 0 THEN SizeMax ELSE j - 1
  /\ UNCHANGED <<pc, i, arg, rc, out>>

InsertFinish ==
  /\ pc = "insert" /\ ~InsertMore(j, i)
  /\ Return([Construct(vec, i, arg) EXCEPT !.count = @ + 1], 1, Raw)

\* vector_remove up to its loop; past the index check it always returns 1
Remove(k) ==
  /\ Idle
  /\ \/ k < vec.count /\ Enter("remove", Vacate(vec, k), k, k + 1, Raw) /\ rc' = 1
     \/ k >= vec.count /\ Return(vec, -1, Raw)

RemoveShift ==
  /\ pc = "remove" /\ j < vec.count
  /\ vec' = Move(vec, j - 1, j)
  /\ j' = j + 1
  /\ UNCHANGED <<pc, i, arg, rc, out>>

RemoveFinish ==
  /\ pc = "remove" /\ j >= vec.count
  /\ \E v \in Contract([vec EXCEPT !.count = @ - 1]) : Return(v, 1, Raw)

\* vector_pop_back: with keep the last element is moved to the caller, else
\* it is destroyed
PopBack(keep) ==
  /\ Idle
  /\ \/ vec.count = 0 /\ Return(vec, 0, Raw)
     \/ /\ vec.count > 0
        /\ \E v \in Contract([Vacate(vec, vec.count - 1) EXCEPT !.count = @ - 1]) :
             Return(v, 1, IF keep THEN vec.data[vec.count - 1] ELSE Raw)

Init ==
  /\ vec = Empty(FALSE, MinCapacity, FALSE)
  /\ pc = "idle" /\ i = 0 /\ j = 0 /\ arg = Raw
  /\ rc = 0 /\ out = Raw

Index == 0 .. MaxCapacity + 1

Next ==
  \/ Initialize \/ Destroy \/ Clear \/ ShrinkCall
  \/ \E n \in 0 .. 2 * MaxCapacity : ReserveCall(n)
  \/ \E k \in Index, e \in Elem : Set(k, e) \/ Insert(k, e)
  \/ \E k \in Index : Remove(k)
  \/ \E keep \in BOOLEAN : PopBack(keep)
  \/ InsertShift \/ InsertFinish \/ RemoveShift \/ RemoveFinish

Spec == Init /\ [][Next]_vars /\ WF_vars(InsertShift \/ InsertFinish \/ RemoveShift \/ RemoveFinish)

-----------------------------------------------------------------------------
(* Properties.                                                             *)

\* The free slot a shifting loop carries along: just right of the element
\* to move next when inserting, just left of it when removing.  SIZE_MAX is
\* the loop variable that has passed slot 0.
Hole ==
  CASE pc = "insert" -> IF j = SizeMax THEN 0 ELSE j + 1
    [] pc = "remove" -> j - 1
    [] OTHER         -> vec.count

\* The slots that must hold an object: those below count, the hole of a loop
\* excepted, and when inserting also the slot at count.
Occupied ==
  (IF pc = "insert" THEN 0 .. vec.count ELSE 0 .. vec.count - 1) \ {Hole}

\* All state is of the type the struct and the locals declare.
TypeOK ==
  /\ vec.null \in BOOLEAN /\ vec.fault \in BOOLEAN
  /\ vec.capacity \in 0 .. MaxCapacity /\ vec.count \in 0 .. MaxCapacity
  /\ DOMAIN vec = {"null", "data", "count", "capacity", "fault"}
  /\ vec.data \in [DOMAIN vec.data -> Elem \cup {Raw}]
  /\ pc \in {"idle", "insert", "remove"}
  /\ i \in 0 .. MaxCapacity /\ j \in 0 .. MaxCapacity \cup {SizeMax}
  /\ arg \in Elem \cup {Raw} /\ rc \in {-1, 0, 1} /\ out \in Elem \cup {Raw}

\* The block has exactly capacity slots (no write fell outside) and the live
\* objects are exactly the elements the vector counts: nothing leaked into a
\* slot past count, nothing missing below it, whatever grew, shrank, was cut
\* off, shifted or failed on the way (vector.c:84-295).
SlotsExact ==
  /\ DOMAIN vec.data = 0 .. vec.capacity - 1
  /\ {x \in DOMAIN vec.data : vec.data[x] # Raw} = Occupied

\* Every object is destroyed or moved out exactly once and no live one is
\* overwritten: the order of the two shifting loops, the truncation before a
\* failing malloc, and the relocations (vector.c:98-112, 220-251, 283-290).
NoLeakNoDoubleDestroy == ~vec.fault

\* A running shifting loop ends (the unsigned wrap at vector.c:222 included).
LoopsEnd == pc # "idle" ~> pc = "idle"

\* The elements in order, without the hole of a running loop.
Contents ==
  LET n == IF pc = "remove" THEN vec.count - 1 ELSE vec.count
  IN  [k \in 1 .. n |-> vec.data[IF k - 1 < Hole THEN k - 1 ELSE k]]

Abstract == INSTANCE SequenceSpec WITH seq <- Contents

\* The vector is a sequence: every call has the effect and the return code
\* its comment promises on the sequence of elements, and a call that fails
\* leaves the elements as they were (for vector_reserve: a prefix of them).
ImplementsSequence == Abstract!Spec

\* Each call does to the sequence what it promises for its own arguments, at
\* the step where its effect is complete (vector_remove: where the element is
\* destroyed), and no call that is only under way changes the sequence.
CallsKeepTheirPromises ==
  [][/\ \A k \in Index, e \in Elem :
          /\ Set(k, e) => Abstract!Set(k, e)
          /\ Insert(k, e) => Abstract!Begin \/ (rc' = -1 /\ Abstract!Insert(k, e))
     /\ \A k \in Index : Remove(k) => Abstract!Remove(k)
     /\ \A n \in 0 .. 2 * MaxCapacity : ReserveCall(n) => Abstract!Reserve(n)
     /\ InsertFinish => Abstract!Insert(i, arg) /\ rc' = 1
     /\ InsertShift \/ RemoveShift \/ RemoveFinish => UNCHANGED Contents
     /\ (\E keep \in BOOLEAN : PopBack(keep)) => Abstract!PopBack
     /\ ShrinkCall => Abstract!ShrinkToFit
     /\ Destroy \/ Clear => Abstract!Clear
    ]_vars
=============================================================================
