---------------------------- MODULE VectorProofs ----------------------------
(***************************************************************************)
(* Proofs about Vector and about PriorityQueue, which keeps its elements   *)
(* in a vector, for every element type, ranking, minimum capacity, heap    *)
(* bound and width of size_t.  The slots of a vector always hold exactly   *)
(* the elements it counts, no object is lost or destroyed twice, it        *)
(* implements SequenceSpec, and each call does to the sequence of elements *)
(* what its comment promises.  The heap of a priority queue is in order    *)
(* but for the node that is being moved, and its calls keep their promises *)
(* on the bag of elements.                                                 *)
(***************************************************************************)
EXTENDS PriorityQueue, HeapProofs, SequenceTheorems, TLAPS

Block(n) == [0 .. n - 1 -> Elem \cup {Raw}]

VecType ==
  [null : BOOLEAN, data : UNION {Block(n) : n \in 0 .. MaxCapacity},
   count : 0 .. MaxCapacity, capacity : 0 .. MaxCapacity, fault : BOOLEAN]

\* v has a block of capacity slots, of which exactly those in occ hold an
\* object, and nothing has gone wrong with any object so far.
Holds(v, occ) ==
  /\ v \in VecType
  /\ v.data \in Block(v.capacity)
  /\ v.count <= v.capacity
  /\ v.fault = FALSE
  /\ occ \subseteq 0 .. v.capacity - 1
  /\ \A x \in 0 .. v.capacity - 1 : v.data[x] # Raw <=> x \in occ

Elements(v) == 0 .. v.count - 1

\* Between calls exactly the counted slots are occupied; inside a loop the
\* hole is where the loop variable says, and that is still inside the block.
IdleInv == pc = "idle" => Holds(vec, Elements(vec))

InsertInv ==
  pc = "insert" =>
    /\ vec.count < vec.capacity
    /\ i \in 0 .. vec.count - 1 /\ arg \in Elem
    /\ \/ /\ j \in 0 .. vec.count - 1 /\ i <= j + 1
          /\ Holds(vec, 0 .. vec.count \ {j + 1})
       \/ /\ j = SizeMax /\ i = 0
          /\ Holds(vec, 1 .. vec.count)

RemoveInv ==
  pc = "remove" =>
    /\ i \in 0 .. vec.count - 1
    /\ j \in i + 1 .. vec.count
    /\ Holds(vec, Elements(vec) \ {j - 1})

Inv ==
  /\ pc \in {"idle", "insert", "remove"}
  /\ i \in 0 .. MaxCapacity /\ j \in 0 .. MaxCapacity \cup {SizeMax}
  /\ arg \in Elem \cup {Raw} /\ rc \in {-1, 0, 1} /\ out \in Elem \cup {Raw}
  /\ IdleInv /\ InsertInv /\ RemoveInv

-----------------------------------------------------------------------------
(* What the operations on slots do to the set of occupied slots.           *)

\* Copying an object into a free slot occupies it.
LEMMA ConstructHolds ==
  ASSUME NEW v, NEW occ, Holds(v, occ), NEW x \in 0 .. v.capacity - 1, x \notin occ,
         NEW e \in Elem
  PROVE  /\ Holds(Construct(v, x, e), occ \cup {x})
         /\ Construct(v, x, e).count = v.count
         /\ Construct(v, x, e).capacity = v.capacity
<1> USE VectorAssumption
<1> DEFINE w == Construct(v, x, e)
<1>1. v \in VecType /\ v.capacity \in 0 .. MaxCapacity /\ v.data \in Block(v.capacity)
  BY DEF Holds, VecType
<1>2. Put(v.data, x, e) = [y \in 0 .. v.capacity - 1 |-> IF y = x THEN e ELSE v.data[y]]
  BY <1>1 DEF Put, Block
<1>3. Put(v.data, x, e) \in Block(v.capacity)
  BY <1>1, <1>2 DEF Block
<1>4. Free(v.data, x)
  BY <1>1 DEF Holds, Free, Block
<1>5. /\ w.data = Put(v.data, x, e) /\ w.count = v.count /\ w.capacity = v.capacity
      /\ w.null = v.null /\ w.fault = FALSE
  BY <1>1, <1>4 DEF Construct, VecType, Holds
<1>6. w \in VecType
  BY <1>1, <1>3, <1>4 DEF Construct, VecType, Holds
<1> QED
  BY <1>1, <1>2, <1>3, <1>5, <1>6 DEF Holds

\* Destroying or moving out an object frees its slot.
LEMMA VacateHolds ==
  ASSUME NEW v, NEW occ, Holds(v, occ), NEW x \in occ
  PROVE  /\ Holds(Vacate(v, x), occ \ {x})
         /\ Vacate(v, x).count = v.count
         /\ Vacate(v, x).capacity = v.capacity
<1> USE VectorAssumption
<1> DEFINE w == Vacate(v, x)
<1>1. /\ v \in VecType /\ v.capacity \in 0 .. MaxCapacity /\ v.data \in Block(v.capacity)
      /\ x \in 0 .. v.capacity - 1
  BY DEF Holds, VecType
<1>2. Put(v.data, x, Raw) = [y \in 0 .. v.capacity - 1 |-> IF y = x THEN Raw ELSE v.data[y]]
  BY <1>1 DEF Put, Block
<1>3. Put(v.data, x, Raw) \in Block(v.capacity)
  BY <1>1, <1>2 DEF Block
<1>4. Live(v.data, x)
  BY <1>1 DEF Holds, Live, Block
<1>5. /\ w.data = Put(v.data, x, Raw) /\ w.count = v.count /\ w.capacity = v.capacity
      /\ w.null = v.null /\ w.fault = FALSE
  BY <1>1, <1>4 DEF Vacate, VecType, Holds
<1>6. w \in VecType
  BY <1>1, <1>3, <1>4 DEF Vacate, VecType, Holds
<1> QED
  BY <1>1, <1>2, <1>3, <1>5, <1>6 DEF Holds

\* Moving an object from an occupied to a free slot swaps the two.
LEMMA MoveHolds ==
  ASSUME NEW v, NEW occ, Holds(v, occ), NEW x \in occ,
         NEW y \in 0 .. v.capacity - 1, y \notin occ
  PROVE  /\ Holds(Move(v, y, x), (occ \ {x}) \cup {y})
         /\ Move(v, y, x).count = v.count
         /\ Move(v, y, x).capacity = v.capacity
<1> USE VectorAssumption
<1> DEFINE w == Move(v, y, x)
           d == [z \in 0 .. v.capacity - 1 |->
                   IF z = x THEN Raw ELSE IF z = y THEN v.data[x] ELSE v.data[z]]
<1>1. /\ v \in VecType /\ v.capacity \in 0 .. MaxCapacity /\ v.data \in Block(v.capacity)
      /\ x \in 0 .. v.capacity - 1 /\ x # y
  BY DEF Holds, VecType
<1>2. x \in DOMAIN v.data /\ DOMAIN v.data = 0 .. v.capacity - 1
  BY <1>1 DEF Block
<1>3. Put(Put(v.data, y, v.data[x]), x, Raw) = d
  BY <1>1, <1>2 DEF Put
<1>4. d \in Block(v.capacity)
  BY <1>1 DEF Block
<1>5. Live(v.data, x) /\ Free(v.data, y)
  BY <1>1, <1>2 DEF Holds, Live, Free
<1>6. w = [v EXCEPT !.data = d, !.fault = v.fault]
  BY <1>2, <1>3, <1>5 DEF Move, VecType, Holds
<1>7. /\ w.data = d /\ w.count = v.count /\ w.capacity = v.capacity
      /\ w.null = v.null /\ w.fault = FALSE
  BY <1>1, <1>6 DEF VecType, Holds
<1>8. w \in VecType
  BY <1>1, <1>4, <1>6 DEF VecType, Holds
<1> QED
  BY <1>1, <1>4, <1>7, <1>8 DEF Holds

\* Changing count alone keeps the slots as they are.
LEMMA CountHolds ==
  ASSUME NEW v, NEW occ, Holds(v, occ), NEW n \in 0 .. v.capacity
  PROVE  /\ Holds([v EXCEPT !.count = n], occ)
         /\ [v EXCEPT !.count = n].count = n
         /\ [v EXCEPT !.count = n].capacity = v.capacity
<1>1. n \in 0 .. MaxCapacity
  BY VectorAssumption DEF Holds, VecType
<1> QED
  BY <1>1, VectorAssumption DEF Holds, VecType

\* Cutting off the elements from index n on leaves the n before them.
LEMMA TruncateHolds ==
  ASSUME NEW v, Holds(v, Elements(v)), NEW n \in 0 .. v.count
  PROVE  /\ Holds(Truncate(v, n), Elements(Truncate(v, n)))
         /\ Truncate(v, n).count = n
         /\ Truncate(v, n).capacity = v.capacity
<1> USE VectorAssumption
<1> DEFINE w == Truncate(v, n)
           d == [x \in 0 .. v.capacity - 1 |->
                   IF n <= x /\ x < v.count THEN Raw ELSE v.data[x]]
<1>1. /\ v \in VecType /\ v.capacity \in 0 .. MaxCapacity /\ v.data \in Block(v.capacity)
      /\ DOMAIN v.data = 0 .. v.capacity - 1 /\ v.count \in 0 .. v.capacity
      /\ n \in 0 .. MaxCapacity
  BY DEF Holds, VecType, Block
<1>2. d \in Block(v.capacity)
  BY <1>1 DEF Block
<1>3. \A x \in n .. v.count - 1 : Live(v.data, x)
  BY <1>1 DEF Holds, Live, Elements
<1>4. w = [v EXCEPT !.data = d, !.count = n, !.fault = v.fault]
  BY <1>1, <1>3 DEF Truncate, Holds
<1>5. /\ w.data = d /\ w.count = n /\ w.capacity = v.capacity
      /\ w.null = v.null /\ w.fault = FALSE
  BY <1>1, <1>4 DEF VecType, Holds
<1>6. w \in VecType
  BY <1>1, <1>2, <1>4 DEF VecType, Holds
<1> QED
  BY <1>1, <1>2, <1>5, <1>6 DEF Holds, Elements

\* A new block with room for the elements takes over all of them.
LEMMA RelocateHolds ==
  ASSUME NEW v, Holds(v, Elements(v)), NEW c \in 0 .. MaxCapacity, v.count <= c
  PROVE  /\ Holds(Relocate(v, c), Elements(Relocate(v, c)))
         /\ Relocate(v, c).count = v.count
         /\ Relocate(v, c).capacity = c
<1> USE VectorAssumption
<1> DEFINE w == Relocate(v, c)
           d == [x \in 0 .. c - 1 |->
                   IF x < v.count /\ x \in DOMAIN v.data THEN v.data[x] ELSE Raw]
<1>1. /\ v \in VecType /\ v.capacity \in 0 .. MaxCapacity /\ v.data \in Block(v.capacity)
      /\ DOMAIN v.data = 0 .. v.capacity - 1 /\ v.count \in 0 .. v.capacity
  BY DEF Holds, VecType, Block
<1>2. d \in Block(c)
  BY <1>1 DEF Block
<1>3. \A x \in 0 .. v.count - 1 : Live(v.data, x)
  BY <1>1 DEF Holds, Live, Elements
<1>4. ~ \E x \in DOMAIN v.data : x >= v.count /\ v.data[x] # Raw
  BY <1>1 DEF Holds, Elements
<1>5. w = [v EXCEPT !.data = d, !.capacity = c, !.null = FALSE, !.fault = FALSE]
  <2>1. (\/ v.fault
         \/ v.count > c
         \/ \E x \in 0 .. v.count - 1 : ~Live(v.data, x)
         \/ \E x \in DOMAIN v.data : x >= v.count /\ v.data[x] # Raw) = FALSE
    BY <1>1, <1>3, <1>4 DEF Holds
  <2> QED
    BY <2>1, Zenon DEF Relocate
<1>6. /\ w.data = d /\ w.count = v.count /\ w.capacity = c
      /\ w.null = FALSE /\ w.fault = FALSE
  BY <1>1, <1>5 DEF VecType, Holds
<1>7. w \in VecType
  <2>1. d \in UNION {Block(n) : n \in 0 .. MaxCapacity}
    BY <1>2
  <2> HIDE DEF d
  <2> QED
    BY <1>1, <1>5, <2>1 DEF VecType
<1>8. \A x \in 0 .. c - 1 : d[x] # Raw <=> x \in Elements(v)
  BY <1>1, <1>3, <1>2 DEF Holds, Elements, Live
<1> QED
  BY <1>1, <1>2, <1>6, <1>7, <1>8 DEF Holds, Elements

-----------------------------------------------------------------------------
(* What the calls that change the capacity return.                         *)

\* vector_reserve never touches one of the first n elements, and when it
\* succeeds there is room for n, whatever was cut off before.
LEMMA ReserveHolds ==
  ASSUME NEW v, Holds(v, Elements(v)), NEW n \in Nat, NEW r \in Reserve(v, n)
  PROVE  /\ Holds(r.v, Elements(r.v))
         /\ r.rc \in {0, -1}
         /\ r.v.count <= v.count
         /\ n >= v.count => r.v.count = v.count
         /\ r.rc = 0 => n <= r.v.capacity /\ 1 <= r.v.capacity
<1> USE VectorAssumption
<1>1. v.count \in Nat /\ v.capacity \in Nat /\ v.count <= v.capacity
  BY DEF Holds, VecType
<1>2. CASE \E c \in Sizes : RoundsUp(c, n)
  <2> DEFINE c == CHOOSE s \in Sizes : RoundsUp(s, n)
             w == IF c < v.count THEN Truncate(v, c) ELSE v
  <2>1. c \in Sizes /\ RoundsUp(c, n)
    BY <1>2
  <2>2. c \in 1 .. MaxCapacity /\ n <= c
    BY <2>1 DEF Sizes, RoundsUp
  <2> HIDE DEF c
  <2>3. /\ Holds(w, Elements(w)) /\ w.count <= v.count /\ w.count <= c
        /\ n >= v.count => w.count = v.count
    BY <1>1, <2>2, TruncateHolds
  <2>4. CASE c = v.capacity
    <3>1. r = Result(v, 0)
      BY <1>2, <2>4 DEF Reserve, c
    <3> QED
      BY <3>1, <1>1, <2>2, <2>4 DEF Result
  <2>5. CASE c # v.capacity
    <3>1. r = Result(Relocate(w, c), 0) \/ r = Result(w, -1)
      BY <1>2, <2>5 DEF Reserve, c
    <3>2. /\ Holds(Relocate(w, c), Elements(Relocate(w, c)))
          /\ Relocate(w, c).count = w.count /\ Relocate(w, c).capacity = c
      BY <2>2, <2>3, RelocateHolds
    <3> HIDE DEF w
    <3>3. CASE r = Result(Relocate(w, c), 0)
      <4>1. r.v = Relocate(w, c) /\ r.rc = 0
        BY <3>3 DEF Result
      <4> QED
        BY <4>1, <3>2, <2>2, <2>3
    <3>4. CASE r = Result(w, -1)
      <4>1. r.v = w /\ r.rc = -1
        BY <3>4 DEF Result
      <4> QED
        BY <4>1, <2>3
    <3> QED
      BY <3>1, <3>3, <3>4
  <2> QED
    BY <2>4, <2>5
<1>3. CASE ~ \E c \in Sizes : RoundsUp(c, n)
  <2>1. r = Result(v, -1)
    BY <1>3 DEF Reserve
  <2> QED
    BY <2>1, <1>1 DEF Result
<1> QED
  BY <1>2, <1>3

\* The halving loop stops before the block gets too small for the elements.
LEMMA ShrinkHolds ==
  ASSUME NEW v, Holds(v, Elements(v)), NEW r \in ShrinkToFit(v)
  PROVE  /\ Holds(r.v, Elements(r.v)) /\ r.v.count = v.count
         /\ r.rc \in {0, -1}
<1>1. v.count \in Nat /\ v.capacity \in 0 .. MaxCapacity /\ v.count <= v.capacity
  BY DEF Holds, VecType
<1>2. CASE r = Result(v, 0) \/ r = Result(v, -1)
  BY <1>2 DEF Result
<1>3. ASSUME NEW c \in 0 .. v.capacity, RoundsDown(c, v), r = Result(Relocate(v, c), 0)
      PROVE  /\ Holds(r.v, Elements(r.v)) /\ r.v.count = v.count
             /\ r.rc \in {0, -1}
  <2>1. v.count <= c
    BY <1>1, <1>3 DEF RoundsDown, Halvings
  <2>2. c \in 0 .. MaxCapacity
    BY <1>1, VectorAssumption
  <2>3. /\ Holds(Relocate(v, c), Elements(Relocate(v, c)))
        /\ Relocate(v, c).count = v.count
    BY <2>1, <2>2, RelocateHolds
  <2>4. r.v = Relocate(v, c) /\ r.rc = 0
    BY <1>3 DEF Result
  <2> QED
    BY <2>3, <2>4
<1> QED
  BY <1>2, <1>3 DEF ShrinkToFit

\* Contracting after a removal keeps every element, whether malloc fails or not.
LEMMA ContractHolds ==
  ASSUME NEW v, Holds(v, Elements(v)), NEW w \in Contract(v)
  PROVE  Holds(w, Elements(w)) /\ w.count = v.count
BY ShrinkHolds DEF Contract

\* A successful Grow leaves room for one more element.
LEMMA GrowHolds ==
  ASSUME NEW v, Holds(v, Elements(v)), NEW r \in Grow(v)
  PROVE  /\ Holds(r.v, Elements(r.v)) /\ r.v.count = v.count
         /\ r.rc \in {0, -1}
         /\ r.rc = 0 => v.count < r.v.capacity
<1>1. v.count \in Nat /\ v.capacity \in Nat /\ v.count <= v.capacity
  BY DEF Holds, VecType
<1>2. CASE v.count >= v.capacity
  <2>1. r \in Reserve(v, 2 * v.capacity)
    BY <1>2 DEF Grow
  <2>2. 2 * v.capacity \in Nat /\ 2 * v.capacity >= v.count
    BY <1>1
  <2>3. /\ Holds(r.v, Elements(r.v)) /\ r.rc \in {0, -1}
        /\ r.v.count = v.count
        /\ r.rc = 0 => 2 * v.capacity <= r.v.capacity /\ 1 <= r.v.capacity
    BY <2>1, <2>2, ReserveHolds
  <2>4. r.v.capacity \in Nat
    BY <2>3 DEF Holds, VecType
  <2> QED
    BY <1>1, <1>2, <2>3, <2>4
<1>3. CASE ~ (v.count >= v.capacity)
  <2>1. r = Result(v, 0)
    BY <1>3 DEF Grow
  <2> QED
    BY <2>1, <1>1, <1>3 DEF Result
<1> QED
  BY <1>2, <1>3

\* vector_clear leaves an exact empty block even if its reserve fails.
LEMMA ClearedHolds ==
  ASSUME NEW v, Holds(v, Elements(v)), NEW w \in Cleared(v)
  PROVE  Holds(w, Elements(w)) /\ (~v.null => w.count = 0)
<1>1. CASE v.null
  BY <1>1 DEF Cleared
<1>2. CASE ~v.null
  <2>1. PICK r \in Reserve(Truncate(v, 0), MinCapacity) : w = r.v
    BY <1>2 DEF Cleared
  <2>2. 0 \in 0 .. v.count
    BY DEF Holds, VecType
  <2>3. Holds(Truncate(v, 0), Elements(Truncate(v, 0))) /\ Truncate(v, 0).count = 0
    BY <2>2, TruncateHolds
  <2>4. Holds(r.v, Elements(r.v)) /\ r.v.count <= 0
    BY <2>1, <2>3, ReserveHolds, VectorAssumption
  <2> QED
    BY <2>1, <2>4 DEF Holds, VecType
<1> QED
  BY <1>1, <1>2

-----------------------------------------------------------------------------
(* The inductive invariant.                                                *)

\* What Return leaves is idle, with the vector it was given.
LEMMA ReturnInv ==
  ASSUME NEW v, Holds(v, Elements(v)), NEW code \in {-1, 0, 1}, NEW o \in Elem \cup {Raw},
         Return(v, code, o)
  PROVE  Inv'
<1> USE VectorAssumption DEF Return
<1>1. Holds(vec', Elements(vec'))
  OBVIOUS
<1>2. IdleInv' /\ InsertInv' /\ RemoveInv'
  BY <1>1, Zenon DEF IdleInv, InsertInv, RemoveInv, Holds, VecType, Block, Elements
<1> QED
  BY <1>2 DEF Inv

\* An empty vector, initialized or destroyed, holds nothing.
LEMMA EmptyHolds ==
  ASSUME NEW isNull \in BOOLEAN, NEW c \in 0 .. MaxCapacity
  PROVE  Holds(Empty(isNull, c, FALSE), Elements(Empty(isNull, c, FALSE)))
<1> USE VectorAssumption
<1>1. Empty(isNull, c, FALSE).data \in Block(c)
  BY DEF Empty, Block
<1>2. Elements(Empty(isNull, c, FALSE)) = {}
  BY DEF Elements, Empty
<1>3. Holds(Empty(isNull, c, FALSE), {})
  BY <1>1 DEF Holds, VecType, Empty
<1> QED
  BY <1>2, <1>3

\* A fresh vector satisfies the invariant.
LEMMA InitInv == Init => Inv
<1> SUFFICES ASSUME Init PROVE Inv
  OBVIOUS
<1> USE VectorAssumption DEF Init
<1>1. MinCapacity \in 0 .. MaxCapacity
  OBVIOUS
<1>2. Holds(vec, Elements(vec))
  BY <1>1, EmptyHolds
<1>3. IdleInv /\ InsertInv /\ RemoveInv
  BY <1>2 DEF IdleInv, InsertInv, RemoveInv
<1> QED
  BY <1>3 DEF Inv

\* Every call between loops returns or enters a loop with the invariant.
LEMMA CallInv ==
  ASSUME Inv, Idle,
         \/ Initialize \/ Destroy \/ Clear \/ ShrinkCall
         \/ \E n \in 0 .. 2 * MaxCapacity : ReserveCall(n)
         \/ \E keep \in BOOLEAN : PopBack(keep)
  PROVE  Inv'
<1> USE VectorAssumption
<1>1. /\ Holds(vec, Elements(vec)) /\ vec \in VecType
      /\ vec.count \in Nat /\ vec.capacity \in Nat /\ vec.count <= vec.capacity
  BY DEF Inv, IdleInv, Idle, Holds, VecType
<1>2. CASE Initialize
  <2>1. CASE Return(vec, -1, Raw)
    BY <1>1, <2>1, ReturnInv
  <2>2. CASE Return(Empty(FALSE, MinCapacity, vec.fault), 0, Raw)
    <3>1. vec.fault = FALSE
      BY <1>1 DEF Holds
    <3>2. MinCapacity \in 0 .. MaxCapacity
      OBVIOUS
    <3> QED
      BY <2>2, <3>1, <3>2, EmptyHolds, ReturnInv
  <2> QED
    BY <1>2, <2>1, <2>2 DEF Initialize
<1>3. CASE Destroy
  <2>1. CASE vec.null
    BY <1>1, <1>3, <2>1, ReturnInv DEF Destroy
  <2>2. CASE ~vec.null
    <3> DEFINE f(v) == v.fault \/ \E x \in DOMAIN v.data : v.data[x] # Raw
    <3>1. PICK v \in Cleared(vec) : Return(Empty(TRUE, 0, f(v)), 0, Raw)
      BY <1>3, <2>2 DEF Destroy
    <3>2. Holds(v, Elements(v)) /\ v.count = 0
      BY <1>1, <2>2, <3>1, ClearedHolds
    <3>3. f(v) = FALSE
      BY <3>2 DEF Holds, VecType, Block, Elements
    <3>4. 0 \in 0 .. MaxCapacity
      OBVIOUS
    <3> HIDE DEF f
    <3> QED
      BY <3>1, <3>3, <3>4, EmptyHolds, ReturnInv
  <2> QED
    BY <2>1, <2>2
<1>4. CASE Clear
  BY <1>1, <1>4, ClearedHolds, ReturnInv DEF Clear
<1>5. CASE ShrinkCall
  BY <1>1, <1>5, ShrinkHolds, ReturnInv DEF ShrinkCall
<1>6. ASSUME NEW n \in 0 .. 2 * MaxCapacity, ReserveCall(n)
      PROVE  Inv'
  <2>1. n \in Nat
    OBVIOUS
  <2> QED
    BY <1>1, <1>6, <2>1, ReserveHolds, ReturnInv DEF ReserveCall
<1>7. ASSUME NEW keep \in BOOLEAN, PopBack(keep)
      PROVE  Inv'
  <2>1. CASE vec.count = 0
    BY <1>1, <1>7, <2>1, ReturnInv DEF PopBack
  <2>2. CASE vec.count > 0
    <3> DEFINE x == vec.count - 1
               w == [Vacate(vec, x) EXCEPT !.count = @ - 1]
               o == IF keep THEN vec.data[x] ELSE Raw
    <3>1. PICK v \in Contract(w) : Return(v, 1, o)
      BY <1>1, <1>7, <2>2 DEF PopBack
    <3>2. x \in Elements(vec) /\ x \in 0 .. vec.capacity
      BY <1>1, <2>2 DEF Elements
    <3>3. /\ Holds(Vacate(vec, x), Elements(vec) \ {x})
          /\ Vacate(vec, x).count = vec.count /\ Vacate(vec, x).capacity = vec.capacity
      BY <1>1, <3>2, VacateHolds
    <3>4. Holds(w, Elements(vec) \ {x}) /\ w.count = x
      BY <3>2, <3>3, CountHolds
    <3>5. Elements(w) = Elements(vec) \ {x}
      BY SMTT(30), <1>1, <2>2, <3>4 DEF Elements
    <3>6. Holds(v, Elements(v))
      BY <3>1, <3>4, <3>5, ContractHolds
    <3>7. o \in Elem \cup {Raw}
      BY <1>1, <3>2 DEF Holds, Block, Elements
    <3> QED
      BY <3>1, <3>6, <3>7, ReturnInv
  <2> QED
    BY <1>1, <2>1, <2>2
<1> QED
  BY <1>2, <1>3, <1>4, <1>5, <1>6, <1>7

\* vector_set replaces an element or adds one to the block Grow made room in.
LEMMA SetInv ==
  ASSUME Inv, NEW k \in Index, NEW e \in Elem, Set(k, e)
  PROVE  Inv'
<1> USE VectorAssumption
<1>1. /\ Holds(vec, Elements(vec)) /\ vec.count \in Nat /\ vec.capacity \in Nat
      /\ vec.count <= vec.capacity /\ k \in Nat
  BY DEF Inv, IdleInv, Idle, Set, Holds, VecType, Index
<1>2. CASE k = vec.count
  <2>1. PICK r \in Grow(vec) :
          IF r.rc < 0 THEN Return(r.v, -1, Raw) ELSE Return(AddLast(r.v, e), 1, Raw)
    BY <1>1, <1>2 DEF Set
  <2>2. /\ Holds(r.v, Elements(r.v)) /\ r.v.count = vec.count /\ r.rc \in {0, -1}
        /\ r.rc = 0 => vec.count < r.v.capacity
    BY <1>1, GrowHolds
  <2>3. CASE r.rc = -1
    BY <2>1, <2>2, <2>3, ReturnInv
  <2>4. CASE r.rc = 0
    <3> DEFINE u == [r.v EXCEPT !.count = @ + 1]
               w == Construct(u, k, e)
    <3>1. /\ r.v.capacity \in Nat /\ k + 1 \in 0 .. r.v.capacity
          /\ k \in 0 .. r.v.capacity - 1 /\ k \notin Elements(r.v)
      BY <1>1, <1>2, <2>2, <2>4 DEF Holds, VecType, Elements
    <3>2. u = [r.v EXCEPT !.count = k + 1]
      BY <1>2, <2>2
    <3>3. Holds(u, Elements(r.v)) /\ u.count = k + 1 /\ u.capacity = r.v.capacity
      BY ZenonT(30), <2>2, <3>1, <3>2, CountHolds
    <3> HIDE DEF u
    <3>4. Holds(w, Elements(r.v) \cup {k}) /\ w.count = k + 1
      <4>1. k \in 0 .. u.capacity - 1 /\ k \notin Elements(r.v)
        BY <3>1, <3>3
      <4> QED
        BY <3>3, <4>1, ConstructHolds, Zenon
    <3>5. Elements(w) = Elements(r.v) \cup {k}
      BY <1>1, <1>2, <2>2, <3>4 DEF Elements
    <3>6. Return(w, 1, Raw)
      BY <1>2, <2>1, <2>2, <2>4 DEF u, AddLast
    <3> QED
      BY <3>4, <3>5, <3>6, ReturnInv
  <2> QED
    BY <2>2, <2>3, <2>4
<1>3. CASE k < vec.count
  <2> DEFINE u == Vacate(vec, k)
             w == Construct(u, k, e)
  <2>1. k \in Elements(vec) /\ k \in 0 .. vec.capacity - 1
    BY <1>1, <1>3 DEF Elements
  <2>2. /\ Holds(u, Elements(vec) \ {k}) /\ u.count = vec.count
        /\ u.capacity = vec.capacity
    BY <1>1, <2>1, VacateHolds
  <2> HIDE DEF u
  <2>3. Holds(w, (Elements(vec) \ {k}) \cup {k}) /\ w.count = vec.count
    <3>1. k \in 0 .. u.capacity - 1 /\ k \notin Elements(vec) \ {k}
      BY <2>1, <2>2
    <3> QED
      BY <2>2, <3>1, ConstructHolds, Zenon
  <2>4. Elements(w) = (Elements(vec) \ {k}) \cup {k}
    BY <2>1, <2>3 DEF Elements
  <2>5. Return(w, 0, Raw)
    BY <1>1, <1>3 DEF Set, Replace, u
  <2> QED
    BY <2>3, <2>4, <2>5, ReturnInv
<1>4. CASE k > vec.count
  <2>1. Return(vec, -1, Raw)
    BY <1>1, <1>4 DEF Set
  <2> QED
    BY <1>1, <2>1, ReturnInv
<1> QED
  BY <1>1, <1>2, <1>3, <1>4

\* vector_insert enters its loop with a hole right of the last element.
LEMMA InsertStartInv ==
  ASSUME Inv, NEW k \in Index, NEW e \in Elem, Insert(k, e)
  PROVE  Inv'
<1> USE VectorAssumption
<1>1. /\ Holds(vec, Elements(vec)) /\ vec.count \in Nat /\ vec.capacity \in Nat
      /\ k \in Nat /\ rc \in {-1, 0, 1}
  BY DEF Inv, IdleInv, Idle, Insert, Holds, VecType, Index
<1>2. CASE k >= vec.count
  <2>1. Return(vec, -1, Raw)
    BY <1>1, <1>2 DEF Insert
  <2> QED
    BY <1>1, <2>1, ReturnInv
<1>3. CASE k < vec.count
  <2>1. PICK r \in Grow(vec) :
          IF r.rc < 0 THEN Return(r.v, -1, Raw)
          ELSE Enter("insert", r.v, k, r.v.count - 1, e) /\ UNCHANGED rc
    BY <1>1, <1>3 DEF Insert
  <2>2. /\ Holds(r.v, Elements(r.v)) /\ r.v.count = vec.count /\ r.rc \in {0, -1}
        /\ r.rc = 0 => vec.count < r.v.capacity
    BY <1>1, GrowHolds
  <2>3. CASE r.rc = -1
    BY <2>1, <2>2, <2>3, ReturnInv
  <2>4. CASE r.rc = 0
    <3>1. /\ vec' = r.v /\ pc' = "insert" /\ i' = k /\ j' = vec.count - 1 /\ arg' = e
          /\ out' = Raw /\ rc' = rc
      BY <2>1, <2>2, <2>4 DEF Enter
    <3>2. r.v.capacity \in 0 .. MaxCapacity
      BY <2>2 DEF Holds, VecType
    <3>3. Elements(r.v) = 0 .. r.v.count \ {r.v.count - 1 + 1}
      BY <1>1, <2>2 DEF Elements
    <3>4. Holds(vec', 0 .. vec'.count \ {j' + 1})
      BY <2>2, <3>1, <3>3
    <3>5. InsertInv'
      BY <1>1, <1>3, <2>2, <2>4, <3>1, <3>2, <3>4 DEF InsertInv
    <3> QED
      BY <1>1, <1>3, <2>2, <2>4, <3>1, <3>2, <3>5 DEF Inv, IdleInv, RemoveInv
  <2> QED
    BY <2>2, <2>3, <2>4
<1> QED
  BY <1>1, <1>2, <1>3

\* One move to the right: the hole moves left, past slot 0 at the latest.
LEMMA InsertShiftInv == Inv /\ InsertShift => Inv'
<1> SUFFICES ASSUME Inv, InsertShift PROVE Inv'
  OBVIOUS
<1> USE VectorAssumption
<1>1. pc = "insert" /\ i <= j /\ j # SizeMax
  BY DEF InsertShift, InsertMore
<1>2. /\ vec.count < vec.capacity /\ i \in 0 .. vec.count - 1 /\ arg \in Elem
      /\ j \in 0 .. vec.count - 1 /\ Holds(vec, 0 .. vec.count \ {j + 1})
  BY <1>1 DEF Inv, InsertInv
<1>3. vec.count \in 0 .. MaxCapacity /\ vec.capacity \in 0 .. MaxCapacity
  BY <1>2 DEF Holds, VecType
<1> DEFINE w == Move(vec, j + 1, j)
           occ == 0 .. vec.count \ {j + 1}
<1>4. /\ Holds(w, (occ \ {j}) \cup {j + 1})
      /\ w.count = vec.count /\ w.capacity = vec.capacity
  <2>1. j \in occ /\ j + 1 \in 0 .. vec.capacity - 1 /\ j + 1 \notin occ
    BY <1>2, <1>3
  <2> HIDE DEF occ
  <2> QED
    BY <1>2, <2>1, MoveHolds, Zenon DEF occ
<1>5. (occ \ {j}) \cup {j + 1} = 0 .. vec.count \ {j}
  BY <1>2, <1>3
<1>6. /\ vec' = w /\ j' = (IF j = 0 THEN SizeMax ELSE j - 1)
      /\ pc' = pc /\ i' = i /\ arg' = arg /\ rc' = rc /\ out' = out
  BY DEF InsertShift
<1>7. Holds(vec', 0 .. vec'.count \ {j})
  BY <1>4, <1>5, <1>6
<1>8. CASE j = 0
  <2>1. j' = SizeMax /\ i' = 0 /\ 0 .. vec'.count \ {j} = 1 .. vec'.count
    BY <1>1, <1>2, <1>3, <1>4, <1>6, <1>8
  <2>2. Holds(vec', 1 .. vec'.count)
    BY <1>7, <2>1
  <2>3. InsertInv'
    BY <1>2, <1>4, <1>6, <2>1, <2>2 DEF InsertInv
  <2> QED
    BY <1>1, <1>6, <2>1, <2>3 DEF Inv, IdleInv, RemoveInv
<1>9. CASE j # 0
  <2>1. j' = j - 1 /\ j' \in 0 .. vec'.count - 1 /\ j' + 1 = j /\ i' <= j' + 1
    BY <1>1, <1>2, <1>3, <1>4, <1>6, <1>9
  <2>2. Holds(vec', 0 .. vec'.count \ {j' + 1})
    BY <1>7, <2>1
  <2>3. InsertInv'
    BY <1>2, <1>4, <1>6, <2>1, <2>2 DEF InsertInv
  <2>4. j' \in 0 .. MaxCapacity
    BY <1>3, <1>4, <1>6, <2>1
  <2> QED
    BY <1>1, <1>6, <2>3, <2>4 DEF Inv, IdleInv, RemoveInv
<1> QED
  BY <1>8, <1>9

\* When the loop has stopped the hole is at i, and the new element fills it.
LEMMA InsertFinishInv == Inv /\ InsertFinish => Inv'
<1> SUFFICES ASSUME Inv, InsertFinish PROVE Inv'
  OBVIOUS
<1> USE VectorAssumption
<1>1. pc = "insert" /\ ~(j >= i /\ j # SizeMax)
  BY DEF InsertFinish, InsertMore
<1>2. /\ vec.count < vec.capacity /\ i \in 0 .. vec.count - 1 /\ arg \in Elem
      /\ Holds(vec, 0 .. vec.count \ {i})
  <2>1. CASE j \in 0 .. vec.count - 1 /\ i <= j + 1 /\ Holds(vec, 0 .. vec.count \ {j + 1})
    <3>1. vec.count \in 0 .. MaxCapacity
      BY <2>1 DEF Holds, VecType
    <3>2. j # SizeMax
      BY <2>1, <3>1
    <3>3. i \in 0 .. vec.count - 1
      BY <1>1 DEF Inv, InsertInv
    <3>4. i = j + 1
      BY <1>1, <2>1, <3>1, <3>2, <3>3
    <3> QED
      BY <1>1, <2>1, <3>4 DEF Inv, InsertInv
  <2>2. CASE j = SizeMax /\ i = 0 /\ Holds(vec, 1 .. vec.count)
    <3>1. vec.count \in 0 .. MaxCapacity
      BY <2>2 DEF Holds, VecType
    <3>2. 1 .. vec.count = 0 .. vec.count \ {i}
      BY <2>2, <3>1
    <3> QED
      BY <1>1, <2>2, <3>2 DEF Inv, InsertInv
  <2> QED
    BY <1>1, <2>1, <2>2 DEF Inv, InsertInv
<1>3. vec.count \in 0 .. MaxCapacity /\ vec.capacity \in 0 .. MaxCapacity
  BY <1>2 DEF Holds, VecType
<1> DEFINE occ == 0 .. vec.count \ {i}
           u == Construct(vec, i, arg)
           w == [u EXCEPT !.count = vec.count + 1]
<1>4. Holds(u, occ \cup {i}) /\ u.count = vec.count /\ u.capacity = vec.capacity
  <2>1. i \in 0 .. vec.capacity - 1 /\ i \notin occ
    BY <1>2, <1>3
  <2> HIDE DEF occ
  <2> QED
    BY <1>2, <2>1, ConstructHolds, Zenon DEF occ
<1> HIDE DEF u
<1>5. Holds(w, occ \cup {i}) /\ w.count = vec.count + 1
  <2>1. vec.count + 1 \in 0 .. u.capacity
    BY <1>2, <1>3, <1>4
  <2> QED
    BY <1>4, <2>1, CountHolds, Zenon
<1>6. Elements(w) = occ \cup {i}
  BY <1>2, <1>3, <1>5 DEF Elements
<1>7. Return(w, 1, Raw)
  BY <1>4 DEF InsertFinish, u
<1> QED
  BY <1>5, <1>6, <1>7, ReturnInv

\* vector_remove enters its loop with a hole at k, left of the loop variable.
LEMMA RemoveStartInv ==
  ASSUME Inv, NEW k \in Index, Remove(k)
  PROVE  Inv'
<1> USE VectorAssumption
<1>1. /\ Holds(vec, Elements(vec)) /\ vec.count \in 0 .. MaxCapacity
      /\ vec.capacity \in Nat /\ vec.count <= vec.capacity /\ k \in Nat
  BY DEF Inv, IdleInv, Idle, Remove, Holds, VecType, Index
<1>2. CASE k >= vec.count
  <2>1. Return(vec, -1, Raw)
    BY <1>1, <1>2 DEF Remove
  <2> QED
    BY <1>1, <2>1, ReturnInv
<1>3. CASE k < vec.count
  <2> DEFINE w == Vacate(vec, k)
  <2>1. k \in Elements(vec)
    BY <1>1, <1>3 DEF Elements
  <2>2. Holds(w, Elements(vec) \ {k}) /\ w.count = vec.count
    BY <1>1, <2>1, VacateHolds
  <2>3. /\ vec' = w /\ pc' = "remove" /\ i' = k /\ j' = k + 1 /\ arg' = Raw
        /\ out' = Raw /\ rc' = 1
    BY <1>1, <1>3 DEF Remove, Enter
  <2>4. RemoveInv'
    <3>1. i' \in 0 .. vec'.count - 1 /\ j' \in i' + 1 .. vec'.count
      BY <1>1, <1>3, <2>2, <2>3
    <3>2. Holds(vec', Elements(vec') \ {j' - 1})
      <4>1. Elements(vec') \ {j' - 1} = Elements(vec) \ {k}
        BY <1>1, <2>2, <2>3 DEF Elements
      <4> QED
        BY <2>2, <2>3, <4>1
    <3> QED
      BY <3>1, <3>2 DEF RemoveInv
  <2>5. i' \in 0 .. MaxCapacity /\ j' \in 0 .. MaxCapacity
    BY <1>1, <1>3, <2>3
  <2> QED
    BY <2>3, <2>4, <2>5 DEF Inv, IdleInv, InsertInv
<1> QED
  BY <1>1, <1>2, <1>3

\* One move to the left: the hole moves right.
LEMMA RemoveShiftInv == Inv /\ RemoveShift => Inv'
<1> SUFFICES ASSUME Inv, RemoveShift PROVE Inv'
  OBVIOUS
<1> USE VectorAssumption
<1>1. /\ pc = "remove" /\ j < vec.count /\ i \in 0 .. vec.count - 1
      /\ j \in i + 1 .. vec.count /\ Holds(vec, Elements(vec) \ {j - 1})
  BY DEF Inv, RemoveInv, RemoveShift
<1>2. /\ vec.count \in 0 .. MaxCapacity /\ vec.capacity \in 0 .. MaxCapacity
      /\ vec.count <= vec.capacity
  BY <1>1 DEF Holds, VecType
<1> DEFINE w == Move(vec, j - 1, j)
           occ == Elements(vec) \ {j - 1}
<1>3. Holds(w, (occ \ {j}) \cup {j - 1}) /\ w.count = vec.count
  <2>1. j \in occ /\ j - 1 \in 0 .. vec.capacity - 1 /\ j - 1 \notin occ
    BY <1>1, <1>2 DEF Elements
  <2> HIDE DEF occ
  <2> QED
    BY <1>1, <2>1, MoveHolds, Zenon DEF occ
<1>4. (occ \ {j}) \cup {j - 1} = Elements(w) \ {(j + 1) - 1}
  BY <1>1, <1>2, <1>3 DEF Elements
<1>5. /\ vec' = w /\ j' = j + 1
      /\ pc' = pc /\ i' = i /\ arg' = arg /\ rc' = rc /\ out' = out
  BY DEF RemoveShift
<1>6. Holds(vec', Elements(vec') \ {j' - 1})
  BY <1>3, <1>4, <1>5
<1>7. /\ i' \in 0 .. vec'.count - 1 /\ j' \in i' + 1 .. vec'.count
      /\ j' \in 0 .. MaxCapacity
  BY <1>1, <1>2, <1>3, <1>5
<1>8. RemoveInv'
  BY <1>6, <1>7 DEF RemoveInv
<1> QED
  BY <1>1, <1>5, <1>7, <1>8 DEF Inv, IdleInv, InsertInv

\* When the loop has stopped the hole is the last slot, and count drops it.
LEMMA RemoveFinishInv == Inv /\ RemoveFinish => Inv'
<1> SUFFICES ASSUME Inv, RemoveFinish PROVE Inv'
  OBVIOUS
<1> USE VectorAssumption
<1>1. /\ j >= vec.count /\ i \in 0 .. vec.count - 1
      /\ j \in i + 1 .. vec.count /\ Holds(vec, Elements(vec) \ {j - 1})
  BY DEF Inv, RemoveInv, RemoveFinish
<1>2. /\ vec.count \in 1 .. MaxCapacity /\ vec.capacity \in 0 .. MaxCapacity
      /\ vec.count <= vec.capacity
  BY <1>1 DEF Holds, VecType
<1> DEFINE u == [vec EXCEPT !.count = vec.count - 1]
<1>3. Holds(u, Elements(vec) \ {j - 1}) /\ u.count = vec.count - 1
  <2>1. vec.count - 1 \in 0 .. vec.capacity
    BY <1>2
  <2> QED
    BY <1>1, <2>1, CountHolds, Zenon
<1>4. Elements(u) = Elements(vec) \ {j - 1}
  BY <1>1, <1>2, <1>3 DEF Elements
<1>5. PICK v \in Contract(u) : Return(v, 1, Raw)
  BY DEF RemoveFinish
<1> HIDE DEF u
<1>6. Holds(v, Elements(v))
  BY <1>3, <1>4, <1>5, ContractHolds
<1> QED
  BY <1>5, <1>6, ReturnInv

\* Every step of every call keeps the invariant.
LEMMA NextInv == Inv /\ [Next]_vars => Inv'
<1> SUFFICES ASSUME Inv, [Next]_vars PROVE Inv'
  OBVIOUS
<1>1. CASE Initialize \/ Destroy \/ Clear \/ ShrinkCall
           \/ (\E n \in 0 .. 2 * MaxCapacity : ReserveCall(n))
           \/ (\E keep \in BOOLEAN : PopBack(keep))
  <2>1. Idle
    BY <1>1 DEF Initialize, Destroy, Clear, ShrinkCall, ReserveCall, PopBack
  <2> QED
    BY <1>1, <2>1, CallInv
<1>2. ASSUME NEW k \in Index, NEW e \in Elem, Set(k, e) \/ Insert(k, e)
      PROVE  Inv'
  BY <1>2, SetInv, InsertStartInv
<1>3. ASSUME NEW k \in Index, Remove(k)
      PROVE  Inv'
  BY <1>3, RemoveStartInv
<1>4. CASE InsertShift \/ InsertFinish
  BY <1>4, InsertShiftInv, InsertFinishInv
<1>5. CASE RemoveShift \/ RemoveFinish
  BY <1>5, RemoveShiftInv, RemoveFinishInv
<1>6. CASE UNCHANGED vars
  BY <1>6 DEF vars, Inv, IdleInv, InsertInv, RemoveInv
<1> QED
  BY <1>1, <1>2, <1>3, <1>4, <1>5, <1>6 DEF Next

\* The invariant holds in every reachable state: the slots are exact around
\* the hole of the running loop (vector.c:172-265).
THEOREM InductiveInvariant == Spec => []Inv
BY InitInv, NextInv, PTL DEF Spec

-----------------------------------------------------------------------------
(* What follows from it.                                                   *)

\* Inv puts the hole where the properties look for it.
LEMMA InvHolds == Inv => Holds(vec, Occupied)
<1> SUFFICES ASSUME Inv PROVE Holds(vec, Occupied)
  OBVIOUS
<1> USE VectorAssumption
<1>1. CASE pc = "idle"
  <2>1. Holds(vec, Elements(vec))
    BY <1>1 DEF Inv, IdleInv
  <2>2. Occupied = Elements(vec)
    <3>1. vec.count \in Nat
      BY <2>1 DEF Holds, VecType
    <3> QED
      BY <1>1, <3>1 DEF Occupied, Hole, Elements
  <2> QED
    BY <2>1, <2>2
<1>2. CASE pc = "insert"
  <2>1. CASE j \in 0 .. vec.count - 1 /\ Holds(vec, 0 .. vec.count \ {j + 1})
    <3>1. vec.count \in 0 .. MaxCapacity
      BY <2>1 DEF Holds, VecType
    <3>2. Occupied = 0 .. vec.count \ {j + 1}
      BY <1>2, <2>1, <3>1 DEF Occupied, Hole
    <3> QED
      BY <2>1, <3>2
  <2>2. CASE j = SizeMax /\ Holds(vec, 1 .. vec.count)
    <3>1. vec.count \in 0 .. MaxCapacity
      BY <2>2 DEF Holds, VecType
    <3>2. Occupied = 1 .. vec.count
      BY <1>2, <2>2, <3>1 DEF Occupied, Hole
    <3> QED
      BY <2>2, <3>2
  <2> QED
    BY <1>2, <2>1, <2>2 DEF Inv, InsertInv
<1>3. CASE pc = "remove"
  <2>1. Holds(vec, Elements(vec) \ {j - 1})
    BY <1>3 DEF Inv, RemoveInv
  <2>2. Occupied = Elements(vec) \ {j - 1}
    BY <1>3 DEF Occupied, Hole, Elements
  <2> QED
    BY <2>1, <2>2
<1> QED
  BY <1>1, <1>2, <1>3 DEF Inv

\* The struct and the locals keep their types (vector.h:20-25).
THEOREM TypeCorrect == Spec => []TypeOK
<1>1. Inv => TypeOK
  <2> SUFFICES ASSUME Inv PROVE TypeOK
    OBVIOUS
  <2>1. vec \in VecType /\ vec.data \in Block(vec.capacity)
    BY InvHolds DEF Holds
  <2>2. vec.data \in [DOMAIN vec.data -> Elem \cup {Raw}]
    BY <2>1 DEF Block
  <2> QED
    BY <2>1, <2>2 DEF Inv, TypeOK, VecType
<1> QED
  BY <1>1, InductiveInvariant, PTL

\* For every bound: the block has capacity slots and holds exactly the
\* counted elements, between the calls and at every step of the two loops.
THEOREM SlotsAlwaysExact == Spec => []SlotsExact
<1>1. Inv => SlotsExact
  <2> SUFFICES ASSUME Inv PROVE SlotsExact
    OBVIOUS
  <2>1. Holds(vec, Occupied)
    BY InvHolds
  <2>2. DOMAIN vec.data = 0 .. vec.capacity - 1
    BY <2>1 DEF Holds, Block
  <2> QED
    BY <2>1, <2>2, Zenon DEF Holds, SlotsExact
<1> QED
  BY <1>1, InductiveInvariant, PTL

\* For every bound: no object is leaked, overwritten alive, destroyed twice
\* or moved out of a slot that does not hold one.
THEOREM NoObjectLost == Spec => []NoLeakNoDoubleDestroy
<1>1. Inv => NoLeakNoDoubleDestroy
  BY InvHolds DEF Holds, NoLeakNoDoubleDestroy
<1> QED
  BY <1>1, InductiveInvariant, PTL

-----------------------------------------------------------------------------
(* What the operations on whole blocks do with the elements.               *)

\* The elements of w are the first elements of v, and w has a block if it is
\* not v's.
Keeps(v, w) ==
  /\ \A x \in 0 .. w.count - 1 : w.data[x] = v.data[x]
  /\ w.null => v.null /\ w.capacity = v.capacity

\* Cutting off the elements from index n on keeps those before it.
LEMMA TruncateKeeps ==
  ASSUME NEW v, Holds(v, Elements(v)), NEW n \in 0 .. v.count
  PROVE  Keeps(v, Truncate(v, n))
<1>1. /\ DOMAIN v.data = 0 .. v.capacity - 1 /\ v.count \in 0 .. v.capacity
      /\ v.capacity \in Nat
      /\ DOMAIN v = {"null", "data", "count", "capacity", "fault"}
  BY VectorAssumption DEF Holds, VecType, Block
<1>2. /\ Truncate(v, n).count = n /\ Truncate(v, n).capacity = v.capacity
      /\ Truncate(v, n).null = v.null
      /\ Truncate(v, n).data = [x \in 0 .. v.capacity - 1 |->
                                  IF n <= x /\ x < v.count THEN Raw ELSE v.data[x]]
  BY <1>1 DEF Truncate
<1> QED
  BY <1>1, <1>2 DEF Keeps

\* Moving to a large enough block keeps all elements.
LEMMA RelocateKeeps ==
  ASSUME NEW v, Holds(v, Elements(v)), NEW c \in 0 .. MaxCapacity, v.count <= c
  PROVE  Keeps(v, Relocate(v, c))
<1>1. /\ DOMAIN v.data = 0 .. v.capacity - 1 /\ v.count \in 0 .. v.capacity
      /\ v.capacity \in Nat
      /\ DOMAIN v = {"null", "data", "count", "capacity", "fault"}
  BY VectorAssumption DEF Holds, VecType, Block
<1>2. /\ Relocate(v, c).count = v.count /\ Relocate(v, c).null = FALSE
      /\ Relocate(v, c).data = [x \in 0 .. c - 1 |->
                                  IF x < v.count /\ x \in DOMAIN v.data
                                  THEN v.data[x] ELSE Raw]
  BY <1>1 DEF Relocate
<1> QED
  BY <1>1, <1>2 DEF Keeps

\* vector_reserve(V, n) cuts off no element before index n and none before
\* VECTOR_MIN_CAPACITY.
LEMMA ReserveKeeps ==
  ASSUME NEW v, Holds(v, Elements(v)), NEW n \in Nat, NEW r \in Reserve(v, n)
  PROVE  /\ Keeps(v, r.v)
         /\ r.v.count = v.count \/ (r.v.count >= n /\ r.v.count >= MinCapacity)
<1>1. v.count \in Nat /\ v.capacity \in Nat /\ v.count <= v.capacity
  BY VectorAssumption DEF Holds, VecType
<1>2. CASE r.v = v
  BY <1>2 DEF Keeps
<1>3. CASE r.v # v
  <2>1. PICK c \in Sizes : RoundsUp(c, n) /\ c = CHOOSE s \in Sizes : RoundsUp(s, n)
    BY <1>3 DEF Reserve, Result
  <2> DEFINE w == IF c < v.count THEN Truncate(v, c) ELSE v
  <2>2. c \in 0 .. MaxCapacity /\ n <= c /\ MinCapacity <= c /\ MinCapacity \in Nat
    BY <2>1, VectorAssumption DEF Sizes, RoundsUp
  <2>3. /\ Holds(w, Elements(w)) /\ Keeps(v, w)
        /\ w.count = IF c < v.count THEN c ELSE v.count
    BY <2>2, <1>1, TruncateHolds, TruncateKeeps DEF Keeps
  <2>4. r = Result(Relocate(w, c), 0) \/ r = Result(w, -1)
    BY <2>1, <1>3 DEF Reserve, Result
  <2> HIDE DEF w
  <2>5. /\ Relocate(w, c).count = w.count /\ Keeps(w, Relocate(w, c))
        /\ Relocate(w, c).null = FALSE
    <3>1. w.count <= c
      BY <2>3, <2>2, <1>1
    <3>2. DOMAIN w = {"null", "data", "count", "capacity", "fault"}
      BY <2>3 DEF Holds, VecType
    <3>3. Relocate(w, c).null = FALSE
      BY <3>2 DEF Relocate
    <3> QED
      BY <3>1, <3>3, <2>2, <2>3, RelocateHolds, RelocateKeeps
  <2>6. Keeps(v, r.v) /\ r.v.count = w.count
    BY <2>3, <2>4, <2>5 DEF Keeps, Result
  <2> QED
    BY <2>2, <2>3, <2>6, <1>1
<1> QED
  BY <1>2, <1>3

\* vector_shrink_to_fit keeps all elements.
LEMMA ShrinkKeeps ==
  ASSUME NEW v, Holds(v, Elements(v)), NEW r \in ShrinkToFit(v)
  PROVE  Keeps(v, r.v)
<1>1. v.count \in Nat /\ v.capacity \in 0 .. MaxCapacity
  BY VectorAssumption DEF Holds, VecType
<1>2. CASE r.v = v
  BY <1>2 DEF Keeps
<1>3. CASE r.v # v
  <2>1. PICK c \in 0 .. v.capacity : r = Result(Relocate(v, c), 0)
    BY <1>3 DEF ShrinkToFit, Result
  <2>2. r.v = Relocate(v, c) /\ c \in 0 .. MaxCapacity
    BY <2>1, <1>1, VectorAssumption DEF Result
  <2>3. v.count <= c
    <3>1. Relocate(v, c).capacity = c
      BY DEF Relocate, Holds, VecType
    <3> QED
      BY <2>2, <3>1, ShrinkHolds DEF Holds
  <2> QED
    BY <2>2, <2>3, RelocateKeeps
<1> QED
  BY <1>2, <1>3

\* Contracting keeps all elements, whether the smaller block is granted or not.
LEMMA ContractKeeps ==
  ASSUME NEW v, Holds(v, Elements(v)), NEW w \in Contract(v)
  PROVE  Keeps(v, w)
BY ShrinkKeeps DEF Contract, Keeps

\* Making room for one more element keeps all elements.
LEMMA GrowKeeps ==
  ASSUME NEW v, Holds(v, Elements(v)), NEW r \in Grow(v)
  PROVE  Keeps(v, r.v)
<1>1. v.capacity \in Nat
  BY VectorAssumption DEF Holds, VecType
<1> QED
  BY <1>1, ReserveKeeps DEF Grow, Result, Keeps

\* A new last element is added after the others.
LEMMA AddLastHolds ==
  ASSUME NEW v, Holds(v, Elements(v)), v.count < v.capacity, NEW e \in Elem
  PROVE  LET w == AddLast(v, e)
         IN  /\ Holds(w, Elements(w)) /\ w.count = v.count + 1
             /\ w.null = v.null /\ w.capacity = v.capacity
             /\ w.data[v.count] = e
             /\ \A x \in 0 .. v.count - 1 : w.data[x] = v.data[x]
<1> DEFINE u == [v EXCEPT !.count = v.count + 1]
           w == Construct(u, v.count, e)
<1>0. /\ v.count \in Nat /\ v.capacity \in Nat
      /\ DOMAIN v.data = 0 .. v.capacity - 1
      /\ DOMAIN v = {"null", "data", "count", "capacity", "fault"}
  BY VectorAssumption DEF Holds, VecType, Block
<1>1. /\ Holds(u, Elements(v)) /\ u.count = v.count + 1 /\ u.capacity = v.capacity
      /\ u.null = v.null /\ u.data = v.data
      /\ DOMAIN u = {"null", "data", "count", "capacity", "fault"}
  <2>1. v.count + 1 \in 0 .. v.capacity
    BY <1>0
  <2>2. u.null = v.null /\ u.data = v.data /\ DOMAIN u = DOMAIN v
    BY <1>0
  <2>3. Holds(u, Elements(v)) /\ u.count = v.count + 1 /\ u.capacity = v.capacity
    BY <2>1, <1>0, CountHolds
  <2> QED
    BY <2>2, <2>3, <1>0
<1>2. AddLast(v, e) = w
  BY DEF AddLast
<1> HIDE DEF u
<1>3. v.count \in 0 .. u.capacity - 1 /\ v.count \notin Elements(v)
  BY <1>0, <1>1 DEF Elements
<1>4. /\ Holds(w, Elements(v) \cup {v.count})
      /\ w.count = u.count /\ w.capacity = u.capacity
  BY <1>1, <1>3, ConstructHolds
<1>5. w.null = v.null /\ w.data = Put(v.data, v.count, e)
  BY <1>1 DEF Construct
<1> HIDE DEF w
<1>6. Elements(w) = Elements(v) \cup {v.count}
  BY <1>0, <1>1, <1>4 DEF Elements
<1>7. w.data[v.count] = e /\ \A x \in 0 .. v.count - 1 : w.data[x] = v.data[x]
  BY <1>0, <1>5 DEF Put
<1> QED
  BY <1>1, <1>2, <1>4, <1>5, <1>6, <1>7

-----------------------------------------------------------------------------
(* The promises of the calls.                                              *)

\* A vector whose data is NULL has no slots, and a removal that shifts
\* elements already knows what it returns.
Settled ==
  /\ vec.null => vec.capacity = 0
  /\ pc = "remove" => rc = 1 /\ out = Raw

PromiseInv == Inv /\ Settled

-----------------------------------------------------------------------------
(* The elements as a sequence.                                             *)

\* The elements of a vector in which no loop runs
InOrder(v) == [k \in 1 .. v.count |-> v.data[k - 1]]

\* A function on 1 .. n is a sequence of length n.
LEMMA RowIsSeq ==
  ASSUME NEW n \in Nat, NEW S, NEW f \in [1 .. n -> S]
  PROVE  f \in Seq(S) /\ Len(f) = n
<1>1. f \in Seq(S)
  BY SeqDef
<1>2. Len(f) \in Nat /\ DOMAIN f = 1 .. Len(f)
  BY <1>1, LenProperties
<1>3. 1 .. n = 1 .. Len(f)
  BY <1>2
<1> QED
  BY <1>1, <1>2, <1>3

\* The numbers of a vector that holds occ
LEMMA HoldsNumbers ==
  ASSUME NEW v, NEW occ, Holds(v, occ)
  PROVE  /\ v.count \in Nat /\ v.capacity \in Nat /\ v.count <= v.capacity
         /\ v.capacity <= MaxCapacity /\ v.null \in BOOLEAN
         /\ DOMAIN v = {"null", "data", "count", "capacity", "fault"}
         /\ DOMAIN v.data = 0 .. v.capacity - 1
         /\ \A x \in occ : x \in 0 .. v.capacity - 1 /\ v.data[x] \in Elem
BY VectorAssumption DEF Holds, VecType, Block

\* The elements are a sequence as long as their count.
LEMMA InOrderIsSeq ==
  ASSUME NEW v, Holds(v, Elements(v))
  PROVE  /\ InOrder(v) \in Seq(Elem) /\ Len(InOrder(v)) = v.count
         /\ \A k \in 1 .. v.count : InOrder(v)[k] = v.data[k - 1]
<1>1. v.count \in Nat
  BY HoldsNumbers
<1>2. \A k \in 1 .. v.count : k - 1 \in Elements(v)
  BY <1>1 DEF Elements
<1>3. InOrder(v) \in [1 .. v.count -> Elem]
  BY <1>2, HoldsNumbers DEF InOrder
<1> QED
  BY <1>1, <1>3, RowIsSeq DEF InOrder

\* Between calls the contents are the elements in order.
LEMMA IdleContents ==
  ASSUME Idle, vec.count \in Nat
  PROVE  Contents = InOrder(vec)
<1>1. Hole = vec.count /\ pc # "remove"
  BY DEF Hole, Idle
<1> QED
  BY <1>1 DEF Contents, InOrder

\* What a call leaves behind.
LEMMA ReturnContents ==
  ASSUME NEW v, v.count \in Nat, NEW code, NEW o, Return(v, code, o)
  PROVE  Contents' = InOrder(v) /\ rc' = code /\ out' = o
<1>1. Idle' /\ vec' = v /\ rc' = code /\ out' = o
  BY DEF Return, Idle
<1>2. Hole' = v.count /\ pc' # "remove"
  BY <1>1 DEF Hole, Idle
<1>3. Contents' = InOrder(vec')
  BY <1>1, <1>2 DEF Contents, InOrder
<1> QED
  BY <1>1, <1>3

\* The elements that are kept are a prefix, or all of them.
LEMMA KeptInOrder ==
  ASSUME NEW v, Holds(v, Elements(v)), NEW w, Holds(w, Elements(w)), Keeps(v, w),
         w.count <= v.count
  PROVE  /\ InOrder(w) = SubSeq(InOrder(v), 1, w.count)
         /\ w.count = v.count => InOrder(w) = InOrder(v)
<1>1. v.count \in Nat /\ w.count \in Nat
  BY HoldsNumbers
<1>2. \A k \in 1 .. w.count : InOrder(w)[k] = InOrder(v)[k]
  BY <1>1, InOrderIsSeq DEF Keeps
<1>3. \A k \in 1 .. w.count : InOrder(v)[k] \in Elem
  BY <1>1, InOrderIsSeq, ElementOfSeq
<1>4. /\ SubSeq(InOrder(v), 1, w.count) \in Seq(Elem)
      /\ Len(SubSeq(InOrder(v), 1, w.count)) = w.count
      /\ \A k \in 1 .. w.count : SubSeq(InOrder(v), 1, w.count)[k] = InOrder(v)[k]
  <2> DEFINE t == SubSeq(InOrder(v), 1, w.count)
  <2>1. /\ t \in Seq(Elem) /\ Len(t) = IF 1 <= w.count THEN w.count - 1 + 1 ELSE 0
        /\ \A k \in 1 .. w.count - 1 + 1 : t[k] = InOrder(v)[1 + k - 1]
    BY <1>1, <1>3, SubSeqProperties
  <2> HIDE DEF t
  <2>2. w.count - 1 + 1 = w.count
    BY <1>1
  <2>3. \A k \in 1 .. w.count : 1 + k - 1 = k
    OBVIOUS
  <2> QED
    BY <1>1, <2>1, <2>2, <2>3 DEF t
<1>5. InOrder(w) = SubSeq(InOrder(v), 1, w.count)
  BY <1>1, <1>2, <1>4, InOrderIsSeq, SeqEqual
<1>6. w.count = v.count => InOrder(w) = InOrder(v)
  BY <1>5, InOrderIsSeq, SubSeqFull
<1> QED
  BY <1>5, <1>6

-----------------------------------------------------------------------------
(* The calls that are one step.                                            *)

\* The state in which a call starts
LEMMA CallStarts ==
  ASSUME Inv, Idle
  PROVE  /\ Holds(vec, Elements(vec)) /\ vec.count \in Nat /\ vec.capacity \in Nat
         /\ vec.count <= vec.capacity
         /\ Contents = InOrder(vec) /\ Contents \in Seq(Elem) /\ Len(Contents) = vec.count
         /\ \A k \in 1 .. vec.count : Contents[k] = vec.data[k - 1]
<1>1. Holds(vec, Elements(vec))
  BY DEF Inv, IdleInv, Idle
<1>2. vec.count \in Nat /\ vec.capacity \in Nat /\ vec.count <= vec.capacity
  BY <1>1, HoldsNumbers
<1>3. Contents = InOrder(vec)
  BY <1>2, IdleContents
<1> QED
  BY <1>1, <1>2, <1>3, InOrderIsSeq

\* A call that returns code and keeps all elements does nothing else.
LEMMA ReturnKeeps ==
  ASSUME Inv, Idle, NEW v, Holds(v, Elements(v)), Keeps(vec, v), v.count = vec.count,
         NEW code, NEW o, Return(v, code, o)
  PROVE  Abstract!Returns(Contents, code, o)
<1>1. InOrder(v) = InOrder(vec)
  BY CallStarts, KeptInOrder
<1> QED
  BY <1>1, CallStarts, ReturnContents DEF Abstract!Returns

\* vector_set on an index in the vector
LEMMA ReplaceHolds ==
  ASSUME NEW v, Holds(v, Elements(v)), NEW k \in Elements(v), NEW e \in Elem
  PROVE  LET w == Construct(Vacate(v, k), k, e)
         IN  /\ Holds(w, Elements(w)) /\ w.count = v.count
             /\ w.null = v.null /\ w.capacity = v.capacity
             /\ InOrder(w) = [InOrder(v) EXCEPT ![k + 1] = e]
<1> DEFINE u == Vacate(v, k)
           w == Construct(u, k, e)
<1>0. /\ v.count \in Nat /\ v.capacity \in Nat /\ v.count <= v.capacity
      /\ DOMAIN v.data = 0 .. v.capacity - 1 /\ k \in 0 .. v.capacity - 1 /\ k \in 0 .. v.count - 1
      /\ DOMAIN v = {"null", "data", "count", "capacity", "fault"}
  BY HoldsNumbers DEF Elements
<1>1. /\ Holds(u, Elements(v) \ {k}) /\ u.count = v.count /\ u.capacity = v.capacity
  BY VacateHolds
<1>2. u.null = v.null /\ u.data = Put(v.data, k, Raw) /\ DOMAIN u = DOMAIN v
  BY <1>0 DEF Vacate
<1> HIDE DEF u
<1>3. /\ Holds(w, (Elements(v) \ {k}) \cup {k})
      /\ w.count = u.count /\ w.capacity = u.capacity
  <2>1. k \in 0 .. u.capacity - 1 /\ k \notin Elements(v) \ {k}
    BY <1>0, <1>1
  <2> QED
    BY <2>1, <1>1, ConstructHolds, Zenon
<1>4. w.null = v.null /\ w.data = Put(u.data, k, e)
  BY <1>0, <1>2 DEF Construct
<1> HIDE DEF w
<1>5. Elements(w) = (Elements(v) \ {k}) \cup {k}
  BY <1>1, <1>3 DEF Elements
<1>6. Holds(w, Elements(w)) /\ w.count = v.count
  BY <1>1, <1>3, <1>5
<1>7. \A x \in 0 .. v.capacity - 1 : w.data[x] = IF x = k THEN e ELSE v.data[x]
  BY <1>0, <1>2, <1>4 DEF Put
<1>8. InOrder(w) = [InOrder(v) EXCEPT ![k + 1] = e]
  <2>1. \A x \in 1 .. v.count : x - 1 \in 0 .. v.capacity - 1 /\ (x - 1 = k <=> x = k + 1)
    BY <1>0
  <2> QED
    BY <1>6, <1>7, <2>1 DEF InOrder
<1> QED
  BY <1>1, <1>3, <1>4, <1>6, <1>8 DEF u, w

\* vector_set and vector_push_back
LEMMA SetPromise ==
  ASSUME PromiseInv, NEW k \in Index, NEW e \in Elem, Set(k, e)
  PROVE  Abstract!Set(k, e) /\ Settled'
<1>0. Inv /\ Idle /\ k \in Nat /\ (vec.null => vec.capacity = 0)
  BY VectorAssumption DEF PromiseInv, Settled, Set, Index
<1>1. CASE k = vec.count
  <2>1. PICK r \in Grow(vec) :
          IF r.rc < 0 THEN Return(r.v, -1, Raw) ELSE Return(AddLast(r.v, e), 1, Raw)
    BY <1>0, <1>1, CallStarts DEF Set
  <2>2. /\ Holds(r.v, Elements(r.v)) /\ r.v.count = vec.count /\ r.rc \in {0, -1}
        /\ r.rc = 0 => r.v.count < r.v.capacity
        /\ Keeps(vec, r.v)
    BY <1>0, CallStarts, GrowHolds, GrowKeeps
  <2>3. CASE r.rc = -1
    <3>1. Return(r.v, -1, Raw)
      BY <2>1, <2>3
    <3>2. Abstract!Returns(Contents, -1, Raw)
      BY <1>0, <2>2, <3>1, ReturnKeeps
    <3>3. Abstract!Set(k, e)
      BY <1>0, <1>1, <3>2, CallStarts DEF Abstract!Set
    <3>4. Settled'
      BY <1>0, <2>2, <3>1 DEF Settled, Return, Keeps
    <3> QED
      BY <3>3, <3>4
  <2>4. CASE r.rc = 0
    <3> DEFINE w == AddLast(r.v, e)
    <3>1. Return(w, 1, Raw)
      BY <2>1, <2>4
    <3>2. /\ Holds(w, Elements(w)) /\ w.count = r.v.count + 1
          /\ w.null = r.v.null /\ w.capacity = r.v.capacity
          /\ w.data[r.v.count] = e
          /\ \A x \in 0 .. r.v.count - 1 : w.data[x] = r.v.data[x]
      BY <2>2, <2>4, AddLastHolds
    <3> HIDE DEF w
    <3>3. InOrder(w) = Append(Contents, e)
      <4>1. /\ Append(Contents, e) \in Seq(Elem) /\ Len(Append(Contents, e)) = vec.count + 1
            /\ \A x \in 1 .. vec.count : Append(Contents, e)[x] = vec.data[x - 1]
            /\ Append(Contents, e)[vec.count + 1] = e
        BY <1>0, CallStarts, AppendProperties
      <4>2. /\ InOrder(w) \in Seq(Elem) /\ Len(InOrder(w)) = vec.count + 1
            /\ \A x \in 1 .. vec.count + 1 : InOrder(w)[x] = w.data[x - 1]
        BY <2>2, <3>2, InOrderIsSeq
      <4>3. vec.count \in Nat
        BY <1>0, CallStarts
      <4>4. \A x \in 1 .. vec.count + 1 : InOrder(w)[x] = Append(Contents, e)[x]
        <5> TAKE x \in 1 .. vec.count + 1
        <5>1. CASE x = vec.count + 1
          BY <5>1, <4>1, <4>2, <4>3, <2>2, <3>2
        <5>2. CASE x # vec.count + 1
          <6>1. x \in 1 .. vec.count /\ x - 1 \in 0 .. vec.count - 1
            BY <5>2, <4>3
          <6> QED
            BY <6>1, <4>1, <4>2, <2>2, <3>2 DEF Keeps
        <5> QED
          BY <5>1, <5>2
      <4> QED
        BY <4>1, <4>2, <4>4, SeqEqual
    <3>4. Abstract!Returns(Append(Contents, e), 1, Raw)
      <4>1. w.count \in Nat
        BY <3>2, HoldsNumbers
      <4> QED
        BY <3>1, <3>3, <4>1, ReturnContents DEF Abstract!Returns
    <3>5. Abstract!Set(k, e)
      BY <1>0, <1>1, <3>4, CallStarts DEF Abstract!Set
    <3>6. Settled'
      BY <1>0, <2>2, <3>1, <3>2 DEF Settled, Return, Keeps
    <3> QED
      BY <3>5, <3>6
  <2> QED
    BY <2>2, <2>3, <2>4
<1>2. CASE k < vec.count
  <2> DEFINE w == Construct(Vacate(vec, k), k, e)
  <2>1. Return(w, 0, Raw)
    BY <1>0, <1>2, CallStarts DEF Set, Replace
  <2>2. k \in Elements(vec)
    BY <1>0, <1>2, CallStarts DEF Elements
  <2>3. /\ Holds(w, Elements(w)) /\ w.null = vec.null /\ w.capacity = vec.capacity
        /\ InOrder(w) = [Contents EXCEPT ![k + 1] = e]
    BY <1>0, <2>2, CallStarts, ReplaceHolds
  <2> HIDE DEF w
  <2>4. Abstract!Returns([Contents EXCEPT ![k + 1] = e], 0, Raw)
    BY <2>1, <2>3, HoldsNumbers, ReturnContents DEF Abstract!Returns
  <2>5. Abstract!Set(k, e)
    BY <1>0, <1>2, <2>4, CallStarts DEF Abstract!Set
  <2>6. Settled'
    BY <1>0, <2>1, <2>3 DEF Settled, Return
  <2> QED
    BY <2>5, <2>6
<1>3. CASE k > vec.count
  <2>1. Return(vec, -1, Raw)
    BY <1>0, <1>3, CallStarts DEF Set
  <2>2. Abstract!Returns(Contents, -1, Raw)
    BY <1>0, <2>1, CallStarts, ReturnContents DEF Abstract!Returns
  <2>3. Abstract!Set(k, e)
    BY <1>0, <1>3, <2>2, CallStarts DEF Abstract!Set
  <2>4. Settled'
    BY <1>0, <2>1 DEF Settled, Return
  <2> QED
    BY <2>3, <2>4
<1> QED
  BY <1>0, <1>1, <1>2, <1>3, CallStarts

\* vector_reserve
LEMMA ReservePromise ==
  ASSUME PromiseInv, NEW n \in Nat, ReserveCall(n)
  PROVE  Abstract!Reserve(n) /\ Settled'
<1>0. Inv /\ Idle /\ (vec.null => vec.capacity = 0)
  BY DEF PromiseInv, Settled, ReserveCall
<1>1. PICK r \in Reserve(vec, n) : Return(r.v, r.rc, Raw)
  BY DEF ReserveCall
<1>2. /\ Holds(r.v, Elements(r.v)) /\ Keeps(vec, r.v)
      /\ r.rc \in {0, -1} /\ r.v.count <= vec.count
      /\ r.v.count = vec.count \/ (r.v.count >= n /\ r.v.count >= MinCapacity)
  BY <1>0, CallStarts, ReserveHolds, ReserveKeeps
<1>3. r.v.count \in 0 .. Len(Contents)
  BY <1>0, <1>2, CallStarts, HoldsNumbers
<1>4. Contents' = Abstract!Prefix(r.v.count) /\ rc' = r.rc /\ out' = Raw
  <2>1. InOrder(r.v) = SubSeq(Contents, 1, r.v.count)
    BY <1>0, <1>2, CallStarts, KeptInOrder
  <2> QED
    BY <2>1, <1>1, <1>3, ReturnContents DEF Abstract!Prefix
<1>5. Abstract!Reserve(n)
  BY <1>0, <1>2, <1>3, <1>4, CallStarts DEF Abstract!Reserve, Abstract!Returns
<1>6. Settled'
  BY <1>0, <1>1, <1>2 DEF Settled, Return, Keeps
<1> QED
  BY <1>5, <1>6

\* vector_shrink_to_fit
LEMMA ShrinkPromise ==
  ASSUME PromiseInv, ShrinkCall
  PROVE  Abstract!ShrinkToFit /\ Settled'
<1>0. Inv /\ Idle /\ (vec.null => vec.capacity = 0)
  BY DEF PromiseInv, Settled, ShrinkCall
<1>1. PICK r \in ShrinkToFit(vec) : Return(r.v, r.rc, Raw)
  BY DEF ShrinkCall
<1>2. /\ Holds(r.v, Elements(r.v)) /\ Keeps(vec, r.v)
      /\ r.rc \in {0, -1} /\ r.v.count = vec.count
  BY <1>0, CallStarts, ShrinkHolds, ShrinkKeeps
<1>3. Abstract!Returns(Contents, r.rc, Raw)
  BY <1>0, <1>1, <1>2, ReturnKeeps
<1>4. Settled'
  BY <1>0, <1>1, <1>2 DEF Settled, Return, Keeps
<1> QED
  BY <1>2, <1>3, <1>4 DEF Abstract!ShrinkToFit

\* A vector without elements
LEMMA NoElements ==
  ASSUME NEW v, v.count = 0
  PROVE  InOrder(v) = <<>>
BY DEF InOrder

\* vector_clear and vector_destroy
LEMMA ClearPromise ==
  ASSUME PromiseInv, Clear \/ Destroy
  PROVE  Abstract!Clear /\ Settled'
<1>0. /\ Inv /\ Idle /\ (vec.null => vec.capacity = 0) /\ Holds(vec, Elements(vec))
      /\ (vec.null => vec.count = 0)
  <2>1. Inv /\ Idle /\ (vec.null => vec.capacity = 0)
    BY DEF PromiseInv, Settled, Clear, Destroy
  <2> QED
    BY <2>1, CallStarts
<1>1. ASSUME NEW v \in Cleared(vec)
      PROVE  v.count = 0 /\ (v.null => v.capacity = 0)
  <2>1. CASE vec.null
    BY <2>1, <1>0, <1>1 DEF Cleared
  <2>2. CASE ~vec.null
    <3>1. PICK r \in Reserve(Truncate(vec, 0), MinCapacity) : v = r.v
      BY <2>2, <1>1 DEF Cleared
    <3>2. 0 \in 0 .. vec.count
      BY <1>0, HoldsNumbers
    <3>3. Holds(Truncate(vec, 0), Elements(Truncate(vec, 0))) /\ Keeps(vec, Truncate(vec, 0))
      BY <1>0, <3>2, TruncateHolds, TruncateKeeps
    <3>4. Keeps(Truncate(vec, 0), v)
      BY <3>1, <3>3, ReserveKeeps, VectorAssumption
    <3>5. v.count = 0
      BY <1>0, <2>2, ClearedHolds
    <3> QED
      BY <2>2, <3>3, <3>4, <3>5 DEF Keeps
  <2> QED
    BY <2>1, <2>2
<1>2. ASSUME NEW v, v.count = 0, v.null => v.capacity = 0, Return(v, 0, Raw)
      PROVE  Abstract!Clear /\ Settled'
  <2>1. Contents' = <<>> /\ rc' = 0 /\ out' = Raw
    BY <1>2, ReturnContents, NoElements
  <2>2. Settled'
    BY <1>2 DEF Settled, Return
  <2> QED
    BY <2>1, <2>2 DEF Abstract!Clear, Abstract!Returns
<1>3. CASE Clear
  BY <1>1, <1>2, <1>3 DEF Clear
<1>4. CASE Destroy /\ vec.null
  BY <1>0, <1>2, <1>4 DEF Destroy
<1>5. CASE Destroy /\ ~vec.null
  <2>1. PICK v \in Cleared(vec) :
          Return(Empty(TRUE, 0, v.fault \/ \E x \in DOMAIN v.data : v.data[x] # Raw), 0, Raw)
    BY <1>5 DEF Destroy
  <2> DEFINE w == Empty(TRUE, 0, v.fault \/ \E x \in DOMAIN v.data : v.data[x] # Raw)
  <2>2. w.count = 0 /\ w.capacity = 0
    BY DEF Empty
  <2> HIDE DEF w
  <2>3. Return(w, 0, Raw)
    BY <2>1 DEF w
  <2> QED
    BY <2>2, <2>3, <1>2
<1> QED
  BY <1>3, <1>4, <1>5

\* vector_initialize
LEMMA InitializePromise ==
  ASSUME PromiseInv, Initialize
  PROVE  Abstract!Initialize /\ Settled'
<1>0. /\ Inv /\ Idle /\ vec.null /\ vec.capacity = 0 /\ vec.count = 0
  BY CallStarts DEF PromiseInv, Settled, Initialize
<1>1. Contents = <<>>
  BY <1>0, CallStarts, NoElements
<1>2. ASSUME NEW v, v.count = 0, v.null => v.capacity = 0, NEW code \in {0, -1}, Return(v, code, Raw)
      PROVE  Abstract!Initialize /\ Settled'
  <2>1. Contents' = <<>> /\ rc' = code /\ out' = Raw
    BY <1>2, ReturnContents, NoElements
  <2>2. Settled'
    BY <1>2 DEF Settled, Return
  <2> QED
    BY <2>1, <2>2, <1>1 DEF Abstract!Initialize, Abstract!Returns
<1>3. CASE Return(Empty(FALSE, MinCapacity, vec.fault), 0, Raw)
  <2> DEFINE w == Empty(FALSE, MinCapacity, vec.fault)
  <2>1. w.count = 0 /\ ~w.null
    BY DEF Empty
  <2> HIDE DEF w
  <2>2. Return(w, 0, Raw)
    BY <1>3 DEF w
  <2> QED
    BY <2>1, <2>2, <1>2
<1>4. CASE Return(vec, -1, Raw)
  BY <1>0, <1>2, <1>4
<1> QED
  BY <1>3, <1>4 DEF Initialize

\* vector_pop_back
LEMMA PopBackPromise ==
  ASSUME PromiseInv, NEW keep \in BOOLEAN, PopBack(keep)
  PROVE  Abstract!PopBack /\ Settled'
<1>0. Inv /\ Idle /\ (vec.null => vec.capacity = 0)
  BY DEF PromiseInv, Settled, PopBack
<1>1. CASE vec.count = 0 /\ Return(vec, 0, Raw)
  <2>1. Contents = <<>> /\ Abstract!Returns(Contents, 0, Raw)
    BY <1>0, <1>1, CallStarts, NoElements, ReturnContents DEF Abstract!Returns
  <2>2. Settled'
    BY <1>0, <1>1 DEF Settled, Return
  <2> QED
    BY <2>1, <2>2 DEF Abstract!PopBack
<1>2. CASE vec.count > 0 /\ \E v \in Contract([Vacate(vec, vec.count - 1) EXCEPT !.count = @ - 1]) :
             Return(v, 1, IF keep THEN vec.data[vec.count - 1] ELSE Raw)
  <2> DEFINE n == vec.count - 1
             t == Vacate(vec, n)
             u == [t EXCEPT !.count = n]
             o == IF keep THEN vec.data[n] ELSE Raw
  <2>1. /\ n \in Nat /\ n \in Elements(vec) /\ vec.count = n + 1 /\ n <= vec.capacity
        /\ Holds(vec, Elements(vec))
        /\ DOMAIN vec = {"null", "data", "count", "capacity", "fault"}
        /\ DOMAIN vec.data = 0 .. vec.capacity - 1 /\ n \in 0 .. vec.capacity - 1
    BY <1>0, <1>2, CallStarts, HoldsNumbers DEF Elements
  <2> HIDE DEF n
  <2>2. Holds(t, Elements(vec) \ {n}) /\ t.count = vec.count /\ t.capacity = vec.capacity
    BY <2>1, VacateHolds
  <2>3. /\ t.null = vec.null /\ DOMAIN t = DOMAIN vec
        /\ \A x \in 0 .. vec.capacity - 1 : x # n => t.data[x] = vec.data[x]
    BY <2>1 DEF Vacate, Put
  <2> HIDE DEF t
  <2>4. n \in 0 .. t.capacity
    BY <2>1, <2>2
  <2>5. /\ Holds(u, Elements(vec) \ {n}) /\ u.count = n /\ u.capacity = vec.capacity
    BY <2>2, <2>4, CountHolds
  <2>6. u.null = vec.null /\ u.data = t.data
    BY <2>1, <2>3
  <2>7. [Vacate(vec, vec.count - 1) EXCEPT !.count = @ - 1] = u
    <3>1. Vacate(vec, vec.count - 1) = t /\ t.count - 1 = n
      BY <2>1, <2>2 DEF t, n
    <3> QED
      BY <3>1
  <2> HIDE DEF u
  <2>8. Elements(u) = Elements(vec) \ {n}
    BY <2>1, <2>5 DEF Elements
  <2>9. Keeps(vec, u) /\ Holds(u, Elements(u))
    <3>1. \A x \in 0 .. u.count - 1 : x \in 0 .. vec.capacity - 1 /\ x # n
      BY <1>0, <2>1, <2>5, CallStarts
    <3>2. \A x \in 0 .. u.count - 1 : u.data[x] = vec.data[x]
      BY <3>1, <2>3, <2>6
    <3> QED
      BY <3>2, <2>5, <2>6, <2>8 DEF Keeps
  <2>10. PICK v \in Contract(u) : Return(v, 1, o)
    BY <1>2, <2>7 DEF n
  <2>11. Holds(v, Elements(v)) /\ Keeps(u, v) /\ v.count = n
    BY <2>5, <2>9, ContractHolds, ContractKeeps
  <2>12. Keeps(vec, v) /\ v.count <= vec.count
    BY <2>1, <2>5, <2>9, <2>11 DEF Keeps
  <2>13. Contents' = SubSeq(Contents, 1, n) /\ rc' = 1 /\ out' = o
    BY <1>0, <2>1, <2>10, <2>11, <2>12, CallStarts, KeptInOrder, ReturnContents
  <2>14. Contents # <<>> /\ Len(Contents) - 1 = n /\ Contents[Len(Contents)] = vec.data[n]
    <3>1. Len(Contents) = n + 1 /\ Contents[n + 1] = vec.data[n + 1 - 1]
      BY <1>0, <2>1, CallStarts
    <3> QED
      BY <3>1, <2>1
  <2>15. Abstract!PopBack
    BY <2>13, <2>14 DEF Abstract!PopBack, Abstract!Returns, Abstract!Prefix
  <2>16. Settled'
    BY <1>0, <2>10, <2>12 DEF Settled, Return, Keeps
  <2> QED
    BY <2>15, <2>16
<1> QED
  BY <1>1, <1>2 DEF PopBack

-----------------------------------------------------------------------------
(* The loops.                                                              *)

\* A call that starts its loop leaves the elements where they are.
LEMMA InsertStartPromise ==
  ASSUME PromiseInv, NEW k \in Index, NEW e \in Elem, Insert(k, e)
  PROVE  /\ Abstract!Begin \/ (rc' = -1 /\ Abstract!Insert(k, e))
         /\ Settled'
<1>0. Inv /\ Idle /\ k \in Nat /\ (vec.null => vec.capacity = 0)
  BY VectorAssumption DEF PromiseInv, Settled, Insert, Index
<1>1. CASE Return(vec, -1, Raw)
  <2>1. Abstract!Returns(Contents, -1, Raw)
    BY <1>0, <1>1, CallStarts, ReturnContents DEF Abstract!Returns
  <2>2. Settled'
    BY <1>0, <1>1 DEF Settled, Return
  <2> QED
    BY <2>1, <2>2 DEF Abstract!Insert, Abstract!Returns
<1>2. CASE k < vec.count /\ \E r \in Grow(vec) :
             IF r.rc < 0 THEN Return(r.v, -1, Raw)
             ELSE Enter("insert", r.v, k, r.v.count - 1, e) /\ UNCHANGED rc
  <2>1. PICK r \in Grow(vec) :
          IF r.rc < 0 THEN Return(r.v, -1, Raw)
          ELSE Enter("insert", r.v, k, r.v.count - 1, e) /\ UNCHANGED rc
    BY <1>2
  <2>2. /\ Holds(r.v, Elements(r.v)) /\ r.v.count = vec.count /\ r.rc \in {0, -1}
        /\ Keeps(vec, r.v)
    BY <1>0, CallStarts, GrowHolds, GrowKeeps
  <2>3. CASE r.rc = -1
    <3>1. Return(r.v, -1, Raw)
      BY <2>1, <2>3
    <3>2. Abstract!Returns(Contents, -1, Raw)
      BY <1>0, <2>2, <3>1, ReturnKeeps
    <3>3. Settled'
      BY <1>0, <2>2, <3>1 DEF Settled, Return, Keeps
    <3> QED
      BY <3>2, <3>3 DEF Abstract!Insert, Abstract!Returns
  <2>4. CASE r.rc = 0
    <3>1. /\ vec' = r.v /\ pc' = "insert" /\ j' = r.v.count - 1 /\ rc' = rc /\ out' = Raw
      BY <2>1, <2>4 DEF Enter
    <3>2. vec.count \in Nat /\ vec.count - 1 # SizeMax
      BY <1>0, <1>2, CallStarts, HoldsNumbers, VectorAssumption
    <3>3. Hole' = vec.count
      BY <2>2, <3>1, <3>2 DEF Hole
    <3>4. Contents' = InOrder(r.v)
      BY <2>2, <3>1, <3>2, <3>3 DEF Contents, InOrder
    <3>5. Contents' = Contents
      BY <1>0, <2>2, <3>4, CallStarts, KeptInOrder
    <3>6. Settled'
      BY <1>0, <2>2, <3>1 DEF Settled, Keeps
    <3> QED
      BY <3>1, <3>5, <3>6 DEF Abstract!Begin
  <2> QED
    BY <2>2, <2>3, <2>4
<1> QED
  BY <1>1, <1>2 DEF Insert

\* What the loop of vector_insert finds
LEMMA InsertRuns ==
  ASSUME Inv, pc = "insert"
  PROVE  /\ Holds(vec, 0 .. vec.count \ {Hole}) /\ Hole \in 0 .. vec.count
         /\ vec.count \in Nat /\ vec.count < vec.capacity /\ vec.capacity \in Nat
         /\ i \in 0 .. vec.count - 1 /\ arg \in Elem
         /\ (j \in 0 .. vec.count - 1 /\ i <= j + 1 /\ Hole = j + 1)
              \/ (j = SizeMax /\ i = 0 /\ Hole = 0)
         /\ vec.count < SizeMax
<1>1. vec.count < vec.capacity /\ i \in 0 .. vec.count - 1 /\ arg \in Elem
  BY DEF Inv, InsertInv
<1>2. CASE j \in 0 .. vec.count - 1 /\ i <= j + 1 /\ Holds(vec, 0 .. vec.count \ {j + 1})
  <2>1. vec.count \in Nat /\ vec.capacity \in Nat /\ vec.count < SizeMax
    BY <1>1, <1>2, HoldsNumbers, VectorAssumption
  <2>2. Hole = j + 1
    BY <1>2, <2>1 DEF Hole
  <2> QED
    BY <1>1, <1>2, <2>1, <2>2
<1>3. CASE j = SizeMax /\ i = 0 /\ Holds(vec, 1 .. vec.count)
  <2>1. vec.count \in Nat /\ vec.capacity \in Nat /\ vec.count < SizeMax
    BY <1>1, <1>3, HoldsNumbers, VectorAssumption
  <2>2. Hole = 0
    BY <1>3 DEF Hole
  <2>3. 1 .. vec.count = 0 .. vec.count \ {Hole}
    BY <2>1, <2>2
  <2>4. Holds(vec, 0 .. vec.count \ {Hole})
    BY <1>3, <2>3, Zenon
  <2> QED
    BY <1>1, <1>3, <2>1, <2>2, <2>4
<1> QED
  BY <1>2, <1>3 DEF Inv, InsertInv

\* The elements around the hole of a loop
Around(v, n, h) == [k \in 1 .. n |-> v.data[IF k - 1 < h THEN k - 1 ELSE k]]

\* The contents while a loop runs
LEMMA LoopContents ==
  /\ pc = "insert" => Contents = Around(vec, vec.count, Hole)
  /\ pc = "remove" => Contents = Around(vec, vec.count - 1, Hole)
  /\ pc' = "insert" => Contents' = Around(vec', vec'.count, Hole')
  /\ pc' = "remove" => Contents' = Around(vec', vec'.count - 1, Hole')
BY DEF Contents, Around

\* They are a sequence if all slots but the hole hold an object.
LEMMA AroundIsSeq ==
  ASSUME NEW v, NEW n \in Nat, NEW h \in 0 .. n, Holds(v, 0 .. n \ {h})
  PROVE  /\ Around(v, n, h) \in Seq(Elem) /\ Len(Around(v, n, h)) = n
         /\ \A k \in 1 .. n : Around(v, n, h)[k] = v.data[IF k - 1 < h THEN k - 1 ELSE k]
<1>1. \A k \in 1 .. n : (IF k - 1 < h THEN k - 1 ELSE k) \in 0 .. n \ {h}
  OBVIOUS
<1>2. Around(v, n, h) \in [1 .. n -> Elem]
  BY <1>1, HoldsNumbers DEF Around
<1> QED
  BY <1>2, RowIsSeq DEF Around

\* Moving an element into the hole next to it does not change the order.
LEMMA MoveKeepsOrder ==
  ASSUME NEW v, NEW n \in Nat, NEW h \in 0 .. n, NEW g \in 0 .. n, g = h + 1 \/ h = g + 1,
         DOMAIN v = {"null", "data", "count", "capacity", "fault"},
         NEW m \in Nat, n < m, DOMAIN v.data = 0 .. m - 1
  PROVE  Around(Move(v, h, g), n, g) = Around(v, n, h)
<1> DEFINE w == Move(v, h, g)
<1>1. \A x \in 0 .. n : x # g => w.data[x] = IF x = h THEN v.data[g] ELSE v.data[x]
  BY DEF Move, Put
<1> HIDE DEF w
<1>2. ASSUME NEW k \in 1 .. n
      PROVE  w.data[IF k - 1 < g THEN k - 1 ELSE k] = v.data[IF k - 1 < h THEN k - 1 ELSE k]
  <2>1. CASE g = h + 1
    <3>1. CASE k - 1 < h
      BY <1>1, <2>1, <3>1
    <3>2. CASE k - 1 = h
      BY <1>1, <2>1, <3>2
    <3>3. CASE k - 1 > h
      BY <1>1, <2>1, <3>3
    <3> QED
      BY <3>1, <3>2, <3>3
  <2>2. CASE h = g + 1
    <3>1. CASE k - 1 < g
      BY <1>1, <2>2, <3>1
    <3>2. CASE k - 1 = g
      BY <1>1, <2>2, <3>2
    <3>3. CASE k - 1 > g
      BY <1>1, <2>2, <3>3
    <3> QED
      BY <3>1, <3>2, <3>3
  <2> QED
    BY <2>1, <2>2
<1> QED
  BY <1>2 DEF Around, w

\* One turn of the loop of vector_insert
LEMMA InsertShiftPromise ==
  ASSUME PromiseInv, InsertShift
  PROVE  UNCHANGED <<Contents, rc, out>> /\ Settled'
<1>0. Inv /\ pc = "insert" /\ (vec.null => vec.capacity = 0)
  BY DEF PromiseInv, Settled, InsertShift
<1>1. /\ j \in 0 .. vec.count - 1 /\ Hole = j + 1 /\ vec.count \in Nat
      /\ vec.count < vec.capacity /\ vec.capacity \in Nat
      /\ Holds(vec, 0 .. vec.count \ {Hole}) /\ vec.count < SizeMax
  BY <1>0, InsertRuns DEF InsertShift, InsertMore
<1>2. /\ vec' = Move(vec, j + 1, j) /\ pc' = "insert"
      /\ j' = (IF j = 0 THEN SizeMax ELSE j - 1)
      /\ UNCHANGED <<rc, out>>
  BY <1>0 DEF InsertShift
<1>3. Hole' = j
  BY <1>1, <1>2 DEF Hole
<1>4. /\ DOMAIN vec = {"null", "data", "count", "capacity", "fault"}
      /\ DOMAIN vec.data = 0 .. vec.capacity - 1
  BY <1>1, HoldsNumbers
<1>5. vec'.count = vec.count /\ vec'.null = vec.null /\ vec'.capacity = vec.capacity
  BY <1>2, <1>4 DEF Move
<1>6. Around(vec', vec.count, j) = Around(vec, vec.count, j + 1)
  <2>1. j \in 0 .. vec.count /\ j + 1 \in 0 .. vec.count
    BY <1>1
  <2> QED
    BY <1>1, <1>2, <1>4, <2>1, MoveKeepsOrder
<1>7. Contents' = Contents
  BY <1>0, <1>1, <1>2, <1>3, <1>5, <1>6, LoopContents
<1>8. Settled'
  BY <1>0, <1>2, <1>5 DEF Settled
<1> QED
  BY <1>2, <1>7, <1>8

\* vector_insert ends: the element is in its place.
LEMMA InsertFinishPromise ==
  ASSUME PromiseInv, InsertFinish
  PROVE  Abstract!Insert(i, arg) /\ rc' = 1 /\ Settled'
<1> DEFINE u == Construct(vec, i, arg)
           w == [u EXCEPT !.count = @ + 1]
           n == vec.count
           s == Contents
           p == SubSeq(s, 1, i)
           q == SubSeq(s, i + 1, Len(s))
           t == (p \o <<arg>>) \o q
<1>0. Inv /\ pc = "insert" /\ (vec.null => vec.capacity = 0)
  BY DEF PromiseInv, Settled, InsertFinish
<1>1. /\ Hole = i /\ n \in Nat /\ n < vec.capacity /\ vec.capacity \in Nat
      /\ i \in 0 .. n - 1 /\ arg \in Elem
      /\ Holds(vec, 0 .. n \ {i})
  BY <1>0, InsertRuns, VectorAssumption DEF InsertFinish, InsertMore
<1>2. Return(w, 1, Raw)
  BY DEF InsertFinish
<1>3. /\ DOMAIN vec = {"null", "data", "count", "capacity", "fault"}
      /\ DOMAIN vec.data = 0 .. vec.capacity - 1
  BY <1>1, HoldsNumbers
<1>4. /\ w.count = n + 1 /\ w.null = vec.null /\ w.capacity = vec.capacity
      /\ w.data = Put(vec.data, i, arg)
  BY <1>3 DEF Construct
<1>5. \A x \in 0 .. n : w.data[x] = IF x = i THEN arg ELSE vec.data[x]
  BY <1>1, <1>3, <1>4 DEF Put
<1> HIDE DEF w
<1>6. /\ s \in Seq(Elem) /\ Len(s) = n
      /\ \A k \in 1 .. n : s[k] = vec.data[IF k - 1 < i THEN k - 1 ELSE k]
  <2>1. i \in 0 .. n /\ s = Around(vec, n, i)
    BY <1>0, <1>1, LoopContents
  <2> HIDE DEF s
  <2> QED
    BY <1>1, <2>1, AroundIsSeq
<1> HIDE DEF s
<1>7. /\ p \in Seq(Elem) /\ Len(p) = i
      /\ \A k \in 1 .. i : p[k] = vec.data[k - 1]
  <2>1. \A k \in 1 .. i : k \in 1 .. n /\ s[k] \in Elem
    BY <1>1, <1>6, ElementOfSeq
  <2>2. /\ p \in Seq(Elem) /\ Len(p) = IF 1 <= i THEN i - 1 + 1 ELSE 0
        /\ \A k \in 1 .. i - 1 + 1 : p[k] = s[1 + k - 1]
    BY <1>1, <2>1, SubSeqProperties
  <2> HIDE DEF p
  <2>3. Len(p) = i
    BY <1>1, <2>2
  <2>4. \A k \in 1 .. i : p[k] = s[k]
    <3>1. \A k \in 1 .. i : k \in 1 .. i - 1 + 1 /\ 1 + k - 1 = k
      BY <1>1
    <3> QED
      BY <2>2, <3>1
  <2>5. \A k \in 1 .. i : s[k] = vec.data[k - 1]
    <3>1. \A k \in 1 .. i : k \in 1 .. n /\ k - 1 < i
      BY <1>1
    <3> QED
      BY <1>6, <3>1
  <2> QED
    BY <2>2, <2>3, <2>4, <2>5
<1>8. /\ q \in Seq(Elem) /\ Len(q) = n - i
      /\ \A k \in 1 .. n - i : q[k] = vec.data[i + k]
  <2>1. \A k \in i + 1 .. n : k \in 1 .. n /\ s[k] \in Elem
    BY <1>1, <1>6, ElementOfSeq
  <2>2. /\ q \in Seq(Elem) /\ Len(q) = IF i + 1 <= n THEN n - (i + 1) + 1 ELSE 0
        /\ \A k \in 1 .. n - (i + 1) + 1 : q[k] = s[(i + 1) + k - 1]
    BY <1>1, <1>6, <2>1, SubSeqProperties
  <2> HIDE DEF q
  <2>3. Len(q) = n - i
    BY <1>1, <2>2
  <2>4. \A k \in 1 .. n - i : q[k] = s[i + k] /\ i + k \in 1 .. n /\ ~(i + k - 1 < i)
    <3>1. \A k \in 1 .. n - i : /\ k \in 1 .. n - (i + 1) + 1 /\ (i + 1) + k - 1 = i + k
                                /\ i + k \in 1 .. n /\ ~(i + k - 1 < i)
      BY <1>1
    <3> QED
      BY <2>2, <3>1
  <2>5. \A k \in 1 .. n - i : q[k] = vec.data[i + k]
    <3> TAKE k \in 1 .. n - i
    <3>1. i + k \in 1 .. n /\ ~(i + k - 1 < i) /\ q[k] = s[i + k]
      BY <2>4
    <3>2. PICK x \in 1 .. n : x = i + k
      BY <3>1
    <3>3. s[x] = vec.data[x]
      BY <1>1, <1>6, <3>1, <3>2
    <3> QED
      BY <3>1, <3>2, <3>3
  <2> QED
    BY <2>2, <2>3, <2>5
<1> HIDE DEF p, q
<1>9. /\ <<arg>> \in Seq(Elem) /\ Len(<<arg>>) = 1 /\ <<arg>>[1] = arg
  BY <1>1
<1>10. /\ t \in Seq(Elem) /\ Len(t) = n + 1
       /\ \A k \in 1 .. n + 1 : t[k] = IF k <= i THEN p[k] ELSE IF k = i + 1 THEN arg ELSE q[k - (i + 1)]
  <2> DEFINE pa == p \o <<arg>>
  <2>1. /\ pa \in Seq(Elem) /\ Len(pa) = i + 1
        /\ \A k \in 1 .. i + 1 : pa[k] = IF k <= i THEN p[k] ELSE <<arg>>[k - i]
    BY <1>7, <1>9, ConcatProperties
  <2>2. \A k \in 1 .. i + 1 : pa[k] = IF k <= i THEN p[k] ELSE arg
    BY <1>1, <1>9, <2>1
  <2> HIDE DEF pa
  <2>3. /\ pa \o q \in Seq(Elem) /\ Len(pa \o q) = Len(pa) + Len(q)
        /\ \A k \in 1 .. Len(pa) + Len(q) : (pa \o q)[k] =
              IF k <= Len(pa) THEN pa[k] ELSE q[k - Len(pa)]
    BY <1>8, <2>1, ConcatProperties
  <2>4. i + 1 + (n - i) = n + 1
    BY <1>1
  <2>5. /\ t \in Seq(Elem) /\ Len(t) = n + 1
        /\ \A k \in 1 .. n + 1 : t[k] = IF k <= i + 1 THEN pa[k] ELSE q[k - (i + 1)]
    BY <1>8, <2>1, <2>3, <2>4 DEF pa
  <2> HIDE DEF t
  <2> QED
    BY <1>1, <2>2, <2>5
<1> HIDE DEF t
<1>11. /\ InOrder(w) \in Seq(Elem) /\ Len(InOrder(w)) = n + 1
       /\ \A k \in 1 .. n + 1 : InOrder(w)[k] = w.data[k - 1]
  <2>1. \A k \in 1 .. n + 1 : k - 1 \in 0 .. n
    BY <1>1
  <2>2. \A x \in 0 .. n : w.data[x] \in Elem
    <3>1. \A x \in 0 .. n \ {i} : vec.data[x] \in Elem
      BY <1>1, HoldsNumbers
    <3> QED
      BY <1>1, <1>5, <3>1
  <2>3. InOrder(w) \in [1 .. n + 1 -> Elem]
    BY <1>4, <2>1, <2>2 DEF InOrder
  <2>4. n + 1 \in Nat
    BY <1>1
  <2> QED
    <3>1. InOrder(w) \in Seq(Elem) /\ Len(InOrder(w)) = n + 1
      BY <2>3, <2>4, RowIsSeq
    <3>2. InOrder(w) = [k \in 1 .. n + 1 |-> w.data[k - 1]]
      BY <1>4 DEF InOrder
    <3> QED
      BY <3>1, <3>2
<1>12. \A k \in 1 .. n + 1 : InOrder(w)[k] = t[k]
  <2> TAKE k \in 1 .. n + 1
  <2>0. k - 1 \in 0 .. n /\ InOrder(w)[k] = w.data[k - 1]
    BY <1>1, <1>11
  <2>1. CASE k <= i
    <3>1. k \in 1 .. i /\ k - 1 # i
      BY <1>1, <2>1
    <3> QED
      BY <1>5, <1>7, <1>10, <2>0, <2>1, <3>1
  <2>2. CASE k = i + 1
    <3>1. k - 1 = i /\ ~(k <= i)
      BY <1>1, <2>2
    <3> QED
      BY <1>5, <1>10, <2>0, <2>2, <3>1
  <2>3. CASE k > i + 1
    <3>1. k - (i + 1) \in 1 .. n - i /\ i + (k - (i + 1)) = k - 1 /\ k - 1 # i /\ ~(k <= i) /\ k # i + 1
      BY <1>1, <2>3
    <3> QED
      BY <1>5, <1>8, <1>10, <2>0, <3>1
  <2> QED
    BY <1>1, <2>1, <2>2, <2>3
<1>13. InOrder(w) = t
  BY <1>10, <1>11, <1>12, SeqEqual
<1>14. w.count \in Nat
  BY <1>1, <1>4
<1>15. Contents' = t /\ rc' = 1 /\ out' = Raw
  BY <1>2, <1>13, <1>14, ReturnContents
<1>16. t = (Abstract!Prefix(i) \o <<arg>>) \o SubSeq(Contents, i + 1, Len(Contents))
  BY DEF t, p, q, s, Abstract!Prefix
<1>17. Abstract!Insert(i, arg)
  <2>1. i < Len(Contents)
    BY <1>1, <1>6 DEF s
  <2> QED
    BY <1>15, <1>16, <2>1 DEF Abstract!Insert, Abstract!Returns
<1>18. Settled'
  BY <1>0, <1>2, <1>4 DEF Settled, Return
<1> QED
  BY <1>15, <1>17, <1>18

\* vector_remove has its effect where it destroys the element; what follows
\* only closes the gap.
LEMMA RemoveStartPromise ==
  ASSUME PromiseInv, NEW k \in Index, Remove(k)
  PROVE  Abstract!Remove(k) /\ Settled'
<1>0. Inv /\ Idle /\ k \in Nat /\ (vec.null => vec.capacity = 0)
  BY VectorAssumption DEF PromiseInv, Settled, Remove, Index
<1>1. CASE k >= vec.count /\ Return(vec, -1, Raw)
  <2>1. Abstract!Returns(Contents, -1, Raw)
    BY <1>0, <1>1, CallStarts, ReturnContents DEF Abstract!Returns
  <2>2. Settled'
    BY <1>0, <1>1 DEF Settled, Return
  <2> QED
    BY <1>0, <1>1, <2>1, <2>2, CallStarts DEF Abstract!Remove
<1>2. CASE k < vec.count /\ Enter("remove", Vacate(vec, k), k, k + 1, Raw) /\ rc' = 1
  <2> DEFINE w == Vacate(vec, k)
             n == vec.count - 1
             s == Contents
             p == SubSeq(s, 1, k)
             q == SubSeq(s, k + 2, Len(s))
             t == p \o q
             a == Around(w, n, k)
  <2>1. /\ n \in Nat /\ vec.count = n + 1 /\ k \in 0 .. n /\ n < vec.capacity
        /\ vec.capacity \in Nat /\ k \in Elements(vec) /\ Holds(vec, Elements(vec))
        /\ DOMAIN vec = {"null", "data", "count", "capacity", "fault"}
        /\ DOMAIN vec.data = 0 .. vec.capacity - 1
        /\ s \in Seq(Elem) /\ Len(s) = n + 1
        /\ \A x \in 1 .. n + 1 : s[x] = vec.data[x - 1]
    BY <1>0, <1>2, CallStarts, HoldsNumbers DEF Elements
  <2>2. /\ vec' = w /\ pc' = "remove" /\ j' = k + 1 /\ rc' = 1 /\ out' = Raw
    BY <1>2 DEF Enter
  <2>3. /\ w.count = vec.count /\ w.null = vec.null /\ w.capacity = vec.capacity
        /\ \A x \in 0 .. n : x # k => w.data[x] = vec.data[x]
    BY <2>1 DEF Vacate, Put
  <2>4. Holds(w, 0 .. n \ {k})
    <3>1. 0 .. n \ {k} = Elements(vec) \ {k}
      BY <2>1 DEF Elements
    <3> QED
      BY <3>1, <2>1, VacateHolds
  <2> HIDE DEF w
  <2>5. Hole' = k
    BY <2>1, <2>2 DEF Hole
  <2>6. Contents' = a
    BY <2>2, <2>3, <2>5, LoopContents
  <2>7. /\ a \in Seq(Elem) /\ Len(a) = n
        /\ \A x \in 1 .. n : a[x] = w.data[IF x - 1 < k THEN x - 1 ELSE x]
    BY <2>1, <2>4, AroundIsSeq
  <2> HIDE DEF a, s, n
  <2>8. /\ p \in Seq(Elem) /\ Len(p) = k
        /\ \A x \in 1 .. k : p[x] = vec.data[x - 1]
    <3>1. \A x \in 1 .. k : x \in 1 .. n + 1 /\ s[x] \in Elem
      BY <2>1, ElementOfSeq
    <3>2. /\ p \in Seq(Elem) /\ Len(p) = IF 1 <= k THEN k - 1 + 1 ELSE 0
          /\ \A x \in 1 .. k - 1 + 1 : p[x] = s[1 + x - 1]
      BY <2>1, <3>1, SubSeqProperties
    <3> HIDE DEF p
    <3>3. \A x \in 1 .. k : x \in 1 .. k - 1 + 1 /\ 1 + x - 1 = x
      BY <2>1
    <3>4. Len(p) = k
      BY <2>1, <3>2
    <3> QED
      BY <2>1, <3>1, <3>2, <3>3, <3>4
  <2>9. /\ q \in Seq(Elem) /\ Len(q) = n - k
        /\ \A x \in 1 .. n - k : q[x] = vec.data[k + x]
    <3>1. \A x \in k + 2 .. n + 1 : x \in 1 .. n + 1 /\ s[x] \in Elem
      BY <2>1, ElementOfSeq
    <3>2. /\ q \in Seq(Elem) /\ Len(q) = IF k + 2 <= n + 1 THEN n + 1 - (k + 2) + 1 ELSE 0
          /\ \A x \in 1 .. n + 1 - (k + 2) + 1 : q[x] = s[(k + 2) + x - 1]
      BY <2>1, <3>1, SubSeqProperties
    <3> HIDE DEF q
    <3>3. Len(q) = n - k
      <4>1. (IF k + 2 <= n + 1 THEN n + 1 - (k + 2) + 1 ELSE 0) = n - k
        BY <2>1
      <4> QED
        BY <3>2, <4>1
    <3>4. \A x \in 1 .. n - k : /\ x \in 1 .. n + 1 - (k + 2) + 1 /\ (k + 2) + x - 1 = k + x + 1
                                /\ k + x + 1 \in 1 .. n + 1 /\ k + x + 1 - 1 = k + x
      BY <2>1
    <3>5. \A x \in 1 .. n - k : q[x] = s[k + x + 1] /\ s[k + x + 1] = vec.data[k + x]
      BY SMTT(30), <2>1, <3>2, <3>4
    <3> QED
      BY <3>2, <3>3, <3>5
  <2> HIDE DEF p, q
  <2>10. /\ t \in Seq(Elem) /\ Len(t) = n
         /\ \A x \in 1 .. n : t[x] = IF x <= k THEN p[x] ELSE q[x - k]
    <3>1. /\ t \in Seq(Elem) /\ Len(t) = Len(p) + Len(q)
          /\ \A x \in 1 .. Len(p) + Len(q) : t[x] = IF x <= Len(p) THEN p[x] ELSE q[x - Len(p)]
      BY <2>8, <2>9, ConcatProperties
    <3>2. Len(p) + Len(q) = n
      BY <2>1, <2>8, <2>9
    <3> HIDE DEF t
    <3> QED
      BY <2>8, <3>1, <3>2
  <2> HIDE DEF t
  <2>11. \A x \in 1 .. n : a[x] = t[x]
    <3> TAKE x \in 1 .. n
    <3>1. CASE x <= k
      <4>1. x \in 1 .. k /\ x - 1 < k /\ x - 1 \in 0 .. n /\ x - 1 # k
        BY <2>1, <3>1
      <4> QED
        BY <2>3, <2>7, <2>8, <2>10, <3>1, <4>1
    <3>2. CASE x > k
      <4>1. /\ x - k \in 1 .. n - k /\ k + (x - k) = x /\ ~(x - 1 < k) /\ ~(x <= k)
            /\ x \in 0 .. n /\ x # k
        BY <2>1, <3>2
      <4>2. a[x] = vec.data[x]
        BY <2>3, <2>7, <4>1
      <4>3. t[x] = q[x - k] /\ q[x - k] = vec.data[k + (x - k)]
        BY <2>9, <2>10, <4>1
      <4> QED
        BY <4>1, <4>2, <4>3
    <3> QED
      BY <2>1, <3>1, <3>2
  <2>12. a = t
    BY <2>7, <2>10, <2>11, SeqEqual
  <2>13. Abstract!Remove(k)
    <3>1. t = Abstract!Prefix(k) \o SubSeq(Contents, k + 2, Len(Contents))
      BY DEF t, p, q, s, Abstract!Prefix
    <3>2. k < Len(Contents)
      BY <2>1 DEF s
    <3> QED
      BY <2>2, <2>6, <2>12, <3>1, <3>2 DEF Abstract!Remove, Abstract!Returns
  <2>14. Settled'
    BY <1>0, <2>2, <2>3 DEF Settled
  <2> QED
    BY <2>13, <2>14
<1> QED
  BY <1>1, <1>2 DEF Remove

\* What the loop of vector_remove finds
LEMMA RemoveRuns ==
  ASSUME Inv, pc = "remove"
  PROVE  /\ j \in 1 .. vec.count /\ Hole = j - 1 /\ vec.count \in Nat \ {0}
         /\ Holds(vec, 0 .. vec.count - 1 \ {j - 1})
         /\ vec.capacity \in Nat /\ vec.count <= vec.capacity
         /\ DOMAIN vec = {"null", "data", "count", "capacity", "fault"}
         /\ DOMAIN vec.data = 0 .. vec.capacity - 1
<1>1. /\ i \in 0 .. vec.count - 1 /\ j \in i + 1 .. vec.count
      /\ Holds(vec, 0 .. vec.count - 1 \ {j - 1})
  BY DEF Inv, RemoveInv, Elements
<1>2. /\ vec.count \in Nat /\ vec.capacity \in Nat /\ vec.count <= vec.capacity
      /\ DOMAIN vec = {"null", "data", "count", "capacity", "fault"}
      /\ DOMAIN vec.data = 0 .. vec.capacity - 1
  BY <1>1, HoldsNumbers
<1>3. Hole = j - 1
  BY DEF Hole
<1> QED
  BY <1>1, <1>2, <1>3

\* One turn of the loop of vector_remove
LEMMA RemoveShiftPromise ==
  ASSUME PromiseInv, RemoveShift
  PROVE  UNCHANGED <<Contents, rc, out>> /\ Settled'
<1>0. /\ Inv /\ pc = "remove" /\ (vec.null => vec.capacity = 0)
      /\ rc = 1 /\ out = Raw
  BY DEF PromiseInv, Settled, RemoveShift
<1> DEFINE n == vec.count - 1
<1>1. /\ j \in 1 .. n /\ Hole = j - 1 /\ n \in Nat /\ n < vec.capacity /\ vec.capacity \in Nat
      /\ DOMAIN vec = {"null", "data", "count", "capacity", "fault"}
      /\ DOMAIN vec.data = 0 .. vec.capacity - 1
  BY <1>0, RemoveRuns DEF RemoveShift
<1>2. /\ vec' = Move(vec, j - 1, j) /\ pc' = "remove" /\ j' = j + 1
      /\ UNCHANGED <<rc, out>>
  BY <1>0 DEF RemoveShift
<1>3. Hole' = j
  BY <1>1, <1>2 DEF Hole
<1>4. vec'.count = vec.count /\ vec'.null = vec.null /\ vec'.capacity = vec.capacity
  BY <1>1, <1>2 DEF Move
<1> HIDE DEF n
<1>5. Around(vec', n, j) = Around(vec, n, j - 1)
  <2>1. j \in 0 .. n /\ j - 1 \in 0 .. n /\ j = (j - 1) + 1
    BY <1>1
  <2> QED
    BY <1>1, <1>2, <2>1, MoveKeepsOrder
<1>6. Contents' = Contents
  BY <1>0, <1>1, <1>2, <1>3, <1>4, <1>5, LoopContents DEF n
<1>7. Settled'
  BY <1>0, <1>2, <1>4 DEF Settled
<1> QED
  BY <1>2, <1>6, <1>7

\* vector_remove ends: the elements are in order again, contracted or not.
LEMMA RemoveFinishPromise ==
  ASSUME PromiseInv, RemoveFinish
  PROVE  UNCHANGED <<Contents, rc, out>> /\ Settled'
<1>0. /\ Inv /\ pc = "remove" /\ (vec.null => vec.capacity = 0)
      /\ rc = 1 /\ out = Raw
  BY DEF PromiseInv, Settled, RemoveFinish
<1> DEFINE n == vec.count - 1
           u == [vec EXCEPT !.count = n]
<1>1. /\ Hole = n /\ n \in Nat /\ n \in 0 .. vec.capacity /\ vec.capacity \in Nat
      /\ DOMAIN vec = {"null", "data", "count", "capacity", "fault"}
      /\ Holds(vec, 0 .. n - 1)
  <2>1. /\ j = vec.count /\ Hole = n /\ n \in Nat /\ n \in 0 .. vec.capacity
        /\ vec.capacity \in Nat
        /\ DOMAIN vec = {"null", "data", "count", "capacity", "fault"}
        /\ Holds(vec, 0 .. vec.count - 1 \ {j - 1})
    BY <1>0, RemoveRuns DEF RemoveFinish
  <2>2. 0 .. vec.count - 1 \ {j - 1} = 0 .. n - 1
    BY <2>1
  <2>3. Holds(vec, 0 .. n - 1)
    BY <2>1, <2>2, Zenon
  <2> QED
    BY <2>1, <2>3
<1> HIDE DEF n
<1>2. PICK v \in Contract(u) : Return(v, 1, Raw)
  BY DEF RemoveFinish, n
<1>3. /\ Holds(u, 0 .. n - 1) /\ u.count = n /\ u.data = vec.data /\ u.null = vec.null
      /\ u.capacity = vec.capacity
  BY <1>1, CountHolds
<1> HIDE DEF u
<1>4. Holds(u, Elements(u))
  BY <1>3 DEF Elements
<1>5. Holds(v, Elements(v)) /\ Keeps(u, v) /\ v.count = n
  BY <1>3, <1>4, ContractHolds, ContractKeeps
<1>6. Contents' = InOrder(u) /\ rc' = 1 /\ out' = Raw
  BY <1>1, <1>2, <1>3, <1>4, <1>5, KeptInOrder, ReturnContents
<1>7. Contents = InOrder(u)
  <2>1. Contents = [k \in 1 .. n |-> vec.data[IF k - 1 < n THEN k - 1 ELSE k]]
    BY <1>0, <1>1 DEF Contents, n
  <2>2. \A k \in 1 .. n : k - 1 < n
    BY <1>1
  <2> QED
    BY <1>3, <2>1, <2>2 DEF InOrder
<1>8. Settled'
  BY <1>0, <1>2, <1>3, <1>5 DEF Settled, Return, Keeps
<1> QED
  BY <1>0, <1>6, <1>7, <1>8

-----------------------------------------------------------------------------
(* The specification.                                                      *)

\* What each call does, together with the part of the invariant it keeps
LEMMA Promises ==
  ASSUME PromiseInv
  PROVE  /\ \A k \in Index, e \in Elem :
              /\ Set(k, e) => Abstract!Set(k, e) /\ Settled'
              /\ Insert(k, e) =>
                   /\ Abstract!Begin \/ (rc' = -1 /\ Abstract!Insert(k, e))
                   /\ Settled'
         /\ \A k \in Index : Remove(k) => Abstract!Remove(k) /\ Settled'
         /\ \A n \in 0 .. 2 * MaxCapacity : ReserveCall(n) => Abstract!Reserve(n) /\ Settled'
         /\ InsertFinish => Abstract!Insert(i, arg) /\ rc' = 1 /\ Settled'
         /\ InsertShift \/ RemoveShift \/ RemoveFinish =>
              UNCHANGED <<Contents, rc, out>> /\ Settled'
         /\ (\E keep \in BOOLEAN : PopBack(keep)) => Abstract!PopBack /\ Settled'
         /\ ShrinkCall => Abstract!ShrinkToFit /\ Settled'
         /\ Destroy \/ Clear => Abstract!Clear /\ Settled'
         /\ Initialize => Abstract!Initialize /\ Settled'
<1>1. \A n \in 0 .. 2 * MaxCapacity : n \in Nat
  BY VectorAssumption
<1>2. \A n \in 0 .. 2 * MaxCapacity : ReserveCall(n) => Abstract!Reserve(n) /\ Settled'
  BY <1>1, ReservePromise
<1>3. \A k \in Index, e \in Elem :
        /\ Set(k, e) => Abstract!Set(k, e) /\ Settled'
        /\ Insert(k, e) =>
             /\ Abstract!Begin \/ (rc' = -1 /\ Abstract!Insert(k, e))
             /\ Settled'
  BY SetPromise, InsertStartPromise
<1> QED
  BY <1>2, <1>3, RemoveStartPromise, InsertFinishPromise, InsertShiftPromise,
     RemoveShiftPromise, RemoveFinishPromise, PopBackPromise, ShrinkPromise, ClearPromise,
     InitializePromise

\* A fresh vector holds the empty sequence.
LEMMA InitPromise == Init => PromiseInv /\ Abstract!Init
<1> SUFFICES ASSUME Init PROVE PromiseInv /\ Abstract!Init
  OBVIOUS
<1>1. Inv
  BY InitInv
<1>2. /\ vec.count = 0 /\ ~vec.null /\ pc = "idle" /\ rc = 0 /\ out = Raw
  BY DEF Init, Empty
<1>3. Settled
  BY <1>2 DEF Settled
<1>4. Contents = <<>>
  BY <1>1, <1>2, CallStarts, NoElements DEF Idle
<1> QED
  BY <1>1, <1>2, <1>3, <1>4 DEF PromiseInv, Abstract!Init

\* For every bound: a vector without a block has no slots, and a removal that
\* shifts elements already knows what it returns.
THEOREM PromiseInvariant == Spec => []PromiseInv
<1>1. PromiseInv /\ [Next]_vars => PromiseInv'
  <2> SUFFICES ASSUME PromiseInv, [Next]_vars PROVE PromiseInv'
    OBVIOUS
  <2>1. Inv'
    BY NextInv DEF PromiseInv
  <2>2. Settled'
    <3>1. CASE UNCHANGED vars
      BY <3>1 DEF vars, PromiseInv, Settled
    <3>2. CASE Next
      BY <3>2, Promises DEF Next
    <3> QED
      BY <3>1, <3>2
  <2> QED
    BY <2>1, <2>2 DEF PromiseInv
<1> QED
  BY <1>1, InitPromise, PTL DEF Spec

\* Every step of the vector is a step of the sequence or changes nothing of
\* it: where the two differ is in the indices past the end, which are alike.
LEMMA StepImplements ==
  ASSUME PromiseInv, Next
  PROVE  Abstract!Next \/ UNCHANGED <<Contents, rc, out>>
<1> DEFINE l == Len(Contents)
<1>0. Idle => l \in Nat /\ l = vec.count
  BY CallStarts DEF PromiseInv
<1>1. \A k \in Index : k \in Nat
  BY VectorAssumption DEF Index
<1> HIDE DEF l
<1>2. ASSUME NEW k \in Index, NEW e \in Elem, Set(k, e)
      PROVE  \E x \in 0 .. l + 1 : Abstract!Set(x, e)
  <2>1. Abstract!Set(k, e) /\ l \in Nat /\ k \in Nat
    BY <1>0, <1>1, <1>2, Promises DEF Set
  <2>2. CASE k <= l
    BY <2>1, <2>2
  <2>3. CASE k > l
    <3>1. Abstract!Returns(Contents, -1, Raw)
      BY <2>1, <2>3 DEF Abstract!Set, l
    <3>2. Abstract!Set(l + 1, e)
      BY <2>1, <3>1 DEF Abstract!Set, l
    <3> QED
      BY <2>1, <3>2
  <2> QED
    BY <2>1, <2>2, <2>3
<1>3. ASSUME NEW k \in Index, NEW e \in Elem, Insert(k, e)
      PROVE  Abstract!Begin \/ \E x \in 0 .. l + 1 : Abstract!Insert(x, e)
  <2>1. /\ Abstract!Begin \/ (rc' = -1 /\ Abstract!Insert(k, e))
        /\ l \in Nat /\ k \in Nat
    BY <1>0, <1>1, <1>3, Promises DEF Insert
  <2>2. CASE Abstract!Insert(k, e) /\ k <= l
    BY <2>1, <2>2
  <2>3. CASE Abstract!Insert(k, e) /\ k > l
    <3>1. Abstract!Returns(Contents, -1, Raw)
      BY <2>1, <2>3 DEF Abstract!Insert, l
    <3>2. Abstract!Insert(l + 1, e)
      BY <3>1 DEF Abstract!Insert
    <3> QED
      BY <2>1, <3>2
  <2> QED
    BY <2>1, <2>2, <2>3
<1>4. ASSUME NEW k \in Index, Remove(k)
      PROVE  \E x \in 0 .. l + 1 : Abstract!Remove(x)
  <2>1. Abstract!Remove(k) /\ l \in Nat /\ k \in Nat
    BY <1>0, <1>1, <1>4, Promises DEF Remove
  <2>2. CASE k <= l
    BY <2>1, <2>2
  <2>3. CASE k > l
    <3>1. Abstract!Returns(Contents, -1, Raw)
      BY <2>1, <2>3 DEF Abstract!Remove, l
    <3>2. Abstract!Remove(l + 1)
      BY <2>1, <3>1 DEF Abstract!Remove, l
    <3> QED
      BY <2>1, <3>2
  <2> QED
    BY <2>1, <2>2, <2>3
<1>5. ASSUME NEW n \in 0 .. 2 * MaxCapacity, ReserveCall(n)
      PROVE  \E x \in 0 .. l + 1 : Abstract!Reserve(x)
  <2>1. Abstract!Reserve(n) /\ l \in Nat /\ n \in Nat
    BY <1>0, <1>5, Promises, VectorAssumption DEF ReserveCall
  <2>2. CASE n <= l
    BY <2>1, <2>2
  <2>3. CASE n > l
    <3>1. PICK m \in 0 .. l, code \in {0, -1} :
            /\ m = l \/ (m >= n /\ m >= MinCapacity)
            /\ Abstract!Returns(Abstract!Prefix(m), code, Raw)
      BY <2>1 DEF Abstract!Reserve, l
    <3>2. m = l
      BY <2>1, <2>3, <3>1
    <3>3. Abstract!Reserve(l + 1)
      BY <3>1, <3>2 DEF Abstract!Reserve, l
    <3> QED
      BY <2>1, <3>3
  <2> QED
    BY <2>1, <2>2, <2>3
<1>6. ASSUME InsertFinish
      PROVE  \E x \in 0 .. l + 1, e \in Elem : Abstract!Insert(x, e)
  <2>1. Abstract!Insert(i, arg)
    BY <1>6, Promises
  <2>2. i \in 0 .. vec.count - 1 /\ arg \in Elem /\ vec.count \in Nat
    BY <1>6, InsertRuns DEF InsertFinish, PromiseInv
  <2>3. l = vec.count
    <3>1. Contents = Around(vec, vec.count, Hole)
      BY <1>6, LoopContents DEF InsertFinish
    <3>2. Hole \in 0 .. vec.count /\ Holds(vec, 0 .. vec.count \ {Hole})
      BY <1>6, InsertRuns DEF InsertFinish, PromiseInv
    <3> QED
      BY <2>2, <3>1, <3>2, AroundIsSeq DEF l
  <2>4. i \in 0 .. l + 1
    BY <2>2, <2>3
  <2> QED
    BY <2>1, <2>2, <2>4
<1>7. CASE InsertShift \/ RemoveShift \/ RemoveFinish
  BY <1>7, Promises
<1>8. CASE Initialize \/ Destroy \/ Clear \/ ShrinkCall \/ \E keep \in BOOLEAN : PopBack(keep)
  BY <1>8, Promises DEF Abstract!Next
<1> QED
  BY <1>2, <1>3, <1>4, <1>5, <1>6, <1>7, <1>8 DEF Next, Abstract!Next, l

\* For every bound: the vector implements the sequence of its comments, with
\* the elements as its state, through growing, shrinking, shifting and failing.
THEOREM VectorIsSequence == Spec => ImplementsSequence
<1>1. PromiseInv /\ [Next]_vars => [Abstract!Next]_(Abstract!vars)
  <2> SUFFICES ASSUME PromiseInv, [Next]_vars PROVE [Abstract!Next]_(Abstract!vars)
    OBVIOUS
  <2>1. CASE UNCHANGED vars
    BY <2>1 DEF vars, Abstract!vars, Contents, Hole
  <2>2. CASE Next
    BY <2>2, StepImplements DEF Abstract!vars
  <2> QED
    BY <2>1, <2>2
<1>2. Init => Abstract!Init
  BY InitPromise
<1> QED
  BY <1>1, <1>2, PromiseInvariant, PTL DEF Spec, ImplementsSequence, Abstract!Spec

\* For every bound: each call does to the sequence what it promises for its
\* own arguments, in the step where its effect is complete, and no step of a
\* call that is under way changes the sequence.
THEOREM VectorKeepsPromises == Spec => CallsKeepTheirPromises
<1> DEFINE A ==
      /\ \A k \in Index, e \in Elem :
          /\ Set(k, e) => Abstract!Set(k, e)
          /\ Insert(k, e) => Abstract!Begin \/ (rc' = -1 /\ Abstract!Insert(k, e))
      /\ \A k \in Index : Remove(k) => Abstract!Remove(k)
      /\ \A n \in 0 .. 2 * MaxCapacity : ReserveCall(n) => Abstract!Reserve(n)
      /\ InsertFinish => Abstract!Insert(i, arg) /\ rc' = 1
      /\ InsertShift \/ RemoveShift \/ RemoveFinish => UNCHANGED Contents
      /\ (\E keep \in BOOLEAN : PopBack(keep)) => Abstract!PopBack
      /\ ShrinkCall => Abstract!ShrinkToFit
      /\ Destroy \/ Clear => Abstract!Clear
<1>1. PromiseInv => [A]_vars
  <2> SUFFICES ASSUME PromiseInv PROVE A
    OBVIOUS
  <2> QED
    BY Promises
<1>2. CallsKeepTheirPromises <=> [][A]_vars
  BY DEF CallsKeepTheirPromises
<1> HIDE DEF A
<1> QED
  BY <1>1, <1>2, PromiseInvariant, PTL

-----------------------------------------------------------------------------
(* The priority queue.                                                     *)

\* A vector whose data is NULL has no slots, so that an empty one is a heap.
Owned(v) == Holds(v, Elements(v)) /\ (v.null => v.capacity = 0)

\* Only counted nodes are moved.
Moving ==
  /\ pc \in {"idle", "bubble", "sift"}
  /\ i \in 0 .. MaxCapacity /\ (pc # "idle" => i < vec.count)
  /\ rc \in {-1, 0, 1} /\ out \in Elem \cup {Raw}

\* As long as no repair was left out the order of the heap fails only where
\* the running loop is going to look.
OrderedBut ==
  ~unrepaired =>
    /\ pc = "idle" => InHeap(Rank, vec.data, vec.count, 0)
    /\ pc = "bubble" => HeapAbove(Rank, vec.data, vec.count, i)
    /\ pc = "sift" => HeapBelow(Rank, vec.data, vec.count, 0, i)

\* The inductive invariant
PqInv ==
  /\ Owned(vec) /\ Moving /\ OrderedBut
  /\ unrepaired \in BOOLEAN /\ failed \in BOOLEAN /\ (failed => unrepaired)

-----------------------------------------------------------------------------
(* The vector under the heap.                                              *)

\* The counted elements have a rank, so that they form an array of Heap.
LEMMA OwnedIsArray ==
  ASSUME NEW v, Owned(v)
  PROVE  /\ Array(Rank, v.data, v.count, v.capacity)
         /\ v.count \in Nat /\ v.capacity \in Nat /\ v.count <= v.capacity
         /\ v.capacity <= MaxCapacity
         /\ \A x \in 0 .. v.count - 1 : v.data[x] \in Elem
<1>1. /\ v.count \in Nat /\ v.capacity \in Nat /\ v.count <= v.capacity
      /\ v.capacity <= MaxCapacity /\ DOMAIN v.data = 0 .. v.capacity - 1
  BY VectorAssumption DEF Owned, Holds, VecType, Block
<1>2. \A x \in 0 .. v.count - 1 : v.data[x] \in Elem
  BY <1>1 DEF Owned, Holds, Elements, Block
<1> QED
  BY <1>1, <1>2, PriorityQueueAssumption DEF Array

\* Blocks that were replaced are owned like the old ones.
LEMMA KeptIsOwned ==
  ASSUME NEW v, Owned(v), NEW w, Holds(w, Elements(w)), Keeps(v, w)
  PROVE  Owned(w)
BY DEF Owned, Keeps

\* Making room for one more element keeps the elements.
LEMMA GrowOwns ==
  ASSUME NEW v, Owned(v), NEW r \in Grow(v)
  PROVE  /\ Owned(r.v) /\ Keeps(v, r.v) /\ r.v.count = v.count /\ r.rc \in {0, -1}
         /\ r.rc = 0 => r.v.count < r.v.capacity
<1>1. Holds(v, Elements(v))
  BY DEF Owned
<1>2. /\ Holds(r.v, Elements(r.v)) /\ r.v.count = v.count /\ r.rc \in {0, -1}
      /\ r.rc = 0 => r.v.count < r.v.capacity
  BY <1>1, GrowHolds
<1>3. Keeps(v, r.v)
  BY <1>1, GrowKeeps
<1> QED
  BY <1>2, <1>3, KeptIsOwned

\* Contracting keeps the elements, whether the smaller block is granted or not.
LEMMA ContractOwns ==
  ASSUME NEW v, Owned(v), NEW w \in Contract(v)
  PROVE  Owned(w) /\ Keeps(v, w) /\ w.count = v.count
<1>1. Holds(v, Elements(v))
  BY DEF Owned
<1>2. Holds(w, Elements(w)) /\ w.count = v.count
  BY <1>1, ContractHolds
<1>3. Keeps(v, w)
  BY <1>1, ContractKeeps
<1> QED
  BY <1>2, <1>3, KeptIsOwned

\* A new last element is added after the others.
LEMMA AddLastOwns ==
  ASSUME NEW v, Owned(v), v.count < v.capacity, NEW e \in Elem
  PROVE  /\ Owned(AddLast(v, e)) /\ AddLast(v, e).count = v.count + 1
         /\ AddLast(v, e).data[v.count] = e
         /\ \A x \in 0 .. v.count - 1 : AddLast(v, e).data[x] = v.data[x]
BY AddLastHolds DEF Owned

\* Taking the first element and moving the last one there leaves the others
\* in their places; the queue of one element is empty afterwards.
LEMMA LastToFirstOwns ==
  ASSUME NEW v, Owned(v), v.count > 0
  PROVE  LET w == LastToFirst(Vacate(v, 0))
         IN  /\ Owned(w) /\ w.count = v.count - 1
             /\ \A x \in 0 .. v.count - 2 :
                  w.data[x] = IF x = 0 THEN v.data[v.count - 1] ELSE v.data[x]
<1> DEFINE u == Vacate(v, 0)
           t == IF u.count = 1 THEN u ELSE Move(u, 0, u.count - 1)
           w == [t EXCEPT !.count = v.count - 1]
<1>0. /\ v.count \in Nat /\ v.capacity \in Nat /\ Holds(v, Elements(v))
      /\ v.count <= v.capacity
      /\ DOMAIN v.data = 0 .. v.capacity - 1 /\ v.null \in BOOLEAN
      /\ DOMAIN v = {"null", "data", "count", "capacity", "fault"}
  BY DEF Owned, Holds, VecType, Block
<1>1. /\ Holds(u, Elements(v) \ {0}) /\ u.count = v.count /\ u.capacity = v.capacity
  <2>1. 0 \in Elements(v)
    BY <1>0 DEF Elements
  <2> QED
    BY <2>1, <1>0, VacateHolds
<1>2. u.null = v.null /\ u.data = Put(v.data, 0, Raw) /\ DOMAIN u = DOMAIN v
  BY <1>0 DEF Vacate
<1>3. LastToFirst(u) = [t EXCEPT !.count = @ - 1]
  BY DEF LastToFirst
<1> HIDE DEF u
<1>4. /\ Holds(t, 0 .. v.count - 2) /\ t.count = v.count /\ t.capacity = v.capacity
      /\ t.null = v.null
      /\ \A x \in 0 .. v.count - 2 :
           t.data[x] = IF x = 0 THEN v.data[v.count - 1] ELSE v.data[x]
  <2>1. CASE v.count = 1
    <3>1. Elements(v) \ {0} = 0 .. v.count - 2
      BY <2>1 DEF Elements
    <3>2. t = u
      BY <1>1, <2>1
    <3> QED
      BY <1>1, <1>2, <2>1, <3>1, <3>2
  <2>2. CASE v.count # 1
    <3> DEFINE l == v.count - 1
    <3>1. /\ l \in Elements(v) \ {0} /\ 0 \in 0 .. u.capacity - 1
          /\ 0 \notin Elements(v) \ {0}
      BY <1>0, <1>1, <2>2 DEF Elements
    <3>2. t = Move(u, 0, l)
      BY <1>1, <2>2
    <3>3. /\ Holds(Move(u, 0, l), ((Elements(v) \ {0}) \ {l}) \cup {0})
          /\ Move(u, 0, l).count = u.count /\ Move(u, 0, l).capacity = u.capacity
      BY <3>1, <1>1, MoveHolds
    <3>4. ((Elements(v) \ {0}) \ {l}) \cup {0} = 0 .. v.count - 2
      BY <1>0, <2>2 DEF Elements
    <3>5. /\ t.null = v.null
          /\ t.data = Put(Put(u.data, 0, IF l \in DOMAIN u.data THEN u.data[l] ELSE Raw), l, Raw)
      BY <3>2, <1>0, <1>2 DEF Move
    <3>6. \A x \in 0 .. v.count - 2 :
            t.data[x] = IF x = 0 THEN v.data[v.count - 1] ELSE v.data[x]
      <4>1. /\ u.data = [y \in 0 .. v.capacity - 1 |-> IF y = 0 THEN Raw ELSE v.data[y]]
            /\ l \in 1 .. v.capacity - 1
        <5>1. (0 .. v.capacity - 1) \cup {0} = 0 .. v.capacity - 1 /\ l \in 1 .. v.capacity - 1
          BY <1>0, <2>2
        <5> QED
          BY <5>1, <1>0, <1>2 DEF Put
      <4>2. t.data = Put(Put(u.data, 0, v.data[l]), l, Raw)
        BY <4>1, <3>5
      <4>3. DOMAIN u.data = 0 .. v.capacity - 1 /\ 0 \in 0 .. v.capacity - 1
        BY <4>1, <1>0
      <4>4. t.data = [y \in 0 .. v.capacity - 1 |->
                        IF y = l THEN Raw ELSE IF y = 0 THEN v.data[l] ELSE u.data[y]]
        <5>1. (0 .. v.capacity - 1) \cup {0} = 0 .. v.capacity - 1
              /\ (0 .. v.capacity - 1) \cup {l} = 0 .. v.capacity - 1
          BY <4>1, <4>3
        <5> HIDE DEF l
        <5>2. Put(u.data, 0, v.data[l]) =
                [y \in 0 .. v.capacity - 1 |-> IF y = 0 THEN v.data[l] ELSE u.data[y]]
          BY <5>1, <4>3 DEF Put
        <5> QED
          <6> DEFINE p == [y \in 0 .. v.capacity - 1 |-> IF y = 0 THEN v.data[l] ELSE u.data[y]]
          <6>1. t.data = Put(p, l, Raw) /\ DOMAIN p = 0 .. v.capacity - 1
            BY <5>2, <4>2
          <6>2. t.data = [y \in 0 .. v.capacity - 1 |-> IF y = l THEN Raw ELSE p[y]]
            BY <5>1, <6>1 DEF Put
          <6> QED
            BY <6>2
      <4>5. \A x \in 0 .. v.count - 2 : x \in 0 .. v.capacity - 1 /\ x # l
        BY <1>0
      <4> QED
        BY <4>1, <4>4, <4>5
    <3> QED
      BY <3>2, <3>3, <3>4, <3>5, <3>6, <1>1
  <2> QED
    BY <2>1, <2>2
<1>5. LastToFirst(Vacate(v, 0)) = w
  BY <1>3, <1>4 DEF u
<1> HIDE DEF t
<1>6. /\ Holds(w, 0 .. v.count - 2) /\ w.count = v.count - 1 /\ w.capacity = t.capacity
      /\ w.null = t.null /\ w.data = t.data
  <2>1. v.count - 1 \in 0 .. t.capacity
    BY <1>0, <1>4
  <2>2. DOMAIN t = {"null", "data", "count", "capacity", "fault"}
    BY <1>4 DEF Holds, VecType
  <2>3. w.null = t.null /\ w.data = t.data
    BY <2>2
  <2> QED
    BY <2>1, <2>3, <1>4, CountHolds
<1>7. Elements(w) = 0 .. v.count - 2
  BY <1>0, <1>6 DEF Elements
<1> QED
  BY <1>4, <1>5, <1>6, <1>7 DEF Owned

\* A swap of two elements leaves the same slots occupied.
LEMMA SwapOwns ==
  ASSUME NEW v, Owned(v), NEW x \in 0 .. v.count - 1, NEW y \in 0 .. v.count - 1
  PROVE  LET w == [v EXCEPT !.data = Swapped(@, x, y)]
         IN  Owned(w) /\ w.count = v.count /\ w.data = Swapped(v.data, x, y)
<1> DEFINE d == Swapped(v.data, x, y)
           w == [v EXCEPT !.data = d]
<1>0. /\ v.count \in Nat /\ v.capacity \in Nat /\ Holds(v, Elements(v))
      /\ v.count <= v.capacity
      /\ v.data \in Block(v.capacity) /\ v \in VecType
  BY DEF Owned, Holds, VecType, Block
<1>1. d \in Block(v.capacity)
  BY SMTT(30), <1>0 DEF Swapped, Block
<1>2. \A z \in 0 .. v.capacity - 1 : d[z] # Raw <=> z \in Elements(v)
  <2>1. x \in 0 .. v.capacity - 1 /\ y \in 0 .. v.capacity - 1 /\ x \in Elements(v)
        /\ y \in Elements(v)
    BY <1>0 DEF Elements
  <2>2. v.data[x] # Raw /\ v.data[y] # Raw
    BY <1>0, <2>1 DEF Holds
  <2>3. ASSUME NEW z \in 0 .. v.capacity - 1
        PROVE  d[z] = IF z = y THEN v.data[x] ELSE IF z = x THEN v.data[y] ELSE v.data[z]
    BY <1>0, <2>1 DEF Swapped, Block
  <2> HIDE DEF d
  <2> QED
    BY <1>0, <2>1, <2>2, <2>3 DEF Holds
<1> HIDE DEF d
<1>3. v.capacity \in 0 .. MaxCapacity
  BY <1>0 DEF VecType
<1>4. /\ w \in VecType /\ w.data = d /\ w.count = v.count /\ w.capacity = v.capacity
      /\ w.null = v.null /\ w.fault = v.fault
  BY <1>0, <1>1, <1>3 DEF VecType
<1>5. Elements(w) = Elements(v)
  BY <1>4 DEF Elements
<1> HIDE DEF w
<1>6. Holds(w, Elements(w))
  BY <1>0, <1>1, <1>2, <1>4, <1>5 DEF Holds
<1>7. Owned(w) /\ w.count = v.count /\ w.data = d
  BY <1>4, <1>6 DEF Owned
<1> QED
  BY <1>7 DEF w, d

\* The order is one of the elements alone, wherever the block is.
LEMMA OrderOfElements ==
  ASSUME NEW g, NEW h, NEW n \in Nat, \A x \in 0 .. n - 1 : h[x] = g[x]
  PROVE  /\ InHeap(Rank, g, n, 0) => InHeap(Rank, h, n, 0)
         /\ HeapBelow(Rank, g, n, 0, 0) => HeapBelow(Rank, h, n, 0, 0)
<1>1. \A c \in 1 .. n - 1 : c \in 0 .. n - 1 /\ Parent(c) \in 0 .. n - 1
  BY ParentAndChildren
<1> QED
  BY <1>1 DEF InHeap, HeapBelow, Less

\* A heap of at most one element has no order.
LEMMA SmallHeap ==
  ASSUME NEW g, NEW n \in Nat, n <= 1
  PROVE  InHeap(Rank, g, n, 0)
BY DEF InHeap

-----------------------------------------------------------------------------
(* Every step keeps the invariant.                                         *)

\* A call that returns a heap, or one that was left unrepaired, keeps it.
LEMMA ReturnKeepsInv ==
  ASSUME NEW v, Owned(v), NEW code \in {-1, 0, 1}, NEW o \in Elem \cup {Raw},
         Return(v, code, o), unrepaired' \in BOOLEAN, failed' \in BOOLEAN,
         failed' => unrepaired',
         ~unrepaired' => InHeap(Rank, v.data, v.count, 0)
  PROVE  PqInv'
<1>1. Owned(vec)'
  BY DEF Return
<1>2. Moving'
  BY VectorAssumption DEF Return, Moving
<1>3. OrderedBut'
  BY Zenon DEF Return, OrderedBut
<1> QED
  BY <1>1, <1>2, <1>3 DEF PqInv

\* The call starts its loop with the heap in order but for node x.
LEMMA RepairKeepsInv ==
  ASSUME PqInv, NEW loop \in {"bubble", "sift"}, NEW v, Owned(v), NEW x \in 0 .. v.count - 1,
         NEW o \in Elem \cup {Raw}, Repair(loop, v, x, o),
         ~unrepaired /\ loop = "bubble" => HeapAbove(Rank, v.data, v.count, x),
         ~unrepaired /\ loop = "sift" => HeapBelow(Rank, v.data, v.count, 0, x)
  PROVE  PqInv'
<1>1. Owned(vec)'
  BY DEF Repair
<1>2. /\ unrepaired' = unrepaired /\ failed' = failed
      /\ vec' = v /\ pc' = loop /\ i' = x /\ rc' = 1 /\ out' = o
  BY DEF Repair, Quiet
<1>3. x \in 0 .. MaxCapacity /\ x < v.count
  BY OwnedIsArray, VectorAssumption
<1>4. Moving'
  BY <1>2, <1>3 DEF Moving
<1>5. OrderedBut'
  BY <1>2, Zenon DEF OrderedBut
<1> QED
  BY <1>1, <1>2, <1>4, <1>5 DEF PqInv

\* Enqueuing puts the new element after the heap, or leaves the heap alone.
LEMMA EnqueueKeepsInv ==
  ASSUME PqInv, NEW e \in Elem, Enqueue(e)
  PROVE  PqInv'
<1>0. /\ Owned(vec) /\ (~unrepaired => InHeap(Rank, vec.data, vec.count, 0))
      /\ unrepaired \in BOOLEAN /\ failed \in BOOLEAN /\ (failed => unrepaired)
      /\ vec.count \in Nat
  BY OwnedIsArray DEF PqInv, OrderedBut, Enqueue, Ready, Idle
<1> DEFINE grown(r) == IF r.rc < 0 THEN r.v ELSE AddLast(r.v, e)
<1>1. PICK r \in Grow(vec) :
        \/ grown(r).count > 1
           /\ (Repair("bubble", grown(r), grown(r).count - 1, Raw) \/ GiveUp(grown(r), Raw))
        \/ grown(r).count <= 1 /\ Return(grown(r), 1, Raw) /\ Quiet
  BY DEF Enqueue
<1> DEFINE v == grown(r)
<1>2. /\ Owned(r.v) /\ Keeps(vec, r.v) /\ r.v.count = vec.count /\ r.rc \in {0, -1}
      /\ (r.rc = 0 => r.v.count < r.v.capacity)
  BY <1>0, GrowOwns
<1>3. ~unrepaired => InHeap(Rank, r.v.data, r.v.count, 0)
  BY <1>0, <1>2, OrderOfElements DEF Keeps
<1>4. /\ Owned(v) /\ v.count \in Nat
      /\ ~unrepaired /\ v.count > 1 => HeapAbove(Rank, v.data, v.count, v.count - 1)
  <2>1. CASE r.rc = -1
    <3>1. v = r.v
      BY <2>1
    <3>2. CASE ~unrepaired /\ v.count > 1
      <4> DEFINE m == v.count - 1
      <4>1. m \in Nat /\ m + 1 = v.count
        BY <1>0, <1>2, <3>1, <3>2
      <4>2. InHeap(Rank, v.data, m, 0)
        BY <4>1, <1>3, <3>1, <3>2 DEF InHeap
      <4> HIDE DEF m, v
      <4>3. HeapAbove(Rank, v.data, m + 1, m)
        BY <4>1, <4>2, BubbleStarts
      <4> QED
        BY <4>1, <4>3, <1>0, <1>2, <3>1 DEF m
    <3> QED
      BY <3>1, <3>2, <1>0, <1>2
  <2>2. CASE r.rc = 0
    <3>1. v = AddLast(r.v, e)
      BY <2>2
    <3>2. /\ Owned(v) /\ v.count = vec.count + 1
          /\ \A x \in 0 .. vec.count - 1 : v.data[x] = r.v.data[x]
      BY <3>1, <2>2, <1>2, AddLastOwns
    <3>3. CASE ~unrepaired
      <4>1. InHeap(Rank, r.v.data, vec.count, 0)
        BY <3>3, <1>2, <1>3
      <4> HIDE DEF v
      <4>2. HeapAbove(Rank, v.data, vec.count + 1, vec.count)
        BY <4>1, <3>2, <1>0, BubbleStarts
      <4> QED
        BY <4>2, <3>2, <1>0
    <3> QED
      BY <3>2, <3>3, <1>0
  <2> QED
    BY <2>1, <2>2, <1>2
<1> HIDE DEF v
<1>5. CASE v.count > 1 /\ Repair("bubble", v, v.count - 1, Raw)
  <2>1. v.count - 1 \in 0 .. v.count - 1
    BY <1>4, <1>5
  <2> QED
    BY <2>1, <1>4, <1>5, RepairKeepsInv
<1>6. CASE v.count > 1 /\ GiveUp(v, Raw)
  BY <1>0, <1>4, <1>6, ReturnKeepsInv DEF GiveUp
<1>7. CASE v.count <= 1 /\ Return(v, 1, Raw) /\ Quiet
  BY <1>0, <1>4, <1>7, ReturnKeepsInv, SmallHeap DEF Quiet
<1> QED
  BY <1>1, <1>5, <1>6, <1>7 DEF v

\* Dequeuing puts the last element where the first one was.
LEMMA DequeueKeepsInv ==
  ASSUME PqInv, NEW hasOut \in BOOLEAN, Dequeue(hasOut)
  PROVE  PqInv'
<1>0. /\ Owned(vec) /\ (~unrepaired => InHeap(Rank, vec.data, vec.count, 0))
      /\ unrepaired \in BOOLEAN /\ failed \in BOOLEAN /\ (failed => unrepaired)
      /\ vec.count \in Nat
  BY OwnedIsArray DEF PqInv, OrderedBut, Dequeue, Ready, Idle
<1>1. CASE Return(vec, IF hasOut THEN 0 ELSE -1, Raw) /\ Quiet
  <2>1. (IF hasOut THEN 0 ELSE -1) \in {-1, 0, 1}
    OBVIOUS
  <2> QED
    BY <1>0, <1>1, <2>1, ReturnKeepsInv DEF Quiet
<1>2. CASE vec.count > 0 /\ \E v \in Contract(LastToFirst(Vacate(vec, 0))) :
             \/ v.count > 1 /\ (Repair("sift", v, 0, vec.data[0]) \/ GiveUp(v, vec.data[0]))
             \/ v.count <= 1 /\ Return(v, 1, vec.data[0]) /\ Quiet
  <2> DEFINE u == LastToFirst(Vacate(vec, 0))
  <2>1. PICK v \in Contract(u) :
             \/ v.count > 1 /\ (Repair("sift", v, 0, vec.data[0]) \/ GiveUp(v, vec.data[0]))
             \/ v.count <= 1 /\ Return(v, 1, vec.data[0]) /\ Quiet
    BY <1>2
  <2>2. /\ Owned(u) /\ u.count = vec.count - 1
        /\ \A x \in 0 .. vec.count - 2 :
             u.data[x] = IF x = 0 THEN vec.data[vec.count - 1] ELSE vec.data[x]
    BY <1>0, <1>2, LastToFirstOwns
  <2> HIDE DEF u
  <2>3. /\ Owned(v) /\ v.count = vec.count - 1
        /\ \A x \in 0 .. v.count - 1 :
             v.data[x] = IF x = 0 THEN vec.data[vec.count - 1] ELSE vec.data[x]
    BY <2>1, <2>2, <1>0, ContractOwns DEF Keeps
  <2>4. vec.data[0] \in Elem
    BY <1>0, <1>2, OwnedIsArray
  <2>5. ~unrepaired /\ v.count > 1 => HeapBelow(Rank, v.data, v.count, 0, 0)
    <3> SUFFICES ASSUME ~unrepaired, v.count > 1
                 PROVE  HeapBelow(Rank, v.data, v.count, 0, 0)
      OBVIOUS
    <3> DEFINE g == Swapped(vec.data, 0, vec.count - 1)
               n == vec.count - 1
    <3>1. Array(Rank, vec.data, vec.count, vec.capacity)
      BY <1>0, OwnedIsArray
    <3>2. 0 \in 0 .. vec.count - 1 /\ vec.count - 1 \in 0 .. vec.count - 1 /\ vec.count > 1
      BY <1>0, <2>3
    <3>3. /\ g[0] = vec.data[vec.count - 1]
          /\ \A z \in 0 .. vec.capacity - 1 :
               z # 0 /\ z # vec.count - 1 => g[z] = vec.data[z]
      BY <3>1, <3>2, SwapExchanges
    <3>4. HeapBelow(Rank, g, n, 0, 0)
      BY <3>1, <3>2, <1>0, ExtractStarts
    <3> HIDE DEF g
    <3>5. \A x \in 0 .. n - 1 : v.data[x] = g[x]
      BY <2>3, <3>1, <3>3, <1>0 DEF Array
    <3>6. n \in Nat /\ n = v.count
      BY <1>0, <2>3, <3>2
    <3> HIDE DEF n
    <3> QED
      BY <3>4, <3>5, <3>6, OrderOfElements
  <2>6. CASE v.count > 1 /\ Repair("sift", v, 0, vec.data[0])
    <3>1. 0 \in 0 .. v.count - 1
      BY <2>6, <2>3, <1>0
    <3> QED
      BY <3>1, <2>3, <2>4, <2>5, <2>6, RepairKeepsInv
  <2>7. CASE v.count > 1 /\ GiveUp(v, vec.data[0])
    BY <1>0, <2>3, <2>4, <2>7, ReturnKeepsInv DEF GiveUp
  <2>8. CASE v.count <= 1 /\ Return(v, 1, vec.data[0]) /\ Quiet
    <3>1. v.count \in Nat
      BY <2>3, OwnedIsArray
    <3> QED
      BY <3>1, <1>0, <2>3, <2>4, <2>8, ReturnKeepsInv, SmallHeap DEF Quiet
  <2> QED
    BY <2>1, <2>6, <2>7, <2>8
<1> QED
  BY <1>1, <1>2 DEF Dequeue

\* A turn of bubbling up moves the disorder to the parent, and where it stops
\* there is none.
LEMMA BubbleUpKeepsInv ==
  ASSUME PqInv, BubbleUp
  PROVE  PqInv'
<1>0. /\ Owned(vec) /\ (~unrepaired => HeapAbove(Rank, vec.data, vec.count, i))
      /\ unrepaired \in BOOLEAN /\ failed \in BOOLEAN /\ (failed => unrepaired)
      /\ vec.count \in Nat /\ i \in 0 .. vec.count - 1
      /\ Array(Rank, vec.data, vec.count, vec.capacity)
      /\ rc \in {-1, 0, 1} /\ out \in Elem \cup {Raw}
  BY OwnedIsArray DEF PqInv, OrderedBut, Moving, BubbleUp
<1>1. CASE BubblesUp(Rank, vec.data, i)
  <2> DEFINE p == Parent(i)
  <2>1. /\ vec' = [vec EXCEPT !.data = Swapped(@, i, p)] /\ i' = p
        /\ UNCHANGED <<pc, j, arg, rc, out, unrepaired, failed>> /\ pc = "bubble"
    BY <1>1 DEF BubbleUp, Swap, Quiet
  <2>2. p \in 0 .. vec.count - 1
    BY <1>0, <1>1, ParentAndChildren DEF BubblesUp
  <2>3. Owned(vec') /\ vec'.count = vec.count /\ vec'.data = Swapped(vec.data, i, p)
    BY <1>0, <2>1, <2>2, SwapOwns
  <2>4. ~unrepaired => HeapAbove(Rank, Swapped(vec.data, i, p), vec.count, p)
    BY <1>0, <1>1, BubbleTurn
  <2> HIDE DEF p
  <2>5. p \in 0 .. MaxCapacity /\ p < vec.count
    BY <1>0, <2>2, OwnedIsArray, VectorAssumption
  <2>6. Moving'
    BY <2>1, <2>3, <2>5, <1>0 DEF Moving
  <2>7. OrderedBut'
    BY <2>1, <2>3, <2>4, Zenon DEF OrderedBut
  <2> QED
    BY <1>0, <2>1, <2>3, <2>6, <2>7 DEF PqInv
<1>2. CASE ~BubblesUp(Rank, vec.data, i)
  <2>1. Checked
    BY <1>2 DEF BubbleUp
  <2>2. ~unrepaired => InHeap(Rank, vec.data, vec.count, 0)
    BY <1>0, <1>2, BubbleStops
  <2>3. ~unrepaired => IsHeap(Rank, vec.data, vec.count)
    BY <1>0, <2>2, IsHeapInOrder
  <2>4. /\ failed' = ~IsHeap(Rank, vec.data, vec.count) /\ Return(vec, rc, out)
        /\ unrepaired' = unrepaired
    BY <2>1 DEF Checked
  <2> QED
    BY <1>0, <2>2, <2>3, <2>4, ReturnKeepsInv
<1> QED
  BY <1>1, <1>2

\* A turn of sifting down moves the disorder to the larger child.
LEMMA SiftDownKeepsInv ==
  ASSUME PqInv, SiftDown
  PROVE  PqInv'
<1>0. /\ Owned(vec) /\ (~unrepaired => HeapBelow(Rank, vec.data, vec.count, 0, i))
      /\ unrepaired \in BOOLEAN /\ failed \in BOOLEAN /\ (failed => unrepaired)
      /\ vec.count \in Nat /\ i \in 0 .. vec.count - 1
      /\ Array(Rank, vec.data, vec.count, vec.capacity)
      /\ rc \in {-1, 0, 1} /\ out \in Elem \cup {Raw}
  BY OwnedIsArray DEF PqInv, OrderedBut, Moving, SiftDown
<1>1. CASE SiftsDown(Rank, vec.data, vec.count, i)
  <2> DEFINE p == Largest(Rank, vec.data, vec.count, i)
  <2>1. /\ vec' = [vec EXCEPT !.data = Swapped(@, i, p)] /\ i' = p
        /\ UNCHANGED <<pc, j, arg, rc, out, unrepaired, failed>> /\ pc = "sift"
    BY <1>1 DEF SiftDown, Swap, Quiet
  <2>2. p \in i + 1 .. vec.count - 1
    BY <1>0, <1>1, LargestIsChild
  <2>3. p \in 0 .. vec.count - 1
    BY <1>0, <2>2
  <2>4. Owned(vec') /\ vec'.count = vec.count /\ vec'.data = Swapped(vec.data, i, p)
    BY <1>0, <2>1, <2>3, SwapOwns
  <2>5. ~unrepaired => HeapBelow(Rank, Swapped(vec.data, i, p), vec.count, 0, p)
    BY <1>0, <1>1, SiftTurn
  <2> HIDE DEF p
  <2>6. p \in 0 .. MaxCapacity /\ p < vec.count
    BY <1>0, <2>3, OwnedIsArray, VectorAssumption
  <2>7. Moving'
    BY <2>1, <2>4, <2>6, <1>0 DEF Moving
  <2>8. OrderedBut'
    BY <2>1, <2>4, <2>5, Zenon DEF OrderedBut
  <2> QED
    BY <1>0, <2>1, <2>4, <2>7, <2>8 DEF PqInv
<1>2. CASE ~SiftsDown(Rank, vec.data, vec.count, i)
  <2>1. Checked
    BY <1>2 DEF SiftDown
  <2>2. ~unrepaired => InHeap(Rank, vec.data, vec.count, 0)
    BY <1>0, <1>2, SiftStops
  <2>3. ~unrepaired => IsHeap(Rank, vec.data, vec.count)
    BY <1>0, <2>2, IsHeapInOrder
  <2>4. /\ failed' = ~IsHeap(Rank, vec.data, vec.count) /\ Return(vec, rc, out)
        /\ unrepaired' = unrepaired
    BY <2>1 DEF Checked
  <2> QED
    BY <1>0, <2>2, <2>3, <2>4, ReturnKeepsInv
<1> QED
  BY <1>1, <1>2

\* A cleared or destroyed queue is empty, a fresh one too.
LEMMA EmptyKeepsInv ==
  ASSUME PqInv, PqInitialize \/ PqDestroy \/ PqClear
  PROVE  PqInv'
<1>0. /\ Owned(vec) /\ vec.count \in Nat /\ vec.capacity \in Nat /\ vec.count <= vec.capacity
      /\ Holds(vec, Elements(vec)) /\ failed \in BOOLEAN
      /\ unrepaired' = FALSE /\ failed' = FALSE
  BY OwnedIsArray DEF PqInv, Owned, PqInitialize, PqDestroy, PqClear
<1>1. ASSUME NEW v, Owned(v), v.count = 0, NEW code \in {-1, 0, 1}, Return(v, code, Raw)
      PROVE  PqInv'
  <2>1. InHeap(Rank, v.data, v.count, 0)
    BY <1>1, SmallHeap
  <2>2. Raw \in Elem \cup {Raw} /\ failed' \in BOOLEAN /\ unrepaired' \in BOOLEAN
    BY <1>0
  <2> QED
    BY <1>0, <1>1, <2>1, <2>2, ReturnKeepsInv, Zenon
<1>2. ASSUME NEW isNull \in BOOLEAN, NEW c \in 0 .. MaxCapacity, isNull => c = 0
      PROVE  Owned(Empty(isNull, c, FALSE)) /\ Empty(isNull, c, FALSE).count = 0
  BY <1>2, EmptyHolds DEF Owned, Empty
<1>3. vec.fault = FALSE /\ (vec.null => vec.count = 0)
  BY <1>0 DEF Owned, Holds
<1>4. ASSUME NEW v \in Cleared(vec)
      PROVE  Owned(v) /\ v.count = 0
  <2>1. Holds(v, Elements(v)) /\ (~vec.null => v.count = 0)
    BY <1>0, ClearedHolds
  <2>2. CASE vec.null
    BY <2>2, <1>0, <1>3 DEF Cleared
  <2>3. CASE ~vec.null
    <3>1. PICK r \in Reserve(Truncate(vec, 0), MinCapacity) : v = r.v
      BY <2>3, <1>4 DEF Cleared
    <3>2. Truncate(vec, 0).null = FALSE /\ Truncate(vec, 0).count = 0
      BY <2>3, <1>0 DEF Truncate, Holds, VecType
    <3>3. Holds(Truncate(vec, 0), Elements(Truncate(vec, 0)))
      BY <1>0, TruncateHolds
    <3>4. Owned(Truncate(vec, 0))
      BY <3>2, <3>3 DEF Owned
    <3>5. Holds(r.v, Elements(r.v)) /\ Keeps(Truncate(vec, 0), r.v)
      BY <3>3, ReserveHolds, ReserveKeeps, VectorAssumption
    <3>6. Owned(r.v)
      BY <3>4, <3>5, KeptIsOwned
    <3> QED
      BY <2>1, <2>3, <3>1, <3>6
  <2> QED
    BY <2>2, <2>3
<1>5. CASE PqInitialize
  <2>1. MinCapacity \in 0 .. MaxCapacity
    BY VectorAssumption
  <2>2. CASE Return(Empty(FALSE, MinCapacity, vec.fault), 0, Raw)
    BY <2>1, <2>2, <1>1, <1>2, <1>3
  <2>3. CASE Return(vec, -1, Raw) /\ vec.null
    BY <2>3, <1>0, <1>1, <1>3
  <2> QED
    BY <1>5, <2>2, <2>3 DEF PqInitialize, Initialize
<1>6. CASE PqDestroy
  <2>1. CASE vec.null
    BY <2>1, <1>0, <1>1, <1>3, <1>6 DEF PqDestroy, Destroy
  <2>2. CASE ~vec.null
    <3>1. PICK v \in Cleared(vec) :
            Return(Empty(TRUE, 0, v.fault \/ \E x \in DOMAIN v.data : v.data[x] # Raw),
                   0, Raw)
      BY <2>2, <1>6 DEF PqDestroy, Destroy
    <3>2. (v.fault \/ \E x \in DOMAIN v.data : v.data[x] # Raw) = FALSE
      <4>1. /\ Holds(v, {}) /\ DOMAIN v.data = 0 .. v.capacity - 1
        <5>1. Owned(v) /\ v.count = 0
          BY <1>4
        <5>2. Elements(v) = {}
          BY <5>1 DEF Elements
        <5> QED
          BY <5>1, <5>2 DEF Owned, Holds, Block
      <4> QED
        BY <4>1 DEF Holds
    <3>3. 0 \in 0 .. MaxCapacity
      BY VectorAssumption
    <3> QED
      BY <1>1, <1>2, <3>1, <3>2, <3>3
  <2> QED
    BY <2>1, <2>2
<1>7. CASE PqClear
  BY <1>1, <1>4, <1>7 DEF PqClear, Clear
<1> QED
  BY <1>5, <1>6, <1>7

\* A fresh queue satisfies the invariant.
LEMMA InitPqInv == PqInit => PqInv
<1> SUFFICES ASSUME PqInit PROVE PqInv
  OBVIOUS
<1>1. /\ vec = Empty(FALSE, MinCapacity, FALSE) /\ pc = "idle" /\ i = 0 /\ rc = 0 /\ out = Raw
      /\ unrepaired = FALSE /\ failed = FALSE /\ MinCapacity \in 0 .. MaxCapacity
      /\ MaxCapacity \in Nat
  BY VectorAssumption DEF PqInit, Init
<1>2. Owned(vec) /\ vec.count = 0
  BY <1>1, EmptyHolds DEF Owned, Empty
<1>3. InHeap(Rank, vec.data, vec.count, 0)
  BY <1>2, SmallHeap
<1>4. Moving /\ OrderedBut
  <2>1. Moving
    BY <1>1 DEF Moving
  <2>2. OrderedBut
    BY <1>1, <1>3, Zenon DEF OrderedBut
  <2> QED
    BY <2>1, <2>2
<1> QED
  BY <1>1, <1>2, <1>4 DEF PqInv

\* For every element type, ranking and capacity: the vector holds its elements
\* and the heap is in order but for the node that is being moved.
THEOREM QueueInvariant == PqSpec => []PqInv
<1>1. PqInv /\ [PqNext]_pqVars => PqInv'
  <2> SUFFICES ASSUME PqInv, [PqNext]_pqVars PROVE PqInv'
    OBVIOUS
  <2>1. CASE UNCHANGED pqVars
    BY <2>1 DEF pqVars, PqInv, Owned, Moving, OrderedBut, Elements
  <2>2. CASE PqNext
    BY <2>2, EnqueueKeepsInv, DequeueKeepsInv, BubbleUpKeepsInv, SiftDownKeepsInv,
       EmptyKeepsInv DEF PqNext
  <2> QED
    BY <2>1, <2>2
<1> QED
  BY <1>1, InitPqInv, PTL DEF PqSpec

-----------------------------------------------------------------------------
(* What follows from it.                                                   *)

\* For every bound: the block holds exactly the counted elements, and none is
\* leaked, overwritten or moved twice, though the last element is moved over
\* the emptied first one.
THEOREM QueueOwnsElements == PqSpec => []ElementsOwned
<1>1. PqInv => ElementsOwned
  <2> SUFFICES ASSUME PqInv PROVE ElementsOwned
    OBVIOUS
  <2>1. Holds(vec, Elements(vec)) /\ vec.count \in Nat /\ vec.capacity \in Nat
    BY OwnedIsArray DEF PqInv, Owned
  <2>2. Occupied = Elements(vec)
    BY <2>1 DEF Occupied, Hole, Elements, PqInv, Moving
  <2>3. DOMAIN vec.data = 0 .. vec.capacity - 1 /\ ~vec.fault
    BY <2>1 DEF Holds, Block
  <2>4. {x \in DOMAIN vec.data : vec.data[x] # Raw} = Elements(vec)
    BY <2>1, <2>3 DEF Holds
  <2> QED
    BY <2>2, <2>3, <2>4 DEF ElementsOwned, SlotsExact, NoLeakNoDoubleDestroy
<1> QED
  BY <1>1, QueueInvariant, PTL

\* For every number of elements: the heap is in order but for the node that
\* is being moved, as long as no repair was left out for lack of memory, and
\* the assertions that test the repairs hold until then.
THEOREM QueueKeepsHeap == PqSpec => []HeapInOrder
<1>1. PqInv => HeapInOrder
  <2> SUFFICES ASSUME PqInv PROVE HeapInOrder
    OBVIOUS
  <2>1. vec.count \in Nat /\ vec.count \in 0 .. vec.capacity
    BY OwnedIsArray DEF PqInv
  <2>2. PqTypeOK
    BY <2>1 DEF PqInv, Moving, PqTypeOK
  <2>3. ASSUME ~unrepaired
        PROVE  CASE pc = "bubble" -> HeapAbove(Rank, vec.data, vec.count, i)
                 [] pc = "sift"   -> HeapBelow(Rank, vec.data, vec.count, 0, i)
                 [] OTHER         -> IsHeap(Rank, vec.data, vec.count)
    <3>1. CASE pc = "bubble"
      BY <2>3, <3>1 DEF PqInv, OrderedBut
    <3>2. CASE pc = "sift"
      BY <2>3, <3>2 DEF PqInv, OrderedBut
    <3>3. CASE pc = "idle"
      <4>1. IsHeap(Rank, vec.data, vec.count)
        BY <2>1, <2>3, <3>3, IsHeapInOrder DEF PqInv, OrderedBut
      <4> QED
        BY <3>3, <4>1
    <3> QED
      BY <3>1, <3>2, <3>3 DEF PqInv, Moving
  <2> QED
    BY <2>2, <2>3 DEF HeapInOrder, PqInv
<1> QED
  BY <1>1, QueueInvariant, PTL

-----------------------------------------------------------------------------
(* The bag of the elements.                                                *)

\* The slots below n in which e is stored, and the bag of what they store
Places(d, n, e) == {x \in 0 .. n - 1 : d[x] = e}
BagOf(d, n) == [e \in {d[x] : x \in 0 .. n - 1} |-> Cardinality(Places(d, n, e))]

\* The places of an element are finitely many, at least one if it is stored.
LEMMA PlacesFinite ==
  ASSUME NEW d, NEW n \in Nat, NEW e
  PROVE  /\ IsFiniteSet(Places(d, n, e)) /\ Cardinality(Places(d, n, e)) \in Nat
         /\ e \in {d[x] : x \in 0 .. n - 1} <=> Places(d, n, e) # {}
         /\ Cardinality(Places(d, n, e)) > 0 <=> Places(d, n, e) # {}
<1>1. IsFiniteSet(0 .. n - 1)
  BY FS_Interval
<1>2. IsFiniteSet(Places(d, n, e))
  BY <1>1, FS_Subset DEF Places
<1>3. e \in {d[x] : x \in 0 .. n - 1} <=> Places(d, n, e) # {}
  BY DEF Places
<1>4. Cardinality(Places(d, n, e)) \in Nat
  BY <1>2, FS_CardinalityType
<1>5. Cardinality(Places(d, n, e)) = 0 <=> Places(d, n, e) = {}
  BY <1>2, FS_EmptySet
<1> QED
  BY <1>2, <1>3, <1>4, <1>5

\* The bag is one of the elements alone, wherever the block is.
LEMMA BagOfElements ==
  ASSUME NEW g, NEW h, NEW n \in Nat, \A x \in 0 .. n - 1 : h[x] = g[x]
  PROVE  BagOf(h, n) = BagOf(g, n)
<1>1. \A e : Places(h, n, e) = Places(g, n, e)
  BY DEF Places
<1>2. {h[x] : x \in 0 .. n - 1} = {g[x] : x \in 0 .. n - 1}
  OBVIOUS
<1> QED
  BY <1>1, <1>2 DEF BagOf

\* One more slot is one more place of what it stores, and no other's.
LEMMA OneMorePlace ==
  ASSUME NEW d, NEW n \in Nat, NEW e
  PROVE  Cardinality(Places(d, n + 1, e)) =
           Cardinality(Places(d, n, e)) + IF d[n] = e THEN 1 ELSE 0
<1>1. CASE d[n] = e
  <2>1. Places(d, n + 1, e) = Places(d, n, e) \cup {n} /\ n \notin Places(d, n, e)
    BY <1>1 DEF Places
  <2>2. Cardinality(Places(d, n, e) \cup {n}) = Cardinality(Places(d, n, e)) + 1
    BY <2>1, PlacesFinite, FS_AddElement
  <2> QED
    BY <1>1, <2>1, <2>2
<1>2. CASE d[n] # e
  <2>1. Places(d, n + 1, e) = Places(d, n, e)
    BY <1>2 DEF Places
  <2> QED
    BY <1>2, <2>1, PlacesFinite
<1> QED
  BY <1>1, <1>2

\* The element in the next slot is added to the bag, or taken from it.
LEMMA BagOfNext ==
  ASSUME NEW d, NEW n \in Nat
  PROVE  /\ BagOf(d, n + 1) = BagOf(d, n) (+) SetToBag({d[n]})
         /\ BagOf(d, n) = BagOf(d, n + 1) (-) SetToBag({d[n]})
<1> DEFINE E(m) == {d[x] : x \in 0 .. m - 1}
           C(m, e) == Cardinality(Places(d, m, e))
           one == SetToBag({d[n]})
<1>1. /\ \A e : C(n, e) \in Nat /\ C(n + 1, e) = C(n, e) + IF d[n] = e THEN 1 ELSE 0
      /\ \A e : (e \in E(n) <=> C(n, e) > 0) /\ (e \in E(n + 1) <=> C(n + 1, e) > 0)
  <2>1. n + 1 \in Nat
    OBVIOUS
  <2> QED
    BY <2>1, PlacesFinite, OneMorePlace
<1>2. /\ BagOf(d, n) = [e \in E(n) |-> C(n, e)]
      /\ BagOf(d, n + 1) = [e \in E(n + 1) |-> C(n + 1, e)]
  BY DEF BagOf
<1>3. one = [e \in {d[n]} |-> 1]
  BY DEF SetToBag
<1>4. E(n + 1) = E(n) \cup {d[n]}
  OBVIOUS
<1> HIDE DEF E, C, one
<1>5. BagOf(d, n + 1) = BagOf(d, n) (+) one
  <2> DEFINE s == BagOf(d, n) (+) one
  <2>1. s = [e \in E(n) \cup {d[n]} |->
               (IF e \in E(n) THEN C(n, e) ELSE 0) + (IF e \in {d[n]} THEN 1 ELSE 0)]
    BY <1>2, <1>3 DEF (+)
  <2>2. ASSUME NEW e \in E(n + 1)
        PROVE  (IF e \in E(n) THEN C(n, e) ELSE 0) + (IF e \in {d[n]} THEN 1 ELSE 0) = C(n + 1, e)
    BY <1>1
  <2> QED
    BY <1>2, <1>4, <2>1, <2>2
<1>6. BagOf(d, n) = BagOf(d, n + 1) (-) one
  <2> DEFINE B == [e \in E(n + 1) |-> IF e \in {d[n]} THEN C(n + 1, e) - 1 ELSE C(n + 1, e)]
  <2>1. BagOf(d, n + 1) (-) one = [e \in {c \in DOMAIN B : B[c] > 0} |-> B[e]]
    BY <1>2, <1>3 DEF (-)
  <2>2. \A e \in E(n + 1) : B[e] = C(n, e)
    BY <1>1
  <2>3. {c \in DOMAIN B : B[c] > 0} = E(n)
    BY <1>1, <1>4, <2>2
  <2>4. \A e \in E(n) : B[e] = C(n, e)
    BY <2>2, <1>4
  <2> HIDE DEF B
  <2> QED
    BY <1>2, <2>1, <2>3, <2>4
<1> QED
  BY <1>5, <1>6 DEF one

\* A swap of two slots leaves the bag alone.
LEMMA BagOfSwapped ==
  ASSUME NEW v, Owned(v), NEW x \in 0 .. v.count - 1, NEW y \in 0 .. v.count - 1
  PROVE  BagOf(Swapped(v.data, x, y), v.count) = BagOf(v.data, v.count)
<1> DEFINE g == v.data
           h == Swapped(v.data, x, y)
           n == v.count
<1>0. n \in Nat /\ Array(Rank, g, n, v.capacity)
  BY OwnedIsArray
<1>1. /\ h[x] = g[y] /\ h[y] = g[x]
      /\ \A z \in 0 .. n - 1 : z # x /\ z # y => h[z] = g[z]
  <2>1. /\ h[x] = g[y] /\ h[y] = g[x]
        /\ \A z \in 0 .. v.capacity - 1 : z # x /\ z # y => h[z] = g[z]
    BY <1>0, SwapExchanges
  <2>2. \A z \in 0 .. n - 1 : z \in 0 .. v.capacity - 1
    BY <1>0 DEF Array
  <2> QED
    BY <2>1, <2>2
<1> HIDE DEF g, h, n
<1>2. {h[z] : z \in 0 .. n - 1} = {g[z] : z \in 0 .. n - 1}
  <2>1. x \in 0 .. n - 1 /\ y \in 0 .. n - 1
    BY DEF n
  <2>2. \A z \in 0 .. n - 1 : \E w \in 0 .. n - 1 : h[z] = g[w]
    BY <1>1, <2>1
  <2>3. \A z \in 0 .. n - 1 : \E w \in 0 .. n - 1 : g[z] = h[w]
    BY <1>1, <2>1
  <2> QED
    BY <2>2, <2>3
<1>3. ASSUME NEW e
      PROVE  Cardinality(Places(h, n, e)) = Cardinality(Places(g, n, e))
  <2>1. x \in 0 .. n - 1 /\ y \in 0 .. n - 1
    BY DEF n
  <2>2. ASSUME NEW p \in 0 .. n - 1, NEW q \in 0 .. n - 1, {p, q} = {x, y}, g[p] = e, g[q] # e
        PROVE  Cardinality(Places(h, n, e)) = Cardinality(Places(g, n, e))
    <3> DEFINE S == Places(g, n, e)
    <3>1. IsFiniteSet(S) /\ p \in S /\ q \notin S
      <4>1. IsFiniteSet(S)
        BY <1>0, PlacesFinite
      <4> QED
        BY <4>1, <2>2 DEF Places
    <3>2. Places(h, n, e) = (S \ {p}) \cup {q}
      BY <1>1, <2>2 DEF Places
    <3> HIDE DEF S
    <3>3. IsFiniteSet(S \ {p}) /\ Cardinality(S \ {p}) = Cardinality(S) - 1
      BY <3>1, FS_RemoveElement
    <3>4. Cardinality((S \ {p}) \cup {q}) = Cardinality(S \ {p}) + 1
      BY <3>1, <3>3, FS_AddElement
    <3>5. Cardinality(S) \in Nat
      BY <3>1, FS_CardinalityType
    <3> QED
      BY <3>2, <3>3, <3>4, <3>5 DEF S
  <2>3. CASE g[x] = e /\ g[y] # e
    BY <2>1, <2>2, <2>3
  <2>4. CASE g[y] = e /\ g[x] # e
    <3>1. {y, x} = {x, y}
      OBVIOUS
    <3> QED
      BY <2>1, <2>2, <2>4, <3>1
  <2>5. CASE g[x] = e <=> g[y] = e
    <3>1. Places(h, n, e) = Places(g, n, e)
      BY <1>1, <2>1, <2>5 DEF Places
    <3> QED
      BY <3>1
  <2> QED
    BY <2>3, <2>4, <2>5
<1> QED
  BY <1>2, <1>3 DEF BagOf, g, h, n

-----------------------------------------------------------------------------
(* The promises of the calls.                                              *)

\* The property's bag is the one of the counted elements.
LEMMA BagIsOfVector ==
  /\ Bag = BagOf(vec.data, vec.count)
  /\ Bag' = BagOf(vec'.data, vec'.count)
BY DEF Bag, BagOf, Places

\* Only what is stored is in the bag.
LEMMA InBag ==
  ASSUME NEW d, NEW n \in Nat
  PROVE  /\ BagToSet(BagOf(d, n)) = {d[x] : x \in 0 .. n - 1}
         /\ n = 0 <=> BagOf(d, n) = EmptyBag
<1>1. DOMAIN BagOf(d, n) = {d[x] : x \in 0 .. n - 1}
  BY DEF BagOf
<1>2. EmptyBag = [e \in {} |-> 1]
  BY DEF EmptyBag, SetToBag
<1>3. ASSUME n = 0 PROVE BagOf(d, n) = EmptyBag
  <2>1. {d[x] : x \in 0 .. n - 1} = {}
    BY <1>3
  <2> QED
    BY <1>2, <2>1 DEF BagOf
<1>4. ASSUME BagOf(d, n) = EmptyBag PROVE n = 0
  <2>1. {d[x] : x \in 0 .. n - 1} = {}
    BY <1>1, <1>2, <1>4
  <2>2. n # 0 => d[0] \in {d[x] : x \in 0 .. n - 1}
    OBVIOUS
  <2> QED
    BY <2>1, <2>2
<1> QED
  BY <1>1, <1>3, <1>4 DEF BagToSet

\* Enqueuing adds the element whether or not the repair is left out, unless
\* the vector is full and does not grow.
LEMMA EnqueuePromise ==
  ASSUME PqInv, NEW e \in Elem, Enqueue(e)
  PROVE  \/ Queue!Enqueue(e)
         \/ rc' = 1 /\ Bag' = Bag /\ vec.count = vec.capacity
         \/ rc' = -1 /\ Bag' = Bag (+) SetToBag({e}) /\ unrepaired'
<1>0. Owned(vec) /\ vec.count \in Nat /\ vec.capacity \in Nat /\ vec.count <= vec.capacity
  BY OwnedIsArray DEF PqInv
<1> DEFINE grown(r) == IF r.rc < 0 THEN r.v ELSE AddLast(r.v, e)
<1>1. PICK r \in Grow(vec) :
        \/ grown(r).count > 1
           /\ (Repair("bubble", grown(r), grown(r).count - 1, Raw) \/ GiveUp(grown(r), Raw))
        \/ grown(r).count <= 1 /\ Return(grown(r), 1, Raw) /\ Quiet
  BY DEF Enqueue
<1>2. /\ vec' = grown(r) /\ out' = Raw
      /\ rc' = 1 \/ (rc' = -1 /\ unrepaired')
  BY <1>1 DEF Repair, GiveUp, Return
<1>3. /\ Owned(r.v) /\ Keeps(vec, r.v) /\ r.v.count = vec.count /\ r.rc \in {0, -1}
      /\ (r.rc = 0 => r.v.count < r.v.capacity)
  BY <1>0, GrowOwns
<1>4. CASE r.rc = -1
  <2>1. vec' = r.v
    BY <1>2, <1>4
  <2>2. BagOf(vec'.data, vec'.count) = BagOf(vec.data, vec.count)
    BY <2>1, <1>0, <1>3, BagOfElements DEF Keeps
  <2>3. Bag' = Bag
    BY <2>2, BagIsOfVector
  <2>4. vec.count >= vec.capacity
    BY <1>4 DEF Grow, Result
  <2>5. rc' = -1 => Queue!Enqueue(e)
    BY <1>2, <2>3 DEF Queue!Enqueue, Queue!Returns
  <2> QED
    BY <1>0, <1>2, <2>3, <2>4, <2>5
<1>5. CASE r.rc = 0
  <2>1. vec' = AddLast(r.v, e)
    BY <1>2, <1>5
  <2>2. /\ vec'.count = vec.count + 1 /\ vec'.data[vec.count] = e
        /\ \A x \in 0 .. vec.count - 1 : vec'.data[x] = r.v.data[x]
    BY <2>1, <1>3, <1>5, AddLastOwns
  <2>3. \A x \in 0 .. vec.count - 1 : vec'.data[x] = vec.data[x]
    BY <2>2, <1>3 DEF Keeps
  <2>4. BagOf(vec'.data, vec.count) = BagOf(vec.data, vec.count)
    BY <2>3, <1>0, BagOfElements
  <2>5. BagOf(vec'.data, vec.count + 1) = BagOf(vec'.data, vec.count) (+) SetToBag({e})
    BY <2>2, <1>0, BagOfNext
  <2>6. Bag' = Bag (+) SetToBag({e})
    BY <2>2, <2>4, <2>5, BagIsOfVector
  <2>7. rc' = 1 => Queue!Enqueue(e)
    BY <1>2, <2>6 DEF Queue!Enqueue, Queue!Returns, Queue!(+), Queue!SetToBag, (+), SetToBag
  <2> QED
    BY <1>2, <2>6, <2>7
<1> QED
  BY <1>3, <1>4, <1>5

\* Dequeuing takes the first element, a largest one as long as the heap is
\* in order.
LEMMA DequeuePromise ==
  ASSUME PqInv, NEW hasOut \in BOOLEAN, Dequeue(hasOut)
  PROVE  \/ Queue!Dequeue
         \/ /\ unrepaired' /\ out' \in BagToSet(Bag) /\ Bag' = Bag (-) SetToBag({out'})
            /\ ~unrepaired => rc' = -1 /\ \A e \in BagToSet(Bag) : Rank[e] <= Rank[out']
<1>0. /\ Owned(vec) /\ vec.count \in Nat
      /\ ~unrepaired => InHeap(Rank, vec.data, vec.count, 0)
      /\ unrepaired \in BOOLEAN
      /\ Array(Rank, vec.data, vec.count, vec.capacity)
  BY OwnedIsArray DEF PqInv, OrderedBut, Dequeue, Ready, Idle
<1>1. CASE (~hasOut \/ vec.count = 0) /\ Return(vec, IF hasOut THEN 0 ELSE -1, Raw)
  <2>1. Bag' = Bag /\ out' = Raw /\ (hasOut => vec.count = 0 /\ rc' = 0) /\ (~hasOut => rc' = -1)
    BY <1>1, BagIsOfVector DEF Return
  <2>2. hasOut => Bag = EmptyBag
    BY <2>1, <1>0, BagIsOfVector, InBag
  <2>3. EmptyBag = Queue!EmptyBag
    BY DEF EmptyBag, Queue!EmptyBag, SetToBag, Queue!SetToBag
  <2> QED
    BY <2>1, <2>2, <2>3 DEF Queue!Dequeue, Queue!Returns
<1>2. CASE vec.count > 0 /\ \E v \in Contract(LastToFirst(Vacate(vec, 0))) :
             \/ v.count > 1 /\ (Repair("sift", v, 0, vec.data[0]) \/ GiveUp(v, vec.data[0]))
             \/ v.count <= 1 /\ Return(v, 1, vec.data[0]) /\ Quiet
  <2> DEFINE u == LastToFirst(Vacate(vec, 0))
             n == vec.count - 1
             first == vec.data[0]
             g == Swapped(vec.data, 0, n)
  <2>1. PICK v \in Contract(u) :
             \/ v.count > 1 /\ (Repair("sift", v, 0, vec.data[0]) \/ GiveUp(v, vec.data[0]))
             \/ v.count <= 1 /\ Return(v, 1, vec.data[0]) /\ Quiet
    BY <1>2
  <2>2. /\ Owned(u) /\ u.count = vec.count - 1
        /\ \A x \in 0 .. vec.count - 2 :
             u.data[x] = IF x = 0 THEN vec.data[vec.count - 1] ELSE vec.data[x]
    BY <1>0, <1>2, LastToFirstOwns
  <2> HIDE DEF u
  <2>3. /\ v.count = n
        /\ \A x \in 0 .. n - 1 :
             v.data[x] = IF x = 0 THEN vec.data[n] ELSE vec.data[x]
    BY <2>1, <2>2, <1>0, ContractOwns DEF Keeps
  <2>4. n \in Nat /\ n + 1 = vec.count /\ 0 \in 0 .. vec.count - 1 /\ n \in 0 .. vec.count - 1
    BY <1>0, <1>2
  <2>5. /\ g[0] = vec.data[n] /\ g[n] = first
        /\ \A z \in 0 .. vec.capacity - 1 : z # 0 /\ z # n => g[z] = vec.data[z]
    BY <1>0, <2>4, SwapExchanges
  <2>6. BagOf(g, n + 1) = BagOf(vec.data, vec.count)
    BY <1>0, <2>4, BagOfSwapped
  <2> HIDE DEF g
  <2>7. \A x \in 0 .. n - 1 : v.data[x] = g[x]
    <3>1. \A x \in 0 .. n - 1 : x \in 0 .. vec.capacity - 1 /\ x # n
      BY <2>4, <1>0 DEF Array
    <3> HIDE DEF n
    <3> QED
      BY <2>3, <2>5, <3>1
  <2> HIDE DEF n
  <2>8. BagOf(v.data, n) = BagOf(vec.data, vec.count) (-) SetToBag({first})
    <3>1. BagOf(g, n) = BagOf(g, n + 1) (-) SetToBag({g[n]})
      BY <2>4, BagOfNext
    <3>2. BagOf(v.data, n) = BagOf(g, n)
      BY <2>4, <2>7, BagOfElements
    <3> QED
      BY <3>1, <3>2, <2>5, <2>6
  <2>9. vec' = v /\ out' = first /\ (rc' = 1 \/ (rc' = -1 /\ unrepaired'))
        /\ (rc' = 1 => unrepaired' = unrepaired)
    BY <2>1 DEF Repair, GiveUp, Return, Quiet
  <2>10. Bag' = Bag (-) SetToBag({first})
    BY <2>3, <2>8, <2>9, BagIsOfVector
  <2>11. BagToSet(Bag) = {vec.data[x] : x \in 0 .. vec.count - 1} /\ first \in BagToSet(Bag)
    <3>1. BagToSet(Bag) = {vec.data[x] : x \in 0 .. vec.count - 1}
      BY <1>0, BagIsOfVector, InBag
    <3> QED
      BY <3>1, <2>4
  <2>12. ~unrepaired => \A e \in BagToSet(Bag) : Rank[e] <= Rank[first]
    <3> SUFFICES ASSUME ~unrepaired, NEW e \in BagToSet(Bag)
                 PROVE  Rank[e] <= Rank[first]
      OBVIOUS
    <3>1. PICK x \in 0 .. vec.count - 1 : e = vec.data[x]
      BY <2>11
    <3>2. ~Less(Rank, vec.data[0], vec.data[x])
      BY <1>0, FirstIsLargest
    <3>3. Rank[vec.data[0]] \in Int /\ Rank[vec.data[x]] \in Int
      BY <1>0, <2>4 DEF Array
    <3> QED
      BY <3>1, <3>2, <3>3 DEF Less
  <2>13. ~unrepaired /\ rc' = 1 => Queue!Dequeue
    <3>1. Queue!BagToSet(Bag) = BagToSet(Bag)
      BY DEF Queue!BagToSet, BagToSet
    <3>2. ~unrepaired => first \in Queue!Largest
      BY <3>1, <2>11, <2>12 DEF Queue!Largest
    <3> QED
      BY <2>9, <2>10, <3>2
         DEF Queue!Dequeue, Queue!Returns, Queue!(-), Queue!SetToBag, (-), SetToBag
  <2> QED
    BY <2>9, <2>10, <2>11, <2>12, <2>13, <1>0
<1> QED
  BY <1>1, <1>2 DEF Dequeue

\* A turn of a repair leaves the bag alone, and so does its end.
LEMMA RepairPromise ==
  ASSUME PqInv, BubbleUp \/ SiftDown
  PROVE  UNCHANGED Bag
<1>0. /\ Owned(vec) /\ vec.count \in Nat /\ i \in 0 .. vec.count - 1
      /\ Array(Rank, vec.data, vec.count, vec.capacity)
  BY OwnedIsArray DEF PqInv, Moving, BubbleUp, SiftDown
<1>1. ASSUME NEW y \in 0 .. vec.count - 1, Swap(i, y)
      PROVE  UNCHANGED Bag
  <2>1. vec'.count = vec.count /\ vec'.data = Swapped(vec.data, i, y)
    BY <1>0, <1>1, SwapOwns DEF Swap
  <2> QED
    BY <2>1, <1>0, BagOfSwapped, BagIsOfVector
<1>2. CASE Checked
  BY <1>2, BagIsOfVector DEF Checked, Return
<1>3. CASE BubbleUp /\ ~Checked
  <2>1. BubblesUp(Rank, vec.data, i) /\ Swap(i, Parent(i))
    BY <1>3 DEF BubbleUp
  <2>2. Parent(i) \in 0 .. vec.count - 1
    BY <1>0, <2>1, ParentAndChildren DEF BubblesUp
  <2> QED
    BY <2>1, <2>2, <1>1
<1>4. CASE SiftDown /\ ~Checked
  <2>1. /\ SiftsDown(Rank, vec.data, vec.count, i)
        /\ Swap(i, Largest(Rank, vec.data, vec.count, i))
    BY <1>4 DEF SiftDown
  <2>2. Largest(Rank, vec.data, vec.count, i) \in i + 1 .. vec.count - 1
    BY <1>0, <2>1, LargestIsChild
  <2>3. Largest(Rank, vec.data, vec.count, i) \in 0 .. vec.count - 1
    BY <1>0, <2>2
  <2> QED
    BY <2>1, <2>3, <1>1
<1> QED
  BY <1>2, <1>3, <1>4

\* A queue that was cleared or destroyed is empty.
LEMMA PqClearPromise ==
  ASSUME PqInv, PqClear \/ PqDestroy
  PROVE  Queue!Clear
<1>0. Owned(vec) /\ Holds(vec, Elements(vec)) /\ (vec.null => vec.count = 0)
  BY OwnedIsArray DEF PqInv, Owned
<1>1. \A v \in Cleared(vec) : v.count = 0
  BY <1>0, ClearedHolds DEF Cleared
<1>2. vec'.count = 0 /\ rc' = 0 /\ out' = Raw
  BY <1>0, <1>1 DEF PqClear, PqDestroy, Clear, Destroy, Return, Empty
<1>3. Bag' = EmptyBag
  BY <1>2, InBag, BagIsOfVector
<1>4. EmptyBag = Queue!EmptyBag
  BY DEF EmptyBag, Queue!EmptyBag, SetToBag, Queue!SetToBag
<1> QED
  BY <1>2, <1>3, <1>4 DEF Queue!Clear, Queue!Returns

\* For every ranking, capacity and number of elements: enqueuing adds the
\* element and dequeuing takes a largest one in the first step of the call,
\* the repairs only move elements, and where memory runs out the calls depart
\* from their comments in the ways the property names and no others.
THEOREM QueueKeepsItsPromises == PqSpec => PqCallsKeepTheirPromises
<1> DEFINE A ==
      /\ \A e \in Elem : Enqueue(e) =>
          \/ Queue!Enqueue(e)
          \/ rc' = 1 /\ Bag' = Bag /\ vec.count = vec.capacity
          \/ rc' = -1 /\ Bag' = Bag (+) SetToBag({e}) /\ unrepaired'
      /\ \A hasOut \in BOOLEAN : Dequeue(hasOut) =>
          \/ Queue!Dequeue
          \/ /\ unrepaired' /\ out' \in BagToSet(Bag) /\ Bag' = Bag (-) SetToBag({out'})
             /\ ~unrepaired => rc' = -1 /\ \A e \in BagToSet(Bag) : Rank[e] <= Rank[out']
      /\ BubbleUp \/ SiftDown => UNCHANGED Bag
      /\ PqClear \/ PqDestroy => Queue!Clear
<1>1. PqInv => A
  <2> SUFFICES ASSUME PqInv PROVE A
    OBVIOUS
  <2>1. \A e \in Elem : Enqueue(e) =>
          \/ Queue!Enqueue(e)
          \/ rc' = 1 /\ Bag' = Bag /\ vec.count = vec.capacity
          \/ rc' = -1 /\ Bag' = Bag (+) SetToBag({e}) /\ unrepaired'
    BY EnqueuePromise
  <2>2. \A hasOut \in BOOLEAN : Dequeue(hasOut) =>
          \/ Queue!Dequeue
          \/ /\ unrepaired' /\ out' \in BagToSet(Bag) /\ Bag' = Bag (-) SetToBag({out'})
             /\ ~unrepaired => rc' = -1 /\ \A e \in BagToSet(Bag) : Rank[e] <= Rank[out']
    BY DequeuePromise
  <2>3. BubbleUp \/ SiftDown => UNCHANGED Bag
    BY RepairPromise
  <2>4. PqClear \/ PqDestroy => Queue!Clear
    BY PqClearPromise
  <2> QED
    BY <2>1, <2>2, <2>3, <2>4
<1>2. PqInv => [A]_pqVars
  BY <1>1
<1>3. PqCallsKeepTheirPromises <=> [][A]_pqVars
  BY DEF PqCallsKeepTheirPromises
<1> HIDE DEF A
<1> QED
  BY <1>2, <1>3, QueueInvariant, PTL
=============================================================================
