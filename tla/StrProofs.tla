------------------------------ MODULE StrProofs ------------------------------
(***************************************************************************)
(* Proofs about Str, for every set of characters, size of the struct, heap *)
(* bound, width of size_t, and whatever texts and capacities are asked     *)
(* for: what the string keeps about its storage, and what each of its      *)
(* calls does to the text.                                                 *)
(***************************************************************************)
EXTENDS Str, SequenceTheorems, TLAPS

LOCAL Numbers == INSTANCE HeapProofs

-----------------------------------------------------------------------------
(* The invariant.                                                          *)

\* The struct agrees with its storage and holds the block it uses.
Storage(s) ==
  /\ s = [length |-> s.length, external |-> s.external, capacity |-> s.capacity,
          blocks |-> s.blocks, data |-> s.data]
  /\ s.length \in Nat /\ s.external \in BOOLEAN
  /\ s.capacity \in IF s.external THEN InternalCapacity + 1 .. MaxBlock
                                  ELSE {InternalCapacity}
  /\ s.blocks = IF s.external THEN 1 ELSE 0
  /\ s.data \in [0 .. s.capacity - 1 -> Char \cup {NUL, Junk}]

\* The storage holds a text and its terminator.
Valid(s) ==
  /\ Storage(s)
  /\ s.length < s.capacity /\ s.data[s.length] = NUL
  /\ \A k \in 0 .. s.length - 1 : s.data[k] \in Char

StrInv ==
  /\ Storage(str) /\ str.length <= MaxLength
  /\ live \in BOOLEAN
  /\ IF live THEN Valid(str) ELSE ~str.external
  /\ lost = 0 /\ rc \in {-1, 0} /\ out \in Char \cup {Junk}

\* A call on s with this outcome leaves the text t, or s as it was.
Gives(r, s, t) ==
  \/ r.rc = 0 /\ Valid(r.s) /\ Text(r.s) = t
  \/ r.rc = -1 /\ r.s = s

\* A new string with this outcome has the text t, or leaves no block behind.
Makes(r, t) ==
  \/ r.rc = 0 /\ Valid(r.s) /\ Text(r.s) = t
  \/ r.rc = -1 /\ r.s.blocks = 0

-----------------------------------------------------------------------------
(* Bytes and texts.                                                        *)

\* A function on 1 .. n is a sequence of length n.
LEMMA RowIsSeq ==
  ASSUME NEW n \in Nat, NEW S, NEW f \in [1 .. n -> S]
  PROVE  f \in Seq(S) /\ Len(f) = n
<1>1. f \in Seq(S)
  BY SeqDef
<1>2. Len(f) \in Nat /\ DOMAIN f = 1 .. Len(f)
  BY <1>1, LenProperties
<1>3. 1 .. n = 1 .. Len(f)
  BY <1>2
<1> QED
  BY <1>1, <1>2, <1>3

\* The numbers of a struct that agrees with its storage
LEMMA StorageNumbers ==
  ASSUME NEW s, Storage(s)
  PROVE  /\ s.length \in Nat /\ s.capacity \in Nat /\ s.capacity >= InternalCapacity
         /\ DOMAIN s.data = 0 .. s.capacity - 1
         /\ \A k \in 0 .. s.capacity - 1 :
              s.data[k] \in Char \cup {NUL, Junk} /\ At(s.data, k) = s.data[k]
BY StrAssumption DEF Storage, At

\* The first bytes of a storage, as far as they are characters, are a text.
LEMMA BytesAreText ==
  ASSUME NEW s, Storage(s), NEW n \in 0 .. s.capacity,
         \A k \in 0 .. n - 1 : s.data[k] \in Char
  PROVE  /\ Bytes(s.data, n) \in Seq(Char) /\ Len(Bytes(s.data, n)) = n
         /\ \A k \in 1 .. n : Bytes(s.data, n)[k] = s.data[k - 1]
<1>1. n \in Nat /\ s.capacity \in Nat
  BY StorageNumbers
<1>2. ASSUME NEW k \in 1 .. n
      PROVE  At(s.data, k - 1) = s.data[k - 1] /\ s.data[k - 1] \in Char
  <2>1. k - 1 \in 0 .. n - 1 /\ k - 1 \in 0 .. s.capacity - 1
    BY <1>1
  <2> QED
    BY <2>1, StorageNumbers
<1>3. Bytes(s.data, n) \in [1 .. n -> Char]
  BY <1>2 DEF Bytes
<1> QED
  BY <1>1, <1>2, <1>3, RowIsSeq DEF Bytes

\* The text of a valid string
LEMMA TextIsText ==
  ASSUME NEW s, Valid(s)
  PROVE  /\ Text(s) \in Seq(Char) /\ Len(Text(s)) = s.length /\ s.length \in Nat
         /\ \A k \in 1 .. s.length : Text(s)[k] = s.data[k - 1]
<1>1. s.length \in 0 .. s.capacity
  BY StorageNumbers DEF Valid
<1> QED
  BY <1>1, BytesAreText, StorageNumbers DEF Text, Valid

\* A text with its terminator
LEMMA Terminated ==
  ASSUME NEW t \in Seq(Char)
  PROVE  /\ Append(t, NUL) \in Seq(Char \cup {NUL}) /\ Len(Append(t, NUL)) = Len(t) + 1
         /\ \A k \in 1 .. Len(t) : Append(t, NUL)[k] = t[k] /\ t[k] \in Char
         /\ Append(t, NUL)[Len(t) + 1] = NUL
<1>1. t \in Seq(Char \cup {NUL}) /\ NUL \in Char \cup {NUL}
  BY SeqMonotonic
<1> QED
  BY <1>1, ElementOfSeq

\* The terminator is copied with the text.
LEMMA WithTerminator ==
  ASSUME NEW s, Valid(s)
  PROVE  Bytes(s.data, s.length + 1) = Append(Text(s), NUL)
<1> DEFINE n == s.length
           S == Char \cup {NUL}
           b == Bytes(s.data, n + 1)
           a == Append(Text(s), NUL)
<1>1. n \in Nat /\ n < s.capacity /\ s.capacity \in Nat
  BY StorageNumbers DEF Valid
<1>2. /\ Text(s) \in Seq(Char) /\ Len(Text(s)) = n
      /\ \A k \in 1 .. n : Text(s)[k] = s.data[k - 1]
  BY TextIsText
<1>3. ASSUME NEW k \in 1 .. n + 1
      PROVE  At(s.data, k - 1) = s.data[k - 1] /\ s.data[k - 1] \in S
  <2>1. k - 1 \in 0 .. s.capacity - 1 /\ (k - 1 \in 0 .. n - 1 \/ k - 1 = n)
    BY <1>1
  <2> QED
    BY <2>1, StorageNumbers DEF Valid
<1>4. s.data[n] = NUL
  BY DEF Valid
<1>5. a \in Seq(S) /\ Len(a) = n + 1 /\ a[n + 1] = NUL /\ \A k \in 1 .. n : a[k] = Text(s)[k]
  BY <1>2, Terminated
<1> HIDE DEF n
<1>6. b \in [1 .. n + 1 -> S] /\ \A k \in 1 .. n + 1 : b[k] = s.data[k - 1]
  BY <1>3 DEF Bytes
<1> HIDE DEF a, b, S
<1>7. b \in Seq(S) /\ Len(b) = n + 1
  BY <1>1, <1>6, RowIsSeq
<1>8. \A k \in 1 .. n + 1 : b[k] = a[k]
  <2>1. ASSUME NEW k \in 1 .. n PROVE b[k] = a[k]
    BY <1>1, <1>2, <1>5, <1>6
  <2>2. n + 1 \in 1 .. n + 1 /\ n + 1 - 1 = n
    BY <1>1
  <2>3. b[n + 1] = s.data[n]
    BY <1>1, <1>6, <2>2
  <2>4. \A k \in 1 .. n + 1 : k \in 1 .. n \/ k = n + 1
    BY <1>1
  <2> QED
    BY <1>4, <1>5, <2>1, <2>3, <2>4 DEF n
<1>9. b = a
  BY <1>5, <1>7, <1>8, SeqEqual
<1> QED
  BY <1>9 DEF a, b, n

\* What filling makes of a storage: the bytes before x stay, and the text t
\* follows them with its terminator.
LEMMA FilledIsText ==
  ASSUME NEW s, Storage(s), NEW x \in Nat, \A k \in 0 .. x - 1 : s.data[k] \in Char,
         NEW t \in Seq(Char), x + Len(t) < s.capacity
  PROVE  LET w == Filled(s, x, Append(t, NUL)) IN
         /\ Valid(w) /\ w.length = x + Len(t) /\ w.capacity = s.capacity
         /\ w.external = s.external /\ w.blocks = s.blocks
         /\ Text(w) = Bytes(s.data, x) \o t
<1> DEFINE a == Append(t, NUL)
           n == Len(t)
           d == Put(s.data, x, a)
           w == Filled(s, x, a)
<1>1. n \in Nat /\ Len(a) = n + 1 /\ \A k \in 1 .. n : a[k] = t[k] /\ t[k] \in Char
  BY Terminated, LenProperties
<1>2. a[n + 1] = NUL
  BY Terminated
<1>3. s.capacity \in Nat /\ DOMAIN s.data = 0 .. s.capacity - 1
      /\ \A k \in 0 .. s.capacity - 1 : s.data[k] \in Char \cup {NUL, Junk}
  BY StorageNumbers
<1> HIDE DEF a
<1>4. /\ x + Len(a) - 1 = x + n /\ n = Len(t) /\ x + n < s.capacity
      /\ DOMAIN s.data \cup (x .. x + n) = 0 .. s.capacity - 1
  BY <1>1, <1>3
<1> HIDE DEF n
<1>5. /\ DOMAIN d = 0 .. s.capacity - 1
      /\ \A k \in 0 .. s.capacity - 1 :
           d[k] = IF k \in x .. x + n THEN a[k - x + 1] ELSE s.data[k]
  BY <1>4 DEF Put
<1>6. d = [k \in 0 .. s.capacity - 1 |-> d[k]]
  BY <1>4 DEF Put
<1> HIDE DEF d
<1>7. ASSUME NEW k \in 1 .. n PROVE d[x + k - 1] = t[k]
  <2>1. x + k - 1 \in 0 .. s.capacity - 1 /\ x + k - 1 \in x .. x + n
        /\ (x + k - 1) - x + 1 = k
    BY <1>1, <1>4
  <2> QED
    BY <1>1, <1>5, <2>1
<1>8. d[x + n] = NUL
  <2>1. x + n \in 0 .. s.capacity - 1 /\ x + n \in x .. x + n /\ (x + n) - x + 1 = n + 1
    BY <1>1, <1>4
  <2> QED
    BY <1>2, <1>5, <2>1
<1>9. ASSUME NEW k \in 0 .. x - 1 PROVE d[k] = s.data[k] /\ d[k] \in Char
  <2>1. k \in 0 .. s.capacity - 1 /\ k \notin x .. x + n
    BY <1>1, <1>3, <1>4
  <2> QED
    BY <1>5, <2>1
<1>10. ASSUME NEW k \in x .. x + n - 1 PROVE d[k] \in Char
  <2>1. PICK i \in 1 .. n : k = x + i - 1
    <3>1. k - x + 1 \in 1 .. n /\ k = x + (k - x + 1) - 1
      BY <1>1
    <3> QED
      BY <3>1
  <2> QED
    BY <1>1, <1>7, <2>1
<1>11. d \in [0 .. s.capacity - 1 -> Char \cup {NUL, Junk}]
  <2>1. ASSUME NEW k \in 0 .. s.capacity - 1 PROVE d[k] \in Char \cup {NUL, Junk}
    <3>1. k \in x .. x + n - 1 \/ k = x + n \/ k \notin x .. x + n
      BY <1>1
    <3> QED
      BY <1>3, <1>5, <1>8, <1>10, <3>1
  <2> QED
    BY <1>6, <2>1
<1>12. w = [s EXCEPT !.data = d, !.length = x + n]
  BY <1>4 DEF Filled, d
<1>13. /\ w = [length |-> x + n, external |-> s.external, capacity |-> s.capacity,
               blocks |-> s.blocks, data |-> d]
  BY <1>12 DEF Storage
<1> HIDE DEF w
<1>14. Storage(w)
  BY <1>1, <1>11, <1>13 DEF Storage
<1>15. \A k \in 0 .. x + n - 1 : d[k] \in Char
  <2>1. \A k \in 0 .. x + n - 1 : k \in 0 .. x - 1 \/ k \in x .. x + n - 1
    BY <1>1
  <2> QED
    BY <1>9, <1>10, <2>1
<1>16. Valid(w)
  BY <1>4, <1>8, <1>13, <1>14, <1>15 DEF Valid
<1>17. Text(w) = Bytes(s.data, x) \o t
  <2> DEFINE b == Bytes(s.data, x)
  <2>1. b \in Seq(Char) /\ Len(b) = x /\ \A k \in 1 .. x : b[k] = s.data[k - 1]
    <3>1. x \in 0 .. s.capacity
      BY <1>1, <1>3, <1>4
    <3> QED
      BY <3>1, BytesAreText
  <2>2. /\ Text(w) \in Seq(Char) /\ Len(Text(w)) = x + n
        /\ \A k \in 1 .. x + n : Text(w)[k] = d[k - 1]
    BY <1>13, <1>16, TextIsText
  <2> HIDE DEF b
  <2>3. /\ b \o t \in Seq(Char) /\ Len(b \o t) = x + n
        /\ \A k \in 1 .. x + n : (b \o t)[k] = IF k <= x THEN b[k] ELSE t[k - x]
    BY <1>4, <2>1, ConcatProperties
  <2>4. ASSUME NEW k \in 1 .. x + n PROVE d[k - 1] = IF k <= x THEN b[k] ELSE t[k - x]
    <3>1. CASE k <= x
      <4>1. k \in 1 .. x /\ k - 1 \in 0 .. x - 1
        BY <3>1
      <4> QED
        BY <1>9, <2>1, <3>1, <4>1
    <3>2. CASE ~(k <= x)
      <4>1. k - x \in 1 .. n /\ x + (k - x) - 1 = k - 1
        BY <1>1, <3>2
      <4> QED
        BY <1>7, <3>2, <4>1
    <3> QED
      BY <3>1, <3>2
  <2>5. \A k \in 1 .. x + n : Text(w)[k] = (b \o t)[k]
    BY <2>2, <2>3, <2>4
  <2>6. Text(w) = b \o t
    BY <2>2, <2>3, <2>5, SeqEqual
  <2> QED
    BY <2>6 DEF b
<1> QED
  BY <1>4, <1>13, <1>16, <1>17 DEF w, a

-----------------------------------------------------------------------------
(* Storage.                                                                *)

\* A storage with the bytes of a valid string up to the terminator has its text.
LEMMA SameBytes ==
  ASSUME NEW s, Valid(s), NEW w, Storage(w), w.length = s.length, s.length < w.capacity,
         \A k \in 0 .. s.length : w.data[k] = s.data[k]
  PROVE  Valid(w) /\ Text(w) = Text(s)
<1>1. s.length \in Nat /\ s.length \in 0 .. s.length
      /\ \A k \in 0 .. s.length - 1 : k \in 0 .. s.length
  BY StorageNumbers DEF Valid
<1>2. Valid(w)
  BY <1>1 DEF Valid
<1>3. \A k \in 1 .. s.length : k - 1 \in 0 .. s.length
  BY <1>1
<1>4. \A k \in 1 .. s.length : Text(w)[k] = Text(s)[k]
  BY <1>2, <1>3, TextIsText
<1>5. Text(w) = Text(s)
  BY <1>2, <1>4, TextIsText, SeqEqual
<1> QED
  BY <1>2, <1>5

\* What is copied to an untouched storage: all bytes of the text.
LEMMA CopiedBytes ==
  ASSUME NEW s, Valid(s), NEW c \in Nat, s.length < c
  PROVE  LET d == Put(Block(c), 0, Bytes(s.data, s.length + 1)) IN
         /\ d \in [0 .. c - 1 -> Char \cup {NUL, Junk}]
         /\ \A k \in 0 .. s.length : d[k] = s.data[k]
<1> DEFINE n == s.length
           b == Bytes(s.data, n + 1)
           d == Put(Block(c), 0, b)
           S == Char \cup {NUL, Junk}
<1>1. n \in Nat /\ n < s.capacity /\ s.capacity \in Nat /\ n < c
  BY StorageNumbers DEF Valid
<1>2. ASSUME NEW k \in 1 .. n + 1
      PROVE  At(s.data, k - 1) = s.data[k - 1] /\ s.data[k - 1] \in S
  <2>1. k - 1 \in 0 .. s.capacity - 1
    BY <1>1
  <2> QED
    BY <2>1, StorageNumbers DEF Valid
<1> HIDE DEF n
<1>3. b \in [1 .. n + 1 -> S] /\ \A k \in 1 .. n + 1 : b[k] = s.data[k - 1]
  BY <1>2 DEF Bytes
<1> HIDE DEF b
<1>4. Len(b) = n + 1
  <2>1. n + 1 \in Nat
    BY <1>1
  <2> QED
    BY <1>3, <2>1, RowIsSeq
<1>5. 0 + Len(b) - 1 = n /\ (0 .. c - 1) \cup (0 .. n) = 0 .. c - 1
  BY <1>1, <1>4
<1>6. DOMAIN Block(c) = 0 .. c - 1 /\ \A k \in 0 .. c - 1 : Block(c)[k] \in S
  BY DEF Block
<1>7. d = [k \in 0 .. c - 1 |-> IF k \in 0 .. n THEN b[k - 0 + 1] ELSE Block(c)[k]]
  BY <1>5, <1>6 DEF Put
<1>8. ASSUME NEW k \in 0 .. n PROVE b[k - 0 + 1] = s.data[k] /\ b[k - 0 + 1] \in S
  <2>1. k - 0 + 1 \in 1 .. n + 1 /\ (k - 0 + 1) - 1 = k
    BY <1>1
  <2> QED
    BY <1>3, <2>1
<1> HIDE DEF d, S
<1>9. d \in [0 .. c - 1 -> S]
  BY <1>6, <1>7, <1>8
<1>10. \A k \in 0 .. n : k \in 0 .. c - 1
  BY <1>1
<1>11. \A k \in 0 .. n : d[k] = s.data[k]
  BY <1>7, <1>8, <1>10
<1> QED
  BY <1>9, <1>11 DEF d, b, n, S

\* What realloc leaves: all bytes of the text, if there is room for them.
LEMMA ResizedBytes ==
  ASSUME NEW s, Valid(s), NEW c \in Nat, s.length < c
  PROVE  LET d == Resized(s.data, c) IN
         /\ d \in [0 .. c - 1 -> Char \cup {NUL, Junk}]
         /\ \A k \in 0 .. s.length : d[k] = s.data[k]
<1>1. s.length \in Nat /\ s.length < s.capacity /\ s.capacity \in Nat
      /\ DOMAIN s.data = 0 .. s.capacity - 1
  BY StorageNumbers DEF Valid
<1>2. \A k : At(s.data, k) \in Char \cup {NUL, Junk}
  BY StorageNumbers DEF At, Valid
<1>3. \A k \in 0 .. s.length : k \in 0 .. c - 1 /\ k \in 0 .. s.capacity - 1
  BY <1>1
<1>4. Resized(s.data, c) \in [0 .. c - 1 -> Char \cup {NUL, Junk}]
  BY <1>2 DEF Resized
<1>5. \A k \in 0 .. s.length : Resized(s.data, c)[k] = s.data[k]
  BY <1>1, <1>3 DEF Resized, At
<1> QED
  BY <1>4, <1>5

\* The text moves to a larger or smaller external block.
LEMMA MovedIsText ==
  ASSUME NEW s, Valid(s), NEW c \in InternalCapacity + 1 .. MaxBlock, s.length < c
  PROVE  LET w == Moved(s, c) IN
         /\ Valid(w) /\ Text(w) = Text(s) /\ w.length = s.length
         /\ w.capacity = c /\ w.external
<1> DEFINE d == IF s.external THEN Resized(s.data, c)
                ELSE Put(Block(c), 0, Bytes(s.data, s.length + 1))
           w == Moved(s, c)
<1>1. c \in Nat
  BY StrAssumption
<1>2. d \in [0 .. c - 1 -> Char \cup {NUL, Junk}] /\ \A k \in 0 .. s.length : d[k] = s.data[k]
  BY <1>1, CopiedBytes, ResizedBytes
<1>3. (IF s.external THEN s.blocks ELSE s.blocks + 1) = 1 /\ s.length \in Nat
  BY DEF Valid, Storage
<1>4. w = [s EXCEPT !.data = d, !.capacity = c, !.external = TRUE, !.blocks = 1]
  BY <1>3 DEF Moved
<1> HIDE DEF d
<1>5. w = [length |-> s.length, external |-> TRUE, capacity |-> c, blocks |-> 1, data |-> d]
  BY <1>4 DEF Valid, Storage
<1> HIDE DEF w
<1>6. Storage(w)
  BY <1>2, <1>3, <1>5 DEF Storage
<1>7. Valid(w) /\ Text(w) = Text(s)
  BY <1>2, <1>5, <1>6, SameBytes
<1> QED
  BY <1>5, <1>7 DEF w

\* The text moves back into the struct.
LEMMA InternalIsText ==
  ASSUME NEW s, Valid(s), s.external, s.length < InternalCapacity
  PROVE  LET w == Internal(s) IN
         Valid(w) /\ Text(w) = Text(s) /\ w.length = s.length /\ ~w.external
<1> DEFINE d == Put(Block(InternalCapacity), 0, Bytes(s.data, s.length + 1))
           w == Internal(s)
<1>1. /\ d \in [0 .. InternalCapacity - 1 -> Char \cup {NUL, Junk}]
      /\ \A k \in 0 .. s.length : d[k] = s.data[k]
  BY StrAssumption, CopiedBytes
<1> HIDE DEF d
<1>2. s.blocks - 1 = 0 /\ s.length \in Nat
  BY DEF Valid, Storage
<1>3. w = [s EXCEPT !.data = d, !.capacity = InternalCapacity, !.external = FALSE, !.blocks = 0]
  BY <1>2 DEF Internal, d
<1>4. w = [length |-> s.length, external |-> FALSE, capacity |-> InternalCapacity,
           blocks |-> 0, data |-> d]
  BY <1>3 DEF Valid, Storage
<1> HIDE DEF w
<1>5. Storage(w)
  BY <1>1, <1>2, <1>4 DEF Storage
<1>6. Valid(w) /\ Text(w) = Text(s)
  BY <1>1, <1>4, <1>5, SameBytes
<1> QED
  BY <1>4, <1>6 DEF w

\* A destroyed string holds no block.
LEMMA FreedIsEmpty ==
  ASSUME NEW s, Storage(s)
  PROVE  LET w == Freed(s) IN
         Storage(w) /\ w.length = s.length /\ ~w.external /\ w.blocks = 0
<1> DEFINE w == Freed(s)
<1>1. CASE s.external
  <2>1. s.blocks - 1 = 0
    BY <1>1 DEF Storage
  <2>2. w = [s EXCEPT !.external = FALSE, !.capacity = InternalCapacity,
                      !.data = Block(InternalCapacity), !.blocks = 0]
    BY <1>1, <2>1 DEF Freed
  <2>3. w = [length |-> s.length, external |-> FALSE, capacity |-> InternalCapacity,
             blocks |-> 0, data |-> Block(InternalCapacity)]
    BY <2>2 DEF Storage
  <2> HIDE DEF w
  <2>4. Block(InternalCapacity) \in [0 .. InternalCapacity - 1 -> Char \cup {NUL, Junk}]
    BY DEF Block
  <2> QED
    BY <2>3, <2>4 DEF Storage, w
<1>2. CASE ~s.external
  BY <1>2 DEF Freed, Storage
<1> QED
  BY <1>1, <1>2

\* A new string is empty.
LEMMA ZeroIsEmpty == Valid(Zero) /\ Text(Zero) = <<>> /\ Zero.length = 0 /\ Zero.blocks = 0
<1>1. Valid(Zero)
  BY StrAssumption DEF Zero, Valid, Storage
<1>2. Zero.length = 0 /\ Zero.blocks = 0
  BY DEF Zero
<1>3. Text(Zero) = <<>>
  BY <1>1, <1>2, TextIsText, EmptySeq
<1> QED
  BY <1>1, <1>2, <1>3

\* The blocks that are asked for
LEMMA RoundedUpFits ==
  ASSUME NEW n, NEW c \in RoundedUp(n)
  PROVE  /\ c \in Nat /\ 2 <= c /\ c <= MaxBlock /\ n <= c /\ (c = 2 \/ c < 2 * n)
         /\ c # InternalCapacity - 1 /\ c # InternalCapacity
<1>1. c \in PowersOfTwo /\ n <= c /\ (c = 2 \/ c < 2 * n)
  BY DEF RoundedUp
<1>2. PICK m \in 1 .. SizeBits - 1 : c = 2^m
  BY <1>1 DEF PowersOfTwo
<1>3. m \in 0 .. SizeBits
  BY StrAssumption
<1>4. c # InternalCapacity - 1 /\ c # InternalCapacity
  BY <1>2, <1>3, StrAssumption
<1>5. c \in 2 .. MaxBlock
  BY <1>1 DEF PowersOfTwo
<1> QED
  BY <1>1, <1>4, <1>5, StrAssumption

\* str_reserve: the text stays, there is room, and no less than before.
LEMMA ReserveGives ==
  ASSUME NEW s, Valid(s), NEW n \in Nat, NEW r \in Reserve(s, n)
  PROVE  /\ Gives(r, s, Text(s))
         /\ r.rc = 0 => /\ r.s.length = s.length
                        /\ n <= r.s.capacity /\ s.capacity <= r.s.capacity
<1>1. /\ s.length \in Nat /\ s.capacity \in Nat /\ s.capacity >= InternalCapacity
      /\ s.length < s.capacity /\ InternalCapacity \in Nat
  BY StorageNumbers, StrAssumption DEF Valid
<1>2. CASE r = Outcome(s, 0) /\ (n < InternalCapacity - 1 \/ n < s.capacity)
  BY <1>1, <1>2 DEF Outcome, Gives
<1>3. ASSUME ~(n < InternalCapacity - 1 \/ (s.external /\ n < s.capacity)),
             NEW c \in RoundedUp(n), r = Outcome(Moved(s, c), 0)
      PROVE  /\ Gives(r, s, Text(s)) /\ r.s.length = s.length
             /\ n <= r.s.capacity /\ s.capacity <= r.s.capacity
  <2>1. c \in InternalCapacity + 1 .. MaxBlock /\ n <= c
    BY <1>1, <1>3, RoundedUpFits, StrAssumption
  <2>2. s.external \in BOOLEAN /\ (~s.external => s.capacity = InternalCapacity)
    BY DEF Valid, Storage
  <2>3. s.capacity <= c
    BY <1>1, <1>3, <2>1, <2>2
  <2>4. s.length < c
    BY <1>1, <2>1, <2>3
  <2> QED
    BY <1>3, <2>1, <2>3, <2>4, MovedIsText DEF Outcome, Gives
<1>4. CASE r = Outcome(s, -1)
  BY <1>4 DEF Outcome, Gives
<1> QED
  BY <1>2, <1>3, <1>4 DEF Reserve

\* str_shrink_to_fit: the text stays, and no block is twice as large as needed.
LEMMA ShrinkGives ==
  ASSUME NEW s, Valid(s), NEW r \in ShrinkToFit(s)
  PROVE  /\ Gives(r, s, Text(s))
         /\ r.rc = 0 /\ r.s.external =>
              r.s.length >= InternalCapacity /\ r.s.capacity < 2 * (r.s.length + 1)
<1>1. /\ s.length \in Nat /\ s.capacity \in Nat /\ s.capacity >= InternalCapacity
      /\ s.length < s.capacity /\ InternalCapacity \in Nat /\ InternalCapacity > 2
  BY StorageNumbers, StrAssumption DEF Valid
<1>2. s.external \in BOOLEAN /\ (s.external => s.capacity > InternalCapacity)
  BY <1>1, StrAssumption DEF Valid, Storage
<1>3. CASE s.capacity <= s.length + 1
  <2>1. r = Outcome(s, 0)
    BY <1>1, <1>3 DEF ShrinkToFit
  <2> QED
    BY <1>1, <1>2, <1>3, <2>1 DEF Outcome, Gives
<1>4. CASE s.capacity > s.length + 1 /\ s.length < InternalCapacity
  <2>1. \/ s.external /\ r = Outcome(Internal(s), 0)
        \/ r = Outcome(s, -1) \/ (~s.external /\ r = Outcome(s, 0))
    BY <1>1, <1>2, <1>4 DEF ShrinkToFit
  <2> QED
    BY <1>4, <2>1, InternalIsText DEF Outcome, Gives
<1>5. CASE s.capacity > s.length + 1 /\ ~(s.length < InternalCapacity)
  <2>1. \/ r = Outcome(s, -1)
        \/ \E c \in RoundedUp(s.length + 1) : r = Outcome(Moved(s, c), 0)
    BY <1>1, <1>5 DEF ShrinkToFit
  <2>2. ASSUME NEW c \in RoundedUp(s.length + 1), r = Outcome(Moved(s, c), 0)
        PROVE  Gives(r, s, Text(s)) /\ r.s.length = s.length /\ r.s.capacity = c
               /\ c < 2 * (s.length + 1)
    <3>1. /\ c \in InternalCapacity + 1 .. MaxBlock /\ s.length < c
          /\ c < 2 * (s.length + 1)
      BY <1>1, <1>5, RoundedUpFits, StrAssumption
    <3> QED
      BY <2>2, <3>1, MovedIsText DEF Outcome, Gives
  <2> QED
    BY <1>1, <1>5, <2>1, <2>2 DEF Outcome, Gives
<1> QED
  BY <1>1, <1>3, <1>4, <1>5

-----------------------------------------------------------------------------
(* Filling: the calls that change the text.                                *)

\* A string with room for it takes the text t behind its first x characters.
LEMMA FillGives ==
  ASSUME NEW s, Valid(s), NEW n \in Nat, NEW q \in Reserve(s, n), q.rc = 0,
         NEW x \in 0 .. s.length, NEW t \in Seq(Char), x + Len(t) < n \/ x + Len(t) < s.capacity
  PROVE  LET w == Filled(q.s, x, Append(t, NUL)) IN
         Valid(w) /\ Text(w) = Bytes(q.s.data, x) \o t
<1>1. /\ Valid(q.s) /\ q.s.length = s.length /\ n <= q.s.capacity
      /\ s.capacity <= q.s.capacity
  BY ReserveGives DEF Gives
<1>2. /\ s.length \in Nat /\ Len(t) \in Nat /\ s.capacity \in Nat /\ q.s.capacity \in Nat
  BY <1>1, StorageNumbers, LenProperties DEF Valid
<1>3. x \in Nat /\ x + Len(t) < q.s.capacity /\ \A k \in 0 .. x - 1 : k \in 0 .. q.s.length - 1
  BY <1>1, <1>2
<1>4. Storage(q.s) /\ \A k \in 0 .. x - 1 : q.s.data[k] \in Char
  BY <1>1, <1>3 DEF Valid
<1> QED
  BY <1>3, <1>4, FilledIsText

\* Nothing kept, nothing but the text.
LEMMA NothingBefore == ASSUME NEW d, NEW t \in Seq(Char) PROVE Bytes(d, 0) \o t = t
<1>1. Bytes(d, 0) = <<>>
  <2>1. Bytes(d, 0) \in [1 .. 0 -> Char]
    BY DEF Bytes
  <2>2. Bytes(d, 0) \in Seq(Char) /\ Len(Bytes(d, 0)) = 0
    BY <2>1, RowIsSeq
  <2> QED
    BY <2>2, EmptySeq
<1> QED
  BY <1>1, ConcatEmptySeq

\* The source of a call, which may be the string itself, keeps its text while
\* storage is reserved.
LEMMA NowIsText ==
  ASSUME NEW s, Valid(s), NEW n \in Nat, NEW q \in Reserve(s, n), q.rc = 0,
         NEW src, Valid(src)
  PROVE  LET w == Now(src, s, q.s) IN
         Valid(w) /\ w.length = src.length /\ Text(w) = Text(src)
BY ReserveGives DEF Now, Gives

\* str_assign
LEMMA AssignGives ==
  ASSUME NEW s, Valid(s), NEW src, Valid(src), NEW r \in Assign(s, src)
  PROVE  Gives(r, s, Text(src))
<1> DEFINE n == src.length + 1
           bytes(w) == Bytes(Now(src, s, w).data, n)
<1>1. PICK q \in Reserve(s, n) :
        r = IF q.rc < 0 THEN q ELSE Outcome(Filled(q.s, 0, bytes(q.s)), 0)
  BY DEF Assign, Fill
<1>2. n \in Nat /\ q.rc \in {0, -1} /\ (q.rc = -1 => q.s = s)
  <2>1. n \in Nat
    BY StorageNumbers DEF Valid
  <2> QED
    BY <2>1, ReserveGives DEF Gives
<1> HIDE DEF n
<1>3. CASE q.rc = -1
  BY <1>1, <1>2, <1>3 DEF Gives
<1>4. CASE q.rc = 0
  <2> DEFINE t == Text(Now(src, s, q.s))
  <2>1. t = Text(src) /\ t \in Seq(Char) /\ Len(t) = src.length
    BY <1>2, <1>4, NowIsText, TextIsText
  <2>2. bytes(q.s) = Append(t, NUL)
    <3> DEFINE now == Now(src, s, q.s)
    <3>1. Valid(now) /\ now.length = src.length
      BY <1>2, <1>4, NowIsText
    <3> HIDE DEF now
    <3>2. Bytes(now.data, now.length + 1) = Append(Text(now), NUL)
      BY <3>1, WithTerminator
    <3> QED
      BY <3>1, <3>2 DEF now, n
  <2> HIDE DEF t, bytes
  <2>3. 0 \in 0 .. s.length /\ 0 + Len(t) < n
    BY <2>1, StorageNumbers DEF Valid, n
  <2>4. Valid(Filled(q.s, 0, bytes(q.s))) /\ Text(Filled(q.s, 0, bytes(q.s))) = t
    BY <1>2, <1>4, <2>1, <2>2, <2>3, FillGives, NothingBefore
  <2>5. r = Outcome(Filled(q.s, 0, bytes(q.s)), 0)
    BY <1>1, <1>4
  <2> QED
    BY <2>1, <2>4, <2>5 DEF Gives, Outcome
<1> QED
  BY <1>2, <1>3, <1>4

\* str_assign_cstr
LEMMA AssignCstrGives ==
  ASSUME NEW s, Valid(s), NEW t \in Seq(Char), NEW r \in AssignCstr(s, t)
  PROVE  Gives(r, s, t)
<1> DEFINE n == Len(t) + 1
           w(q) == Filled(q.s, 0, Append(t, NUL))
<1>1. PICK q \in Reserve(s, n) : r = IF q.rc < 0 THEN q ELSE Outcome(w(q), 0)
  BY DEF AssignCstr, Fill
<1>2. n \in Nat /\ 0 + Len(t) < n /\ 0 \in 0 .. s.length
  BY LenProperties, StorageNumbers DEF Valid
<1> HIDE DEF n
<1>3. q.rc \in {0, -1} /\ (q.rc = -1 => q.s = s)
  BY <1>2, ReserveGives DEF Gives
<1>4. CASE q.rc = -1
  BY <1>1, <1>3, <1>4 DEF Gives
<1>5. CASE q.rc = 0
  <2>1. Valid(w(q)) /\ Text(w(q)) = t
    BY <1>2, <1>5, FillGives, NothingBefore
  <2> HIDE DEF w
  <2> QED
    BY <1>1, <1>5, <2>1 DEF Gives, Outcome
<1> QED
  BY <1>3, <1>4, <1>5

\* The doubling stops at a capacity with room for the terminator.
LEMMA AppendCapacityFits ==
  ASSUME NEW s, NEW size \in Nat, NEW n \in AppendCapacity(s, size), s.capacity \in Nat
  PROVE  n \in Nat /\ size < n
<1>1. n \in size + 1 .. s.capacity + 2 * size + 1
  BY DEF AppendCapacity
<1> QED
  BY <1>1

\* What is appended follows the text.
LEMMA AppendingGives ==
  ASSUME NEW s, Valid(s), NEW t \in Seq(Char),
         NEW n \in AppendCapacity(s, s.length + Len(t)),
         NEW q \in Reserve(s, n), q.rc = 0
  PROVE  LET w == Filled(q.s, s.length, Append(t, NUL)) IN
         Valid(w) /\ Text(w) = Text(s) \o t
<1>1. s.length \in Nat /\ s.capacity \in Nat /\ Len(t) \in Nat
  BY StorageNumbers, LenProperties DEF Valid
<1>2. n \in Nat /\ s.length + Len(t) < n
  <2>1. s.length + Len(t) \in Nat
    BY <1>1
  <2> QED
    BY <1>1, <2>1, AppendCapacityFits
<1>3. q.s.length = s.length /\ Text(q.s) = Text(s)
  BY <1>2, ReserveGives DEF Gives
<1>4. s.length \in 0 .. s.length
  BY <1>1
<1>5. Bytes(q.s.data, s.length) = Text(s)
  BY <1>3 DEF Text
<1> DEFINE w == Filled(q.s, s.length, Append(t, NUL))
<1>6. \A x \in 0 .. s.length : x + Len(t) < n =>
        LET v == Filled(q.s, x, Append(t, NUL)) IN
        Valid(v) /\ Text(v) = Bytes(q.s.data, x) \o t
  BY <1>2, FillGives
<1>7. Valid(w) /\ Text(w) = Bytes(q.s.data, s.length) \o t
  BY <1>2, <1>4, <1>6
<1> HIDE DEF w
<1>8. Valid(w) /\ Text(w) = Text(s) \o t
  BY <1>5, <1>7
<1> QED
  BY <1>8 DEF w

\* str_append
LEMMA AppendStrGives ==
  ASSUME NEW s, Valid(s), NEW src, Valid(src), NEW r \in AppendStr(s, src)
  PROVE  Gives(r, s, Text(s) \o Text(src))
<1> DEFINE ns == AppendCapacity(s, s.length + src.length)
           bytes(w) == Append(Bytes(Now(src, s, w).data, src.length), NUL)
<1>0. PICK n \in ns : \E q \in Reserve(s, n) :
        r = IF q.rc < 0 THEN q ELSE Outcome(Filled(q.s, s.length, bytes(q.s)), 0)
  BY DEF AppendStr, Fill
<1>1. PICK q \in Reserve(s, n) :
        r = IF q.rc < 0 THEN q ELSE Outcome(Filled(q.s, s.length, bytes(q.s)), 0)
  BY <1>0
<1> DEFINE t == Text(src)
<1>2. t \in Seq(Char) /\ Len(t) = src.length
  BY TextIsText
<1>3. n \in Nat
  <2>1. s.length + src.length \in Nat /\ s.capacity \in Nat
    BY StorageNumbers DEF Valid
  <2> QED
    BY <2>1, AppendCapacityFits
<1>4. q.rc \in {0, -1} /\ (q.rc = -1 => q.s = s)
  BY <1>3, ReserveGives DEF Gives
<1>5. CASE q.rc = -1
  BY <1>1, <1>4, <1>5 DEF Gives
<1>6. CASE q.rc = 0
  <2>1. bytes(q.s) = Append(t, NUL)
    BY <1>3, <1>6, NowIsText DEF Text
  <2> HIDE DEF t, bytes
  <2>2. /\ Valid(Filled(q.s, s.length, bytes(q.s)))
        /\ Text(Filled(q.s, s.length, bytes(q.s))) = Text(s) \o t
    BY <1>2, <1>6, <2>1, AppendingGives
  <2>3. r = Outcome(Filled(q.s, s.length, bytes(q.s)), 0)
    BY <1>1, <1>6
  <2> QED
    BY <2>2, <2>3 DEF Gives, Outcome, t
<1> QED
  BY <1>4, <1>5, <1>6

\* str_append_cstr
LEMMA AppendCstrGives ==
  ASSUME NEW s, Valid(s), NEW t \in Seq(Char), NEW r \in AppendCstr(s, t)
  PROVE  Gives(r, s, Text(s) \o t)
<1> DEFINE w(q) == Filled(q.s, s.length, Append(t, NUL))
<1>0. PICK n \in AppendCapacity(s, s.length + Len(t)) : \E q \in Reserve(s, n) :
        r = IF q.rc < 0 THEN q ELSE Outcome(w(q), 0)
  BY DEF AppendCstr, Fill
<1>1. PICK q \in Reserve(s, n) : r = IF q.rc < 0 THEN q ELSE Outcome(w(q), 0)
  BY <1>0
<1>2. n \in Nat
  <2>1. s.length + Len(t) \in Nat /\ s.capacity \in Nat
    BY StorageNumbers, LenProperties DEF Valid
  <2> QED
    BY <2>1, AppendCapacityFits
<1>3. q.rc \in {0, -1} /\ (q.rc = -1 => q.s = s)
  BY <1>2, ReserveGives DEF Gives
<1>4. CASE q.rc = -1
  BY <1>1, <1>3, <1>4 DEF Gives
<1>5. CASE q.rc = 0
  <2>1. Valid(w(q)) /\ Text(w(q)) = Text(s) \o t
    BY <1>5, AppendingGives
  <2> HIDE DEF w
  <2> QED
    BY <1>1, <1>5, <2>1 DEF Gives, Outcome
<1> QED
  BY <1>3, <1>4, <1>5

\* str_push_back
LEMMA PushBackGives ==
  ASSUME NEW s, Valid(s), NEW c \in Char, NEW r \in PushBack(s, c)
  PROVE  Gives(r, s, Text(s) \o <<c>>)
<1> DEFINE w(q) == Filled(q.s, s.length, <<c, NUL>>)
<1>1. PICK q \in IF s.capacity <= s.length + 1 THEN Reserve(s, s.length + 2)
                 ELSE {Outcome(s, 0)} :
        r = IF q.rc < 0 THEN q ELSE Outcome(w(q), 0)
  BY DEF PushBack
<1>2. s.length \in Nat /\ s.length + 2 \in Nat /\ s.capacity \in Nat
  BY StorageNumbers DEF Valid
<1>3. \/ q.rc = -1 /\ q.s = s
      \/ q.rc = 0 /\ Valid(q.s) /\ Text(q.s) = Text(s) /\ q.s.length = s.length
         /\ s.length + 1 < q.s.capacity
  <2>1. CASE s.capacity <= s.length + 1
    <3>1. q \in Reserve(s, s.length + 2)
      BY <1>1, <2>1
    <3>2. \/ q.rc = -1 /\ q.s = s
          \/ q.rc = 0 /\ Valid(q.s) /\ Text(q.s) = Text(s) /\ q.s.length = s.length
             /\ s.length + 2 <= q.s.capacity
      BY <1>2, <3>1, ReserveGives DEF Gives
    <3>3. q.rc = 0 => q.s.capacity \in Nat
      BY <3>2, StorageNumbers DEF Valid
    <3> QED
      BY <1>2, <3>2, <3>3
  <2>2. CASE ~(s.capacity <= s.length + 1)
    BY <1>1, <1>2, <2>2 DEF Outcome
  <2> QED
    BY <2>1, <2>2
<1>4. CASE q.rc = -1
  BY <1>1, <1>3, <1>4 DEF Gives
<1>5. CASE q.rc = 0
  <2> DEFINE t == <<c>>
  <2>1. t \in Seq(Char) /\ Len(t) = 1 /\ <<c, NUL>> = Append(t, NUL)
    OBVIOUS
  <2>2. Storage(q.s) /\ \A k \in 0 .. s.length - 1 : q.s.data[k] \in Char
    BY <1>3, <1>5 DEF Valid
  <2>3. Bytes(q.s.data, s.length) = Text(s)
    BY <1>3, <1>5 DEF Text
  <2> HIDE DEF t
  <2>4. s.length + Len(t) < q.s.capacity
    BY <1>3, <1>5, <2>1
  <2> DEFINE v == Filled(q.s, s.length, Append(t, NUL))
  <2>5. Valid(v) /\ Text(v) = Bytes(q.s.data, s.length) \o t
    BY <1>2, <2>1, <2>2, <2>4, FilledIsText
  <2>6. w(q) = v
    BY <2>1
  <2> HIDE DEF w, v
  <2>7. r.rc = 0 /\ r.s = v
    BY <1>1, <1>5, <2>6 DEF Outcome
  <2> QED
    BY <2>3, <2>5, <2>7 DEF Gives, t
<1> QED
  BY <1>3, <1>4, <1>5

-----------------------------------------------------------------------------
(* New strings.                                                            *)

\* A string that could not be filled leaves nothing behind.
LEMMA NewMakes ==
  ASSUME NEW rs, NEW s, Valid(s), NEW t, \A r \in rs : Gives(r, s, t), NEW q \in New(rs)
  PROVE  Makes(q, t)
<1>1. CASE q = Outcome(Zero, -1)
  BY <1>1, ZeroIsEmpty DEF Outcome, Makes
<1>2. ASSUME NEW r \in rs, q = IF r.rc < 0 THEN Outcome(Freed(r.s), -1) ELSE r
      PROVE  Makes(q, t)
  <2>1. CASE r.rc = -1
    <3>1. r.s = s /\ q = Outcome(Freed(s), -1)
      BY <1>2, <2>1 DEF Gives
    <3> QED
      BY <3>1, FreedIsEmpty DEF Outcome, Makes, Valid
  <2>2. CASE r.rc = 0
    BY <1>2, <2>2 DEF Gives, Makes
  <2> QED
    BY <2>1, <2>2 DEF Gives
<1> QED
  BY <1>1, <1>2 DEF New

\* str_copy
LEMMA CopyMakes ==
  ASSUME NEW src, Valid(src), NEW r \in Copy(src)
  PROVE  Makes(r, Text(src))
<1>1. \A q \in Assign(Zero, src) : Gives(q, Zero, Text(src))
  BY ZeroIsEmpty, AssignGives
<1> QED
  BY <1>1, ZeroIsEmpty, NewMakes DEF Copy

\* str_from_cstr
LEMMA FromCstrMakes ==
  ASSUME NEW t \in Seq(Char), NEW r \in FromCstr(t)
  PROVE  Makes(r, t)
<1>1. \A q \in AssignCstr(Zero, t) : Gives(q, Zero, t)
  BY ZeroIsEmpty, AssignCstrGives
<1> QED
  BY <1>1, ZeroIsEmpty, NewMakes DEF FromCstr

\* str_concat
LEMMA ConcatMakes ==
  ASSUME NEW s1, Valid(s1), NEW s2, Valid(s2), NEW r \in Concat(s1, s2)
  PROVE  Makes(r, Text(s1) \o Text(s2))
<1>1. PICK c \in Copy(s1) : r \in IF c.rc < 0 THEN {c} ELSE New(AppendStr(c.s, s2))
  BY DEF Concat
<1>2. Makes(c, Text(s1))
  BY CopyMakes
<1>3. CASE c.rc = -1
  BY <1>1, <1>2, <1>3 DEF Makes
<1>4. CASE c.rc = 0
  <2>1. Valid(c.s) /\ Text(c.s) = Text(s1) /\ r \in New(AppendStr(c.s, s2))
    BY <1>1, <1>2, <1>4 DEF Makes
  <2>2. \A q \in AppendStr(c.s, s2) : Gives(q, c.s, Text(s1) \o Text(s2))
    BY <2>1, AppendStrGives
  <2> QED
    BY <2>1, <2>2, NewMakes
<1> QED
  BY <1>2, <1>3, <1>4 DEF Makes

\* The strings of the texts
LEMMA OthersHold ==
  ASSUME NEW src \in Others
  PROVE  Valid(src) /\ src.length <= MaxLength
<1>0. PICK t \in Texts : \E r \in AssignCstr(Zero, t) : r.rc = 0 /\ src = r.s
  BY DEF Others
<1>1. PICK r \in AssignCstr(Zero, t) : r.rc = 0 /\ src = r.s
  BY <1>0
<1>2. t \in Seq(Char) /\ Len(t) <= MaxLength
  BY StrAssumption
<1>3. Valid(src) /\ Text(src) = t
  BY <1>1, <1>2, ZeroIsEmpty, AssignCstrGives DEF Gives
<1> QED
  BY <1>2, <1>3, TextIsText

-----------------------------------------------------------------------------
(* The calls.                                                              *)

\* What a call returns with: the bytes behind the terminator are forgotten.
LEMMA ReturnKeeps ==
  ASSUME NEW s, Valid(s), s.length <= MaxLength, NEW code \in {-1, 0},
         NEW o \in Char \cup {Junk}, Return(s, code, o), lost' = 0
  PROVE  /\ StrInv' /\ Abstract!Returns(Text(s), code, o)
         /\ str'.length = s.length /\ str'.capacity = s.capacity
         /\ str'.external = s.external
<1> DEFINE d == [k \in DOMAIN s.data |-> IF k > s.length THEN Junk ELSE s.data[k]]
<1>1. s.length \in Nat /\ s.length < s.capacity /\ s.capacity \in Nat
      /\ DOMAIN s.data = 0 .. s.capacity - 1
  BY StorageNumbers DEF Valid
<1>2. d \in [0 .. s.capacity - 1 -> Char \cup {NUL, Junk}]
  BY <1>1, StorageNumbers DEF Valid
<1>3. \A k \in 0 .. s.length : d[k] = s.data[k]
  BY <1>1
<1>4. str' = [s EXCEPT !.data = d] /\ live' = TRUE /\ rc' = code /\ out' = o
  BY DEF Return
<1> HIDE DEF d
<1>5. str' = [length |-> s.length, external |-> s.external, capacity |-> s.capacity,
              blocks |-> s.blocks, data |-> d]
  BY <1>4 DEF Valid, Storage
<1> DEFINE w == str'
<1>6. Storage(w)
  BY <1>2, <1>5 DEF Storage, Valid
<1>7. Valid(w) /\ Text(w) = Text(s)
  BY <1>1, <1>3, <1>5, <1>6, SameBytes
<1>8. StrInv'
  BY <1>4, <1>5, <1>6, <1>7 DEF StrInv, Storage, Valid, Text, Bytes, At
<1>9. Abstract!Returns(Text(s), code, o)
  BY <1>4, <1>7 DEF Abstract!Returns
<1> QED
  BY <1>5, <1>8, <1>9

\* A call on the string that gives t keeps the invariant, and the promise.
LEMMA CallKeeps ==
  ASSUME StrInv, NEW rs, NEW t, live => \A r \in rs : Gives(r, str, t),
         Len(t) <= MaxLength, Call(rs)
  PROVE  StrInv' /\ Abstract!MayFail(t)
<1>1. PICK r \in rs : Return(r.s, r.rc, Junk)
  BY DEF Call
<1>2. lost' = 0 /\ Gives(r, str, t) /\ Valid(str) /\ str.length <= MaxLength
  BY DEF Call, StrInv
<1>3. CASE r.rc = -1
  <2>1. StrInv' /\ Abstract!Returns(Text(str), -1, Junk)
    BY <1>1, <1>2, <1>3, ReturnKeeps DEF Gives
  <2> QED
    BY <2>1 DEF Abstract!MayFail
<1>4. CASE r.rc = 0
  <2>1. Valid(r.s) /\ Text(r.s) = t
    BY <1>2, <1>4 DEF Gives
  <2>2. r.s.length <= MaxLength
    BY <2>1, TextIsText
  <2>3. StrInv' /\ Abstract!Returns(t, 0, Junk)
    BY <1>1, <1>2, <1>4, <2>1, <2>2, ReturnKeeps
  <2> QED
    BY <2>3 DEF Abstract!MayFail
<1> QED
  BY <1>2, <1>3, <1>4 DEF Gives

\* So does one that makes a new string to go on with.
LEMMA ReplaceKeeps ==
  ASSUME StrInv, NEW rs, NEW t, live => \A r \in rs : Makes(r, t),
         Len(t) <= MaxLength, Replace(rs)
  PROVE  StrInv' /\ Abstract!MayFail(t)
<1>1. PICK r \in rs :
        IF r.rc < 0 THEN Return(str, -1, Junk) /\ lost' = lost + r.s.blocks
        ELSE Return(r.s, 0, Junk) /\ lost' = lost + Freed(str).blocks
  BY DEF Replace
<1>2. lost = 0 /\ Makes(r, t) /\ Valid(str) /\ str.length <= MaxLength
  BY DEF Replace, StrInv
<1>3. CASE r.rc = -1
  <2>1. Return(str, -1, Junk) /\ lost' = 0
    BY <1>1, <1>2, <1>3 DEF Makes
  <2>2. StrInv' /\ Abstract!Returns(Text(str), -1, Junk)
    BY <1>2, <2>1, ReturnKeeps
  <2> QED
    BY <2>2 DEF Abstract!MayFail
<1>4. CASE r.rc = 0
  <2>1. Valid(r.s) /\ Text(r.s) = t
    BY <1>2, <1>4 DEF Makes
  <2>2. r.s.length <= MaxLength
    BY <2>1, TextIsText
  <2>3. Freed(str).blocks = 0
    BY <1>2, FreedIsEmpty DEF Valid
  <2>4. Return(r.s, 0, Junk) /\ lost' = 0
    BY <1>1, <1>2, <1>4, <2>3
  <2>5. StrInv' /\ Abstract!Returns(t, 0, Junk)
    BY <2>1, <2>2, <2>4, ReturnKeeps
  <2> QED
    BY <2>5 DEF Abstract!MayFail
<1> QED
  BY <1>2, <1>3, <1>4 DEF Makes

\* The source of a call holds a text.
LEMMA SourceHolds ==
  ASSUME StrInv, NEW src \in Sources
  PROVE  /\ live => Valid(src) /\ Text(src) \in Seq(Char) /\ Len(Text(src)) = src.length
         /\ src # str => Valid(src) /\ src.length <= MaxLength
<1>1. src = str /\ live => Valid(src)
  BY DEF StrInv
<1>2. src # str => Valid(src) /\ src.length <= MaxLength
  BY OthersHold DEF Sources
<1> QED
  BY <1>1, <1>2, TextIsText

\* str_assign copies the text of the source, of the string itself too.
LEMMA AssignKeeps ==
  ASSUME StrInv, NEW src \in Sources, AssignCall(src)
  PROVE  StrInv' /\ Abstract!Assign(Text(src))
<1>1. live /\ Call(Assign(str, src)) /\ src.length <= MaxLength
  BY DEF AssignCall, Fits, Call
<1>2. Valid(str) /\ Valid(src) /\ Len(Text(src)) <= MaxLength
  BY <1>1, SourceHolds DEF StrInv
<1> QED
  BY <1>1, <1>2, AssignGives, CallKeeps DEF Abstract!Assign

\* str_assign_cstr
LEMMA AssignCstrKeeps ==
  ASSUME StrInv, NEW t \in Texts, AssignCstrCall(t)
  PROVE  StrInv' /\ Abstract!Assign(t)
<1>1. live /\ Call(AssignCstr(str, t)) /\ t \in Seq(Char) /\ Len(t) <= MaxLength
  BY StrAssumption DEF AssignCstrCall, Call
<1>2. Valid(str)
  BY <1>1 DEF StrInv
<1> QED
  BY <1>1, <1>2, AssignCstrGives, CallKeeps DEF Abstract!Assign

\* str_append extends the text by that of the source.
LEMMA AppendKeeps ==
  ASSUME StrInv, NEW src \in Sources, AppendCall(src)
  PROVE  StrInv' /\ Abstract!Extend(Text(src))
<1>1. live /\ Call(AppendStr(str, src)) /\ str.length + src.length <= MaxLength
  BY DEF AppendCall, Fits, Call
<1>2. Valid(str) /\ Valid(src)
  BY <1>1, SourceHolds DEF StrInv
<1>3. Len(Text(str) \o Text(src)) <= MaxLength
  <2>1. Len(Text(str) \o Text(src)) = str.length + src.length
    BY <1>2, TextIsText, ConcatProperties
  <2> QED
    BY <1>1, <2>1
<1> QED
  BY <1>1, <1>2, <1>3, AppendStrGives, CallKeeps DEF Abstract!Extend

\* str_append_cstr
LEMMA AppendCstrKeeps ==
  ASSUME StrInv, NEW t \in Texts, AppendCstrCall(t)
  PROVE  StrInv' /\ Abstract!Extend(t)
<1>1. /\ live /\ Call(AppendCstr(str, t)) /\ t \in Seq(Char)
      /\ str.length + Len(t) <= MaxLength
  BY StrAssumption DEF AppendCstrCall, Call, Fits
<1>2. Valid(str)
  BY <1>1 DEF StrInv
<1>3. Len(Text(str) \o t) <= MaxLength
  <2>1. Text(str) \in Seq(Char) /\ Len(Text(str)) = str.length
    BY <1>2, TextIsText
  <2>2. Len(Text(str) \o t) = str.length + Len(t)
    BY <1>1, <2>1, ConcatProperties
  <2> QED
    BY <1>1, <2>2
<1> QED
  BY <1>1, <1>2, <1>3, AppendCstrGives, CallKeeps DEF Abstract!Extend

\* str_push_back
LEMMA PushBackKeeps ==
  ASSUME StrInv, NEW c \in Char, PushBackCall(c)
  PROVE  StrInv' /\ Abstract!Extend(<<c>>)
<1>1. live /\ Call(PushBack(str, c)) /\ str.length + 1 <= MaxLength
  BY DEF PushBackCall, Call, Fits
<1>2. Valid(str)
  BY <1>1 DEF StrInv
<1>3. Len(Text(str) \o <<c>>) <= MaxLength
  <2>1. <<c>> \in Seq(Char) /\ Len(<<c>>) = 1
    OBVIOUS
  <2> QED
    BY <1>1, <1>2, <2>1, TextIsText, ConcatProperties
<1> QED
  BY <1>1, <1>2, <1>3, PushBackGives, CallKeeps DEF Abstract!Extend

\* str_copy hands out a string with the text of the source.
LEMMA CopyKeeps ==
  ASSUME StrInv, NEW src \in Sources, CopyCall(src)
  PROVE  StrInv' /\ Abstract!Assign(Text(src))
<1>1. live /\ Replace(Copy(src)) /\ src.length <= MaxLength
  BY DEF CopyCall, Fits, Replace
<1>2. Valid(src) /\ Len(Text(src)) <= MaxLength
  BY <1>1, SourceHolds
<1> QED
  BY <1>1, <1>2, CopyMakes, ReplaceKeeps DEF Abstract!Assign

\* str_from_cstr
LEMMA FromCstrKeeps ==
  ASSUME StrInv, NEW t \in Texts, FromCstrCall(t)
  PROVE  StrInv' /\ Abstract!Assign(t)
<1>1. Replace(FromCstr(t)) /\ t \in Seq(Char) /\ Len(t) <= MaxLength
  BY StrAssumption DEF FromCstrCall
<1> QED
  BY <1>1, FromCstrMakes, ReplaceKeeps DEF Abstract!Assign

\* str_concat, with the string on either side
LEMMA ConcatKeeps ==
  ASSUME StrInv, NEW src \in Sources
  PROVE  /\ ConcatCall(str, src) => StrInv' /\ Abstract!Extend(Text(src))
         /\ ConcatCall(src, str) => StrInv' /\ Abstract!Prepend(Text(src))
<1>1. ASSUME ConcatCall(str, src) PROVE StrInv' /\ Abstract!Extend(Text(src))
  <2>1. live /\ Replace(Concat(str, src)) /\ str.length + src.length <= MaxLength
    BY <1>1 DEF ConcatCall, Fits, Replace
  <2>2. Valid(str) /\ Valid(src)
    BY <2>1, SourceHolds DEF StrInv
  <2>3. Len(Text(str) \o Text(src)) <= MaxLength
    BY <2>1, <2>2, TextIsText, ConcatProperties
  <2> QED
    BY <2>1, <2>2, <2>3, ConcatMakes, ReplaceKeeps DEF Abstract!Extend
<1>2. ASSUME ConcatCall(src, str) PROVE StrInv' /\ Abstract!Prepend(Text(src))
  <2>1. live /\ Replace(Concat(src, str)) /\ src.length + str.length <= MaxLength
    BY <1>2 DEF ConcatCall, Fits, Replace
  <2>2. Valid(str) /\ Valid(src)
    BY <2>1, SourceHolds DEF StrInv
  <2>3. Len(Text(src) \o Text(str)) <= MaxLength
    BY <2>1, <2>2, TextIsText, ConcatProperties
  <2> QED
    BY <2>1, <2>2, <2>3, ConcatMakes, ReplaceKeeps DEF Abstract!Prepend
<1> QED
  BY <1>1, <1>2

\* str_reserve and str_shrink_to_fit change the storage and keep the text.
LEMMA ResizeKeeps ==
  ASSUME StrInv
  PROVE  /\ ShrinkCall => StrInv' /\ Abstract!Resize
         /\ \A n \in Requests : ReserveCall(n) => StrInv' /\ Abstract!Resize
<1>1. live => Valid(str) /\ Len(Text(str)) <= MaxLength
  BY TextIsText DEF StrInv
<1>2. ASSUME ShrinkCall PROVE StrInv' /\ Abstract!Resize
  <2>1. live => \A r \in ShrinkToFit(str) : Gives(r, str, Text(str))
    BY <1>1, ShrinkGives
  <2>2. live /\ Call(ShrinkToFit(str))
    BY <1>2 DEF ShrinkCall, Call
  <2> QED
    BY <1>1, <2>1, <2>2, CallKeeps DEF Abstract!Resize
<1>3. ASSUME NEW n \in Requests, ReserveCall(n) PROVE StrInv' /\ Abstract!Resize
  <2>1. n \in Nat
    BY StrAssumption
  <2>2. live => \A r \in Reserve(str, n) : Gives(r, str, Text(str))
    BY <1>1, <2>1, ReserveGives
  <2>3. live /\ Call(Reserve(str, n))
    BY <1>3 DEF ReserveCall, Call
  <2> QED
    BY <1>1, <2>2, <2>3, CallKeeps DEF Abstract!Resize
<1> QED
  BY <1>2, <1>3

\* Up to the last character, what is left is a prefix.
LEMMA PoppedIsPrefix ==
  ASSUME NEW s, Valid(s), s.length > 0
  PROVE  /\ Bytes(s.data, s.length - 1) \o <<>> = SubSeq(Text(s), 1, Len(Text(s)) - 1)
         /\ s.data[s.length - 1] = Text(s)[Len(Text(s))]
         /\ s.data[s.length - 1] \in Char
<1> DEFINE n == s.length - 1
           b == Bytes(s.data, n)
           p == SubSeq(Text(s), 1, n)
<1>1. n \in Nat /\ n \in 0 .. s.capacity /\ n \in 0 .. s.length - 1 /\ s.length = n + 1
      /\ \A k \in 0 .. n - 1 : k \in 0 .. s.length - 1
  BY StorageNumbers DEF Valid
<1>2. /\ Text(s) \in Seq(Char) /\ Len(Text(s)) = s.length
      /\ \A k \in 1 .. s.length : Text(s)[k] = s.data[k - 1]
  BY TextIsText
<1>3. b \in Seq(Char) /\ Len(b) = n /\ \A k \in 1 .. n : b[k] = s.data[k - 1]
  BY <1>1, BytesAreText DEF Valid
<1>4. Text(s)[s.length] = s.data[n] /\ s.data[n] \in Char
  BY <1>1, <1>2 DEF Valid
<1> HIDE DEF n
<1>5. \A k \in 1 .. n : k \in 1 .. s.length /\ Text(s)[k] \in Char
  BY <1>1, <1>2, ElementOfSeq
<1>6. p \in Seq(Char) /\ Len(p) = n /\ \A k \in 1 .. n : p[k] = Text(s)[k]
  <2>1. n - 1 + 1 = n /\ (1 <= n \/ n = 0) /\ \A k \in 1 .. n : 1 + k - 1 = k
    BY <1>1
  <2>2. /\ p \in Seq(Char) /\ Len(p) = IF 1 <= n THEN n - 1 + 1 ELSE 0
        /\ \A k \in 1 .. n - 1 + 1 : p[k] = Text(s)[1 + k - 1]
    BY <1>1, <1>5, SubSeqProperties
  <2> HIDE DEF p
  <2> QED
    BY <1>1, <2>1, <2>2
<1> HIDE DEF b, p
<1>7. b = p
  BY <1>2, <1>3, <1>5, <1>6, SeqEqual
<1>8. b \o <<>> = p
  BY <1>3, <1>7, ConcatEmptySeq
<1>9. Len(Text(s)) - 1 = n /\ s.length - 1 = n
  BY <1>2 DEF n
<1> QED
  BY <1>2, <1>4, <1>8, <1>9 DEF b, p

\* str_pop_back
LEMMA PopBackKeeps ==
  ASSUME StrInv, NEW keep \in BOOLEAN, PopBack(keep)
  PROVE  StrInv' /\ Abstract!PopBack
<1>1. live /\ Valid(str) /\ lost' = 0 /\ str.length <= MaxLength
  BY DEF PopBack, StrInv
<1>2. Text(str) \in Seq(Char) /\ Len(Text(str)) = str.length /\ str.length \in Nat
  BY <1>1, TextIsText
<1>3. CASE str.length = 0 /\ Return(str, -1, Junk)
  <2>1. StrInv' /\ Abstract!Returns(Text(str), -1, Junk)
    BY <1>1, <1>3, ReturnKeeps
  <2>2. Text(str) = <<>>
    BY <1>2, <1>3, EmptySeq
  <2> QED
    BY <2>1, <2>2 DEF Abstract!PopBack
<1>4. CASE str.length > 0
  <2> DEFINE n == str.length - 1
             w == Filled(str, n, <<NUL>>)
             o == IF keep THEN str.data[n] ELSE Junk
  <2>1. Return(w, 0, o)
    BY <1>2, <1>4 DEF PopBack
  <2>2. /\ <<>> \in Seq(Char) /\ Len(<<>>) = 0 /\ Append(<<>>, NUL) = <<NUL>>
    OBVIOUS
  <2>3. /\ n \in Nat /\ n + 0 < str.capacity /\ n + 0 = n /\ n <= MaxLength
        /\ \A k \in 0 .. n - 1 : k \in 0 .. str.length - 1
    BY <1>1, <1>2, <1>4, StorageNumbers, StrAssumption DEF Valid
  <2>4. Storage(str) /\ \A k \in 0 .. n - 1 : str.data[k] \in Char
    BY <1>1, <2>3 DEF Valid
  <2>5. Valid(w) /\ w.length = n /\ Text(w) = Bytes(str.data, n) \o <<>>
    <3> DEFINE v == Filled(str, n, Append(<<>>, NUL))
    <3>1. Valid(v) /\ v.length = n + Len(<<>>) /\ Text(v) = Bytes(str.data, n) \o <<>>
      BY <2>2, <2>3, <2>4, FilledIsText
    <3>2. v = w
      BY <2>2
    <3> HIDE DEF v, w
    <3> QED
      BY <2>2, <2>3, <3>1, <3>2
  <2>6. /\ Text(w) = SubSeq(Text(str), 1, Len(Text(str)) - 1)
        /\ o \in {Text(str)[Len(Text(str))], Junk} /\ o \in Char \cup {Junk}
    BY <1>1, <1>4, <2>5, PoppedIsPrefix
  <2> HIDE DEF w, n, o
  <2>7. StrInv' /\ Abstract!Returns(Text(w), 0, o)
    BY <1>1, <2>1, <2>3, <2>5, <2>6, ReturnKeeps
  <2>8. Text(str) # <<>>
    BY <1>2, <1>4
  <2> QED
    BY <2>6, <2>7, <2>8 DEF Abstract!PopBack
<1> QED
  BY <1>3, <1>4 DEF PopBack

\* str_clear and str_initialize leave no text.
LEMMA ClearKeeps ==
  ASSUME StrInv
  PROVE  /\ Clear => StrInv' /\ Abstract!Clear
         /\ Initialize => StrInv' /\ Abstract!Clear
<1>1. ASSUME Clear PROVE StrInv' /\ Abstract!Clear
  <2> DEFINE s == Freed(str)
             w == Filled(s, 0, <<NUL>>)
  <2>1. Return(w, 0, Junk) /\ lost' = 0
    BY <1>1 DEF Clear, StrInv
  <2>2. Storage(s)
    BY FreedIsEmpty DEF StrInv
  <2>3. /\ <<>> \in Seq(Char) /\ Len(<<>>) = 0 /\ Append(<<>>, NUL) = <<NUL>>
    OBVIOUS
  <2> HIDE DEF s
  <2>4. Valid(w) /\ w.length = 0 /\ Text(w) = <<>>
    <3> DEFINE v == Filled(s, 0, Append(<<>>, NUL))
    <3>1. 0 \in Nat /\ 0 + 0 < s.capacity /\ 0 + 0 = 0 /\ \A k \in 0 .. 0 - 1 : s.data[k] \in Char
      BY <2>2, StorageNumbers, StrAssumption
    <3>2. Valid(v) /\ v.length = 0 + Len(<<>>) /\ Text(v) = Bytes(s.data, 0) \o <<>>
      BY <2>2, <2>3, <3>1, FilledIsText
    <3>3. v = w
      BY <2>3
    <3>4. Text(v) = <<>>
      BY <2>3, <3>2, NothingBefore
    <3> HIDE DEF v, w
    <3> QED
      BY <2>3, <3>1, <3>2, <3>3, <3>4
  <2> HIDE DEF w
  <2>5. StrInv' /\ Abstract!Returns(<<>>, 0, Junk)
    <3>1. w.length <= MaxLength
      BY <2>4, StrAssumption
    <3> QED
      BY <2>1, <2>4, <3>1, ReturnKeeps
  <2> QED
    BY <2>5 DEF Abstract!Clear
<1>2. ASSUME Initialize PROVE StrInv' /\ Abstract!Clear
  <2>1. Return([Zero EXCEPT !.blocks = str.blocks], 0, Junk) /\ lost' = 0 /\ str.blocks = 0
    BY <1>2 DEF Initialize, StrInv, Storage
  <2>2. [Zero EXCEPT !.blocks = str.blocks] = Zero
    <3>1. Zero = [Zero EXCEPT !.blocks = Zero.blocks]
      BY ZeroIsEmpty DEF Valid, Storage
    <3> QED
      BY <2>1, <3>1, ZeroIsEmpty
  <2>3. Zero.length <= MaxLength
    BY ZeroIsEmpty, StrAssumption
  <2>4. StrInv' /\ Abstract!Returns(<<>>, 0, Junk)
    BY <2>1, <2>2, <2>3, ZeroIsEmpty, ReturnKeeps
  <2> QED
    BY <2>4 DEF Abstract!Clear
<1> QED
  BY <1>1, <1>2

\* str_copy_to, which may leave the string empty
LEMMA CopyToKeeps ==
  ASSUME StrInv, NEW src \in Sources, CopyTo(src)
  PROVE  StrInv' /\ Text(str)' \in {Text(src), <<>>}
<1>1. PICK r \in Assign(Zero, src) : Return([r.s EXCEPT !.blocks = @ + str.blocks], 0, Junk)
  BY DEF CopyTo
<1>2. Valid(src) /\ src.length <= MaxLength /\ lost' = 0 /\ str.blocks = 0
  BY SourceHolds DEF CopyTo, StrInv, Storage
<1>3. Gives(r, Zero, Text(src))
  BY <1>2, ZeroIsEmpty, AssignGives
<1>4. /\ Valid(r.s) /\ r.s.length <= MaxLength
      /\ Text(r.s) = Text(src) \/ Text(r.s) = <<>>
  BY <1>2, <1>3, ZeroIsEmpty, TextIsText, StrAssumption DEF Gives
<1>5. [r.s EXCEPT !.blocks = @ + str.blocks] = r.s
  <2>1. r.s.blocks + 0 = r.s.blocks
    BY <1>4 DEF Valid, Storage
  <2>2. r.s = [r.s EXCEPT !.blocks = r.s.blocks]
    BY <1>4 DEF Valid, Storage
  <2> QED
    BY <1>2, <2>1, <2>2
<1>6. StrInv' /\ Abstract!Returns(Text(r.s), 0, Junk)
  BY <1>1, <1>2, <1>4, <1>5, ReturnKeeps
<1> QED
  BY <1>4, <1>6 DEF Abstract!Returns

\* str_destroy frees the block.
LEMMA DestroyKeeps ==
  ASSUME StrInv, Destroy
  PROVE  StrInv'
<1>1. str' = Freed(str) /\ live' = FALSE /\ rc' = 0 /\ out' = Junk /\ lost' = lost
  BY DEF Destroy
<1>2. Storage(str') /\ str'.length = str.length /\ ~str'.external
  BY <1>1, FreedIsEmpty DEF StrInv
<1> QED
  BY <1>1, <1>2 DEF StrInv, Storage

-----------------------------------------------------------------------------
(* The theorems.                                                           *)

\* Every string starts empty.
LEMMA InitHolds == Init => StrInv
BY ZeroIsEmpty, StrAssumption DEF Init, StrInv, Valid

\* Every call on the string keeps the invariant.
LEMMA StepHolds == StrInv /\ [Next]_vars => StrInv'
<1> SUFFICES ASSUME StrInv, [Next]_vars PROVE StrInv'
  OBVIOUS
<1>1. CASE Initialize \/ Clear
  BY <1>1, ClearKeeps
<1>2. CASE Destroy
  BY <1>2, DestroyKeeps
<1>3. CASE ShrinkCall \/ \E n \in Requests : ReserveCall(n)
  BY <1>3, ResizeKeeps
<1>4. CASE \E c \in Char : PushBackCall(c)
  BY <1>4, PushBackKeeps
<1>5. CASE \E keep \in BOOLEAN : PopBack(keep)
  BY <1>5, PopBackKeeps
<1>6. CASE \E t \in Texts : AssignCstrCall(t) \/ AppendCstrCall(t) \/ FromCstrCall(t)
  BY <1>6, AssignCstrKeeps, AppendCstrKeeps, FromCstrKeeps
<1>7. ASSUME NEW src \in Sources,
             \/ AssignCall(src) \/ AppendCall(src) \/ CopyCall(src) \/ CopyTo(src)
             \/ ConcatCall(str, src) \/ ConcatCall(src, str)
      PROVE  StrInv'
  BY <1>7, AssignKeeps, AppendKeeps, CopyKeeps, CopyToKeeps, ConcatKeeps
<1>8. CASE UNCHANGED vars
  BY <1>8 DEF vars, StrInv, Storage, Valid
<1> QED
  BY <1>1, <1>2, <1>3, <1>4, <1>5, <1>6, <1>7, <1>8 DEF Next

\* In every reachable state the struct agrees with its storage, and an
\* initialized string with the text in it; nothing is lost (src/str.c).
THEOREM StrInvariant == Spec => []StrInv
<1> QED
  BY InitHolds, StepHolds, PTL DEF Spec

\* No write falls outside the storage and the text always has its terminator.
THEOREM TextFitsBlock == Spec => []BlockFits
<1>1. StrInv => BlockFits
  <2> SUFFICES ASSUME StrInv PROVE BlockFits
    OBVIOUS
  <2>1. TypeOK
    <3>1. DOMAIN str = {"length", "external", "capacity", "data", "blocks"}
      BY DEF StrInv, Storage
    <3>2. str.capacity \in {InternalCapacity} \cup 1 .. MaxBlock
      BY StrAssumption DEF StrInv, Storage
    <3>3. \A k \in DOMAIN str.data : str.data[k] \in Char \cup {NUL, Junk}
      BY DEF StrInv, Storage
    <3>4. str.length \in 0 .. MaxLength /\ str.external \in BOOLEAN /\ str.blocks \in Nat
      BY StrAssumption DEF StrInv, Storage
    <3>5. live \in BOOLEAN /\ lost \in Nat /\ rc \in {-1, 0} /\ out \in Char \cup {Junk}
      BY DEF StrInv
    <3> QED
      BY <3>1, <3>2, <3>3, <3>4, <3>5 DEF TypeOK
  <2>2. ASSUME live PROVE
          /\ DOMAIN str.data = 0 .. str.capacity - 1
          /\ str.length < str.capacity /\ str.data[str.length] = NUL
          /\ \A k \in 0 .. str.length - 1 : str.data[k] \in Char
          /\ IF str.external THEN str.capacity >= InternalCapacity
             ELSE str.capacity = InternalCapacity
    <3>1. Valid(str)
      BY <2>2 DEF StrInv
    <3>2. IF str.external THEN str.capacity >= InternalCapacity
          ELSE str.capacity = InternalCapacity
      BY <3>1, StrAssumption DEF Valid, Storage
    <3> QED
      BY <3>1, <3>2, StorageNumbers DEF Valid
  <2> QED
    BY <2>1, <2>2 DEF BlockFits
<1> QED
  BY <1>1, StrInvariant, PTL

\* A string holds its external block exactly once, and no call leaves one behind.
THEOREM NoBlockLeaks == Spec => []HeapExact
<1>1. StrInv => HeapExact
  BY DEF StrInv, Storage, HeapExact
<1> QED
  BY <1>1, StrInvariant, PTL

\* Each call does to the text what its comment promises, whatever the source
\* and whichever allocation fails.
THEOREM StrKeepsPromises == Spec => CallsKeepTheirPromises
<1> DEFINE Promises ==
      /\ \A src \in Sources :
           /\ AssignCall(src) \/ CopyCall(src) => Abstract!Assign(Text(src))
           /\ AppendCall(src) => Abstract!Extend(Text(src))
           /\ ConcatCall(str, src) => Abstract!Extend(Text(src))
           /\ ConcatCall(src, str) => Abstract!Prepend(Text(src))
           /\ CopyTo(src) => Text(str)' \in {Text(src), <<>>}
      /\ \A t \in Texts :
           /\ AssignCstrCall(t) \/ FromCstrCall(t) => Abstract!Assign(t)
           /\ AppendCstrCall(t) => Abstract!Extend(t)
      /\ \A c \in Char : PushBackCall(c) => Abstract!Extend(<<c>>)
      /\ \A keep \in BOOLEAN : PopBack(keep) => Abstract!PopBack
      /\ ShrinkCall \/ (\E n \in Requests : ReserveCall(n)) => Abstract!Resize
      /\ Initialize \/ Clear => Abstract!Clear
<1>1. StrInv => Promises
  <2> SUFFICES ASSUME StrInv PROVE Promises
    OBVIOUS
  <2>1. ASSUME NEW src \in Sources PROVE
          /\ AssignCall(src) \/ CopyCall(src) => Abstract!Assign(Text(src))
          /\ AppendCall(src) => Abstract!Extend(Text(src))
          /\ ConcatCall(str, src) => Abstract!Extend(Text(src))
          /\ ConcatCall(src, str) => Abstract!Prepend(Text(src))
          /\ CopyTo(src) => Text(str)' \in {Text(src), <<>>}
    BY AssignKeeps, CopyKeeps, AppendKeeps, ConcatKeeps, CopyToKeeps
  <2>2. ASSUME NEW t \in Texts PROVE
          /\ AssignCstrCall(t) \/ FromCstrCall(t) => Abstract!Assign(t)
          /\ AppendCstrCall(t) => Abstract!Extend(t)
    BY AssignCstrKeeps, FromCstrKeeps, AppendCstrKeeps
  <2>3. \A c \in Char : PushBackCall(c) => Abstract!Extend(<<c>>)
    BY PushBackKeeps
  <2>4. \A keep \in BOOLEAN : PopBack(keep) => Abstract!PopBack
    BY PopBackKeeps
  <2>5. ShrinkCall \/ (\E n \in Requests : ReserveCall(n)) => Abstract!Resize
    BY ResizeKeeps
  <2>6. Initialize \/ Clear => Abstract!Clear
    BY ClearKeeps
  <2> QED
    BY <2>1, <2>2, <2>3, <2>4, <2>5, <2>6
<1> HIDE DEF Promises
<1>2. StrInv => [Promises]_vars
  BY <1>1
<1>3. []StrInv => [][Promises]_vars
  BY <1>2, PTL
<1>4. CallsKeepTheirPromises <=> [][Promises]_vars
  BY PTL DEF CallsKeepTheirPromises, Promises
<1> QED
  BY <1>3, <1>4, StrInvariant, PTL

\* str_reserve grants what was asked for and never shrinks, and
\* str_shrink_to_fit leaves no block twice as large as needed.
THEOREM StrGrantsRoom == Spec => RoomAsAsked
<1> DEFINE Room ==
      /\ \A n \in Requests :
           ReserveCall(n) /\ rc' = 0 => str'.capacity >= n /\ str'.capacity >= str.capacity
      /\ ShrinkCall /\ rc' = 0 /\ str'.external =>
           str'.length >= InternalCapacity /\ str'.capacity < 2 * (str'.length + 1)
<1>1. ASSUME StrInv, NEW n \in Requests, ReserveCall(n), rc' = 0
      PROVE  str'.capacity >= n /\ str'.capacity >= str.capacity
  <2>1. PICK r \in Reserve(str, n) : Return(r.s, r.rc, Junk)
    BY <1>1 DEF ReserveCall, Call
  <2>2. Valid(str) /\ lost' = 0 /\ str.length <= MaxLength /\ r.rc = 0 /\ n \in Nat
    BY <1>1, <2>1, StrAssumption DEF ReserveCall, Call, StrInv, Return
  <2>3. /\ Valid(r.s) /\ r.s.length = str.length
        /\ n <= r.s.capacity /\ str.capacity <= r.s.capacity
    BY <2>2, ReserveGives DEF Gives
  <2>4. str'.capacity = r.s.capacity
    BY <2>1, <2>2, <2>3, ReturnKeeps
  <2>5. str.capacity \in Nat /\ r.s.capacity \in Nat
    BY <2>2, <2>3, StorageNumbers DEF Valid
  <2> QED
    BY <2>2, <2>3, <2>4, <2>5
<1>2. ASSUME StrInv, ShrinkCall, rc' = 0, str'.external
      PROVE  str'.length >= InternalCapacity /\ str'.capacity < 2 * (str'.length + 1)
  <2>1. PICK r \in ShrinkToFit(str) : Return(r.s, r.rc, Junk)
    BY <1>2 DEF ShrinkCall, Call
  <2>2. Valid(str) /\ lost' = 0 /\ str.length <= MaxLength /\ r.rc = 0
    BY <1>2, <2>1 DEF ShrinkCall, Call, StrInv, Return
  <2>3. Valid(r.s) /\ Text(r.s) = Text(str)
    BY <2>2, ShrinkGives DEF Gives
  <2>4. r.s.length <= MaxLength
    BY <2>2, <2>3, TextIsText
  <2>5. /\ str'.capacity = r.s.capacity /\ str'.length = r.s.length
        /\ str'.external = r.s.external
    BY <2>1, <2>2, <2>3, <2>4, ReturnKeeps
  <2> QED
    BY <1>2, <2>2, <2>5, ShrinkGives
<1>3. StrInv => Room
  BY <1>1, <1>2
<1> HIDE DEF Room
<1>4. []StrInv => [][Room]_vars
  BY <1>3, PTL
<1>5. RoomAsAsked <=> [][Room]_vars
  BY PTL DEF RoomAsAsked, Room
<1> QED
  BY <1>4, <1>5, StrInvariant, PTL

-----------------------------------------------------------------------------
(* Comparing.                                                              *)

\* What strncmp reads of a valid string
LEMMA ReadBytes ==
  ASSUME NEW s, Valid(s)
  PROVE  /\ \A k : At(s.data, k) \in Int
         /\ \A k \in 0 .. s.length : At(s.data, k) \in Nat
         /\ \A k \in 0 .. s.length - 1 : At(s.data, k) > 0 /\ At(s.data, k) = Text(s)[k + 1]
         /\ At(s.data, s.length) = NUL
<1>1. /\ s.length \in Nat /\ s.capacity \in Nat /\ s.length < s.capacity
      /\ DOMAIN s.data = 0 .. s.capacity - 1
  BY StorageNumbers DEF Valid
<1>2. \A k \in 0 .. s.length : k \in DOMAIN s.data /\ At(s.data, k) = s.data[k]
  BY <1>1 DEF At
<1>3. \A c \in Char : c \in Nat /\ c > 0 /\ c # NUL
  BY StrAssumption DEF NUL
<1>4. \A k : At(s.data, k) \in Char \cup {NUL, Junk}
  BY StorageNumbers DEF At, Valid
<1>5. At(s.data, s.length) = NUL
  BY <1>1, <1>2 DEF Valid
<1>6. ASSUME NEW k \in 0 .. s.length - 1
      PROVE  At(s.data, k) > 0 /\ At(s.data, k) \in Nat /\ At(s.data, k) = Text(s)[k + 1]
  <2>1. k \in 0 .. s.length /\ s.data[k] \in Char
    BY <1>1 DEF Valid
  <2>2. k + 1 \in 1 .. s.length /\ (k + 1) - 1 = k
    BY <1>1
  <2>3. Text(s)[k + 1] = s.data[k]
    <3>1. Text(s)[k + 1] = s.data[(k + 1) - 1]
      BY <2>2, TextIsText
    <3> QED
      BY <2>2, <3>1
  <2> QED
    BY <1>2, <1>3, <2>1, <2>3
<1>7. \A k \in 0 .. s.length : k \in 0 .. s.length - 1 \/ k = s.length
  BY <1>1
<1>8. \A k : At(s.data, k) \in Int
  BY <1>3, <1>4 DEF NUL, Junk
<1>9. \A k \in 0 .. s.length : At(s.data, k) \in Nat
  BY <1>5, <1>6, <1>7 DEF NUL
<1> QED
  BY <1>5, <1>6, <1>8, <1>9

\* The first offset where two storages differ or end
EndsAt(d1, d2, e) ==
  /\ At(d1, e) # At(d2, e) \/ At(d1, e) = NUL
  /\ \A k \in 0 .. e - 1 : At(d1, k) = At(d2, k) /\ At(d1, k) # NUL

\* strncmp finds it if there is one.
LEMMA StrncmpFinds ==
  ASSUME NEW d1, NEW d2, NEW n \in Nat
  PROVE  \/ Strncmp(d1, d2, n) = 0 /\ \A k \in 0 .. n - 1 : At(d1, k) = At(d2, k) /\ At(d1, k) # NUL
         \/ \E e \in 0 .. n - 1 : /\ EndsAt(d1, d2, e)
                                  /\ Strncmp(d1, d2, n) = At(d1, e) - At(d2, e)
<1> DEFINE ends == {k \in 0 .. n - 1 : At(d1, k) # At(d2, k) \/ At(d1, k) = NUL}
           First(x) == \A y \in ends : x <= y
<1>1. Strncmp(d1, d2, n) =
        IF ends = {} THEN 0
        ELSE LET k == CHOOSE x \in ends : First(x) IN At(d1, k) - At(d2, k)
  BY DEF Strncmp
<1>2. CASE ends = {}
  BY <1>1, <1>2
<1>3. CASE ends # {}
  <2> DEFINE e == CHOOSE x \in ends : First(x)
  <2>1. \E x \in ends : First(x)
    <3>1. ends \in SUBSET Nat
      OBVIOUS
    <3> HIDE DEF ends
    <3> QED
      BY <1>3, <3>1, Numbers!LeastNumber
  <2>2. e \in ends /\ First(e)
    BY <2>1
  <2>3. Strncmp(d1, d2, n) = At(d1, e) - At(d2, e)
    BY <1>1, <1>3
  <2> HIDE DEF e
  <2>4. ASSUME NEW k \in 0 .. e - 1 PROVE At(d1, k) = At(d2, k) /\ At(d1, k) # NUL
    <3>1. k \in 0 .. n - 1 /\ ~(e <= k)
      BY <2>2
    <3> QED
      BY <2>2, <3>1
  <2> QED
    BY <2>2, <2>3, <2>4 DEF EndsAt
<1> QED
  BY <1>2, <1>3

\* There is only one such offset.
LEMMA EndsOnce ==
  ASSUME NEW d1, NEW d2, NEW e \in Nat, EndsAt(d1, d2, e), NEW m \in Nat, EndsAt(d1, d2, m)
  PROVE  e = m
<1>1. ASSUME e < m PROVE FALSE
  <2>1. e \in 0 .. m - 1
    BY <1>1
  <2> QED
    BY <2>1 DEF EndsAt
<1>2. ASSUME m < e PROVE FALSE
  <2>1. m \in 0 .. e - 1
    BY <1>2
  <2> QED
    BY <2>1 DEF EndsAt
<1> QED
  BY <1>1, <1>2

\* Comparing the other way round turns the sign.
LEMMA StrncmpTurns ==
  ASSUME NEW d1, NEW d2, NEW n \in Nat, \A k : At(d1, k) \in Int /\ At(d2, k) \in Int
  PROVE  Strncmp(d2, d1, n) = 0 - Strncmp(d1, d2, n) /\ Strncmp(d1, d2, n) \in Int
<1>1. CASE \A k \in 0 .. n - 1 : At(d1, k) = At(d2, k) /\ At(d1, k) # NUL
  <2>1. Strncmp(d1, d2, n) = 0
    BY <1>1, StrncmpFinds DEF EndsAt
  <2>2. Strncmp(d2, d1, n) = 0
    BY <1>1, StrncmpFinds DEF EndsAt
  <2> QED
    BY <2>1, <2>2
<1>2. CASE ~ \A k \in 0 .. n - 1 : At(d1, k) = At(d2, k) /\ At(d1, k) # NUL
  <2>1. PICK e \in 0 .. n - 1 :
          EndsAt(d1, d2, e) /\ Strncmp(d1, d2, n) = At(d1, e) - At(d2, e)
    BY <1>2, StrncmpFinds
  <2>2. PICK m \in 0 .. n - 1 :
          EndsAt(d2, d1, m) /\ Strncmp(d2, d1, n) = At(d2, m) - At(d1, m)
    BY <1>2, StrncmpFinds
  <2>3. EndsAt(d1, d2, m)
    BY <2>2 DEF EndsAt
  <2>4. e = m
    BY <2>1, <2>2, <2>3, EndsOnce
  <2> QED
    BY <2>1, <2>2, <2>4
<1> QED
  BY <1>1, <1>2

\* Two texts begin alike if they agree character by character.
LEMMA BeginAlike ==
  ASSUME NEW t \in Seq(Char), NEW u \in Seq(Char), NEW m \in Nat, m <= Len(t), m <= Len(u)
  PROVE  SubSeq(t, 1, m) = SubSeq(u, 1, m) <=> \A k \in 1 .. m : t[k] = u[k]
<1> DEFINE p(v) == SubSeq(v, 1, m)
<1>1. ASSUME NEW v \in Seq(Char), m <= Len(v)
      PROVE  p(v) \in Seq(Char) /\ Len(p(v)) = m /\ \A k \in 1 .. m : p(v)[k] = v[k]
  <2>1. Len(v) \in Nat /\ \A k \in 1 .. m : v[k] \in Char
    BY <1>1, ElementOfSeq, LenProperties
  <2>2. m - 1 + 1 = m /\ (1 <= m \/ m = 0) /\ \A k \in 1 .. m : 1 + k - 1 = k
    OBVIOUS
  <2>3. /\ p(v) \in Seq(Char) /\ Len(p(v)) = IF 1 <= m THEN m - 1 + 1 ELSE 0
        /\ \A k \in 1 .. m - 1 + 1 : p(v)[k] = v[1 + k - 1]
    BY SMTT(30), <2>1, SubSeqProperties
  <2> HIDE DEF p
  <2> QED
    BY <2>2, <2>3
<1> HIDE DEF p
<1>2. p(t) = p(u) <=> \A k \in 1 .. m : t[k] = u[k]
  <2>1. p(t) \in Seq(Char) /\ Len(p(t)) = m /\ \A k \in 1 .. m : p(t)[k] = t[k]
    BY <1>1
  <2>2. p(u) \in Seq(Char) /\ Len(p(u)) = m /\ \A k \in 1 .. m : p(u)[k] = u[k]
    BY <1>1
  <2>3. (\A k \in 1 .. m : p(t)[k] = p(u)[k]) => p(t) = p(u)
    BY <2>1, <2>2, SeqEqual
  <2> QED
    BY <2>1, <2>2, <2>3
<1> QED
  BY <1>2 DEF p

\* A smaller text is one whose first difference is a smaller byte, or its end.
LEMMA LessDiffers ==
  ASSUME NEW s1, Valid(s1), NEW s2, Valid(s2), Less(Text(s1), Text(s2))
  PROVE  \E m \in 0 .. s2.length - 1 :
           /\ m <= s1.length /\ EndsAt(s1.data, s2.data, m)
           /\ At(s1.data, m) < At(s2.data, m)
<1> DEFINE t == Text(s1)
           u == Text(s2)
<1>1. /\ t \in Seq(Char) /\ Len(t) = s1.length /\ s1.length \in Nat
      /\ u \in Seq(Char) /\ Len(u) = s2.length /\ s2.length \in Nat
  BY TextIsText
<1>2. PICK m \in 0 .. Len(t) :
        /\ m < Len(u) /\ SubSeq(t, 1, m) = SubSeq(u, 1, m)
        /\ m = Len(t) \/ t[m + 1] < u[m + 1]
  BY DEF Less
<1> HIDE DEF t, u
<1>3. m \in Nat /\ m <= s1.length /\ m \in 0 .. s2.length - 1 /\ m \in 0 .. s2.length
  BY <1>1, <1>2
<1>4. \A k \in 1 .. m : t[k] = u[k]
  BY <1>1, <1>2, <1>3, BeginAlike
<1>5. ASSUME NEW k \in 0 .. m - 1
      PROVE  At(s1.data, k) = At(s2.data, k) /\ At(s1.data, k) # NUL
  <2>1. k \in 0 .. s1.length - 1 /\ k \in 0 .. s2.length - 1 /\ k + 1 \in 1 .. m
    BY <1>1, <1>3
  <2>2. At(s1.data, k) = t[k + 1] /\ At(s2.data, k) = u[k + 1] /\ At(s1.data, k) > 0
        /\ At(s1.data, k) \in Int
    BY <2>1, ReadBytes DEF t, u
  <2> QED
    BY <1>4, <2>1, <2>2 DEF NUL
<1>6. At(s1.data, m) < At(s2.data, m)
  <2>1. At(s2.data, m) > 0 /\ At(s2.data, m) = u[m + 1]
    BY <1>3, ReadBytes DEF u
  <2>2. CASE m = s1.length
    BY <2>1, <2>2, ReadBytes DEF NUL
  <2>3. CASE m # s1.length
    <3>1. m \in 0 .. s1.length - 1 /\ t[m + 1] < u[m + 1]
      BY <1>1, <1>2, <1>3, <2>3
    <3>2. At(s1.data, m) = t[m + 1]
      BY <3>1, ReadBytes DEF t
    <3> QED
      BY <2>1, <3>1, <3>2
  <2> QED
    BY <2>2, <2>3
<1>7. EndsAt(s1.data, s2.data, m)
  BY <1>3, <1>5, <1>6, ReadBytes DEF EndsAt
<1> QED
  BY <1>3, <1>6, <1>7

\* And the other way round.
LEMMA DiffersLess ==
  ASSUME NEW s1, Valid(s1), NEW s2, Valid(s2), NEW e \in Nat,
         EndsAt(s1.data, s2.data, e), At(s1.data, e) < At(s2.data, e)
  PROVE  Less(Text(s1), Text(s2))
<1> DEFINE t == Text(s1)
           u == Text(s2)
<1>1. /\ t \in Seq(Char) /\ Len(t) = s1.length /\ s1.length \in Nat
      /\ u \in Seq(Char) /\ Len(u) = s2.length /\ s2.length \in Nat
  BY TextIsText
<1> HIDE DEF t, u
<1>2. e <= s1.length
  <2>1. ASSUME s1.length < e PROVE FALSE
    <3>1. s1.length \in 0 .. e - 1
      BY <1>1, <2>1
    <3> QED
      BY <3>1, ReadBytes DEF EndsAt
  <2> QED
    BY <1>1, <2>1
<1>3. e <= s2.length
  <2>1. ASSUME s2.length < e PROVE FALSE
    <3>1. s2.length \in 0 .. e - 1
      BY <1>1, <2>1
    <3> QED
      BY <3>1, ReadBytes DEF EndsAt
  <2> QED
    BY <1>1, <2>1
<1>4. e < s2.length
  <2>1. ASSUME e = s2.length PROVE FALSE
    <3>1. At(s1.data, e) \in Nat
      <4>1. e \in 0 .. s1.length
        BY <1>1, <1>2
      <4> QED
        BY <4>1, ReadBytes
    <3>2. At(s2.data, e) = 0
      BY <2>1, ReadBytes DEF NUL
    <3> QED
      BY <3>1, <3>2
  <2> QED
    BY <1>1, <1>3, <2>1
<1>5. ASSUME NEW k \in 1 .. e PROVE t[k] = u[k]
  <2>1. k - 1 \in 0 .. e - 1 /\ k - 1 \in 0 .. s1.length - 1 /\ k - 1 \in 0 .. s2.length - 1
        /\ (k - 1) + 1 = k
    BY <1>1, <1>2, <1>3
  <2>2. At(s1.data, k - 1) = t[(k - 1) + 1] /\ At(s2.data, k - 1) = u[(k - 1) + 1]
    BY <2>1, ReadBytes DEF t, u
  <2>3. At(s1.data, k - 1) = At(s2.data, k - 1)
    BY <2>1 DEF EndsAt
  <2> QED
    BY <2>1, <2>2, <2>3
<1>6. SubSeq(t, 1, e) = SubSeq(u, 1, e)
  BY <1>1, <1>2, <1>3, <1>5, BeginAlike
<1>7. e = Len(t) \/ t[e + 1] < u[e + 1]
  <2>1. ASSUME e # s1.length PROVE t[e + 1] < u[e + 1]
    <3>1. e \in 0 .. s1.length - 1 /\ e \in 0 .. s2.length - 1
      BY <1>1, <1>2, <1>4, <2>1
    <3>2. At(s1.data, e) = t[e + 1] /\ At(s2.data, e) = u[e + 1]
      BY <3>1, ReadBytes DEF t, u
    <3> QED
      BY <3>2
  <2> QED
    BY <1>1, <2>1
<1>8. e \in 0 .. Len(t) /\ e < Len(u)
  BY <1>1, <1>2, <1>4
<1>9. Less(t, u)
  BY <1>6, <1>7, <1>8 DEF Less
<1> QED
  BY <1>9 DEF t, u

\* str_compare orders valid strings as their texts.
LEMMA CompareLess ==
  ASSUME NEW s1, Valid(s1), NEW s2, Valid(s2)
  PROVE  /\ StrCompare(s1, s2) < 0 <=> Less(Text(s1), Text(s2))
         /\ StrCompare(s2, s1) = 0 - StrCompare(s1, s2) /\ StrCompare(s1, s2) \in Int
<1> DEFINE n == IF s1.length > s2.length THEN s1.length ELSE s2.length
           d1 == s1.data
           d2 == s2.data
<1>1. /\ s1.length \in Nat /\ s2.length \in Nat /\ n \in Nat
      /\ s1.length <= n /\ s2.length <= n
      /\ n = IF s2.length > s1.length THEN s2.length ELSE s1.length
  BY TextIsText
<1>2. StrCompare(s1, s2) = Strncmp(d1, d2, n) /\ StrCompare(s2, s1) = Strncmp(d2, d1, n)
  BY <1>1 DEF StrCompare
<1> HIDE DEF n
<1>3. /\ Strncmp(d2, d1, n) = 0 - Strncmp(d1, d2, n) /\ Strncmp(d1, d2, n) \in Int
  BY <1>1, ReadBytes, StrncmpTurns
<1>4. ASSUME Strncmp(d1, d2, n) < 0 PROVE Less(Text(s1), Text(s2))
  <2>1. PICK e \in 0 .. n - 1 :
          EndsAt(d1, d2, e) /\ Strncmp(d1, d2, n) = At(d1, e) - At(d2, e)
    BY <1>1, <1>4, StrncmpFinds
  <2>2. At(d1, e) \in Int /\ At(d2, e) \in Int
    BY ReadBytes
  <2>3. At(d1, e) < At(d2, e) /\ e \in Nat
    BY <1>4, <2>1, <2>2
  <2> QED
    BY <2>1, <2>3, DiffersLess
<1>5. ASSUME Less(Text(s1), Text(s2)) PROVE Strncmp(d1, d2, n) < 0
  <2>1. PICK m \in 0 .. s2.length - 1 :
          m <= s1.length /\ EndsAt(d1, d2, m) /\ At(d1, m) < At(d2, m)
    BY <1>5, LessDiffers
  <2>2. m \in 0 .. n - 1 /\ m \in Nat /\ At(d1, m) \in Int /\ At(d2, m) \in Int
    BY <1>1, ReadBytes
  <2>3. PICK e \in 0 .. n - 1 :
          EndsAt(d1, d2, e) /\ Strncmp(d1, d2, n) = At(d1, e) - At(d2, e)
    BY <1>1, <2>1, <2>2, StrncmpFinds
  <2>4. e = m
    BY <2>1, <2>2, <2>3, EndsOnce
  <2> QED
    BY <2>1, <2>2, <2>3, <2>4
<1> QED
  BY <1>2, <1>3, <1>4, <1>5

\* Comparing the string with another decides the order of their texts.
THEOREM CompareOrders == Spec => []CompareDecides
<1>1. StrInv => CompareDecides
  <2> SUFFICES ASSUME StrInv, live, NEW s \in Others
               PROVE  /\ StrCompare(str, s) < 0 <=> Less(Text(str), Text(s))
                      /\ StrCompare(str, s) > 0 <=> Less(Text(s), Text(str))
    BY DEF CompareDecides
  <2>1. Valid(str) /\ Valid(s)
    BY OthersHold DEF StrInv
  <2>2. StrCompare(str, s) < 0 <=> Less(Text(str), Text(s))
    BY <2>1, CompareLess
  <2>3. StrCompare(s, str) < 0 <=> Less(Text(s), Text(str))
    BY <2>1, CompareLess
  <2>4. StrCompare(s, str) = 0 - StrCompare(str, s) /\ StrCompare(str, s) \in Int
    BY <2>1, CompareLess
  <2>5. StrCompare(str, s) > 0 <=> StrCompare(s, str) < 0
    BY <2>4
  <2> QED
    BY <2>2, <2>3, <2>5
<1> QED
  BY <1>1, StrInvariant, PTL
=============================================================================
