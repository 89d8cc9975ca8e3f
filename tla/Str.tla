--------------------------------- MODULE Str ---------------------------------
(***************************************************************************)
(* The string of src/str.c, which keeps short texts inside its struct and  *)
(* longer ones in an external block, and moves between the two.            *)
(*                                                                         *)
(* s.data is the storage in use, a function from offsets to bytes: what    *)
(* str_data points to, inside the struct or outside; s.capacity is what    *)
(* str_capacity returns.  A write may touch any offset, so that one out of *)
(* bounds shows as an offset too many.  Bytes nobody has written are Junk, *)
(* and so are, between calls, the bytes behind the terminator, which no    *)
(* call reads.  s.blocks is a ghost: the external blocks allocated less    *)
(* those freed on behalf of s.  Every allocation may fail.                 *)
(***************************************************************************)
EXTENDS Integers, Sequences

CONSTANTS
  Char,               \* the characters a caller uses, which do not include NUL
  InternalCapacity,   \* STR_INTERNAL_CAPACITY
  MaxBlock,           \* malloc grants no block of more bytes than this
  MaxLength,          \* a bound on the length of a text
  Texts,              \* texts of other strings and of C-strings
  Requests,           \* the capacities a caller asks str_reserve for
  SizeBits            \* the width of uint32_t, of lengths and capacities

NUL == 0
Junk == -1

\* The third part holds for the 12 bytes of str.h:25: every block that
\* str_reserve asks for is larger than the internal storage.  By the last
\* one neither lengths nor capacities wrap, nor does a capacity in the size_t
\* of str_reserve, which is no narrower.
ASSUME StrAssumption ==
  /\ Char \subseteq Nat \ {NUL}
  /\ InternalCapacity \in Nat /\ InternalCapacity > 2
  /\ \A m \in 0 .. SizeBits : 2^m \notin {InternalCapacity - 1, InternalCapacity}
  /\ SizeBits \in Nat /\ MaxLength \in Nat
  /\ \A t \in Texts : t \in Seq(Char) /\ Len(t) <= MaxLength
  /\ Requests \subseteq 0 .. 2 * MaxBlock
  /\ MaxBlock \in Nat /\ 4 * MaxBlock < 2^SizeBits

VARIABLES
  str,    \* the str struct
  live,   \* it is initialized: FALSE after str_destroy
  lost,   \* the external blocks of strings that were deleted
  rc,     \* what the last call returned
  out     \* the character the last call handed out, or Junk

vars == <<str, live, lost, rc, out>>

-----------------------------------------------------------------------------
(* Bytes.                                                                  *)

Block(n) == [k \in 0 .. n - 1 |-> Junk]

\* Reading at offset k; the first n bytes; and what memmove makes of bytes at x
At(d, k) == IF k \in DOMAIN d THEN d[k] ELSE Junk
Bytes(d, n) == [k \in 1 .. n |-> At(d, k - 1)]

Put(d, x, bytes) ==
  LET into == x .. x + Len(bytes) - 1
  IN  [k \in DOMAIN d \cup into |-> IF k \in into THEN bytes[k - x + 1] ELSE d[k]]

\* What realloc keeps: the bytes that fit
Resized(d, n) == [k \in 0 .. n - 1 |-> At(d, k)]

Text(s) == Bytes(s.data, s.length)

\* The call on s leaves it like this, and returns code.
Outcome(s, code) == [s |-> s, rc |-> code]

-----------------------------------------------------------------------------
(* Storage.                                                                *)

\* The sizes of the blocks malloc may grant
PowersOfTwo == {2^m : m \in 1 .. SizeBits - 1} \cap 2 .. MaxBlock

\* Mutant of RoundedUp: while (c < n - 1).
RoundedUpShort(n) == {c \in PowersOfTwo : n <= c + 1 /\ (c = 2 \/ c < 2 * (n - 1))}

\* {where the loop from 2 upwards stops}, or {} if malloc grants no such block
RoundedUp(n) == {c \in PowersOfTwo : n <= c /\ (c = 2 \/ c < 2 * n)}

\* The text in an external block of c bytes, from realloc or malloc
Moved(s, c) ==
  [s EXCEPT !.data = IF s.external THEN Resized(@, c)
                     ELSE Put(Block(c), 0, Bytes(@, s.length + 1)),
            !.capacity = c, !.external = TRUE,
            !.blocks = IF s.external THEN @ ELSE @ + 1]

\* str_reserve
Reserve(s, n) ==
  IF n < InternalCapacity - 1 \/ (s.external /\ n < s.capacity)
  THEN {Outcome(s, 0)}
  ELSE {Outcome(Moved(s, c), 0) : c \in RoundedUp(n)} \cup {Outcome(s, -1)}

\* The text back in the struct: by way of a temporary block, since the
\* pointer to the external one lies where the text goes.
Internal(s) ==
  [s EXCEPT !.data = Put(Block(InternalCapacity), 0, Bytes(@, s.length + 1)),
            !.capacity = InternalCapacity, !.external = FALSE, !.blocks = @ - 1]

\* str_shrink_to_fit
ShrinkToFit(s) ==
  CASE s.capacity <= s.length + 1 -> {Outcome(s, 0)}
    [] s.capacity > s.length + 1 /\ s.length < InternalCapacity ->
         IF s.external THEN {Outcome(Internal(s), 0), Outcome(s, -1)} ELSE {Outcome(s, 0)}
    [] OTHER -> {Outcome(Moved(s, c), 0) : c \in RoundedUp(s.length + 1)} \cup {Outcome(s, -1)}

\* str_destroy: the length is left, and the bytes in the struct are those of
\* the pointer that was there.
Freed(s) ==
  IF s.external
  THEN [s EXCEPT !.external = FALSE, !.capacity = InternalCapacity,
                 !.data = Block(InternalCapacity), !.blocks = @ - 1]
  ELSE s

\* str_initialize
Zero ==
  [length |-> 0, external |-> FALSE, capacity |-> InternalCapacity, blocks |-> 0,
   data |-> [k \in 0 .. InternalCapacity - 1 |-> NUL]]

-----------------------------------------------------------------------------
(* Texts.                                                                  *)

\* s with the length and, up to the offset of that, the bytes it now has
Filled(s, x, bytes) == [s EXCEPT !.data = Put(@, x, bytes), !.length = x + Len(bytes) - 1]

\* Mutant of Now: the pointer to the source was taken before reserving.
NowStale(src, s, w) ==
  IF src = s /\ w.blocks > s.blocks THEN [src EXCEPT !.data = Block(src.capacity)] ELSE src

\* The source of a call on s, once s has the storage of w: str_data(src) is
\* read after reserving, and a source that is s itself has moved with it.
Now(src, s, w) == IF src = s THEN w ELSE src

\* The outcomes of filling s from offset x after reserving one of ns bytes
Fill(s, ns, x, BytesIn(_)) ==
  {IF r.rc < 0 THEN r ELSE Outcome(Filled(r.s, x, BytesIn(r.s)), 0) :
     r \in UNION {Reserve(s, n) : n \in ns}}

\* str_assign: the terminator is copied with the text.
Assign(s, src) ==
  LET BytesIn(w) == Bytes(Now(src, s, w).data, src.length + 1)
  IN  Fill(s, {src.length + 1}, 0, BytesIn)

\* str_assign_cstr
AssignCstr(s, t) ==
  LET BytesIn(w) == Append(t, NUL) IN Fill(s, {Len(t) + 1}, 0, BytesIn)

\* {where the doubling of the capacity stops}, with room for the terminator
AppendCapacity(s, size) ==
  {c \in {s.capacity * 2^m : m \in 0 .. SizeBits} \cap size + 1 .. s.capacity + 2 * size + 1 :
     c = s.capacity \/ c < 2 * (size + 1)}

\* str_append
AppendStr(s, src) ==
  LET BytesIn(w) == Append(Bytes(Now(src, s, w).data, src.length), NUL)
  IN  Fill(s, AppendCapacity(s, s.length + src.length), s.length, BytesIn)

\* str_append_cstr
AppendCstr(s, t) ==
  LET BytesIn(w) == Append(t, NUL)
  IN  Fill(s, AppendCapacity(s, s.length + Len(t)), s.length, BytesIn)

\* Mutant of PushBack: room for the character, not for the terminator.
PushBackBare(s, c) ==
  {IF r.rc < 0 THEN r ELSE Outcome(Filled(r.s, s.length, <<c, NUL>>), 0) :
     r \in IF s.capacity <= s.length THEN Reserve(s, s.length + 2) ELSE {Outcome(s, 0)}}

\* str_push_back
PushBack(s, c) ==
  {IF r.rc < 0 THEN r ELSE Outcome(Filled(r.s, s.length, <<c, NUL>>), 0) :
     r \in IF s.capacity <= s.length + 1 THEN Reserve(s, s.length + 2) ELSE {Outcome(s, 0)}}

\* Mutant of New: the string that could not be filled is not deleted.
NewForgets(rs) == rs \cup {Outcome(Zero, -1)}

\* A new string from the outcomes rs of filling it: one that could not be
\* filled is deleted, and one without memory for its struct never made.
New(rs) ==
  {IF r.rc < 0 THEN Outcome(Freed(r.s), -1) ELSE r : r \in rs} \cup {Outcome(Zero, -1)}

\* str_copy, str_from_cstr
Copy(src) == New(Assign(Zero, src))
FromCstr(t) == New(AssignCstr(Zero, t))

\* str_concat: a copy of s1 that s2 is appended to
Concat(s1, s2) ==
  UNION {IF r.rc < 0 THEN {r} ELSE New(AppendStr(r.s, s2)) : r \in Copy(s1)}

\* strncmp: the difference at the first of n offsets where the two differ or end
Strncmp(d1, d2, n) ==
  LET ends == {k \in 0 .. n - 1 : At(d1, k) # At(d2, k) \/ At(d1, k) = NUL}
  IN  IF ends = {} THEN 0
      ELSE LET k == CHOOSE x \in ends : \A y \in ends : x <= y IN At(d1, k) - At(d2, k)

\* Mutant of StrCompare: only as far as the shorter text goes.
StrCompareShorter(s1, s2) ==
  Strncmp(s1.data, s2.data, IF s1.length < s2.length THEN s1.length ELSE s2.length)

\* str_compare
StrCompare(s1, s2) ==
  Strncmp(s1.data, s2.data, IF s1.length > s2.length THEN s1.length ELSE s2.length)

-----------------------------------------------------------------------------
(* The calls on one string, with the other strings of the program.         *)

\* The strings of the texts, as str_from_cstr makes them
Others == {r.s : r \in {o \in UNION {AssignCstr(Zero, t) : t \in Texts} : o.rc = 0}}

\* What a call may take as its source: any string, the one it is called on too
Sources == {str} \cup Others

Return(s, code, o) ==
  /\ rc' = code /\ out' = o
  /\ live' = TRUE
  /\ str' = [s EXCEPT !.data = [k \in DOMAIN @ |-> IF k > s.length THEN Junk ELSE @[k]]]

\* The call on the string returns one of the outcomes rs.
Call(rs) == live /\ (\E r \in rs : Return(r.s, r.rc, Junk)) /\ UNCHANGED lost

\* The call makes a new string with one of the outcomes rs; its caller goes
\* on with that, and deletes the old one.
Replace(rs) ==
  /\ live
  /\ \E r \in rs :
       IF r.rc < 0 THEN Return(str, -1, Junk) /\ lost' = lost + r.s.blocks
       ELSE Return(r.s, 0, Junk) /\ lost' = lost + Freed(str).blocks

Fits(n) == n <= MaxLength

\* str_initialize, on memory without a string
Initialize == ~live /\ Return([Zero EXCEPT !.blocks = str.blocks], 0, Junk) /\ UNCHANGED lost

\* str_copy_to, likewise: the result of str_assign is ignored.
CopyTo(src) ==
  /\ ~live /\ src # str
  /\ \E r \in Assign(Zero, src) : Return([r.s EXCEPT !.blocks = @ + str.blocks], 0, Junk)
  /\ UNCHANGED lost

Destroy ==
  /\ str' = Freed(str)
  /\ live' = FALSE
  /\ rc' = 0 /\ out' = Junk /\ UNCHANGED lost

\* str_clear, of a destroyed string too
Clear == Return(Filled(Freed(str), 0, <<NUL>>), 0, Junk) /\ UNCHANGED lost

\* str_pop_back; keep: out is given
PopBack(keep) ==
  /\ live
  /\ UNCHANGED lost
  /\ \/ str.length = 0 /\ Return(str, -1, Junk)
     \/ /\ str.length > 0
        /\ LET last == str.length - 1
           IN  Return(Filled(str, last, <<NUL>>), 0, IF keep THEN str.data[last] ELSE Junk)

ReserveCall(n)  == Call(Reserve(str, n))
ShrinkCall      == Call(ShrinkToFit(str))
PushBackCall(c) == Fits(str.length + 1) /\ Call(PushBack(str, c))

AssignCall(src)     == Fits(src.length) /\ Call(Assign(str, src))
AssignCstrCall(t)   == Fits(Len(t)) /\ Call(AssignCstr(str, t))
AppendCall(src)     == Fits(str.length + src.length) /\ Call(AppendStr(str, src))
AppendCstrCall(t)   == Fits(str.length + Len(t)) /\ Call(AppendCstr(str, t))

CopyCall(src)       == Fits(src.length) /\ Replace(Copy(src))
FromCstrCall(t)     == Fits(Len(t)) /\ Replace(FromCstr(t))
ConcatCall(s1, s2)  == Fits(s1.length + s2.length) /\ Replace(Concat(s1, s2))

Init == str = Zero /\ live = TRUE /\ lost = 0 /\ rc = 0 /\ out = Junk

Next ==
  \/ Initialize \/ Destroy \/ Clear \/ ShrinkCall
  \/ \E n \in Requests : ReserveCall(n)
  \/ \E c \in Char : PushBackCall(c)
  \/ \E keep \in BOOLEAN : PopBack(keep)
  \/ \E t \in Texts : AssignCstrCall(t) \/ AppendCstrCall(t) \/ FromCstrCall(t)
  \/ \E src \in Sources :
       \/ AssignCall(src) \/ AppendCall(src) \/ CopyCall(src) \/ CopyTo(src)
       \/ ConcatCall(str, src) \/ ConcatCall(src, str)

Spec == Init /\ [][Next]_vars

-----------------------------------------------------------------------------
(* Properties.                                                             *)

\* The struct and the ghosts keep their types.
TypeOK ==
  /\ DOMAIN str = {"length", "external", "capacity", "data", "blocks"}
  /\ str.length \in 0 .. MaxLength /\ str.capacity \in {InternalCapacity} \cup 1 .. MaxBlock
  /\ str.external \in BOOLEAN /\ str.blocks \in Nat
  /\ \A k \in DOMAIN str.data : str.data[k] \in Char \cup {NUL, Junk}
  /\ live \in BOOLEAN /\ lost \in Nat /\ rc \in {-1, 0} /\ out \in Char \cup {Junk}

\* Whatever moved the text in and out of the struct, no write fell outside
\* the storage, every byte of the text was carried along with its terminator,
\* and an external block is never smaller than the struct, on which the early
\* return of str_reserve relies (str.c:64-82, 99-120, 182, 201-204, 250-259, 296-304).
BlockFits ==
  TypeOK /\ (live =>
    /\ DOMAIN str.data = 0 .. str.capacity - 1
    /\ str.length < str.capacity /\ str.data[str.length] = NUL
    /\ \A k \in 0 .. str.length - 1 : str.data[k] \in Char
    /\ IF str.external THEN str.capacity >= InternalCapacity
       ELSE str.capacity = InternalCapacity)

\* A string holds its external block exactly once, whatever was moved,
\* destroyed, destroyed again or cleared, and a new string that could not be
\* finished leaves nothing behind (str.c:38-44, 104-108, 134-137, 158, 227, 344).
HeapExact == str.blocks = (IF str.external THEN 1 ELSE 0) /\ lost = 0

\* The order of texts by their characters, a prefix first
Less(t, u) ==
  \E n \in 0 .. Len(t) :
    /\ n < Len(u) /\ SubSeq(t, 1, n) = SubSeq(u, 1, n)
    /\ n = Len(t) \/ t[n + 1] < u[n + 1]

\* Texts without NUL are compared as texts, equal ones only as equal, though
\* only the longer length bounds strncmp (str.c:231-240).
CompareDecides ==
  live => \A s \in Others :
            /\ StrCompare(str, s) < 0 <=> Less(Text(str), Text(s))
            /\ StrCompare(str, s) > 0 <=> Less(Text(s), Text(str))

Abstract == INSTANCE StringSpec WITH text <- Text(str), None <- Junk

\* Each call does to the text what its comment says, also with the string
\* itself as a source, and a call that fails leaves the text alone (for
\* str_copy_to, which cannot report failure: an empty text).
CallsKeepTheirPromises ==
  [][/\ \A src \in Sources :
          /\ AssignCall(src) \/ CopyCall(src) => Abstract!Assign(Text(src))
          /\ AppendCall(src) => Abstract!Extend(Text(src))
          /\ ConcatCall(str, src) => Abstract!Extend(Text(src))
          /\ ConcatCall(src, str) => Abstract!Prepend(Text(src))
          /\ CopyTo(src) => Text(str)' \in {Text(src), <<>>}
     /\ \A t \in Texts :
          /\ AssignCstrCall(t) \/ FromCstrCall(t) => Abstract!Assign(t)
          /\ AppendCstrCall(t) => Abstract!Extend(t)
     /\ \A c \in Char : PushBackCall(c) => Abstract!Extend(<<c>>)
     /\ \A keep \in BOOLEAN : PopBack(keep) => Abstract!PopBack
     /\ ShrinkCall \/ (\E n \in Requests : ReserveCall(n)) => Abstract!Resize
     /\ Initialize \/ Clear => Abstract!Clear
    ]_vars

\* str_reserve grants what was asked for and never shrinks (str.c:58-59);
\* str_shrink_to_fit leaves no block twice as large as needed, nor a block
\* for a text that fits into the struct (str.c:90-92).
RoomAsAsked ==
  [][/\ \A n \in Requests :
          ReserveCall(n) /\ rc' = 0 => str'.capacity >= n /\ str'.capacity >= str.capacity
     /\ ShrinkCall /\ rc' = 0 /\ str'.external =>
          str'.length >= InternalCapacity /\ str'.capacity < 2 * (str'.length + 1)
    ]_vars
=============================================================================
