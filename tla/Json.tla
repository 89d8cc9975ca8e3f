-------------------------------- MODULE Json --------------------------------
(***************************************************************************)
(* list_to_json of src/json.c beside the strings it is made with: a list   *)
(* is the sequence of the texts its elements are serialized to, and the    *)
(* brackets and the comma with its blank are one character each.           *)
(***************************************************************************)
EXTENDS Str

LOCAL Seqs == INSTANCE SequencesExt

CONSTANTS Opening, Comma, Closing, Lists

ASSUME JsonAssumption ==
  /\ {Opening, Comma, Closing} \subseteq Char
  /\ \A l \in Lists : l \in Seq(Seq(Char))

\* str_delete of the temporary string: what it leaves behind is json's to answer for.
Dropped(r, temp) == [r EXCEPT !.s.blocks = @ + Freed(temp).blocks]

\* Mutant of Separated: a comma after the last element too.
SeparatedAlways(r, n, total) == IF r.rc < 0 THEN {r} ELSE AppendCstr(r.s, <<Comma>>)

\* ++count < list_count(L)
Separated(r, n, total) ==
  IF r.rc < 0 \/ n = total THEN {r} ELSE AppendCstr(r.s, <<Comma>>)

\* One turn of list_foreach: the n-th of total elements, serialized to t
Element(json, t, n, total) ==
  UNION {IF temp.rc < 0 THEN {Outcome(json, -1)}
         ELSE UNION {{Dropped(c, temp.s) : c \in Separated(a, n, total)} :
                       a \in AppendStr(json, temp.s)} :
           temp \in FromCstr(t)}

Elements(rs, list) ==
  LET Turn(before, n) ==
        UNION {IF r.rc < 0 THEN {r} ELSE Element(r.s, list[n], n, Len(list)) : r \in before}
  IN  Seqs!FoldLeft(Turn, rs, [n \in 1 .. Len(list) |-> n])

\* list_to_json: a json that cannot be finished is deleted.
ListToJson(list) ==
  New(UNION {IF r.rc < 0 THEN {r} ELSE PushBack(r.s, Closing) :
               r \in Elements(FromCstr(<<Opening>>), list)})

\* The text that is promised for a list
Joined(list) ==
  LET Join(before, n) == before \o (IF n > 1 THEN <<Comma>> ELSE <<>>) \o list[n]
  IN  <<Opening>> \o Seqs!FoldLeft(Join, <<>>, [n \in 1 .. Len(list) |-> n]) \o <<Closing>>

\* What the call does with a list is the same in every state.
Serialized == [list \in Lists |-> ListToJson(list)]

JsonCall(list) == Fits(Len(Joined(list))) /\ Replace(Serialized[list])

JsonNext == Next \/ \E list \in Lists : JsonCall(list)

JsonSpec == Init /\ [][JsonNext]_vars

\* A list comes out as all its elements in brackets with commas between them,
\* or not at all, whichever of the many allocations fails (json.c:12-47).
JsonJoins == [][\A list \in Lists : JsonCall(list) => Abstract!Assign(Joined(list))]_vars
=============================================================================
