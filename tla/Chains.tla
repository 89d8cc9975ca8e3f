------------------------------- MODULE Chains -------------------------------
(***************************************************************************)
(* A forward list and a hashmap in one memory, as in a program that uses   *)
(* both: a node that one of them frees may come back as a node of the      *)
(* other.  Each call of either is a step.                                  *)
(***************************************************************************)
EXTENDS NodeMemory

CONSTANTS
  Elem,       \* the elements a caller may store in the list
  NoElem,     \* no element: nothing was moved to the caller
  Keys, Values,
  NBuckets,   \* MAP_N_BUCKETS
  Hash        \* the hash function of the key type (src/hash.c)

ASSUME ChainsAssumption ==
  NoElem \notin Elem /\ NBuckets \in Nat \ {0} /\ Hash \in [Keys -> Nat]

VARIABLES
  mem,             \* the allocated nodes of both
  front, length,   \* the list
  buckets, count,  \* the map
  freed,           \* its array is freed, but pointed to
  rc, out          \* what the last call returned

List == INSTANCE ForwardList WITH count <- length
Map  == INSTANCE HashMap

vars == <<mem, front, length, buckets, count, freed, rc, out>>

Init == List!Init /\ Map!Init

ListCall == List!Next /\ UNCHANGED <<buckets, count, freed>>
MapCall  == Map!Next /\ UNCHANGED <<front, length, out>>

Next == ListCall \/ MapCall

Spec == Init /\ [][Next]_vars

-----------------------------------------------------------------------------
\* All variables keep their type; a node is of the list or of the map.
TypeOK ==
  /\ \A a \in DOMAIN mem :
       /\ a \in Addr /\ mem[a].next \in Addr \cup {NULL}
       /\ mem[a] \in [next : Addr \cup {NULL}, data : Elem]
                       \cup [next : Addr \cup {NULL}, key : Keys, value : Values]
  /\ front \in Addr \cup {NULL} /\ length \in Nat
  /\ buckets = Map!NoArray \/ buckets \in [Map!Bucket -> Addr \cup {NULL}]
  /\ freed \in BOOLEAN /\ count \in Nat /\ rc \in {-1, 0, 1} /\ out \in Elem \cup {NoElem}

\* Every allocated node is linked from exactly one place, a head or another
\* node, every chain ends in NULL, and both counts are right: nothing leaks,
\* no link dangles, and no node is reached from both structures, whatever was
\* freed by one and allocated by the other (forward_list.c:183-289,
\* hashmap.c:107-149, 168-246).  All variables keep their type.
EachNodeOwnedOnce ==
  /\ TypeOK
  /\ LET chains == {<<-1, front>>} \cup {<<i, buckets[i]>> : i \in DOMAIN buckets}
         nodes(c) == Chain(mem, c[2])
     IN  /\ \A c \in chains : nodes(c) = <<>> => c[2] = NULL
         /\ \A c \in chains : nodes(c) # <<>> => mem[nodes(c)[Len(nodes(c))]].next = NULL
         /\ \A c, d \in chains : \A k \in DOMAIN nodes(c), l \in DOMAIN nodes(d) :
              nodes(c)[k] = nodes(d)[l] => c = d /\ k = l
         /\ DOMAIN mem = UNION {{nodes(c)[k] : k \in DOMAIN nodes(c)} : c \in chains}
         /\ length = Len(List!Nodes) /\ count = Cardinality(Map!Nodes)

\* A key of the map stands in the bucket of its hash and in one node only.
KeysPlaced == Map!KeysPlaced

\* Each call of the list, and each call of the map, keeps the promises of its
\* comment whatever the other did before (forward_list.c, hashmap.c).
ListPromises == List!CallsKeepTheirPromises
MapPromises  == Map!CallsKeepTheirPromises
=============================================================================
