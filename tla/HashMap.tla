------------------------------- MODULE HashMap -------------------------------
(***************************************************************************)
(* The hashmap of src/hashmap.c: an array of buckets, each a chain of      *)
(* nodes in a memory the map may share with others.                        *)
(***************************************************************************)
EXTENDS NodeMemory

Seqs == INSTANCE SequencesExt

CONSTANTS
  Keys, Values,
  NBuckets,     \* MAP_N_BUCKETS
  Hash          \* the hash function of the key type (src/hash.c)

VARIABLES
  mem,       \* the allocated nodes
  buckets,   \* the first node of each bucket, or no function: no array
  count,     \* M->count
  freed,     \* M->buckets points to an array that hashmap_destroy has freed
  rc         \* what the last call returned

vars == <<mem, buckets, count, freed, rc>>

Bucket == 0 .. NBuckets - 1
NoArray == [i \in {} |-> NULL]       \* M->buckets is NULL or freed: no map
IsMap == buckets # NoArray

BucketOf(k) == Hash[k] % NBuckets

\* Mutant of Position: only the first node of a bucket is looked at.
PositionInFirst(k) ==
  LET c == Chain(mem, buckets[BucketOf(k)])
  IN  IF c # <<>> /\ mem[c[1]].key = k THEN 1 ELSE 0

\* The search of hashmap_find_node and hashmap_remove: where the first node
\* with key k stands in its bucket, or 0
Position(k) == Seqs!SelectInSeq(Chain(mem, buckets[BucketOf(k)]), LAMBDA n : mem[n].key = k)

NodeAt(k) == Chain(mem, buckets[BucketOf(k)])[Position(k)]

Return(m, b, n, code) == rc' = code /\ count' = n /\ buckets' = b /\ mem' = m

\* hashmap_set
Set(k, v) ==
  /\ IsMap /\ UNCHANGED freed
  /\ IF Position(k) > 0
     THEN Return([mem EXCEPT ![NodeAt(k)].value = v], buckets, count, 0)
     ELSE LET i == BucketOf(k)
          IN  \/ Return(mem, buckets, count, -1)
              \/ \E a \in Addr \ DOMAIN mem :
                   Return(NewNode(mem, a, [next |-> buckets[i], key |-> k, value |-> v]),
                          [buckets EXCEPT ![i] = a], count + 1, 1)

\* Mutant of Unlink: the bucket is always linked past the removed node.
UnlinkFirst(k) ==
  Return(FreeNode(mem, NodeAt(k)), [buckets EXCEPT ![BucketOf(k)] = mem[NodeAt(k)].next],
         count - 1, 1)

\* The node with key k is unlinked from the node before it or from its
\* bucket, and then deleted.
Unlink(k) ==
  LET i    == BucketOf(k)
      node == NodeAt(k)
      prev == Chain(mem, buckets[i])[Position(k) - 1]
  IN  IF Position(k) > 1
      THEN Return(FreeNode([mem EXCEPT ![prev].next = mem[node].next], node), buckets, count - 1, 1)
      ELSE Return(FreeNode(mem, node), [buckets EXCEPT ![i] = mem[node].next], count - 1, 1)

\* hashmap_remove
Remove(k) ==
  /\ IsMap /\ UNCHANGED freed
  /\ IF Position(k) > 0 THEN Unlink(k) ELSE Return(mem, buckets, count, 0)

\* hashmap_has; hashmap_get finds its value the same way
Has(k) ==
  /\ IsMap /\ UNCHANGED freed
  /\ Return(mem, buckets, count, IF Position(k) > 0 THEN 1 ELSE 0)

\* The memory after the two loops of hashmap_clear
Emptied ==
  LET after[i \in 0 .. NBuckets] ==   \* the first i buckets are freed
        IF i = 0 THEN {mem} ELSE UNION {FreeChain(m, buckets[i - 1]) : m \in after[i - 1]}
  IN  after[NBuckets]

NoNodes == [i \in Bucket |-> NULL]

\* Mutant of Clear: the buckets are not reset.
ClearKeepsBuckets ==
  /\ UNCHANGED freed
  /\ IF IsMap THEN \E m \in Emptied : Return(m, buckets, 0, 0) ELSE Return(mem, buckets, count, 0)

\* hashmap_clear; it does not look at a freed array, which has no buckets
Clear ==
  /\ UNCHANGED freed
  /\ IF IsMap THEN \E m \in Emptied : Return(m, NoNodes, 0, 0)
     ELSE Return(mem, buckets, count, 0)

\* hashmap_initialize, on memory without a map; the array may not be granted
Initialize ==
  /\ ~IsMap /\ freed' = FALSE
  /\ \/ Return(mem, NoNodes, 0, 0)
     \/ Return(mem, NoArray, 0, -1)

\* hashmap_destroy and hashmap_delete. The pointer to the array remains, so
\* that neither may follow before the next initialization; after one that
\* failed the pointer is NULL, and they free nothing.
Destroy ==
  /\ ~freed /\ freed' = IsMap
  /\ IF IsMap THEN \E m \in Emptied : Return(m, NoArray, 0, 0)
     ELSE Return(mem, buckets, count, 0)

Init ==
  /\ mem = [a \in {} |-> NULL] /\ buckets = NoNodes /\ count = 0
  /\ freed = FALSE /\ rc = 0

Next ==
  \/ \E k \in Keys : Remove(k) \/ Has(k) \/ \E v \in Values : Set(k, v)
  \/ Clear \/ Initialize \/ Destroy

Spec == Init /\ [][Next]_vars

-----------------------------------------------------------------------------
Nodes == UNION {Seqs!Range(Chain(mem, buckets[i])) : i \in DOMAIN buckets}

\* Where searching looks is where storing stored: a key stands in the bucket
\* of its hash and in one node only, so that no removal can leave a second
\* entry of the key behind (hashmap.c:168-185, 223-246).
KeysPlaced ==
  /\ \A i \in DOMAIN buckets : \A n \in Seqs!Range(Chain(mem, buckets[i])) : BucketOf(mem[n].key) = i
  /\ \A n, o \in Nodes : mem[n].key = mem[o].key => n = o

\* The map that the nodes hold
Contents ==
  [k \in {mem[n].key : n \in Nodes} |-> mem[CHOOSE n \in Nodes : mem[n].key = k].value]

Map == INSTANCE MapSpec WITH map <- Contents

\* Each call has the effect and the return code its comment promises on the
\* map from keys to values (hashmap.c:107-249).
CallsKeepTheirPromises ==
  [][/\ \A k \in Keys :
          /\ Remove(k) => Map!Remove(k)
          /\ Has(k) => UNCHANGED Contents /\ rc' = (IF k \in DOMAIN Contents THEN 1 ELSE 0)
          /\ \A v \in Values : Set(k, v) => Map!Set(k, v)
     /\ Clear \/ Destroy => Map!Clear
     /\ Initialize => UNCHANGED Contents
    ]_vars
=============================================================================
