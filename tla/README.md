# Specifications of libdsa

TLA+ models of libdsa, a C library of containers and algorithms over objects of
any type: what the containers do call by call, checked by TLC on small
instances, and proofs about them checked by TLAPS. Paths are relative to the
repository; line numbers are those of the modelled commit.

## The system

The library is sequential: no threads, no signals, nothing persisted. A client
owns the containers and calls one function at a time; each call runs to its end.
Objects are opaque bytes that a *type interface* (`src/type_interface.c`) can
copy, move, destroy, compare and hash. What makes it hard is ownership (who
destroys which object, exactly once), allocations that fail in the middle of a
call, recursion that restructures trees on its way up, loops over unsigned
indices, and links that a call leaves behind for a later one to follow.

| component | state | operations | must be right | model |
|---|---|---|---|---|
| vector `vector.c` | block, count, capacity | initialize, destroy, reserve, shrink, clear, set, insert, remove, push/pop back | block holds exactly the counted objects; nothing leaked or destroyed twice; a failed call changes nothing | `Vector` |
| tree `bst.c` | root, count, flavor | insert, set, remove, get/has, clear, copy, traverse | ordered; count right; a map; survives failing allocations | `Bst`, `BstCopy` |
| red-black `rb.c` | a color per node | insert, remove (left-leaning, top-down borrowing) | black heights, no red-red, leaning left | `RedBlackSteps` |
| AVL `avl.c` | a 3-bit balance per node | insert, remove | balance is the difference of heights, within -1..1 | `AvlSteps` |
| map `map.h` | a red-black tree with values | macros over `bst.c` | as the tree | `Bst` |
| set `set.c` | a red-black tree of keys | macros, and union, intersection, difference over copies, traversals and vectors | as the tree; exactly the elements of the operation | `Bst`, `SetOps` |
| list `list.c` | nodes linked both ways, ends, count | insert, remove, set, push, pop, clear | both chains agree; freed nodes never followed | `List` |
| queue `queue.h` | a list | push front, pop back | first in first out | `List` |
| forward list `forward_list.c`, stack `stack.h` | nodes linked one way, count | insert, remove, set, push, pop, clear | chain and count agree; last in first out; nothing leaked | `ForwardList`, `Chains` |
| hashmap `hashmap.c` | 512 chains of nodes, count | initialize, set, get, has, remove, clear, destroy | a map, whatever collides; each node in the bucket of its key | `HashMap`, `Chains` |
| heap `heap.c` | an array | bubble up, sift down, build | heap order but for the moving node | `Heap` |
| priority queue `priority_queue.c` | a vector in heap order | enqueue, dequeue, clear | the maximum first; elements owned once; failing allocations | `PriorityQueue` |
| sorting `quicksort.c`, `mergesort.c`, `heapsort.c`, `sort_tools.c` | an array and a workspace | quick, merge, heap, insertion sort | sorted permutation, mergesort stable, indices in range, every call returns | `Sorting` |
| string `str.c` | 32-bit length and capacity, text in the struct or in a block | reserve, shrink, assign, append, push, pop, copy, concatenate, compare | text and terminator inside the storage; blocks freed once; a string may be its own source | `Str` |
| json `json.c` | a string that grows | list to text | all elements or nothing; temporaries freed | `Json` |
| stats, util, log | running numbers, I/O | statistics, timing, word splitting, logging | | not modelled |

Interactions are calls downwards: map and set over the tree, queue over the
list, stack over the forward list, priority queue over heap and vector,
heapsort over the heap, set operations over copies, traversals and vectors,
json over lists and strings, all over the type interface and the allocator. The
only callbacks are the comparison and the visitor of a traversal. A visitor may
stop the walk, which is modelled; changing the tree from inside a visitor is
not, because the interface does not offer it.

## Modules

- `Vector`: the struct and its block, a function from slot numbers to objects in
  which a slot without an object holds `Raw`. The two loops of `vector_insert`
  and `vector_remove` move objects between overlapping slots, so each `t_move` is
  a step (`InsertShift`, `RemoveShift`), with `j` the loop variable as a
  `size_t`; every other call is one step. `vec.fault` is a ghost that records an object
  overwritten, destroyed twice or touched outside the block. `MaxCapacity` is
  what malloc grants; below it, any allocation may fail as well. `vector_initialize` of
  a live vector is a client error and not modelled.
- `SequenceSpec`: the abstract vector, one action per call. `Vector` implements
  it under the mapping `Contents`, the block without the free slot of a running loop.
- `TreeNode`: nodes as nested records, with `int_compare` and its overflow.
- `PlainSteps`, `RedBlackSteps`, `AvlSteps`: the functions of `bst.c`, `rb.c` and `avl.c` on
  subtrees, with the C assertions as Booleans. A function that calls itself is a CONSTANT
  operator (`AvlInsert`) and its body a definition over it (`AvlInsertStep`). The
  configurations give the constant its body, so that TLC evaluates the recursion; theorems
  take the equation of the two, on the trees they speak of, for a hypothesis, which
  no recursive declaration would give the prover. A
  call returns the new subtree, its code, its change of height and whether all assertions
  held: what the C code passes back through `np`, the return value and `dhp`. `char` in the
  balance bit field is signed, as on the platforms of the Makefile's compilers for x86.
- `TreeWalks`: traversing in both directions, heights, and the invariants that the code
  asserts of a tree, written in the same way.
- `Bst`: the tree struct and its calls. One call is one step, because nothing
  can run in between. `alloc` says whether the one allocation of a call succeeds.
- `MapSpec`: the abstract map that the tree implements under `Entries`.
- `BstCopy`: the tree with a copy beside it; any set of the copy's nodes may fail.
- `SetOps`: union, difference and intersection of the tree and a second set, as
  operators that return every outcome the failing of allocations can produce: copy one
  set, walk the other and insert or remove, or step two vectors of keys downwards.
- `NodeMemory`: nodes at addresses, what allocating, freeing and following a link
  do to them. An address that was freed may be allocated again; a pointer to an
  address that is not allocated dangles. The loops over nodes are one recursive
  function, `Met`: the addresses met step by step.
- `List`: the doubly-linked list on that memory. Following or freeing a
  dangling pointer, or failing an assertion, ends the program (`fault`).
  `calls` names the calls that the client makes, one of the sets in `Clients`:
  those of a list that is never popped, of a queue, or all.
- `ForwardList`, `HashMap`: the singly-linked list and the hashmap on the same
  kind of memory, one call per step. `Chains` composes one of each over a
  single `mem`, as a program does that uses both: whatever one frees the other may get.
  `freed` says that a destroyed map still points to its array: it is not destroyed again
  before it is initialized, which the comments do not ask for and `src/src/hashmap.c:134` needs.
- `ListSpec`: the abstract list that `List` and `ForwardList` implement.
- `Heap`: comparing, swapping, parents and children, and the conditions of the
  two loops of `heap.c`, as operators over an array. `Sorting` and
  `PriorityQueue` make a step of each turn of the loops.
- `Sorting`: the three sorting functions. `stack` holds the ranges and merges that
  the recursion still has to do, with the local variables `i`, `j`, `k` of the loop
  that runs; each turn of a scan, merge, insertion or sift is a step. Elements are
  the slots they came from, so that losing one or breaking stability is visible.
- `PriorityQueue`: extends `Vector` with the calls of the queue; the loop
  variables are shared because a queue call uses no loop of the vector. `unrepaired` is
  a ghost: a call had no workspace for the swaps and left the heap out of order.
  `PriorityQueueSpec` is the abstract queue, a bag of elements.
- `Str`: a string as length, capacity, the bytes at `data` and how many blocks
  it holds. The bytes and the capacity in the struct overlap with the pointer
  to the block, so each move of the text is an operator of its own (`Moved`,
  `Internal`); a byte that nothing was written to is `Junk`. A call
  returns the set of outcomes that failing allocations allow. `StringSpec` is the text it stands for.
- `Json`: `list_to_json` as a fold over such outcomes, beside the calls of `Str`.
- `MCVector`, `MCBst`, `MCSetOps`, `MCList`, `MCChains`, `MCSorting`,
  `MCPriorityQueue`, `MCStr`: instances for TLC.
- `VectorProofs`, `TreeProofs`, `ListProofs`, `ChainsProofs`, `SortingProofs`, `StrProofs`:
  theorems about `Vector` and `PriorityQueue`, `Bst`, `List`, `Chains`, `Sorting` and
  `Str`. `HeapProofs`: lemmas about `Heap`, and about
  least and greatest elements of sets of numbers, on which the others rest.
  `NodeMemoryProofs`: lemmas about `NodeMemory` that both kinds of lists rest on.

Operators commented "Mutant of ..." are plausible bugs. No specification uses them:
each is there to be put in place of the operator it names, to see that a property fails.

## Runs

| run | question | bounds, and why they do |
|---|---|---|
| `vector` | ownership, slots, sequence semantics, end of the shifting loops | minimum capacity 2, at most 8, two elements: two doublings above the minimum, and contractions to 1 and 0 below it |
| `trees` | structure of the three flavors, searching and walking | 5 keys for plain trees: the successor is deep and has a child; 11 for red-black trees: black height 3, all cases of borrowing, and absent keys; 10 for AVL trees: rotations at two levels of one removal |
| `map` | does every call do to the map what it promises, what is a copy worth whose nodes could not all be allocated, and are the set operations right | 3 keys for plain trees and 4 for the others, 2 values or none: two children at the root, overwriting, every set of failing nodes; the second set is any tree that insertions build, and at most one allocation of each kind fails in an operation |
| `list` | links, sequence, queue discipline, leaks | 4 addresses: front, back and two in the middle, addresses reused; the client is one that never pops, a queue, or one that mixes all calls up to the first fault |
| `chains` | can a list and a hashmap in one memory share, lose or misplace a node; do their calls keep their promises | 5 addresses, 2 elements, 3 keys in 2 buckets of which two collide, 2 values: a chain of two behind a chain of one, removal from the front and behind it, no free address left; symmetry of the addresses and the values, which the code only compares for equality |
| `sorting` | is the result sorted, what holds while the loops run, do the calls return | up to 7 elements of three ranks, every input; quicksort leaves ranges of at most 3 to insertion sort and mergesort of at most 2, for 16 and 8: partitions of both parts and merges of merges still occur |
| `pqueue` | heap order, ownership, what is promised where memory runs out | vector bounds as in `vector`, three elements of different rank (equal ones are one element enqueued again); any allocation fails, including the workspace after the push |
| `strings` | bounds and terminator, blocks, the text as promised, comparing, json | 6 bytes in the struct for 12, blocks up to 16, texts up to 8: inside, at the border, in a block, in one that doubled; two characters, four texts, lists of no and of three elements; any allocation fails |

The flavor of a tree and the client of a list are chosen in `Init` and never
change; the keys of a tree depend on its flavor (`KeysOf`). Keys
are small integers of 5 bits, so that no difference
overflows; `int_overflow` uses keys at both ends of a 4-bit int instead.
Trees of 10 or 11 keys have no values: values do not influence the shape.
A copy is deleted before its source is used again, which loses no behavior as the
two share no node. `CHECK_DEADLOCK FALSE` stands where a program may stop: after
the fault of a list or the crash of a tree.
The real minimum capacity of a vector is 8; the theorems cover it.

What the properties say:

- `SlotsExact`, `NoLeakNoDoubleDestroy`: at every step of every call the block
  has exactly `capacity` slots, live objects are exactly where they must be, and
  every object is destroyed or moved out once.
- `ImplementsSequence`, `ImplementsMap`: refinement of the abstract module.
  `CallsKeepTheirPromises` is sharper: each call does what it promises
  for its own arguments, where the refinement would accept any abstract step.
- `InvariantAsserted`: the library's own `bst_invariant`, and the assertions inside
  `rb.c` and `avl.c`, never fail. `WalksInOrder` is what `bst_invariant` does not
  check, an order across levels; `SearchFindsAll` that searching and walking agree;
  `LeansLeft` what removal in `rb.c` relies on and no invariant of the library checks.
- `UnionOfBoth`, `DifferenceExact`, `IntersectionExact`: for the tree and every
  second set, the elements of the result if memory sufficed, and what can at most be wrong with them if not,
  NULL being right too where the comments promise it (see the list below).
- `WellLinked`, `LinkedBackward`, `NoNodeLeaks`: the chains of the list, exactly
  for a list without pops, along `prev` for a queue, and by number for any mix.
- `EachNodeOwnedOnce`: every allocated node of the shared memory is linked from
  exactly one place; `KeysPlaced`: a key stands in the bucket of its hash, once.
- `NothingLost`: no element is lost at any step, which in the middle of a merge
  relates the three indices; `ScansMeet`: the claims of the comment in `_partition`, and
  that the scans stay inside of the range that they never look at the ends of; `PartsInOrder`
  and `HeapThenSorted`: what quicksort and heapsort have achieved between two steps.
- `HeapInOrder`, `ElementsOwned`: the queue's vector is a heap but for the node
  that moves, unless a repair was left out, and owns its elements exactly.
- `BlockFits`, `HeapExact`: terminator and text inside the storage, external
  blocks held and freed once. `RoomAsAsked`: what reserving and shrinking grant.
- `CompareDecides`: `str_compare` is the order of texts. `JsonJoins`: all of a list or nothing.
- `CallsKeepTheirPromises` of `List`, `ForwardList`, `HashMap`, `PriorityQueue` and `Str`:
  as for the vector, against `ListSpec`, `MapSpec`, `PriorityQueueSpec` and `StringSpec`.
- `LoopsEnd`, `Terminates`: a shifting loop ends; a sorting call returns.

Each type invariant is a run's property of its own in `Vector` and a part of
the first invariant in the other modules.

Each passing property has a mutant in `PROJECT.json` that breaks it.

### Where code and comments disagree

Four runs end in a counterexample:

- `rb_no_memory`: `bst_insert` and `bst_set` on an empty red-black tree without
  memory dereference the NULL root (`src/src/bst.c:465`, `530`).
- `int_overflow`: `int_compare` subtracts (`src/src/type_interface.c:100`).
- `queue_delete`: `list_pop_back` leaves `next` of the new last node dangling
  (`src/src/list.c:324`), and `list_clear` follows it and frees it again.
- `intersect_empty`: `set_intersection` compares elements that it did not get if one
  of the sets is empty (`src/src/set.c:92`).

Others that the properties above describe as they are, without a run of their own:

- `list_pop_front` leaves `prev` of the new first node dangling (`src/src/list.c:300`), and
  `list_remove(0)` asserts that it is NULL (`src/src/list.c:234`): a `fault` of the third client of `list`.
- `set_union` promises NULL on error (`src/src/set.c:34-35`). `insert_into_set` ends the walk
  through the smaller set when an insertion has no memory (`src/src/set.c:42`), but `set_union` drops what
  `set_traverse` returns (`src/src/set.c:51`): the caller gets a legal set without that element and those
  after it. `UnionOfBoth` accepts NULL or just this set, and demands the whole union where memory suffices.
- `set_intersection` promises NULL on error (`src/src/set.c:56`) and ignores the result of
  `set_insert` (`src/src/set.c:104`): a common element without memory for its node is missing from
  the set it returns, or, if it is the first one, the missing root is followed as in the finding about
  `rb_insert_rec` (`src/src/bst.c:465`). `IntersectionExact` accepts NULL or just that.
- A copy made without enough memory is handed out incomplete, with the count of its
  source (`src/src/bst.c:285`, `401`, `420`): `CopySound` says what still holds of it.
- `pqueue_enqueue` returns 1 though the push failed, and -1 though the element was
  added; `pqueue_dequeue` returns -1 though it handed an element out
  (`src/src/priority_queue.c:22-35`, `74`): the alternatives in `PqCallsKeepTheirPromises`.
- `pqueue_dequeue` rejects a NULL place for the element, which its comment allows (`src/src/priority_queue.c:57`).
- A contraction of a vector may leave less room than the documented minimum
  (`src/src/vector.c:124`, `135`), and the comment of `vector_reserve` (`src/src/vector.c:81-83`) speaks of the
  smallest power of two *greater than* n; the loop stops at one that is not less than n.
- `set_difference` is commented as copying the larger set (`src/src/set.c:123-124`); it copies the first.
- `json.h` says that the result is stored in `json_out` (`src/src/json.h:17`), which is no parameter;
  it is returned. `queue_initialize` (`src/src/queue.h:19`) passes one argument too few and cannot be
  used; a queue is made by `queue_new`. Neither bears on a property.
- `str_copy_to` drops the result of the assignment (`src/src/str.c:167`).

## Fairness

A call in C runs to its end, so that a shifting loop, once entered, takes its
next step: weak fairness on the four loop steps of `Vector`, and no other.
Callers are under no obligation to call anything. `Sorting` is a single call,
with weak fairness on `Next`: the call goes on as long as it can, and `Terminates`
says that it then returns. The loops of `PriorityQueue` are bounded by the same
operators as heapsort's, and its specification, like those of the modules with atomic calls, has
only safety properties and states no fairness.

## Proofs

Each theorem holds for every value of the constants that the module's assumption admits; the
proof modules assume nothing more, but for the trees, where the hypotheses of a theorem say what the
recursive functions are (`Forest`, below). An invariant that is checked on
small instances becomes a theorem in three steps: a strengthening that is inductive, a lemma per
action that it is kept, and the conclusion by temporal logic.

**Vector.** `VectorProofs` covers every set of elements, every minimum capacity, bound of
malloc and width of `size_t` that satisfies `VectorAssumption` (a request for twice the largest block
does not overflow). `SlotsExact` is not inductive: it does not say where the loop variable
is. The invariant `Inv` has a part per value of `pc`. Between calls the slots
below `count` are occupied. In the insertion loop `count + 1` slots are in
play and the free one is at `j + 1`, with `i <= j + 1`, or at 0 once `j` has wrapped;
in the removal loop `count` slots are in play and the free one is at `j - 1`. `Holds(v, S)` says
that the slots in `S` are exactly the occupied ones and that there was no fault;
a lemma per memory operation (`ConstructHolds`, `VacateHolds`, `MoveHolds`, `TruncateHolds`,
`RelocateHolds`) says how the operation changes `S`, and a lemma per helper (`ReserveHolds`,
`ShrinkHolds`, `GrowHolds`, ...) that it keeps the elements.

The refinement of `SequenceSpec` (`VectorIsSequence`) needs little more: `Settled`, that a vector without a
block has no slots and that a running removal knows its result. The abstract insertion
happens when its loop ends, the abstract removal when its loop begins; `Around` reads the elements without the
free slot, and `MoveKeepsOrder` says that moving an element next to that slot into it changes nothing.
`VectorKeepsPromises` combines the same lemmas (`SetPromise`, `InsertFinishPromise`, ...).

**Trees.** `TreeProofs` proves all that the runs check of a single tree, for trees of every size and of
the three flavors. Two things stand where other modules have an induction over data, which
the prover cannot do:

- A flavor is given by the set of all its trees: `AvlTrees(H, X)` says that `H` holds just the AVL trees
  with entries in `X`, each with its height and what it holds, by saying that its members are NULL and the
  nodes that stand in order over two members of about equal height. `RbTrees` does so with black heights
  and left-leaning nodes, `PlainTrees` with order alone. Such a set exists: it is the union of the trees of every height.
- A recursive function is a constant operator, and a theorem takes it to equal its body on the
  trees of `H`: `AvlInserting`, `RbRemoving` and the like spell that out, for one function each.

A lemma then follows a call one level down and takes for granted what it does
to smaller trees (`AvlInsertsLeft`, `RbRemovesBelow`); the theorem joins them by way of the lightest tree on
which the operation would go wrong (`LeastRank`).
`FindSound` is searching, `PlainInsertSound` and `PlainRemoveSound` are `bst.c` without balancing.

*AVL.* `AvlRepairRestores`: a node over two trees, out
of balance by at most two, is turned by `avl_n_repair` into a tree, the
change of height it reports is right, and no assertion fails. It rests on
one lemma per rotation, `AvlRotateRightExact` and `AvlRotateLeftExact`: both factors are
exact afterwards, which in the middle of a double rotation means a factor of 2 or -2
on the inner node, so that the lemmas allow for a child that is out of balance itself.
All factors on the way are between -4 and 3 and fit the bit field (`WrapFits`).
`AvlInsertSound` and `AvlRemoveSound` say the same of the whole operations.

*Red-black.* On its way up an insertion may leave a red node over a red left child, which `rb_n_repair` of
the node above removes (`RepairRed`, `RepairBlack`): `RbInsertSound`. A removal makes sure that the node it descends
to is not a 2-node by borrowing from above or beside. What `RbRemoveSound` asks is therefore
weaker at a 2-node, of which only a root may remain: there the black height may fall by one.
`BorrowsLeft` and `BorrowsRight` show that the assertions in `rb_n_move_red_left` and `..._right` hold. `RbBlackened`: whatever is
left, a black root makes it legal.

*The state.* `Forest(Trees)` collects the hypotheses for `Bst`: `Trees[f]` is the set of all trees of flavor `f` with
the caller's keys and values, the recursive functions equal their bodies on it, the keys are finitely many, and
comparing two of them does not overflow (`Fits`; what happens otherwise is the run
`int_overflow`). The inductive invariant `Sound` says that the root is that of a tree in `Trees[flavor]`, black if
it has a color, that `count` is the number of its keys, and that no assertion has failed. `NextSound` keeps
it and shows each step to be one of the map. `SoundMeans` concludes what is asserted and promised of a state from what a tree of each flavor
shows to a reader: `WalksAre` for traversing both ways and stopping, `KeysAreOrdered`, `HeightIs`, `BlackDepthsAre`, `RbKeeps` and
`AvlKeeps` for the invariants that the code asserts. `MapOf` is the map a set of entries stands for, and
`TreeImplementsMap` the refinement of `MapSpec`.

**Sorting.** `SortingProofs` covers arrays of every length, any
integers as ranks and any cutoffs, under `SortingAssumption` (the length is
less than the largest `size_t`). `NothingLost` says nothing of where the scans of the partition are,
which read the array without testing a bound. So `Inv` has a part per loop:

- `ScanningUp` names the element that is going to stop the scan (`StopsUp`, `StopsLow`): at first the
  pivot, which is not the last element, after an exchange the elements that changed
  sides. `Passed` is the first claim of the comment at `src/src/quicksort.c:51-64`.
- `Merging`: the gap between the parts, `k .. j - 1`, is as long as what is
  left in the workspace, and the array outside of the gap and the workspace hold all elements.
- `Heaping`: the node that sinks is one of the `k` elements of the heap.
- Everywhere else the array is a permutation (`Permuted`), which exchanging two slots keeps (`SwapKeeps`).

`SortedAtEnd` says nothing before the end. `InOrderSoFar` adds what each
function has achieved: `InPhase` for heapsort, a heap but for the sinking node and behind it
the largest elements in order; `InParts` for quicksort, that the pending ranges tile the
array and no element has to cross a border; `InHalves` for mergesort, that the recursion
stack is a call tree (`Halved`), that first halves wait sorted for their merge, and which elements a merge has
already put where (`Merged`); `Sinking` for the insertion sort that two of them end in.
Ranges that were not reached are `Untouched`, by which
mergesort is stable: each half holds the elements that came in it.

**Heap.** `HeapProofs` has a lemma per turn of the loops of `heap.c` (`SiftTurn`, `BubbleTurn`, where they start
and stop) that one node at most is out of order and which, and `FirstIsLargest`: a node
that is larger than the first would lead to a least such node, whose parent is another. Heapsort and the priority queue rest on them.

**Priority queue.** `PqInv` in `VectorProofs`: the vector owns its elements (`Owned`, as in the vector), and the heap is in order
but where the running loop is going to look, unless a repair was left out. The
promises are about bags; `OneMorePlace`, `BagOfNext` and `BagOfSwapped` count the slots an element is stored in.

**Strings.** `StrInv` in `StrProofs`: a string holds a block exactly if it is external (`Storage`), and a live one a text
with its terminator (`Valid`). A lemma per function says that it `Gives` its string the promised text
or leaves it as it was, or `Makes` a new one or leaves no block behind, for
every outcome of an allocation; `MovedIsText` and `InternalIsText` that the text survives the moves between
struct and block, of which the first bytes overlap. `CompareOrders` rests on
`StrncmpFinds` (the first difference or end is found), `LessDiffers` and `DiffersLess`. `StrAssumption` asks that the
bytes in the struct be more than two and neither a power of two nor one more: 12 in the code. A block is then never as
small as the struct's own bytes, nor one byte more than a text that fits.

**List and queue.** `Row(m, f, l, n, c)` in `ListProofs` says that the nodes of memory `m` are the `n` nodes of `c`, that neighbors
are linked with each other, and that `f` and `l` are the ends; it leaves open what
the links behind the ends are. `Ends` adds that these are NULL as far as the client's calls leave
them so. `ListInv` is both, until a fault, and no fault for a client that never pops or uses the
list as a queue. `Joined` and `Parted` describe a memory after a node was linked in or taken out, and
`InsertRow`, `RemoveRow` that it holds a row again; each call is shown to leave such a memory.
What the loops over nodes do is the recursive function `Met` of `NodeMemory`. In `NodeMemoryProofs` `MetExists` shows that it
exists for every number of steps, `MetRuns` that it meets the nodes of a row one after the other, and
`WalkRuns`, `ChainRuns`, `FreeRuns` conclude for finding, reading and freeing. Like `MetExists`, arguments by induction take the least
number for which a claim fails (`LeastNumber`).

**Forward list, stack and hashmap.** `ChainsProofs` is about a list and a hashmap in one memory. `ChainsInv` says that there are
chains, one for the list and one for each bucket, that are linked as they should be, have no
node in common and leave no allocated node out, and that `length` and `count` count their nodes. It
names the chains by an existential over all sequences of nodes, which TLC cannot enumerate;
what it checks are the consequences `EachNodeOwnedOnce` and `KeysPlaced`. A call changes one chain: a node is
linked in, taken out, or all are freed. `Replaced` describes such a change, and a lemma of `NodeMemoryProofs` for
each says what becomes of the chain and that the others stay as they are and apart (`Apart`). So a step of the list leaves
the map as it was and the other way round (`ListChanges`, `ListBecomes`), and with `Data`, what a chain
holds, follow the promises of each call.

Only model-checked:

- `LoopsEnd` and `Terminates`: liveness is beyond the prover.
- `UnionOfBoth`, `DifferenceExact`, `IntersectionExact` of `SetOps` and `CopySound` of `BstCopy`: they speak of every set of nodes
  that may fail and of walks that go on with a damaged copy, and their loops are recursive
  operators, which the prover cannot use.
- `JsonJoins` is a fold over sets of outcomes, about which only induction with an operator as parameter would say more.

The prover knows nothing of `^`, so the capacities that doubling reaches are sets of numbers (`Sizes` in `Vector`,
`PowersOfTwo` in `Str`), of which the proofs use the bounds.
`NoUseAfterFree` and the other properties of the runs that end in a counterexample are false.

## Not modelled

- `stats.c` (floating point), `util.c` (clock, streams), `log.c` and the macros of `check.h`
  except for the jumps they make, the programs and tests.
- Bytes and alignment; NULL arguments (each function returns its error code at
  once); type interfaces without the functions a container needs, and with them the error paths of
  constructors that free fields not yet set (`src/src/vector.c:53`, `src/src/hashmap.c:89`, `src/src/str.c:86`).
- Arguments that point into the container they are given to: an element of the
  vector that grows, the value that is replaced (`src/src/hashmap.c:62`, `src/src/forward_list.c:66`), a C-string
  inside the string. A string as its own source is modelled.
- Sizes near the end of a word: strings of 1 GiB, heaps of 2^31 elements (`src/src/heap.c:38`), empty arrays
  for heapsort and `is_sorted` (`src/src/heapsort.c:22`, `src/src/quicksort.c:109`).
- Hash functions: `Hash` is any function of the key, and so is the order of a type.
- Characters: NUL inside a text, where comparing and hashing disagree (`src/src/str.c:237`); the wording of json.
- The vectors of an intersection that get no memory (`src/src/set.c:83`), after which anything may happen.
- Values with allocations of their own in trees that mix `bst_insert` and `bst_set` (`src/src/bst.c:282`).

## Plan

1. Done: vector, trees, maps and copies, set operations, list and queue,
   forward list and hashmap in one memory, heap, sorting, priority queue, strings, json.
   Proved: all safety properties of vector, trees and maps, sorting, priority queue, string, list
   and queue, forward list and hashmap.
2. Theorems left: `SetOps` and `BstCopy` with their loops as constant operators, in the way of `TreeProofs`.
