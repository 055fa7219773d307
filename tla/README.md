# Verification of Small-Client-SSE

TLA+ models of the searchable-encryption schemes of this repository and of the
oblivious storage under them, TLC configurations that check the models on small
instances, and TLAPS proofs about all five schemes, Mitra, SDa, SDd, QOS and
Horus, and about the ORAM of Horus.

## 1. The system

The repository implements dynamic searchable symmetric encryption with a small
client. A caller puts document identifiers under keywords, takes them away and
searches; the server holds only encrypted entries at pseudo-random addresses.
Client and server are objects of one process that call each other directly: the
program is sequential, has no threads, sends no messages and stores nothing on
disk, so there are no races, no lost messages and no recovery to model. What
makes it hard is state that is spread over several places and has to stay
aligned through long sequences of calls, in two phases: a *setup* phase in which
the client keeps its records in plain maps, and the ordinary phase, in which
they are in oblivious maps. Nothing checks the alignment: an entry at an address
nobody computes any more is simply not found.

### Inventory

| Component | State | Operations |
|---|---|---|
| Mitra (`src/src/mitra/Client.cpp`, `Server.cpp`) | per keyword `fileCnt` and `srcCnt` in an oblivious map; the server's dictionary `DictW` | `update`, `search` (plain and cleaning), `endSetup` |
| SDa, amortized (`static/Amortized*.cpp`) | levels of 1, 2, 4, ... updates, small ones in the client, large ones at the server under one key each | `update`, `search` |
| SDd, de-amortized (`static/DeAmortized*.cpp`) | up to three full sets per level and one under construction; counter records per level in plain or oblivious maps | `update` (setup and live), `endSetup`, `search` |
| QOS (`qos/Client.cpp`, `Server.cpp`) | per keyword counters, leaf numbers and colours of a binary tree in three oblivious maps; the server's entries and deletion marks | `insert`, `remove`, `search`, `endSetup` |
| Horus (`horus/Horus.cpp`) | per keyword five counters, slots with access numbers in two oblivious maps; boxes in a PRF-addressed ORAM | `insert`, `remove`, `setupInsert`, `setupRemove`, `search`, `endSetup` |
| PRF-addressed ORAM of Horus (`horus/PRFORAM.cpp`) | a tree of buckets, a stash, a count of free blocks | `WriteBox`, `batchRead`, `batchWrite`, `setupInsert` |
| Oblivious map (`*/OMAP.cpp`, `*/AVLTree.cpp`) | an AVL tree of which the client knows the root's key and position | `find`, `insert`, increments of counters, `setupInsert`, `setDummy` (static), `batchInsert`, `batchSearch`, `printTree` |
| Path ORAM (`*/ORAM.cpp`) | a tree of buckets, a cache, the leaves and blocks touched by the current operation | `ReadNode`, `WriteNode`, `finilize`, `setupInsert` |
| `Bid`, `AES`, `RAMStore`, `Utilities`, RocksDB wrapper | bytes | comparison, encryption, an array, formatting |

How they interact: a scheme calls its oblivious maps and its server; an oblivious
map is an AVL tree whose nodes are the blocks of a Path ORAM; every operation on
it is one session of the ORAM, which reads paths into the cache, changes blocks
there, draws new leaves for all blocks it touched and writes the paths back.
Each scheme has its own copy of the map, the tree, the ORAM and the store. The
copies differ in the counters under a key (`fileCnt-srcCnt` in Mitra,
`src_cnt-a_w` in QOS, one number in the static schemes and in Horus) and in how
blocks end: those of the static copy die in groups (`setDummy`), those of Horus
run out (`RAMStore::emptyNodes`).

### What is hard, and what correctness means

`PROJECT.json` lists the hazards line by line. In short:

- Mitra: client counters and server dictionary agree; in cleaning mode a search
  rewrites entries under a new generation, and no mask may encrypt twice.
- SDa: merging levels moves every update exactly once; a server level is read
  under the key it was written with.
- SDd: every update advances a merge on every level, so sets, keys and counter
  records must keep to one timetable, and `endSetup` may come in the middle.
- QOS: only the topmost deleted node of the tree is recorded, so what a search
  skips depends on the order of the removals.
- Horus: a search finds the last write of a slot by binary search, which is right
  only if the access numbers of the slot have no holes.
- ORAMs: a block lies in one place, on its path, and whoever looks for it knows
  the path; a full bucket must not lose anything.
- Oblivious map: the leaf of a node is recorded only in its parent, and every
  session moves nodes; a rotation, a counter that outgrows its field, a dead
  block or a full store must not separate the two.

## 2. Modules

| Module | Models | Notes |
|---|---|---|
| `SSEIndex` | what Mitra, SDa and SDd promise | a balance INS - DEL per keyword and identifier; a search returns the positive ones |
| `SSESet` | what QOS and Horus promise | a set of identifiers per keyword |
| `BoxMap` | what an ORAM promises to a scheme | a map; a batch is one step |
| `Mitra` | `mitra/Client.cpp`, `mitra/Server.cpp` | proofs in `MitraProofs` |
| `StoredCall` | the 16-byte value that both static schemes store, and the keyword a merge reads back from it | extended by the next two |
| `Amortized` | `static/Amortized*.cpp` | proofs in `AmortizedProofs` |
| `DeAmortized` | `static/DeAmortized*.cpp`, dead trees of `static/AVLTree.cpp` | proofs in `DeAmortizedProofs` |
| `QOS` | `qos/Client.cpp`, `qos/Server.cpp`, `incrementAwCnt` of `qos/AVLTree.cpp` | proofs in `QOSProofs` |
| `Horus` | `horus/Horus.cpp` | one step per round of the loop of `search`; proofs in `HorusProofs` |
| `BucketTree` | the tree of buckets, the write-back and the packing of the setup phase, which all ORAMs share | operators only; lemmas in `BucketTreeProofs` |
| `NumberLemmas` | | induction and recursion over intervals, powers of two, division; used by the proofs about `BucketTree`, `Amortized`, `DeAmortized`, `QOS` and `Horus` |
| `PRFORAM` | `horus/PRFORAM.cpp` | extends `BucketTree`; proofs in `PRFORAMProofs` |
| `CounterText` | the counters as text: `to_string`, `stoi`, `c_str`, `splitData` and the copy into `Node::value` | operators only |
| `ORAM`, `AVLTree` | `*/ORAM.cpp`, `*/AVLTree.cpp`, what the copies have in common; what differs is in the session | operators on a session |
| `OMAP` | state, steps and properties that the copies share | extends `AVLTree` |
| `MitraOMAP`, `QOSOMAP`, `StaticOMAP`, `HorusOMAP` | the map, the tree and the ORAM of each directory | one action per operation of `OMAP.cpp` |
| `OMAPCopies` | a behaviour is one of any copy | instantiates the four |
| `MC*` | constants for TLC | |

The composition is by refinement. The schemes use an oblivious map, and Horus its
ORAM, as a plain function from keys to values; `OMAP` and `PRFORAM` are shown to
implement `BoxMap`, which is that function. The values are the ones the schemes
parse, so a text that would be read back as other numbers is a violation. The restrictions under which this
holds are the schemes' own: `PRFORAM` assumes that no box is written twice, which
is the property `BoxesWrittenOnce` of `Horus`, proved for every instance.

Conventions. State variables and operators keep the names of the code. A
pseudo-random value is modelled by its inputs, so two values are equal exactly if
their inputs are; encryption by remembering what was encrypted under which key or
mask. `finalRes` or `answer` is the result of the last search; `calls`, `live`
and `given` record what the caller asked for, and no action reads them except to
keep the caller to its protocol. Operators marked "Mutant" are wrong variants of
the definition after them; they are not part of the specification and serve to
confirm that each checked property notices such a mistake.

How state and actions correspond to the code:

- `Mitra`: `omap` and `setupOMAP` are the two counter maps, `DictW` the server's
  dictionary. `SetupUpdate` and `Update` are `Client::update` in its two modes,
  `SearchPlain`, `SearchCleaning` and `SearchUnknown` the branches of `search`.
  `EndSetup` includes the record that `endSetup` inserts into the map for
  measurements.
- `Amortized`: `data`, `server`, `keys`, `exist` per level. `Search` includes the
  empty vectors that reading `data[i][keyword]` leaves behind. A copy is a place
  that holds a value (`Copies`); the loops of `update` take them in the order of
  an `unordered_map`, for which an arbitrary fixed order of the copies stands
  (`Collected`).
- `StoredCall`: the static clients copy the keyword to the front of a value, then
  write the operation over byte 10 (0 for INS, 1 for DEL) and the identifier over
  bytes 11 to 14 (`Amortized.cpp:56-60`, `DeAmortized.cpp:164-168`). A merge reads
  the keyword back as a C string (`Amortized.cpp:45` for the server's levels,
  `DeAmortized.cpp:64` for every level): it ends at the first zero byte.
  `curKeyword` says so. A keyword is modelled by its number and its `Length`, and
  what is read in place of one that is not followed by a zero by `Garbled`. The
  caller keeps to `Calls`: keywords of at most 9 bytes, or of 10 bytes and never
  deleted under.
- `DeAmortized`: `store[i][j]` is instance j of level i. `SetupUpdate` and
  `LiveUpdate` are `update`, all levels of the loop in one step, from the top
  down. The keys of the sets are uninitialised memory at first: their contents
  are arbitrary (`FirstKey`).
- `QOS`: `Ocnt`, `Odel`, `Ostate` and their setup twins; `root` is the keyword at
  the root of `Ocnt`'s tree, because `incrementAwCnt` treats it differently.
- `Horus`: `CNTs`, `byInd` and `bySlot`, `boxes`; `probe[i]` are the local
  variables of `search` for slot i. `SearchBegin`, `SearchRound`, `SearchEnd`
  divide the loop, every other operation is one step. Uncaught exceptions of
  `stoi` and of a full store end the behaviour (`thrown`).
- `PRFORAM`: `tree`, `stash`, `emptyNodes`; `pos` is the leaf of each box, an
  arbitrary function chosen at the start.
- `OMAP` and the copies: `tree`, `cache`, `rootKey`, `rootPos`; `dummyValue` is
  the number of the last finished merge (static), `emptyNodes` the count of free
  blocks (Horus). An operator with a small letter is the function of `AVLTree` or
  `ORAM` of that directory, the one with a capital letter the method of `OMAP`,
  an action that runs a whole session: the way down, the insertion and its
  rotations, fake reads, new leaves and the write-back. The leaves are chosen
  nondeterministically. `ended` is `"lost"` for the null pointer or the exception
  of a block that is not found, `"full"` for the exception of a full store.
  `given` is what the caller wrote. In QOS that is what `incrementAwCnt` does to
  a record, which below the root is not what its name says (finding 2): the run
  shows that the map does it reliably, and finding 2 what QOS makes of it.
- `CounterText`: a text is a sequence of digits, dashes and zero bytes. A counter
  that gains a digit makes `AVLTree` write a text one byte longer than the field,
  because the part after the dash still has the field's zero bytes; the last one
  falls on the first byte of the position behind it (`SpilledOn`).
- Where blocks of one leaf compete for a place in a bucket, the order is that of
  the identifiers, as in the `std::map` of Horus; the other copies have an
  `unordered_map`. The properties do not depend on which of them gets the place,
  but a run sees one order.

## 3. Runs

| Run | Instance | What it shows |
|---|---|---|
| `mitra_plain` | 2 keywords, 2 identifiers, 4 entries | `MasksUsedOnce`, implements `SSEIndex` |
| `mitra_cleaning` | the same, 2 generations | also `EntriesAligned`: every address the counters stand for holds an entry under its own mask |
| `amortized_bulk` | 2 keywords (9 and 10 bytes), 3 levels (one at the client), 6 updates | `InItsBlock`, `ServerReadable`, implements `SSEIndex` for a caller that searches after its updates |
| `amortized_loss` | 2 client levels, updates after searches | *violation*, finding 1 |
| `deamortized_long` | 2 keywords (9 and 10 bytes), 4 levels (2 at the client), 23 updates, `endSetup` anywhere | the timetable (`OnSchedule`), whole sets under their keys, exact counters, every update found once, implements `SSEIndex` |
| `qos_one` | 1 keyword, 8 leaves, 6 insertions, 2 generations | colours and marks agree, the covering set reaches every mark, no entry is overwritten, implements `SSESet` |
| `qos_two_keywords` | 2 keywords, 4 leaves | *violation*, finding 2 |
| `horus_search` | 3 identifiers, 5 boxes, 2 searches | slots, access numbers and binary search are right, no box is written twice, implements `SSESet`, every search ends |
| `horus_refill` | 2 identifiers, setup phase with refilled slots | *violation*, finding 3 |
| `prforam_tree` | 4 boxes, 4 leaves, buckets of one | a box lies in one place, nothing is lost, implements `BoxMap` |
| `omap_map` | each copy with 3 to 7 keys, 2 leaves, buckets of two, 4 bytes for the counters | a block lies in one place, the AVL tree stays one, recorded positions agree, nothing is lost and nothing dead comes back, a store is full only when it is, implements `BoxMap` |
| `omap_tall` | 12 keys, the 12 blocks of maxSize 12 to 15 | *violation*, finding 4 |

### Bounds, and why they are enough

- Mitra: four entries allow an insertion, its deletion and a second insertion
  beside another keyword, and two generations allow a rewrite of rewritten
  entries. The proofs remove these bounds.
- Amortized: with `LocalSize` 1 and three levels, six updates merge client into
  client, client into server, and server into server, and free a server level
  that is filled again. One keyword has 9 bytes, the other 10, the most that
  `Calls` allows; they move between server levels, where they are read back.
  Keys are symmetric. The proofs remove these bounds for
  all properties of the run.
- DeAmortized: 23 updates are the first number at which level 3 is filled
  completely from level 2; by then client-client, client-server and
  server-server merges have all finished. Every third update is a
  free choice between two keywords, the others are fixed (`Workload`); with a
  free choice at every update the run is too long. The keyword of 10 bytes is
  only inserted under, the other deleted under as well. The initial keys are taken
  equal, the worst case for a set read under the wrong key. The proofs remove
  these bounds for all properties of the run.
- QOS: six leaves of eight give a covering set of two nodes and colours that
  propagate over two levels; two identifiers suffice because an identifier that
  is removed and inserted again takes a new leaf. The proofs remove these
  bounds, and part of them the bound of one keyword.
- Horus: three identifiers make the last one move into a first and into a middle
  slot; five boxes let the store run full in the middle of each operation. The
  proofs remove these bounds for everything but `SearchEnds`, of which they show
  the part that is not liveness (`SearchTakesLogRounds`).
- PRFORAM: with four leaves (of which the code uses three), every assignment of
  leaves to four boxes occurs, among them all four on one path of three buckets,
  which forces the stash. Batches have up to two boxes. There is one value, so
  that the run does not tell the contents of two boxes apart; the proofs, for any
  values, remove this and the other bounds.
- Oblivious map, Mitra: the order of the six keys needs a left-right and a
  right-left rotation, the last with an inner subtree that changes its parent;
  the beginning of any length may come from `setupInsert` or `batchInsert`. One
  block draws any leaf, the others a fixed one, most of them the same, so that
  five compete for four places and one stays in the cache.
- Oblivious map, QOS: three keys, so that the root changes and each key is the
  root or below it when it is counted. Static: a merge with five keys and one
  with two, all but one block on one leaf: dead blocks are left in buckets and
  in the cache. Horus: seven keys for six blocks, of which up to three come
  uncounted from the setup phase, so that the store runs full with and without
  them; with more of them the tree would be higher than `finilize` counts (see
  finding 4). No run takes Horus' copy to that height.
- Counters: a field of four bytes holds `9-0` with one zero byte behind it, so
  that the step from 9 to 10 fills it and spills; one key of each copy takes it.
- Batches of look-ups: one set of keys on both sides of the root for each copy.
  `printTree` looks at every node. No scheme calls the batches; `batchInsert` is
  used on an empty tree, as its comment says, and the static copy's look-ups
  while the root is alive.

The runs that do not check deadlock are those in which the bound on the calls, a
full store or the end of the program stops the caller.

### Fairness

The only liveness property is `SearchEnds` of Horus. `FairSpec` assumes weak
fairness of the steps of the loop of `search` and of nothing else: once the
function is entered, the processor goes on executing it. Whether the loop makes
progress is what the property is about. No call of the caller is assumed to
happen.

### Findings

1. `Amortized::search` reads `data[i][keyword]` with `operator[]`, which leaves
   an empty vector in the level; the next merge into that level uses
   `unordered_map::insert`, which keeps it, and the updates are lost.
2. `AVLTree::incrementAwCnt` of QOS recurses into `incrementSrcCnt`, so an
   insertion under a keyword that is not at the root counts the wrong counter.
3. `Horus::setupInsert` restarts the access number of a slot that `setupRemove`
   freed; after `endSetup` a search returns the removed identifier.
4. `ORAM::finilize` updates positions up to the height of a complete tree, but an
   AVL tree within the capacity can be higher; then the root keeps a stale
   position of its child. Horus' copy counts only to `depth + 2`, so that 7 keys
   in a map for 8 are enough.

Two more stay outside the runs. `Horus::insert` throws for a keyword that was
filled in the setup phase and not searched since, because `endSetup` installs no
`latestUpdatedCounter`. The callers of the runs avoid it (`InsertUnsearched`).
And the static schemes misread long keywords: one of 11 bytes or more comes back
from a stored value without its end ("information" as "informatio"), one of 10
bytes in a DEL with the operation and the identifier behind it, and the update is
filed under that keyword from then on: in SDd from its first merge, in SDa when
a level of the server that holds it is merged. A search of the right keyword misses
it. No document or test of the repository says how long a keyword may be; the
callers of the runs and of the theorems keep to `Calls`, and with `OpByteSwapped`,
under which a keyword of 10 bytes is misread in an INS, both runs do refute
`RefinesIndex`.

Properties that a finding refutes are checked under the caller's protocol that
avoids it: `UpdateAfterSearch` in Amortized, one keyword in QOS, `SetupRefill` in
Horus, trees of height at most 3 in `omap_map`.

## 4. Proofs

### Mitra

`MitraProofs` proves, for any keywords, finite set of
identifiers, mode and bounds:

- `Typing`: `TypeOK`, which includes that a search reports only identifiers
  somebody inserted, never the result of unmasking with a wrong mask;
- `Alignment`: `EntriesAligned`;
- `OneTimeMasks`: no step writes an entry under a mask that was used before;
- `Refinement`: `Spec => Index!ASpec`, Mitra implements the abstract index.

Assumptions: `ConstantsAssumption` (types of the constants) and `StemAssumption`.
The latter says that keywords differ in the bytes that reach the PRF: the code
overwrites bytes 7 to 15 (cleaning) or 11 to 15 of the padded keyword with the
counters, and keywords that agree on the rest would share addresses.

The inductive invariant is `IInv == TypeOK /\ EntriesAligned /\ NothingAhead /\
OmapIdle`. `EntriesAligned` alone is not inductive for masks: that the next
address is free needs `NothingAhead` (no entry beyond the counters of its keyword
and generation), and that `EndSetup` may replace one counter map by the other
needs `OmapIdle` (the oblivious map is empty until then). The lemmas say what the
PRF, the counters and a search compute: `PRFInjective`, `Decoding` (the client's
numbering of an answer is the server's, if no entry is missing), `LiveIsPositive`.
The refinement maps the balance of an identifier to the entries the counters
stand for; `BalanceUpdate` and `BalanceCleaning` show that an update shifts one
balance by one and that a rewriting search compacts it.

### SDa

`AmortizedProofs` proves, for any keywords that the values have room for, any keys,
number of levels and of levels the client keeps:

| Theorem | Says | Caller |
|---|---|---|
| `TypesKept` | `TypeOK` | any |
| `BlocksKept` | `InItsBlock`: every copy of an update lies in the level that the binary counter assigns to it, and there is at most one | any |
| `ServerKept` | `ServerReadable`: counter, key, flag and dictionary of a server level agree, and a search by positions reads all of it | any |
| `NothingExtra` | a search finds updates of its keyword only, each once | any |
| `FirstSearchComplete` | the first search of a keyword finds all its updates | any |
| `Completeness` | `AlwaysComplete`: every search does | `~UpdateAfterSearch` |
| `Refinement` | `RefinesIndex`: SDa implements `SSEIndex` | `~UpdateAfterSearch` |

There are two assumptions. `AmortizedAssumption` gives the types of the constants, a
client level, and fewer updates than the levels have room for.
`KeywordAssumption` says that keywords have at most 10 bytes, and `Next` takes its
updates from `Calls`, in which those of 10 bytes are only inserted under: "any"
caller is any within `Calls`. It is needed where a merge takes a keyword from a
value of the server (`ReadBack`, cited in `Held`), and without it `NothingExtra`,
`FirstSearchComplete`, `Completeness` and `Refinement` are wrong of the code (see
the end of the findings). The hypothesis of the
last two is what finding 1 makes necessary: `amortized_loss` refutes
`AlwaysComplete` without it. `FirstSearchComplete` shows how far the finding
reaches: no caller can lose an update of a keyword that was never searched,
however often others were.

Level `i` holds, after `n` updates, those of `BlockAt(n, i)`: they follow the ones
that the bits above `i` stand for (`Prefix`) and are `2^i` or none. The arithmetic
comes first: blocks do not meet (`BlocksApart`), together are all updates
(`BlocksCover`), those below the lowest zero bit and the new update are the block
of that bit (`BlocksMerge`), and the others stay (`Increment`).

The inductive invariant `AInv` says which entry of which level is which update,
and nothing about completeness, so that every caller keeps it:

- `Numbers`: `updateCounter` counts the calls;
- `Tables`: key, flag and dictionary of a server level are there exactly when its
  block is not empty;
- on a client level the vectors hold distinct updates of its block, each under
  its keyword (`Vectors`), on a server level the dictionary does, under the
  current key and at positions without gaps (`Files`).

`Whole` says that nothing is missing: every update of a level's block is there,
save those of keywords at risk (`Risked`: the searched ones, if the caller goes on
updating), and only searched keywords have an empty vector. It is what a search
could spoil, by the vectors it leaves: `unordered_map::insert` keeps one of those
(`Hollow`, `InsertFact`).

An update (`UpdateStep`) is followed through its loops. The copies below the new
level are distinct updates (`MergedFact`), `previousData` has each once, under its
keyword, with the new one last (`CollectedFact`, `PairsFact`), `insert` and `setup`
put them in the level (`InsertFact`, `SetupFact`). For a search, the run of positions
until one is missing is the whole file of the keyword (`ServerSearch`); every
entry found is a copy (`EntryHeld`) and every copy is found (`EntryWhole`,
`AllFound`). For the refinement, what a search counts equals what was inserted and
deleted (`CountingFact`), and an update changes one balance by one
(`TotalsNext`).

### Horus

`HorusProofs` proves for any keywords, finite set of identifiers, size of the
store and bounds:

| Theorem | Says | Caller |
|---|---|---|
| `Typing` | `TypeOK` | any |
| `SlotsStayMatched` | `SlotsMatch`: the maps identifier to slot and slot to identifier are inverse, with the same access numbers | any |
| `SlotsHaveNoHoles` | `NoHoles`: the access numbers written for a slot are consecutive | `~SetupRefill` |
| `ProbesEndExact` | `ProbesExact`: a probe of the binary search that closes has found the last of them | `~SetupRefill` |
| `NoBoxTwice` | `BoxesWrittenOnce`: no step writes a box that exists | `~SetupRefill` |
| `SearchesExact` | `AnswersExact`: a search returns exactly what is under the keyword | `~SetupRefill` |
| `Refinement` | `RefinesSet`: Horus implements `SSESet` | `~SetupRefill` |
| `SearchTakesLogRounds` | a search makes at most `4 + log2(Access)` passes of its loop, rounded up | `~SetupRefill` |
| `NothingMisread` | `NeverMisread`: no counter is read that was never written | `~SetupRefill`, `~InsertUnsearched` |

"Any" caller includes the one that refills slots during setup, a store that
throws in the middle of an operation, and `stoi` on an absent record. The
hypotheses are the two protocols that the code needs: `horus_refill` refutes
`AnswersExact` without the first (finding 3), and without the second the
exception of `insert` described below the findings does happen.
`HorusAssumption` says that the absent record, identifiers and the text
`@number` of a pointer can be told apart, and that identifiers are finitely
many; the code stores them as `int`.

The argument has three layers, each an inductive invariant on top of the last:

1. `SlotInv`: types, and for every keyword `Paired`: the slots
   1 to `UpdtCnt` are taken, each by an identifier whose own record names that
   slot and the same access number, and the other way round; `LastIND` is the
   identifier of the last slot, the one that `remove` moves; `live` holds the
   identifiers that have a slot. It is `SlotsMatch` together with what that
   takes for granted: that the records exist, and that what the caller takes for
   present is what the maps say.
2. `BoxInv` adds the boxes of every keyword. `Bounded`: none lies
   above the access number recorded for its slot, or under a `SrchCnt` that is
   still to come, so that what a step writes is free. `Frontier`: which slots
   have boxes under the current `SrchCnt` at all; `latestUpdatedCounter` is the
   client's record of it, and slots beyond it are first written again when an
   insertion reaches them. `SlotSound`: from the first number (the one the
   pointer in box 1 names) to the last there is no hole (`Chain`), and the last
   box of a slot in use names its identifier. `NoHoles` is the middle part, and
   a step that extends or revives a slot needs the others.
3. `SearchInv` says what the local variables of a running
   `search` mean: the last access number of a slot lies between the two bounds
   of its probe (`Between`), a probe that has closed is `Exact`, and the result
   collected so far is that of the closed probes, each once.

After it the module shows that `live`, the caller's view, is what the slots hold
(`IInvAgrees`), and then that each action is a step of `SSESet` or a stutter:
every round of a search but the last stutters, and an operation that a full store
interrupts must not have changed the set.

The rounds of a search come last. `Rounds` bounds what a probe still needs: an
interval is halved (`Halvings`), and the last ones, of one or two numbers, take up
to three rounds more, because a probe at the left of two neighbours goes to the
right one and back. `RoundsBounded` is the bound at any time, `FewerRounds` says
that every pass of the loop leaves every open probe fewer. What is needed beside
`SearchInv` is that a probe reads the middle of its interval, rounded up or down
(`CenterInv`). With that the loop ends as soon as it is executed often enough,
which is the fairness of `FairSpec`.

### QOS

`QOSProofs` proves, for a tree of any height, any identifiers and bounds, and one
keyword or two:

| Theorem | Says | Keywords |
|---|---|---|
| `TypesKept` | `TypeOK` | two |
| `EntriesKept` | `EntriesNotOverwritten` | two |
| `CountedAlwaysFound` | `CountedFoundIsLive`: the keyword at the root of `Ocnt`'s tree, and each in the setup phase, is found completely, each identifier once | two |
| `MarksAlwaysAgree` | `MarksAgree`: the topmost colours are the topmost marks | one |
| `CoverAlwaysReaches` | `CoverReachesMarks`: the covering set covers the leaves in use, each once, and lies nowhere below a colour | one |
| `OneFoundIsLive` | `FoundIsLive` | one |
| `OneRefinesSet` | `RefinesSet`: QOS implements `SSESet` | one |

`QOSAssumption` limits the keywords to two, because the model does not follow the
rotations of `Ocnt`'s tree. The hypothesis `OneKeyword` of the last four is what
finding 2 leaves: `qos_two_keywords` refutes `FoundIsLive` without it, and
`CountedAlwaysFound` says which keyword is spared.

The tree comes first, as arithmetic. `At(p, j)` is the node `j` levels above leaf
`p`; `PathsJoin`, `UnderAt` and `AboveAt` say that leaves and ancestors are what
halving makes of them, and `SubtreeSplit` that every other leaf under a node on
the path of `p` lies under a sibling further down. `CoverIs` is about the
recursion of `findCoveringSet`, by induction over the leaves still to be covered:
what is covered so far is a multiple of each power of two not yet used
(`Aligned`), so that the next node starts where the last one ended, and every
subtree of the leaves in use is under one node of the set.

`IInv` is the invariant of all keywords: the maps of the phase that is over or not
begun (`PhasesApart`), the records (`Records`), and which addresses exist at the
server (`Addresses`): none of a generation still to come, none of the current one
above `a_w`. The last is why neither an insertion nor a search overwrites
anything, whichever counter is incremented.

`Agrees` relates, for one keyword, four things: the entries of the current
generation are those of the live identifiers, each at its leaf; the colours lie
above exactly the other leaves up to `a_w`; the marks are among the colours; and
the topmost of both agree. `MarksAgree` alone says nothing about the leaves, and
a removal preserves it only if the colours are right. Per operation:

- `GrowsAgrees`: an insertion takes the next leaf, under which nothing is coloured.
- `ShrinksAgrees`: a removal colours one node (`ColouredAt`) whose other leaves lie
  under coloured siblings, so that one leaf is added to those covered (`Paints`).
- `MovesAgrees`: a search meets every topmost mark (`SearchMeets`) and hands out
  exactly the entries not under one (`SearchFinds`, `SearchFindsOnly`); the marks
  it moves are some of those there and include the topmost (`TopmostBetween`).

`Counted` says for which keywords this holds: a keyword that was counted wrong
never counts as right again (`CountedBefore`), and the operations on another
keyword leave everything of this one alone (`Untouched`).

### SDd

`DeAmortizedProofs` proves for any keywords that the values have room for, any
number of levels and of levels the client keeps, workload within `Calls`, and
contents of the uninitialised keys:

- `ScheduleKept`: `OnSchedule`;
- `SetsStayWhole`: `SetsWhole`;
- `KeysFollow`: `KeysFollowSets`;
- `CountersStayExact`: `CountersExact`;
- `TreesNotMixed`: `OneMergePerTree`;
- `EachFoundOnce`: `FoundOnce`;
- `Refinement`: `RefinesIndex`, SDd implements the abstract index;
- `TypesKept`: `TypeOK`.

There are two assumptions. `DeAmortizedAssumption`: the types of the constants, at
least one level on either side, a workload within `Calls`, and fewer than
`3 * 2^Levels - 2` updates, beyond which the top level has no free instance. And
`KeywordAssumption`: keywords have at most 10 bytes, of which `Calls` lets no one
delete under those of 10. This is where every move takes its keyword from
(`ReadBack`, cited in `ExtendedFiles`); without it `EachFoundOnce` and `Refinement`
are wrong of the code, as the end of the findings says.

None of the first five is inductive without the others, because an update
works on all levels at once and each step reads the level below it. The
inductive invariant `DInv` therefore says of every level where the timetable has
it. The timetable is arithmetic: after `u` updates `Moves` elements have been
moved into level `i`, which make `Finished` merges and a `Rest`, and the level
holds `SetCount` full sets. Its lemmas are `Tick` (one update later), `ClockAbove`
(a merge into a level ends with every other one that ends below it),
`SetCountTick` (two sets are taken, or one is put, or both) and `UpCntFact` (the
formula of the code numbers the merges from 1 on). `DInv` consists of

- `LevelInv`: the first `SetCount` instances are full and flagged, the others
  empty, `NEW` and `cnt` hold the `Rest`, each instance opens with its key;
- `CounterInv`: no record is of a merge still to come, the dead-marker is the
  number of finished merges, the records of an oblivious map are of one merge, and
  each keyword's entries in `NEW` are `Numbered` from 1 to its record.

A step is proved level by level (`LevelZero`, `LevelGoesOn`, `LevelEnds`), then
its counters (`NumberedStep`, `CounterStep`). `Numbered` is what makes the moved
element a new address, so that `NEW` grows by one with every move and its size
may be what decides that a merge is finished (`ExtendedFact`, `DoneFact`).

What the sets hold is a second layer, `CInv`. The `m`-th merge into level `i`
collects the updates of `Block(i, m)`, those from `(m - 1) * 2^i + 1` to
`m * 2^i`. A set that `Files` some updates has each of them at one address, under
its keyword, with counters that leave no gap. `CInv` says of every level
(`ContentInv`) that each full set files the block of its merge, the latest merges
being there, and that `NEW` files the elements moved so far. The argument:

- `Ranked`, `ElementRank`: positions from 0 to the size of a set and addresses
  correspond, so that reading a set by position gives each of its updates once
  (`Positions`). This is where the iteration order of the code's hash maps comes
  in: the proof needs only that it is an order and does not change during a
  merge.
- `ElementFact`: the two sets that a merge reads file neighbouring blocks of half
  the size, so the elements moved are the updates of its own block, each once.
- `ExtendedFiles`: the element moved joins `NEW` with the next counter of its
  keyword, which is where `Numbered` is needed again; `AllCopied`: with the last
  one `NEW` files the block. `SetsKept`, `SetMoved` and `SetFiled` say where the
  full sets are after an update.
- `Handed`: the sets that a level has given up are those that the level above has
  been given. Hence the updates that the full sets of a level file begin where
  those of the level above end (`LevelHolds`, `Borders`), and every update is in
  one set (`SomeSet`) and in no other (`OneSet`, by `Separate`).
- `FoundFact`: the places a search reads and the updates of its keyword
  correspond.

For the refinement, what a search counts equals what was inserted and deleted
(`CountingFact`), whatever is where; so moving sets about and the end of the setup
change no balance, and an update changes one by one (`TotalsNext`).

### The ORAM of Horus

`PRFORAMProofs` proves, for any depth, bucket size, finite set of identifiers,
assignment of leaves and size of the batches:

- `OneBoxOnePlace`: `OnePlace`;
- `BoxesKept`: `NothingLost`;
- `Refinement`: `RefinesMap`, the ORAM implements `BoxMap`.

Assumptions: `BucketTreeAssumption` (a bucket has room for a block),
`PRFORAMAssumption` (identifiers are finitely many and in an order, the absent
value is no value), and the caller of `Fresh`, who writes no box twice: that is
`NoBoxTwice` of Horus.

The inductive invariant is `IInv`: the boxes given so far are shared out to the
buckets and the stash, and lie there with the values given. *Shared out*
(`SharedOut` of `BucketTreeProofs`) says of any set of blocks that each is in
the rest or in one bucket, on the path to its leaf, and that no bucket holds more
than `Z`. `OnePlace` alone is not inductive: it does not say that a bucket holds
nothing but boxes that were given, with their values, without which a fetch could
bring an old copy into the stash. Two lemmas carry the proof:

- `WriteBackFact`: `WriteBack` shares out the blocks it is given, to the buckets
  it is given and to no others. `SharedAgain` puts the result back among the
  buckets that were not touched.
- `PackedFact`: after `setupInsert`'s loop all blocks are shared out. The
  invariant of the loop (`Packing`) is that the blocks before the `i`-th are,
  and that the current leaf is the lowest of those that follow, so that
  `SameLeaf` counts a run of neighbours; that each pass places a block
  (`PassFact`) shows that the loop is through after as many passes as blocks.

Both are recursive functions, and the induction theorems of the library take an
operator as parameter, which the provers cannot instantiate. What is needed is
therefore derived from the well-foundedness of the order of the
numbers, in `NumberLemmas`: `Minimum`, from it induction over a set (`Induction`, `InductionUp`,
`InductionDown`), and that a recursion over an interval has a solution
(`RecursionUp`, `RecursionDown`), with the sets and steps given as functions.
Powers of two, which number the buckets, are counted as subsets (`FS_SUBSET`);
`NodeOnPath` and `PathOne` then say that a path has one bucket at each depth.

### Only model-checked

`SearchEnds` of Horus, because liveness under fairness and `ENABLED` are outside
the prover's reach; `SearchTakesLogRounds` is what can be proved of it. Induction
over data is possible only by hand, as for `BucketTree`, for the covering set and
for the blocks above.

The properties of the oblivious map: `OnePlace`, `PositionsAgree`, `SearchTree`,
`NothingLost`, `FullOnlyAtCapacity` and `RefinesMap`. They do not hold for all
constants, and hang together. `PositionsAgree` fails as soon as a tree is higher
than `finilize` counts (finding 4). The next look-up then misses a block that is
still in a bucket, and what is inserted in its place is a second copy, so that
`OnePlace` fails, and is counted a second time, so that `FullOnlyAtCapacity` does.
A theorem needs the hypothesis that all trees are low enough. To derive that from
the number of keys takes the height bound of AVL trees and balance through
rotations on a session's blocks; to use it takes that the text of the counters is
read back as the numbers written, which is recursion over digits. `omap_map`
checks all of them for all four copies; the parts they share with the ORAM of
Horus, write-back and packing, are proved in `BucketTreeProofs`.

## 5. Not modelled, and why

- Bytes: AES, `Bid` comparison, serialisation of nodes and buckets except for the
  field of the counters, the array behind the store. Keys, addresses and blocks
  are values.
- `Bid` appears as the order of its values; that its comparison is an order on
  byte strings is not shown.
- The code that nothing calls: `DeAmortizedBASClient::setup` and `getAllData`, `PRFORAM::ReadBox`, the
  `localStorage` branches, the RocksDB wrapper behind a flag that is always off.
- Timers, communication counters, logging, the dummy marks of QOS.
- Calls outside the schemes' protocol: a second setup phase, removal of what is
  not there, more updates than the parameter N.

## 6. Plan

The order was: the scheme with the simplest state first (Mitra), with its
abstract specification and proofs; then the two static schemes, QOS and Horus;
then the storage under them, from Horus' ORAM to the oblivious map.

The oblivious map came first for Mitra and then for all four copies, with the
text of the counters, dead blocks and the full store.

Proofs of all properties of the schemes and of Horus' ORAM followed, each in a
module that extends the component's.

What is left:

1. The oblivious map, under the hypothesis that no tree is higher than `finilize`
   counts: first that a session fetches a path before it writes it, which with
   `BucketTreeProofs` gives `OnePlace`; then `SearchTree` through rotations; then
   `PositionsAgree` and with it `NothingLost` and `RefinesMap`.
2. `Bid`'s comparison as an operator on byte strings, against the numerical order.
3. The collision of keywords that `StemAssumption` excludes, as a run.
