---------------------------- MODULE DeAmortized ----------------------------
(***************************************************************************)
(* The de-amortized scheme SDd (src/src/static/DeAmortized.cpp with its    *)
(* parts DeAmortizedBASClient, DeAmortizedBASServer and the oblivious maps *)
(* of static/OMAP.cpp).  Level i keeps up to three full sets of 2^i        *)
(* updates (instances OLDEST, OLDER, OLD) and one under construction       *)
(* (NEW).  Once OLDEST and OLDER of level i - 1 are full, every update     *)
(* copies one of their elements into NEW of level i; when NEW is full the  *)
(* two sources are dropped, OLD becomes OLDEST and NEW becomes the first   *)
(* free instance of its level.                                             *)
(*                                                                         *)
(* store[i][j] is data[j][i] for i < LocalSize and the server's set        *)
(* data[j][i] above.  An address is a triple: key (Local where the code *)
(* uses none), keyword and counter.  A stored value is modelled by the     *)
(* number of the update that made it; calls remembers what it was, and     *)
(* StoredCall says what a merge reads back from the value.                 *)
(*                                                                         *)
(* Bounds of the model: MaxUpdates caps the updates, Workload lists the    *)
(* calls the caller may choose from at each update.                        *)
(***************************************************************************)
EXTENDS Integers, FiniteSets, Sequences, StoredCall

CONSTANTS FirstKey,     \* contents an uninitialised key can have
          Local,        \* the key component of a client-side address
          LocalSize,    \* number of levels the client keeps (10 in the code)
          Levels,       \* l = ceil(log2(N))
          Workload,     \* Workload[u]: the calls the u-th update may be
          MaxUpdates    \* bound on the number of updates

ASSUME DeAmortizedAssumption ==
    /\ FirstKey # {}
    /\ (Nat \cup {Local}) \cap FirstKey = {} /\ Local \notin Nat
    /\ LocalSize \in Nat \ {0}
    /\ Levels \in Nat /\ Levels > LocalSize
    /\ MaxUpdates \in Nat
    /\ \A u \in 1 .. MaxUpdates : Workload[u] \subseteq Calls
    /\ MaxUpdates < 3 * 2 ^ Levels - 2   \* then the top level has no room

VARIABLES updateCounter,      \* number of updates so far
          calls,              \* calls[u]: the u-th update (history)
          store,              \* store[i][j]: instance j of level i, address -> value
          exist,              \* exist[i][j], for the server's levels
          keys,               \* keys[i][j], for the server's levels
          cnt,                \* cnt[i]: elements moved into NEW of level i
          localmap,           \* localmap[i]: <<keyword, upCnt>> -> counter
          omaps,              \* the same, in the oblivious map of level i
          dummyValue,         \* entries of omaps[i] up to it are dead
          setupOMAPS,         \* the same, for the setup phase
          setupOMAPSDummies,
          phase,              \* "setup" until endSetup, or no setup at all
          finalRes            \* the identifiers the last search returned

vars == <<updateCounter, calls, store, exist, keys, cnt, localmap, omaps,
          dummyValue, setupOMAPS, setupOMAPSDummies, phase, finalRes>>

OLDEST == 0
OLDER  == 1
OLD    == 2
NEW_   == 3

Level  == 0 .. Levels - 1
Client == 0 .. LocalSize - 1
Remote == LocalSize .. Levels - 1

Empty == [a \in {} |-> 0]

Put(m, k, v) == [j \in DOMAIN m \cup {k} |-> IF j = k THEN v ELSE m[j]]

Size(s) == Cardinality(DOMAIN s)

KeyOf(i, j) == IF i \in Client THEN Local ELSE keys[i][j]

Filled(i, j) == IF i \in Client THEN Size(store[i][j]) > 0 ELSE exist[i][j]

(***************************************************************************)
(* getElementAt and L->get: the element at position pos of a hash map.     *)
(* Its order is arbitrary but does not change while the set is merged;     *)
(* here it is the order of keywords and counters.                          *)
(***************************************************************************)
ElementAt(s, pos) ==
    LET before(a, b) == a[2] < b[2] \/ (a[2] = b[2] /\ a[3] < b[3])
    IN  s[CHOOSE a \in DOMAIN s :
              Cardinality({b \in DOMAIN s : before(b, a)}) = pos]

(***************************************************************************)
(* The pass of DeAmortized::update over the levels i = l - 1, ..., 1, for  *)
(* the u-th update.  Step i reads level i - 1 as the previous update left  *)
(* it, and level i after step i + 1 has released its sources; so the new   *)
(* state of a level is determined by the old one and by the set done of    *)
(* the steps that complete their merge.                                    *)
(***************************************************************************)
\* Mutant: the merge does not wait for OLDER.
MergingEarly(i) == i > 0 /\ Filled(i - 1, OLDEST)

Merging(i) == i > 0 /\ Filled(i - 1, OLDEST) /\ Filled(i - 1, OLDER)

\* The element that step i copies.
Moved(i) ==
    IF cnt[i] < 2 ^ (i - 1)
    THEN ElementAt(store[i - 1][OLDEST], cnt[i])
    ELSE ElementAt(store[i - 1][OLDER], cnt[i] % 2 ^ (i - 1))

\* ceil(a / b)
CeilDiv(a, b) == - ((- a) \div b)

\* Mutant: the merge is taken to start one update later.
upCntLate(i, u) == CeilDiv(u - (6 * 2 ^ (i - 1) - 1), 2 ^ i) + 1

\* The number of the merge into level i that the u-th update takes part in.
upCnt(i, u) == CeilDiv(u - (6 * 2 ^ (i - 1) - 2), 2 ^ i) + 1

\* The counter map that step i uses.
CounterMap(i) ==
    IF i \in Client THEN localmap[i]
    ELSE IF phase = "setup" THEN setupOMAPS[i]
    ELSE omaps[i]

\* Mutant: the records of the last merge still count as alive.
DeadBelow(t, d) == \A k \in DOMAIN t : k[2] < d

\* OMAP::incrementCnt: a tree whose root is dead (its upCnt is dummyValue or
\* less) counts as empty, and the next insertion replaces it.
Dead(t, d) == \A k \in DOMAIN t : k[2] <= d

Base(i) ==
    IF i \in Remote /\ phase = "live" /\ Dead(omaps[i], dummyValue[i])
    THEN Empty ELSE CounterMap(i)
\* Mutant: the first record is 0.
CountedFromZero(i, k) ==
    Put(Base(i), k, IF k \in DOMAIN Base(i) THEN Base(i)[k] + 1 ELSE 0)

Counted(i, k) == Put(Base(i), k, IF k \in DOMAIN Base(i) THEN Base(i)[k] + 1 ELSE 1)

\* The counter record of the element that step i copies at update u.
Slot(i, u) == <<curKeyword(calls[Moved(i)]), upCnt(i, u)>>

\* NEW of level i after step i.
Extended(i, u) ==
    LET k == Slot(i, u)
    IN  Put(store[i][NEW_], <<KeyOf(i, NEW_), k[1], Counted(i, k)[k]>>, Moved(i))
\* Mutant: NEW is taken for full one element too early.
DoneEarly(u) == {i \in Level : Merging(i) /\ Size(Extended(i, u)) = 2 ^ i - 1}

Done(u) == {i \in Level : Merging(i) /\ Size(Extended(i, u)) = 2 ^ i}

\* Mutant: OLDER is not cleared.
ReleasedStoreKeepsOlder(i, done) ==
    IF i + 1 \in done
    THEN [store[i] EXCEPT ![OLDEST] = store[i][OLD], ![OLD] = Empty]
    ELSE store[i]

\* The sets and flags of level i once step i + 1 has released its sources.
ReleasedStore(i, done) ==
    IF i + 1 \in done
    THEN [store[i] EXCEPT ![OLDEST] = store[i][OLD], ![OLDER] = Empty, ![OLD] = Empty]
    ELSE store[i]

ReleasedExist(i, done) ==
    IF i + 1 \in done
    THEN [exist[i] EXCEPT ![OLDEST] = Size(store[i][OLD]) > 0,
                          ![OLDER] = FALSE, ![OLD] = FALSE]
    ELSE exist[i]

\* The first instance of level i that is free then; NEW itself if none is.
Target(i, done) ==
    LET full(j) == IF i \in Client THEN Size(ReleasedStore(i, done)[j]) > 0
                                   ELSE ReleasedExist(i, done)[j]
    IN  CHOOSE j \in 0 .. NEW_ : /\ j = NEW_ \/ ~full(j)
                                /\ \A k \in 0 .. j - 1 : full(k)

\* Level i > 0 after the pass.
StoreAfter(i, u, done) ==
    IF i \in done
    THEN [[ReleasedStore(i, done) EXCEPT ![NEW_] = Empty]
              EXCEPT ![Target(i, done)] = Extended(i, u)]
    ELSE IF Merging(i) THEN [ReleasedStore(i, done) EXCEPT ![NEW_] = Extended(i, u)]
    ELSE ReleasedStore(i, done)

ExistAfter(i, done) ==
    IF i \in done /\ Target(i, done) # NEW_
    THEN [ReleasedExist(i, done) EXCEPT ![Target(i, done)] = TRUE]
    ELSE ReleasedExist(i, done)

\* Mutant: a key stays behind when its set leaves NEW.
KeysAfterNoCopy(i, u, done) ==
    LET released == IF i + 1 \in done THEN [keys[i] EXCEPT ![OLDEST] = keys[i][OLD]]
                                      ELSE keys[i]
    IN  IF i \in done THEN [released EXCEPT ![NEW_] = u] ELSE released

KeysAfter(i, u, done) ==
    LET released == IF i + 1 \in done THEN [keys[i] EXCEPT ![OLDEST] = keys[i][OLD]]
                                      ELSE keys[i]
    IN  IF i \in done
        THEN [released EXCEPT ![Target(i, done)] = keys[i][NEW_], ![NEW_] = u]
        ELSE released

\* The value goes to the first free instance of level 0, else joins OLD.
Level0After(u, kw, done) ==
    LET rel == ReleasedStore(0, done)
        j == IF Target(0, done) = NEW_ THEN OLD ELSE Target(0, done)
        a == <<Local, kw, 1>>
    IN  IF a \in DOMAIN rel[j] THEN rel ELSE [rel EXCEPT ![j] = Put(rel[j], a, u)]

\* localmap[i] after step i; its last record is erased with the merge.
LocalmapAfter(i, u, done) ==
    IF ~Merging(i) THEN localmap[i]
    ELSE IF i \in done
    THEN [k \in DOMAIN localmap[i] \ {Slot(i, u)} |-> localmap[i][k]]
    ELSE Counted(i, Slot(i, u))

-----------------------------------------------------------------------------
Init ==
    /\ updateCounter = 0
    /\ calls = <<>>
    /\ store = [i \in Level |-> [j \in 0 .. NEW_ |-> Empty]]
    /\ exist = [i \in Remote |-> [j \in 0 .. NEW_ |-> FALSE]]
    /\ keys \in [Remote -> [0 .. NEW_ -> FirstKey]]
    /\ cnt = [i \in Level |-> 0]
    /\ localmap = [i \in Client |-> Empty]
    /\ omaps = [i \in Remote |-> Empty]
    /\ dummyValue = [i \in Remote |-> 0]
    /\ setupOMAPS = [i \in Remote |-> Empty]
    /\ setupOMAPSDummies = [i \in Remote |-> 0]
    /\ phase = "setup"
    /\ finalRes = {}

(***************************************************************************)
(* DeAmortized::update.  The caller's protocol: updates with setup come    *)
(* first, and once there is one endSetup precedes the others.              *)
(***************************************************************************)
Update(c) ==
    LET u == updateCounter + 1
        done == Done(u)
    IN  /\ updateCounter' = u
        /\ calls' = Append(calls, c)
        /\ store' = [i \in Level |-> IF i = 0 THEN Level0After(u, c.kw, done)
                                              ELSE StoreAfter(i, u, done)]
        /\ exist' = [i \in Remote |-> ExistAfter(i, done)]
        /\ keys' = [i \in Remote |-> KeysAfter(i, u, done)]
        /\ cnt' = [i \in Level |-> IF i \in done THEN 0
                                   ELSE IF Merging(i) THEN cnt[i] + 1
                                   ELSE cnt[i]]
        /\ localmap' = [i \in Client |-> LocalmapAfter(i, u, done)]
        /\ finalRes' = finalRes

\* What a step does to the counters of the server's levels: maps m and the
\* numbers d of the last completed merges.
CounterMapsAfter(m, u) ==
    [i \in Remote |-> IF Merging(i) THEN Counted(i, Slot(i, u)) ELSE m[i]]

DummiesAfter(d, u) ==
    [i \in Remote |-> IF i \in Done(u) THEN upCnt(i, u) ELSE d[i]]

SetupUpdate(c) ==
    /\ phase = "setup"
    /\ Update(c)
    /\ setupOMAPS' = CounterMapsAfter(setupOMAPS, updateCounter + 1)
    /\ setupOMAPSDummies' = DummiesAfter(setupOMAPSDummies, updateCounter + 1)
    /\ UNCHANGED <<omaps, dummyValue, phase>>

LiveUpdate(c) ==
    /\ phase = "live"
    /\ Update(c)
    /\ omaps' = CounterMapsAfter(omaps, updateCounter + 1)
    /\ dummyValue' = DummiesAfter(dummyValue, updateCounter + 1)
    /\ UNCHANGED <<setupOMAPS, setupOMAPSDummies, phase>>

(***************************************************************************)
(* DeAmortized::endSetup: the records of unfinished merges move into the   *)
(* oblivious maps (AVLTree::setupInsert skips the dead ones).  A caller    *)
(* without a setup phase starts out live with all of them empty.           *)
(***************************************************************************)
EndSetup ==
    /\ phase = "setup"
    /\ dummyValue' = setupOMAPSDummies
    /\ omaps' = [i \in Remote |->
                    [k \in {r \in DOMAIN setupOMAPS[i] : r[2] > setupOMAPSDummies[i]} |->
                        setupOMAPS[i][k]]]
    /\ phase' = "live"
    /\ UNCHANGED <<updateCounter, calls, store, exist, keys, cnt, localmap,
                   setupOMAPS, setupOMAPSDummies, finalRes>>

(***************************************************************************)
(* DeAmortized::search: in each of the three full instances of a level the *)
(* counters 1, 2, ... until one is missing.  Each value is returned with   *)
(* the place it comes from: their order does not matter to the search.     *)
(***************************************************************************)
Visible(i, j, w) ==
    {p \in 1 .. Size(store[i][j]) :
        \A q \in 1 .. p : <<KeyOf(i, j), w, q>> \in DOMAIN store[i][j]}
\* The values of instance j of level i.
Indexes(i, j, w) ==
    {<<i, j, p, store[i][j][<<KeyOf(i, j), w, p>>]>> : p \in Visible(i, j, w)}

encIndexes(w) ==
    UNION {Indexes(e[1], e[2], w) :
              e \in {e \in Level \X {OLDEST, OLDER, OLD} : Filled(e[1], e[2])}}

\* The insertions minus the deletions of x (the code's remove[x], negated).
Tally(found, x, op) ==
    Cardinality({e \in found : calls[e[4]].ind = x /\ calls[e[4]].op = op})

Net(found, x) == Tally(found, x, "INS") - Tally(found, x, "DEL")

Search(w) ==
    /\ finalRes' = {x \in Ind : Net(encIndexes(w), x) > 0}
    /\ UNCHANGED <<updateCounter, calls, store, exist, keys, cnt, localmap, omaps,
                   dummyValue, setupOMAPS, setupOMAPSDummies, phase>>

\* The calls the caller may make next.
Choices ==
    IF updateCounter < MaxUpdates THEN Workload[updateCounter + 1] ELSE {}

Next ==
    \/ \E c \in Choices : SetupUpdate(c) \/ LiveUpdate(c)
    \/ \E w \in Keyword : Search(w)
    \/ EndSetup

Spec == Init /\ [][Next]_vars
-----------------------------------------------------------------------------
Full == {OLDEST, OLDER, OLD}

TypeOK ==
    /\ updateCounter \in 0 .. MaxUpdates
    /\ calls \in Seq(Calls) /\ Len(calls) = updateCounter
    /\ \A i \in Level, j \in 0 .. NEW_ :
          \A a \in DOMAIN store[i][j] :
              a[2] \in Keyword /\ a[3] \in 1 .. 2 ^ i
                /\ store[i][j][a] \in 1 .. updateCounter
    /\ exist \in [Remote -> [0 .. NEW_ -> BOOLEAN]]
    /\ keys \in [Remote -> [0 .. NEW_ -> FirstKey \cup 1 .. MaxUpdates]]
    /\ cnt \in [Level -> Nat]
    /\ dummyValue \in [Remote -> Nat] /\ setupOMAPSDummies \in [Remote -> Nat]
    /\ phase \in {"setup", "live"}
    /\ finalRes \subseteq Ind

(***************************************************************************)
(* The merges run to the timetable that upCnt is computed from: the merge  *)
(* into level i starts with update 2^(i+1) - 1, every later update moves   *)
(* one element, and it ends every 2^i updates.  If an update ever skipped  *)
(* or repeated a move, the counter records of two merges would mix.        *)
(***************************************************************************)
OnSchedule ==
    \A i \in Level \ {0} :
        cnt[i] = IF updateCounter < 2 ^ (i + 1) - 1 THEN 0
                 ELSE (updateCounter - (2 ^ (i + 1) - 2)) % 2 ^ i

(***************************************************************************)
(* DeAmortized::update always finds an instance for a finished merge, and  *)
(* getElementAt and L->get never run past the end of their map: a set that *)
(* a search or a merge reads holds 2^i elements, the instances of a level  *)
(* fill up in order, and NEW holds as many elements as were moved, fewer   *)
(* than 2^i between two updates.                                           *)
(***************************************************************************)
SetsWhole ==
    \A i \in Level :
        /\ \A j \in Full : Size(store[i][j]) \in {0, 2 ^ i}
        /\ \A j \in {OLDEST, OLDER} : ~Filled(i, j) => ~Filled(i, j + 1)
        /\ Size(store[i][NEW_]) = cnt[i] /\ cnt[i] < 2 ^ i

(***************************************************************************)
(* The key the client holds for a set of the server opens every entry of   *)
(* it, and exist tells whether there is one: memcpy moves the keys along   *)
(* with L->copy.                                                           *)
(***************************************************************************)
KeysFollowSets ==
    \A i \in Remote, j \in 0 .. NEW_ :
        /\ \A a \in DOMAIN store[i][j] : a[1] = keys[i][j]
        /\ j \in Full => (exist[i][j] <=> store[i][j] # Empty)

\* The entries for keyword w in set s.
Filed(s, w) == {a \in DOMAIN s : a[2] = w}

(***************************************************************************)
(* The counter that the next move of a keyword will get is the number of   *)
(* its entries in NEW: neither records that an earlier merge left behind   *)
(* (localmap.erase drops only the last keyword's, the oblivious maps drop  *)
(* none) nor the switch from setupOMAPS to omaps in the middle of a merge  *)
(* disturb it.  A record too low would overwrite an entry of NEW, one too  *)
(* high would hide entries from the search.                                *)
(***************************************************************************)
CountersExact ==
    \A i \in Level \ {0}, w \in Keyword :
        LET k == <<w, upCnt(i, updateCounter + 1)>>
        IN  (IF k \in DOMAIN Base(i) THEN Base(i)[k] ELSE 0) =
                Cardinality(Filed(store[i][NEW_], w))

(***************************************************************************)
(* The records of an oblivious map belong to one merge.  AVLTree decides   *)
(* by the root alone whether a tree is dead, which is right only if all of *)
(* it is.                                                                  *)
(***************************************************************************)
OneMergePerTree ==
    \A i \in Remote : \A k, r \in DOMAIN omaps[i] : k[2] = r[2]

(***************************************************************************)
(* At every moment of every merge a search finds each update of its        *)
(* keyword exactly once: not twice while it is also in NEW or after it has *)
(* moved up, and never not at all.                                         *)
(***************************************************************************)
FoundOnce ==
    \A w \in Keyword :
        LET found == {e[4] : e \in encIndexes(w)}
        IN  /\ found = {u \in 1 .. updateCounter : calls[u].kw = w}
            /\ Cardinality(encIndexes(w)) = Cardinality(found)

\* What a search of w would count for x, now.
Balance ==
    [w \in Keyword |->
        LET found == encIndexes(w) IN [x \in Ind |-> Net(found, x)]]

Index == INSTANCE SSEIndex WITH
            Cleaning <- FALSE,
            balance <- Balance,
            staged <- [w \in Keyword |-> [x \in Ind |-> 0]],
            answer <- finalRes

(***************************************************************************)
(* The de-amortized scheme implements the abstract index: whatever a       *)
(* DeAmortized::update moves, it changes what a search counts by one for   *)
(* one identifier of one keyword; endSetup and searches change nothing.    *)
(* Every element moved takes its keyword from its own value (curKeyword),  *)
(* where the operation and the identifier were written behind it.          *)
(***************************************************************************)
RefinesIndex == Index!ASpec
=============================================================================
