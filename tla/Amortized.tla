----------------------------- MODULE Amortized -----------------------------
(***************************************************************************)
(* The amortized scheme SDa (src/src/static/Amortized.cpp and its parts    *)
(* AmortizedBASClient, AmortizedBASServer): the updates lie in levels of   *)
(* 1, 2, 4, ... entries, filled like the bits of a binary counter.  Levels *)
(* below LocalSize are maps of the client, the others are encrypted        *)
(* dictionaries of the server, one fresh key per filling.                  *)
(*                                                                         *)
(* A stored value is modelled by the number of the update that made it;    *)
(* calls remembers what that update was, and StoredCall says what a merge  *)
(* reads back from the value.  A dictionary address is the triple of its   *)
(* PRF inputs: key, keyword, position.                                     *)
(*                                                                         *)
(* Bounds of the model: MaxUpdates caps the updates; it stays below the    *)
(* capacity of the levels, whose arrays the code does not check.           *)
(***************************************************************************)
EXTENDS Integers, FiniteSets, Sequences, SequencesExt, StoredCall

CONSTANTS KeyVal,      \* contents a 16-byte key can have
          NoKey,       \* the NULL of keys[i]
          LocalSize,   \* number of levels the client keeps (10 in the code)
          Levels,      \* ceil(log2(N)): number of entries of keys and exist
          UpdateAfterSearch,  \* TRUE if the caller also updates after a search
          MaxUpdates          \* bound on the number of updates

ASSUME AmortizedAssumption ==
    /\ NoKey \notin KeyVal
    /\ LocalSize \in Nat \ {0}
    /\ Levels \in Nat
    /\ UpdateAfterSearch \in BOOLEAN
    /\ MaxUpdates \in Nat
    /\ MaxUpdates < 2 ^ LocalSize \/ MaxUpdates < 2 ^ Levels

VARIABLES updateCounter,  \* number of updates so far
          calls,          \* calls[u]: the u-th update (history)
          data,           \* data[i]: client level, keyword -> vector
          server,         \* server[i]: server level, address -> value
          keys,           \* keys[i]: key of server level i, or NoKey
          exist,          \* exist[i]: server level i is filled
          searched,       \* keywords searched so far (history)
          finalRes        \* the identifiers the last search returned

vars == <<updateCounter, calls, data, server, keys, exist, searched, finalRes>>

Local  == 0 .. LocalSize - 1
Remote == LocalSize .. Levels - 1

Level == Local \cup Remote

NoData == [w \in {} |-> <<>>]

NoCiphers == [a \in {} |-> 0]

\* (n \div 2^i) % 2
Bit(n, i) == (n \div 2 ^ i) % 2

\* log2(~n & (n + 1)): the position of the rightmost 0 of n.
RightmostZero(n) ==
    CHOOSE k \in 0 .. n : Bit(n, k) = 0 /\ \A j \in 0 .. k - 1 : Bit(n, j) = 1

Vector(m, w) == IF w \in DOMAIN m THEN m[w] ELSE <<>>

(***************************************************************************)
(* AmortizedBASClient: setup stores the i-th value of a keyword under      *)
(* position i - 1; getAllData hands out all values, in an order no         *)
(* property depends on (by keyword, then position).                        *)
(***************************************************************************)
\* Mutant: positions are counted from 1.
setupFromOne(i, pairs, key) ==
    LET new == UNION {{<<key, w, p>> : p \in 1 .. Len(pairs[w])} :
                         w \in DOMAIN pairs}
    IN  [a \in DOMAIN server[i] \cup new |->
            IF a \in DOMAIN server[i] THEN server[i][a] ELSE pairs[a[2]][a[3]]]

setup(i, pairs, key) ==
    LET new == UNION {{<<key, w, p>> : p \in 0 .. Len(pairs[w]) - 1} :
                         w \in DOMAIN pairs}
    IN  [a \in DOMAIN server[i] \cup new |->
            IF a \in DOMAIN server[i] THEN server[i][a] ELSE pairs[a[2]][a[3] + 1]]

getAllData(i) == {<<i, a>> : a \in DOMAIN server[i]}

\* AmortizedBASServer::search: positions 0, 1, ... until one is missing.
search(i, w, key) ==
    LET run == {p \in 0 .. MaxUpdates :
                   \A q \in 0 .. p : <<key, w, q>> \in DOMAIN server[i]}
    IN  [k \in 1 .. Cardinality(run) |-> server[i][<<key, w, k - 1>>]]

(***************************************************************************)
(* Amortized::update.  The levels below rm0 are emptied into previousData, *)
(* the new value is appended, and level rm0 takes it all.  On a client     *)
(* level that is unordered_map::insert: a keyword the level already knows  *)
(* keeps the vector it has.                                                *)
(*                                                                         *)
(* A copy is a place that holds a value: an index into the vector of a     *)
(* keyword, or an address.  The loops take the copies in the order of      *)
(* unordered maps, which no property depends on: any fixed order stands    *)
(* for it.                                                                 *)
(***************************************************************************)
Copies(i) ==
    IF i \in Local
    THEN UNION {{<<i, w, p>> : p \in DOMAIN data[i][w]} : w \in DOMAIN data[i]}
    ELSE getAllData(i)

Value(c) == IF c[1] \in Local THEN data[c[1]][c[2]][c[3]] ELSE server[c[1]][c[2]]

\* The keyword of a vector; for a server level the one read from the value.
FiledUnder(c) == IF c[1] \in Local THEN c[2] ELSE curKeyword(calls[Value(c)])

Merged(rm0) == UNION {Copies(i) : i \in {i \in Level : i < rm0}}

Collected(rm0, w) ==
    LET order == SetToSeq({c \in Merged(rm0) : FiledUnder(c) = w})
    IN  [k \in DOMAIN order |-> Value(order[k])]

previousData(rm0, kw) ==
    LET known == (UNION {DOMAIN data[i] : i \in {i \in Local : i < rm0}})
                   \cup {FiledUnder(c) : c \in Merged(rm0)} \cup {kw}
    IN  [w \in known |-> IF w = kw THEN Append(Collected(rm0, w), updateCounter + 1)
                                   ELSE Collected(rm0, w)]

insert(m, pairs) ==
    [w \in DOMAIN m \cup DOMAIN pairs |->
        IF w \in DOMAIN m THEN m[w] ELSE pairs[w]]

Init ==
    /\ updateCounter = 0
    /\ calls = <<>>
    /\ data = [i \in Local |-> NoData]
    /\ server = [i \in Remote |-> NoCiphers]
    /\ keys = [i \in Remote |-> NoKey]
    /\ exist = [i \in Remote |-> FALSE]
    /\ searched = {}
    /\ finalRes = {}

\* Mutant: the levels that were merged are not cleared.
ShiftedUncleared(m, rm0, empty, full) ==
    [i \in DOMAIN m |-> IF i = rm0 THEN full ELSE m[i]]

\* One value per level: the levels below rm0 become empty, rm0 full.
Shifted(m, rm0, empty, full) ==
    [i \in DOMAIN m |-> IF i < rm0 THEN empty ELSE IF i = rm0 THEN full ELSE m[i]]

Merge(rm0, pairs, newKey) ==
    /\ data' = Shifted(data, rm0, NoData, insert(data[rm0], pairs))
    /\ server' = Shifted(server, rm0, NoCiphers, setup(rm0, pairs, newKey))
    /\ keys' = Shifted(keys, rm0, NoKey, newKey)
    /\ exist' = Shifted(exist, rm0, FALSE, TRUE)

\* Mutant: updateCounter is not incremented.
UpdateUncounted(c, newKey) ==
    LET rm0 == RightmostZero(updateCounter)
    IN  /\ updateCounter < MaxUpdates
        /\ UpdateAfterSearch \/ searched = {}
        /\ calls' = Append(calls, c)
        /\ Merge(rm0, previousData(rm0, c.kw), newKey)
        /\ UNCHANGED <<updateCounter, searched, finalRes>>

\* c is the call with its arguments op, keyword and ind.
Update(c, newKey) ==
    LET rm0 == RightmostZero(updateCounter)
    IN  /\ updateCounter < MaxUpdates
        /\ UpdateAfterSearch \/ searched = {}
        /\ updateCounter' = updateCounter + 1
        /\ calls' = Append(calls, c)
        /\ Merge(rm0, previousData(rm0, c.kw), newKey)
        /\ UNCHANGED <<searched, finalRes>>

(***************************************************************************)
(* Amortized::search.  Reading data[i][keyword] creates an empty vector    *)
(* for the keyword in every client level that has none.                    *)
(***************************************************************************)
\* The values the search collects, each with the level and the place it
\* comes from: their order does not matter to it.
encIndexes(w) ==
    LET part(i) == IF i \in Local THEN Vector(data[i], w) ELSE search(i, w, keys[i])
        levels == Local \cup {i \in Remote : exist[i]}
    IN  UNION {{<<i, p, part(i)[p]>> : p \in DOMAIN part(i)} : i \in levels}

\* The insertions minus the deletions of x (the code's remove[x], negated).
Tally(found, x, op) ==
    Cardinality({e \in found : calls[e[3]].ind = x /\ calls[e[3]].op = op})

Net(found, x) == Tally(found, x, "INS") - Tally(found, x, "DEL")

touched(m, w) == [v \in DOMAIN m \cup {w} |-> Vector(m, v)]

Search(w) ==
    /\ finalRes' = {x \in Ind : Net(encIndexes(w), x) > 0}
    /\ data' = [i \in Local |-> touched(data[i], w)]
    /\ searched' = searched \cup {w}
    /\ UNCHANGED <<updateCounter, calls, server, keys, exist>>

Next ==
    \/ \E c \in Calls, newKey \in KeyVal : Update(c, newKey)
    \/ \E w \in Keyword : Search(w)

Spec == Init /\ [][Next]_vars

-----------------------------------------------------------------------------
\* The updates that level i holds.
Content(i) == {Value(c) : c \in Copies(i)}

\* The updates a binary counter of value updateCounter assigns to level i.
Block(i) ==
    LET below == (updateCounter \div 2 ^ (i + 1)) * 2 ^ (i + 1)
    IN  IF Bit(updateCounter, i) = 1 THEN below + 1 .. below + 2 ^ i ELSE {}

TypeOK ==
    /\ updateCounter \in 0 .. MaxUpdates
    /\ calls \in Seq(Calls)
    /\ Len(calls) = updateCounter
    /\ \A i \in Level : Content(i) \subseteq 1 .. updateCounter
    /\ \A i \in Remote : keys[i] \in KeyVal \cup {NoKey} /\ exist[i] \in BOOLEAN
    /\ searched \subseteq Keyword
    /\ finalRes \subseteq Ind

(***************************************************************************)
(* Amortized::update moves updates only between levels, never duplicates   *)
(* one: every copy of an update lies in the level that the binary counter  *)
(* assigns to it, and there is at most one.  A second copy would count     *)
(* twice in Amortized::search.                                             *)
(***************************************************************************)
InItsBlock ==
    \A i \in Level : Content(i) \subseteq Block(i) /\ Cardinality(Copies(i)) = Cardinality(Content(i))

(***************************************************************************)
(* The three records of a server level (keys of Amortized, exist of        *)
(* AmortizedBASClient, the server's dictionary) agree: the level is filled *)
(* exactly when its bit of updateCounter is set, and everything the server *)
(* stores is found by a search under the key the client holds, although    *)
(* AmortizedBASServer::search stops at the first missing position.         *)
(***************************************************************************)
ServerReadable ==
    \A i \in Remote :
        /\ exist[i] <=> Bit(updateCounter, i) = 1
        /\ exist[i] <=> keys[i] # NoKey
        /\ exist[i] <=> DOMAIN server[i] # {}
        /\ exist[i] =>
              Content(i) = UNION {Range(search(i, w, keys[i])) : w \in Keyword}

\* Every update of keyword w is found by a search of w, once.
Complete(w) ==
    LET found == {e[3] : e \in encIndexes(w)}
    IN  /\ found = {u \in 1 .. updateCounter : calls[u].kw = w}
        /\ Cardinality(found) = Cardinality(encIndexes(w))

(***************************************************************************)
(* Whatever the order of updates and searches, a search finds every update *)
(* of its keyword once.  This is what a caller of Amortized::update and    *)
(* Amortized::search relies on (test_static_amortized.cpp).                *)
(***************************************************************************)
AlwaysComplete == \A w \in Keyword : Complete(w)

\* What a search of w would count for x, now.
Balance ==
    [w \in Keyword |->
        LET found == encIndexes(w) IN [x \in Ind |-> Net(found, x)]]

Index == INSTANCE SSEIndex WITH
            Cleaning <- FALSE,
            balance <- Balance,
            staged <- [w \in Keyword |-> [x \in Ind |-> 0]],
            answer <- finalRes

(***************************************************************************)
(* A caller that does all its updates before its first search gets the     *)
(* abstract index: whatever levels an Amortized::update merges, the net    *)
(* count that a search would find changes by one, for one identifier of    *)
(* one keyword.  It also takes that a merge of a server level reads each   *)
(* entry's keyword back from its value (curKeyword).                       *)
(***************************************************************************)
RefinesIndex == Index!ASpec
=============================================================================
