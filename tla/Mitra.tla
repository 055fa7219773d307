------------------------------- MODULE Mitra -------------------------------
(***************************************************************************)
(* The Mitra scheme (src/src/mitra): a client that keeps one counter       *)
(* record per keyword in an oblivious map, and a server that keeps one     *)
(* encrypted entry per update at a pseudo-random address.                  *)
(*                                                                         *)
(* The address and the mask of an entry are pseudo-random values of the    *)
(* same four inputs, told apart by a tag; they are modelled by those       *)
(* inputs.  XOR with a mask is modelled by remembering the mask: unmasking *)
(* with another one yields an unrelated value (Junk).                      *)
(*                                                                         *)
(* Bounds of the model: MaxEntries caps the server's entries (and with   *)
(* them fileCnt), MaxSrcCnt the generations of a keyword.                  *)
(***************************************************************************)
EXTENDS Integers, FiniteSets, Functions

CONSTANTS Keyword,      \* the keywords the application uses
          Ind,          \* document identifiers (integers)
          Junk,         \* what unmasking with a wrong mask yields
          TestBid,      \* key of the record endSetup inserts 500 times
          TestValue,    \* its value, which is not a counter
          Stem,         \* Stem[w]: the bytes of w that reach the PRF
          DeleteFiles,  \* the cleaning mode of the client
          MaxEntries,   \* bound on the server's entries an update may find
          MaxSrcCnt     \* bound on srcCnt

\* getAESRandomValue overwrites bytes 7..15 (cleaning) or 11..15 of the
\* zero-padded keyword, so keywords must already differ before that.
ASSUME StemAssumption ==
    \A v, w \in Keyword : Stem[v] = Stem[w] => v = w

ASSUME ConstantsAssumption ==
    /\ Ind \subseteq Int
    /\ IsFiniteSet(Ind)
    /\ Junk \in Int \ Ind
    /\ TestBid \notin Keyword
    /\ DeleteFiles \in BOOLEAN
    /\ MaxEntries \in Nat
    /\ MaxSrcCnt \in Nat

VARIABLES omap,       \* the oblivious map: keyword -> "fileCnt-srcCnt"
          setupOMAP,  \* the client's plain map of the setup phase
          DictW,      \* the server's dictionary: address -> masked entry
          phase,      \* the caller's protocol: "setup" until it goes live
          finalRes    \* the identifiers the last search returned

vars == <<omap, setupOMAP, DictW, phase, finalRes>>

OP == {"INS", "DEL"}

Counter == [fileCnt : Nat, srcCnt : Nat]

Entry == [mask : {1} \X {Stem[w] : w \in Keyword} \X Nat \X Nat,
          ind : Ind, op : OP]

\* The map m with key k set to v.
Put(m, k, v) == [j \in DOMAIN m \cup {k} |-> IF j = k THEN v ELSE m[j]]

(***************************************************************************)
(* Client::getAESRandomValue: tag 0 gives addresses, tag 1 masks; srcCnt   *)
(* is an input only in cleaning mode.                                      *)
(***************************************************************************)
getAESRandomValue(w, tag, srcCnt, fileCnt) ==
    <<tag, Stem[w], IF DeleteFiles THEN srcCnt ELSE 0, fileCnt>>

\* Client::bitwiseXOR(ind, op, rnd), and its inverse.
Masked(ind, op, rnd) == [mask |-> rnd, ind |-> ind, op |-> op]

Unmasked(rnd, val) ==
    IF val.mask = rnd THEN [ind |-> val.ind, op |-> val.op]
                      ELSE [ind |-> Junk, op |-> "INS"]

\* The counters of w in the map m, zero when it has no record.
Counters(m, w) ==
    IF w \in DOMAIN m THEN m[w] ELSE [fileCnt |-> 0, srcCnt |-> 0]

(***************************************************************************)
(* What unmasking makes of the entries the server D returns for the        *)
(* addresses 1 .. fileCnt.  Server::search skips an address it does not    *)
(* hold, and the client unmasks the k-th value it gets with mask k: the    *)
(* entry of address i is the Arrival(i)-th value of the answer.            *)
(***************************************************************************)
Hits(D, w, c) ==
    {i \in 1 .. c.fileCnt :
        getAESRandomValue(w, 0, c.srcCnt, i) \in DOMAIN D}

Arrival(D, w, c, i) == Cardinality({j \in Hits(D, w, c) : j <= i})

Plaintext(D, w, c, i) ==
    Unmasked(getAESRandomValue(w, 1, c.srcCnt, Arrival(D, w, c, i)),
             D[getAESRandomValue(w, 0, c.srcCnt, i)])

Tally(D, w, c, x, op) ==
    Cardinality({i \in Hits(D, w, c) : /\ Plaintext(D, w, c, i).ind = x
                                       /\ Plaintext(D, w, c, i).op = op})

\* Mutant: an identifier deleted as often as it was inserted is reported.
LiveAtZero(D, w, c) ==
    {x \in Ind :
        /\ Tally(D, w, c, x, "INS") > 0
        /\ Tally(D, w, c, x, "INS") >= Tally(D, w, c, x, "DEL")}

\* The identifiers with remove[x] < 0: more insertions than deletions.
Live(D, w, c) ==
    {x \in Ind \cup {Junk} : Tally(D, w, c, x, "INS") > Tally(D, w, c, x, "DEL")}

\* The order in which map<int, int> hands out its keys.
Ascending(S) ==
    {f \in Bijection(1 .. Cardinality(S), S) :
        \A i, j \in 1 .. Cardinality(S) : i < j => f[i] < f[j]}

\* The server's dictionary D after the identifiers f[1], f[2], ... have been
\* written back as insertions under srcCnt.
Rewritten(D, w, srcCnt, f) ==
    LET new == {getAESRandomValue(w, 0, srcCnt, i) : i \in DOMAIN f}
    IN  [a \in DOMAIN D \cup new |->
            IF a \in new
            THEN Masked(f[a[4]], "INS", getAESRandomValue(w, 1, srcCnt, a[4]))
            ELSE D[a]]

Init ==
    /\ omap = [k \in {} |-> TestValue]
    /\ setupOMAP = [k \in {} |-> TestValue]
    /\ DictW = [a \in {} |-> TestValue]
    /\ phase = "setup"
    /\ finalRes = {}

(***************************************************************************)
(* Client::update.  With setup the counters live in setupOMAP, without it  *)
(* OMAP::incrementFileCnt reads and increments them in the oblivious map   *)
(* (the record "1-0" is created on first use).  Either way the entry goes  *)
(* to the server at once.                                                  *)
(*                                                                         *)
(* The caller's protocol: setup updates come first, and once there is one  *)
(* endSetup precedes the first ordinary update.                            *)
(***************************************************************************)
\* Mutants: the mask, or address and mask, of the previous counter value.
WrittenStaleMask(D, w, c, ind, op) ==
    Put(D, getAESRandomValue(w, 0, c.srcCnt, c.fileCnt + 1),
        Masked(ind, op, getAESRandomValue(w, 1, c.srcCnt, c.fileCnt)))

WrittenStaleAddress(D, w, c, ind, op) ==
    Put(D, getAESRandomValue(w, 0, c.srcCnt, c.fileCnt),
        Masked(ind, op, getAESRandomValue(w, 1, c.srcCnt, c.fileCnt)))

Written(D, w, c, ind, op) ==
    Put(D, getAESRandomValue(w, 0, c.srcCnt, c.fileCnt + 1),
        Masked(ind, op, getAESRandomValue(w, 1, c.srcCnt, c.fileCnt + 1)))

\* Mutant: the record is created on first use and never incremented.
IncrementedOnce(m, w) ==
    Put(m, w, [fileCnt |-> 1, srcCnt |-> Counters(m, w).srcCnt])

Incremented(m, w) ==
    Put(m, w, [fileCnt |-> Counters(m, w).fileCnt + 1,
               srcCnt |-> Counters(m, w).srcCnt])

SetupUpdate(op, w, ind) ==
    /\ phase = "setup"
    /\ Cardinality(DOMAIN DictW) < MaxEntries
    /\ DictW' = Written(DictW, w, Counters(setupOMAP, w), ind, op)
    /\ setupOMAP' = Incremented(setupOMAP, w)
    /\ UNCHANGED <<omap, phase, finalRes>>

Update(op, w, ind) ==
    /\ phase = "live" \/ DOMAIN setupOMAP = {}
    /\ Cardinality(DOMAIN DictW) < MaxEntries
    /\ DictW' = Written(DictW, w, Counters(omap, w), ind, op)
    /\ omap' = Incremented(omap, w)
    /\ phase' = "live"
    /\ UNCHANGED <<setupOMAP, finalRes>>

(***************************************************************************)
(* Client::search.  Without a record it returns at once.  In cleaning mode *)
(* it starts the next generation of the keyword: the live identifiers are  *)
(* written back under srcCnt + 1 and the counters replaced.                *)
(***************************************************************************)
SearchUnknown(w) ==
    /\ w \notin DOMAIN omap
    /\ finalRes' = {}
    /\ UNCHANGED <<omap, setupOMAP, DictW, phase>>

SearchPlain(w) ==
    /\ w \in DOMAIN omap
    /\ ~DeleteFiles
    /\ finalRes' = Live(DictW, w, omap[w])
    /\ UNCHANGED <<omap, setupOMAP, DictW, phase>>

\* Mutant: the live identifiers are written back under the old srcCnt.
SearchSameGeneration(w) ==
    /\ w \in DOMAIN omap
    /\ DeleteFiles
    /\ finalRes' = Live(DictW, w, omap[w])
    /\ \E f \in Ascending(Live(DictW, w, omap[w])) :
          DictW' = Rewritten(DictW, w, omap[w].srcCnt, f)
    /\ omap' = Put(omap, w, [fileCnt |-> Cardinality(Live(DictW, w, omap[w])),
                             srcCnt |-> omap[w].srcCnt])
    /\ UNCHANGED <<setupOMAP, phase>>

SearchCleaning(w) ==
    /\ w \in DOMAIN omap
    /\ DeleteFiles
    /\ omap[w].srcCnt < MaxSrcCnt
    /\ finalRes' = Live(DictW, w, omap[w])
    /\ \E f \in Ascending(Live(DictW, w, omap[w])) :
          DictW' = Rewritten(DictW, w, omap[w].srcCnt + 1, f)
    /\ omap' = Put(omap, w, [fileCnt |-> Cardinality(Live(DictW, w, omap[w])),
                             srcCnt |-> omap[w].srcCnt + 1])
    /\ UNCHANGED <<setupOMAP, phase>>

Search(w) == SearchUnknown(w) \/ SearchPlain(w) \/ SearchCleaning(w)

(***************************************************************************)
(* Client::endSetup: OMAP::setupInsert rebuilds the oblivious map from     *)
(* setupOMAP, then the record "TEST" is inserted.                          *)
(***************************************************************************)
EndSetup ==
    /\ phase = "setup"
    /\ omap' = Put(setupOMAP, TestBid, TestValue)
    /\ phase' = "live"
    /\ UNCHANGED <<setupOMAP, DictW, finalRes>>

Next ==
    \/ \E op \in OP, w \in Keyword, ind \in Ind : SetupUpdate(op, w, ind)
    \/ \E op \in OP, w \in Keyword, ind \in Ind : Update(op, w, ind)
    \/ \E w \in Keyword : Search(w)
    \/ EndSetup

Spec == Init /\ [][Next]_vars

-----------------------------------------------------------------------------
\* The keywords of a map that have counters (TestBid has none).
Recorded(m) == Keyword \cap DOMAIN m

(***************************************************************************)
(* The state has the shape the code gives it; in particular a search never *)
(* reports an identifier that nobody inserted, which is what unmasking an  *)
(* entry with the wrong mask would make Client::search do.                 *)
(***************************************************************************)
TypeOK ==
    /\ DOMAIN omap \subseteq Keyword \cup {TestBid}
    /\ \A w \in Recorded(omap) : omap[w] \in Counter
    /\ DOMAIN setupOMAP \subseteq Keyword
    /\ \A w \in DOMAIN setupOMAP : setupOMAP[w] \in Counter
    /\ \A a \in DOMAIN DictW : DictW[a] \in Entry
    /\ phase \in {"setup", "live"}
    /\ finalRes \subseteq Ind

\* Every address a record of m stands for holds an entry with its mask.
AlignedIn(m, D) ==
    \A w \in Recorded(m) : \A i \in 1 .. m[w].fileCnt :
        /\ getAESRandomValue(w, 0, m[w].srcCnt, i) \in DOMAIN D
        /\ D[getAESRandomValue(w, 0, m[w].srcCnt, i)].mask =
              getAESRandomValue(w, 1, m[w].srcCnt, i)

(***************************************************************************)
(* The client's counters and the server's dictionary agree: the addresses  *)
(* 1 .. fileCnt of the current generation of every keyword are all there.  *)
(* Server::search drops an address it does not find without saying so, and *)
(* Client::search numbers the masks by what it got: one missing entry      *)
(* would garble every entry after it.                                      *)
(***************************************************************************)
EntriesAligned ==
    /\ AlignedIn(omap, DictW)
    /\ phase = "setup" => AlignedIn(setupOMAP, DictW)

(***************************************************************************)
(* The server's dictionary only grows: no Client::update or rewriting      *)
(* search ever stores a second value at an address, hence no mask          *)
(* (getAESRandomValue with tag 1) encrypts two different plaintexts.       *)
(***************************************************************************)
MasksUsedOnce ==
    [][\A a \in DOMAIN DictW : a \in DOMAIN DictW' /\ DictW'[a] = DictW[a]]_vars

(***************************************************************************)
(* The map whose counters the next update uses, and the inductive          *)
(* invariant behind MasksUsedOnce: beyond the counters of a keyword lies   *)
(* no entry, neither in the current generation nor in a later one.         *)
(***************************************************************************)
ActiveMap == IF phase = "setup" THEN setupOMAP ELSE omap

AheadFree(m, D) ==
    \A w \in Keyword :
        LET c == Counters(m, w) IN
        /\ \A i \in Nat : i > c.fileCnt =>
               getAESRandomValue(w, 0, c.srcCnt, i) \notin DOMAIN D
        /\ DeleteFiles => \A s, i \in Nat : s > c.srcCnt =>
               getAESRandomValue(w, 0, s, i) \notin DOMAIN D

NothingAhead == AheadFree(ActiveMap, DictW)

\* Until the caller goes live the oblivious map is empty.
OmapIdle == phase = "setup" => DOMAIN omap = {}

IInv == TypeOK /\ EntriesAligned /\ NothingAhead /\ OmapIdle

(***************************************************************************)
(* The refinement mapping: the balance of an identifier is read off the    *)
(* server's entries at the addresses the client's counters name.           *)
(***************************************************************************)
Stored(D, w, c, x, op) ==
    {i \in Hits(D, w, c) :
        /\ D[getAESRandomValue(w, 0, c.srcCnt, i)].ind = x
        /\ D[getAESRandomValue(w, 0, c.srcCnt, i)].op = op}

Balance(D, w, c, x) ==
    Cardinality(Stored(D, w, c, x, "INS")) - Cardinality(Stored(D, w, c, x, "DEL"))

BalanceIn(m, D) ==
    [w \in Keyword |-> [x \in Ind |-> Balance(D, w, Counters(m, w), x)]]

Index == INSTANCE SSEIndex WITH
            Cleaning <- DeleteFiles,
            balance <- BalanceIn(omap, DictW),
            staged <- IF phase = "setup" THEN BalanceIn(setupOMAP, DictW)
                                         ELSE [w \in Keyword |-> [x \in Ind |-> 0]],
            answer <- finalRes

(***************************************************************************)
(* Mitra implements the abstract index: every Client::update changes the   *)
(* balance of one identifier by one, endSetup publishes exactly the setup  *)
(* updates, and Client::search answers by the balances, which the cleaning *)
(* mode compacts and the other mode leaves alone.                          *)
(***************************************************************************)
RefinesIndex == Index!ASpec
=============================================================================
