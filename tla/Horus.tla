------------------------------- MODULE Horus -------------------------------
(***************************************************************************)
(* The Horus scheme (src/src/horus/Horus.cpp).  The identifiers under a    *)
(* keyword occupy the slots 1 .. UpdtCnt; a removal moves the last one     *)
(* into the freed slot.  Every write of a slot gets the slot's next access *)
(* number, and a search, which does not know these numbers, finds the      *)
(* last one of each slot by a binary search over 1 .. Access, all slots    *)
(* in parallel rounds.  It then writes what it found under the next        *)
(* SrchCnt; a slot whose first access number in a SrchCnt is not 1 has     *)
(* there, under number 1, a pointer "@number" to it.                       *)
(*                                                                         *)
(* The oblivious maps CNTs and OMAP_updt and the boxes of ORAM_srch are    *)
(* maps here, keyed by the inputs of their Bids; before endSetup they      *)
(* stand for the client's plain maps of the setup phase.  Nothing catches  *)
(* the exceptions of stoi and of a full ORAM_srch: they end the program.   *)
(*                                                                         *)
(* Bounds of the model: MaxSrch caps SrchCnt, MaxSetupAccess the access    *)
(* numbers of the setup phase; Space, the blocks of ORAM_srch, caps        *)
(* everything else.                                                        *)
(***************************************************************************)
EXTENDS Integers, FiniteSets, Sequences, Functions

CONSTANTS Keyword,          \* keywords
          Ind,              \* document identifiers
          None,             \* the empty string of an absent record
          Space,            \* emptyNodes of a new ORAM_srch
          SetupRefill,      \* TRUE if the caller refills slots during setup
          InsertUnsearched, \* TRUE if it inserts before the first search
          MaxSetupAccess,   \* bound on the access numbers of the setup phase
          MaxSrch           \* bound on SrchCnt

ASSUME HorusAssumption ==
    /\ None \notin Ind \cup Keyword \cup Int \cup {"stoi", "full"}
    /\ IsFiniteSet(Ind)  \* they are ints
    /\ \A x \in Ind \cup {None} : x \notin {"@"} \X Nat  \* and never "@number"
    /\ Space \in Nat /\ MaxSetupAccess \in Nat /\ MaxSrch \in Nat
    /\ SetupRefill \in BOOLEAN /\ InsertUnsearched \in BOOLEAN

VARIABLES CNTs,      \* keyword -> its five counters
          byInd,     \* OMAP_updt, prefix 0: <<keyword, id>> -> slot and access
          bySlot,    \* OMAP_updt, prefix 1: <<keyword, slot>> -> id and access
          boxes,     \* ORAM_srch: <<keyword, slot, SrchCnt, access>> -> id or pointer
          empty,     \* emptyNodes of ORAM_srch
          phase,     \* "setup" until endSetup, or no setup at all
          searching, \* the keyword of the search under way, or None
          probe,     \* probe[i]: its local variables for slot i
          firstRun,  \* it has not read anything yet
          result,    \* the identifiers it has found so far
          finalRes,  \* the identifiers the last search returned
          thrown,    \* the exception that ended the program, or None
          live       \* live[w]: inserted and not removed (the caller's view)

maps == <<CNTs, byInd, bySlot, boxes, empty>>
locals == <<searching, probe, firstRun, result>>
vars == <<maps, locals, phase, finalRes, thrown, live>>

Empty == [k \in {} |-> 0]

Put(m, k, v) == [j \in DOMAIN m \cup {k} |-> IF j = k THEN v ELSE m[j]]

At(n) == <<"@", n>>

Larger(m, n) == IF m < n THEN n ELSE m

\* The counters of a keyword, as insert assumes them when it finds none.
NoCounters ==
    [UpdtCnt |-> 0, SrchCnt |-> 0, Access |-> 1, LastIND |-> None,
     latestUpdatedCounter |-> 0]

Counters(w) == IF w \in DOMAIN CNTs THEN CNTs[w] ELSE NoCounters

Init ==
    /\ CNTs = Empty /\ byInd = Empty /\ bySlot = Empty
    /\ boxes = Empty /\ empty = Space
    /\ phase = "setup"
    /\ searching = None /\ probe = <<>> /\ firstRun = TRUE /\ result = <<>>
    /\ finalRes = {}
    /\ thrown = None
    /\ live = [w \in Keyword |-> {}]

\* Between two calls, in a program that still runs.
Idle == searching = None /\ thrown = None

\* An uncaught exception: no operation follows, the state is lost with it.
Throw(e) == thrown' = e /\ UNCHANGED <<maps, locals, phase, finalRes, live>>

(***************************************************************************)
(* Horus::insert, which returns at once if the identifier is present.  A   *)
(* slot is opened if no search and no insertion since has written it under *)
(* the current SrchCnt; opened above access number 1 it gets a pointer.    *)
(* A keyword of the setup phase has no latestUpdatedCounter before its     *)
(* first search: stoi throws.  The caller ends a setup phase it has used.  *)
(***************************************************************************)
Present(w, x) == <<w, x>> \in DOMAIN byInd /\ byInd[<<w, x>>].slot # -1

\* Mutant: a freed slot starts again with access number 1.
NextAccessOne(w, slot) == 1

\* The access number that a write of the slot gets.
NextAccess(w, slot) ==
    IF <<w, slot>> \in DOMAIN bySlot THEN bySlot[<<w, slot>>].acc + 1 ELSE 1

\* The boxes that open a slot: the identifier, and the pointer to it.
Opened(w, x, slot, srch, acc) ==
    {<<<<w, slot, srch, acc>>, x>>} \cup
        (IF acc > 1 THEN {<<<<w, slot, srch, 1>>, At(acc)>>} ELSE {})

\* Mutant: a slot opened above access number 1 gets no pointer.
InsertedNoPointer(w, x, slot, acc) ==
    {<<<<w, slot, Counters(w).SrchCnt, acc>>, x>>}

\* The boxes an insertion writes.
Inserted(w, x, slot, acc) ==
    LET c == Counters(w)
    IN  IF c.latestUpdatedCounter < slot
        THEN Opened(w, x, slot, c.SrchCnt, acc)
        ELSE {<<<<w, slot, c.SrchCnt, acc>>, x>>}

\* ORAM_srch after the writes b, a set of pairs.
Written(b) ==
    [k \in DOMAIN boxes \cup {p[1] : p \in b} |->
        IF \E p \in b : p[1] = k THEN (CHOOSE p \in b : p[1] = k)[2] ELSE boxes[k]]

\* Mutant: Access is set only when the keyword is new.
CountedOldAccess(c, x, slot, acc) ==
    [c EXCEPT !.UpdtCnt = slot, !.LastIND = x,
              !.latestUpdatedCounter = IF @ < slot THEN @ + 1 ELSE @]

\* The counters after an insertion.
Counted(c, x, slot, acc) ==
    [c EXCEPT !.UpdtCnt = slot, !.LastIND = x,
              !.Access = Larger(@, acc),
              !.latestUpdatedCounter = IF @ < slot THEN @ + 1 ELSE @]

Insert(w, x) ==
    LET c == Counters(w)
        slot == c.UpdtCnt + 1
        acc == NextAccess(w, slot)
        b == Inserted(w, x, slot, acc)
    IN  /\ Idle
        /\ phase = "live" \/ CNTs = Empty
        /\ ~Present(w, x)
        /\ c.latestUpdatedCounter = None => InsertUnsearched
        /\ IF c.latestUpdatedCounter = None THEN Throw("stoi")
           ELSE IF empty < Cardinality(b) THEN Throw("full")
           ELSE /\ CNTs' = Put(CNTs, w, Counted(c, x, slot, acc))
                /\ byInd' = Put(byInd, <<w, x>>, [slot |-> slot, acc |-> acc])
                /\ bySlot' = Put(bySlot, <<w, slot>>, [ind |-> x, acc |-> acc])
                /\ boxes' = Written(b)
                /\ empty' = empty - Cardinality(b)
                /\ phase' = "live"
                /\ live' = [live EXCEPT ![w] = @ \cup {x}]
                /\ UNCHANGED <<locals, finalRes, thrown>>

(***************************************************************************)
(* Horus::setupInsert: no look at what is there, access number 1 whatever  *)
(* the slot had, and no latestUpdatedCounter.  The caller inserts what is  *)
(* absent.                                                                 *)
(***************************************************************************)
SetupInsert(w, x) ==
    LET c == IF w \in DOMAIN CNTs THEN CNTs[w]
             ELSE [NoCounters EXCEPT !.latestUpdatedCounter = None]
        slot == c.UpdtCnt + 1
    IN  /\ Idle
        /\ phase = "setup"
        /\ x \notin live[w]
        /\ <<w, slot>> \in DOMAIN bySlot => SetupRefill
        /\ CNTs' = Put(CNTs, w, [c EXCEPT !.UpdtCnt = slot, !.LastIND = x])
        /\ byInd' = Put(byInd, <<w, x>>, [slot |-> slot, acc |-> 1])
        /\ bySlot' = Put(bySlot, <<w, slot>>, [ind |-> x, acc |-> 1])
        /\ boxes' = Put(boxes, <<w, slot, c.SrchCnt, 1>>, x)
        /\ live' = [live EXCEPT ![w] = @ \cup {x}]
        /\ UNCHANGED <<empty, locals, phase, finalRes, thrown>>

(***************************************************************************)
(* Horus::remove and Horus::setupRemove: the last identifier moves into    *)
(* the freed slot, under the slot's next access number.  An identifier     *)
(* that was removed before changes nothing; one that was never inserted    *)
(* makes stoi throw, and the caller does not ask for it.                   *)
(***************************************************************************)
Moves(w, x) ==
    LET n == CNTs[w].UpdtCnt - 1 IN n > 0 /\ byInd[<<w, x>>].slot # n + 1

\* Mutant: the move is recorded in one direction only.
SlotsAfterStale(w, x) == bySlot

\* OMAP_updt, prefix 1, after the removal of x.
SlotsAfter(w, x) ==
    LET e == byInd[<<w, x>>]
    IN  IF Moves(w, x)
        THEN Put(bySlot, <<w, e.slot>>, [ind |-> CNTs[w].LastIND, acc |-> e.acc + 1])
        ELSE bySlot

\* OMAP_updt, prefix 0, after the removal of x.
IndsAfter(w, x) ==
    LET e == byInd[<<w, x>>]
        gone == Put(byInd, <<w, x>>, [slot |-> -1, acc |-> e.acc + 1])
    IN  IF Moves(w, x)
        THEN Put(gone, <<w, CNTs[w].LastIND>>, [slot |-> e.slot, acc |-> e.acc + 1])
        ELSE gone

\* Mutant: UpdtCnt is not lowered.
CountersAfterKept(w, x) ==
    LET n == CNTs[w].UpdtCnt - 1
    IN  [CNTs[w] EXCEPT
            !.Access = IF Moves(w, x) THEN Larger(@, byInd[<<w, x>>].acc + 1) ELSE @,
            !.LastIND = IF n > 0 THEN SlotsAfter(w, x)[<<w, n>>].ind ELSE None]

CountersAfter(w, x) ==
    LET n == CNTs[w].UpdtCnt - 1
    IN  [CNTs[w] EXCEPT
            !.UpdtCnt = n,
            !.Access = IF Moves(w, x) THEN Larger(@, byInd[<<w, x>>].acc + 1) ELSE @,
            !.LastIND = IF n > 0 THEN SlotsAfter(w, x)[<<w, n>>].ind ELSE None]

BoxesAfter(w, x) ==
    LET e == byInd[<<w, x>>]
    IN  IF Moves(w, x)
        THEN Put(boxes, <<w, e.slot, CNTs[w].SrchCnt, e.acc + 1>>, CNTs[w].LastIND)
        ELSE boxes

Removed(w, x) ==
    /\ byInd' = IndsAfter(w, x)
    /\ bySlot' = SlotsAfter(w, x)
    /\ CNTs' = Put(CNTs, w, CountersAfter(w, x))
    /\ boxes' = BoxesAfter(w, x)
    /\ live' = [live EXCEPT ![w] = @ \ {x}]
    /\ UNCHANGED <<locals, phase, finalRes, thrown>>

Remove(w, x) ==
    /\ Idle
    /\ phase = "live"
    /\ Present(w, x)
    /\ IF Moves(w, x) /\ empty = 0 THEN Throw("full")
       ELSE /\ Removed(w, x)
            /\ empty' = IF Moves(w, x) THEN empty - 1 ELSE empty

SetupRemove(w, x) ==
    /\ Idle
    /\ phase = "setup"
    /\ Present(w, x)
    /\ byInd[<<w, x>>].acc < MaxSetupAccess
    /\ Removed(w, x)
    /\ UNCHANGED empty

\* Horus::endSetup moves the maps of the setup phase into the oblivious maps
\* and into ORAM_srch, where they take no space from emptyNodes.
EndSetup ==
    /\ Idle
    /\ phase = "setup"
    /\ phase' = "live"
    /\ UNCHANGED <<maps, locals, finalRes, thrown, live>>

(***************************************************************************)
(* Horus::search: SearchBegin is the code before the loop, SearchRound one *)
(* pass of it and SearchEnd what follows it.  A search of a keyword        *)
(* without counters makes stoi throw, and the caller does not ask for it.  *)
(***************************************************************************)
SearchBegin(w) ==
    /\ Idle
    /\ phase = "live"
    /\ w \in DOMAIN CNTs
    /\ CNTs[w].SrchCnt < MaxSrch
    /\ CNTs' = [CNTs EXCEPT ![w].SrchCnt = @ + 1]
    /\ searching' = w
    /\ probe' = [i \in 1 .. CNTs[w].UpdtCnt |->
                    [left |-> 1, right |-> CNTs[w].Access, curValue |-> 1,
                     lastID |-> None, lastAcc |-> 0, foundItem |-> FALSE]]
    /\ firstRun' = TRUE
    /\ result' = <<>>
    /\ UNCHANGED <<byInd, bySlot, boxes, empty, phase, finalRes, thrown, live>>

\* The SrchCnt under which the current entries of w lie.
Generation(w) == CNTs[w].SrchCnt - (IF searching = w THEN 1 ELSE 0)

\* What ORAM_srch->batchRead returns for slot i of w.
Read(w, i, acc) ==
    LET k == <<w, i, Generation(w), acc>>
    IN  IF k \in DOMAIN boxes THEN boxes[k] ELSE None

IsPointer(id) == id \notin Ind \cup {None}

\* A probe after the first round, which read access number 1.
Started(p, id) ==
    IF IsPointer(id)
    THEN LET mid == (id[2] + p.right) \div 2
         IN  [p EXCEPT !.left = id[2], !.curValue = mid, !.lastAcc = mid]
    ELSE [p EXCEPT !.curValue = (p.left + p.right) \div 2]

CeilHalf(n) == (n + 1) \div 2

\* Mutant: after a hit the next number is rounded down, also from the left end.
HitRoundedDown(p, id) ==
    [p EXCEPT !.lastID = id, !.lastAcc = p.curValue, !.left = p.curValue,
              !.curValue = (p.curValue + p.right) \div 2]

\* A probe that read an identifier: it looks further up.
Hit(p, id) ==
    [p EXCEPT !.lastID = id, !.lastAcc = p.curValue, !.left = p.curValue,
              !.curValue = IF p.curValue = p.left THEN CeilHalf(p.left + p.right)
                           ELSE (p.curValue + p.right) \div 2]

\* A probe that read nothing: it looks further down.
Miss(p) ==
    IF p.curValue = p.right
    THEN LET mid == (p.left + p.right) \div 2
         IN  [p EXCEPT !.curValue = mid, !.right = mid]
    ELSE [p EXCEPT !.right = p.curValue, !.curValue = CeilHalf(p.left + p.curValue)]

\* A probe whose interval is closed.
Closed(p, id) ==
    IF p.lastID = None
    THEN [p EXCEPT !.foundItem = TRUE, !.lastID = id, !.lastAcc = p.curValue]
    ELSE [p EXCEPT !.foundItem = TRUE]

\* Mutant: an interval of two numbers counts as closed.
NarrowedEarly(p, id) ==
    IF p.left >= p.right - 1 THEN Closed(p, id)
    ELSE IF id = None THEN Miss(p) ELSE Hit(p, id)

Narrowed(p, id) ==
    IF p.left >= p.right THEN Closed(p, id)
    ELSE IF id = None THEN Miss(p) ELSE Hit(p, id)

\* All probes after a round.
Advanced ==
    [i \in DOMAIN probe |->
        LET p == probe[i]
            id == Read(searching, i, p.curValue)
        IN  IF p.foundItem THEN p
            ELSE IF firstRun THEN Started(p, id) ELSE Narrowed(p, id)]

\* The slots whose probes a round closes.  Their order in the result is left
\* open: its length and its members are all that anything depends on.
NewlyFound ==
    LET S == {i \in DOMAIN probe : Advanced[i].foundItem /\ ~probe[i].foundItem}
    IN  CHOOSE f \in [1 .. Cardinality(S) -> S] : IsInjective(f)

SearchRound ==
    /\ searching # None /\ thrown = None
    /\ \E i \in DOMAIN probe : ~probe[i].foundItem
    /\ IF \E i \in DOMAIN probe : Advanced[i].foundItem /\ Advanced[i].lastID \notin Ind
       THEN Throw("stoi")
       ELSE /\ probe' = Advanced
            /\ firstRun' = FALSE
            /\ result' = result \o [k \in DOMAIN NewlyFound |->
                                        Advanced[NewlyFound[k]].lastID]
            /\ UNCHANGED <<maps, searching, phase, finalRes, thrown, live>>

\* The boxes of the next SrchCnt.
Rewritten ==
    UNION {Opened(searching, probe[i].lastID, i, CNTs[searching].SrchCnt,
                  probe[i].lastAcc) : i \in DOMAIN probe}

SearchEnd ==
    /\ searching # None /\ thrown = None
    /\ \A i \in DOMAIN probe : probe[i].foundItem
    /\ IF empty < Cardinality(Rewritten) THEN Throw("full")
       ELSE /\ boxes' = Written(Rewritten)
            /\ empty' = empty - Cardinality(Rewritten)
            /\ CNTs' = [CNTs EXCEPT ![searching].latestUpdatedCounter = Len(result)]
            /\ finalRes' = Range(result)
            /\ searching' = None /\ probe' = <<>> /\ firstRun' = TRUE /\ result' = <<>>
            /\ UNCHANGED <<byInd, bySlot, phase, thrown, live>>

Next ==
    \/ \E w \in Keyword, x \in Ind : SetupInsert(w, x) \/ Insert(w, x)
    \/ \E w \in Keyword, x \in Ind : SetupRemove(w, x) \/ Remove(w, x)
    \/ EndSetup
    \/ \E w \in Keyword : SearchBegin(w)
    \/ SearchRound
    \/ SearchEnd

Spec == Init /\ [][Next]_vars

\* A call that has begun goes on: the loop of search runs until it is left.
FairSpec == Spec /\ WF_vars(SearchRound \/ SearchEnd)
-----------------------------------------------------------------------------
TypeOK ==
    /\ DOMAIN CNTs \subseteq Keyword
    /\ \A w \in DOMAIN CNTs :
          /\ CNTs[w].UpdtCnt \in 0 .. Cardinality(Ind)
          /\ CNTs[w].SrchCnt \in 0 .. MaxSrch
          /\ CNTs[w].Access \in Nat \ {0}
          /\ CNTs[w].LastIND \in Ind \cup {None}
          /\ CNTs[w].latestUpdatedCounter \in Nat \cup {None}
    /\ DOMAIN byInd \subseteq Keyword \X Ind
    /\ DOMAIN bySlot \subseteq Keyword \X (Nat \ {0})
    /\ empty \in 0 .. Space
    /\ phase \in {"setup", "live"}
    /\ searching \in Keyword \cup {None}
    /\ result \in Seq(Ind)
    /\ finalRes \subseteq Ind
    /\ thrown \in {None, "stoi", "full"}
    /\ live \in [Keyword -> SUBSET Ind]

Slots(w) == IF w \in DOMAIN CNTs THEN 1 .. CNTs[w].UpdtCnt ELSE {}

(***************************************************************************)
(* The two directions of OMAP_updt and LastIND stay inverse to each other  *)
(* through every move of a last identifier: slot i of a keyword holds an   *)
(* identifier that Horus::remove will find in slot i under the same access *)
(* number, LastIND is the one in the last slot, and no other identifier    *)
(* has a slot.                                                             *)
(***************************************************************************)
SlotsMatch ==
    \A w \in Keyword :
        /\ \A i \in Slots(w) :
              byInd[<<w, bySlot[<<w, i>>].ind>>] = [slot |-> i, acc |-> bySlot[<<w, i>>].acc]
        /\ {bySlot[<<w, i>>].ind : i \in Slots(w)} = {x \in Ind : Present(w, x)}
        /\ Slots(w) # {} => CNTs[w].LastIND = bySlot[<<w, CNTs[w].UpdtCnt>>].ind

(***************************************************************************)
(* What the binary search of Horus::search relies on: under the current    *)
(* SrchCnt the access numbers of a slot have no holes between the first,   *)
(* which number 1 leads to, and the last, which OMAP_updt records and      *)
(* Access bounds; nothing lies above.                                      *)
(***************************************************************************)
NoHoles ==
    \A w \in Keyword : \A i \in Slots(w) :
        LET one   == Read(w, i, 1)
            first == IF IsPointer(one) THEN one[2] ELSE 1
            last  == bySlot[<<w, i>>].acc
        IN  /\ first <= last /\ last <= CNTs[w].Access
            /\ \A a \in first .. CNTs[w].Access : a <= last <=> Read(w, i, a) \in Ind

(***************************************************************************)
(* The binary search ends at the last access number of its slot: whatever  *)
(* pointer it starts from and however far Access is above it.              *)
(***************************************************************************)
ProbesExact ==
    \A i \in DOMAIN probe :
        probe[i].foundItem =>
            /\ probe[i].lastAcc = bySlot[<<searching, i>>].acc
            /\ probe[i].lastID = bySlot[<<searching, i>>].ind

(***************************************************************************)
(* No stoi of Horus.cpp meets a string that is not a number: of the two    *)
(* exceptions modelled, only that of a full ORAM_srch ends the program.    *)
(* (Full oblivious maps, which throw too, are left to HorusOMAP.)          *)
(***************************************************************************)
NeverMisread == thrown # "stoi"

(***************************************************************************)
(* No box is written twice, not even by a search into a SrchCnt that       *)
(* insertions use next, so that emptyNodes, which every write lowers,      *)
(* counts the free blocks.                                                 *)
(***************************************************************************)
BoxesWrittenOnce ==
    [][phase = "live" => /\ \A k \in DOMAIN boxes : boxes'[k] = boxes[k]
                         /\ Cardinality(DOMAIN boxes') - Cardinality(DOMAIN boxes)
                                = empty - empty']_vars

(***************************************************************************)
(* Every search returns the identifiers that were inserted under its       *)
(* keyword and not removed since.                                          *)
(***************************************************************************)
AnswersExact ==
    [][(searching # None /\ searching' = None) => finalRes' = live[searching]]_vars

(***************************************************************************)
(* Every search that begins ends: the intervals of the binary search       *)
(* shrink in every round of Horus::search, also when a probe goes back     *)
(* and forth between two neighbouring numbers.                             *)
(***************************************************************************)
SearchEnds == (searching # None) ~> (searching = None \/ thrown # None)

\* The identifiers that the last access numbers of the slots hold.
Found(w) == {Read(w, i, bySlot[<<w, i>>].acc) : i \in Slots(w)}

Index == INSTANCE SSESet WITH
            contents <- [w \in Keyword |-> Found(w)],
            answer <- finalRes

(***************************************************************************)
(* Horus implements a set of identifiers per keyword: an insertion adds    *)
(* one, a removal takes one away and moves another, and a search returns   *)
(* them all and changes none.                                              *)
(***************************************************************************)
RefinesSet == Index!ASpec
=============================================================================
