-------------------------------- MODULE QOS --------------------------------
(***************************************************************************)
(* The QOS scheme (src/src/qos).  The k-th insertion under a keyword gets  *)
(* leaf k of a binary tree kept in an array (root 0, children 2n + 1 and   *)
(* 2n + 2).  A removal colours the topmost node whose leaves are now all   *)
(* removed; a search visits the nodes covering the leaves used so far,     *)
(* skips what lies under a coloured node, and moves the rest to the next   *)
(* generation of the keyword.                                              *)
(*                                                                         *)
(* The keyword's counters are in the oblivious map Ocnt, its leaf numbers  *)
(* in Odel and its colours in Ostate; the server has the entries I and the *)
(* deletion marks Dstate, at addresses that are modelled by their PRF      *)
(* inputs: keyword, src_cnt and tree node.  The dummy marks of remove lie  *)
(* at addresses no search computes and are left out.                       *)
(*                                                                         *)
(* Bounds of the model: MaxSrc caps the generations, MaxInserts the        *)
(* insertions under a keyword, which the code does not check against the   *)
(* number of leaves.                                                       *)
(***************************************************************************)
EXTENDS Integers, FiniteSets, FiniteSetsExt

CONSTANTS Keyword,    \* keywords, numbered in the order of their Bids
          Ind,        \* document identifiers
          NoKeyword,  \* root of an empty Ocnt
          height,     \* ceil(log2(N)) + 1: levels of the tree, root is level 1
          MaxInserts, \* bound on the insertions under a keyword
          MaxSrc      \* bound on src_cnt

\* With two keywords at most, Ocnt's tree never rotates (see root).
ASSUME QOSAssumption ==
    /\ Keyword \subseteq Nat /\ NoKeyword \notin Keyword
    /\ IsFiniteSet(Keyword) /\ Cardinality(Keyword) <= 2
    /\ height \in Nat \ {0}
    /\ MaxInserts \in 0 .. 2 ^ (height - 1)
    /\ MaxSrc \in Nat

VARIABLES Ocnt,         \* keyword -> [src_cnt, a_w]
          root,         \* the keyword at the root of Ocnt's tree
          Odel,         \* <<keyword, id>> -> leaf number
          Ostate,       \* the coloured <<keyword, node>>
          setupOcnt,    \* the same maps during the setup phase
          setupOdel,
          setupOstate,
          I,            \* server: <<keyword, src_cnt, node>> -> id
          Dstate,       \* server: the marked <<keyword, src_cnt, node>>
          phase,        \* "setup" until endSetup, or no setup at all
          live,         \* live[w]: inserted and not removed (the caller's view)
          finalRes      \* the identifiers the last search returned

maps == <<Ocnt, root, Odel, Ostate>>
setupMaps == <<setupOcnt, setupOdel, setupOstate>>
vars == <<maps, setupMaps, I, Dstate, phase, live, finalRes>>

Empty == [k \in {} |-> 0]

Put(m, k, v) == [j \in DOMAIN m \cup {k} |-> IF j = k THEN v ELSE m[j]]

(***************************************************************************)
(* The tree.                                                               *)
(***************************************************************************)
Leaves == 2 ^ (height - 1)

Node == 0 .. 2 ^ height - 2

\* Halving leaf + 1 once per level, as the loop does.
getNodeOnPath(leaf, curDepth) ==
    (leaf + Leaves) \div 2 ^ (height - curDepth) - 1

Path == [leaf \in 0 .. Leaves - 1 |-> {getNodeOnPath(leaf, d) : d \in 1 .. height}]

LeavesUnder == [n \in Node |-> {p \in 0 .. Leaves - 1 : n \in Path[p]}]

\* The proper ancestors of a node.
Above == [n \in Node |-> {a \in Node : a < n /\ LeavesUnder[n] \subseteq LeavesUnder[a]}]

Sibling(n) == IF n % 2 = 0 THEN n - 1 ELSE n + 1

Log2(n) == CHOOSE k \in 0 .. n : 2 ^ k <= n /\ n < 2 ^ (k + 1)

\* Mutant: the last leaf is left out.
findCoveringSetShort ==
    [a_w \in 0 .. Leaves - 1 |->
        LET cover[rest \in 0 .. a_w] ==
                IF rest = 0 THEN {}
                ELSE {getNodeOnPath(a_w + 1 - rest + 2 ^ Log2(rest) - 1, height - Log2(rest))}
                       \cup cover[rest - 2 ^ Log2(rest)]
        IN  cover[a_w]]

(***************************************************************************)
(* Server::findCoveringSet: the leaves 0 .. a_w as full subtrees, largest  *)
(* first; rest is the number of leaves that are still uncovered.           *)
(***************************************************************************)
findCoveringSet ==
    [a_w \in 0 .. Leaves - 1 |->
        LET cover[rest \in 0 .. a_w + 1] ==
                IF rest = 0 THEN {}
                ELSE LET k == Log2(rest)
                         totIndex == a_w + 1 - rest
                     IN  {getNodeOnPath(totIndex + 2 ^ k - 1, height - k)}
                           \cup cover[rest - 2 ^ k]
        IN  cover[a_w + 1]]

(***************************************************************************)
(* Server::recursiveSearch from the nodes of the covering set: the leaves  *)
(* it reaches and the marks it stops at.                                   *)
(***************************************************************************)
Visited(w, c) ==
    {n \in Node : \E t \in findCoveringSet[c.a_w] :
        /\ t \in Above[n] \cup {n}
        /\ \A a \in Above[n] : t <= a => <<w, c.src_cnt, a>> \notin Dstate}

deletes(w, c) == {n \in Visited(w, c) : <<w, c.src_cnt, n>> \in Dstate}

indexes(w, c) == {n \in Visited(w, c) \ deletes(w, c) : n >= Leaves - 1}

ciphers(w, c) == {n \in indexes(w, c) : <<w, c.src_cnt, n>> \in DOMAIN I}

-----------------------------------------------------------------------------
Init ==
    /\ Ocnt = Empty /\ root = NoKeyword /\ Odel = Empty /\ Ostate = {}
    /\ setupOcnt = Empty /\ setupOdel = Empty /\ setupOstate = {}
    /\ I = Empty /\ Dstate = {}
    /\ phase = "setup"
    /\ live = [w \in Keyword |-> {}]
    /\ finalRes = {}

(***************************************************************************)
(* Client::insert.  c are the counters before the insertion, a_w = -1 if   *)
(* the keyword has none.  The caller inserts what is absent, and once it   *)
(* has used the setup phase it ends it before an ordinary insertion.       *)
(***************************************************************************)
NoCounters == [src_cnt |-> 0, a_w |-> -1]

Counters(m, w) == IF w \in DOMAIN m THEN m[w] ELSE NoCounters

\* Mutant: the entry gets the leaf of the counter before its increment.
StoreBeforeIncrement(w, x, c) ==
    /\ x \notin live[w]
    /\ c.a_w + 1 < MaxInserts
    /\ live' = [live EXCEPT ![w] = @ \cup {x}]
    /\ I' = Put(I, <<w, c.src_cnt, getNodeOnPath(c.a_w, height)>>, x)
    /\ UNCHANGED <<Dstate, finalRes>>

Store(w, x, c) ==
    /\ x \notin live[w]
    /\ c.a_w + 1 < MaxInserts
    /\ live' = [live EXCEPT ![w] = @ \cup {x}]
    /\ I' = Put(I, <<w, c.src_cnt, getNodeOnPath(c.a_w + 1, height)>>, x)
    /\ UNCHANGED <<Dstate, finalRes>>

SetupInsert(w, x) ==
    LET c == Counters(setupOcnt, w)
    IN  /\ phase = "setup"
        /\ Store(w, x, c)
        /\ setupOcnt' = Put(setupOcnt, w, [src_cnt |-> c.src_cnt, a_w |-> c.a_w + 1])
        /\ setupOdel' = Put(setupOdel, <<w, x>>, c.a_w + 1)
        /\ UNCHANGED <<maps, setupOstate, phase>>

\* Mutant: the record is created and never incremented.
incrementAwCntOnce(w) ==
    IF w \notin DOMAIN Ocnt THEN Put(Ocnt, w, [src_cnt |-> 0, a_w |-> 0]) ELSE Ocnt

\* OMAP::incrementAwCnt: AVLTree::incrementAwCnt increments a_w at the root
\* of the tree, but descends into incrementSrcCnt.
incrementAwCnt(w) ==
    IF w \notin DOMAIN Ocnt THEN Put(Ocnt, w, [src_cnt |-> 0, a_w |-> 0])
    ELSE IF w = root THEN [Ocnt EXCEPT ![w].a_w = @ + 1]
    ELSE [Ocnt EXCEPT ![w].src_cnt = @ + 1]

\* The root once w is inserted.  The tree that endSetup leaves also holds the
\* record "TEST", smaller than all keywords: a second keyword that comes
\* between it and the first one is rotated to the top.
RootAfter(w) ==
    IF \/ root = NoKeyword
       \/ w \notin DOMAIN Ocnt /\ DOMAIN setupOcnt # {} /\ w < root
    THEN w ELSE root

Insert(w, x) ==
    LET c == Counters(Ocnt, w)
    IN  /\ phase = "live" \/ DOMAIN setupOcnt = {}
        /\ Store(w, x, c)
        /\ Ocnt' = incrementAwCnt(w)
        /\ Ocnt'[w].src_cnt <= MaxSrc
        /\ root' = RootAfter(w)
        /\ phase' = "live"
        /\ Odel' = Put(Odel, <<w, x>>, c.a_w + 1)
        /\ UNCHANGED <<Ostate, setupMaps>>

(***************************************************************************)
(* Client::remove.  Going up from the leaf, a node takes colour 2 as long  *)
(* as the siblings on the way have it; the topmost node that changes is    *)
(* recorded in Ostate and marked at the server.  A removal that changes    *)
(* none sends a dummy mark.                                                *)
(***************************************************************************)
\* Mutant: only the last sibling on the way is looked at.
ChangedOneSibling(state, w, pos) ==
    {n \in Path[pos] :
        /\ <<w, n>> \notin state
        /\ \A b \in Path[pos] : b > n /\ (b + 1) \div 2 - 1 = n =>
              <<w, Sibling(b)>> \in state}

Changed(state, w, pos) ==
    {n \in Path[pos] :
        /\ <<w, n>> \notin state
        /\ \A b \in Path[pos] : b > n => <<w, Sibling(b)>> \in state}

\* The topmost node that changes, if any.
Coloured(state, w, pos) ==
    IF Changed(state, w, pos) = {} THEN {} ELSE {Min(Changed(state, w, pos))}

Mark(w, x, src_cnt, nodes) ==
    /\ x \in live[w]
    /\ live' = [live EXCEPT ![w] = @ \ {x}]
    /\ Dstate' = Dstate \cup ({w} \X {src_cnt} \X nodes)
    /\ UNCHANGED <<I, phase, finalRes>>

SetupRemove(w, x) ==
    /\ phase = "setup"
    /\ x \in live[w]
    /\ LET nodes == Coloured(setupOstate, w, setupOdel[<<w, x>>])
       IN  /\ Mark(w, x, setupOcnt[w].src_cnt, nodes)
           /\ setupOstate' = setupOstate \cup ({w} \X nodes)
    /\ UNCHANGED <<maps, setupOcnt, setupOdel>>

Remove(w, x) ==
    /\ phase = "live"
    /\ x \in live[w]
    /\ LET nodes == Coloured(Ostate, w, Odel[<<w, x>>])
       IN  /\ Mark(w, x, Ocnt[w].src_cnt, nodes)
           /\ Ostate' = Ostate \cup ({w} \X nodes)
    /\ UNCHANGED <<Ocnt, root, Odel, setupMaps>>

(***************************************************************************)
(* Client::search, which throws on a keyword without counters.  The server *)
(* erases what it hands out and the marks it met; the client writes both   *)
(* back under the next src_cnt.                                            *)
(***************************************************************************)
Results(w, c) == {I[<<w, c.src_cnt, n>>] : n \in ciphers(w, c)}

EntriesMoved(w, c) ==
    LET old == {w} \X {c.src_cnt} \X ciphers(w, c)
        new == {w} \X {c.src_cnt + 1} \X ciphers(w, c)
    IN  [a \in (DOMAIN I \ old) \cup new |->
            IF a \in new THEN I[<<w, c.src_cnt, a[3]>>] ELSE I[a]]

\* Mutant: the marks are not written back.
MarksLost(w, c) == Dstate \ ({w} \X {c.src_cnt} \X deletes(w, c))

MarksMoved(w, c) ==
    (Dstate \ ({w} \X {c.src_cnt} \X deletes(w, c)))
        \cup ({w} \X {c.src_cnt + 1} \X deletes(w, c))

Search(w) ==
    /\ phase = "live"
    /\ w \in DOMAIN Ocnt
    /\ Ocnt[w].src_cnt < MaxSrc
    /\ finalRes' = Results(w, Ocnt[w])
    /\ I' = EntriesMoved(w, Ocnt[w])
    /\ Dstate' = MarksMoved(w, Ocnt[w])
    /\ Ocnt' = [Ocnt EXCEPT ![w].src_cnt = @ + 1]
    /\ UNCHANGED <<root, Odel, Ostate, setupMaps, phase, live>>

(***************************************************************************)
(* Client::endSetup: the three maps are built from those of the setup      *)
(* phase.  AVLTree::sortedArrayToBST makes the smaller of two keywords the *)
(* root, and the record "TEST", smaller than both, leaves it there.  The   *)
(* caller ends only a setup phase it has used.                             *)
(***************************************************************************)
EndSetup ==
    /\ phase = "setup"
    /\ DOMAIN setupOcnt # {}
    /\ Ocnt' = setupOcnt
    /\ root' = Min(DOMAIN setupOcnt)
    /\ Odel' = setupOdel
    /\ Ostate' = setupOstate
    /\ phase' = "live"
    /\ UNCHANGED <<setupMaps, I, Dstate, live, finalRes>>

Next ==
    \/ \E w \in Keyword, x \in Ind : SetupInsert(w, x) \/ Insert(w, x)
    \/ \E w \in Keyword, x \in Ind : SetupRemove(w, x) \/ Remove(w, x)
    \/ \E w \in Keyword : Search(w)
    \/ EndSetup

Spec == Init /\ [][Next]_vars
-----------------------------------------------------------------------------
\* The maps in use: those of the setup phase until endSetup.
CurOcnt == IF phase = "setup" THEN setupOcnt ELSE Ocnt
CurOstate == IF phase = "setup" THEN setupOstate ELSE Ostate

TypeOK ==
    /\ \A w \in DOMAIN CurOcnt : /\ w \in Keyword
                                 /\ CurOcnt[w].src_cnt \in 0 .. MaxSrc
                                 /\ CurOcnt[w].a_w \in 0 .. Leaves - 1
    /\ root \in Keyword \cup {NoKeyword}
    /\ CurOstate \subseteq Keyword \X Node
    /\ DOMAIN I \subseteq Keyword \X (0 .. MaxSrc) \X Node
    /\ \A a \in DOMAIN I : a[3] >= Leaves - 1 /\ I[a] \in Ind
    /\ Dstate \subseteq Keyword \X (0 .. MaxSrc) \X Node
    /\ phase \in {"setup", "live"}
    /\ live \in [Keyword -> SUBSET Ind]
    /\ finalRes \subseteq Ind

\* The entries a search of w would find.
FoundAt(w) == IF w \in DOMAIN CurOcnt THEN ciphers(w, CurOcnt[w]) ELSE {}

Found(w) == {I[<<w, CurOcnt[w].src_cnt, n>>] : n \in FoundAt(w)}

(***************************************************************************)
(* At any time a search of a keyword finds what was inserted under it and  *)
(* not removed since, each identifier once: whatever Client::remove has    *)
(* coloured, and however often Client::search moved entries and marks to   *)
(* the next generation.                                                    *)
(***************************************************************************)
FoundIsLive ==
    \A w \in Keyword : /\ Found(w) = live[w]
                       /\ Cardinality(FoundAt(w)) = Cardinality(live[w])

\* The nodes of a set that have no ancestor in it.
Topmost(S) == {n \in S : Above[n] \cap S = {}}

(***************************************************************************)
(* The client's colours and the server's marks describe the same removed   *)
(* leaves: the topmost ones agree.  Client::search moves only the marks it *)
(* met, so the marks below another one stay behind in the old generation   *)
(* while Ostate keeps all colours.                                         *)
(***************************************************************************)
MarksAgree ==
    \A w \in DOMAIN CurOcnt :
        Topmost({n \in Node : <<w, n>> \in CurOstate}) =
            Topmost({n \in Node : <<w, CurOcnt[w].src_cnt, n>> \in Dstate})

(***************************************************************************)
(* Server::findCoveringSet covers the leaves 0 .. a_w, each once, and no   *)
(* coloured node lies above a node of the covering set: recursiveSearch,   *)
(* which only goes down from there, would not see its mark.                *)
(***************************************************************************)
CoverReachesMarks ==
    \A w \in DOMAIN CurOcnt :
        LET cover == findCoveringSet[CurOcnt[w].a_w]
        IN  /\ UNION {LeavesUnder[t] : t \in cover} = 0 .. CurOcnt[w].a_w
            /\ \A s, t \in cover : s # t => LeavesUnder[s] \cap LeavesUnder[t] = {}
            /\ \A n \in Node : <<w, n>> \in CurOstate =>
                  \E t \in cover : LeavesUnder[n] \subseteq LeavesUnder[t]

(***************************************************************************)
(* An address of I is used for one identifier only: neither the next leaf  *)
(* of Client::insert nor the next generation of Client::search overwrites  *)
(* an entry that is still there.                                           *)
(***************************************************************************)
EntriesNotOverwritten ==
    [][\A a \in (DOMAIN I) \cap (DOMAIN I') : I'[a] = I[a]]_vars

Index == INSTANCE SSESet WITH
            contents <- [w \in Keyword |-> Found(w)],
            answer <- finalRes

(***************************************************************************)
(* QOS implements a set of identifiers per keyword: each insertion adds    *)
(* one, each removal takes one away, and a search returns them all and     *)
(* changes none.                                                           *)
(***************************************************************************)
RefinesSet == Index!ASpec
=============================================================================
