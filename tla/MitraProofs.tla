---------------------------- MODULE MitraProofs ----------------------------
(***************************************************************************)
(* Proofs about Mitra for all keywords, identifiers and bounds: the        *)
(* inductive invariant IInv, the action property MasksUsedOnce and the     *)
(* refinement of SSEIndex.                                                 *)
(***************************************************************************)
EXTENDS Mitra, FiniteSetTheorems, TLAPS

-----------------------------------------------------------------------------
(* The pseudo-random values: distinct inputs, distinct values.             *)

\* Two PRF values with tag t are equal only for the same keyword and counter.
LEMMA PRFInjective ==
    ASSUME NEW v \in Keyword, NEW w \in Keyword, NEW t,
           NEW r, NEW s, NEW i, NEW j,
           getAESRandomValue(v, t, r, i) = getAESRandomValue(w, t, s, j)
    PROVE  v = w /\ i = j /\ (DeleteFiles => r = s)
BY StemAssumption DEF getAESRandomValue

LEMMA CountersType ==
    ASSUME TypeOK, NEW w \in Keyword
    PROVE  /\ Counters(omap, w) \in Counter
           /\ Counters(setupOMAP, w) \in Counter
BY DEF TypeOK, Counters, Counter, Recorded

\* Put changes one key and keeps the others.
LEMMA PutFact ==
    ASSUME NEW m, NEW k, NEW v
    PROVE  /\ DOMAIN Put(m, k, v) = DOMAIN m \cup {k}
           /\ Put(m, k, v)[k] = v
           /\ \A j \in DOMAIN m : j # k => Put(m, k, v)[j] = m[j]
BY DEF Put

-----------------------------------------------------------------------------
(* What Client::search makes of the entries when they are aligned.         *)

LEMMA ArrivalIsIndex ==
    ASSUME NEW n \in Nat, NEW i \in 1 .. n
    PROVE  Cardinality({j \in 1 .. n : j <= i}) = i
<1>1. {j \in 1 .. n : j <= i} = 1 .. i
  OBVIOUS
<1>2. Cardinality(1 .. i) = i
  BY FS_Interval
<1> QED
  BY <1>1, <1>2

\* Aligned entries are all found, and each is unmasked with its own mask.
LEMMA Decoding ==
    ASSUME TypeOK, EntriesAligned, NEW w \in Recorded(omap)
    PROVE  /\ Hits(DictW, w, omap[w]) = 1 .. omap[w].fileCnt
           /\ \A i \in 1 .. omap[w].fileCnt :
                 LET e == DictW[getAESRandomValue(w, 0, omap[w].srcCnt, i)]
                 IN  /\ Plaintext(DictW, w, omap[w], i).ind = e.ind
                     /\ Plaintext(DictW, w, omap[w], i).op = e.op
<1> DEFINE c == omap[w]
<1>1. c \in Counter
  BY DEF TypeOK
<1>2. Hits(DictW, w, c) = 1 .. c.fileCnt
  BY DEF EntriesAligned, AlignedIn, Hits
<1>3. ASSUME NEW i \in 1 .. c.fileCnt
      PROVE  Arrival(DictW, w, c, i) = i
  BY <1>1, <1>2, ArrivalIsIndex DEF Arrival, Counter
<1>4. ASSUME NEW i \in 1 .. c.fileCnt
      PROVE  DictW[getAESRandomValue(w, 0, c.srcCnt, i)].mask =
               getAESRandomValue(w, 1, c.srcCnt, i)
  BY DEF EntriesAligned, AlignedIn
<1>5. ASSUME NEW i \in 1 .. c.fileCnt
      PROVE  LET e == DictW[getAESRandomValue(w, 0, c.srcCnt, i)]
             IN  /\ Plaintext(DictW, w, c, i).ind = e.ind
                 /\ Plaintext(DictW, w, c, i).op = e.op
  BY <1>3, <1>4 DEF Plaintext, Unmasked
<1> QED
  BY <1>2, <1>5

\* The client's tally of an identifier is what the server stores of it.
LEMMA TallyIsStored ==
    ASSUME TypeOK, EntriesAligned, NEW w \in Recorded(omap), NEW x, NEW op
    PROVE  Tally(DictW, w, omap[w], x, op) = Cardinality(Stored(DictW, w, omap[w], x, op))
<1> DEFINE c == omap[w]
<1>1. {i \in Hits(DictW, w, c) : /\ Plaintext(DictW, w, c, i).ind = x
                          /\ Plaintext(DictW, w, c, i).op = op} = Stored(DictW, w, c, x, op)
  BY Decoding DEF Stored
<1> QED
  BY <1>1 DEF Tally

\* The sets of stored entries are finite.
LEMMA StoredFinite ==
    ASSUME NEW D, NEW w, NEW c \in Counter, NEW x, NEW op
    PROVE  /\ IsFiniteSet(Stored(D, w, c, x, op))
           /\ Cardinality(Stored(D, w, c, x, op)) \in Nat
<1>1. IsFiniteSet(1 .. c.fileCnt)
  BY FS_Interval DEF Counter
<1>2. Stored(D, w, c, x, op) \subseteq 1 .. c.fileCnt
  BY DEF Stored, Hits
<1> QED
  BY <1>1, <1>2, FS_Subset, FS_CardinalityType

\* A search reports exactly the identifiers with a positive balance.
LEMMA LiveIsPositive ==
    ASSUME TypeOK, EntriesAligned, NEW w \in Recorded(omap)
    PROVE  Live(DictW, w, omap[w]) = {x \in Ind : Balance(DictW, w, omap[w], x) > 0}
<1> DEFINE c == omap[w]
<1>1. c \in Counter
  BY DEF TypeOK
<1>2. ASSUME NEW i \in Hits(DictW, w, c)
      PROVE  DictW[getAESRandomValue(w, 0, c.srcCnt, i)].ind \in Ind
  BY DEF TypeOK, Hits, Entry
<1>3. Stored(DictW, w, c, Junk, "INS") = {}
  BY <1>2, ConstantsAssumption DEF Stored
<1>4. Tally(DictW, w, c, Junk, "INS") = 0
  BY <1>3, TallyIsStored, FS_EmptySet
<1>5. Tally(DictW, w, c, Junk, "DEL") \in Nat
  BY <1>1, TallyIsStored, StoredFinite
<1>6. Junk \notin Live(DictW, w, c)
  BY <1>4, <1>5 DEF Live
<1>7. ASSUME NEW x \in Ind
      PROVE  Tally(DictW, w, c, x, "INS") > Tally(DictW, w, c, x, "DEL")
               <=> Balance(DictW, w, c, x) > 0
  BY <1>1, TallyIsStored, StoredFinite DEF Balance
<1> QED
  BY <1>6, <1>7 DEF Live

-----------------------------------------------------------------------------
(* The inductive invariant.                                                *)

LEMMA InitInv == Init => IInv
BY DEF Init, IInv, TypeOK, EntriesAligned, AlignedIn, NothingAhead, AheadFree,
       OmapIdle, Recorded

\* A map of counters as the code keeps it.
CounterMap(m) ==
    /\ DOMAIN m \subseteq Keyword \cup {TestBid}
    /\ \A v \in Recorded(m) : m[v] \in Counter

LEMMA CounterMaps ==
    ASSUME TypeOK
    PROVE  CounterMap(omap) /\ CounterMap(setupOMAP)
BY DEF TypeOK, CounterMap, Recorded

\* What Client::update does to the counters.
LEMMA IncrementedFacts ==
    ASSUME NEW m, CounterMap(m), NEW w \in Keyword
    PROVE  LET n == Incremented(m, w)
               c == Counters(m, w)
           IN
           /\ c \in Counter
           /\ CounterMap(n)
           /\ DOMAIN n = DOMAIN m \cup {w}
           /\ n[w] = [fileCnt |-> c.fileCnt + 1, srcCnt |-> c.srcCnt]
           /\ Counters(n, w) = n[w]
           /\ \A v \in DOMAIN m : v # w => n[v] = m[v]
           /\ \A v \in Keyword : v # w => Counters(n, v) = Counters(m, v)
<1> DEFINE n == Incremented(m, w)
           c == Counters(m, w)
<1>1. c \in Counter
  BY DEF Counters, Counter, Recorded, CounterMap
<1>2. /\ DOMAIN n = DOMAIN m \cup {w}
      /\ n[w] = [fileCnt |-> c.fileCnt + 1, srcCnt |-> c.srcCnt]
      /\ \A v \in DOMAIN m : v # w => n[v] = m[v]
  BY DEF Incremented, Put
<1>3. n[w] \in Counter
  BY <1>1, <1>2 DEF Counter
<1>4. CounterMap(n)
  BY <1>2, <1>3 DEF CounterMap, Recorded
<1>5. /\ Counters(n, w) = n[w]
      /\ \A v \in Keyword : v # w => Counters(n, v) = Counters(m, v)
  BY <1>2 DEF Counters
<1> QED
  BY <1>1, <1>2, <1>4, <1>5

\* An update keeps the map it counts in aligned, and nothing ahead of it.
LEMMA UpdateAligned ==
    ASSUME NEW m, CounterMap(m), NEW D, AlignedIn(m, D), AheadFree(m, D),
           NEW op \in OP, NEW w \in Keyword, NEW ind \in Ind
    PROVE  LET n == Incremented(m, w)
               E == Written(D, w, Counters(m, w), ind, op)
           IN  AlignedIn(n, E) /\ AheadFree(n, E)
<1> DEFINE c == Counters(m, w)
           n == Incremented(m, w)
           new == getAESRandomValue(w, 0, c.srcCnt, c.fileCnt + 1)
           E == Written(D, w, c, ind, op)
<1>1. /\ c \in Counter
      /\ DOMAIN n = DOMAIN m \cup {w}
      /\ n[w] = [fileCnt |-> c.fileCnt + 1, srcCnt |-> c.srcCnt]
      /\ Counters(n, w) = n[w]
      /\ \A v \in DOMAIN m : v # w => n[v] = m[v]
      /\ \A v \in Keyword : v # w => Counters(n, v) = Counters(m, v)
  BY IncrementedFacts
<1>2. /\ DOMAIN E = DOMAIN D \cup {new}
      /\ E[new].mask = getAESRandomValue(w, 1, c.srcCnt, c.fileCnt + 1)
      /\ \A a \in DOMAIN D : a # new => E[a] = D[a]
  BY DEF Written, Put, Masked
<1> HIDE DEF n, E
<1>3. ASSUME NEW v \in Recorded(n), NEW i \in 1 .. n[v].fileCnt
      PROVE  /\ getAESRandomValue(v, 0, n[v].srcCnt, i) \in DOMAIN E
             /\ E[getAESRandomValue(v, 0, n[v].srcCnt, i)].mask =
                  getAESRandomValue(v, 1, n[v].srcCnt, i)
  <2>1. v \in Keyword
    BY DEF Recorded
  <2>2. CASE v = w /\ i = c.fileCnt + 1
    BY <1>1, <1>2, <2>2
  <2>3. CASE v = w /\ i # c.fileCnt + 1
    <3>1. w \in Recorded(m) /\ m[w] = c /\ i \in 1 .. c.fileCnt
          /\ n[w].srcCnt = c.srcCnt
      BY <1>1, <2>3 DEF Counters, Recorded, Counter
    <3>2. getAESRandomValue(w, 0, c.srcCnt, i) # new
      BY <2>3, PRFInjective
    <3> QED
      BY <1>2, <2>3, <3>1, <3>2 DEF AlignedIn
  <2>4. CASE v # w
    <3>1. v \in Recorded(m) /\ n[v] = m[v]
      BY <1>1, <2>1, <2>4 DEF Recorded
    <3>2. getAESRandomValue(v, 0, m[v].srcCnt, i) # new
      BY <2>1, <2>4, PRFInjective
    <3> QED
      BY <1>2, <3>1, <3>2 DEF AlignedIn
  <2> QED
    BY <2>2, <2>3, <2>4
<1>4. ASSUME NEW v \in Keyword, NEW i \in Nat, i > Counters(n, v).fileCnt
      PROVE  getAESRandomValue(v, 0, Counters(n, v).srcCnt, i) \notin DOMAIN E
  <2>1. CASE v = w
    BY <1>1, <1>2, <1>4, <2>1, PRFInjective DEF AheadFree, Counter
  <2>2. CASE v # w
    BY <1>1, <1>2, <1>4, <2>2, PRFInjective DEF AheadFree
  <2> QED
    BY <2>1, <2>2
<1>5. ASSUME DeleteFiles, NEW v \in Keyword, NEW s \in Nat, NEW i \in Nat,
             s > Counters(n, v).srcCnt
      PROVE  getAESRandomValue(v, 0, s, i) \notin DOMAIN E
  <2>1. s > Counters(m, v).srcCnt
    BY <1>1, <1>5
  <2>2. getAESRandomValue(v, 0, s, i) \notin DOMAIN D
    BY <1>5, <2>1 DEF AheadFree
  <2>3. getAESRandomValue(v, 0, s, i) # new
    <3>1. CASE v = w
      BY <1>1, <1>5, <2>1, <3>1, PRFInjective DEF Counter
    <3>2. CASE v # w
      BY <3>2, PRFInjective
    <3> QED
      BY <3>1, <3>2
  <2> QED
    BY <1>2, <2>2, <2>3
<1>6. AlignedIn(n, E)
  BY <1>3 DEF AlignedIn
<1>7. AheadFree(n, E)
  BY <1>4, <1>5 DEF AheadFree
<1> QED
  BY <1>6, <1>7 DEF n, E

\* An update stores well-formed entries and counters.
LEMMA UpdateTyped ==
    ASSUME NEW m, CounterMap(m), NEW D, \A a \in DOMAIN D : D[a] \in Entry,
           NEW op \in OP, NEW w \in Keyword, NEW ind \in Ind
    PROVE  LET n == Incremented(m, w)
               E == Written(D, w, Counters(m, w), ind, op)
           IN  /\ CounterMap(n)
               /\ DOMAIN n = DOMAIN m \cup {w}
               /\ \A a \in DOMAIN E : E[a] \in Entry
<1> DEFINE c == Counters(m, w)
           E == Written(D, w, c, ind, op)
<1>1. /\ c \in Counter
      /\ CounterMap(Incremented(m, w))
      /\ DOMAIN Incremented(m, w) = DOMAIN m \cup {w}
  BY IncrementedFacts
<1>2. getAESRandomValue(w, 1, c.srcCnt, c.fileCnt + 1)
        \in {1} \X {Stem[v] : v \in Keyword} \X Nat \X Nat
  BY <1>1 DEF getAESRandomValue, Counter
<1>3. Masked(ind, op, getAESRandomValue(w, 1, c.srcCnt, c.fileCnt + 1)) \in Entry
  BY <1>2 DEF Masked, Entry
<1>4. \A a \in DOMAIN E : E[a] \in Entry
  BY <1>3 DEF Written, Put
<1> QED
  BY <1>1, <1>4

\* What the rewriting search does to the dictionary.
LEMMA CleaningStep ==
    ASSUME TypeOK, EntriesAligned, NEW w \in Keyword, SearchCleaning(w)
    PROVE  LET n == Cardinality(Live(DictW, w, omap[w]))
               s == omap[w].srcCnt + 1
               new == {getAESRandomValue(w, 0, s, i) : i \in 1 .. n}
           IN  /\ n \in Nat /\ s \in Nat
               /\ Live(DictW, w, omap[w]) \subseteq Ind
               /\ DOMAIN DictW' = DOMAIN DictW \cup new
               /\ \A a \in DOMAIN DictW : a \notin new => DictW'[a] = DictW[a]
               /\ \E f \in Bijection(1 .. n, Live(DictW, w, omap[w])) :
                    \A i \in 1 .. n :
                       DictW'[getAESRandomValue(w, 0, s, i)] =
                         Masked(f[i], "INS", getAESRandomValue(w, 1, s, i))
               /\ DOMAIN omap' = DOMAIN omap
               /\ omap'[w] = [fileCnt |-> n, srcCnt |-> s]
               /\ \A v \in DOMAIN omap : v # w => omap'[v] = omap[v]
<1> DEFINE n == Cardinality(Live(DictW, w, omap[w]))
           s == omap[w].srcCnt + 1
           new == {getAESRandomValue(w, 0, s, i) : i \in 1 .. n}
<1>1. w \in Recorded(omap) /\ omap[w] \in Counter
  BY DEF SearchCleaning, Recorded, TypeOK
<1>2. Live(DictW, w, omap[w]) \subseteq Ind
  BY <1>1, LiveIsPositive
<1>3. n \in Nat
  BY <1>2, ConstantsAssumption, FS_Subset, FS_CardinalityType
<1>4. s \in Nat
  BY <1>1 DEF Counter
<1>5. PICK f \in Ascending(Live(DictW, w, omap[w])) : DictW' = Rewritten(DictW, w, s, f)
  BY DEF SearchCleaning
<1>6. f \in Bijection(1 .. n, Live(DictW, w, omap[w])) /\ DOMAIN f = 1 .. n
  BY <1>5 DEF Ascending, Bijection, Injection, Surjection
<1>7. \A i : getAESRandomValue(w, 0, s, i)[4] = i
  BY DEF getAESRandomValue
<1>8. /\ DOMAIN DictW' = DOMAIN DictW \cup new
      /\ \A a \in DOMAIN DictW : a \notin new => DictW'[a] = DictW[a]
      /\ \A a \in new :
            DictW'[a] = Masked(f[a[4]], "INS", getAESRandomValue(w, 1, s, a[4]))
  BY <1>5, <1>6 DEF Rewritten
<1>9. \A i \in 1 .. n : DictW'[getAESRandomValue(w, 0, s, i)] =
                           Masked(f[i], "INS", getAESRandomValue(w, 1, s, i))
  BY <1>7, <1>8
<1>10. /\ DOMAIN omap' = DOMAIN omap
       /\ omap'[w] = [fileCnt |-> n, srcCnt |-> s]
       /\ \A v \in DOMAIN omap : v # w => omap'[v] = omap[v]
  BY <1>1 DEF SearchCleaning, Put, Recorded
<1> QED
  BY <1>2, <1>3, <1>4, <1>6, <1>8, <1>9, <1>10

\* The rewriting search keeps the invariant.
LEMMA CleaningInv ==
    ASSUME IInv, NEW w \in Keyword, SearchCleaning(w)
    PROVE  IInv'
<1> DEFINE n == Cardinality(Live(DictW, w, omap[w]))
           s == omap[w].srcCnt + 1
           new == {getAESRandomValue(w, 0, s, i) : i \in 1 .. n}
<1> USE DEF IInv
<1>1. /\ n \in Nat /\ s \in Nat
      /\ Live(DictW, w, omap[w]) \subseteq Ind
      /\ DOMAIN DictW' = DOMAIN DictW \cup new
      /\ \A a \in DOMAIN DictW : a \notin new => DictW'[a] = DictW[a]
      /\ DOMAIN omap' = DOMAIN omap
      /\ omap'[w] = [fileCnt |-> n, srcCnt |-> s]
      /\ \A v \in DOMAIN omap : v # w => omap'[v] = omap[v]
  BY CleaningStep
<1>2. PICK f \in Bijection(1 .. n, Live(DictW, w, omap[w])) :
        \A i \in 1 .. n : DictW'[getAESRandomValue(w, 0, s, i)] =
                             Masked(f[i], "INS", getAESRandomValue(w, 1, s, i))
  BY CleaningStep
<1>3. /\ DeleteFiles /\ w \in DOMAIN omap
      /\ omap[w] \in Counter
      /\ phase' = phase /\ setupOMAP' = setupOMAP
      /\ finalRes' = Live(DictW, w, omap[w])
      /\ phase = "live"
  BY DEF SearchCleaning, TypeOK, OmapIdle, Recorded
<1>4. TypeOK'
  <2>1. ASSUME NEW i \in 1 .. n
        PROVE  Masked(f[i], "INS", getAESRandomValue(w, 1, s, i)) \in Entry
    <3>1. f[i] \in Ind
      BY <1>1, <1>2 DEF Bijection, Injection, Surjection
    <3>2. getAESRandomValue(w, 1, s, i)
            \in {1} \X {Stem[v] : v \in Keyword} \X Nat \X Nat
      BY <1>1 DEF getAESRandomValue
    <3> QED
      BY <3>1, <3>2 DEF Masked, Entry, OP
  <2>2. \A a \in DOMAIN DictW' : DictW'[a] \in Entry
    BY <1>1, <1>2, <2>1 DEF TypeOK
  <2>3. \A v \in Recorded(omap') : omap'[v] \in Counter
    BY <1>1, <1>3 DEF TypeOK, Recorded, Counter
  <2> QED
    BY <1>1, <1>3, <2>2, <2>3 DEF TypeOK
<1>5. AlignedIn(omap, DictW)'
  <2>1. ASSUME NEW v \in Recorded(omap'), NEW i \in 1 .. omap'[v].fileCnt
        PROVE  /\ getAESRandomValue(v, 0, omap'[v].srcCnt, i) \in DOMAIN DictW'
               /\ DictW'[getAESRandomValue(v, 0, omap'[v].srcCnt, i)].mask =
                    getAESRandomValue(v, 1, omap'[v].srcCnt, i)
    <3>1. CASE v = w
      <4>1. omap'[v].srcCnt = s /\ i \in 1 .. n
        BY <1>1, <3>1
      <4>2. Masked(f[i], "INS", getAESRandomValue(w, 1, s, i)).mask
              = getAESRandomValue(w, 1, s, i)
        BY DEF Masked
      <4> QED
        BY <1>1, <1>2, <3>1, <4>1, <4>2
    <3>2. CASE v # w
      <4>1. v \in Recorded(omap) /\ omap'[v] = omap[v]
        BY <1>1, <3>2 DEF Recorded
      <4>2. getAESRandomValue(v, 0, omap[v].srcCnt, i) \notin new
        BY <3>2, PRFInjective DEF Recorded
      <4> QED
        BY <1>1, <4>1, <4>2 DEF EntriesAligned, AlignedIn
    <3> QED
      BY <3>1, <3>2
  <2> QED
    BY <2>1 DEF AlignedIn
<1>6. AheadFree(omap, DictW)'
  <2>1. AheadFree(omap, DictW)
    BY <1>3 DEF NothingAhead, ActiveMap
  <2>2. /\ Counters(omap, w)' = [fileCnt |-> n, srcCnt |-> s]
        /\ Counters(omap, w) = omap[w]
        /\ \A v \in Keyword : v # w => Counters(omap, v)' = Counters(omap, v)
    BY <1>1, <1>3 DEF Counters
  <2>3. ASSUME NEW v \in Keyword, NEW i \in Nat, i > Counters(omap, v)'.fileCnt
        PROVE  getAESRandomValue(v, 0, Counters(omap, v)'.srcCnt, i) \notin DOMAIN DictW'
    <3>1. CASE v = w
      <4>1. getAESRandomValue(w, 0, s, i) \notin DOMAIN DictW
        BY <1>1, <1>3, <2>1, <2>2 DEF AheadFree, Counter
      <4>2. getAESRandomValue(w, 0, s, i) \notin new
        BY <1>1, <2>2, <2>3, <3>1, PRFInjective
      <4> QED
        BY <1>1, <2>2, <3>1, <4>1, <4>2
    <3>2. CASE v # w
      BY <1>1, <2>1, <2>2, <2>3, <3>2, PRFInjective DEF AheadFree
    <3> QED
      BY <3>1, <3>2
  <2>4. ASSUME NEW v \in Keyword, NEW r \in Nat, NEW i \in Nat,
               r > Counters(omap, v)'.srcCnt
        PROVE  getAESRandomValue(v, 0, r, i) \notin DOMAIN DictW'
    <3>1. CASE v = w
      <4>1. r > omap[w].srcCnt /\ r # s
        BY <1>1, <1>3, <2>2, <2>4, <3>1 DEF Counter
      <4>2. getAESRandomValue(w, 0, r, i) \notin new
        BY <1>3, <4>1, PRFInjective
      <4> QED
        BY <1>1, <1>3, <2>1, <2>2, <3>1, <4>1, <4>2 DEF AheadFree
    <3>2. CASE v # w
      BY <1>1, <1>3, <2>1, <2>2, <2>4, <3>2, PRFInjective DEF AheadFree
    <3> QED
      BY <3>1, <3>2
  <2> QED
    BY <2>3, <2>4 DEF AheadFree
<1>7. EntriesAligned' /\ NothingAhead' /\ OmapIdle'
  BY <1>3, <1>5, <1>6 DEF EntriesAligned, NothingAhead, ActiveMap, OmapIdle
<1> QED
  BY <1>4, <1>7

\* Every step keeps the invariant.
LEMMA NextInv == IInv /\ [Next]_vars => IInv'
<1> SUFFICES ASSUME IInv, [Next]_vars PROVE IInv'
  OBVIOUS
<1> USE DEF IInv
<1>1. ASSUME NEW op \in OP, NEW w \in Keyword, NEW ind \in Ind,
             SetupUpdate(op, w, ind)
      PROVE  IInv'
  <2>1. /\ DictW' = Written(DictW, w, Counters(setupOMAP, w), ind, op)
        /\ setupOMAP' = Incremented(setupOMAP, w)
        /\ phase = "setup" /\ phase' = phase /\ omap' = omap
        /\ finalRes' = finalRes
    BY <1>1 DEF SetupUpdate
  <2>2. /\ CounterMap(setupOMAP)
        /\ AlignedIn(setupOMAP, DictW) /\ AheadFree(setupOMAP, DictW) /\ DOMAIN omap = {}
    BY <2>1, CounterMaps DEF EntriesAligned, NothingAhead, ActiveMap, OmapIdle
  <2>3. /\ \A a \in DOMAIN DictW' : DictW'[a] \in Entry
        /\ DOMAIN setupOMAP' = DOMAIN setupOMAP \cup {w}
        /\ CounterMap(setupOMAP')
    BY <2>1, <2>2, UpdateTyped DEF TypeOK
  <2>4. AlignedIn(setupOMAP, DictW)' /\ AheadFree(setupOMAP, DictW)'
    BY <2>1, <2>2, UpdateAligned
  <2>5. TypeOK'
    BY <2>1, <2>3 DEF TypeOK, Recorded, CounterMap
  <2>6. AlignedIn(omap, DictW)'
    BY <2>1, <2>2 DEF AlignedIn, Recorded
  <2> QED
    BY <2>1, <2>2, <2>4, <2>5, <2>6 DEF EntriesAligned, NothingAhead, ActiveMap, OmapIdle
<1>2. ASSUME NEW op \in OP, NEW w \in Keyword, NEW ind \in Ind,
             Update(op, w, ind)
      PROVE  IInv'
  <2>1. /\ DictW' = Written(DictW, w, Counters(omap, w), ind, op)
        /\ omap' = Incremented(omap, w)
        /\ phase = "live" \/ DOMAIN setupOMAP = {}
        /\ phase' = "live" /\ setupOMAP' = setupOMAP /\ finalRes' = finalRes
    BY <1>2 DEF Update
  <2>2. CounterMap(omap) /\ AlignedIn(omap, DictW)
    BY CounterMaps DEF EntriesAligned
  <2>3. AheadFree(omap, DictW)
    <3>1. CASE phase = "live"
      BY <3>1 DEF NothingAhead, ActiveMap
    <3>2. CASE phase = "setup"
      <4>1. DOMAIN omap = {} /\ DOMAIN setupOMAP = {}
        BY <2>1, <3>2 DEF OmapIdle
      <4>2. \A v : Counters(omap, v) = Counters(setupOMAP, v)
        BY <4>1 DEF Counters
      <4> QED
        BY <3>2, <4>2 DEF NothingAhead, ActiveMap, AheadFree
    <3> QED
      BY <3>1, <3>2 DEF TypeOK
  <2>4. /\ \A a \in DOMAIN DictW' : DictW'[a] \in Entry
        /\ CounterMap(omap')
    BY <2>1, <2>2, UpdateTyped DEF TypeOK
  <2>5. AlignedIn(omap, DictW)' /\ AheadFree(omap, DictW)'
    BY <2>1, <2>2, <2>3, UpdateAligned
  <2>6. TypeOK'
    BY <2>1, <2>4 DEF TypeOK, CounterMap
  <2> QED
    BY <2>1, <2>5, <2>6 DEF EntriesAligned, NothingAhead, ActiveMap, OmapIdle
<1>3. ASSUME NEW w \in Keyword, SearchUnknown(w) \/ SearchPlain(w)
      PROVE  IInv'
  <2>1. /\ UNCHANGED <<omap, setupOMAP, DictW, phase>>
        /\ finalRes' \subseteq Ind
    BY <1>3, LiveIsPositive DEF SearchUnknown, SearchPlain, Recorded
  <2> QED
    BY <2>1 DEF TypeOK, EntriesAligned, AlignedIn, NothingAhead, AheadFree,
                ActiveMap, OmapIdle, Recorded, Counters
<1>4. ASSUME NEW w \in Keyword, SearchCleaning(w)
      PROVE  IInv'
  BY <1>4, CleaningInv
<1>5. CASE EndSetup
  <2>1. /\ phase = "setup" /\ phase' = "live" /\ DictW' = DictW
        /\ omap' = Put(setupOMAP, TestBid, TestValue)
        /\ setupOMAP' = setupOMAP /\ finalRes' = finalRes
    BY <1>5 DEF EndSetup
  <2>2. DOMAIN omap' = DOMAIN setupOMAP \cup {TestBid}
    BY <2>1 DEF Put
  <2>3. \A v \in DOMAIN setupOMAP : omap'[v] = setupOMAP[v]
    BY <2>1, ConstantsAssumption DEF Put, TypeOK
  <2>4. Recorded(omap') = DOMAIN setupOMAP /\ Recorded(setupOMAP) = DOMAIN setupOMAP
    BY <2>2, ConstantsAssumption DEF Recorded, TypeOK
  <2>5. TypeOK'
    BY <2>1, <2>2, <2>3, <2>4 DEF TypeOK
  <2>6. AlignedIn(omap, DictW)'
    BY <2>1, <2>3, <2>4 DEF EntriesAligned, AlignedIn
  <2>7. \A v \in Keyword : Counters(omap', v) = Counters(setupOMAP, v)
    BY <2>2, <2>3, ConstantsAssumption DEF Counters
  <2>8. AheadFree(omap, DictW)'
    <3>1. AheadFree(setupOMAP, DictW)
      BY <2>1 DEF NothingAhead, ActiveMap
    <3> QED
      BY <2>1, <2>7, <3>1 DEF AheadFree
  <2> QED
    BY <2>1, <2>5, <2>6, <2>8 DEF EntriesAligned, NothingAhead, ActiveMap, OmapIdle
<1>6. CASE UNCHANGED vars
  BY <1>6 DEF vars, TypeOK, EntriesAligned, AlignedIn, NothingAhead, AheadFree,
              ActiveMap, OmapIdle, Recorded, Counters
<1> QED
  BY <1>1, <1>2, <1>3, <1>4, <1>5, <1>6 DEF Next, Search

(***************************************************************************)
(* The client's counters and the server's dictionary always agree, and no  *)
(* search reports an identifier nobody inserted: the inductive invariant   *)
(* of Client::update, Client::search and Client::endSetup.                 *)
(***************************************************************************)
THEOREM Invariance == Spec => []IInv
BY InitInv, NextInv, PTL DEF Spec

\* Client::search returns only identifiers of the application, and every
\* record and entry keeps its shape (TypeOK).
THEOREM Typing == Spec => []TypeOK
BY Invariance, PTL DEF IInv

\* Every address Client::search asks for is present and carries the mask the
\* client will use for it (EntriesAligned).
THEOREM Alignment == Spec => []EntriesAligned
BY Invariance, PTL DEF IInv
-----------------------------------------------------------------------------
(* The server's dictionary only grows.                                     *)

(***************************************************************************)
(* Neither Client::update nor a rewriting Client::search ever stores a     *)
(* second value at an address, so no mask encrypts two plaintexts          *)
(* (MasksUsedOnce).                                                        *)
(***************************************************************************)
THEOREM OneTimeMasks == Spec => MasksUsedOnce
<1> DEFINE Kept == \A a \in DOMAIN DictW : a \in DOMAIN DictW' /\ DictW'[a] = DictW[a]
<1>1. ASSUME IInv, [Next]_vars PROVE Kept \/ UNCHANGED vars
  <2> USE <1>1 DEF IInv
  <2>1. ASSUME NEW op \in OP, NEW w \in Keyword, NEW ind \in Ind,
               SetupUpdate(op, w, ind)
        PROVE  Kept
    <3>1. AheadFree(setupOMAP, DictW) /\ Counters(setupOMAP, w) \in Counter
      BY <2>1, CountersType DEF SetupUpdate, NothingAhead, ActiveMap
    <3> QED
      BY <2>1, <3>1 DEF SetupUpdate, Written, Put, AheadFree, Counter
  <2>2. ASSUME NEW op \in OP, NEW w \in Keyword, NEW ind \in Ind,
               Update(op, w, ind)
        PROVE  Kept
    <3>1. Counters(omap, w) \in Counter
      BY CountersType
    <3>2. getAESRandomValue(w, 0, Counters(omap, w).srcCnt,
                            Counters(omap, w).fileCnt + 1) \notin DOMAIN DictW
      <4>1. CASE phase = "live"
        BY <3>1, <4>1 DEF NothingAhead, ActiveMap, AheadFree, Counter
      <4>2. CASE phase = "setup"
        <5>1. Counters(omap, w) = Counters(setupOMAP, w)
          BY <2>2, <4>2 DEF Update, OmapIdle, Counters
        <5> QED
          BY <3>1, <4>2, <5>1 DEF NothingAhead, ActiveMap, AheadFree, Counter
      <4> QED
        BY <4>1, <4>2 DEF TypeOK
    <3> QED
      BY <2>2, <3>2 DEF Update, Written, Put
  <2>3. ASSUME NEW w \in Keyword, SearchCleaning(w)
        PROVE  Kept
    <3> DEFINE n == Cardinality(Live(DictW, w, omap[w]))
               s == omap[w].srcCnt + 1
               new == {getAESRandomValue(w, 0, s, i) : i \in 1 .. n}
    <3>1. /\ n \in Nat /\ s \in Nat
          /\ DOMAIN DictW' = DOMAIN DictW \cup new
          /\ \A a \in DOMAIN DictW : a \notin new => DictW'[a] = DictW[a]
      BY <2>3, CleaningStep
    <3>2. /\ phase = "live" /\ DeleteFiles
          /\ Counters(omap, w) = omap[w] /\ omap[w] \in Counter
      BY <2>3 DEF SearchCleaning, OmapIdle, TypeOK, Counters, Recorded
    <3>3. \A i \in 1 .. n : getAESRandomValue(w, 0, s, i) \notin DOMAIN DictW
      BY <3>1, <3>2 DEF NothingAhead, ActiveMap, AheadFree, Counter
    <3> QED
      BY <3>1, <3>3
  <2>4. ASSUME NEW w \in Keyword, SearchUnknown(w) \/ SearchPlain(w)
        PROVE  Kept
    BY <2>4 DEF SearchUnknown, SearchPlain
  <2>5. CASE EndSetup
    BY <2>5 DEF EndSetup
  <2> QED
    BY <1>1, <2>1, <2>2, <2>3, <2>4, <2>5 DEF Next, Search
<1> QED
  BY <1>1, Invariance, PTL DEF Spec, MasksUsedOnce

-----------------------------------------------------------------------------
(* The balance of a keyword without entries.                               *)

LEMMA NoEntries ==
    ASSUME NEW m, NEW D, NEW w, w \notin DOMAIN m, NEW x
    PROVE  Balance(D, w, Counters(m, w), x) = 0
<1>1. Counters(m, w).fileCnt = 0
  BY DEF Counters
<1>2. \A op : Stored(D, w, Counters(m, w), x, op) = {}
  BY <1>1 DEF Stored, Hits
<1>3. Cardinality({}) = 0
  BY FS_EmptySet
<1> QED
  BY <1>2, <1>3 DEF Balance

LEMMA EmptyMap ==
    ASSUME NEW m, NEW D, DOMAIN m = {}
    PROVE  BalanceIn(m, D) = [w \in Keyword |-> [x \in Ind |-> 0]]
BY NoEntries DEF BalanceIn

\* A balance is an integer.
LEMMA BalanceType ==
    ASSUME NEW D, NEW w, NEW c \in Counter, NEW x
    PROVE  Balance(D, w, c, x) \in Int
BY StoredFinite DEF Balance

-----------------------------------------------------------------------------
(* An update shifts one balance by one.                                    *)

\* The entries of a keyword the update does not concern.
LEMMA OtherKeyword ==
    ASSUME NEW D, NEW w \in Keyword, NEW c, NEW ind, NEW op,
           NEW v \in Keyword, v # w, NEW d, NEW x
    PROVE  Balance(Written(D, w, c, ind, op), v, d, x) = Balance(D, v, d, x)
<1> DEFINE new == getAESRandomValue(w, 0, c.srcCnt, c.fileCnt + 1)
           E == Written(D, w, c, ind, op)
<1>1. /\ DOMAIN E = DOMAIN D \cup {new}
      /\ \A a \in DOMAIN D : a # new => E[a] = D[a]
  BY DEF Written, Put
<1>2. \A i : getAESRandomValue(v, 0, d.srcCnt, i) # new
  BY PRFInjective
<1> HIDE DEF E, new
<1>3. Hits(E, v, d) = Hits(D, v, d)
  BY <1>1, <1>2 DEF Hits
<1>4. \A o : Stored(E, v, d, x, o) = Stored(D, v, d, x, o)
  BY <1>1, <1>2, <1>3 DEF Stored, Hits
<1> QED
  BY <1>4 DEF Balance, E

\* The entries of the keyword that is updated.
LEMMA UpdatedKeyword ==
    ASSUME NEW D, NEW w \in Keyword, NEW c \in Counter, NEW ind, NEW op \in OP,
           NEW d, d = [fileCnt |-> c.fileCnt + 1, srcCnt |-> c.srcCnt], NEW x
    PROVE  Balance(Written(D, w, c, ind, op), w, d, x) =
             Balance(D, w, c, x)
               + (IF x = ind THEN IF op = "INS" THEN 1 ELSE -1 ELSE 0)
<1> DEFINE k == c.fileCnt + 1
           new == getAESRandomValue(w, 0, c.srcCnt, k)
           E == Written(D, w, c, ind, op)
<1>1. /\ DOMAIN E = DOMAIN D \cup {new}
      /\ E[new].ind = ind /\ E[new].op = op
      /\ \A a \in DOMAIN D : a # new => E[a] = D[a]
  BY DEF Written, Put, Masked
<1>2. \A i : getAESRandomValue(w, 0, c.srcCnt, i) = new => i = k
  BY PRFInjective
<1>3. k \in Nat /\ k \notin 1 .. c.fileCnt /\ 1 .. d.fileCnt = (1 .. c.fileCnt) \cup {k}
  BY DEF Counter
<1>4. d.srcCnt = c.srcCnt
  OBVIOUS
<1> HIDE DEF E, new, k
<1>5. ASSUME NEW i \in 1 .. c.fileCnt
      PROVE  /\ getAESRandomValue(w, 0, c.srcCnt, i) \in DOMAIN E
                  <=> getAESRandomValue(w, 0, c.srcCnt, i) \in DOMAIN D
             /\ getAESRandomValue(w, 0, c.srcCnt, i) \in DOMAIN D =>
                  E[getAESRandomValue(w, 0, c.srcCnt, i)] =
                    D[getAESRandomValue(w, 0, c.srcCnt, i)]
  BY <1>1, <1>2, <1>3
<1>6. getAESRandomValue(w, 0, c.srcCnt, k) = new
  BY DEF new
<1>7. Hits(E, w, d) = Hits(D, w, c) \cup {k}
  BY <1>1, <1>3, <1>4, <1>5, <1>6 DEF Hits
<1>8. ASSUME NEW o
      PROVE  Stored(E, w, d, x, o) =
               IF x = ind /\ o = op THEN Stored(D, w, c, x, o) \cup {k}
                                    ELSE Stored(D, w, c, x, o)
  <2>1. \A i \in Hits(D, w, c) :
          /\ i \in 1 .. c.fileCnt
          /\ getAESRandomValue(w, 0, c.srcCnt, i) \in DOMAIN D
    BY DEF Hits
  <2>2. Stored(E, w, d, x, o) =
          {i \in Hits(D, w, c) \cup {k} :
              /\ E[getAESRandomValue(w, 0, c.srcCnt, i)].ind = x
              /\ E[getAESRandomValue(w, 0, c.srcCnt, i)].op = o}
    BY <1>4, <1>7 DEF Stored
  <2> QED
    BY <1>1, <1>5, <1>6, <2>1, <2>2 DEF Stored
<1>9. ASSUME NEW o
      PROVE  /\ IsFiniteSet(Stored(D, w, c, x, o))
             /\ Cardinality(Stored(D, w, c, x, o)) \in Nat
             /\ k \notin Stored(D, w, c, x, o)
  <2>1. k \notin Stored(D, w, c, x, o)
    BY <1>3 DEF Stored, Hits
  <2>2. /\ IsFiniteSet(Stored(D, w, c, x, o))
        /\ Cardinality(Stored(D, w, c, x, o)) \in Nat
    BY StoredFinite
  <2> QED
    BY <2>1, <2>2
<1>10. ASSUME NEW o
       PROVE  Cardinality(Stored(D, w, c, x, o) \cup {k})
                = Cardinality(Stored(D, w, c, x, o)) + 1
  BY <1>9, FS_AddElement
<1> DEFINE before(o) == Cardinality(Stored(D, w, c, x, o))
           after(o) == Cardinality(Stored(E, w, d, x, o))
<1>11. ASSUME NEW o
       PROVE  after(o) = IF x = ind /\ o = op THEN before(o) + 1 ELSE before(o)
  <2>1. CASE x = ind /\ o = op
    BY <1>8, <1>10, <2>1
  <2>2. CASE ~(x = ind /\ o = op)
    BY <1>8, <2>2
  <2> QED
    BY <2>1, <2>2
<1>12. before("INS") \in Nat /\ before("DEL") \in Nat
  BY <1>9
<1>13. /\ Balance(D, w, c, x) = before("INS") - before("DEL")
       /\ Balance(E, w, d, x) = after("INS") - after("DEL")
  BY DEF Balance
<1> HIDE DEF before, after
<1>14. Balance(E, w, d, x) = Balance(D, w, c, x)
         + (IF x = ind THEN IF op = "INS" THEN 1 ELSE -1 ELSE 0)
  <2>1. CASE op = "INS"
    BY <1>11, <1>12, <1>13, <2>1
  <2>2. CASE op = "DEL"
    BY <1>11, <1>12, <1>13, <2>2
  <2> QED
    BY <2>1, <2>2 DEF OP
<1> QED
  BY <1>14 DEF E

\* The balances of a map of counters after an update.
LEMMA BalanceUpdate ==
    ASSUME NEW m, CounterMap(m), NEW D,
           NEW op \in OP, NEW w \in Keyword, NEW ind \in Ind
    PROVE  BalanceIn(Incremented(m, w), Written(D, w, Counters(m, w), ind, op))
             = Index!Shifted(BalanceIn(m, D), op, w, ind)
<1> DEFINE c == Counters(m, w)
           n == Incremented(m, w)
           E == Written(D, w, c, ind, op)
           b == BalanceIn(m, D)
<1>1. /\ c \in Counter
      /\ Counters(n, w) = [fileCnt |-> c.fileCnt + 1, srcCnt |-> c.srcCnt]
      /\ \A v \in Keyword : v # w => Counters(n, v) = Counters(m, v)
  <2>1. /\ c \in Counter
        /\ DOMAIN n = DOMAIN m \cup {w}
        /\ n[w] = [fileCnt |-> c.fileCnt + 1, srcCnt |-> c.srcCnt]
        /\ Counters(n, w) = n[w]
        /\ \A v \in DOMAIN m : v # w => n[v] = m[v]
        /\ \A v \in Keyword : v # w => Counters(n, v) = Counters(m, v)
    BY IncrementedFacts
  <2> QED
    BY <2>1
<1>2. ASSUME NEW v \in Keyword, v # w, NEW x \in Ind
      PROVE  Balance(E, v, Counters(n, v), x) = Balance(D, v, Counters(m, v), x)
  BY <1>1, <1>2, OtherKeyword
<1>3. ASSUME NEW x \in Ind
      PROVE  Balance(E, w, Counters(n, w), x) =
               Balance(D, w, c, x)
                 + (IF x = ind THEN IF op = "INS" THEN 1 ELSE -1 ELSE 0)
  BY <1>1, UpdatedKeyword
<1>4. \A x \in Ind : Balance(D, w, c, x) \in Int
  BY <1>1, BalanceType
<1>5. b = [v \in Keyword |-> [x \in Ind |-> Balance(D, v, Counters(m, v), x)]]
  BY DEF BalanceIn
<1>6. Index!Shifted(b, op, w, ind) =
        [v \in Keyword |-> [x \in Ind |->
            IF v = w /\ x = ind
            THEN Balance(D, v, Counters(m, v), x) + Index!Weight(op)
            ELSE Balance(D, v, Counters(m, v), x)]]
  BY <1>5 DEF Index!Shifted
<1>7. Index!Weight(op) = IF op = "INS" THEN 1 ELSE -1
  BY DEF Index!Weight
<1> HIDE DEF c, n, E, b
<1>8. ASSUME NEW v \in Keyword, NEW x \in Ind
      PROVE  Balance(E, v, Counters(n, v), x) =
               IF v = w /\ x = ind
               THEN Balance(D, v, Counters(m, v), x) + Index!Weight(op)
               ELSE Balance(D, v, Counters(m, v), x)
  <2>1. CASE v # w
    BY <1>2, <2>1
  <2>2. CASE v = w
    BY <1>3, <1>4, <1>7, <2>2 DEF c
  <2> QED
    BY <2>1, <2>2
<1>9. BalanceIn(n, E) = [v \in Keyword |-> [x \in Ind |-> Balance(E, v, Counters(n, v), x)]]
  BY DEF BalanceIn
<1>10. BalanceIn(n, E) = Index!Shifted(b, op, w, ind)
  BY <1>6, <1>8, <1>9
<1> QED
  BY <1>10 DEF c, n, E, b

-----------------------------------------------------------------------------
(* A rewriting search compacts the balances of its keyword.                *)

LEMMA BalanceCleaning ==
    ASSUME TypeOK, EntriesAligned, NEW w \in Keyword, SearchCleaning(w)
    PROVE  BalanceIn(omap, DictW)' =
             [BalanceIn(omap, DictW) EXCEPT ![w] = Index!Compacted(@)]
<1> DEFINE n == Cardinality(Live(DictW, w, omap[w]))
           s == omap[w].srcCnt + 1
           d == [fileCnt |-> n, srcCnt |-> s]
           new == {getAESRandomValue(w, 0, s, i) : i \in 1 .. n}
           at(i) == getAESRandomValue(w, 0, s, i)
<1>1. /\ n \in Nat /\ s \in Nat
      /\ DOMAIN DictW' = DOMAIN DictW \cup new
      /\ \A a \in DOMAIN DictW : a \notin new => DictW'[a] = DictW[a]
      /\ DOMAIN omap' = DOMAIN omap
      /\ omap'[w] = d
      /\ \A v \in DOMAIN omap : v # w => omap'[v] = omap[v]
  BY CleaningStep
<1>2. PICK f \in Bijection(1 .. n, Live(DictW, w, omap[w])) :
        \A i \in 1 .. n : DictW'[at(i)] =
                             Masked(f[i], "INS", getAESRandomValue(w, 1, s, i))
  BY CleaningStep
<1>3. w \in DOMAIN omap /\ w \in Recorded(omap)
  BY DEF SearchCleaning, Recorded
<1>4. /\ Counters(omap', w) = d
      /\ Counters(omap, w) = omap[w]
      /\ \A v \in Keyword : v # w => Counters(omap', v) = Counters(omap, v)
  BY <1>1, <1>3 DEF Counters
<1>5. ASSUME NEW v \in Keyword, v # w, NEW c, NEW x
      PROVE  Balance(DictW', v, c, x) = Balance(DictW, v, c, x)
  <2>1. \A i : getAESRandomValue(v, 0, c.srcCnt, i) \notin new
    BY <1>5, PRFInjective
  <2>2. Hits(DictW', v, c) = Hits(DictW, v, c)
    BY <1>1, <2>1 DEF Hits
  <2>3. \A o : Stored(DictW', v, c, x, o) = Stored(DictW, v, c, x, o)
    BY <1>1, <2>1, <2>2 DEF Stored, Hits
  <2> QED
    BY <2>3 DEF Balance
<1>6. ASSUME NEW i \in 1 .. n
      PROVE  /\ DictW'[at(i)].ind = f[i]
             /\ DictW'[at(i)].op = "INS"
             /\ at(i) \in DOMAIN DictW'
  <2> DEFINE e == Masked(f[i], "INS", getAESRandomValue(w, 1, s, i))
  <2>1. DictW'[at(i)] = e
    BY <1>2
  <2>2. e.ind = f[i] /\ e.op = "INS"
    BY DEF Masked
  <2>3. at(i) \in new
    OBVIOUS
  <2> HIDE DEF e, at, new
  <2> QED
    BY <1>1, <2>1, <2>2, <2>3
<1>7. Hits(DictW', w, d) = 1 .. n
  BY <1>6 DEF Hits
<1>8. ASSUME NEW x
      PROVE  /\ Stored(DictW', w, d, x, "INS") = {i \in 1 .. n : f[i] = x}
             /\ Stored(DictW', w, d, x, "DEL") = {}
  BY <1>6, <1>7 DEF Stored
<1>9. ASSUME NEW x \in Live(DictW, w, omap[w])
      PROVE  Balance(DictW', w, d, x) = 1
  <2>1. PICK i \in 1 .. n : f[i] = x
    BY <1>2 DEF Bijection, Injection, Surjection
  <2>2. \A j \in 1 .. n : f[j] = f[i] => j = i
    BY <1>2 DEF Bijection, Injection, IsInjective
  <2>3. {j \in 1 .. n : f[j] = x} = {i}
    BY <2>1, <2>2
  <2>4. Cardinality({i}) = 1
    BY FS_Singleton
  <2>5. Cardinality({}) = 0
    BY FS_EmptySet
  <2>6. /\ Cardinality(Stored(DictW', w, d, x, "INS")) = 1
        /\ Cardinality(Stored(DictW', w, d, x, "DEL")) = 0
    BY <1>8, <2>3, <2>4, <2>5
  <2> HIDE DEF d
  <2> QED
    BY <2>6 DEF Balance
<1>10. ASSUME NEW x, x \notin Live(DictW, w, omap[w])
       PROVE  Balance(DictW', w, d, x) = 0
  <2>1. {j \in 1 .. n : f[j] = x} = {}
    BY <1>2, <1>10 DEF Bijection, Injection, Surjection
  <2>2. Cardinality({}) = 0
    BY FS_EmptySet
  <2>3. /\ Cardinality(Stored(DictW', w, d, x, "INS")) = 0
        /\ Cardinality(Stored(DictW', w, d, x, "DEL")) = 0
    BY <1>8, <2>1, <2>2
  <2> HIDE DEF d
  <2> QED
    BY <2>3 DEF Balance
<1>11. ASSUME NEW x \in Ind
       PROVE  Balance(DictW', w, d, x) =
                IF Balance(DictW, w, omap[w], x) > 0 THEN 1 ELSE 0
  BY <1>3, <1>9, <1>10, LiveIsPositive
<1>12. BalanceIn(omap, DictW) =
         [v \in Keyword |-> [x \in Ind |-> Balance(DictW, v, Counters(omap, v), x)]]
  BY DEF BalanceIn
<1>13. BalanceIn(omap, DictW)' =
         [v \in Keyword |-> [x \in Ind |-> Balance(DictW', v, Counters(omap', v), x)]]
  BY DEF BalanceIn
<1>14. Index!Compacted(BalanceIn(omap, DictW)[w]) =
         [x \in Ind |-> IF Balance(DictW, w, omap[w], x) > 0 THEN 1 ELSE 0]
  BY <1>4, <1>12 DEF Index!Compacted
<1> HIDE DEF n, s, d, new, at
<1>15. BalanceIn(omap, DictW)' =
         [v \in Keyword |-> IF v = w THEN Index!Compacted(BalanceIn(omap, DictW)[w])
                                     ELSE BalanceIn(omap, DictW)[v]]
  <2>1. ASSUME NEW v \in Keyword, v # w, NEW x \in Ind
        PROVE  Balance(DictW', v, Counters(omap', v), x) =
                 Balance(DictW, v, Counters(omap, v), x)
    BY <1>4, <1>5, <2>1
  <2>2. ASSUME NEW x \in Ind
        PROVE  Balance(DictW', w, Counters(omap', w), x) =
                 IF Balance(DictW, w, omap[w], x) > 0 THEN 1 ELSE 0
    BY <1>4, <1>11
  <2>3. ASSUME NEW v \in Keyword
        PROVE  [x \in Ind |-> Balance(DictW', v, Counters(omap', v), x)] =
                 IF v = w THEN Index!Compacted(BalanceIn(omap, DictW)[w])
                          ELSE BalanceIn(omap, DictW)[v]
    <3>1. CASE v = w
      BY <1>14, <2>2, <3>1
    <3>2. CASE v # w
      BY <1>12, <2>1, <3>2
    <3> QED
      BY <3>1, <3>2
  <2> QED
    BY <1>13, <2>3
<1> QED
  BY <1>12, <1>15

-----------------------------------------------------------------------------
(* The steps.                                                              *)

LEMMA RefinesInit == Init => Index!AInit
<1> SUFFICES ASSUME Init PROVE Index!AInit
  OBVIOUS
<1>1. DOMAIN omap = {} /\ DOMAIN setupOMAP = {} /\ phase = "setup" /\ finalRes = {}
  BY DEF Init
<1>2. /\ BalanceIn(omap, DictW) = [w \in Keyword |-> [x \in Ind |-> 0]]
      /\ BalanceIn(setupOMAP, DictW) = [w \in Keyword |-> [x \in Ind |-> 0]]
  BY <1>1, EmptyMap
<1> QED
  BY <1>1, <1>2 DEF Index!AInit, Index!Zero

LEMMA RefinesNext == IInv /\ [Next]_vars => [Index!ANext]_(Index!avars)
<1> SUFFICES ASSUME IInv, [Next]_vars PROVE [Index!ANext]_(Index!avars)
  OBVIOUS
<1> USE DEF IInv
<1> DEFINE zero == [w \in Keyword |-> [x \in Ind |-> 0]]
           bal == BalanceIn(omap, DictW)
           stg == IF phase = "setup" THEN BalanceIn(setupOMAP, DictW) ELSE zero
<1>1. ASSUME NEW op \in OP, NEW w \in Keyword, NEW ind \in Ind,
             SetupUpdate(op, w, ind)
      PROVE  Index!AStage(op, w, ind)
  <2>1. /\ DictW' = Written(DictW, w, Counters(setupOMAP, w), ind, op)
        /\ setupOMAP' = Incremented(setupOMAP, w)
        /\ phase = "setup" /\ phase' = phase /\ omap' = omap
        /\ finalRes' = finalRes /\ DOMAIN omap = {}
    BY <1>1 DEF SetupUpdate, OmapIdle
  <2>2. BalanceIn(setupOMAP', DictW') = Index!Shifted(BalanceIn(setupOMAP, DictW), op, w, ind)
    BY <2>1, CounterMaps, BalanceUpdate
  <2>3. bal' = bal
    BY <2>1, EmptyMap
  <2> QED
    BY <2>1, <2>2, <2>3 DEF Index!AStage
<1>2. ASSUME NEW op \in OP, NEW w \in Keyword, NEW ind \in Ind,
             Update(op, w, ind)
      PROVE  Index!AUpdate(op, w, ind)
  <2>1. /\ DictW' = Written(DictW, w, Counters(omap, w), ind, op)
        /\ omap' = Incremented(omap, w)
        /\ phase = "live" \/ DOMAIN setupOMAP = {}
        /\ phase' = "live" /\ finalRes' = finalRes
    BY <1>2 DEF Update
  <2>2. BalanceIn(omap', DictW') = Index!Shifted(BalanceIn(omap, DictW), op, w, ind)
    BY <2>1, CounterMaps, BalanceUpdate
  <2>3. stg' = zero /\ stg = zero
    BY <2>1, EmptyMap
  <2> QED
    BY <2>1, <2>2, <2>3 DEF Index!AUpdate
<1>3. ASSUME NEW w \in Keyword, SearchUnknown(w)
      PROVE  Index!ASearch(w)
  <2>1. /\ w \notin DOMAIN omap /\ finalRes' = {}
        /\ UNCHANGED <<omap, setupOMAP, DictW, phase>>
    BY <1>3 DEF SearchUnknown
  <2>2. bal[w] = [x \in Ind |-> 0]
    BY <2>1, NoEntries DEF BalanceIn
  <2>3. Index!Positive(bal[w]) = {} /\ Index!Compacted(bal[w]) = bal[w]
    BY <2>2 DEF Index!Positive, Index!Compacted
  <2>4. bal' = bal /\ stg' = stg
    BY <2>1
  <2>5. [bal EXCEPT ![w] = Index!Compacted(@)] = bal
    BY <2>3 DEF BalanceIn
  <2> QED
    BY <2>1, <2>3, <2>4, <2>5 DEF Index!ASearch
<1>4. ASSUME NEW w \in Keyword, SearchPlain(w)
      PROVE  Index!ASearch(w)
  <2>1. /\ w \in Recorded(omap) /\ finalRes' = Live(DictW, w, omap[w])
        /\ ~DeleteFiles
        /\ UNCHANGED <<omap, setupOMAP, DictW, phase>>
    BY <1>4 DEF SearchPlain, Recorded
  <2>2. finalRes' = Index!Positive(bal[w])
    BY <2>1, LiveIsPositive DEF BalanceIn, Counters, Recorded, Index!Positive
  <2>3. bal' = bal /\ stg' = stg
    BY <2>1
  <2> QED
    BY <2>1, <2>2, <2>3 DEF Index!ASearch
<1>5. ASSUME NEW w \in Keyword, SearchCleaning(w)
      PROVE  Index!ASearch(w)
  <2>1. /\ w \in Recorded(omap) /\ finalRes' = Live(DictW, w, omap[w])
        /\ DeleteFiles /\ setupOMAP' = setupOMAP /\ phase' = phase
        /\ phase = "live"
    BY <1>5 DEF SearchCleaning, Recorded, OmapIdle, TypeOK
  <2>2. finalRes' = Index!Positive(bal[w])
    BY <2>1, LiveIsPositive DEF BalanceIn, Counters, Recorded, Index!Positive
  <2>3. bal' = [bal EXCEPT ![w] = Index!Compacted(@)]
    BY <1>5, BalanceCleaning
  <2>4. stg' = stg
    BY <2>1
  <2> QED
    BY <2>1, <2>2, <2>3, <2>4 DEF Index!ASearch
<1>6. CASE EndSetup
  <2>1. /\ phase = "setup" /\ phase' = "live" /\ DictW' = DictW
        /\ omap' = Put(setupOMAP, TestBid, TestValue) /\ finalRes' = finalRes
    BY <1>6 DEF EndSetup
  <2>2. \A v \in Keyword : Counters(omap', v) = Counters(setupOMAP, v)
    BY <2>1, ConstantsAssumption DEF Counters, Put
  <2>3. bal' = BalanceIn(setupOMAP, DictW)
    BY <2>1, <2>2 DEF BalanceIn
  <2>4. Index!AEndSetup
    BY <2>1, <2>3 DEF Index!AEndSetup, Index!Zero
  <2> QED
    BY <2>4 DEF Index!ANext
<1>7. CASE UNCHANGED vars
  BY <1>7 DEF vars, Index!avars, BalanceIn, Balance, Stored, Hits, Counters
<1>8. ASSUME NEW op \in OP, NEW w \in Keyword, NEW ind \in Ind,
             Index!AStage(op, w, ind) \/ Index!AUpdate(op, w, ind)
      PROVE  Index!ANext
  BY <1>8 DEF Index!ANext, Index!OP, OP
<1>9. ASSUME NEW w \in Keyword, Index!ASearch(w)
      PROVE  Index!ANext
  BY <1>9 DEF Index!ANext
<1> QED
  BY <1>1, <1>2, <1>3, <1>4, <1>5, <1>6, <1>7, <1>8, <1>9 DEF Next, Search

(***************************************************************************)
(* Mitra implements the abstract keyword index (RefinesIndex): in both     *)
(* modes Client::search answers by the balance of insertions and deletions *)
(* that Client::update recorded, for any number of keywords, identifiers,  *)
(* updates and generations.                                                *)
(***************************************************************************)
THEOREM Refinement == Spec => RefinesIndex
BY RefinesInit, RefinesNext, Invariance, PTL DEF Spec, RefinesIndex, Index!ASpec
=============================================================================
