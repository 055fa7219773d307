---------------------------- MODULE HorusProofs ----------------------------
(***************************************************************************)
(* Proofs about Horus for all keywords, identifiers, bounds and callers:   *)
(* the inductive invariant SlotInv, the type invariant and SlotsMatch.     *)
(* Then, for a caller that refills no slot during setup, the inductive     *)
(* invariant BoxInv of the boxes (ORAM_srch), which says what the binary   *)
(* search relies on, and that every step keeps it.  Last, SearchInv, of a  *)
(* search under way: that its probes end at the last access number of      *)
(* their slots, that it returns what is live, that no box is written       *)
(* twice, that Horus implements SSESet, and how many rounds it can take.   *)
(***************************************************************************)
EXTENDS Horus, NumberLemmas

-----------------------------------------------------------------------------
(* The inductive invariant.                                                *)

Counter ==
    [UpdtCnt : Nat, SrchCnt : 0 .. MaxSrch, Access : Nat \ {0},
     LastIND : Ind \cup {None}, latestUpdatedCounter : Nat \cup {None}]

IndEntry == [slot : Nat \cup {-1}, acc : Nat \ {0}]

SlotEntry == [ind : Ind, acc : Nat \ {0}]

IsMap(m, K, V) == DOMAIN m \subseteq K /\ \A k \in DOMAIN m : m[k] \in V

MapTypes ==
    /\ IsMap(CNTs, Keyword, Counter)
    /\ IsMap(byInd, (DOMAIN CNTs) \X Ind, IndEntry)
    /\ IsMap(bySlot, (DOMAIN CNTs) \X (Nat \ {0}), SlotEntry)

Types ==
    /\ MapTypes
    /\ empty \in 0 .. Space
    /\ phase \in {"setup", "live"}
    /\ searching \in DOMAIN CNTs \cup {None}
    /\ DOMAIN probe = IF searching = None THEN {} ELSE 1 .. CNTs[searching].UpdtCnt
    /\ result \in Seq(Ind)
    /\ finalRes \subseteq Ind
    /\ thrown \in {None, "stoi", "full"}
    /\ live \in [Keyword -> SUBSET Ind]

\* The slots of w and the identifiers that have one are in bijection.
Paired(w) ==
    /\ \A i \in Slots(w) :
          /\ <<w, i>> \in DOMAIN bySlot
          /\ <<w, bySlot[<<w, i>>].ind>> \in DOMAIN byInd
          /\ byInd[<<w, bySlot[<<w, i>>].ind>>] = [slot |-> i, acc |-> bySlot[<<w, i>>].acc]
    /\ \A x \in Ind :
          Present(w, x) => /\ byInd[<<w, x>>].slot \in Slots(w)
                           /\ bySlot[<<w, byInd[<<w, x>>].slot>>].ind = x
    /\ Slots(w) # {} => CNTs[w].LastIND = bySlot[<<w, CNTs[w].UpdtCnt>>].ind
    /\ live[w] = {x \in Ind : Present(w, x)}

SlotInv == Types /\ \A w \in Keyword : Paired(w)

-----------------------------------------------------------------------------
(* The operators of the model.                                             *)

\* Put changes one key and keeps the others.
LEMMA PutFact ==
    ASSUME NEW m, NEW k, NEW v
    PROVE  /\ DOMAIN Put(m, k, v) = DOMAIN m \cup {k}
           /\ Put(m, k, v)[k] = v
           /\ \A j \in DOMAIN m : j # k => Put(m, k, v)[j] = m[j]
BY DEF Put

LEMMA PutMap ==
    ASSUME NEW m, NEW K, NEW V, IsMap(m, K, V), NEW k \in K, NEW v \in V
    PROVE  IsMap(Put(m, k, v), K, V)
BY DEF IsMap, Put

LEMMA WiderMap ==
    ASSUME NEW m, NEW K, NEW V, IsMap(m, K, V), NEW L, K \subseteq L
    PROVE  IsMap(m, L, V)
BY DEF IsMap

LEMMA CountersType ==
    ASSUME Types, NEW w \in Keyword
    PROVE  Counters(w) \in Counter
BY HorusAssumption DEF Types, MapTypes, IsMap, Counters, NoCounters, Counter

LEMMA LargerType ==
    ASSUME NEW m \in Nat, NEW n \in Nat
    PROVE  /\ Larger(m, n) \in Nat /\ Larger(m, n) >= m /\ Larger(m, n) >= n
           /\ Larger(m, n) = m \/ Larger(m, n) = n
BY DEF Larger

\* What stays of a keyword that a step does not concern.
SlotsKept(v) ==
    /\ v \in DOMAIN CNTs' <=> v \in DOMAIN CNTs
    /\ v \in DOMAIN CNTs => /\ CNTs'[v].UpdtCnt = CNTs[v].UpdtCnt
                            /\ CNTs'[v].LastIND = CNTs[v].LastIND
    /\ \A y : /\ <<v, y>> \in DOMAIN byInd' <=> <<v, y>> \in DOMAIN byInd
              /\ <<v, y>> \in DOMAIN byInd => byInd'[<<v, y>>] = byInd[<<v, y>>]
              /\ <<v, y>> \in DOMAIN bySlot' <=> <<v, y>> \in DOMAIN bySlot
              /\ <<v, y>> \in DOMAIN bySlot => bySlot'[<<v, y>>] = bySlot[<<v, y>>]
    /\ live'[v] = live[v]

LEMMA PairedKept ==
    ASSUME Types, NEW v \in Keyword, Paired(v), SlotsKept(v)
    PROVE  Paired(v)'
<1>1. Slots(v)' = Slots(v)
  BY DEF Slots, SlotsKept
<1>2. \A x \in Ind : Present(v, x)' <=> Present(v, x)
  BY DEF Present, SlotsKept
<1>3. ASSUME NEW i \in Slots(v)
      PROVE  /\ <<v, i>> \in DOMAIN bySlot'
             /\ <<v, bySlot'[<<v, i>>].ind>> \in DOMAIN byInd'
             /\ byInd'[<<v, bySlot'[<<v, i>>].ind>>]
                  = [slot |-> i, acc |-> bySlot'[<<v, i>>].acc]
  <2>1. /\ <<v, i>> \in DOMAIN bySlot
        /\ <<v, bySlot[<<v, i>>].ind>> \in DOMAIN byInd
        /\ byInd[<<v, bySlot[<<v, i>>].ind>>] = [slot |-> i, acc |-> bySlot[<<v, i>>].acc]
    BY DEF Paired
  <2>2. <<v, i>> \in DOMAIN bySlot' /\ bySlot'[<<v, i>>] = bySlot[<<v, i>>]
    BY <2>1 DEF SlotsKept
  <2>3. ASSUME NEW x, <<v, x>> \in DOMAIN byInd
        PROVE  <<v, x>> \in DOMAIN byInd' /\ byInd'[<<v, x>>] = byInd[<<v, x>>]
    BY <2>3 DEF SlotsKept
  <2> QED
    BY <2>1, <2>2, <2>3
<1>4. ASSUME NEW x \in Ind, Present(v, x)
      PROVE  /\ byInd'[<<v, x>>].slot \in Slots(v)
             /\ bySlot'[<<v, byInd'[<<v, x>>].slot>>].ind = x
  <2>1. byInd'[<<v, x>>] = byInd[<<v, x>>]
    BY <1>4 DEF Present, SlotsKept
  <2>2. /\ byInd[<<v, x>>].slot \in Slots(v)
        /\ bySlot[<<v, byInd[<<v, x>>].slot>>].ind = x
    BY <1>4 DEF Paired
  <2>3. <<v, byInd[<<v, x>>].slot>> \in DOMAIN bySlot
    BY <2>2 DEF Paired
  <2> QED
    BY <2>1, <2>2, <2>3 DEF SlotsKept
<1>5. Slots(v) # {} => CNTs'[v].LastIND = bySlot'[<<v, CNTs'[v].UpdtCnt>>].ind
  <2> SUFFICES ASSUME Slots(v) # {}
               PROVE  CNTs'[v].LastIND = bySlot'[<<v, CNTs'[v].UpdtCnt>>].ind
    OBVIOUS
  <2>1. v \in DOMAIN CNTs /\ CNTs[v].UpdtCnt \in Slots(v)
    BY DEF Slots, Types, MapTypes, IsMap, Counter
  <2>2. <<v, CNTs[v].UpdtCnt>> \in DOMAIN bySlot
    BY <2>1 DEF Paired
  <2> QED
    BY <2>1, <2>2 DEF Paired, SlotsKept
<1>6. live'[v] = {x \in Ind : Present(v, x)'}
  BY <1>2 DEF Paired, SlotsKept
<1> QED
  BY <1>1, <1>2, <1>3, <1>4, <1>5, <1>6 DEF Paired

\* The empty maps of a new client.
LEMMA InitSlotInv == Init => SlotInv
BY HorusAssumption DEF Init, SlotInv, Types, MapTypes, IsMap, Paired, Empty, Slots, Present

-----------------------------------------------------------------------------
(* Insertions and removals keep the two directions of OMAP_updt inverse.   *)

\* What both forms of insertion do with the counters d and access number a.
Place(w, x, a, d) ==
    /\ d.UpdtCnt = Counters(w).UpdtCnt + 1 /\ d.LastIND = x
    /\ CNTs' = Put(CNTs, w, d)
    /\ byInd' = Put(byInd, <<w, x>>, [slot |-> d.UpdtCnt, acc |-> a])
    /\ bySlot' = Put(bySlot, <<w, d.UpdtCnt>>, [ind |-> x, acc |-> a])
    /\ live' = [live EXCEPT ![w] = @ \cup {x}]

\* An absent identifier gets the next slot.
LEMMA Placed ==
    ASSUME SlotInv, NEW w \in Keyword, NEW x \in Ind, ~Present(w, x),
           NEW a \in Nat \ {0}, NEW d \in Counter, Place(w, x, a, d)
    PROVE  MapTypes' /\ \A v \in Keyword : Paired(v)'
<1> DEFINE n == d.UpdtCnt
<1>0. Types
  BY DEF SlotInv
<1>1. /\ n \in Nat \ {0}
      /\ Slots(w) = 1 .. n - 1
      /\ n \notin Slots(w)
  <2>1. Counters(w).UpdtCnt \in Nat
    BY <1>0, CountersType DEF Counter
  <2>2. Slots(w) = 1 .. Counters(w).UpdtCnt
    BY DEF Slots, Counters, NoCounters
  <2> QED
    BY <2>1, <2>2 DEF Place
<1>2. /\ DOMAIN CNTs' = DOMAIN CNTs \cup {w} /\ CNTs'[w] = d
      /\ \A v \in DOMAIN CNTs : v # w => CNTs'[v] = CNTs[v]
  BY DEF Place, Put
<1>3. /\ DOMAIN byInd' = DOMAIN byInd \cup {<<w, x>>}
      /\ byInd'[<<w, x>>] = [slot |-> n, acc |-> a]
      /\ \A k \in DOMAIN byInd : k # <<w, x>> => byInd'[k] = byInd[k]
  BY DEF Place, Put
<1>4. /\ DOMAIN bySlot' = DOMAIN bySlot \cup {<<w, n>>}
      /\ bySlot'[<<w, n>>] = [ind |-> x, acc |-> a]
      /\ \A k \in DOMAIN bySlot : k # <<w, n>> => bySlot'[k] = bySlot[k]
  BY DEF Place, Put
<1>5. live'[w] = live[w] \cup {x} /\ \A v \in Keyword : v # w => live'[v] = live[v]
  BY <1>0 DEF Types, Place
<1>6. Slots(w)' = 1 .. n
  BY <1>2 DEF Slots
<1> HIDE DEF n
<1>7. MapTypes'
  <2>0. MapTypes
    BY <1>0 DEF Types
  <2>1. IsMap(CNTs', Keyword, Counter)
    BY <2>0, PutMap DEF MapTypes, Place
  <2>2. IsMap(byInd', (DOMAIN CNTs') \X Ind, IndEntry)
    <3>1. (DOMAIN CNTs) \X Ind \subseteq (DOMAIN CNTs') \X Ind
      BY <1>2
    <3>2. IsMap(byInd, (DOMAIN CNTs') \X Ind, IndEntry)
      BY <2>0, <3>1, WiderMap DEF MapTypes
    <3>3. <<w, x>> \in (DOMAIN CNTs') \X Ind /\ [slot |-> n, acc |-> a] \in IndEntry
      BY <1>1, <1>2 DEF IndEntry
    <3> QED
      BY <3>2, <3>3, PutMap DEF n, Place
  <2>3. IsMap(bySlot', (DOMAIN CNTs') \X (Nat \ {0}), SlotEntry)
    <3>1. (DOMAIN CNTs) \X (Nat \ {0}) \subseteq (DOMAIN CNTs') \X (Nat \ {0})
      BY <1>2
    <3>2. IsMap(bySlot, (DOMAIN CNTs') \X (Nat \ {0}), SlotEntry)
      BY <2>0, <3>1, WiderMap DEF MapTypes
    <3>3. <<w, n>> \in (DOMAIN CNTs') \X (Nat \ {0}) /\ [ind |-> x, acc |-> a] \in SlotEntry
      BY <1>1, <1>2 DEF SlotEntry
    <3> QED
      BY <3>2, <3>3, PutMap DEF n, Place
  <2> QED
    BY <2>1, <2>2, <2>3 DEF MapTypes
<1>8. ASSUME NEW v \in Keyword, v # w PROVE Paired(v)'
  <2>1. Paired(v)
    BY DEF SlotInv
  <2>2. SlotsKept(v)
    BY <1>2, <1>3, <1>4, <1>5, <1>8 DEF SlotsKept
  <2> QED
    BY <1>0, <2>1, <2>2, PairedKept
<1>9. Paired(w)'
  <2>0. Paired(w)
    BY DEF SlotInv
  <2>1. ASSUME NEW i \in 1 .. n - 1
        PROVE  /\ <<w, i>> \in DOMAIN bySlot
               /\ <<w, bySlot[<<w, i>>].ind>> \in DOMAIN byInd
               /\ byInd[<<w, bySlot[<<w, i>>].ind>>] = [slot |-> i, acc |-> bySlot[<<w, i>>].acc]
               /\ bySlot'[<<w, i>>] = bySlot[<<w, i>>]
               /\ bySlot[<<w, i>>].ind # x
               /\ byInd'[<<w, bySlot[<<w, i>>].ind>>] = byInd[<<w, bySlot[<<w, i>>].ind>>]
    <3>1. /\ <<w, i>> \in DOMAIN bySlot
          /\ <<w, bySlot[<<w, i>>].ind>> \in DOMAIN byInd
          /\ byInd[<<w, bySlot[<<w, i>>].ind>>] = [slot |-> i, acc |-> bySlot[<<w, i>>].acc]
      BY <1>1, <2>0 DEF Paired
    <3>2. bySlot'[<<w, i>>] = bySlot[<<w, i>>]
      BY <1>1, <1>4, <3>1
    <3>3. bySlot[<<w, i>>].ind # x
      BY <1>1, <3>1 DEF Present
    <3> QED
      BY <1>3, <3>1, <3>2, <3>3
  <2>2. ASSUME NEW y \in Ind, y # x
        PROVE  /\ Present(w, y)' <=> Present(w, y)
               /\ Present(w, y) => byInd'[<<w, y>>] = byInd[<<w, y>>]
    BY <1>3, <2>2 DEF Present
  <2>3. Present(w, x)'
    BY <1>1, <1>3 DEF Present
  <2>4. ASSUME NEW i \in 1 .. n
        PROVE  /\ <<w, i>> \in DOMAIN bySlot'
               /\ <<w, bySlot'[<<w, i>>].ind>> \in DOMAIN byInd'
               /\ byInd'[<<w, bySlot'[<<w, i>>].ind>>]
                    = [slot |-> i, acc |-> bySlot'[<<w, i>>].acc]
    <3>1. CASE i = n
      BY <1>3, <1>4, <3>1
    <3>2. CASE i # n
      <4>1. i \in 1 .. n - 1
        BY <1>1, <3>2
      <4>2. /\ <<w, i>> \in DOMAIN bySlot
            /\ bySlot'[<<w, i>>] = bySlot[<<w, i>>]
            /\ <<w, bySlot[<<w, i>>].ind>> \in DOMAIN byInd
            /\ byInd'[<<w, bySlot[<<w, i>>].ind>>] = [slot |-> i, acc |-> bySlot[<<w, i>>].acc]
        BY <2>1, <4>1
      <4> QED
        BY <1>3, <1>4, <4>2
    <3> QED
      BY <3>1, <3>2
  <2>5. ASSUME NEW y \in Ind, Present(w, y)'
        PROVE  /\ byInd'[<<w, y>>].slot \in 1 .. n
               /\ bySlot'[<<w, byInd'[<<w, y>>].slot>>].ind = y
    <3>1. CASE y = x
      BY <1>1, <1>3, <1>4, <3>1
    <3>2. CASE y # x
      <4>1. /\ byInd'[<<w, y>>] = byInd[<<w, y>>]
            /\ byInd[<<w, y>>].slot \in 1 .. n - 1
            /\ bySlot[<<w, byInd[<<w, y>>].slot>>].ind = y
        BY <1>1, <2>0, <2>2, <2>5, <3>2 DEF Paired
      <4>2. bySlot'[<<w, byInd[<<w, y>>].slot>>] = bySlot[<<w, byInd[<<w, y>>].slot>>]
        BY <2>1, <4>1
      <4> QED
        BY <1>1, <4>1, <4>2
    <3> QED
      BY <3>1, <3>2
  <2>6. live'[w] = {y \in Ind : Present(w, y)'}
    BY <1>5, <2>0, <2>2, <2>3 DEF Paired
  <2>7. CNTs'[w].LastIND = bySlot'[<<w, CNTs'[w].UpdtCnt>>].ind
    BY <1>2, <1>4 DEF n, Place
  <2> QED
    BY <1>6, <2>4, <2>5, <2>6, <2>7 DEF Paired
<1> QED
  BY <1>7, <1>8, <1>9

\* What OMAP_updt and CNTs say of an identifier that is present.
LEMMA PresentFacts ==
    ASSUME SlotInv, NEW w \in Keyword, NEW x \in Ind, Present(w, x)
    PROVE  LET e == byInd[<<w, x>>]
               n == CNTs[w].UpdtCnt
               last == CNTs[w].LastIND
           IN  /\ w \in DOMAIN CNTs /\ CNTs[w] \in Counter
               /\ n \in Nat \ {0} /\ Slots(w) = 1 .. n
               /\ <<w, x>> \in DOMAIN byInd /\ e \in IndEntry
               /\ e.slot \in 1 .. n
               /\ <<w, e.slot>> \in DOMAIN bySlot
               /\ bySlot[<<w, e.slot>>] = [ind |-> x, acc |-> e.acc]
               /\ <<w, n>> \in DOMAIN bySlot
               /\ bySlot[<<w, n>>].ind = last /\ last \in Ind
               /\ <<w, last>> \in DOMAIN byInd /\ byInd[<<w, last>>].slot = n
               /\ Moves(w, x) <=> e.slot # n
               /\ Moves(w, x) <=> last # x
<1> DEFINE e == byInd[<<w, x>>]
           n == CNTs[w].UpdtCnt
           last == CNTs[w].LastIND
<1>0. MapTypes /\ Paired(w)
  BY DEF SlotInv, Types
<1>1. /\ <<w, x>> \in DOMAIN byInd /\ e \in IndEntry
      /\ w \in DOMAIN CNTs /\ CNTs[w] \in Counter
  BY <1>0 DEF MapTypes, IsMap, Present
<1>2. n \in Nat /\ Slots(w) = 1 .. n
  BY <1>1 DEF Slots, Counter
<1>3. e.slot \in 1 .. n /\ bySlot[<<w, e.slot>>].ind = x
  BY <1>0, <1>2 DEF Paired
<1>4. n \in Nat \ {0}
  BY <1>2, <1>3
<1>5. ASSUME NEW i \in 1 .. n
      PROVE  /\ <<w, i>> \in DOMAIN bySlot
             /\ bySlot[<<w, i>>] \in SlotEntry
             /\ <<w, bySlot[<<w, i>>].ind>> \in DOMAIN byInd
             /\ byInd[<<w, bySlot[<<w, i>>].ind>>] = [slot |-> i, acc |-> bySlot[<<w, i>>].acc]
  BY <1>0, <1>2 DEF Paired, MapTypes, IsMap
<1>6. /\ <<w, e.slot>> \in DOMAIN bySlot
      /\ bySlot[<<w, e.slot>>] \in SlotEntry
      /\ e = [slot |-> e.slot, acc |-> bySlot[<<w, e.slot>>].acc]
  BY <1>3, <1>5
<1>7. bySlot[<<w, e.slot>>] = [ind |-> x, acc |-> e.acc]
  BY <1>3, <1>6 DEF SlotEntry
<1>8. bySlot[<<w, n>>].ind = last
  BY <1>0, <1>2, <1>4 DEF Paired
<1>9. /\ <<w, n>> \in DOMAIN bySlot
      /\ last \in Ind
      /\ <<w, last>> \in DOMAIN byInd /\ byInd[<<w, last>>].slot = n
  <2>1. n \in 1 .. n
    BY <1>4
  <2>2. /\ <<w, n>> \in DOMAIN bySlot
        /\ bySlot[<<w, n>>] \in SlotEntry
        /\ <<w, bySlot[<<w, n>>].ind>> \in DOMAIN byInd
        /\ byInd[<<w, bySlot[<<w, n>>].ind>>] = [slot |-> n, acc |-> bySlot[<<w, n>>].acc]
    BY <1>5, <2>1
  <2> QED
    BY <1>8, <2>2 DEF SlotEntry
<1>10. Moves(w, x) <=> e.slot # n
  BY <1>3, <1>4 DEF Moves
<1>11. last # x <=> e.slot # n
  BY <1>3, <1>8, <1>9
<1> QED
  BY <1>1, <1>2, <1>3, <1>4, <1>6, <1>7, <1>8, <1>9, <1>10, <1>11

\* The maps after a removal, for each of the two cases of the code.
LEMMA RemovedMaps ==
    ASSUME SlotInv, NEW w \in Keyword, NEW x \in Ind, Present(w, x), Removed(w, x)
    PROVE  LET e == byInd[<<w, x>>]
               n == CNTs[w].UpdtCnt
               last == CNTs[w].LastIND
           IN  /\ DOMAIN CNTs' = DOMAIN CNTs
               /\ CNTs'[w] \in Counter /\ CNTs'[w].UpdtCnt = n - 1
               /\ CNTs'[w].SrchCnt = CNTs[w].SrchCnt
               /\ CNTs'[w].latestUpdatedCounter = CNTs[w].latestUpdatedCounter
               /\ CNTs'[w].Access >= CNTs[w].Access
               /\ Moves(w, x) => CNTs'[w].Access >= e.acc + 1
               /\ n > 1 => CNTs'[w].LastIND = bySlot'[<<w, n - 1>>].ind
               /\ \A v \in DOMAIN CNTs : v # w => CNTs'[v] = CNTs[v]
               /\ DOMAIN byInd' = DOMAIN byInd
               /\ byInd'[<<w, x>>] = [slot |-> -1, acc |-> e.acc + 1]
               /\ Moves(w, x) => byInd'[<<w, last>>] = [slot |-> e.slot, acc |-> e.acc + 1]
               /\ \A k \in DOMAIN byInd :
                     k # <<w, x>> /\ k # <<w, last>> => byInd'[k] = byInd[k]
               /\ DOMAIN bySlot' = DOMAIN bySlot
               /\ Moves(w, x) => bySlot'[<<w, e.slot>>] = [ind |-> last, acc |-> e.acc + 1]
               /\ \A k \in DOMAIN bySlot :
                     k # <<w, e.slot>> \/ ~Moves(w, x) => bySlot'[k] = bySlot[k]
               /\ IsMap(byInd', (DOMAIN CNTs) \X Ind, IndEntry)
               /\ IsMap(bySlot', (DOMAIN CNTs) \X (Nat \ {0}), SlotEntry)
<1> DEFINE e == byInd[<<w, x>>]
           n == CNTs[w].UpdtCnt
           last == CNTs[w].LastIND
           k0 == <<w, x>>
           k1 == <<w, last>>
           k2 == <<w, e.slot>>
<1>0. MapTypes
  BY DEF SlotInv, Types
<1>1. /\ w \in DOMAIN CNTs /\ CNTs[w] \in Counter
      /\ n \in Nat \ {0}
      /\ k0 \in DOMAIN byInd /\ e \in IndEntry
      /\ e.slot \in 1 .. n
      /\ k2 \in DOMAIN bySlot
      /\ <<w, n>> \in DOMAIN bySlot
      /\ last \in Ind
      /\ k1 \in DOMAIN byInd
      /\ Moves(w, x) <=> e.slot # n
      /\ Moves(w, x) <=> last # x
  BY PresentFacts
<1>2. e.acc + 1 \in Nat \ {0} /\ e.slot \in Nat
  BY <1>1 DEF IndEntry
<1>3. /\ bySlot' = IF Moves(w, x) THEN Put(bySlot, k2, [ind |-> last, acc |-> e.acc + 1]) ELSE bySlot
      /\ bySlot' = SlotsAfter(w, x)
  BY DEF Removed, SlotsAfter
<1>4. byInd' = IF Moves(w, x)
               THEN Put(Put(byInd, k0, [slot |-> -1, acc |-> e.acc + 1]),
                        k1, [slot |-> e.slot, acc |-> e.acc + 1])
               ELSE Put(byInd, k0, [slot |-> -1, acc |-> e.acc + 1])
  BY DEF Removed, IndsAfter
<1>5. /\ DOMAIN bySlot' = DOMAIN bySlot
      /\ Moves(w, x) => bySlot'[k2] = [ind |-> last, acc |-> e.acc + 1]
      /\ \A k \in DOMAIN bySlot : k # k2 \/ ~Moves(w, x) => bySlot'[k] = bySlot[k]
  BY <1>1, <1>3 DEF Put
<1>6. /\ DOMAIN byInd' = DOMAIN byInd
      /\ byInd'[k0] = [slot |-> -1, acc |-> e.acc + 1]
      /\ Moves(w, x) => byInd'[k1] = [slot |-> e.slot, acc |-> e.acc + 1]
      /\ \A k \in DOMAIN byInd : k # k0 /\ k # k1 => byInd'[k] = byInd[k]
  <2>1. CASE Moves(w, x)
    <3>1. k0 # k1
      BY <1>1, <2>1
    <3> QED
      BY <1>1, <1>4, <2>1, <3>1 DEF Put
  <2>2. CASE ~Moves(w, x)
    BY <1>1, <1>4, <2>2 DEF Put
  <2> QED
    BY <2>1, <2>2
<1>7. IsMap(bySlot', (DOMAIN CNTs) \X (Nat \ {0}), SlotEntry)
  <2>1. [ind |-> last, acc |-> e.acc + 1] \in SlotEntry
    BY <1>1, <1>2 DEF SlotEntry
  <2>2. k2 \in (DOMAIN CNTs) \X (Nat \ {0})
    BY <1>1
  <2> HIDE DEF e, last, k2
  <2> QED
    BY <1>0, <1>3, <2>1, <2>2, PutMap DEF MapTypes
<1>8. IsMap(byInd', (DOMAIN CNTs) \X Ind, IndEntry)
  <2>1. /\ [slot |-> -1, acc |-> e.acc + 1] \in IndEntry
        /\ [slot |-> e.slot, acc |-> e.acc + 1] \in IndEntry
    BY <1>2 DEF IndEntry
  <2>2. k0 \in (DOMAIN CNTs) \X Ind /\ k1 \in (DOMAIN CNTs) \X Ind
    BY <1>1
  <2> HIDE DEF e, last, k0, k1
  <2>3. IsMap(Put(byInd, k0, [slot |-> -1, acc |-> e.acc + 1]), (DOMAIN CNTs) \X Ind, IndEntry)
    BY <1>0, <2>1, <2>2, PutMap DEF MapTypes
  <2> QED
    BY <1>4, <2>1, <2>2, <2>3, PutMap
<1>9. /\ DOMAIN CNTs' = DOMAIN CNTs
      /\ \A v \in DOMAIN CNTs : v # w => CNTs'[v] = CNTs[v]
      /\ CNTs'[w] = CountersAfter(w, x)
  BY <1>1 DEF Removed, Put
<1>10. n > 1 => SlotsAfter(w, x)[<<w, n - 1>>].ind \in Ind
  <2> SUFFICES ASSUME n > 1 PROVE bySlot'[<<w, n - 1>>].ind \in Ind
    BY <1>3
  <2>1. n - 1 \in Slots(w)
    BY <1>1 DEF Slots
  <2>2. <<w, n - 1>> \in DOMAIN bySlot
    BY <2>1 DEF SlotInv, Paired
  <2>3. bySlot'[<<w, n - 1>>] \in SlotEntry
    BY <1>5, <1>7, <2>2 DEF IsMap
  <2> QED
    BY <2>3 DEF SlotEntry
<1>11. /\ CNTs'[w] \in Counter /\ CNTs'[w].UpdtCnt = n - 1
       /\ CNTs'[w].SrchCnt = CNTs[w].SrchCnt
       /\ CNTs'[w].latestUpdatedCounter = CNTs[w].latestUpdatedCounter
       /\ CNTs'[w].Access >= CNTs[w].Access
       /\ Moves(w, x) => CNTs'[w].Access >= e.acc + 1
       /\ n > 1 => CNTs'[w].LastIND = bySlot'[<<w, n - 1>>].ind
  <2> DEFINE A == IF Moves(w, x) THEN Larger(CNTs[w].Access, e.acc + 1) ELSE CNTs[w].Access
             i == IF n - 1 > 0 THEN SlotsAfter(w, x)[<<w, n - 1>>].ind ELSE None
  <2>1. CNTs'[w] = [CNTs[w] EXCEPT !.UpdtCnt = n - 1, !.Access = A, !.LastIND = i]
    BY <1>9 DEF CountersAfter
  <2>2. /\ A \in Nat \ {0} /\ A >= CNTs[w].Access
        /\ Moves(w, x) => A >= e.acc + 1
    <3>1. CNTs[w].Access \in Nat \ {0}
      BY <1>1 DEF Counter
    <3> QED
      BY <1>2, <3>1 DEF Larger
  <2>3. i \in Ind \cup {None} /\ (n > 1 => i = bySlot'[<<w, n - 1>>].ind)
    BY <1>1, <1>3, <1>10
  <2>4. n - 1 \in Nat
    BY <1>1
  <2> HIDE DEF A, i, n, e
  <2> QED
    BY <1>1, <2>1, <2>2, <2>3, <2>4 DEF Counter
<1> QED
  BY <1>5, <1>6, <1>7, <1>8, <1>9, <1>11

\* The last identifier moves into the slot of the one that is removed.
LEMMA Freed ==
    ASSUME SlotInv, NEW w \in Keyword, NEW x \in Ind, Present(w, x), Removed(w, x)
    PROVE  MapTypes' /\ \A v \in Keyword : Paired(v)'
<1> DEFINE e == byInd[<<w, x>>]
           n == CNTs[w].UpdtCnt
           last == CNTs[w].LastIND
<1>0. Types /\ MapTypes
  BY DEF SlotInv, Types
<1>1. /\ w \in DOMAIN CNTs
      /\ n \in Nat \ {0} /\ Slots(w) = 1 .. n
      /\ e \in IndEntry /\ e.slot \in 1 .. n
      /\ bySlot[<<w, e.slot>>] = [ind |-> x, acc |-> e.acc]
      /\ <<w, e.slot>> \in DOMAIN bySlot
      /\ <<w, x>> \in DOMAIN byInd
      /\ bySlot[<<w, n>>].ind = last /\ last \in Ind
      /\ <<w, last>> \in DOMAIN byInd /\ byInd[<<w, last>>].slot = n
      /\ Moves(w, x) <=> e.slot # n
      /\ Moves(w, x) <=> last # x
  BY PresentFacts
<1>2. /\ DOMAIN CNTs' = DOMAIN CNTs
      /\ CNTs'[w] \in Counter /\ CNTs'[w].UpdtCnt = n - 1
      /\ n > 1 => CNTs'[w].LastIND = bySlot'[<<w, n - 1>>].ind
      /\ \A v \in DOMAIN CNTs : v # w => CNTs'[v] = CNTs[v]
  BY RemovedMaps
<1>3. /\ DOMAIN byInd' = DOMAIN byInd
      /\ byInd'[<<w, x>>] = [slot |-> -1, acc |-> e.acc + 1]
      /\ Moves(w, x) => byInd'[<<w, last>>] = [slot |-> e.slot, acc |-> e.acc + 1]
      /\ \A k \in DOMAIN byInd :
            k # <<w, x>> /\ k # <<w, last>> => byInd'[k] = byInd[k]
  BY RemovedMaps
<1>4. /\ DOMAIN bySlot' = DOMAIN bySlot
      /\ Moves(w, x) => bySlot'[<<w, e.slot>>] = [ind |-> last, acc |-> e.acc + 1]
      /\ \A k \in DOMAIN bySlot :
            k # <<w, e.slot>> \/ ~Moves(w, x) => bySlot'[k] = bySlot[k]
  BY RemovedMaps
<1>5. live'[w] = live[w] \ {x} /\ \A v \in Keyword : v # w => live'[v] = live[v]
  BY <1>0 DEF Types, Removed
<1>6. Slots(w)' = 1 .. n - 1
  BY <1>1, <1>2 DEF Slots
<1>7. MapTypes'
  <2>1. IsMap(CNTs', Keyword, Counter)
    BY <1>0, <1>2 DEF MapTypes, IsMap
  <2>2. /\ IsMap(byInd', (DOMAIN CNTs) \X Ind, IndEntry)
        /\ IsMap(bySlot', (DOMAIN CNTs) \X (Nat \ {0}), SlotEntry)
    BY RemovedMaps
  <2> QED
    BY <1>2, <2>1, <2>2 DEF MapTypes
<1> HIDE DEF e, n, last
<1>8. ASSUME NEW v \in Keyword, v # w PROVE Paired(v)'
  <2>1. Paired(v)
    BY DEF SlotInv
  <2>2. SlotsKept(v)
    BY <1>2, <1>3, <1>4, <1>5, <1>8 DEF SlotsKept
  <2> QED
    BY <1>0, <2>1, <2>2, PairedKept
<1>9. Paired(w)'
  <2>0. Paired(w)
    BY DEF SlotInv
  \* A slot other than those of x and of the last identifier.
  <2>1. ASSUME NEW i \in 1 .. n - 1, i # e.slot
        PROVE  LET y == bySlot[<<w, i>>].ind
               IN  /\ <<w, i>> \in DOMAIN bySlot
                   /\ <<w, y>> \in DOMAIN byInd
                   /\ byInd[<<w, y>>] = [slot |-> i, acc |-> bySlot[<<w, i>>].acc]
                   /\ bySlot'[<<w, i>>] = bySlot[<<w, i>>]
                   /\ byInd'[<<w, y>>] = byInd[<<w, y>>]
                   /\ y # x /\ y # last
    <3> DEFINE y == bySlot[<<w, i>>].ind
    <3>1. i \in Slots(w) /\ i # n
      BY <1>1
    <3>2. /\ <<w, i>> \in DOMAIN bySlot
          /\ <<w, y>> \in DOMAIN byInd
          /\ byInd[<<w, y>>] = [slot |-> i, acc |-> bySlot[<<w, i>>].acc]
      BY <2>0, <3>1 DEF Paired
    <3>3. bySlot'[<<w, i>>] = bySlot[<<w, i>>]
      BY <1>4, <2>1, <3>2
    <3>4. y # x /\ y # last
      BY <1>1, <2>1, <3>1, <3>2 DEF e
    <3>5. byInd'[<<w, y>>] = byInd[<<w, y>>]
      BY <1>3, <3>2, <3>4
    <3> QED
      BY <3>2, <3>3, <3>4, <3>5
  <2>2. ASSUME NEW i \in 1 .. n - 1
        PROVE  /\ <<w, i>> \in DOMAIN bySlot'
               /\ <<w, bySlot'[<<w, i>>].ind>> \in DOMAIN byInd'
               /\ byInd'[<<w, bySlot'[<<w, i>>].ind>>]
                    = [slot |-> i, acc |-> bySlot'[<<w, i>>].acc]
    <3>1. CASE i = e.slot
      <4>1. Moves(w, x)
        BY <1>1, <3>1
      <4>2. bySlot'[<<w, i>>] = [ind |-> last, acc |-> e.acc + 1]
        BY <1>4, <3>1, <4>1
      <4>3. byInd'[<<w, last>>] = [slot |-> i, acc |-> e.acc + 1]
        BY <1>3, <3>1, <4>1
      <4> QED
        BY <1>1, <1>3, <1>4, <3>1, <4>2, <4>3
    <3>2. CASE i # e.slot
      <4>1. /\ <<w, i>> \in DOMAIN bySlot
            /\ <<w, bySlot[<<w, i>>].ind>> \in DOMAIN byInd
            /\ bySlot'[<<w, i>>] = bySlot[<<w, i>>]
            /\ byInd'[<<w, bySlot[<<w, i>>].ind>>] = [slot |-> i, acc |-> bySlot[<<w, i>>].acc]
        BY <2>1, <3>2
      <4> QED
        BY <1>3, <1>4, <4>1
    <3> QED
      BY <3>1, <3>2
  <2>3. ~Present(w, x)'
    BY <1>3 DEF Present
  <2>4. ASSUME NEW y \in Ind, y # x, y # last
        PROVE  /\ Present(w, y)' <=> Present(w, y)
               /\ Present(w, y) => byInd'[<<w, y>>] = byInd[<<w, y>>]
    BY <1>3, <2>4 DEF Present
  <2>5. ASSUME NEW y \in Ind, y = last, y # x
        PROVE  Present(w, y) /\ Present(w, y)'
    <3>1. byInd[<<w, y>>].slot # -1
      BY <1>1, <2>5
    <3>2. byInd'[<<w, y>>].slot # -1
      BY <1>1, <1>3, <2>5
    <3> QED
      BY <1>1, <1>3, <2>5, <3>1, <3>2 DEF Present
  <2>6. ASSUME NEW y \in Ind, Present(w, y)'
        PROVE  /\ byInd'[<<w, y>>].slot \in 1 .. n - 1
               /\ bySlot'[<<w, byInd'[<<w, y>>].slot>>].ind = y
    <3>0. y # x
      BY <2>3, <2>6
    <3>1. CASE y = last
      <4>1. Moves(w, x) /\ e.slot \in 1 .. n - 1
        BY <1>1, <3>0, <3>1
      <4> QED
        BY <1>3, <1>4, <3>1, <4>1
    <3>2. CASE y # last
      <4>1. /\ Present(w, y) /\ byInd'[<<w, y>>] = byInd[<<w, y>>]
        BY <2>4, <2>6, <3>0, <3>2
      <4> DEFINE j == byInd[<<w, y>>].slot
      <4>2. j \in 1 .. n /\ bySlot[<<w, j>>].ind = y
        BY <1>1, <2>0, <4>1 DEF Paired
      <4>3. j # n /\ j # e.slot
        BY <1>1, <3>0, <3>2, <4>2
      <4>4. j \in 1 .. n - 1
        BY <1>1, <4>2, <4>3
      <4> HIDE DEF j
      <4>5. bySlot'[<<w, j>>] = bySlot[<<w, j>>]
        BY <2>1, <4>3, <4>4
      <4> QED
        BY <4>1, <4>2, <4>4, <4>5 DEF j
    <3> QED
      BY <3>1, <3>2
  <2>7. live'[w] = {y \in Ind : Present(w, y)'}
    <3>1. \A y \in Ind : Present(w, y)' <=> y # x /\ Present(w, y)
      BY <2>3, <2>4, <2>5
    <3>2. live[w] = {y \in Ind : Present(w, y)}
      BY <2>0 DEF Paired
    <3> QED
      BY <1>5, <3>1, <3>2
  <2>8. Slots(w)' # {} => CNTs'[w].LastIND = bySlot'[<<w, CNTs'[w].UpdtCnt>>].ind
    BY <1>1, <1>2, <1>6
  <2> QED
    BY <1>6, <2>2, <2>6, <2>7, <2>8 DEF Paired
<1> QED
  BY <1>7, <1>8, <1>9

-----------------------------------------------------------------------------
(* The sets of boxes that are written, and the slots a round closes.       *)

LEMMA OpenedFinite ==
    ASSUME NEW w, NEW x, NEW slot, NEW srch, NEW acc
    PROVE  IsFiniteSet(Opened(w, x, slot, srch, acc))
<1>1. \A p : IsFiniteSet({p})
  BY FS_Singleton
<1>2. IsFiniteSet({})
  BY FS_EmptySet
<1> QED
  BY <1>1, <1>2, FS_Union DEF Opened

LEMMA InsertedFinite ==
    ASSUME NEW w, NEW x, NEW slot, NEW acc
    PROVE  IsFiniteSet(Inserted(w, x, slot, acc)) /\ Cardinality(Inserted(w, x, slot, acc)) \in Nat
<1>1. \A p : IsFiniteSet({p})
  BY FS_Singleton
<1>2. IsFiniteSet(Inserted(w, x, slot, acc))
  BY <1>1, OpenedFinite DEF Inserted
<1> QED
  BY <1>2, FS_CardinalityType

LEMMA ProbesFinite ==
    ASSUME Types
    PROVE  IsFiniteSet(DOMAIN probe)
<1>1. CASE searching = None
  BY <1>1, FS_EmptySet DEF Types
<1>2. CASE searching # None
  <2>1. CNTs[searching].UpdtCnt \in Nat
    BY <1>2 DEF Types, MapTypes, IsMap, Counter
  <2> QED
    BY <1>2, <2>1, FS_Interval DEF Types
<1> QED
  BY <1>1, <1>2

LEMMA RewrittenFinite ==
    ASSUME Types
    PROVE  IsFiniteSet(Rewritten) /\ Cardinality(Rewritten) \in Nat
<1> DEFINE B(i) == Opened(searching, probe[i].lastID, i, CNTs[searching].SrchCnt, probe[i].lastAcc)
           S == {B(i) : i \in DOMAIN probe}
           f == [i \in DOMAIN probe |-> B(i)]
<1>1. f \in Surjection(DOMAIN probe, S)
  BY DEF Surjection
<1>2. IsFiniteSet(S)
  BY <1>1, ProbesFinite, FS_Surjection
<1>3. \A T \in S : IsFiniteSet(T)
  BY OpenedFinite
<1>4. IsFiniteSet(UNION S)
  BY <1>2, <1>3, FS_UNION
<1>5. Rewritten = UNION S
  BY DEF Rewritten
<1> QED
  BY <1>4, <1>5, FS_CardinalityType

\* The slots whose probes a round closes.
Closing == {i \in DOMAIN probe : Advanced[i].foundItem /\ ~probe[i].foundItem}

\* NewlyFound lists them all, each once.
LEMMA NewlyFoundFact ==
    ASSUME Types
    PROVE  /\ IsFiniteSet(Closing) /\ Cardinality(Closing) \in Nat
           /\ DOMAIN NewlyFound = 1 .. Cardinality(Closing)
           /\ Range(NewlyFound) = Closing
<1> DEFINE n == Cardinality(Closing)
           F == [1 .. n -> Closing]
<1>1. IsFiniteSet(Closing) /\ n \in Nat
  <2>1. Closing \subseteq DOMAIN probe
    BY DEF Closing
  <2> QED
    BY <2>1, ProbesFinite, FS_Subset, FS_CardinalityType
<1>2. \E f \in F : IsInjective(f)
  <2>1. ExistsBijection(1 .. n, Closing)
    BY <1>1, FS_CardinalityType
  <2> QED
    BY <2>1 DEF ExistsBijection, Bijection, Injection
<1>3. NewlyFound \in F /\ IsInjective(NewlyFound)
  <2>1. NewlyFound = CHOOSE f \in F : IsInjective(f)
    BY DEF NewlyFound, Closing
  <2> HIDE DEF F
  <2> QED
    BY <1>2, <2>1
<1>4. NewlyFound \in Injection(1 .. n, Closing)
  BY <1>3 DEF Injection
<1>5. Cardinality(1 .. n) = n
  BY <1>1, FS_Interval
<1> HIDE DEF n
<1>6. NewlyFound \in Surjection(1 .. n, Closing)
  BY <1>1, <1>4, <1>5, FS_Injection DEF n
<1>7. Range(NewlyFound) = Closing
  BY <1>3, <1>6 DEF Surjection, Range
<1> QED
  BY <1>1, <1>3, <1>7 DEF n

-----------------------------------------------------------------------------
(* Every step keeps SlotInv, whatever the caller does during setup.        *)

\* The parts of the state that no map holds, for a step outside a search.
LEMMA QuietTypes ==
    ASSUME SlotInv, MapTypes', searching = None, UNCHANGED locals,
           empty' \in 0 .. Space, phase' \in {"setup", "live"}, UNCHANGED finalRes,
           thrown' \in {None, "stoi", "full"}, live' \in [Keyword -> SUBSET Ind]
    PROVE  Types'
BY DEF SlotInv, Types, locals

LEMMA PairedSame ==
    ASSUME SlotInv, UNCHANGED <<byInd, bySlot, live>>, DOMAIN CNTs' = DOMAIN CNTs,
           \A w \in DOMAIN CNTs : /\ CNTs'[w].UpdtCnt = CNTs[w].UpdtCnt
                                  /\ CNTs'[w].LastIND = CNTs[w].LastIND
    PROVE  \A v \in Keyword : Paired(v)'
<1> TAKE v \in Keyword
<1>1. Types /\ Paired(v)
  BY DEF SlotInv
<1>2. SlotsKept(v)
  BY DEF SlotsKept
<1> QED
  BY <1>1, <1>2, PairedKept

LEMMA SlotInvThrow ==
    ASSUME SlotInv, NEW e \in {"stoi", "full"}, Throw(e)
    PROVE  SlotInv'
<1>1. UNCHANGED <<CNTs, byInd, bySlot, empty, searching, probe, result, phase, finalRes, live>>
  BY DEF Throw, maps, locals
<1>2. Types'
  BY <1>1 DEF SlotInv, Types, MapTypes, Throw
<1>3. \A v \in Keyword : Paired(v)'
  BY <1>1, PairedSame
<1> QED
  BY <1>2, <1>3 DEF SlotInv

LEMMA SlotInvSetupInsert ==
    ASSUME SlotInv, NEW w \in Keyword, NEW x \in Ind, SetupInsert(w, x)
    PROVE  SlotInv'
<1> DEFINE c == IF w \in DOMAIN CNTs THEN CNTs[w]
                ELSE [NoCounters EXCEPT !.latestUpdatedCounter = None]
<1> PICK d : d = [c EXCEPT !.UpdtCnt = c.UpdtCnt + 1, !.LastIND = x]
  OBVIOUS
<1>0. Types /\ Paired(w)
  BY DEF SlotInv
<1>1. c \in Counter
  BY <1>0, HorusAssumption DEF Types, MapTypes, IsMap, NoCounters, Counter
<1>2. /\ d \in Counter /\ d.LastIND = x
      /\ d.UpdtCnt = c.UpdtCnt + 1
  <2> DEFINE n == c.UpdtCnt + 1
  <2>1. n \in Nat
    BY <1>1 DEF Counter
  <2> HIDE DEF c, n
  <2>2. LET dd == [c EXCEPT !.UpdtCnt = n, !.LastIND = x]
        IN  dd \in Counter /\ dd.LastIND = x /\ dd.UpdtCnt = n
    BY <1>1, <2>1 DEF Counter
  <2> QED
    BY <2>2 DEF n
<1>3. d.UpdtCnt = Counters(w).UpdtCnt + 1
  BY <1>2 DEF Counters, NoCounters
<1>4. ~Present(w, x)
  BY <1>0 DEF SetupInsert, Paired
<1>5. Place(w, x, 1, d)
  BY <1>2, <1>3 DEF SetupInsert, Place
<1>6. MapTypes' /\ \A v \in Keyword : Paired(v)'
  BY <1>2, <1>4, <1>5, Placed
<1>7. Types'
  <2>1. live' \in [Keyword -> SUBSET Ind]
    BY <1>0, <1>5 DEF Types, Place
  <2>2. /\ searching = None /\ UNCHANGED locals
        /\ empty' \in 0 .. Space /\ phase' \in {"setup", "live"} /\ UNCHANGED finalRes
        /\ thrown' \in {None, "stoi", "full"}
    BY <1>0 DEF SetupInsert, Idle, Types
  <2> QED
    BY <1>6, <2>1, <2>2, QuietTypes
<1> QED
  BY <1>6, <1>7 DEF SlotInv

LEMMA NextAccessType ==
    ASSUME SlotInv, NEW w \in Keyword, NEW slot
    PROVE  NextAccess(w, slot) \in Nat \ {0}
<1>1. <<w, slot>> \in DOMAIN bySlot => bySlot[<<w, slot>>] \in SlotEntry
  BY DEF SlotInv, Types, MapTypes, IsMap
<1> QED
  BY <1>1 DEF NextAccess, SlotEntry

\* The counters of an insertion that does not throw.
LEMMA CountedType ==
    ASSUME NEW c \in Counter, c.latestUpdatedCounter # None, NEW x \in Ind,
           NEW acc \in Nat \ {0}
    PROVE  LET d == Counted(c, x, c.UpdtCnt + 1, acc)
           IN  /\ d \in Counter
               /\ d.UpdtCnt = c.UpdtCnt + 1 /\ d.LastIND = x
               /\ d.SrchCnt = c.SrchCnt
               /\ d.Access >= c.Access /\ d.Access >= acc
               /\ c.latestUpdatedCounter \in Nat
               /\ d.latestUpdatedCounter =
                     IF c.latestUpdatedCounter < c.UpdtCnt + 1
                     THEN c.latestUpdatedCounter + 1 ELSE c.latestUpdatedCounter
<1> DEFINE A == Larger(c.Access, acc)
           l == c.latestUpdatedCounter
           m == IF l < c.UpdtCnt + 1 THEN l + 1 ELSE l
<1>1. c.Access \in Nat \ {0} /\ l \in Nat /\ c.UpdtCnt \in Nat
  BY DEF Counter
<1>2. A \in Nat \ {0} /\ A >= c.Access /\ A >= acc
  BY <1>1 DEF Larger
<1>3. m \in Nat
  BY <1>1
<1>4. Counted(c, x, c.UpdtCnt + 1, acc) =
        [c EXCEPT !.UpdtCnt = c.UpdtCnt + 1, !.LastIND = x, !.Access = A,
                  !.latestUpdatedCounter = m]
  BY DEF Counted
<1> DEFINE n == c.UpdtCnt + 1
<1>6. n \in Nat
  BY <1>1
<1> HIDE DEF A, m, n
<1>7. LET d == [c EXCEPT !.UpdtCnt = n, !.LastIND = x, !.Access = A,
                         !.latestUpdatedCounter = m]
      IN  /\ d \in Counter
          /\ d.UpdtCnt = n /\ d.LastIND = x /\ d.SrchCnt = c.SrchCnt
          /\ d.Access = A /\ d.latestUpdatedCounter = m
  BY <1>2, <1>3, <1>6 DEF Counter
<1>5. /\ Counted(c, x, c.UpdtCnt + 1, acc) \in Counter
      /\ Counted(c, x, c.UpdtCnt + 1, acc).UpdtCnt = c.UpdtCnt + 1
      /\ Counted(c, x, c.UpdtCnt + 1, acc).LastIND = x
      /\ Counted(c, x, c.UpdtCnt + 1, acc).SrchCnt = c.SrchCnt
      /\ Counted(c, x, c.UpdtCnt + 1, acc).Access = A
      /\ Counted(c, x, c.UpdtCnt + 1, acc).latestUpdatedCounter = m
  BY <1>4, <1>7 DEF n
<1> QED
  BY <1>1, <1>2, <1>5 DEF m

LEMMA SlotInvInsert ==
    ASSUME SlotInv, NEW w \in Keyword, NEW x \in Ind, Insert(w, x)
    PROVE  SlotInv'
<1> DEFINE c == Counters(w)
<1> PICK acc : acc = NextAccess(w, c.UpdtCnt + 1)
  OBVIOUS
<1> PICK d : d = Counted(c, x, c.UpdtCnt + 1, acc)
  OBVIOUS
<1> DEFINE b == Inserted(w, x, c.UpdtCnt + 1, acc)
<1>0. Types /\ c \in Counter /\ acc \in Nat \ {0}
  BY CountersType, NextAccessType DEF SlotInv
<1>1. CASE Throw("stoi") \/ Throw("full")
  BY <1>1, SlotInvThrow
<1>2. CASE ~(Throw("stoi") \/ Throw("full"))
  <2>1. /\ Idle /\ ~Present(w, x)
        /\ c.latestUpdatedCounter # None
        /\ ~(empty < Cardinality(b))
        /\ CNTs' = Put(CNTs, w, d)
        /\ byInd' = Put(byInd, <<w, x>>, [slot |-> c.UpdtCnt + 1, acc |-> acc])
        /\ bySlot' = Put(bySlot, <<w, c.UpdtCnt + 1>>, [ind |-> x, acc |-> acc])
        /\ empty' = empty - Cardinality(b)
        /\ phase' = "live"
        /\ live' = [live EXCEPT ![w] = @ \cup {x}]
        /\ UNCHANGED <<locals, finalRes, thrown>>
    BY <1>2 DEF Insert
  <2>2. d \in Counter /\ d.UpdtCnt = c.UpdtCnt + 1 /\ d.LastIND = x
    BY <1>0, <2>1, CountedType
  <2>3. Cardinality(b) \in Nat
    BY InsertedFinite
  <2>8. Place(w, x, acc, d)
    BY <2>1, <2>2 DEF Place
  <2> HIDE DEF b
  <2>4. MapTypes' /\ \A v \in Keyword : Paired(v)'
    BY <1>0, <2>1, <2>2, <2>8, Placed
  <2>5. empty' \in 0 .. Space
    BY <1>0, <2>1, <2>3, HorusAssumption DEF Types
  <2>6. live' \in [Keyword -> SUBSET Ind]
    BY <1>0, <2>1 DEF Types
  <2>7. Types'
    <3>1. thrown' \in {None, "stoi", "full"} /\ searching = None
      BY <1>0, <2>1 DEF Types, Idle
    <3> QED
      BY <2>1, <2>4, <2>5, <2>6, <3>1, QuietTypes
  <2> QED
    BY <2>4, <2>7 DEF SlotInv
<1> QED
  BY <1>1, <1>2

LEMMA SlotInvRemove ==
    ASSUME SlotInv, NEW w \in Keyword, NEW x \in Ind,
           Remove(w, x) \/ SetupRemove(w, x)
    PROVE  SlotInv'
<1>0. Types
  BY DEF SlotInv
<1>1. CASE Throw("full")
  BY <1>1, SlotInvThrow
<1>2. CASE ~Throw("full")
  <2>1. /\ Idle /\ Present(w, x) /\ Removed(w, x)
        /\ empty' = empty \/ (empty' = empty - 1 /\ empty # 0)
    <3>1. CASE Remove(w, x)
      BY <1>2, <3>1 DEF Remove
    <3>2. CASE SetupRemove(w, x)
      BY <3>2 DEF SetupRemove
    <3> QED
      BY <3>1, <3>2
  <2>2. MapTypes' /\ \A v \in Keyword : Paired(v)'
    BY <2>1, Freed
  <2>3. live' \in [Keyword -> SUBSET Ind]
    BY <1>0, <2>1 DEF Types, Removed
  <2>4. empty' \in 0 .. Space
    BY <1>0, <2>1, HorusAssumption DEF Types
  <2>5. Types'
    <3>1. /\ thrown' \in {None, "stoi", "full"} /\ searching = None
          /\ phase' \in {"setup", "live"}
          /\ UNCHANGED <<locals, finalRes>>
      BY <1>0, <2>1 DEF Types, Idle, Removed
    <3> QED
      BY <2>2, <2>3, <2>4, <3>1, QuietTypes
  <2> QED
    BY <2>2, <2>5 DEF SlotInv
<1> QED
  BY <1>1, <1>2

LEMMA SlotInvEndSetup == SlotInv /\ EndSetup => SlotInv'
<1> SUFFICES ASSUME SlotInv, EndSetup PROVE SlotInv'
  OBVIOUS
<1>1. UNCHANGED <<CNTs, byInd, bySlot, empty, searching, probe, result, finalRes, thrown, live>>
  BY DEF EndSetup, maps, locals
<1>2. Types'
  BY <1>1 DEF SlotInv, Types, MapTypes, EndSetup
<1>3. \A v \in Keyword : Paired(v)'
  BY <1>1, PairedSame
<1> QED
  BY <1>2, <1>3 DEF SlotInv

LEMMA SlotInvSearchBegin ==
    ASSUME SlotInv, NEW w \in Keyword, SearchBegin(w)
    PROVE  SlotInv'
<1>0. Types /\ MapTypes
  BY DEF SlotInv, Types
<1>1. /\ w \in DOMAIN CNTs /\ CNTs[w] \in Counter /\ CNTs[w].SrchCnt < MaxSrch
      /\ CNTs' = [CNTs EXCEPT ![w].SrchCnt = @ + 1]
      /\ searching' = w /\ DOMAIN probe' = 1 .. CNTs[w].UpdtCnt /\ result' = <<>>
      /\ UNCHANGED <<byInd, bySlot, boxes, empty, phase, finalRes, thrown, live>>
  BY <1>0 DEF SearchBegin, MapTypes, IsMap
<1>2. /\ DOMAIN CNTs' = DOMAIN CNTs
      /\ CNTs'[w] = [CNTs[w] EXCEPT !.SrchCnt = CNTs[w].SrchCnt + 1]
      /\ \A v \in DOMAIN CNTs : v # w => CNTs'[v] = CNTs[v]
  BY <1>1
<1>3. /\ CNTs'[w] \in Counter /\ CNTs'[w].UpdtCnt = CNTs[w].UpdtCnt
      /\ CNTs'[w].LastIND = CNTs[w].LastIND
  <2> DEFINE n == CNTs[w].SrchCnt + 1
  <2>1. n \in 0 .. MaxSrch
    BY <1>1, HorusAssumption DEF Counter
  <2> HIDE DEF n
  <2>2. LET d == [CNTs[w] EXCEPT !.SrchCnt = n]
        IN  d \in Counter /\ d.UpdtCnt = CNTs[w].UpdtCnt /\ d.LastIND = CNTs[w].LastIND
    BY <1>1, <2>1 DEF Counter
  <2> QED
    BY <1>2, <2>2 DEF n
<1>4. MapTypes'
  BY <1>0, <1>1, <1>2, <1>3 DEF MapTypes, IsMap
<1>5. Types'
  <2>1. searching' # None
    BY <1>1, HorusAssumption
  <2>2. result' \in Seq(Ind)
    BY <1>1
  <2> QED
    BY <1>0, <1>1, <1>2, <1>3, <1>4, <2>1, <2>2 DEF Types
<1>6. \A v \in Keyword : Paired(v)'
  BY <1>1, <1>2, <1>3, PairedSame
<1> QED
  BY <1>5, <1>6 DEF SlotInv

\* What a round appends to the result.
LEMMA AppendedFact ==
    ASSUME Types, \A i \in DOMAIN probe : Advanced[i].foundItem => Advanced[i].lastID \in Ind
    PROVE  LET s == [k \in DOMAIN NewlyFound |-> Advanced[NewlyFound[k]].lastID]
           IN  /\ s \in Seq(Ind) /\ Len(s) = Cardinality(Closing)
               /\ Range(s) = {Advanced[i].lastID : i \in Closing}
<1> DEFINE s == [k \in DOMAIN NewlyFound |-> Advanced[NewlyFound[k]].lastID]
           n == Cardinality(Closing)
<1>1. /\ n \in Nat /\ DOMAIN NewlyFound = 1 .. n
      /\ Range(NewlyFound) = Closing
  BY NewlyFoundFact
<1>2. \A k \in 1 .. n : NewlyFound[k] \in Closing
  BY <1>1 DEF Range
<1>3. \A i \in Closing : Advanced[i].lastID \in Ind
  BY DEF Closing
<1> HIDE DEF n
<1>4. s \in [1 .. n -> Ind]
  BY <1>1, <1>2, <1>3
<1>5. s \in Seq(Ind) /\ Len(s) = n
  BY <1>1, <1>4
<1>6. Range(s) = {Advanced[i].lastID : i \in Closing}
  <2>1. ASSUME NEW i \in Closing PROVE Advanced[i].lastID \in Range(s)
    <3>1. PICK k \in DOMAIN NewlyFound : NewlyFound[k] = i
      BY <1>1 DEF Range
    <3>2. s[k] = Advanced[i].lastID /\ k \in DOMAIN s
      BY <3>1
    <3> QED
      BY <3>2 DEF Range
  <2>2. ASSUME NEW y \in Range(s) PROVE \E i \in Closing : y = Advanced[i].lastID
    BY <1>1, <1>2 DEF Range
  <2> QED
    BY <2>1, <2>2
<1> QED
  BY <1>5, <1>6 DEF n

LEMMA SlotInvSearchRound == SlotInv /\ SearchRound => SlotInv'
<1> SUFFICES ASSUME SlotInv, SearchRound PROVE SlotInv'
  OBVIOUS
<1>1. CASE Throw("stoi")
  BY <1>1, SlotInvThrow
<1>2. CASE ~Throw("stoi")
  <2> DEFINE s == [k \in DOMAIN NewlyFound |-> Advanced[NewlyFound[k]].lastID]
  <2>1. /\ \A i \in DOMAIN probe : Advanced[i].foundItem => Advanced[i].lastID \in Ind
        /\ probe' = Advanced
        /\ result' = result \o s
        /\ UNCHANGED <<maps, searching, phase, finalRes, thrown, live>>
    BY <1>2 DEF SearchRound
  <2>2. s \in Seq(Ind)
    BY <2>1, AppendedFact DEF SlotInv
  <2>3. result' \in Seq(Ind)
    <3> HIDE DEF s
    <3> QED
      BY <2>1, <2>2 DEF SlotInv, Types
  <2>4. UNCHANGED <<CNTs, byInd, bySlot, empty, searching, phase, finalRes, thrown, live>>
    BY <2>1 DEF maps
  <2>5. DOMAIN probe' = DOMAIN probe
    BY <2>1 DEF Advanced
  <2>6. Types'
    BY <2>3, <2>4, <2>5 DEF SlotInv, Types, MapTypes
  <2>7. \A v \in Keyword : Paired(v)'
    BY <2>4, PairedSame
  <2> QED
    BY <2>6, <2>7 DEF SlotInv
<1> QED
  BY <1>1, <1>2

LEMMA SlotInvSearchEnd == SlotInv /\ SearchEnd => SlotInv'
<1> SUFFICES ASSUME SlotInv, SearchEnd PROVE SlotInv'
  OBVIOUS
<1>0. Types /\ MapTypes
  BY DEF SlotInv, Types
<1>1. CASE Throw("full")
  BY <1>1, SlotInvThrow
<1>2. CASE ~Throw("full")
  <2>1. /\ searching # None
        /\ ~(empty < Cardinality(Rewritten))
        /\ empty' = empty - Cardinality(Rewritten)
        /\ CNTs' = [CNTs EXCEPT ![searching].latestUpdatedCounter = Len(result)]
        /\ finalRes' = Range(result)
        /\ searching' = None /\ probe' = <<>> /\ result' = <<>>
        /\ UNCHANGED <<byInd, bySlot, phase, thrown, live>>
    BY <1>2 DEF SearchEnd
  <2>2. PICK w \in DOMAIN CNTs : w = searching
    BY <1>0, <2>1 DEF Types
  <2>3. CNTs[w] \in Counter /\ Len(result) \in Nat
    BY <1>0 DEF Types, MapTypes, IsMap
  <2>4. /\ DOMAIN CNTs' = DOMAIN CNTs
        /\ CNTs'[w] = [CNTs[w] EXCEPT !.latestUpdatedCounter = Len(result)]
        /\ \A v \in DOMAIN CNTs : v # w => CNTs'[v] = CNTs[v]
    BY <2>1, <2>2
  <2>5. /\ CNTs'[w] \in Counter /\ CNTs'[w].UpdtCnt = CNTs[w].UpdtCnt
        /\ CNTs'[w].LastIND = CNTs[w].LastIND
    BY <2>3, <2>4 DEF Counter
  <2>6. MapTypes'
    BY <1>0, <2>1, <2>4, <2>5 DEF MapTypes, IsMap
  <2>7. empty' \in 0 .. Space
    BY <1>0, <2>1, RewrittenFinite, HorusAssumption DEF Types
  <2>8. finalRes' \subseteq Ind
    BY <1>0, <2>1 DEF Types, Range
  <2>9. result' \in Seq(Ind) /\ DOMAIN probe' = {}
    BY <2>1
  <2>10. Types'
    BY <1>0, <2>1, <2>6, <2>7, <2>8, <2>9 DEF Types
  <2>11. \A v \in Keyword : Paired(v)'
    BY <2>1, <2>4, <2>5, PairedSame
  <2> QED
    BY <2>10, <2>11 DEF SlotInv
<1> QED
  BY <1>1, <1>2

LEMMA SlotInvStutter == SlotInv /\ UNCHANGED vars => SlotInv'
<1> SUFFICES ASSUME SlotInv, UNCHANGED vars PROVE SlotInv'
  OBVIOUS
<1>1. UNCHANGED <<CNTs, byInd, bySlot, empty, searching, probe, result, phase, finalRes,
                  thrown, live>>
  BY DEF vars, maps, locals
<1>2. Types'
  BY <1>1 DEF SlotInv, Types, MapTypes
<1>3. \A v \in Keyword : Paired(v)'
  BY <1>1, PairedSame
<1> QED
  BY <1>2, <1>3 DEF SlotInv

LEMMA SlotInvStep == SlotInv /\ [Next]_vars => SlotInv'
<1> SUFFICES ASSUME SlotInv, [Next]_vars PROVE SlotInv'
  OBVIOUS
<1>1. ASSUME NEW w \in Keyword, NEW x \in Ind, SetupInsert(w, x) PROVE SlotInv'
  BY <1>1, SlotInvSetupInsert
<1>2. ASSUME NEW w \in Keyword, NEW x \in Ind, Insert(w, x) PROVE SlotInv'
  BY <1>2, SlotInvInsert
<1>3. ASSUME NEW w \in Keyword, NEW x \in Ind, SetupRemove(w, x) \/ Remove(w, x) PROVE SlotInv'
  BY <1>3, SlotInvRemove
<1>4. CASE EndSetup
  BY <1>4, SlotInvEndSetup
<1>5. ASSUME NEW w \in Keyword, SearchBegin(w) PROVE SlotInv'
  BY <1>5, SlotInvSearchBegin
<1>6. CASE SearchRound
  BY <1>6, SlotInvSearchRound
<1>7. CASE SearchEnd
  BY <1>7, SlotInvSearchEnd
<1>8. CASE UNCHANGED vars
  BY <1>8, SlotInvStutter
<1> QED
  BY <1>1, <1>2, <1>3, <1>4, <1>5, <1>6, <1>7, <1>8 DEF Next

\* The identifiers in the slots of a keyword are distinct.
LEMMA SlotsBounded ==
    ASSUME SlotInv, NEW w \in DOMAIN CNTs
    PROVE  CNTs[w].UpdtCnt <= Cardinality(Ind)
<1> DEFINE n == CNTs[w].UpdtCnt
           f == [i \in 1 .. n |-> bySlot[<<w, i>>].ind]
<1>0. MapTypes /\ w \in Keyword /\ n \in Nat /\ Slots(w) = 1 .. n
  BY DEF SlotInv, Types, MapTypes, IsMap, Counter, Slots
<1>p. Paired(w)
  BY <1>0 DEF SlotInv
<1>1. ASSUME NEW i \in 1 .. n
      PROVE  /\ bySlot[<<w, i>>].ind \in Ind
             /\ byInd[<<w, bySlot[<<w, i>>].ind>>].slot = i
  <2>1. /\ <<w, i>> \in DOMAIN bySlot
        /\ byInd[<<w, bySlot[<<w, i>>].ind>>] = [slot |-> i, acc |-> bySlot[<<w, i>>].acc]
    BY <1>0, <1>p DEF Paired
  <2>2. bySlot[<<w, i>>] \in SlotEntry
    BY <1>0, <2>1 DEF MapTypes, IsMap
  <2> QED
    BY <2>1, <2>2 DEF SlotEntry
<1> HIDE DEF n
<1>2. f \in [1 .. n -> Ind]
  BY <1>1
<1>3. IsInjective(f)
  <2> SUFFICES ASSUME NEW i \in 1 .. n, NEW j \in 1 .. n, f[i] = f[j] PROVE i = j
    BY DEF IsInjective
  <2>1. bySlot[<<w, i>>].ind = bySlot[<<w, j>>].ind
    OBVIOUS
  <2>2. /\ byInd[<<w, bySlot[<<w, i>>].ind>>].slot = i
        /\ byInd[<<w, bySlot[<<w, j>>].ind>>].slot = j
    BY <1>1
  <2> QED
    BY <2>1, <2>2
<1>4. f \in Injection(1 .. n, Ind)
  BY <1>2, <1>3 DEF Injection
<1>5. Cardinality(1 .. n) = n
  BY <1>0, FS_Interval
<1> QED
  BY <1>4, <1>5, FS_Injection, HorusAssumption DEF n

LEMMA SlotInvImplies ==
    ASSUME SlotInv
    PROVE  TypeOK /\ SlotsMatch
<1>0. Types /\ MapTypes
  BY DEF SlotInv, Types
<1>1. ASSUME NEW w \in DOMAIN CNTs
      PROVE  /\ CNTs[w].UpdtCnt \in 0 .. Cardinality(Ind)
             /\ CNTs[w].SrchCnt \in 0 .. MaxSrch
             /\ CNTs[w].Access \in Nat \ {0}
             /\ CNTs[w].LastIND \in Ind \cup {None}
             /\ CNTs[w].latestUpdatedCounter \in Nat \cup {None}
  <2>1. CNTs[w] \in Counter
    BY <1>0 DEF MapTypes, IsMap
  <2>2. Cardinality(Ind) \in Nat
    BY HorusAssumption, FS_CardinalityType
  <2> QED
    BY <2>1, <2>2, SlotsBounded DEF Counter
<1>2. /\ DOMAIN CNTs \subseteq Keyword
      /\ DOMAIN byInd \subseteq Keyword \X Ind
      /\ DOMAIN bySlot \subseteq Keyword \X (Nat \ {0})
      /\ searching \in Keyword \cup {None}
  BY <1>0 DEF Types, MapTypes, IsMap
<1>3. TypeOK
  BY <1>0, <1>1, <1>2 DEF TypeOK, Types
<1>4. ASSUME NEW w \in Keyword
      PROVE  {bySlot[<<w, i>>].ind : i \in Slots(w)} = {x \in Ind : Present(w, x)}
  <2>0. Paired(w)
    BY DEF SlotInv
  <2>1. ASSUME NEW i \in Slots(w)
        PROVE  bySlot[<<w, i>>].ind \in Ind /\ Present(w, bySlot[<<w, i>>].ind)
    <3>1. /\ <<w, i>> \in DOMAIN bySlot
          /\ <<w, bySlot[<<w, i>>].ind>> \in DOMAIN byInd
          /\ byInd[<<w, bySlot[<<w, i>>].ind>>] = [slot |-> i, acc |-> bySlot[<<w, i>>].acc]
      BY <2>0 DEF Paired
    <3>2. bySlot[<<w, i>>] \in SlotEntry
      BY <1>0, <3>1 DEF MapTypes, IsMap
    <3>3. i # -1
      BY <1>0 DEF Slots, MapTypes, IsMap, Counter
    <3> QED
      BY <3>1, <3>2, <3>3 DEF Present, SlotEntry
  <2>2. ASSUME NEW x \in Ind, Present(w, x)
        PROVE  \E i \in Slots(w) : bySlot[<<w, i>>].ind = x
    BY <2>0, <2>2 DEF Paired
  <2> QED
    BY <2>1, <2>2
<1>5. SlotsMatch
  <2>1. ASSUME NEW w \in Keyword
        PROVE  /\ \A i \in Slots(w) : byInd[<<w, bySlot[<<w, i>>].ind>>] =
                                       [slot |-> i, acc |-> bySlot[<<w, i>>].acc]
               /\ Slots(w) # {} => CNTs[w].LastIND = bySlot[<<w, CNTs[w].UpdtCnt>>].ind
    <3>1. Paired(w)
      BY DEF SlotInv
    <3> QED
      BY <3>1 DEF Paired
  <2> QED
    BY <1>4, <2>1 DEF SlotsMatch
<1> QED
  BY <1>3, <1>5

(***************************************************************************)
(* The maps, the counters, the search under way and the answers of the     *)
(* Horus client have their types in every behaviour of every caller; a     *)
(* keyword never has more slots than there are identifiers.                *)
(***************************************************************************)
THEOREM Typing == Spec => []TypeOK
<1>1. SlotInv => TypeOK
  BY SlotInvImplies
<1> QED
  BY InitSlotInv, SlotInvStep, <1>1, PTL DEF Spec

(***************************************************************************)
(* insert, setupInsert, remove and setupRemove of Horus.cpp keep the two   *)
(* directions of OMAP_updt and LastIND inverse to each other, also for a   *)
(* caller that refills slots during setup.                                 *)
(***************************************************************************)
THEOREM SlotsStayMatched == Spec => []SlotsMatch
<1>1. SlotInv => SlotsMatch
  BY SlotInvImplies
<1> QED
  BY InitSlotInv, SlotInvStep, <1>1, PTL DEF Spec

-----------------------------------------------------------------------------
(* The inductive invariant of ORAM_srch.                                   *)

Acc(w, i) == bySlot[<<w, i>>].acc

\* The slot is written under the current SrchCnt.
Open(w, i) ==
    /\ <<w, i>> \in DOMAIN bySlot
    /\ CNTs[w].latestUpdatedCounter = None \/ i <= CNTs[w].latestUpdatedCounter

First(w, i) ==
    LET one == Read(w, i, 1) IN IF IsPointer(one) THEN one[2] ELSE 1

\* Under the current SrchCnt the access numbers of a slot have no holes.
Chain(w, i) ==
    /\ First(w, i) \in 1 .. Acc(w, i)
    /\ \A a \in First(w, i) .. Acc(w, i) : Read(w, i, a) \in Ind

\* No box lies above the last access number of its slot, above the current
\* SrchCnt, or, under that one, in a slot that is not open.
Bounded(w) ==
    \A k \in DOMAIN boxes :
        k[1] = w =>
            /\ <<w, k[2]>> \in DOMAIN bySlot
            /\ k[3] <= Generation(w)
            /\ k[4] <= Acc(w, k[2])
            /\ k[3] = Generation(w) => Open(w, k[2])

\* The slots in use are open, and all open slots have been used.
Frontier(w) ==
    /\ phase = "setup" => CNTs[w].latestUpdatedCounter = None
    /\ CNTs[w].latestUpdatedCounter # None =>
          /\ CNTs[w].UpdtCnt <= CNTs[w].latestUpdatedCounter
          /\ \A i \in 1 .. CNTs[w].latestUpdatedCounter : <<w, i>> \in DOMAIN bySlot

SlotSound(w, i) ==
    /\ Acc(w, i) <= CNTs[w].Access
    /\ Open(w, i) => Chain(w, i)
    /\ i \in Slots(w) => Read(w, i, Acc(w, i)) = bySlot[<<w, i>>].ind

Sound(w) ==
    /\ Bounded(w)
    /\ Frontier(w)
    /\ \A k \in DOMAIN bySlot : k[1] = w => SlotSound(w, k[2])

BoxType ==
    /\ IsFiniteSet(DOMAIN boxes)
    /\ DOMAIN boxes \subseteq (DOMAIN CNTs) \X (Nat \ {0}) \X Nat \X (Nat \ {0})

BoxInv == SlotInv /\ BoxType /\ \A w \in DOMAIN CNTs : Sound(w)

-----------------------------------------------------------------------------
(* One slot.                                                               *)

LEMMA PointerFact ==
    ASSUME NEW n \in Nat
    PROVE  IsPointer(At(n)) /\ At(n)[2] = n
BY HorusAssumption DEF IsPointer, At

\* A slot that a step does not write.
LEMMA SlotKept ==
    ASSUME NEW w, NEW i, SlotSound(w, i),
           Acc(w, i) \in Nat \ {0}, bySlot'[<<w, i>>] = bySlot[<<w, i>>],
           CNTs[w].Access \in Nat, CNTs'[w].Access \in Nat,
           CNTs'[w].Access >= CNTs[w].Access,
           Open(w, i)' => Open(w, i),
           i \in Slots(w)' => i \in Slots(w),
           \A a \in 1 .. Acc(w, i) : Read(w, i, a)' = Read(w, i, a)
    PROVE  SlotSound(w, i)'
<1>1. Acc(w, i)' = Acc(w, i)
  BY DEF Acc
<1>2. 1 \in 1 .. Acc(w, i) /\ Acc(w, i) \in 1 .. Acc(w, i)
  OBVIOUS
<1>3. First(w, i)' = First(w, i)
  BY <1>2 DEF First, IsPointer
<1>4. Chain(w, i) => Chain(w, i)'
  <2> SUFFICES ASSUME Chain(w, i) PROVE Chain(w, i)'
    OBVIOUS
  <2>1. First(w, i) \in 1 .. Acc(w, i)
    BY DEF Chain
  <2>2. \A a \in First(w, i) .. Acc(w, i) : a \in 1 .. Acc(w, i)
    BY <2>1
  <2>3. \A a \in First(w, i) .. Acc(w, i) : Read(w, i, a)' \in Ind
    BY <2>2 DEF Chain
  <2> QED
    BY <1>1, <1>3, <2>1, <2>3 DEF Chain
<1>5. i \in Slots(w)' => Read(w, i, Acc(w, i))' = bySlot'[<<w, i>>].ind
  <2> PICK n : n = Acc(w, i)
    OBVIOUS
  <2>1. Read(w, i, Acc(w, i))' = Read(w, i, n)'
    BY <1>1 DEF Read
  <2> QED
    BY <1>2, <2>1 DEF SlotSound
<1> QED
  BY <1>1, <1>4, <1>5 DEF SlotSound

\* A slot that gets its first box under the current SrchCnt.
LEMMA SlotOpened ==
    ASSUME NEW w, NEW i, NEW y \in Ind, NEW n \in Nat \ {0},
           bySlot'[<<w, i>>] = [ind |-> y, acc |-> n],
           CNTs'[w].Access \in Nat, n <= CNTs'[w].Access,
           Read(w, i, n)' = y,
           n > 1 => Read(w, i, 1)' = At(n)
    PROVE  SlotSound(w, i)'
<1>1. Acc(w, i)' = n
  BY DEF Acc
<1>2. First(w, i)' = n
  <2>1. CASE n = 1
    BY <2>1 DEF First, IsPointer
  <2>2. CASE n > 1
    BY <2>2, PointerFact DEF First, IsPointer
  <2> QED
    BY <2>1, <2>2
<1>3. Chain(w, i)'
  <2>1. \A a \in n .. n : Read(w, i, a)' \in Ind
    BY DEF Read
  <2> QED
    BY <1>1, <1>2, <2>1 DEF Chain
<1>4. Read(w, i, Acc(w, i))' = bySlot'[<<w, i>>].ind
  BY <1>1 DEF Read
<1> QED
  BY <1>1, <1>3, <1>4 DEF SlotSound

\* An open slot that gets its next access number.
LEMMA SlotExtended ==
    ASSUME NEW w, NEW i, SlotSound(w, i), Open(w, i), NEW y \in Ind,
           NEW n \in Nat, n = Acc(w, i) + 1, Acc(w, i) \in Nat \ {0},
           bySlot'[<<w, i>>] = [ind |-> y, acc |-> n],
           CNTs'[w].Access \in Nat, n <= CNTs'[w].Access,
           Read(w, i, n)' = y,
           \A a \in 1 .. Acc(w, i) : Read(w, i, a)' = Read(w, i, a)
    PROVE  SlotSound(w, i)'
<1>1. Acc(w, i)' = n
  BY DEF Acc
<1>2. 1 \in 1 .. Acc(w, i)
  OBVIOUS
<1>3. First(w, i)' = First(w, i)
  BY <1>2 DEF First, IsPointer
<1>4. Chain(w, i)
  BY DEF SlotSound
<1>5. Chain(w, i)'
  <2>1. First(w, i) \in 1 .. Acc(w, i)
    BY <1>4 DEF Chain
  <2>2. First(w, i) \in 1 .. n
    BY <2>1
  <2>3. ASSUME NEW a \in First(w, i) .. n PROVE Read(w, i, a)' \in Ind
    <3>1. CASE a = n
      BY <3>1 DEF Read
    <3>2. CASE a # n
      <4>1. a \in First(w, i) .. Acc(w, i) /\ a \in 1 .. Acc(w, i)
        BY <2>1, <3>2
      <4> QED
        BY <1>4, <4>1 DEF Chain
    <3> QED
      BY <3>1, <3>2
  <2> QED
    BY <1>1, <1>3, <2>2, <2>3 DEF Chain
<1>6. Read(w, i, Acc(w, i))' = bySlot'[<<w, i>>].ind
  BY <1>1 DEF Read
<1> QED
  BY <1>1, <1>5, <1>6 DEF SlotSound

-----------------------------------------------------------------------------
(* One keyword.                                                            *)

LEMMA SoundElim ==
    ASSUME BoxInv, NEW w \in DOMAIN CNTs
    PROVE  /\ w \in Keyword /\ CNTs[w] \in Counter
           /\ Frontier(w)
           /\ \A i, g, a : <<w, i, g, a>> \in DOMAIN boxes =>
                 /\ i \in Nat \ {0} /\ g \in Nat /\ a \in Nat \ {0}
                 /\ <<w, i>> \in DOMAIN bySlot
                 /\ g <= Generation(w) /\ a <= Acc(w, i)
                 /\ g = Generation(w) => Open(w, i)
           /\ \A i : <<w, i>> \in DOMAIN bySlot =>
                 /\ i \in Nat \ {0} /\ bySlot[<<w, i>>] \in SlotEntry
                 /\ Acc(w, i) \in Nat \ {0} /\ SlotSound(w, i)
<1>0. MapTypes /\ BoxType /\ Sound(w)
  BY DEF BoxInv, SlotInv, Types
<1>1. w \in Keyword /\ CNTs[w] \in Counter /\ Frontier(w)
  BY <1>0 DEF MapTypes, IsMap, Sound
<1>2. ASSUME NEW i, NEW g, NEW a, <<w, i, g, a>> \in DOMAIN boxes
      PROVE  /\ i \in Nat \ {0} /\ g \in Nat /\ a \in Nat \ {0}
             /\ <<w, i>> \in DOMAIN bySlot
             /\ g <= Generation(w) /\ a <= Acc(w, i)
             /\ g = Generation(w) => Open(w, i)
  <2>1. i \in Nat \ {0} /\ g \in Nat /\ a \in Nat \ {0}
    BY <1>0, <1>2 DEF BoxType
  <2> PICK k \in DOMAIN boxes : k = <<w, i, g, a>>
    BY <1>2
  <2>2. k[1] = w /\ k[2] = i /\ k[3] = g /\ k[4] = a
    OBVIOUS
  <2>3. /\ <<w, k[2]>> \in DOMAIN bySlot
        /\ k[3] <= Generation(w)
        /\ k[4] <= Acc(w, k[2])
        /\ k[3] = Generation(w) => Open(w, k[2])
    BY <1>0, <2>2 DEF Sound, Bounded
  <2> QED
    BY <2>1, <2>2, <2>3
<1>3. ASSUME NEW i, <<w, i>> \in DOMAIN bySlot
      PROVE  /\ i \in Nat \ {0} /\ bySlot[<<w, i>>] \in SlotEntry
             /\ Acc(w, i) \in Nat \ {0} /\ SlotSound(w, i)
  <2>1. i \in Nat \ {0} /\ bySlot[<<w, i>>] \in SlotEntry
    BY <1>0, <1>3 DEF MapTypes, IsMap
  <2> PICK k \in DOMAIN bySlot : k = <<w, i>>
    BY <1>3
  <2>2. k[1] = w /\ k[2] = i
    OBVIOUS
  <2>3. SlotSound(w, k[2])
    BY <1>0, <2>2 DEF Sound
  <2> QED
    BY <2>1, <2>2, <2>3 DEF SlotEntry, Acc
<1> QED
  BY <1>1, <1>2, <1>3

LEMMA SoundIntro ==
    ASSUME MapTypes', BoxType', NEW w, Frontier(w)',
           \A i, g, a : <<w, i, g, a>> \in DOMAIN boxes' =>
                 /\ <<w, i>> \in DOMAIN bySlot'
                 /\ g <= Generation(w)' /\ a <= Acc(w, i)'
                 /\ g = Generation(w)' => Open(w, i)',
           \A i : <<w, i>> \in DOMAIN bySlot' => SlotSound(w, i)'
    PROVE  Sound(w)'
<1>1. ASSUME NEW k \in DOMAIN boxes', k[1] = w
      PROVE  /\ <<w, k[2]>> \in DOMAIN bySlot'
             /\ k[3] <= Generation(w)'
             /\ k[4] <= Acc(w, k[2])'
             /\ k[3] = Generation(w)' => Open(w, k[2])'
  <2>1. k = <<w, k[2], k[3], k[4]>>
    BY <1>1 DEF BoxType
  <2> PICK i, g, a : i = k[2] /\ g = k[3] /\ a = k[4]
    OBVIOUS
  <2>2. <<w, i, g, a>> \in DOMAIN boxes'
    BY <2>1
  <2>3. /\ <<w, i>> \in DOMAIN bySlot'
        /\ g <= Generation(w)' /\ a <= Acc(w, i)'
        /\ g = Generation(w)' => Open(w, i)'
    BY <2>2
  <2> QED
    BY <2>3
<1>2. ASSUME NEW k \in DOMAIN bySlot', k[1] = w PROVE SlotSound(w, k[2])'
  <2>1. k = <<w, k[2]>>
    BY <1>2 DEF MapTypes, IsMap
  <2> PICK i : i = k[2]
    OBVIOUS
  <2>2. SlotSound(w, i)'
    BY <2>1
  <2> QED
    BY <2>2
<1>3. Bounded(w)'
  BY <1>1 DEF Bounded
<1> QED
  BY <1>2, <1>3 DEF Sound

\* What stays of a keyword that a step does not concern.
BoxesKept(v) ==
    /\ v \in DOMAIN CNTs'
    /\ CNTs'[v].UpdtCnt = CNTs[v].UpdtCnt /\ CNTs'[v].Access = CNTs[v].Access
    /\ CNTs'[v].latestUpdatedCounter = CNTs[v].latestUpdatedCounter
    /\ Generation(v)' = Generation(v)
    /\ \A i : /\ <<v, i>> \in DOMAIN bySlot' <=> <<v, i>> \in DOMAIN bySlot
              /\ <<v, i>> \in DOMAIN bySlot => bySlot'[<<v, i>>] = bySlot[<<v, i>>]
    /\ \A i, g, a :
          /\ <<v, i, g, a>> \in DOMAIN boxes' <=> <<v, i, g, a>> \in DOMAIN boxes
          /\ <<v, i, g, a>> \in DOMAIN boxes => boxes'[<<v, i, g, a>>] = boxes[<<v, i, g, a>>]

LEMMA SoundKept ==
    ASSUME BoxInv, MapTypes', BoxType', NEW v \in DOMAIN CNTs, BoxesKept(v),
           phase' = "setup" => phase = "setup"
    PROVE  Sound(v)'
<1>1. /\ v \in Keyword /\ CNTs[v] \in Counter
      /\ Frontier(v)
      /\ \A i, g, a : <<v, i, g, a>> \in DOMAIN boxes =>
            /\ <<v, i>> \in DOMAIN bySlot
            /\ g <= Generation(v) /\ a <= Acc(v, i)
            /\ g = Generation(v) => Open(v, i)
      /\ \A i : <<v, i>> \in DOMAIN bySlot => Acc(v, i) \in Nat \ {0} /\ SlotSound(v, i)
  BY SoundElim
<1>2. \A i, a : Read(v, i, a)' = Read(v, i, a)
  BY DEF BoxesKept, Read
<1>3. \A i : <<v, i>> \in DOMAIN bySlot => Acc(v, i)' = Acc(v, i)
  BY DEF BoxesKept, Acc
<1>4. \A i : Open(v, i)' <=> Open(v, i)
  BY DEF BoxesKept, Open
<1>5. Slots(v)' = Slots(v)
  BY DEF BoxesKept, Slots
<1>6. Frontier(v)'
  BY <1>1 DEF Frontier, BoxesKept
<1>7. ASSUME NEW i, NEW g, NEW a, <<v, i, g, a>> \in DOMAIN boxes'
      PROVE  /\ <<v, i>> \in DOMAIN bySlot'
             /\ g <= Generation(v)' /\ a <= Acc(v, i)'
             /\ g = Generation(v)' => Open(v, i)'
  <2>1. <<v, i, g, a>> \in DOMAIN boxes
    BY <1>7 DEF BoxesKept
  <2>2. /\ <<v, i>> \in DOMAIN bySlot
        /\ g <= Generation(v) /\ a <= Acc(v, i)
        /\ g = Generation(v) => Open(v, i)
    BY <1>1, <2>1
  <2> QED
    BY <1>3, <1>4, <2>2 DEF BoxesKept
<1>8. ASSUME NEW i, <<v, i>> \in DOMAIN bySlot' PROVE SlotSound(v, i)'
  <2>1. <<v, i>> \in DOMAIN bySlot /\ bySlot'[<<v, i>>] = bySlot[<<v, i>>]
    BY <1>8 DEF BoxesKept
  <2>2. Acc(v, i) \in Nat \ {0} /\ SlotSound(v, i)
    BY <1>1, <2>1
  <2>3. /\ CNTs[v].Access \in Nat /\ CNTs'[v].Access \in Nat
        /\ CNTs'[v].Access >= CNTs[v].Access
    BY <1>1 DEF BoxesKept, Counter
  <2> QED
    BY <1>2, <1>4, <1>5, <2>1, <2>2, <2>3, SlotKept
<1> QED
  BY <1>6, <1>7, <1>8, SoundIntro

\* A step that concerns neither the maps nor the boxes.
LEMMA SoundSame ==
    ASSUME BoxInv, SlotInv', UNCHANGED <<CNTs, bySlot, boxes, searching>>,
           phase' = "setup" => phase = "setup"
    PROVE  BoxInv'
<1>1. BoxType' /\ MapTypes'
  BY DEF BoxInv, BoxType, SlotInv, Types
<1>2. ASSUME NEW v \in DOMAIN CNTs' PROVE Sound(v)'
  <2>1. v \in DOMAIN CNTs /\ BoxesKept(v)
    BY <1>2 DEF BoxesKept, Generation
  <2> QED
    BY <1>1, <2>1, SoundKept
<1> QED
  BY <1>1, <1>2 DEF BoxInv

-----------------------------------------------------------------------------
(* Writing boxes.                                                          *)

\* A step that writes the boxes K, none of which is there yet.
Adds(K) ==
    /\ IsFiniteSet(K)
    /\ K \subseteq (DOMAIN CNTs') \X (Nat \ {0}) \X Nat \X (Nat \ {0})
    /\ K \cap DOMAIN boxes = {}
    /\ DOMAIN boxes' = DOMAIN boxes \cup K
    /\ \A k \in DOMAIN boxes : boxes'[k] = boxes[k]

LEMMA AddsType ==
    ASSUME BoxType, DOMAIN CNTs \subseteq DOMAIN CNTs', NEW K, Adds(K)
    PROVE  BoxType'
<1>1. IsFiniteSet(DOMAIN boxes')
  <2>1. IsFiniteSet(DOMAIN boxes) /\ IsFiniteSet(K) /\ DOMAIN boxes' = DOMAIN boxes \cup K
    BY DEF Adds, BoxType
  <2>2. IsFiniteSet(DOMAIN boxes \cup K)
    BY <2>1, FS_Union
  <2> QED
    BY <2>1, <2>2
<1>2. DOMAIN boxes' \subseteq (DOMAIN CNTs') \X (Nat \ {0}) \X Nat \X (Nat \ {0})
  BY DEF Adds, BoxType
<1> QED
  BY <1>1, <1>2 DEF BoxType

\* The keywords other than w, for a step that writes boxes of w only.
LEMMA OthersSound ==
    ASSUME BoxInv, MapTypes', BoxType', NEW w, NEW K, Adds(K), \A k \in K : k[1] = w,
           DOMAIN CNTs' \subseteq DOMAIN CNTs \cup {w}, DOMAIN CNTs \subseteq DOMAIN CNTs',
           \A v \in DOMAIN CNTs : v # w => CNTs'[v] = CNTs[v] /\ Generation(v)' = Generation(v),
           \A v, i : v # w =>
               /\ <<v, i>> \in DOMAIN bySlot' <=> <<v, i>> \in DOMAIN bySlot
               /\ <<v, i>> \in DOMAIN bySlot => bySlot'[<<v, i>>] = bySlot[<<v, i>>],
           phase' = "setup" => phase = "setup",
           NEW v \in DOMAIN CNTs', v # w
    PROVE  Sound(v)'
<1>1. \A i, g, a : <<v, i, g, a>> \notin K
  OBVIOUS
<1>2. /\ v \in DOMAIN CNTs
      /\ CNTs'[v] = CNTs[v] /\ Generation(v)' = Generation(v)
      /\ \A i : /\ <<v, i>> \in DOMAIN bySlot' <=> <<v, i>> \in DOMAIN bySlot
                /\ <<v, i>> \in DOMAIN bySlot => bySlot'[<<v, i>>] = bySlot[<<v, i>>]
  OBVIOUS
<1>3. \A i, g, a :
          /\ <<v, i, g, a>> \in DOMAIN boxes' <=> <<v, i, g, a>> \in DOMAIN boxes
          /\ <<v, i, g, a>> \in DOMAIN boxes => boxes'[<<v, i, g, a>>] = boxes[<<v, i, g, a>>]
  BY <1>1 DEF Adds
<1>4. BoxesKept(v)
  BY <1>2, <1>3 DEF BoxesKept
<1> QED
  BY <1>2, <1>4, SoundKept

\* The pairs of b are put into boxes.
Puts(b) ==
    /\ DOMAIN boxes' = DOMAIN boxes \cup {p[1] : p \in b}
    /\ \A p \in b : boxes'[p[1]] = p[2]
    /\ \A k \in DOMAIN boxes : k \notin {p[1] : p \in b} => boxes'[k] = boxes[k]

\* ORAM_srch after the writes b, whose keys are distinct and new.
LEMMA WrittenFact ==
    ASSUME NEW b, \A p \in b : p = <<p[1], p[2]>>,
           \A p, q \in b : p[1] = q[1] => p = q,
           boxes' = Written(b)
    PROVE  Puts(b)
<1>1. DOMAIN boxes' = DOMAIN boxes \cup {p[1] : p \in b}
  BY DEF Written
<1>2. ASSUME NEW q \in b PROVE boxes'[q[1]] = q[2]
  <2>1. q[1] \in {p[1] : p \in b} /\ \E p \in b : p[1] = q[1]
    OBVIOUS
  <2>2. boxes'[q[1]] = (CHOOSE p \in b : p[1] = q[1])[2]
    BY <1>1, <2>1 DEF Written
  <2>3. (CHOOSE p \in b : p[1] = q[1]) \in b /\ (CHOOSE p \in b : p[1] = q[1])[1] = q[1]
    BY <2>1
  <2>4. (CHOOSE p \in b : p[1] = q[1]) = q
    BY <2>3
  <2> QED
    BY <2>2, <2>4
<1>3. \A k \in DOMAIN boxes : k \notin {p[1] : p \in b} => boxes'[k] = boxes[k]
  BY DEF Written
<1> QED
  BY <1>1, <1>2, <1>3 DEF Puts

\* As many boxes as writes.
LEMMA KeysCounted ==
    ASSUME NEW b, IsFiniteSet(b), \A p, q \in b : p[1] = q[1] => p = q
    PROVE  /\ IsFiniteSet({p[1] : p \in b})
           /\ Cardinality({p[1] : p \in b}) = Cardinality(b)
<1> DEFINE K == {p[1] : p \in b}
           f == [p \in b |-> p[1]]
<1>1. f \in [b -> K] /\ IsInjective(f) /\ \A k \in K : \E p \in b : f[p] = k
  BY DEF IsInjective
<1>2. f \in Bijection(b, K)
  BY <1>1 DEF Bijection, Injection, Surjection
<1>3. ExistsBijection(b, K)
  BY <1>2 DEF ExistsBijection
<1> QED
  BY <1>3, FS_Bijection

\* A single write.
LEMMA PutAdds ==
    ASSUME NEW k, NEW y, k \notin DOMAIN boxes, boxes' = Put(boxes, k, y),
           k \in (DOMAIN CNTs') \X (Nat \ {0}) \X Nat \X (Nat \ {0})
    PROVE  Adds({k}) /\ boxes'[k] = y
<1>1. IsFiniteSet({k})
  BY FS_Singleton
<1> QED
  BY <1>1 DEF Adds, Put

-----------------------------------------------------------------------------
(* Every step keeps BoxInv.  A throw, endSetup and a round write nothing.  *)

LEMMA BoxInvThrow ==
    ASSUME BoxInv, SlotInv', NEW e, Throw(e)
    PROVE  BoxInv'
<1>1. UNCHANGED <<CNTs, bySlot, boxes, searching, phase>>
  BY DEF Throw, maps, locals
<1> QED
  BY <1>1, SoundSame

\* Outside a search the current entries lie under SrchCnt.
LEMMA IdleGeneration ==
    ASSUME MapTypes, searching = None, NEW v \in DOMAIN CNTs
    PROVE  Generation(v) = CNTs[v].SrchCnt
<1>1. searching # v /\ CNTs[v].SrchCnt \in Int
  BY HorusAssumption DEF MapTypes, IsMap, Counter
<1> QED
  BY <1>1 DEF Generation

LEMMA IdleGenerationNext ==
    ASSUME MapTypes', searching' = None, NEW v \in DOMAIN CNTs'
    PROVE  Generation(v)' = CNTs'[v].SrchCnt
<1>1. searching' # v /\ CNTs'[v].SrchCnt \in Int
  BY HorusAssumption DEF MapTypes, IsMap, Counter
<1> QED
  BY <1>1 DEF Generation

\* A step that gives slot s of w its next access number n.
SlotWrite(w, s, g, n, y, K) ==
    /\ Adds(K) /\ \A k \in K : k = <<w, s, g, n>> \/ k = <<w, s, g, 1>>
    /\ w \in DOMAIN CNTs'
    /\ w \in DOMAIN CNTs => Generation(w) = g /\ CNTs'[w].Access >= CNTs[w].Access
    /\ Generation(w)' = g
    /\ DOMAIN bySlot' = DOMAIN bySlot \cup {<<w, s>>}
    /\ bySlot'[<<w, s>>] = [ind |-> y, acc |-> n]
    /\ \A k \in DOMAIN bySlot : k # <<w, s>> => bySlot'[k] = bySlot[k]
    /\ n = NextAccess(w, s)

LEMMA SlotWriteSound ==
    ASSUME BoxInv, MapTypes', BoxType',
           NEW w \in Keyword, NEW s \in Nat \ {0}, NEW g \in Nat, NEW n \in Nat \ {0},
           NEW y \in Ind, NEW K, SlotWrite(w, s, g, n, y, K),
           Frontier(w)', Open(w, s)', SlotSound(w, s)',
           \A i : i # s /\ <<w, i>> \in DOMAIN bySlot =>
               (Open(w, i)' <=> Open(w, i)) /\ (i \in Slots(w)' => i \in Slots(w))
    PROVE  Sound(w)'
<1>1. ASSUME NEW i, <<w, i>> \in DOMAIN bySlot
      PROVE  /\ w \in DOMAIN CNTs /\ SlotSound(w, i) /\ Acc(w, i) \in Nat \ {0}
             /\ CNTs[w] \in Counter
  <2>1. w \in DOMAIN CNTs
    BY <1>1 DEF BoxInv, SlotInv, Types, MapTypes, IsMap
  <2> QED
    BY <1>1, <2>1, SoundElim
<1>2. ASSUME NEW i, i # s, <<w, i>> \in DOMAIN bySlot
      PROVE  bySlot'[<<w, i>>] = bySlot[<<w, i>>] /\ Acc(w, i)' = Acc(w, i)
  BY <1>2 DEF SlotWrite, Acc
<1>3. ASSUME NEW i, <<w, i>> \in DOMAIN bySlot', i # s PROVE SlotSound(w, i)'
  <2>1. <<w, i>> \in DOMAIN bySlot
    BY <1>3 DEF SlotWrite
  <2>2. /\ w \in DOMAIN CNTs /\ SlotSound(w, i) /\ Acc(w, i) \in Nat \ {0}
        /\ bySlot'[<<w, i>>] = bySlot[<<w, i>>]
    BY <1>1, <1>2, <1>3, <2>1
  <2>3. \A a : <<w, i, g, a>> \notin K
    BY <1>3 DEF SlotWrite
  <2>4. \A a : Read(w, i, a)' = Read(w, i, a)
    BY <2>2, <2>3 DEF SlotWrite, Adds, Read
  <2>5. /\ CNTs[w].Access \in Nat /\ CNTs'[w].Access \in Nat
        /\ CNTs'[w].Access >= CNTs[w].Access
    BY <1>1, <2>1, <2>2 DEF SlotWrite, MapTypes, IsMap, Counter
  <2>6. (Open(w, i)' => Open(w, i)) /\ (i \in Slots(w)' => i \in Slots(w))
    BY <1>3, <2>1
  <2> QED
    BY <2>2, <2>4, <2>5, <2>6, SlotKept
<1>4. ASSUME NEW i, NEW h, NEW a, <<w, i, h, a>> \in DOMAIN boxes'
      PROVE  /\ <<w, i>> \in DOMAIN bySlot'
             /\ h <= Generation(w)' /\ a <= Acc(w, i)'
             /\ h = Generation(w)' => Open(w, i)'
  <2>1. Acc(w, s)' = n /\ <<w, s>> \in DOMAIN bySlot'
    BY DEF SlotWrite, Acc
  <2>2. CASE <<w, i, h, a>> \in K
    <3>1. i = s /\ h = g /\ (a = n \/ a = 1)
      BY <2>2 DEF SlotWrite
    <3> QED
      BY <2>1, <3>1 DEF SlotWrite
  <2>3. CASE <<w, i, h, a>> \notin K
    <3>1. <<w, i, h, a>> \in DOMAIN boxes
      BY <1>4, <2>3 DEF SlotWrite, Adds
    <3>2. w \in DOMAIN CNTs
      BY <3>1 DEF BoxInv, BoxType
    <3>3. /\ h \in Nat /\ a \in Nat /\ <<w, i>> \in DOMAIN bySlot
          /\ h <= Generation(w) /\ a <= Acc(w, i) /\ Acc(w, i) \in Nat
          /\ h = Generation(w) => Open(w, i)
      BY <3>1, <3>2, SoundElim
    <3>4. Generation(w) = g /\ Generation(w)' = g /\ <<w, i>> \in DOMAIN bySlot'
      BY <3>2, <3>3 DEF SlotWrite
    <3>5. CASE i = s
      <4>1. n = Acc(w, s) + 1
        BY <3>3, <3>5 DEF SlotWrite, NextAccess, Acc
      <4>2. a <= n
        BY <3>3, <3>5, <4>1
      <4> QED
        BY <2>1, <3>3, <3>4, <3>5, <4>2
    <3>6. CASE i # s
      <4>1. Acc(w, i)' = Acc(w, i) /\ (Open(w, i) => Open(w, i)')
        BY <1>2, <3>3, <3>6
      <4> QED
        BY <3>3, <3>4, <4>1
    <3> QED
      BY <3>5, <3>6
  <2> QED
    BY <2>2, <2>3
<1>5. \A i : <<w, i>> \in DOMAIN bySlot' => SlotSound(w, i)'
  BY <1>3
<1> QED
  BY <1>4, <1>5, SoundIntro

\* A setup insertion opens a slot that was never used.
LEMMA SetupInsertAdds ==
    ASSUME BoxInv, SlotInv', ~SetupRefill, NEW w \in Keyword, NEW x \in Ind, SetupInsert(w, x)
    PROVE  \E c \in Counter, d \in Counter :
             /\ c.latestUpdatedCounter = None
             /\ w \in DOMAIN CNTs => CNTs[w] = c
             /\ w \notin DOMAIN CNTs => c.UpdtCnt = 0
             /\ d.UpdtCnt = c.UpdtCnt + 1 /\ d.SrchCnt = c.SrchCnt /\ d.Access = c.Access
             /\ d.latestUpdatedCounter = None
             /\ CNTs' = Put(CNTs, w, d)
             /\ <<w, d.UpdtCnt>> \notin DOMAIN bySlot
             /\ bySlot' = Put(bySlot, <<w, d.UpdtCnt>>, [ind |-> x, acc |-> 1])
             /\ boxes' = Put(boxes, <<w, d.UpdtCnt, c.SrchCnt, 1>>, x)
             /\ Adds({<<w, d.UpdtCnt, c.SrchCnt, 1>>})
             /\ boxes'[<<w, d.UpdtCnt, c.SrchCnt, 1>>] = x
<1>c. PICK c : c = IF w \in DOMAIN CNTs THEN CNTs[w]
                 ELSE [NoCounters EXCEPT !.latestUpdatedCounter = None]
  OBVIOUS
<1>n. PICK n : n = c.UpdtCnt + 1
  OBVIOUS
<1>d. PICK d : d = [c EXCEPT !.UpdtCnt = n, !.LastIND = x]
  OBVIOUS
<1>k. PICK k : k = <<w, n, c.SrchCnt, 1>>
  OBVIOUS
<1>0. MapTypes /\ phase = "setup"
  BY DEF BoxInv, SlotInv, Types, SetupInsert
<1>1. c \in Counter
  BY <1>0, <1>c, HorusAssumption DEF MapTypes, IsMap, NoCounters, Counter
<1>2. /\ n \in Nat \ {0} /\ d \in Counter
      /\ d.UpdtCnt = n /\ d.SrchCnt = c.SrchCnt /\ d.Access = c.Access
      /\ d.latestUpdatedCounter = c.latestUpdatedCounter
  <2>1. n \in Nat \ {0}
    BY <1>1, <1>n DEF Counter
  <2> QED
    BY <1>1, <1>d, <2>1 DEF Counter
<1>3. c.latestUpdatedCounter = None
  <2>1. w \in DOMAIN CNTs => Frontier(w)
    BY SoundElim
  <2> QED
    BY <1>0, <1>c, <2>1 DEF Frontier, NoCounters
<1>4. /\ w \notin DOMAIN CNTs => c.UpdtCnt = 0
      /\ w \in DOMAIN CNTs => CNTs[w] = c
  BY <1>c DEF NoCounters
<1>5. /\ CNTs' = Put(CNTs, w, d)
      /\ <<w, n>> \notin DOMAIN bySlot
      /\ bySlot' = Put(bySlot, <<w, n>>, [ind |-> x, acc |-> 1])
      /\ boxes' = Put(boxes, k, x)
  BY <1>c, <1>n, <1>d, <1>k DEF SetupInsert
<1>6. k \notin DOMAIN boxes
  <2> SUFFICES ASSUME k \in DOMAIN boxes PROVE FALSE
    OBVIOUS
  <2>1. w \in DOMAIN CNTs
    BY <1>k DEF BoxInv, BoxType
  <2>2. <<w, n>> \in DOMAIN bySlot
    BY <1>k, <2>1, SoundElim
  <2> QED
    BY <1>5, <2>2
<1>7. w \in DOMAIN CNTs'
  BY <1>5 DEF Put
<1>8. k \in (DOMAIN CNTs') \X (Nat \ {0}) \X Nat \X (Nat \ {0})
  <2>1. c.SrchCnt \in Nat
    BY <1>1 DEF Counter
  <2> QED
    BY <1>2, <1>7, <1>k, <2>1
<1>9. Adds({k}) /\ boxes'[k] = x
  <2>1. boxes' = Put(boxes, k, x)
    BY <1>5
  <2> QED
    BY <1>6, <1>8, <2>1, PutAdds
<1>10. k = <<w, d.UpdtCnt, c.SrchCnt, 1>>
  BY <1>2, <1>k
<1>11. /\ c.latestUpdatedCounter = None
       /\ w \in DOMAIN CNTs => CNTs[w] = c
       /\ w \notin DOMAIN CNTs => c.UpdtCnt = 0
       /\ d.UpdtCnt = c.UpdtCnt + 1 /\ d.SrchCnt = c.SrchCnt /\ d.Access = c.Access
       /\ d.latestUpdatedCounter = None
  BY <1>2, <1>3, <1>4, <1>n
<1>12. /\ CNTs' = Put(CNTs, w, d)
       /\ <<w, d.UpdtCnt>> \notin DOMAIN bySlot
       /\ bySlot' = Put(bySlot, <<w, d.UpdtCnt>>, [ind |-> x, acc |-> 1])
  BY <1>2, <1>5
<1>13. /\ boxes' = Put(boxes, <<w, d.UpdtCnt, c.SrchCnt, 1>>, x)
       /\ Adds({<<w, d.UpdtCnt, c.SrchCnt, 1>>})
       /\ boxes'[<<w, d.UpdtCnt, c.SrchCnt, 1>>] = x
  BY <1>5, <1>9, <1>10
<1> QED
  BY <1>1, <1>2, <1>11, <1>12, <1>13

\* The other keywords and the types of the boxes, for a slot write.
LEMMA SlotWriteInv ==
    ASSUME BoxInv, SlotInv',
           NEW w \in Keyword, NEW s \in Nat \ {0}, NEW g \in Nat, NEW n \in Nat \ {0},
           NEW y \in Ind, NEW K, SlotWrite(w, s, g, n, y, K),
           NEW d, CNTs' = Put(CNTs, w, d), searching = None, searching' = None,
           phase' = "setup" => phase = "setup",
           BoxType' => Sound(w)'
    PROVE  BoxInv'
<1>0. MapTypes /\ MapTypes' /\ BoxType
  BY DEF BoxInv, SlotInv, Types
<1>1. /\ DOMAIN CNTs' = DOMAIN CNTs \cup {w}
      /\ \A v \in DOMAIN CNTs : v # w => CNTs'[v] = CNTs[v]
  BY DEF Put
<1>2. Adds(K) /\ \A k \in K : k[1] = w
  BY DEF SlotWrite
<1>3. BoxType'
  BY <1>0, <1>1, <1>2, AddsType
<1>4. ASSUME NEW v \in DOMAIN CNTs, v # w PROVE Generation(v)' = Generation(v)
  BY <1>0, <1>1, <1>4, IdleGeneration, IdleGenerationNext
<1>5. \A v, i : v # w =>
        /\ <<v, i>> \in DOMAIN bySlot' <=> <<v, i>> \in DOMAIN bySlot
        /\ <<v, i>> \in DOMAIN bySlot => bySlot'[<<v, i>>] = bySlot[<<v, i>>]
  BY DEF SlotWrite
<1>6. ASSUME NEW v \in DOMAIN CNTs', v # w PROVE Sound(v)'
  BY <1>0, <1>1, <1>2, <1>3, <1>4, <1>5, <1>6, OthersSound
<1> QED
  BY <1>3, <1>6 DEF BoxInv

LEMMA BoxInvSetupInsert ==
    ASSUME BoxInv, SlotInv', ~SetupRefill, NEW w \in Keyword, NEW x \in Ind, SetupInsert(w, x)
    PROVE  BoxInv'
<1>1. PICK c \in Counter, d \in Counter :
        /\ c.latestUpdatedCounter = None
        /\ w \in DOMAIN CNTs => CNTs[w] = c
        /\ w \notin DOMAIN CNTs => c.UpdtCnt = 0
        /\ d.UpdtCnt = c.UpdtCnt + 1 /\ d.SrchCnt = c.SrchCnt /\ d.Access = c.Access
        /\ d.latestUpdatedCounter = None
        /\ CNTs' = Put(CNTs, w, d)
        /\ <<w, d.UpdtCnt>> \notin DOMAIN bySlot
        /\ bySlot' = Put(bySlot, <<w, d.UpdtCnt>>, [ind |-> x, acc |-> 1])
        /\ Adds({<<w, d.UpdtCnt, c.SrchCnt, 1>>})
        /\ boxes'[<<w, d.UpdtCnt, c.SrchCnt, 1>>] = x
  BY SetupInsertAdds
<1>2. PICK s \in Nat \ {0}, g \in Nat : s = d.UpdtCnt /\ g = c.SrchCnt
  BY <1>1 DEF Counter
<1> DEFINE k == <<w, s, g, 1>>
<1>3. /\ Adds({k}) /\ boxes'[k] = x /\ k \in DOMAIN boxes'
      /\ <<w, s>> \notin DOMAIN bySlot
  BY <1>1, <1>2 DEF Adds
<1>4. /\ DOMAIN bySlot' = DOMAIN bySlot \cup {<<w, s>>}
      /\ bySlot'[<<w, s>>] = [ind |-> x, acc |-> 1]
      /\ \A j \in DOMAIN bySlot : j # <<w, s>> => bySlot'[j] = bySlot[j]
  BY <1>1, <1>2 DEF Put
<1>5. w \in DOMAIN CNTs' /\ CNTs'[w] = d
  BY <1>1 DEF Put
<1>6. MapTypes /\ MapTypes' /\ searching = None /\ searching' = None /\ phase = "setup"
  BY DEF BoxInv, SlotInv, Types, SetupInsert, Idle, locals
<1>7. /\ w \in DOMAIN CNTs => Generation(w) = g
      /\ Generation(w)' = g
  BY <1>1, <1>2, <1>5, <1>6, IdleGeneration, IdleGenerationNext
<1>8. CNTs'[w].Access \in Nat \ {0} /\ (w \in DOMAIN CNTs => CNTs'[w].Access >= CNTs[w].Access)
  BY <1>1, <1>5 DEF Counter
<1>9. 1 = NextAccess(w, s)
  BY <1>3 DEF NextAccess
<1>10. SlotWrite(w, s, g, 1, x, {k})
  BY <1>3, <1>4, <1>5, <1>7, <1>8, <1>9 DEF SlotWrite
<1>11. Frontier(w)' /\ Open(w, s)'
  BY <1>1, <1>4, <1>5 DEF Frontier, Open
<1>12. SlotSound(w, s)'
  <2>1. Read(w, s, 1)' = x
    BY <1>3, <1>7 DEF Read
  <2>2. 1 <= CNTs'[w].Access
    BY <1>8
  <2> QED
    BY <1>4, <1>8, <2>1, <2>2, SlotOpened
<1>13. ASSUME NEW i, i # s, <<w, i>> \in DOMAIN bySlot
       PROVE  (Open(w, i)' <=> Open(w, i)) /\ (i \in Slots(w)' => i \in Slots(w))
  <2>1. w \in DOMAIN CNTs
    BY <1>6, <1>13 DEF MapTypes, IsMap
  <2>2. Open(w, i)' <=> Open(w, i)
    BY <1>1, <1>4, <1>5, <1>13, <2>1 DEF Open
  <2>3. i \in Slots(w)' => i \in Slots(w)
    BY <1>1, <1>2, <1>5, <1>13, <2>1 DEF Slots, Counter
  <2> QED
    BY <2>2, <2>3
<1>14. BoxType' => Sound(w)'
  <2>1. 1 \in Nat \ {0}
    OBVIOUS
  <2> QED
    BY <1>6, <1>10, <1>11, <1>12, <1>13, <2>1, SlotWriteSound
<1>15. CNTs' = Put(CNTs, w, d)
  BY <1>1
<1> QED
  BY <1>6, <1>10, <1>14, <1>15, SlotWriteInv

\* The boxes that open a slot.
LEMMA OpenedPairs ==
    ASSUME NEW w, NEW x, NEW s, NEW g, NEW n \in Nat \ {0}
    PROVE  /\ \A p \in Opened(w, x, s, g, n) :
                 \/ p = <<<<w, s, g, n>>, x>>
                 \/ n > 1 /\ p = <<<<w, s, g, 1>>, At(n)>>
           /\ <<<<w, s, g, n>>, x>> \in Opened(w, x, s, g, n)
           /\ n > 1 => <<<<w, s, g, 1>>, At(n)>> \in Opened(w, x, s, g, n)
BY DEF Opened

\* What an insertion finds of a keyword, new or not.
LEMMA InsertFinds ==
    ASSUME BoxInv, searching = None, NEW w \in Keyword,
           NEW c, c = Counters(w), c.latestUpdatedCounter # None
    PROVE  /\ c \in Counter /\ c.latestUpdatedCounter \in Nat
           /\ c.UpdtCnt <= c.latestUpdatedCounter
           /\ \A i \in 1 .. c.latestUpdatedCounter : <<w, i>> \in DOMAIN bySlot
           /\ \A i, g, a : <<w, i, g, a>> \in DOMAIN boxes =>
                 /\ <<w, i>> \in DOMAIN bySlot
                 /\ a \in Nat /\ a <= Acc(w, i)
                 /\ g = c.SrchCnt => i <= c.latestUpdatedCounter
           /\ \A i : <<w, i>> \in DOMAIN bySlot =>
                 /\ w \in DOMAIN CNTs
                 /\ Acc(w, i) \in Nat \ {0} /\ SlotSound(w, i)
                 /\ Open(w, i) <=> i <= c.latestUpdatedCounter
<1>0. MapTypes /\ BoxType /\ Types
  BY DEF BoxInv, SlotInv, Types
<1>1. c \in Counter /\ c.latestUpdatedCounter \in Nat
  <2>1. c \in Counter
    BY <1>0, CountersType
  <2> QED
    BY <2>1 DEF Counter
<1>2. CASE w \in DOMAIN CNTs
  <2>1. c = CNTs[w]
    BY <1>2 DEF Counters
  <2>2. Generation(w) = c.SrchCnt
    BY <1>0, <1>2, <2>1, IdleGeneration
  <2>3. /\ Frontier(w)
        /\ \A i, g, a : <<w, i, g, a>> \in DOMAIN boxes =>
              /\ a \in Nat \ {0}
              /\ <<w, i>> \in DOMAIN bySlot
              /\ a <= Acc(w, i)
              /\ g = Generation(w) => Open(w, i)
        /\ \A i : <<w, i>> \in DOMAIN bySlot => Acc(w, i) \in Nat \ {0} /\ SlotSound(w, i)
    BY <1>2, SoundElim
  <2>4. \A i : <<w, i>> \in DOMAIN bySlot => (Open(w, i) <=> i <= c.latestUpdatedCounter)
    BY <2>1 DEF Open
  <2>5. /\ c.UpdtCnt <= c.latestUpdatedCounter
        /\ \A i \in 1 .. c.latestUpdatedCounter : <<w, i>> \in DOMAIN bySlot
    BY <2>1, <2>3 DEF Frontier
  <2> QED
    BY <1>1, <1>2, <2>2, <2>3, <2>4, <2>5
<1>3. CASE w \notin DOMAIN CNTs
  <2>1. c.UpdtCnt = 0 /\ c.latestUpdatedCounter = 0
    BY <1>3 DEF Counters, NoCounters
  <2>2. \A i : <<w, i>> \notin DOMAIN bySlot
    BY <1>0, <1>3 DEF MapTypes, IsMap
  <2>3. \A i, g, a : <<w, i, g, a>> \notin DOMAIN boxes
    BY <1>0, <1>3 DEF BoxType
  <2> QED
    BY <1>1, <2>1, <2>2, <2>3
<1> QED
  BY <1>2, <1>3

\* An insertion of x into slot s, with access number n and the pairs b,
\* writes new boxes only.
InsertWrites(w, x, c, s, n, b) ==
    /\ s \in Nat \ {0} /\ n \in Nat \ {0}
    /\ Adds({p[1] : p \in b})
    /\ Cardinality({p[1] : p \in b}) = Cardinality(b)
    /\ \A k \in {p[1] : p \in b} :
          \/ k = <<w, s, c.SrchCnt, n>>
          \/ k = <<w, s, c.SrchCnt, 1>> /\ (c.latestUpdatedCounter < s)
    /\ <<w, s, c.SrchCnt, n>> \in DOMAIN boxes'
    /\ boxes'[<<w, s, c.SrchCnt, n>>] = x
    /\ c.latestUpdatedCounter < s /\ n > 1 =>
          /\ <<w, s, c.SrchCnt, 1>> \in DOMAIN boxes'
          /\ boxes'[<<w, s, c.SrchCnt, 1>>] = At(n)

LEMMA InsertAdds ==
    ASSUME BoxInv, searching = None, NEW w \in Keyword, NEW x \in Ind, w \in DOMAIN CNTs',
           NEW c, c = Counters(w), c.latestUpdatedCounter # None,
           NEW s, s = c.UpdtCnt + 1, NEW n, n = NextAccess(w, s),
           NEW b, b = Inserted(w, x, s, n), boxes' = Written(b)
    PROVE  InsertWrites(w, x, c, s, n, b)
<1> DEFINE l == c.latestUpdatedCounter
           g == c.SrchCnt
           K == {p[1] : p \in b}
<1>0. /\ c \in Counter /\ l \in Nat
      /\ c.UpdtCnt <= l
      /\ \A i \in 1 .. l : <<w, i>> \in DOMAIN bySlot
      /\ \A i, h, a : <<w, i, h, a>> \in DOMAIN boxes =>
            /\ <<w, i>> \in DOMAIN bySlot
            /\ a \in Nat /\ a <= Acc(w, i)
            /\ h = g => i <= l
      /\ \A i : <<w, i>> \in DOMAIN bySlot => Acc(w, i) \in Nat \ {0}
  BY InsertFinds
<1>1. s \in Nat \ {0} /\ g \in Nat
  BY <1>0 DEF Counter
<1>2. n \in Nat \ {0}
  BY NextAccessType DEF BoxInv
<1>3. /\ l < s => b = Opened(w, x, s, g, n)
      /\ ~(l < s) => b = {<<<<w, s, g, n>>, x>>}
  BY DEF Inserted
<1> HIDE DEF l, g
<1>4. /\ \A p \in b : \/ p = <<<<w, s, g, n>>, x>>
                      \/ l < s /\ n > 1 /\ p = <<<<w, s, g, 1>>, At(n)>>
      /\ <<<<w, s, g, n>>, x>> \in b
      /\ l < s /\ n > 1 => <<<<w, s, g, 1>>, At(n)>> \in b
  <2>1. CASE l < s
    BY <1>2, <1>3, <2>1, OpenedPairs
  <2>2. CASE ~(l < s)
    BY <1>3, <2>2
  <2> QED
    BY <2>1, <2>2
<1>5. /\ \A p \in b : p = <<p[1], p[2]>>
      /\ \A p, q \in b : p[1] = q[1] => p = q
  <2>1. \A p \in b : p = <<p[1], p[2]>>
    BY <1>4
  <2>2. \A p \in b : \/ p[1] = <<w, s, g, n>> /\ p[2] = x
                     \/ n > 1 /\ p[1] = <<w, s, g, 1>> /\ p[2] = At(n)
    BY <1>4
  <2>3. n > 1 => <<w, s, g, n>> # <<w, s, g, 1>>
    BY <1>2
  <2>4. \A p, q \in b : p[1] = q[1] => p[2] = q[2]
    BY <2>2, <2>3
  <2> QED
    BY <2>1, <2>4
<1>6. /\ DOMAIN boxes' = DOMAIN boxes \cup K
      /\ \A p \in b : boxes'[p[1]] = p[2]
      /\ \A k \in DOMAIN boxes : k \notin K => boxes'[k] = boxes[k]
  <2>1. Puts(b)
    BY <1>5, WrittenFact
  <2> QED
    BY <2>1 DEF Puts
<1>7. IsFiniteSet(b)
  BY InsertedFinite
<1>8. IsFiniteSet(K) /\ Cardinality(K) = Cardinality(b)
  BY <1>5, <1>7, KeysCounted
<1>9. \A k \in K : k = <<w, s, g, n>> \/ (k = <<w, s, g, 1>> /\ l < s)
  BY <1>4
<1>10. ASSUME NEW a, <<w, s, g, a>> \in DOMAIN boxes PROVE s <= l /\ a # n
  <2>1. /\ <<w, s>> \in DOMAIN bySlot /\ a \in Nat /\ a <= Acc(w, s)
        /\ g = g => s <= l
    BY <1>0, <1>10
  <2>2. n = Acc(w, s) + 1 /\ Acc(w, s) \in Nat
    BY <1>0, <2>1 DEF NextAccess, Acc
  <2> QED
    BY <2>1, <2>2
<1>11. /\ <<w, s, g, n>> \notin DOMAIN boxes
       /\ l < s => <<w, s, g, 1>> \notin DOMAIN boxes
  <2>1. l \in Nat
    BY <1>0
  <2> QED
    BY <1>1, <1>10, <2>1
<1>12. K \cap DOMAIN boxes = {}
  BY <1>9, <1>11
<1>13. K \subseteq (DOMAIN CNTs') \X (Nat \ {0}) \X Nat \X (Nat \ {0})
  BY <1>1, <1>2, <1>9
<1>14. Adds(K)
  BY <1>6, <1>8, <1>12, <1>13 DEF Adds
<1>15. /\ <<w, s, g, n>> \in DOMAIN boxes' /\ boxes'[<<w, s, g, n>>] = x
       /\ l < s /\ n > 1 => <<w, s, g, 1>> \in DOMAIN boxes' /\ boxes'[<<w, s, g, 1>>] = At(n)
  BY <1>4, <1>6
<1> QED
  BY <1>1, <1>2, <1>8, <1>9, <1>14, <1>15 DEF InsertWrites, g, l

\* What an insertion that throws nothing does.
LEMMA InsertDoes ==
    ASSUME SlotInv, NEW w \in Keyword, NEW x \in Ind, Insert(w, x), thrown' = thrown
    PROVE  LET c == Counters(w)
               s == c.UpdtCnt + 1
               n == NextAccess(w, s)
               b == Inserted(w, x, s, n)
           IN  /\ searching = None /\ searching' = None /\ phase' = "live"
               /\ c.latestUpdatedCounter # None
               /\ CNTs' = Put(CNTs, w, Counted(c, x, s, n))
               /\ bySlot' = Put(bySlot, <<w, s>>, [ind |-> x, acc |-> n])
               /\ boxes' = Written(b) /\ empty' = empty - Cardinality(b)
               /\ live' = [live EXCEPT ![w] = @ \cup {x}]
               /\ UNCHANGED <<locals, finalRes>>
<1>1. /\ Idle
      /\ IF Counters(w).latestUpdatedCounter = None THEN Throw("stoi")
         ELSE IF empty < Cardinality(Inserted(w, x, Counters(w).UpdtCnt + 1,
                                      NextAccess(w, Counters(w).UpdtCnt + 1)))
              THEN Throw("full") ELSE TRUE
  BY DEF Insert
<1>2. thrown = None /\ ~Throw("stoi") /\ ~Throw("full")
  BY <1>1, HorusAssumption DEF Idle, Throw
<1> QED
  BY <1>1, <1>2 DEF Insert, Idle, locals

LEMMA BoxInvInsert ==
    ASSUME BoxInv, SlotInv', NEW w \in Keyword, NEW x \in Ind, Insert(w, x), thrown' = thrown
    PROVE  BoxInv'
<1>c. PICK c : c = Counters(w)
  OBVIOUS
<1>s. PICK s : s = c.UpdtCnt + 1
  OBVIOUS
<1>n. PICK n : n = NextAccess(w, s)
  OBVIOUS
<1>b. PICK b : b = Inserted(w, x, s, n)
  OBVIOUS
<1>d. PICK d : d = Counted(c, x, s, n)
  OBVIOUS
<1>g. PICK g : g = c.SrchCnt
  OBVIOUS
<1>l. PICK l : l = c.latestUpdatedCounter
  OBVIOUS
<1>0. /\ searching = None /\ searching' = None /\ phase' = "live" /\ l # None
      /\ CNTs' = Put(CNTs, w, d)
      /\ bySlot' = Put(bySlot, <<w, s>>, [ind |-> x, acc |-> n])
      /\ boxes' = Written(b)
  <2>1. SlotInv
    BY DEF BoxInv
  <2> QED
    BY <1>c, <1>s, <1>n, <1>b, <1>d, <1>l, <2>1, InsertDoes
<1> DEFINE K == {p[1] : p \in b}
<1>1. MapTypes /\ MapTypes' /\ SlotInv
  BY DEF BoxInv, SlotInv, Types
<1>2. w \in DOMAIN CNTs' /\ CNTs'[w] = d
  BY <1>0 DEF Put
<1>3. /\ s \in Nat \ {0} /\ n \in Nat \ {0}
      /\ Adds(K)
      /\ \A k \in K : k = <<w, s, g, n>> \/ (k = <<w, s, g, 1>> /\ l < s)
      /\ <<w, s, g, n>> \in DOMAIN boxes' /\ boxes'[<<w, s, g, n>>] = x
      /\ l < s /\ n > 1 =>
            <<w, s, g, 1>> \in DOMAIN boxes' /\ boxes'[<<w, s, g, 1>>] = At(n)
  <2>1. c.latestUpdatedCounter # None
    BY <1>0, <1>l
  <2>2. InsertWrites(w, x, c, s, n, b)
    BY <1>0, <1>2, <1>c, <1>s, <1>n, <1>b, <2>1, InsertAdds
  <2> QED
    BY <1>g, <1>l, <2>2 DEF InsertWrites
<1>4. /\ c \in Counter /\ l \in Nat /\ c.UpdtCnt <= l
      /\ \A i \in 1 .. l : <<w, i>> \in DOMAIN bySlot
      /\ \A i : <<w, i>> \in DOMAIN bySlot =>
            /\ w \in DOMAIN CNTs
            /\ Acc(w, i) \in Nat \ {0} /\ SlotSound(w, i)
            /\ Open(w, i) <=> i <= l
  BY <1>0, <1>c, <1>l, InsertFinds
<1>5. /\ d \in Counter /\ d.UpdtCnt = s /\ d.SrchCnt = g
      /\ d.Access >= c.Access /\ d.Access >= n
      /\ d.latestUpdatedCounter = IF l < s THEN l + 1 ELSE l
  BY <1>0, <1>3, <1>4, <1>d, <1>s, <1>g, <1>l, CountedType
<1>6. g \in Nat /\ c.UpdtCnt \in Nat /\ d.Access \in Nat
  BY <1>4, <1>5, <1>g, HorusAssumption DEF Counter
<1>7. d.latestUpdatedCounter \in Nat /\ s <= d.latestUpdatedCounter /\ (l < s => l = s - 1)
  BY <1>3, <1>4, <1>5, <1>6, <1>s
<1>8. /\ DOMAIN bySlot' = DOMAIN bySlot \cup {<<w, s>>}
      /\ bySlot'[<<w, s>>] = [ind |-> x, acc |-> n]
      /\ \A j \in DOMAIN bySlot : j # <<w, s>> => bySlot'[j] = bySlot[j]
  BY <1>0 DEF Put
<1>9. w \in DOMAIN CNTs => CNTs[w] = c
  BY <1>c DEF Counters
<1>10. /\ w \in DOMAIN CNTs => Generation(w) = g
       /\ Generation(w)' = g
  BY <1>0, <1>1, <1>2, <1>5, <1>9, <1>g, IdleGeneration, IdleGenerationNext
<1>11. SlotWrite(w, s, g, n, x, K)
  <2>1. \A k \in K : k = <<w, s, g, n>> \/ k = <<w, s, g, 1>>
    BY <1>3
  <2>2. w \in DOMAIN CNTs => CNTs'[w].Access >= CNTs[w].Access
    BY <1>2, <1>5, <1>9
  <2> QED
    BY <1>2, <1>3, <1>8, <1>10, <1>n, <2>1, <2>2 DEF SlotWrite
<1>12. Frontier(w)' /\ Open(w, s)'
  <2>1. \A i \in 1 .. d.latestUpdatedCounter : i \in 1 .. l \/ i = s
    BY <1>3, <1>4, <1>5, <1>7
  <2>2. \A i \in 1 .. d.latestUpdatedCounter : <<w, i>> \in DOMAIN bySlot'
    BY <1>4, <1>8, <2>1
  <2>3. Frontier(w)'
    BY <1>0, <1>2, <1>5, <1>7, <2>2 DEF Frontier
  <2> QED
    BY <1>2, <1>7, <1>8, <2>3 DEF Open
<1>13. Read(w, s, n)' = x
  BY <1>3, <1>10 DEF Read
<1>14. SlotSound(w, s)'
  <2>1. CASE l < s
    <3>1. n > 1 => Read(w, s, 1)' = At(n)
      BY <1>3, <1>10, <2>1 DEF Read
    <3> QED
      BY <1>2, <1>3, <1>5, <1>6, <1>8, <1>13, <3>1, SlotOpened
  <2>2. CASE ~(l < s)
    <3>1. s \in 1 .. l
      BY <1>3, <1>4, <2>2
    <3>2. /\ <<w, s>> \in DOMAIN bySlot /\ w \in DOMAIN CNTs
          /\ Acc(w, s) \in Nat \ {0} /\ SlotSound(w, s) /\ Open(w, s)
      BY <1>4, <3>1
    <3>3. n = Acc(w, s) + 1
      BY <1>n, <3>2 DEF NextAccess, Acc
    <3>4. \A a \in 1 .. Acc(w, s) : Read(w, s, a)' = Read(w, s, a)
      <4> SUFFICES ASSUME NEW a \in 1 .. Acc(w, s) PROVE Read(w, s, a)' = Read(w, s, a)
        OBVIOUS
      <4>1. a # n
        BY <3>2, <3>3
      <4>2. <<w, s, g, a>> \notin K
        BY <1>3, <2>2, <4>1
      <4> QED
        BY <1>3, <1>10, <3>2, <4>2 DEF Adds, Read
    <3> QED
      BY <1>2, <1>3, <1>5, <1>6, <1>8, <1>13, <3>2, <3>3, <3>4, SlotExtended
  <2> QED
    BY <2>1, <2>2
<1>15. ASSUME NEW i, i # s, <<w, i>> \in DOMAIN bySlot
       PROVE  (Open(w, i)' <=> Open(w, i)) /\ (i \in Slots(w)' => i \in Slots(w))
  <2>1. i \in Nat \ {0} /\ w \in DOMAIN CNTs /\ (Open(w, i) <=> i <= l)
    BY <1>1, <1>4, <1>15 DEF MapTypes, IsMap
  <2>2. i <= d.latestUpdatedCounter <=> i <= l
    BY <1>3, <1>4, <1>5, <1>7, <1>15, <2>1
  <2>3. Open(w, i)' <=> i <= d.latestUpdatedCounter
    BY <1>2, <1>7, <1>8, <1>15, HorusAssumption DEF Open
  <2>4. i \in Slots(w)' => i \in Slots(w)
    BY <1>2, <1>3, <1>5, <1>6, <1>9, <1>15, <1>s, <2>1 DEF Slots
  <2> QED
    BY <2>1, <2>2, <2>3, <2>4
<1>16. BoxType' => Sound(w)'
  BY <1>1, <1>3, <1>6, <1>11, <1>12, <1>14, <1>15, SlotWriteSound
<1>17. CNTs' = Put(CNTs, w, d) /\ phase' # "setup"
  BY <1>0
<1> QED
  BY <1>0, <1>3, <1>6, <1>11, <1>16, <1>17, SlotWriteInv

\* A removal that moves nothing.
LEMMA BoxInvShrunk ==
    ASSUME BoxInv, SlotInv', NEW w \in DOMAIN CNTs, NEW d \in Counter,
           CNTs' = Put(CNTs, w, d), UNCHANGED <<bySlot, boxes, searching, phase>>,
           d.UpdtCnt <= CNTs[w].UpdtCnt, d.Access >= CNTs[w].Access,
           d.SrchCnt = CNTs[w].SrchCnt,
           d.latestUpdatedCounter = CNTs[w].latestUpdatedCounter
    PROVE  BoxInv'
<1>1. /\ DOMAIN CNTs' = DOMAIN CNTs /\ CNTs'[w] = d
      /\ \A v \in DOMAIN CNTs : v # w => CNTs'[v] = CNTs[v]
  BY DEF Put
<1>2. MapTypes' /\ BoxType'
  BY <1>1 DEF BoxInv, SlotInv, Types, BoxType
<1>3. \A v \in DOMAIN CNTs : Generation(v)' = Generation(v)
  BY <1>1 DEF Generation
<1>4. ASSUME NEW v \in DOMAIN CNTs', v # w PROVE Sound(v)'
  <2>1. v \in DOMAIN CNTs /\ BoxesKept(v)
    BY <1>1, <1>3, <1>4 DEF BoxesKept
  <2> QED
    BY <1>2, <2>1, SoundKept
<1>5. /\ w \in Keyword /\ CNTs[w] \in Counter
      /\ Frontier(w)
      /\ \A i, g, a : <<w, i, g, a>> \in DOMAIN boxes =>
            /\ <<w, i>> \in DOMAIN bySlot
            /\ g <= Generation(w) /\ a <= Acc(w, i)
            /\ g = Generation(w) => Open(w, i)
      /\ \A i : <<w, i>> \in DOMAIN bySlot => Acc(w, i) \in Nat \ {0} /\ SlotSound(w, i)
  BY SoundElim
<1>6. CNTs[w].UpdtCnt \in Nat /\ d.UpdtCnt \in Nat /\ CNTs[w].Access \in Nat /\ d.Access \in Nat
  BY <1>5 DEF Counter
<1>7. Sound(w)'
  <2>1. Frontier(w)'
    <3>1. CNTs[w].latestUpdatedCounter # None => CNTs[w].latestUpdatedCounter \in Nat
      BY <1>5 DEF Counter
    <3> QED
      BY <1>1, <1>5, <1>6, <3>1 DEF Frontier
  <2>2. \A i : (Open(w, i)' <=> Open(w, i)) /\ Acc(w, i)' = Acc(w, i)
    BY <1>1 DEF Open, Acc
  <2>3. \A i, a : Read(w, i, a)' = Read(w, i, a)
    BY <1>3 DEF Read
  <2>4. \A i : i \in Slots(w)' => i \in Slots(w)
    BY <1>1, <1>6 DEF Slots
  <2>5. ASSUME NEW i, <<w, i>> \in DOMAIN bySlot' PROVE SlotSound(w, i)'
    <3>1. Acc(w, i) \in Nat \ {0} /\ SlotSound(w, i)
      BY <1>5, <2>5
    <3> QED
      BY <1>1, <1>6, <2>2, <2>3, <2>4, <3>1, SlotKept
  <2>6. \A i, g, a : <<w, i, g, a>> \in DOMAIN boxes' =>
            /\ <<w, i>> \in DOMAIN bySlot'
            /\ g <= Generation(w)' /\ a <= Acc(w, i)'
            /\ g = Generation(w)' => Open(w, i)'
    BY <1>3, <1>5, <2>2
  <2> QED
    BY <1>2, <2>1, <2>5, <2>6, SoundIntro
<1> QED
  BY <1>2, <1>4, <1>7 DEF BoxInv

\* A removal that moves the last identifier writes one new box.
LEMMA MoveAdds ==
    ASSUME BoxInv, NEW w \in Keyword, NEW x \in Ind, Present(w, x), Removed(w, x), Moves(w, x),
           NEW e, e = byInd[<<w, x>>], NEW c, c = CNTs[w],
           NEW k, k = <<w, e.slot, c.SrchCnt, e.acc + 1>>
    PROVE  Adds({k}) /\ boxes'[k] = c.LastIND
<1>0. SlotInv
  BY DEF BoxInv
<1>1. /\ w \in DOMAIN CNTs /\ c \in Counter
      /\ c.UpdtCnt \in Nat \ {0}
      /\ e \in IndEntry /\ e.slot \in 1 .. c.UpdtCnt
      /\ <<w, e.slot>> \in DOMAIN bySlot
      /\ bySlot[<<w, e.slot>>] = [ind |-> x, acc |-> e.acc]
  BY <1>0, PresentFacts
<1>2. PICK s \in Nat \ {0}, g \in Nat, n \in Nat \ {0} :
        s = e.slot /\ g = c.SrchCnt /\ n = e.acc + 1
  BY <1>1, HorusAssumption DEF Counter, IndEntry
<1>3. Acc(w, s) = n - 1 /\ k = <<w, s, g, n>>
  BY <1>1, <1>2 DEF Acc, IndEntry
<1>4. k \notin DOMAIN boxes
  <2> SUFFICES ASSUME k \in DOMAIN boxes PROVE FALSE
    OBVIOUS
  <2>1. n <= Acc(w, s)
    BY <1>1, <1>3, SoundElim
  <2> QED
    BY <1>3, <2>1
<1>5. boxes' = Put(boxes, k, c.LastIND)
  BY DEF Removed, BoxesAfter
<1>6. DOMAIN CNTs' = DOMAIN CNTs
  BY <1>0, RemovedMaps
<1>7. k \in (DOMAIN CNTs') \X (Nat \ {0}) \X Nat \X (Nat \ {0})
  BY <1>1, <1>3, <1>6
<1> QED
  BY <1>4, <1>5, <1>7, PutAdds

LEMMA BoxInvRemoved ==
    ASSUME BoxInv, SlotInv', NEW w \in Keyword, NEW x \in Ind, Present(w, x), Removed(w, x),
           searching = None
    PROVE  BoxInv'
<1>e. PICK e : e = byInd[<<w, x>>]
  OBVIOUS
<1>c. PICK c : c = CNTs[w]
  OBVIOUS
<1>d. PICK d : d = CountersAfter(w, x)
  OBVIOUS
<1>0. MapTypes /\ MapTypes' /\ SlotInv /\ UNCHANGED <<searching, phase>>
  BY DEF BoxInv, SlotInv, Types, Removed, locals
<1>1. /\ w \in DOMAIN CNTs /\ c \in Counter
      /\ c.UpdtCnt \in Nat \ {0} /\ Slots(w) = 1 .. c.UpdtCnt
      /\ e \in IndEntry /\ e.slot \in 1 .. c.UpdtCnt
      /\ <<w, e.slot>> \in DOMAIN bySlot
      /\ bySlot[<<w, e.slot>>] = [ind |-> x, acc |-> e.acc]
      /\ c.LastIND \in Ind
  BY <1>0, <1>c, <1>e, PresentFacts
<1>2. /\ DOMAIN CNTs' = DOMAIN CNTs
      /\ CNTs'[w] \in Counter /\ CNTs'[w].UpdtCnt = c.UpdtCnt - 1
      /\ CNTs'[w].SrchCnt = c.SrchCnt
      /\ CNTs'[w].latestUpdatedCounter = c.latestUpdatedCounter
      /\ CNTs'[w].Access >= c.Access
      /\ Moves(w, x) => CNTs'[w].Access >= e.acc + 1
      /\ DOMAIN bySlot' = DOMAIN bySlot
      /\ Moves(w, x) => bySlot'[<<w, e.slot>>] = [ind |-> c.LastIND, acc |-> e.acc + 1]
      /\ \A k \in DOMAIN bySlot : k # <<w, e.slot>> \/ ~Moves(w, x) => bySlot'[k] = bySlot[k]
  BY <1>0, <1>c, <1>e, RemovedMaps
<1>3. CNTs' = Put(CNTs, w, d) /\ CNTs'[w] = d
  BY <1>d DEF Removed, Put
<1>4. CASE ~Moves(w, x)
  <2>1. UNCHANGED <<bySlot, boxes>>
    BY <1>4 DEF Removed, SlotsAfter, BoxesAfter
  <2>2. d.UpdtCnt <= CNTs[w].UpdtCnt
    BY <1>1, <1>2, <1>3, <1>c
  <2> QED
    BY <1>0, <1>1, <1>2, <1>3, <1>c, <2>1, <2>2, BoxInvShrunk
<1>5. CASE Moves(w, x)
  <2>1. PICK s \in Nat \ {0}, g \in Nat, n \in Nat \ {0}, y \in Ind :
          s = e.slot /\ g = c.SrchCnt /\ n = e.acc + 1 /\ y = c.LastIND
    BY <1>1, HorusAssumption DEF Counter, IndEntry
  <2> DEFINE k == <<w, s, g, n>>
  <2>2. /\ <<w, s>> \in DOMAIN bySlot /\ Acc(w, s) = n - 1 /\ s \in Slots(w)
        /\ bySlot'[<<w, s>>] = [ind |-> y, acc |-> n]
        /\ \A j \in DOMAIN bySlot : j # <<w, s>> => bySlot'[j] = bySlot[j]
    <3>1. Acc(w, s) = e.acc /\ e.acc \in Nat
      BY <1>1, <2>1 DEF Acc, IndEntry
    <3> QED
      BY <1>1, <1>2, <1>5, <2>1, <3>1
  <2>3. /\ Frontier(w)
        /\ Acc(w, s) \in Nat \ {0} /\ SlotSound(w, s)
    BY <1>1, <2>2, SoundElim
  <2>4. Adds({k}) /\ boxes'[k] = y
    BY <1>5, <1>c, <1>e, <2>1, MoveAdds
  <2>5. Generation(w) = g /\ Generation(w)' = g
    BY <1>0, <1>1, <1>2, <1>c, <2>1, IdleGeneration, IdleGenerationNext
  <2>6. n = NextAccess(w, s)
    BY <2>2 DEF NextAccess, Acc
  <2>7. SlotWrite(w, s, g, n, y, {k})
    <3>1. DOMAIN bySlot' = DOMAIN bySlot \cup {<<w, s>>}
      BY <1>2, <2>2
    <3>2. w \in DOMAIN CNTs' /\ CNTs'[w].Access >= CNTs[w].Access
      BY <1>1, <1>2, <1>c
    <3> QED
      BY <2>2, <2>4, <2>5, <2>6, <3>1, <3>2 DEF SlotWrite
  <2>8. Frontier(w)'
    <3>1. c.latestUpdatedCounter # None => c.latestUpdatedCounter \in Nat
      BY <1>1 DEF Counter
    <3> QED
      BY <1>0, <1>1, <1>2, <1>c, <2>3, <3>1 DEF Frontier
  <2>9. \A i : Open(w, i)' <=> Open(w, i)
    BY <1>2, <1>c DEF Open
  <2>10. Open(w, s)
    <3>1. c.latestUpdatedCounter # None => c.latestUpdatedCounter \in Nat
      BY <1>1 DEF Counter
    <3> QED
      BY <1>1, <1>c, <2>2, <2>3, <3>1 DEF Frontier, Open
  <2>11. \A i : i \in Slots(w)' => i \in Slots(w)
    BY <1>1, <1>2, <1>c DEF Slots
  <2>12. SlotSound(w, s)'
    <3>1. Read(w, s, n)' = y
      BY <2>4, <2>5 DEF Read, Adds
    <3>2. \A a \in 1 .. Acc(w, s) : Read(w, s, a)' = Read(w, s, a)
      <4>1. \A a \in 1 .. Acc(w, s) : <<w, s, g, a>> # k
        BY <2>2
      <4> QED
        BY <2>4, <2>5, <4>1 DEF Read, Adds
    <3>3. CNTs'[w].Access \in Nat /\ n <= CNTs'[w].Access
      BY <1>2, <1>5, <2>1 DEF Counter
    <3>4. n = Acc(w, s) + 1
      BY <2>2, <2>3
    <3> QED
      BY <2>2, <2>3, <2>10, <3>1, <3>2, <3>3, <3>4, SlotExtended
  <2>13. BoxType' => Sound(w)'
    BY <1>0, <2>7, <2>8, <2>9, <2>10, <2>11, <2>12, SlotWriteSound
  <2> QED
    BY <1>0, <1>3, <2>7, <2>13, SlotWriteInv
<1> QED
  BY <1>4, <1>5

LEMMA BoxInvRemove ==
    ASSUME BoxInv, SlotInv', NEW w \in Keyword, NEW x \in Ind,
           Remove(w, x) \/ SetupRemove(w, x)
    PROVE  BoxInv'
<1>1. CASE Throw("full")
  BY <1>1, BoxInvThrow
<1>2. CASE ~Throw("full")
  <2>1. searching = None /\ Present(w, x) /\ Removed(w, x)
    BY <1>2 DEF Remove, SetupRemove, Idle
  <2> QED
    BY <2>1, BoxInvRemoved
<1> QED
  BY <1>1, <1>2

LEMMA BoxInvEndSetup == BoxInv /\ SlotInv' /\ EndSetup => BoxInv'
<1> SUFFICES ASSUME BoxInv, SlotInv', EndSetup PROVE BoxInv'
  OBVIOUS
<1>1. UNCHANGED <<CNTs, bySlot, boxes, searching>> /\ phase' # "setup"
  BY DEF EndSetup, maps, locals
<1> QED
  BY <1>1, SoundSame

\* A search raises SrchCnt first: what it reads lies under the one before.
LEMMA BoxInvSearchBegin ==
    ASSUME BoxInv, SlotInv', NEW w \in Keyword, SearchBegin(w)
    PROVE  BoxInv'
<1>0. /\ MapTypes /\ MapTypes' /\ w \in DOMAIN CNTs /\ CNTs[w] \in Counter
      /\ searching = None /\ searching' = w /\ UNCHANGED <<bySlot, boxes, phase>>
      /\ CNTs' = [CNTs EXCEPT ![w].SrchCnt = @ + 1]
  BY DEF BoxInv, SlotInv, Types, MapTypes, IsMap, SearchBegin, Idle
<1>1. /\ DOMAIN CNTs' = DOMAIN CNTs
      /\ \A v \in DOMAIN CNTs : v # w => CNTs'[v] = CNTs[v]
      /\ CNTs'[w] = [CNTs[w] EXCEPT !.SrchCnt = @ + 1]
  BY <1>0
<1>2. /\ CNTs'[w].UpdtCnt = CNTs[w].UpdtCnt /\ CNTs'[w].Access = CNTs[w].Access
      /\ CNTs'[w].latestUpdatedCounter = CNTs[w].latestUpdatedCounter
      /\ CNTs'[w].SrchCnt = CNTs[w].SrchCnt + 1 /\ CNTs[w].SrchCnt \in Int
  BY <1>0, <1>1 DEF Counter
<1>3. BoxType'
  BY <1>0, <1>1 DEF BoxInv, BoxType
<1>4. ASSUME NEW v \in DOMAIN CNTs PROVE Generation(v)' = Generation(v)
  <2>1. Generation(v) = CNTs[v].SrchCnt /\ CNTs[v].SrchCnt \in Int
    BY <1>0, IdleGeneration DEF MapTypes, IsMap, Counter
  <2>2. CASE v = w
    BY <1>0, <1>2, <2>1, <2>2 DEF Generation
  <2>3. CASE v # w
    BY <1>0, <1>1, <2>1, <2>3 DEF Generation
  <2> QED
    BY <2>2, <2>3
<1>5. ASSUME NEW v \in DOMAIN CNTs' PROVE Sound(v)'
  <2>1. v \in DOMAIN CNTs
    BY <1>1, <1>5
  <2>2. /\ CNTs'[v].UpdtCnt = CNTs[v].UpdtCnt /\ CNTs'[v].Access = CNTs[v].Access
        /\ CNTs'[v].latestUpdatedCounter = CNTs[v].latestUpdatedCounter
    BY <1>1, <1>2, <2>1
  <2>3. BoxesKept(v)
    BY <1>0, <1>1, <1>4, <2>1, <2>2 DEF BoxesKept
  <2> QED
    BY <1>0, <1>3, <2>1, <2>3, SoundKept
<1> QED
  BY <1>3, <1>5 DEF BoxInv

LEMMA BoxInvSearchRound == BoxInv /\ SlotInv' /\ SearchRound => BoxInv'
<1> SUFFICES ASSUME BoxInv, SlotInv', SearchRound PROVE BoxInv'
  OBVIOUS
<1>1. UNCHANGED <<CNTs, bySlot, boxes, searching, phase>>
  BY DEF SearchRound, Throw, maps, locals
<1> QED
  BY <1>1, SoundSame

LEMMA BoxInvStutter == BoxInv /\ SlotInv' /\ UNCHANGED vars => BoxInv'
<1> SUFFICES ASSUME BoxInv, SlotInv', UNCHANGED vars PROVE BoxInv'
  OBVIOUS
<1>1. UNCHANGED <<CNTs, bySlot, boxes, searching, phase>>
  BY DEF vars, maps, locals
<1> QED
  BY <1>1, SoundSame

-----------------------------------------------------------------------------
(* What BoxInv says of the slots in use.                                   *)

LEMMA SlotFacts ==
    ASSUME BoxInv, NEW w \in DOMAIN CNTs, NEW i \in Slots(w)
    PROVE  /\ i \in Nat \ {0} /\ <<w, i>> \in DOMAIN bySlot
           /\ Acc(w, i) \in Nat \ {0} /\ bySlot[<<w, i>>].ind \in Ind
           /\ SlotSound(w, i) /\ Open(w, i) /\ Chain(w, i)
<1>1. /\ w \in Keyword /\ CNTs[w] \in Counter /\ Frontier(w)
      /\ \A j : <<w, j>> \in DOMAIN bySlot =>
            /\ j \in Nat \ {0} /\ bySlot[<<w, j>>] \in SlotEntry
            /\ Acc(w, j) \in Nat \ {0} /\ SlotSound(w, j)
  BY SoundElim
<1>2. CNTs[w].UpdtCnt \in Nat /\ i \in 1 .. CNTs[w].UpdtCnt
  BY <1>1 DEF Counter, Slots
<1>3. <<w, i>> \in DOMAIN bySlot
  BY <1>1 DEF BoxInv, SlotInv, Paired
<1>4. i \in Nat \ {0} /\ bySlot[<<w, i>>].ind \in Ind
  BY <1>1, <1>3 DEF SlotEntry
<1>5. Open(w, i)
  <2>1. CNTs[w].latestUpdatedCounter # None => CNTs[w].latestUpdatedCounter \in Nat
    BY <1>1 DEF Counter
  <2> QED
    BY <1>1, <1>2, <1>3, <2>1 DEF Frontier, Open
<1>6. SlotSound(w, i) /\ Acc(w, i) \in Nat \ {0}
  BY <1>1, <1>3
<1> QED
  BY <1>3, <1>4, <1>5, <1>6 DEF SlotSound

\* From the first access number of a slot on, exactly the ones up to its last
\* are there.
LEMMA ReadFacts ==
    ASSUME BoxInv, NEW w \in DOMAIN CNTs, NEW i \in Slots(w)
    PROVE  /\ Acc(w, i) \in Nat \ {0} /\ First(w, i) \in 1 .. Acc(w, i)
           /\ CNTs[w].Access \in Nat /\ Acc(w, i) <= CNTs[w].Access
           /\ bySlot[<<w, i>>].ind \in Ind
           /\ Read(w, i, Acc(w, i)) = bySlot[<<w, i>>].ind
           /\ \A a \in First(w, i) .. Acc(w, i) : Read(w, i, a) \in Ind
           /\ \A a \in Nat : a > Acc(w, i) => Read(w, i, a) = None
<1>1. /\ Acc(w, i) \in Nat \ {0} /\ bySlot[<<w, i>>].ind \in Ind
      /\ SlotSound(w, i) /\ Chain(w, i)
  BY SlotFacts
<1>2. ASSUME NEW a \in Nat, a > Acc(w, i) PROVE Read(w, i, a) = None
  <2>1. \A h : <<w, i, h, a>> \in DOMAIN boxes => a <= Acc(w, i)
    BY SoundElim
  <2>2. \A h : <<w, i, h, a>> \notin DOMAIN boxes
    BY <1>1, <1>2, <2>1
  <2> QED
    BY <2>2 DEF Read
<1>3. CNTs[w].Access \in Nat
  BY SoundElim DEF Counter
<1> QED
  BY <1>1, <1>2, <1>3 DEF Chain, SlotSound

-----------------------------------------------------------------------------
(* The search under way.                                                   *)

Unread(p, access) ==
    p = [left |-> 1, right |-> access, curValue |-> 1,
         lastID |-> None, lastAcc |-> 0, foundItem |-> FALSE]

Probe ==
    [left : Nat, right : Nat, curValue : Nat, lastID : Ind \cup {None},
     lastAcc : Nat, foundItem : BOOLEAN]

\* The last access number of slot i is in the interval of its probe p.
Between(w, i, p) ==
    /\ First(w, i) <= p.left /\ p.left <= Acc(w, i)
    /\ Acc(w, i) <= p.right /\ p.right <= CNTs[w].Access
    /\ p.left <= p.curValue /\ p.curValue <= p.right
    /\ p.curValue = p.right => p.right <= p.left + 1
    /\ p.lastID # None => p.lastID = Read(w, i, p.left) /\ p.lastAcc = p.left

Exact(w, i, p) ==
    p.lastAcc = Acc(w, i) /\ p.lastID = bySlot[<<w, i>>].ind

Probing(w, i, p) ==
    /\ p \in Probe
    /\ firstRun => Unread(p, CNTs[w].Access)
    /\ ~firstRun /\ ~p.foundItem => Between(w, i, p)
    /\ p.foundItem => Exact(w, i, p)

FoundSlots == {i \in DOMAIN probe : probe[i].foundItem}

SearchInv ==
    searching # None =>
        /\ phase = "live"
        /\ CNTs[searching].SrchCnt > 0
        /\ \A i \in DOMAIN probe : Probing(searching, i, probe[i])
        /\ Len(result) = Cardinality(FoundSlots)
        /\ Range(result) = {probe[i].lastID : i \in FoundSlots}

IInv == BoxInv /\ SearchInv

-----------------------------------------------------------------------------
(* The end of a search writes the slots in use under the next SrchCnt.     *)

\* What a search knows of its keyword and of its slots.
LEMMA SearchFacts ==
    ASSUME BoxInv, NEW w, w = searching, searching # None
    PROVE  /\ w \in DOMAIN CNTs /\ w \in Keyword /\ CNTs[w] \in Counter
           /\ CNTs[w].UpdtCnt \in Nat /\ CNTs[w].SrchCnt \in Nat
           /\ Slots(w) = 1 .. CNTs[w].UpdtCnt /\ DOMAIN probe = Slots(w)
           /\ Generation(w) = CNTs[w].SrchCnt - 1
           /\ \A i \in Slots(w) :
                 /\ i \in Nat \ {0} /\ <<w, i>> \in DOMAIN bySlot
                 /\ Acc(w, i) \in Nat \ {0} /\ bySlot[<<w, i>>].ind \in Ind
                 /\ SlotSound(w, i) /\ Open(w, i) /\ Chain(w, i)
<1>1. Types /\ MapTypes /\ w \in DOMAIN CNTs
  BY DEF BoxInv, SlotInv, Types
<1>2. w \in Keyword /\ CNTs[w] \in Counter
  BY <1>1, SoundElim
<1>3. CNTs[w].UpdtCnt \in Nat /\ CNTs[w].SrchCnt \in Nat
  BY <1>2, HorusAssumption DEF Counter
<1>4. Slots(w) = 1 .. CNTs[w].UpdtCnt /\ DOMAIN probe = Slots(w)
  BY <1>1 DEF Slots, Types
<1>5. Generation(w) = CNTs[w].SrchCnt - 1
  BY DEF Generation
<1>6. ASSUME NEW i \in Slots(w)
      PROVE  /\ i \in Nat \ {0} /\ <<w, i>> \in DOMAIN bySlot
             /\ Acc(w, i) \in Nat \ {0} /\ bySlot[<<w, i>>].ind \in Ind
             /\ SlotSound(w, i) /\ Open(w, i) /\ Chain(w, i)
  BY <1>1, <1>6, SlotFacts
<1> QED
  BY <1>1, <1>2, <1>3, <1>4, <1>5, <1>6

LEMMA RewrittenPairs ==
    ASSUME IInv, NEW w, w = searching, searching # None,
           \A i \in DOMAIN probe : probe[i].foundItem,
           NEW g, g = CNTs[w].SrchCnt
    PROVE  /\ \A p \in Rewritten : \E i \in Slots(w) :
                 \/ p = <<<<w, i, g, Acc(w, i)>>, bySlot[<<w, i>>].ind>>
                 \/ Acc(w, i) > 1 /\ p = <<<<w, i, g, 1>>, At(Acc(w, i))>>
           /\ \A i \in Slots(w) :
                 /\ <<<<w, i, g, Acc(w, i)>>, bySlot[<<w, i>>].ind>> \in Rewritten
                 /\ Acc(w, i) > 1 => <<<<w, i, g, 1>>, At(Acc(w, i))>> \in Rewritten
<1>1. /\ DOMAIN probe = Slots(w)
      /\ \A i \in Slots(w) : Acc(w, i) \in Nat \ {0}
  BY SearchFacts DEF IInv
<1>2. ASSUME NEW i \in Slots(w)
      PROVE  probe[i].lastID = bySlot[<<w, i>>].ind /\ probe[i].lastAcc = Acc(w, i)
  BY <1>1, <1>2 DEF IInv, SearchInv, Probing, Exact
<1>3. \A i \in Slots(w) :
        /\ Opened(w, probe[i].lastID, i, g, probe[i].lastAcc) \subseteq Rewritten
  BY <1>1 DEF Rewritten
<1>4. ASSUME NEW p \in Rewritten
      PROVE  \E i \in Slots(w) :
                 \/ p = <<<<w, i, g, Acc(w, i)>>, bySlot[<<w, i>>].ind>>
                 \/ Acc(w, i) > 1 /\ p = <<<<w, i, g, 1>>, At(Acc(w, i))>>
  <2>1. PICK i \in Slots(w) : p \in Opened(w, probe[i].lastID, i, g, probe[i].lastAcc)
    BY <1>1, <1>4 DEF Rewritten
  <2>y. PICK y : y = bySlot[<<w, i>>].ind
    OBVIOUS
  <2>2. PICK n \in Nat \ {0} : n = Acc(w, i)
    BY <1>1
  <2>3. p \in Opened(w, y, i, g, n)
    <3>1. probe[i].lastID = y /\ probe[i].lastAcc = n
      BY <1>2, <2>2, <2>y
    <3> QED
      BY <2>1, <3>1
  <2>4. p = <<<<w, i, g, n>>, y>> \/ (n > 1 /\ p = <<<<w, i, g, 1>>, At(n)>>)
    BY <2>3 DEF Opened
  <2> QED
    BY <2>2, <2>4, <2>y
<1>5. ASSUME NEW i \in Slots(w)
      PROVE  /\ <<<<w, i, g, Acc(w, i)>>, bySlot[<<w, i>>].ind>> \in Rewritten
             /\ Acc(w, i) > 1 => <<<<w, i, g, 1>>, At(Acc(w, i))>> \in Rewritten
  <2>y. PICK y : y = bySlot[<<w, i>>].ind
    OBVIOUS
  <2>2. PICK n \in Nat \ {0} : n = Acc(w, i)
    BY <1>1
  <2>3. Opened(w, y, i, g, n) \subseteq Rewritten
    BY <1>2, <1>3, <2>2, <2>y
  <2>4. /\ <<<<w, i, g, n>>, y>> \in Opened(w, y, i, g, n)
        /\ n > 1 => <<<<w, i, g, 1>>, At(n)>> \in Opened(w, y, i, g, n)
    BY OpenedPairs
  <2> QED
    BY <2>2, <2>3, <2>4, <2>y
<1> QED
  BY <1>4, <1>5

\* They are new, and as many as emptyNodes is lowered by.
SearchWrites(w, g) ==
    /\ Adds({p[1] : p \in Rewritten})
    /\ Cardinality({p[1] : p \in Rewritten}) = Cardinality(Rewritten)
    /\ \A k \in {p[1] : p \in Rewritten} : \E i \in Slots(w) :
          k = <<w, i, g, Acc(w, i)>> \/ k = <<w, i, g, 1>>
    /\ \A i \in Slots(w) :
          /\ <<w, i, g, Acc(w, i)>> \in DOMAIN boxes'
          /\ boxes'[<<w, i, g, Acc(w, i)>>] = bySlot[<<w, i>>].ind
          /\ Acc(w, i) > 1 => /\ <<w, i, g, 1>> \in DOMAIN boxes'
                              /\ boxes'[<<w, i, g, 1>>] = At(Acc(w, i))

LEMMA SearchEndAdds ==
    ASSUME IInv, NEW w, w = searching, searching # None,
           \A i \in DOMAIN probe : probe[i].foundItem,
           NEW g, g = CNTs[w].SrchCnt, DOMAIN CNTs \subseteq DOMAIN CNTs',
           boxes' = Written(Rewritten)
    PROVE  SearchWrites(w, g)
<1>0. /\ w \in DOMAIN CNTs /\ w \in Keyword
      /\ g \in Nat /\ Generation(w) = g - 1
      /\ \A i \in Slots(w) : i \in Nat \ {0} /\ Acc(w, i) \in Nat \ {0}
  BY SearchFacts DEF IInv
<1>1. PICK b : b = Rewritten
  OBVIOUS
<1>2. /\ \A p \in b : \E i \in Slots(w) :
                 \/ p = <<<<w, i, g, Acc(w, i)>>, bySlot[<<w, i>>].ind>>
                 \/ Acc(w, i) > 1 /\ p = <<<<w, i, g, 1>>, At(Acc(w, i))>>
      /\ \A i \in Slots(w) :
                 /\ <<<<w, i, g, Acc(w, i)>>, bySlot[<<w, i>>].ind>> \in b
                 /\ Acc(w, i) > 1 => <<<<w, i, g, 1>>, At(Acc(w, i))>> \in b
  BY <1>1, RewrittenPairs
<1> DEFINE K == {p[1] : p \in b}
<1>3. ASSUME NEW p \in b PROVE p = <<p[1], p[2]>>
  <2> PICK i \in Slots(w) :
                 \/ p = <<<<w, i, g, Acc(w, i)>>, bySlot[<<w, i>>].ind>>
                 \/ Acc(w, i) > 1 /\ p = <<<<w, i, g, 1>>, At(Acc(w, i))>>
    BY <1>2
  <2>1. PICK k, v : p = <<k, v>>
    OBVIOUS
  <2> QED
    BY <2>1
<1>4. ASSUME NEW p \in b, NEW q \in b, p[1] = q[1] PROVE p = q
  <2>1. PICK i \in Slots(w) :
                 \/ p = <<<<w, i, g, Acc(w, i)>>, bySlot[<<w, i>>].ind>>
                 \/ Acc(w, i) > 1 /\ p = <<<<w, i, g, 1>>, At(Acc(w, i))>>
    BY <1>2
  <2>2. PICK j \in Slots(w) :
                 \/ q = <<<<w, j, g, Acc(w, j)>>, bySlot[<<w, j>>].ind>>
                 \/ Acc(w, j) > 1 /\ q = <<<<w, j, g, 1>>, At(Acc(w, j))>>
    BY <1>2
  <2>3. p[1][2] = i /\ q[1][2] = j
    BY <2>1, <2>2
  <2>4. i = j
    BY <1>4, <2>3
  <2>5. p[1][4] = q[1][4]
    BY <1>4
  <2>6. Acc(w, i) > 1 => Acc(w, i) # 1
    BY <1>0
  <2> QED
    BY <2>1, <2>2, <2>4, <2>5, <2>6
<1>5. /\ DOMAIN boxes' = DOMAIN boxes \cup K
      /\ \A p \in b : boxes'[p[1]] = p[2]
      /\ \A k \in DOMAIN boxes : k \notin K => boxes'[k] = boxes[k]
  <2>1. Puts(b)
    BY <1>1, <1>3, <1>4, WrittenFact
  <2> QED
    BY <2>1 DEF Puts
<1>6. IsFiniteSet(K) /\ Cardinality(K) = Cardinality(b)
  <2>1. IsFiniteSet(b)
    BY <1>1, RewrittenFinite DEF IInv, BoxInv, SlotInv
  <2> QED
    BY <1>4, <2>1, KeysCounted
<1>7. ASSUME NEW k \in K
      PROVE  \E i \in Slots(w) : k = <<w, i, g, Acc(w, i)>> \/ k = <<w, i, g, 1>>
  <2>1. PICK p \in b : k = p[1]
    BY <1>7
  <2>2. PICK i \in Slots(w) :
                 \/ p = <<<<w, i, g, Acc(w, i)>>, bySlot[<<w, i>>].ind>>
                 \/ Acc(w, i) > 1 /\ p = <<<<w, i, g, 1>>, At(Acc(w, i))>>
    BY <1>2
  <2>3. k = <<w, i, g, Acc(w, i)>> \/ k = <<w, i, g, 1>>
    BY <2>1, <2>2
  <2> QED
    BY <2>3
<1>8. K \subseteq (DOMAIN CNTs') \X (Nat \ {0}) \X Nat \X (Nat \ {0})
  BY <1>0, <1>7
<1>9. ASSUME NEW k \in K, k \in DOMAIN boxes PROVE FALSE
  <2>1. PICK i, a : k = <<w, i, g, a>>
    BY <1>7, <1>9
  <2>2. g <= Generation(w)
    BY <1>0, <1>9, <2>1, SoundElim DEF IInv
  <2> QED
    BY <1>0, <2>2
<1>10. Adds(K)
  BY <1>5, <1>6, <1>8, <1>9 DEF Adds
<1>11. ASSUME NEW i \in Slots(w)
       PROVE  /\ <<w, i, g, Acc(w, i)>> \in DOMAIN boxes'
              /\ boxes'[<<w, i, g, Acc(w, i)>>] = bySlot[<<w, i>>].ind
              /\ Acc(w, i) > 1 => /\ <<w, i, g, 1>> \in DOMAIN boxes'
                                  /\ boxes'[<<w, i, g, 1>>] = At(Acc(w, i))
  <2>1. /\ <<<<w, i, g, Acc(w, i)>>, bySlot[<<w, i>>].ind>> \in b
        /\ Acc(w, i) > 1 => <<<<w, i, g, 1>>, At(Acc(w, i))>> \in b
    BY <1>2
  <2> QED
    BY <1>5, <2>1
<1> QED
  BY <1>1, <1>6, <1>7, <1>10, <1>11 DEF SearchWrites

\* What the end of a search that throws nothing does.
LEMMA SearchEndDoes ==
    ASSUME SearchEnd, thrown' = thrown
    PROVE  /\ searching # None
           /\ \A i \in DOMAIN probe : probe[i].foundItem
           /\ boxes' = Written(Rewritten)
           /\ empty' = empty - Cardinality(Rewritten)
           /\ CNTs' = [CNTs EXCEPT ![searching].latestUpdatedCounter = Len(result)]
           /\ finalRes' = Range(result) /\ searching' = None
           /\ UNCHANGED <<byInd, bySlot, phase, live>>
<1>1. ~Throw("full")
  BY HorusAssumption DEF SearchEnd, Throw
<1> QED
  BY <1>1 DEF SearchEnd

\* A search that has found all slots has one result for each.
LEMMA ResultCounted ==
    ASSUME IInv, NEW w, w = searching, searching # None,
           \A i \in DOMAIN probe : probe[i].foundItem
    PROVE  Len(result) = CNTs[w].UpdtCnt
<1>1. DOMAIN probe = 1 .. CNTs[w].UpdtCnt /\ CNTs[w].UpdtCnt \in Nat
  BY SearchFacts DEF IInv
<1>2. FoundSlots = 1 .. CNTs[w].UpdtCnt
  BY <1>1 DEF FoundSlots
<1>3. Cardinality(1 .. CNTs[w].UpdtCnt) = CNTs[w].UpdtCnt
  <2>1. PICK n \in Nat : n = CNTs[w].UpdtCnt
    BY <1>1
  <2>2. Cardinality(1 .. n) = n
    BY FS_Interval
  <2> QED
    BY <2>1, <2>2
<1>4. Len(result) = Cardinality(FoundSlots)
  BY DEF IInv, SearchInv
<1> QED
  BY <1>2, <1>3, <1>4

LEMMA BoxInvSearchEnd ==
    ASSUME IInv, SlotInv', SearchEnd, thrown' = thrown
    PROVE  BoxInv'
<1>w. PICK w : w = searching
  OBVIOUS
<1>g. PICK g : g = CNTs[w].SrchCnt
  OBVIOUS
<1>0. /\ searching # None
      /\ \A i \in DOMAIN probe : probe[i].foundItem
      /\ boxes' = Written(Rewritten)
      /\ CNTs' = [CNTs EXCEPT ![w].latestUpdatedCounter = Len(result)]
      /\ searching' = None
      /\ UNCHANGED <<bySlot, phase>>
  BY <1>w, SearchEndDoes
<1>1. BoxInv /\ MapTypes /\ MapTypes' /\ BoxType /\ phase' # "setup"
  BY <1>0 DEF IInv, SearchInv, BoxInv, SlotInv, Types
<1>2. /\ w \in DOMAIN CNTs /\ w \in Keyword /\ CNTs[w] \in Counter
      /\ CNTs[w].UpdtCnt \in Nat /\ g \in Nat
      /\ Slots(w) = 1 .. CNTs[w].UpdtCnt
      /\ Generation(w) = g - 1
      /\ \A i \in Slots(w) :
            /\ i \in Nat \ {0} /\ <<w, i>> \in DOMAIN bySlot
            /\ Acc(w, i) \in Nat \ {0} /\ bySlot[<<w, i>>].ind \in Ind
            /\ SlotSound(w, i)
  BY <1>0, <1>1, <1>w, <1>g, SearchFacts
<1>3. Len(result) = CNTs[w].UpdtCnt
  BY <1>0, <1>w, ResultCounted
<1>4. /\ DOMAIN CNTs' = DOMAIN CNTs
      /\ \A v \in DOMAIN CNTs : v # w => CNTs'[v] = CNTs[v]
      /\ CNTs'[w] = [CNTs[w] EXCEPT !.latestUpdatedCounter = CNTs[w].UpdtCnt]
  BY <1>0, <1>2, <1>3
<1>5. /\ CNTs'[w].UpdtCnt = CNTs[w].UpdtCnt /\ CNTs'[w].SrchCnt = g
      /\ CNTs'[w].Access = CNTs[w].Access /\ CNTs[w].Access \in Nat
      /\ CNTs'[w].latestUpdatedCounter = CNTs[w].UpdtCnt
  BY <1>2, <1>4, <1>g DEF Counter
<1>6. SearchWrites(w, g)
  BY <1>0, <1>4, <1>w, <1>g, SearchEndAdds
<1> DEFINE K == {p[1] : p \in Rewritten}
<1>7. Adds(K) /\ \A k \in K : k[1] = w
  BY <1>6 DEF SearchWrites
<1>8. BoxType'
  BY <1>1, <1>4, <1>7, AddsType
<1>9. Generation(w)' = g
  BY <1>0, <1>1, <1>2, <1>4, <1>5, IdleGenerationNext
<1>10. Slots(w)' = Slots(w)
  BY <1>2, <1>4, <1>5 DEF Slots
<1>11. ASSUME NEW v \in DOMAIN CNTs', v # w PROVE Sound(v)'
  <2>1. ASSUME NEW u \in DOMAIN CNTs, u # w PROVE Generation(u)' = Generation(u)
    <3>1. CNTs'[u] = CNTs[u] /\ u # None /\ searching # u
      BY <1>1, <1>4, <1>w, <2>1, HorusAssumption DEF MapTypes, IsMap
    <3> QED
      BY <1>0, <3>1 DEF Generation
  <2>2. /\ DOMAIN CNTs' \subseteq DOMAIN CNTs \cup {w} /\ DOMAIN CNTs \subseteq DOMAIN CNTs'
        /\ \A u \in DOMAIN CNTs : u # w => CNTs'[u] = CNTs[u] /\ Generation(u)' = Generation(u)
    BY <1>4, <2>1
  <2>3. /\ \A u, i : u # w =>
               /\ <<u, i>> \in DOMAIN bySlot' <=> <<u, i>> \in DOMAIN bySlot
               /\ <<u, i>> \in DOMAIN bySlot => bySlot'[<<u, i>>] = bySlot[<<u, i>>]
        /\ phase' = "setup" => phase = "setup"
    BY <1>0
  <2> HIDE DEF K
  <2> QED
    BY <1>1, <1>7, <1>8, <1>11, <2>2, <2>3, OthersSound
<1>12. \A i : Acc(w, i)' = Acc(w, i)
  BY <1>0 DEF Acc
<1>13. \A i : Open(w, i)' <=> <<w, i>> \in DOMAIN bySlot /\ i <= CNTs[w].UpdtCnt
  BY <1>0, <1>2, <1>5, HorusAssumption DEF Open
<1>14. Frontier(w)'
  BY <1>0, <1>1, <1>2, <1>5 DEF Frontier
<1>15. ASSUME NEW i, <<w, i>> \in DOMAIN bySlot' PROVE SlotSound(w, i)'
  <2>1. /\ <<w, i>> \in DOMAIN bySlot /\ bySlot'[<<w, i>>] = bySlot[<<w, i>>]
    BY <1>0, <1>15
  <2>2. /\ i \in Nat \ {0} /\ bySlot[<<w, i>>] \in SlotEntry
        /\ Acc(w, i) \in Nat \ {0} /\ SlotSound(w, i)
    BY <1>1, <1>2, <2>1, SoundElim
  <2>3. CASE i \notin Slots(w)
    <3>1. ~(i <= CNTs[w].UpdtCnt)
      BY <1>2, <2>2, <2>3
    <3>2. ~Open(w, i)' /\ i \notin Slots(w)'
      BY <1>10, <1>13, <2>3, <3>1
    <3>3. Acc(w, i)' <= CNTs'[w].Access
      BY <1>5, <1>12, <2>2 DEF SlotSound
    <3> QED
      BY <3>2, <3>3 DEF SlotSound
  <2>4. CASE i \in Slots(w)
    <3>1. PICK n \in Nat \ {0}, y \in Ind : n = Acc(w, i) /\ y = bySlot[<<w, i>>].ind
      BY <2>2 DEF SlotEntry
    <3>2. bySlot'[<<w, i>>] = [ind |-> y, acc |-> n]
      BY <2>1, <2>2, <3>1 DEF SlotEntry, Acc
    <3>3. CNTs'[w].Access \in Nat /\ n <= CNTs'[w].Access
      BY <1>5, <2>2, <3>1 DEF SlotSound
    <3>4. /\ <<w, i, g, n>> \in DOMAIN boxes' /\ boxes'[<<w, i, g, n>>] = y
          /\ n > 1 => /\ <<w, i, g, 1>> \in DOMAIN boxes'
                      /\ boxes'[<<w, i, g, 1>>] = At(n)
      BY <1>6, <2>4, <3>1 DEF SearchWrites
    <3>5. Read(w, i, n)' = y /\ (n > 1 => Read(w, i, 1)' = At(n))
      BY <1>9, <3>4 DEF Read
    <3> QED
      BY <3>2, <3>3, <3>5, SlotOpened
  <2> QED
    BY <2>3, <2>4
<1>16. ASSUME NEW i, NEW h, NEW a, <<w, i, h, a>> \in DOMAIN boxes'
       PROVE  /\ <<w, i>> \in DOMAIN bySlot'
              /\ h <= Generation(w)' /\ a <= Acc(w, i)'
              /\ h = Generation(w)' => Open(w, i)'
  <2>1. CASE <<w, i, h, a>> \in K
    <3>1. PICK j \in Slots(w) :
            <<w, i, h, a>> = <<w, j, g, Acc(w, j)>> \/ <<w, i, h, a>> = <<w, j, g, 1>>
      BY <1>6, <2>1 DEF SearchWrites
    <3>2. i \in Slots(w) /\ h = g /\ (a = Acc(w, i) \/ a = 1)
      BY <3>1
    <3>3. <<w, i>> \in DOMAIN bySlot /\ Acc(w, i) \in Nat \ {0} /\ i <= CNTs[w].UpdtCnt
      BY <1>2, <3>2
    <3> QED
      BY <1>0, <1>2, <1>9, <1>12, <1>13, <3>2, <3>3
  <2>2. CASE <<w, i, h, a>> \notin K
    <3>1. <<w, i, h, a>> \in DOMAIN boxes
      BY <1>7, <1>16, <2>2 DEF Adds
    <3>2. /\ h \in Nat /\ <<w, i>> \in DOMAIN bySlot
          /\ h <= Generation(w) /\ a <= Acc(w, i)
      BY <1>1, <1>2, <3>1, SoundElim
    <3> QED
      BY <1>0, <1>2, <1>9, <1>12, <3>2
  <2> QED
    BY <2>1, <2>2
<1>17. Sound(w)'
  BY <1>1, <1>8, <1>14, <1>15, <1>16, SoundIntro
<1> QED
  BY <1>8, <1>11, <1>17 DEF BoxInv

-----------------------------------------------------------------------------
(* One probe of the binary search.                                         *)

LEMMA StartedBetween ==
    ASSUME BoxInv, NEW w \in DOMAIN CNTs, NEW i \in Slots(w),
           NEW p \in Probe, Unread(p, CNTs[w].Access), NEW id, id = Read(w, i, p.curValue)
    PROVE  /\ Started(p, id) \in Probe /\ ~Started(p, id).foundItem
           /\ Between(w, i, Started(p, id))
<1>1. PICK f, l, A : f = First(w, i) /\ l = Acc(w, i) /\ A = CNTs[w].Access
  OBVIOUS
<1>2. /\ f \in Nat /\ l \in Nat /\ A \in Nat /\ 1 <= f /\ f <= l /\ l <= A
  <2>1. /\ Acc(w, i) \in Nat \ {0} /\ First(w, i) \in 1 .. Acc(w, i)
        /\ CNTs[w].Access \in Nat /\ Acc(w, i) <= CNTs[w].Access
    BY ReadFacts
  <2> QED
    BY <1>1, <2>1
<1>3. /\ p.left = 1 /\ p.right = A /\ p.curValue = 1 /\ p.lastID = None
      /\ ~p.foundItem
  BY <1>1 DEF Unread
<1>4. f = IF IsPointer(id) THEN id[2] ELSE 1
  BY <1>1, <1>3 DEF First
<1>5. PICK m : m = (f + A) \div 2
  OBVIOUS
<1>6. m \in Nat /\ f <= m /\ m <= A /\ (m = A => A <= f + 1)
  BY <1>2, <1>5
<1>7. CASE IsPointer(id)
  <2>1. Started(p, id) = [p EXCEPT !.left = f, !.curValue = m, !.lastAcc = m]
    BY <1>3, <1>4, <1>5, <1>7 DEF Started
  <2>2. Started(p, id) \in Probe
    BY <1>2, <1>6, <2>1 DEF Probe
  <2>3. /\ Started(p, id).left = f /\ Started(p, id).right = A
        /\ Started(p, id).curValue = m /\ Started(p, id).lastID = None
        /\ ~Started(p, id).foundItem
    BY <1>3, <2>1 DEF Probe
  <2> QED
    BY <1>1, <1>2, <1>6, <2>2, <2>3 DEF Between
<1>8. CASE ~IsPointer(id)
  <2>1. Started(p, id) = [p EXCEPT !.curValue = m]
    BY <1>3, <1>4, <1>5, <1>8 DEF Started
  <2>2. Started(p, id) \in Probe
    BY <1>6, <2>1 DEF Probe
  <2>3. /\ Started(p, id).left = f /\ Started(p, id).right = A
        /\ Started(p, id).curValue = m /\ Started(p, id).lastID = None
        /\ ~Started(p, id).foundItem
    BY <1>3, <1>4, <1>8, <2>1 DEF Probe
  <2> QED
    BY <1>1, <1>2, <1>6, <2>2, <2>3 DEF Between
<1> QED
  BY <1>7, <1>8

\* What a step of the search makes of the probe p of slot i.
Onward(w, i, q) ==
    /\ q \in Probe
    /\ ~q.foundItem => Between(w, i, q)
    /\ q.foundItem => Exact(w, i, q)

LEMMA NarrowedOnward ==
    ASSUME BoxInv, NEW w \in DOMAIN CNTs, NEW i \in Slots(w),
           NEW p \in Probe, ~p.foundItem, Between(w, i, p),
           NEW id, id = Read(w, i, p.curValue)
    PROVE  Onward(w, i, Narrowed(p, id))
<1>1. PICK f, l, A : f = First(w, i) /\ l = Acc(w, i) /\ A = CNTs[w].Access
  OBVIOUS
<1>2. PICK y : y = bySlot[<<w, i>>].ind
  OBVIOUS
<1>3. /\ f \in Nat /\ l \in Nat /\ A \in Nat /\ 1 <= f /\ f <= l /\ l <= A
      /\ y \in Ind /\ Read(w, i, l) = y
      /\ \A a \in f .. l : Read(w, i, a) \in Ind
      /\ \A a \in Nat : a > l => Read(w, i, a) = None
  BY <1>1, <1>2, ReadFacts
<1>4. PICK a, z, c : a = p.left /\ z = p.right /\ c = p.curValue
  OBVIOUS
<1>5. /\ a \in Nat /\ z \in Nat /\ c \in Nat
      /\ f <= a /\ a <= l /\ l <= z /\ z <= A /\ a <= c /\ c <= z
      /\ c = z => z <= a + 1
      /\ p.lastID # None => p.lastID = Read(w, i, a) /\ p.lastAcc = a
  BY <1>1, <1>4 DEF Between, Probe
<1>6. id = Read(w, i, c) /\ None \notin Ind
  BY <1>4, HorusAssumption
<1>q. PICK q : q = Narrowed(p, id)
  OBVIOUS
<1>7. CASE a >= z
  <2>1. a = l /\ c = l /\ id = y
    BY <1>3, <1>5, <1>6, <1>7
  <2>2. q = Closed(p, id)
    BY <1>4, <1>7, <1>q DEF Narrowed
  <2>3. CASE p.lastID = None
    <3>1. q = [p EXCEPT !.foundItem = TRUE, !.lastID = y, !.lastAcc = l]
      BY <1>4, <2>1, <2>2, <2>3 DEF Closed
    <3>2. q \in Probe /\ q.foundItem /\ q.lastID = y /\ q.lastAcc = l
      BY <1>3, <3>1 DEF Probe
    <3> QED
      BY <1>1, <1>2, <1>q, <3>2 DEF Onward, Exact
  <2>4. CASE p.lastID # None
    <3>1. q = [p EXCEPT !.foundItem = TRUE] /\ p.lastID = y /\ p.lastAcc = l
      BY <1>3, <1>5, <2>1, <2>2, <2>4 DEF Closed
    <3>2. q \in Probe /\ q.foundItem /\ q.lastID = y /\ q.lastAcc = l
      BY <3>1 DEF Probe
    <3> QED
      BY <1>1, <1>2, <1>q, <3>2 DEF Onward, Exact
  <2> QED
    BY <2>3, <2>4
<1>8. CASE a < z /\ id = None
  <2>1. l < c
    <3> SUFFICES ASSUME c <= l PROVE FALSE
      BY <1>3, <1>5
    <3>1. c \in f .. l
      BY <1>3, <1>5
    <3> QED
      BY <1>3, <1>6, <1>8, <3>1
  <2>2. q = Miss(p)
    BY <1>4, <1>5, <1>8, <1>q DEF Narrowed
  <2>3. CASE c = z
    <3>1. (a + z) \div 2 = a /\ l = a
      BY <1>3, <1>5, <1>8, <2>1, <2>3
    <3>2. q = [p EXCEPT !.curValue = a, !.right = a]
      BY <1>4, <2>2, <2>3, <3>1 DEF Miss
    <3>3. /\ q \in Probe /\ q.left = a /\ q.right = a /\ q.curValue = a
          /\ q.lastID = p.lastID /\ q.lastAcc = p.lastAcc /\ ~q.foundItem
      BY <1>4, <1>5, <3>2 DEF Probe
    <3>4. Between(w, i, q)
      BY <1>1, <1>3, <1>5, <3>1, <3>3 DEF Between
    <3> QED
      BY <1>q, <3>3, <3>4 DEF Onward
  <2>4. CASE c # z
    <3>1. PICK m : m = CeilHalf(a + c)
      OBVIOUS
    <3>2. m \in Nat /\ a <= m /\ m <= c /\ (m = c => c <= a + 1)
      BY <1>5, <2>1, <3>1 DEF CeilHalf
    <3>3. q = [p EXCEPT !.right = c, !.curValue = m]
      BY <1>4, <2>2, <2>4, <3>1 DEF Miss
    <3>4. /\ q \in Probe /\ q.left = a /\ q.right = c /\ q.curValue = m
          /\ q.lastID = p.lastID /\ q.lastAcc = p.lastAcc /\ ~q.foundItem
      BY <1>4, <1>5, <3>2, <3>3 DEF Probe
    <3>5. Between(w, i, q)
      BY <1>1, <1>3, <1>5, <2>1, <3>2, <3>4 DEF Between
    <3> QED
      BY <1>q, <3>4, <3>5 DEF Onward
  <2> QED
    BY <2>3, <2>4
<1>9. CASE a < z /\ id # None
  <2>1. c <= l /\ id \in Ind
    <3>1. c <= l
      BY <1>3, <1>5, <1>6, <1>9
    <3>2. c \in f .. l
      BY <1>3, <1>5, <3>1
    <3> QED
      BY <1>3, <1>6, <3>1, <3>2
  <2>2. PICK m : m = IF c = a THEN CeilHalf(a + z) ELSE (c + z) \div 2
    OBVIOUS
  <2>3. m \in Nat /\ c <= m /\ m <= z /\ (m = z => z <= c + 1)
    BY <1>5, <1>9, <2>2 DEF CeilHalf
  <2>4. q = [p EXCEPT !.lastID = id, !.lastAcc = c, !.left = c, !.curValue = m]
    <3>1. q = Hit(p, id)
      BY <1>4, <1>5, <1>9, <1>q DEF Narrowed
    <3> QED
      BY <1>4, <2>2, <3>1 DEF Hit
  <2>5. /\ q \in Probe /\ q.left = c /\ q.right = z /\ q.curValue = m
        /\ q.lastID = id /\ q.lastAcc = c /\ ~q.foundItem
    BY <1>4, <1>5, <2>1, <2>3, <2>4 DEF Probe
  <2>6. Between(w, i, q)
    BY <1>1, <1>3, <1>5, <1>6, <2>1, <2>3, <2>5 DEF Between
  <2> QED
    BY <1>q, <2>5, <2>6 DEF Onward
<1> QED
  BY <1>5, <1>7, <1>8, <1>9

-----------------------------------------------------------------------------
(* Every step keeps SearchInv.                                             *)

\* A step that the search under way does not notice.
LEMMA SearchSame ==
    ASSUME SearchInv,
           UNCHANGED <<CNTs, bySlot, boxes, phase, searching, probe, firstRun, result>>
    PROVE  SearchInv'
<1> SUFFICES ASSUME searching # None PROVE SearchInv'
  BY DEF SearchInv
<1>1. /\ FoundSlots' = FoundSlots
      /\ \A i, p : Probing(searching, i, p)' <=> Probing(searching, i, p)
  BY DEF FoundSlots, Probing, Between, Exact, First, Read, Generation, Acc
<1> QED
  BY <1>1 DEF SearchInv

LEMMA SearchInvBegin ==
    ASSUME BoxInv, NEW w \in Keyword, SearchBegin(w)
    PROVE  SearchInv'
<1>0. /\ w \in DOMAIN CNTs /\ CNTs[w] \in Counter
      /\ phase' = "live" /\ searching' = w
      /\ CNTs' = [CNTs EXCEPT ![w].SrchCnt = @ + 1]
      /\ probe' = [i \in 1 .. CNTs[w].UpdtCnt |->
                      [left |-> 1, right |-> CNTs[w].Access, curValue |-> 1,
                       lastID |-> None, lastAcc |-> 0, foundItem |-> FALSE]]
      /\ firstRun' = TRUE /\ result' = <<>>
  BY DEF BoxInv, SlotInv, Types, MapTypes, IsMap, SearchBegin
<1>1. CNTs'[w].SrchCnt > 0 /\ CNTs'[w].Access = CNTs[w].Access /\ CNTs[w].Access \in Nat
  BY <1>0 DEF Counter
<1>2. ASSUME NEW i \in DOMAIN probe' PROVE Probing(w, i, probe[i])'
  <2>1. probe'[i] = [left |-> 1, right |-> CNTs[w].Access, curValue |-> 1,
                     lastID |-> None, lastAcc |-> 0, foundItem |-> FALSE]
    BY <1>0, <1>2
  <2>2. probe'[i] \in Probe /\ ~probe'[i].foundItem
    BY <1>1, <2>1 DEF Probe
  <2>3. Unread(probe'[i], CNTs'[w].Access)
    BY <1>1, <2>1 DEF Unread
  <2> QED
    BY <1>0, <2>2, <2>3 DEF Probing
<1>3. FoundSlots' = {}
  BY <1>0 DEF FoundSlots
<1>4. Cardinality(FoundSlots)' = 0
  BY <1>3, FS_EmptySet
<1>5. Len(result') = 0 /\ Range(result') = {}
  BY <1>0 DEF Range
<1> QED
  BY <1>0, <1>1, <1>2, <1>3, <1>4, <1>5 DEF SearchInv

\* All probes after a round.
LEMMA AdvancedOnward ==
    ASSUME IInv, NEW w, w = searching, searching # None, NEW i \in Slots(w)
    PROVE  /\ i \in DOMAIN probe /\ i \in DOMAIN Advanced
           /\ Onward(w, i, Advanced[i])
           /\ probe[i].foundItem => Advanced[i] = probe[i]
<1>1. i \in DOMAIN probe /\ BoxInv /\ w \in DOMAIN CNTs
  BY SearchFacts DEF IInv
<1>p. PICK p : p = probe[i]
  OBVIOUS
<1>i. PICK id : id = Read(w, i, p.curValue)
  OBVIOUS
<1>2. Probing(w, i, p)
  BY <1>1, <1>p DEF IInv, SearchInv
<1>3. Advanced[i] = IF p.foundItem THEN p
                    ELSE IF firstRun THEN Started(p, id) ELSE Narrowed(p, id)
  BY <1>1, <1>p, <1>i DEF Advanced
<1>4. Onward(w, i, Advanced[i])
  <2>1. CASE p.foundItem
    BY <1>2, <1>3, <2>1 DEF Probing, Onward
  <2>2. CASE ~p.foundItem /\ firstRun
    <3>1. p \in Probe /\ Unread(p, CNTs[w].Access)
      BY <1>2, <2>2 DEF Probing
    <3>2. /\ Started(p, id) \in Probe /\ ~Started(p, id).foundItem
          /\ Between(w, i, Started(p, id))
      BY <1>1, <1>i, <3>1, StartedBetween
    <3> QED
      BY <1>3, <2>2, <3>2 DEF Onward
  <2>3. CASE ~p.foundItem /\ ~firstRun
    <3>1. p \in Probe /\ Between(w, i, p)
      BY <1>2, <2>3 DEF Probing
    <3>2. Onward(w, i, Narrowed(p, id))
      BY <1>1, <1>i, <2>3, <3>1, NarrowedOnward
    <3> QED
      BY <1>3, <2>3, <3>2
  <2> QED
    BY <2>1, <2>2, <2>3
<1> QED
  BY <1>1, <1>3, <1>4, <1>p DEF Advanced

\* No stoi of a search meets a string that is not a number.
LEMMA FoundNumbers ==
    ASSUME IInv, searching # None
    PROVE  \A i \in DOMAIN probe : Advanced[i].foundItem => Advanced[i].lastID \in Ind
<1> SUFFICES ASSUME NEW i \in DOMAIN probe, Advanced[i].foundItem
             PROVE  Advanced[i].lastID \in Ind
  OBVIOUS
<1>w. PICK w : w = searching
  OBVIOUS
<1>1. i \in Slots(w) /\ bySlot[<<w, i>>].ind \in Ind
  BY <1>w, SearchFacts DEF IInv
<1>2. Onward(w, i, Advanced[i])
  BY <1>w, <1>1, AdvancedOnward
<1> QED
  BY <1>1, <1>2 DEF Onward, Exact

LEMMA RoundDoes ==
    ASSUME SearchRound, thrown' = thrown
    PROVE  /\ searching # None /\ probe' = Advanced /\ firstRun' = FALSE
           /\ result' = result \o [k \in DOMAIN NewlyFound |-> Advanced[NewlyFound[k]].lastID]
           /\ UNCHANGED <<maps, searching, phase, finalRes, live>>
<1>1. ~Throw("stoi")
  BY HorusAssumption DEF SearchRound, Throw
<1> QED
  BY <1>1 DEF SearchRound

\* Appending to a sequence.
LEMMA AppendedRange ==
    ASSUME NEW S, NEW s \in Seq(S), NEW t \in Seq(S)
    PROVE  Len(s \o t) = Len(s) + Len(t) /\ Range(s \o t) = Range(s) \cup Range(t)
<1>1. /\ Len(s) \in Nat /\ Len(t) \in Nat /\ Len(s \o t) = Len(s) + Len(t)
      /\ DOMAIN s = 1 .. Len(s) /\ DOMAIN t = 1 .. Len(t)
      /\ DOMAIN (s \o t) = 1 .. Len(s) + Len(t)
      /\ \A k \in 1 .. Len(s) : (s \o t)[k] = s[k]
      /\ \A k \in 1 .. Len(t) : (s \o t)[Len(s) + k] = t[k]
  OBVIOUS
<1>2. ASSUME NEW k \in DOMAIN (s \o t) PROVE (s \o t)[k] \in Range(s) \cup Range(t)
  <2>1. CASE k <= Len(s)
    <3>1. k \in DOMAIN s /\ (s \o t)[k] = s[k]
      BY <1>1, <2>1
    <3> QED
      BY <3>1 DEF Range
  <2>2. CASE k > Len(s)
    <3>1. PICK j \in DOMAIN t : k = Len(s) + j
      <4>1. k - Len(s) \in DOMAIN t /\ k = Len(s) + (k - Len(s))
        BY <1>1, <2>2
      <4> QED
        BY <4>1
    <3>2. (s \o t)[k] = t[j]
      BY <1>1, <3>1
    <3> QED
      BY <3>2 DEF Range
  <2> QED
    BY <1>1, <2>1, <2>2
<1>3. ASSUME NEW k \in DOMAIN s PROVE s[k] \in Range(s \o t)
  <2>1. k \in DOMAIN (s \o t) /\ (s \o t)[k] = s[k]
    BY <1>1, <1>3
  <2> QED
    BY <2>1 DEF Range
<1>4. ASSUME NEW k \in DOMAIN t PROVE t[k] \in Range(s \o t)
  <2>1. Len(s) + k \in DOMAIN (s \o t) /\ (s \o t)[Len(s) + k] = t[k]
    BY <1>1, <1>4
  <2> QED
    BY <2>1 DEF Range
<1> QED
  BY <1>1, <1>2, <1>3, <1>4 DEF Range

LEMMA SearchInvRound ==
    ASSUME IInv, SearchRound, thrown' = thrown
    PROVE  SearchInv'
<1>w. PICK w : w = searching
  OBVIOUS
<1>t. PICK t : t = [k \in DOMAIN NewlyFound |-> Advanced[NewlyFound[k]].lastID]
  OBVIOUS
<1>0. /\ searching # None /\ searching' = w
      /\ probe' = Advanced /\ firstRun' = FALSE /\ result' = result \o t
      /\ UNCHANGED <<CNTs, bySlot, boxes, phase, searching>>
  BY <1>w, <1>t, RoundDoes DEF maps
<1>1. /\ Types /\ DOMAIN probe = Slots(w) /\ DOMAIN probe' = Slots(w)
  <2>1. DOMAIN probe = Slots(w)
    BY <1>0, <1>w, SearchFacts DEF IInv
  <2> QED
    BY <1>0, <2>1 DEF Advanced, IInv, BoxInv, SlotInv
<1>2. ASSUME NEW i \in Slots(w)
      PROVE  /\ Onward(w, i, Advanced[i])
             /\ probe[i].foundItem => Advanced[i] = probe[i]
  BY <1>0, <1>w, <1>2, AdvancedOnward
<1>3. ASSUME NEW i \in DOMAIN probe' PROVE Probing(w, i, probe[i])'
  <2>1. PICK q : q = Advanced[i]
    OBVIOUS
  <2>2. Onward(w, i, q)
    BY <1>1, <1>2, <1>3, <2>1
  <2>3. Between(w, i, q) => Between(w, i, q)'
    BY <1>0 DEF Between, First, Acc, Read, Generation
  <2>4. Exact(w, i, q) => Exact(w, i, q)'
    BY <1>0 DEF Exact, Acc
  <2>5. Probing(w, i, q)'
    BY <1>0, <2>2, <2>3, <2>4 DEF Onward, Probing
  <2>6. probe'[i] = q
    BY <1>0, <2>1
  <2> QED
    BY <2>5, <2>6 DEF Probing, Between, Exact
<1>4. /\ t \in Seq(Ind) /\ Len(t) = Cardinality(Closing)
      /\ Range(t) = {Advanced[i].lastID : i \in Closing}
  BY <1>0, <1>1, <1>t, FoundNumbers, AppendedFact
<1>5. FoundSlots' = FoundSlots \cup Closing /\ FoundSlots \cap Closing = {}
  BY <1>0, <1>1, <1>2 DEF FoundSlots, Closing
<1>6. Cardinality(FoundSlots)' = Cardinality(FoundSlots) + Cardinality(Closing)
  <2>1. IsFiniteSet(DOMAIN probe)
    BY <1>1, ProbesFinite
  <2>2. FoundSlots \subseteq DOMAIN probe /\ Closing \subseteq DOMAIN probe
    BY DEF FoundSlots, Closing
  <2>3. IsFiniteSet(FoundSlots) /\ IsFiniteSet(Closing)
    BY <2>1, <2>2, FS_Subset
  <2>4. Cardinality(FoundSlots \cap Closing) = 0
    BY <1>5, FS_EmptySet
  <2>5. /\ Cardinality(FoundSlots) \in Nat /\ Cardinality(Closing) \in Nat
    BY <2>3, FS_CardinalityType
  <2>6. Cardinality(FoundSlots \cup Closing) =
          Cardinality(FoundSlots) + Cardinality(Closing) - Cardinality(FoundSlots \cap Closing)
    BY <2>3, FS_Union
  <2> QED
    BY <1>5, <2>4, <2>5, <2>6
<1>7. /\ result \in Seq(Ind) /\ Len(result) = Cardinality(FoundSlots)
      /\ Range(result) = {probe[i].lastID : i \in FoundSlots}
      /\ phase = "live" /\ CNTs[w].SrchCnt > 0
  BY <1>0, <1>1, <1>w DEF IInv, SearchInv, Types
<1>8. Len(result') = Cardinality(FoundSlots)'
  BY <1>0, <1>4, <1>6, <1>7, AppendedRange
<1>9. Range(result') = {probe'[i].lastID : i \in FoundSlots'}
  <2>1. Range(result') = Range(result) \cup Range(t)
    BY <1>0, <1>4, <1>7, AppendedRange
  <2>2. \A i \in FoundSlots : probe'[i] = probe[i]
    BY <1>0, <1>1, <1>2 DEF FoundSlots
  <2>3. \A i \in Closing : probe'[i] = Advanced[i]
    BY <1>0
  <2> QED
    BY <1>4, <1>5, <1>7, <2>1, <2>2, <2>3
<1> QED
  BY <1>0, <1>3, <1>7, <1>8, <1>9 DEF SearchInv

-----------------------------------------------------------------------------
(* The inductive invariant.                                                *)

LEMMA InitIInv == Init => IInv
<1> SUFFICES ASSUME Init PROVE IInv
  OBVIOUS
<1>1. SlotInv
  BY InitSlotInv
<1>2. DOMAIN CNTs = {} /\ DOMAIN boxes = {} /\ searching = None
  BY DEF Init, Empty
<1>3. BoxType
  BY <1>2, FS_EmptySet DEF BoxType
<1> QED
  BY <1>1, <1>2, <1>3 DEF IInv, BoxInv, SearchInv

LEMMA IInvStep ==
    ASSUME ~SetupRefill, IInv, [Next]_vars
    PROVE  IInv'
<1>0. BoxInv /\ SearchInv /\ SlotInv /\ SlotInv'
  BY SlotInvStep DEF IInv, BoxInv
<1>1. ASSUME NEW e, Throw(e) PROVE IInv'
  <2>1. UNCHANGED <<CNTs, bySlot, boxes, phase, searching, probe, firstRun, result>>
    BY <1>1 DEF Throw, maps, locals
  <2> QED
    BY <1>0, <1>1, <2>1, BoxInvThrow, SearchSame DEF IInv
<1>2. ASSUME searching' = None, BoxInv' PROVE IInv'
  BY <1>2 DEF IInv, SearchInv
<1>3. ASSUME NEW w \in Keyword, NEW x \in Ind, SetupInsert(w, x) PROVE IInv'
  <2>1. searching' = None
    BY <1>3 DEF SetupInsert, Idle, locals
  <2> QED
    BY <1>0, <1>2, <1>3, <2>1, BoxInvSetupInsert
<1>4. ASSUME NEW w \in Keyword, NEW x \in Ind, Insert(w, x) PROVE IInv'
  <2>1. CASE thrown' = thrown
    <3>1. searching' = None
      BY <1>0, <1>4, <2>1, InsertDoes
    <3> QED
      BY <1>0, <1>2, <1>4, <2>1, <3>1, BoxInvInsert
  <2>2. CASE thrown' # thrown
    <3>1. Throw("stoi") \/ Throw("full")
      BY <1>4, <2>2 DEF Insert
    <3> QED
      BY <1>1, <3>1
  <2> QED
    BY <2>1, <2>2
<1>5. ASSUME NEW w \in Keyword, NEW x \in Ind, Remove(w, x) \/ SetupRemove(w, x) PROVE IInv'
  <2>1. searching' = None
    BY <1>5 DEF Remove, SetupRemove, Removed, Throw, Idle, locals
  <2> QED
    BY <1>0, <1>2, <1>5, <2>1, BoxInvRemove
<1>6. ASSUME EndSetup PROVE IInv'
  <2>1. searching' = None
    BY <1>6 DEF EndSetup, Idle, locals
  <2> QED
    BY <1>0, <1>2, <1>6, <2>1, BoxInvEndSetup
<1>7. ASSUME NEW w \in Keyword, SearchBegin(w) PROVE IInv'
  BY <1>0, <1>7, BoxInvSearchBegin, SearchInvBegin DEF IInv
<1>8. ASSUME SearchRound PROVE IInv'
  <2>1. CASE thrown' = thrown
    BY <1>0, <1>8, <2>1, BoxInvSearchRound, SearchInvRound DEF IInv
  <2>2. CASE thrown' # thrown
    <3>1. Throw("stoi")
      BY <1>8, <2>2 DEF SearchRound
    <3> QED
      BY <1>1, <3>1
  <2> QED
    BY <2>1, <2>2
<1>9. ASSUME SearchEnd PROVE IInv'
  <2>1. CASE thrown' = thrown
    <3>1. searching' = None
      BY <1>9, <2>1, SearchEndDoes
    <3> QED
      BY <1>0, <1>2, <1>9, <2>1, <3>1, BoxInvSearchEnd
  <2>2. CASE thrown' # thrown
    <3>1. Throw("full")
      BY <1>9, <2>2 DEF SearchEnd
    <3> QED
      BY <1>1, <3>1
  <2> QED
    BY <2>1, <2>2
<1>10. ASSUME UNCHANGED vars PROVE IInv'
  <2>1. UNCHANGED <<CNTs, bySlot, boxes, phase, searching, probe, firstRun, result>>
    BY <1>10 DEF vars, maps, locals
  <2> QED
    BY <1>0, <1>10, <2>1, BoxInvStutter, SearchSame DEF IInv
<1> QED
  BY <1>3, <1>4, <1>5, <1>6, <1>7, <1>8, <1>9, <1>10 DEF Next

LEMMA IInvHolds == ~SetupRefill => (Spec => []IInv)
<1> SUFFICES ASSUME ~SetupRefill PROVE Spec => []IInv
  OBVIOUS
<1>1. IInv /\ [Next]_vars => IInv'
  BY IInvStep
<1> QED
  BY <1>1, InitIInv, PTL DEF Spec

-----------------------------------------------------------------------------
(* What it implies.                                                        *)

LEMMA IInvImplies ==
    ASSUME IInv
    PROVE  NoHoles /\ ProbesExact
<1>1. ASSUME NEW w \in Keyword, NEW i \in Slots(w)
      PROVE  /\ First(w, i) <= Acc(w, i) /\ Acc(w, i) <= CNTs[w].Access
             /\ \A a \in First(w, i) .. CNTs[w].Access :
                   a <= Acc(w, i) <=> Read(w, i, a) \in Ind
  <2>1. w \in DOMAIN CNTs
    BY <1>1 DEF Slots
  <2>2. /\ Acc(w, i) \in Nat \ {0} /\ First(w, i) \in 1 .. Acc(w, i)
        /\ CNTs[w].Access \in Nat /\ Acc(w, i) <= CNTs[w].Access
        /\ \A a \in First(w, i) .. Acc(w, i) : Read(w, i, a) \in Ind
        /\ \A a \in Nat : a > Acc(w, i) => Read(w, i, a) = None
    BY <1>1, <2>1, ReadFacts DEF IInv
  <2>3. ASSUME NEW a \in First(w, i) .. CNTs[w].Access
        PROVE  a <= Acc(w, i) <=> Read(w, i, a) \in Ind
    <3>1. a \in Nat /\ (a <= Acc(w, i) => a \in First(w, i) .. Acc(w, i))
      BY <2>2, <2>3
    <3>2. a <= Acc(w, i) \/ a > Acc(w, i)
      BY <2>2, <3>1
    <3> QED
      BY <2>2, <3>1, <3>2, HorusAssumption
  <2> QED
    BY <2>2, <2>3
<1>2. NoHoles
  BY <1>1 DEF NoHoles, First, Acc
<1>3. ASSUME NEW i \in DOMAIN probe, probe[i].foundItem
      PROVE  /\ probe[i].lastAcc = bySlot[<<searching, i>>].acc
             /\ probe[i].lastID = bySlot[<<searching, i>>].ind
  <2>1. searching # None
    BY <1>3 DEF IInv, BoxInv, SlotInv, Types
  <2> QED
    BY <1>3, <2>1 DEF IInv, SearchInv, Probing, Exact, Acc
<1> QED
  BY <1>2, <1>3 DEF ProbesExact

(***************************************************************************)
(* What the binary search relies on holds in every reachable state: under  *)
(* the current SrchCnt a slot has no hole among its access numbers and     *)
(* nothing above the last one.  The caller must not refill a slot during   *)
(* setup: setupInsert starts again with access number 1.                   *)
(***************************************************************************)
THEOREM SlotsHaveNoHoles == ~SetupRefill => (Spec => []NoHoles)
BY IInvHolds, IInvImplies, PTL

(***************************************************************************)
(* Every probe that Horus::search closes has found the last access number  *)
(* and the current identifier of its slot.                                 *)
(***************************************************************************)
THEOREM ProbesEndExact == ~SetupRefill => (Spec => []ProbesExact)
BY IInvHolds, IInvImplies, PTL

-----------------------------------------------------------------------------
(* Steps.                                                                  *)

LEMMA NeverMisreadStep ==
    ASSUME IInv, ~InsertUnsearched, NeverMisread, [Next]_vars
    PROVE  NeverMisread'
<1>1. ASSUME NEW w \in Keyword, NEW x \in Ind, Insert(w, x) PROVE thrown' # "stoi"
  <2>1. Counters(w).latestUpdatedCounter # None
    BY <1>1 DEF Insert
  <2> QED
    BY <1>1, <2>1 DEF Insert, Throw, NeverMisread
<1>2. ASSUME SearchRound PROVE thrown' # "stoi"
  <2>1. searching # None
    BY <1>2 DEF SearchRound
  <2>2. \A i \in DOMAIN probe : Advanced[i].foundItem => Advanced[i].lastID \in Ind
    BY <2>1, FoundNumbers
  <2> QED
    BY <1>2, <2>2 DEF SearchRound, NeverMisread
<1>3. ASSUME NEW w \in Keyword, NEW x \in Ind,
             SetupInsert(w, x) \/ SetupRemove(w, x) \/ Remove(w, x)
      PROVE  thrown' # "stoi"
  BY <1>3 DEF SetupInsert, SetupRemove, Remove, Removed, Throw, NeverMisread
<1>4. ASSUME EndSetup \/ (\E w \in Keyword : SearchBegin(w)) \/ SearchEnd \/ UNCHANGED vars
      PROVE  thrown' # "stoi"
  BY <1>4 DEF EndSetup, SearchBegin, SearchEnd, Throw, vars, NeverMisread
<1> QED
  BY <1>1, <1>2, <1>3, <1>4 DEF Next, NeverMisread

(***************************************************************************)
(* No stoi of Horus.cpp meets a string that is not a number, if the caller *)
(* also searches a keyword of the setup phase before inserting under it.   *)
(***************************************************************************)
THEOREM NothingMisread ==
    ~SetupRefill /\ ~InsertUnsearched => (Spec => []NeverMisread)
<1> SUFFICES ASSUME ~SetupRefill, ~InsertUnsearched PROVE Spec => []NeverMisread
  OBVIOUS
<1>1. Spec => []IInv
  BY IInvHolds
<1>2. IInv /\ NeverMisread /\ [Next]_vars => NeverMisread'
  BY NeverMisreadStep
<1>3. Init => NeverMisread
  BY HorusAssumption DEF Init, NeverMisread
<1> QED
  BY <1>1, <1>2, <1>3, PTL DEF Spec

\* The boxes that a step adds, counted.
LEMMA AddsCounted ==
    ASSUME BoxType, NEW K, Adds(K)
    PROVE  /\ \A k \in DOMAIN boxes : boxes'[k] = boxes[k]
           /\ Cardinality(DOMAIN boxes') - Cardinality(DOMAIN boxes) = Cardinality(K)
<1>1. /\ IsFiniteSet(DOMAIN boxes) /\ IsFiniteSet(K)
      /\ DOMAIN boxes' = DOMAIN boxes \cup K /\ DOMAIN boxes \cap K = {}
      /\ \A k \in DOMAIN boxes : boxes'[k] = boxes[k]
  BY DEF BoxType, Adds
<1>2. Cardinality(DOMAIN boxes \cap K) = 0
  BY <1>1, FS_EmptySet
<1>3. Cardinality(DOMAIN boxes) \in Nat /\ Cardinality(K) \in Nat
  BY <1>1, FS_CardinalityType
<1>4. Cardinality(DOMAIN boxes \cup K) =
        Cardinality(DOMAIN boxes) + Cardinality(K) - Cardinality(DOMAIN boxes \cap K)
  BY <1>1, FS_Union
<1> QED
  BY <1>1, <1>2, <1>3, <1>4

WrittenOnce ==
    /\ \A k \in DOMAIN boxes : boxes'[k] = boxes[k]
    /\ Cardinality(DOMAIN boxes') - Cardinality(DOMAIN boxes) = empty - empty'

LEMMA AddsOnce ==
    ASSUME IInv, NEW K, Adds(K), empty' = empty - Cardinality(K)
    PROVE  WrittenOnce
<1>1. /\ \A k \in DOMAIN boxes : boxes'[k] = boxes[k]
      /\ Cardinality(DOMAIN boxes') - Cardinality(DOMAIN boxes) = Cardinality(K)
  BY AddsCounted DEF IInv, BoxInv
<1>2. empty \in Int /\ Cardinality(K) \in Nat
  BY FS_CardinalityType, HorusAssumption DEF IInv, BoxInv, SlotInv, Types, Adds
<1> QED
  BY <1>1, <1>2 DEF WrittenOnce

LEMMA NothingWritten ==
    ASSUME IInv, UNCHANGED <<boxes, empty>>
    PROVE  WrittenOnce
<1>1. Cardinality(DOMAIN boxes) \in Nat /\ empty \in Int
  BY FS_CardinalityType, HorusAssumption DEF IInv, BoxInv, BoxType, SlotInv, Types
<1> QED
  BY <1>1 DEF WrittenOnce

LEMMA InsertOnce ==
    ASSUME IInv, NEW w \in Keyword, NEW x \in Ind, Insert(w, x)
    PROVE  WrittenOnce
<1>0. BoxInv /\ SlotInv
  BY DEF IInv, BoxInv
<1>1. CASE thrown' # thrown
  <2>1. UNCHANGED <<boxes, empty>>
    BY <1>1 DEF Insert, Throw, maps
  <2> QED
    BY <2>1, NothingWritten
<1>2. CASE thrown' = thrown
  <2>c. PICK c : c = Counters(w)
    OBVIOUS
  <2>s. PICK s : s = c.UpdtCnt + 1
    OBVIOUS
  <2>n. PICK n : n = NextAccess(w, s)
    OBVIOUS
  <2>b. PICK b : b = Inserted(w, x, s, n)
    OBVIOUS
  <2>1. /\ searching = None /\ c.latestUpdatedCounter # None
        /\ CNTs' = Put(CNTs, w, Counted(c, x, s, n))
        /\ boxes' = Written(b) /\ empty' = empty - Cardinality(b)
    BY <1>0, <1>2, <2>c, <2>s, <2>n, <2>b, InsertDoes
  <2>2. w \in DOMAIN CNTs'
    BY <2>1 DEF Put
  <2>3. InsertWrites(w, x, c, s, n, b)
    BY <1>0, <2>1, <2>2, <2>c, <2>s, <2>n, <2>b, InsertAdds
  <2>4. PICK K : K = {p[1] : p \in b}
    OBVIOUS
  <2>5. Adds(K) /\ Cardinality(K) = Cardinality(b)
    BY <2>3, <2>4 DEF InsertWrites
  <2> QED
    BY <2>1, <2>5, AddsOnce
<1> QED
  BY <1>1, <1>2

LEMMA RemoveOnce ==
    ASSUME IInv, NEW w \in Keyword, NEW x \in Ind, Remove(w, x)
    PROVE  WrittenOnce
<1>1. CASE UNCHANGED <<boxes, empty>>
  BY <1>1, NothingWritten
<1>2. CASE ~UNCHANGED <<boxes, empty>>
  <2>1. /\ Moves(w, x) /\ Removed(w, x) /\ Present(w, x) /\ empty' = empty - 1
        /\ searching = None
    BY <1>2 DEF Remove, Removed, BoxesAfter, Throw, maps, Idle
  <2>e. PICK e : e = byInd[<<w, x>>]
    OBVIOUS
  <2>c. PICK c : c = CNTs[w]
    OBVIOUS
  <2>k. PICK k : k = <<w, e.slot, c.SrchCnt, e.acc + 1>>
    OBVIOUS
  <2>2. Adds({k})
    BY <2>1, <2>e, <2>c, <2>k, MoveAdds DEF IInv
  <2>3. Cardinality({k}) = 1
    BY FS_Singleton
  <2> QED
    BY <2>1, <2>2, <2>3, AddsOnce
<1> QED
  BY <1>1, <1>2

LEMMA SearchEndOnce ==
    ASSUME IInv, SearchEnd
    PROVE  WrittenOnce
<1>1. CASE thrown' # thrown
  <2>1. UNCHANGED <<boxes, empty>>
    BY <1>1 DEF SearchEnd, Throw, maps
  <2> QED
    BY <2>1, NothingWritten
<1>2. CASE thrown' = thrown
  <2>w. PICK w : w = searching
    OBVIOUS
  <2>g. PICK g : g = CNTs[w].SrchCnt
    OBVIOUS
  <2>1. /\ searching # None
        /\ \A i \in DOMAIN probe : probe[i].foundItem
        /\ boxes' = Written(Rewritten)
        /\ empty' = empty - Cardinality(Rewritten)
        /\ CNTs' = [CNTs EXCEPT ![searching].latestUpdatedCounter = Len(result)]
    BY <1>2, SearchEndDoes
  <2>2. DOMAIN CNTs \subseteq DOMAIN CNTs'
    BY <2>1
  <2>3. SearchWrites(w, g)
    BY <2>1, <2>2, <2>w, <2>g, SearchEndAdds
  <2>4. PICK K : K = {p[1] : p \in Rewritten}
    OBVIOUS
  <2>5. Adds(K) /\ Cardinality(K) = Cardinality(Rewritten)
    BY <2>3, <2>4 DEF SearchWrites
  <2> QED
    BY <2>1, <2>5, AddsOnce
<1> QED
  BY <1>1, <1>2

LEMMA WrittenOnceStep ==
    ASSUME IInv, phase = "live", [Next]_vars
    PROVE  WrittenOnce
<1>1. ASSUME NEW w \in Keyword, NEW x \in Ind, SetupInsert(w, x) \/ SetupRemove(w, x)
      PROVE  FALSE
  BY <1>1 DEF SetupInsert, SetupRemove
<1>2. ASSUME EndSetup \/ (\E w \in Keyword : SearchBegin(w)) \/ SearchRound \/ UNCHANGED vars
      PROVE  WrittenOnce
  <2>1. UNCHANGED <<boxes, empty>>
    BY <1>2 DEF EndSetup, SearchBegin, SearchRound, Throw, vars, maps
  <2> QED
    BY <2>1, NothingWritten
<1> QED
  BY <1>1, <1>2, InsertOnce, RemoveOnce, SearchEndOnce DEF Next

(***************************************************************************)
(* After the setup phase no box is ever written twice, and emptyNodes      *)
(* falls by exactly the boxes that a call adds.                            *)
(***************************************************************************)
THEOREM NoBoxTwice == ~SetupRefill => (Spec => BoxesWrittenOnce)
<1> SUFFICES ASSUME ~SetupRefill PROVE Spec => BoxesWrittenOnce
  OBVIOUS
<1>1. Spec => []IInv
  BY IInvHolds
<1>2. IInv /\ [Next]_vars =>
        [phase = "live" => /\ \A k \in DOMAIN boxes : boxes'[k] = boxes[k]
                           /\ Cardinality(DOMAIN boxes') - Cardinality(DOMAIN boxes)
                                  = empty - empty']_vars
  BY WrittenOnceStep DEF WrittenOnce
<1> QED
  BY <1>1, <1>2, PTL DEF Spec, BoxesWrittenOnce

-----------------------------------------------------------------------------
(* The answers.                                                            *)

\* The identifiers of the slots in use are those that the caller inserted and
\* did not remove.
LEMMA SlotsLive ==
    ASSUME SlotInv, NEW w \in Keyword
    PROVE  live[w] = {bySlot[<<w, i>>].ind : i \in Slots(w)}
<1>1. {bySlot[<<w, i>>].ind : i \in Slots(w)} = {x \in Ind : Present(w, x)}
  BY SlotInvImplies DEF SlotsMatch
<1> QED
  BY <1>1 DEF SlotInv, Paired

LEMMA SearchEndAnswers ==
    ASSUME IInv, SearchEnd, thrown' = thrown
    PROVE  searching \in Keyword /\ finalRes' = live[searching]
<1>w. PICK w : w = searching
  OBVIOUS
<1>1. /\ searching # None
      /\ \A i \in DOMAIN probe : probe[i].foundItem
      /\ finalRes' = Range(result)
  BY SearchEndDoes
<1>2. w \in Keyword /\ DOMAIN probe = Slots(w)
  BY <1>1, <1>w, SearchFacts DEF IInv
<1>3. \A i \in DOMAIN probe : probe[i].lastID = bySlot[<<w, i>>].ind
  BY <1>1, <1>w DEF IInv, SearchInv, Probing, Exact
<1>4. Range(result) = {probe[i].lastID : i \in DOMAIN probe}
  <2>1. FoundSlots = DOMAIN probe
    BY <1>1 DEF FoundSlots
  <2> QED
    BY <1>1, <2>1 DEF IInv, SearchInv
<1>5. live[w] = {bySlot[<<w, i>>].ind : i \in Slots(w)}
  BY <1>2, SlotsLive DEF IInv, BoxInv
<1> QED
  <2>1. {probe[i].lastID : i \in DOMAIN probe} = {bySlot[<<w, i>>].ind : i \in Slots(w)}
    BY <1>2, <1>3
  <2>2. finalRes' = live[w]
    BY <1>1, <1>4, <1>5, <2>1
  <2> QED
    BY <1>2, <1>w, <2>2

LEMMA AnswersExactStep ==
    ASSUME IInv, [Next]_vars, searching # None, searching' = None
    PROVE  finalRes' = live[searching]
<1>1. SearchEnd
  <2>1. \A w \in Keyword, x \in Ind :
          ~SetupInsert(w, x) /\ ~Insert(w, x) /\ ~SetupRemove(w, x) /\ ~Remove(w, x)
    BY DEF SetupInsert, Insert, SetupRemove, Remove, Idle
  <2>2. ~EndSetup /\ \A w \in Keyword : ~SearchBegin(w)
    BY DEF EndSetup, SearchBegin, Idle
  <2>3. ~SearchRound /\ ~UNCHANGED vars
    BY DEF SearchRound, Throw, vars, locals
  <2> QED
    BY <2>1, <2>2, <2>3 DEF Next
<1>2. ~Throw("full")
  BY DEF Throw, locals
<1>3. thrown' = thrown
  BY <1>1, <1>2 DEF SearchEnd
<1> QED
  BY <1>1, <1>3, SearchEndAnswers

(***************************************************************************)
(* Every search returns exactly the identifiers that were inserted under   *)
(* its keyword and not removed since, if the caller refilled no slot       *)
(* during setup.                                                           *)
(***************************************************************************)
THEOREM SearchesExact == ~SetupRefill => (Spec => AnswersExact)
<1> SUFFICES ASSUME ~SetupRefill PROVE Spec => AnswersExact
  OBVIOUS
<1>1. Spec => []IInv
  BY IInvHolds
<1>2. IInv /\ [Next]_vars =>
        [(searching # None /\ searching' = None) => finalRes' = live[searching]]_vars
  BY AnswersExactStep
<1> QED
  BY <1>1, <1>2, PTL DEF Spec, AnswersExact

-----------------------------------------------------------------------------
(* Horus implements SSESet: what the last access numbers of the slots lead *)
(* to is what the caller inserted and did not remove, and every call       *)
(* changes it as the abstract specification says.                          *)

\* The refinement mapping yields the caller's view.
Agrees == [w \in Keyword |-> Found(w)] = live

LEMMA IInvAgrees ==
    ASSUME IInv
    PROVE  Agrees
<1>0. BoxInv /\ SlotInv
  BY DEF IInv, BoxInv
<1>1. ASSUME NEW w \in Keyword PROVE Found(w) = live[w]
  <2>1. ASSUME NEW i \in Slots(w) PROVE Read(w, i, bySlot[<<w, i>>].acc) = bySlot[<<w, i>>].ind
    <3>1. w \in DOMAIN CNTs
      BY <2>1 DEF Slots
    <3>2. Read(w, i, Acc(w, i)) = bySlot[<<w, i>>].ind
      BY <1>0, <2>1, <3>1, ReadFacts
    <3> QED
      BY <3>2 DEF Acc
  <2>2. Found(w) = {bySlot[<<w, i>>].ind : i \in Slots(w)}
    BY <2>1 DEF Found
  <2> QED
    BY <1>0, <2>2, SlotsLive
<1>2. live \in [Keyword -> SUBSET Ind]
  BY <1>0 DEF SlotInv, Types
<1>3. live = [w \in Keyword |-> live[w]]
  BY <1>2
<1> QED
  BY <1>1, <1>3 DEF Agrees

LEMMA RefinesInit ==
    ASSUME Init
    PROVE  Index!AInit
<1>1. Agrees
  BY InitIInv, IInvAgrees
<1> QED
  BY <1>1 DEF Init, Agrees, Index!AInit

\* An identifier is present exactly while the caller counts it as live.
LEMMA PresentLive ==
    ASSUME IInv, NEW w \in Keyword, NEW x \in Ind
    PROVE  Present(w, x) <=> x \in live[w]
BY DEF IInv, BoxInv, SlotInv, Paired

\* What a step does in the caller's view.
LEMMA LiveStep ==
    ASSUME IInv, [Next]_vars
    PROVE  \/ \E w \in Keyword, x \in Ind :
                 /\ x \notin live[w] /\ live' = [live EXCEPT ![w] = @ \cup {x}]
                 /\ finalRes' = finalRes
           \/ \E w \in Keyword, x \in Ind :
                 /\ x \in live[w] /\ live' = [live EXCEPT ![w] = @ \ {x}]
                 /\ finalRes' = finalRes
           \/ \E w \in Keyword : finalRes' = live[w] /\ live' = live
           \/ live' = live /\ finalRes' = finalRes
<1>1. ASSUME NEW e, Throw(e) PROVE live' = live /\ finalRes' = finalRes
  BY <1>1 DEF Throw
<1>2. ASSUME NEW w \in Keyword, NEW x \in Ind, SetupInsert(w, x)
      PROVE  /\ x \notin live[w] /\ live' = [live EXCEPT ![w] = @ \cup {x}]
             /\ finalRes' = finalRes
  BY <1>2 DEF SetupInsert
<1>3. ASSUME NEW w \in Keyword, NEW x \in Ind, Insert(w, x), thrown' = thrown
      PROVE  /\ x \notin live[w] /\ live' = [live EXCEPT ![w] = @ \cup {x}]
             /\ finalRes' = finalRes
  <2>1. live' = [live EXCEPT ![w] = @ \cup {x}] /\ finalRes' = finalRes
    BY <1>3, InsertDoes DEF IInv, BoxInv
  <2>2. ~Present(w, x)
    BY <1>3 DEF Insert
  <2> QED
    BY <2>1, <2>2, PresentLive
<1>4. ASSUME NEW w \in Keyword, NEW x \in Ind, Insert(w, x), thrown' # thrown
      PROVE  live' = live /\ finalRes' = finalRes
  BY <1>4 DEF Insert, Throw
<1>5. ASSUME NEW w \in Keyword, NEW x \in Ind, Removed(w, x), Present(w, x)
      PROVE  /\ x \in live[w] /\ live' = [live EXCEPT ![w] = @ \ {x}]
             /\ finalRes' = finalRes
  BY <1>5, PresentLive DEF Removed
<1>6. ASSUME NEW w \in Keyword, NEW x \in Ind, Remove(w, x) \/ SetupRemove(w, x)
      PROVE  Throw("full") \/ (Removed(w, x) /\ Present(w, x))
  BY <1>6 DEF Remove, SetupRemove
<1>7. ASSUME SearchEnd, thrown' = thrown
      PROVE  searching \in Keyword /\ finalRes' = live[searching] /\ live' = live
  BY <1>7, SearchEndAnswers, SearchEndDoes
<1>8. ASSUME SearchEnd, thrown' # thrown PROVE live' = live /\ finalRes' = finalRes
  BY <1>8 DEF SearchEnd, Throw
<1>9. ASSUME EndSetup \/ (\E w \in Keyword : SearchBegin(w)) \/ SearchRound \/ UNCHANGED vars
      PROVE  live' = live /\ finalRes' = finalRes
  BY <1>9 DEF EndSetup, SearchBegin, SearchRound, Throw, vars
<1>10. CASE \E w \in Keyword, x \in Ind : SetupInsert(w, x) \/ Insert(w, x)
  BY <1>2, <1>3, <1>4, <1>10
<1>11. CASE \E w \in Keyword, x \in Ind : SetupRemove(w, x) \/ Remove(w, x)
  BY <1>1, <1>5, <1>6, <1>11
<1>12. CASE SearchEnd
  BY <1>7, <1>8, <1>12
<1> QED
  BY <1>9, <1>10, <1>11, <1>12 DEF Next

LEMMA RefinesNext ==
    ASSUME IInv, Agrees, Agrees', [Next]_vars
    PROVE  [Index!ANext]_Index!avars
<1> DEFINE C == [w \in Keyword |-> Found(w)]
<1>1. C = live /\ C' = live'
  BY DEF Agrees
<1>2. ASSUME NEW w \in Keyword, NEW x \in Ind, x \notin live[w],
             live' = [live EXCEPT ![w] = @ \cup {x}], finalRes' = finalRes
      PROVE  Index!AInsert(w, x)
  BY <1>1, <1>2 DEF Index!AInsert
<1>3. ASSUME NEW w \in Keyword, NEW x \in Ind, x \in live[w],
             live' = [live EXCEPT ![w] = @ \ {x}], finalRes' = finalRes
      PROVE  Index!ARemove(w, x)
  BY <1>1, <1>3 DEF Index!ARemove
<1>4. ASSUME NEW w \in Keyword, finalRes' = live[w], live' = live
      PROVE  Index!ASearch(w)
  BY <1>1, <1>4 DEF Index!ASearch
<1>5. ASSUME live' = live, finalRes' = finalRes PROVE UNCHANGED Index!avars
  BY <1>1, <1>5 DEF Index!avars
<1> HIDE DEF C
<1> QED
  BY LiveStep, <1>2, <1>3, <1>4, <1>5 DEF Index!ANext

(***************************************************************************)
(* Horus implements a set of identifiers per keyword: insertions and       *)
(* removals, with the moves and the boxes that they cause, and searches,   *)
(* with all their rounds, are steps of SSESet or change nothing a caller   *)
(* sees.                                                                   *)
(***************************************************************************)
THEOREM Refinement == ~SetupRefill => (Spec => RefinesSet)
<1> SUFFICES ASSUME ~SetupRefill PROVE Spec => RefinesSet
  OBVIOUS
<1>1. Spec => []IInv
  BY IInvHolds
<1>2. IInv => Agrees
  BY IInvAgrees
<1>3. IInv /\ Agrees /\ Agrees' /\ [Next]_vars => [Index!ANext]_Index!avars
  BY RefinesNext
<1>4. Init => Index!AInit
  BY RefinesInit
<1> QED
  BY <1>1, <1>2, <1>3, <1>4, PTL DEF Spec, RefinesSet, Index!ASpec


-----------------------------------------------------------------------------
(* The number of rounds of a search.                                       *)

\* How often an interval of width d is halved: the logarithm, rounded up.
Halvings(d) ==
    CHOOSE k \in 0 .. d : d <= 2 ^ k /\ \A j \in 0 .. k - 1 : 2 ^ j < d

LEMMA HalvingsFact ==
    ASSUME NEW d \in Nat \ {0}
    PROVE  /\ Halvings(d) \in Nat
           /\ d <= 2 ^ Halvings(d)
           /\ \A j \in 0 .. Halvings(d) - 1 : 2 ^ j < d
<1>1. PICK T : T = {k \in Nat : d <= 2 ^ k}
  OBVIOUS
<1>2. d \in T
  <2>1. 2 ^ d \in Nat /\ d < 2 ^ d
    BY PowerAbove, PowerType
  <2> QED
    BY <1>1, <2>1
<1>3. PICK k \in T : \A j \in T : k <= j
  <2>1. T \subseteq Nat /\ T # {}
    BY <1>1, <1>2
  <2> QED
    BY <2>1, Minimum
<1>4. k \in 0 .. d /\ d <= 2 ^ k
  BY <1>1, <1>2, <1>3
<1>5. ASSUME NEW j \in 0 .. k - 1 PROVE 2 ^ j < d
  <2>1. j \in Nat /\ 2 ^ j \in Nat /\ ~(k <= j)
    BY <1>4, PowerType
  <2>2. ~(d <= 2 ^ j)
    BY <1>1, <1>3, <2>1
  <2> QED
    BY <2>1, <2>2
<1>6. \E m \in 0 .. d : d <= 2 ^ m /\ \A j \in 0 .. m - 1 : 2 ^ j < d
  BY <1>4, <1>5
<1>7. /\ Halvings(d) \in 0 .. d
      /\ d <= 2 ^ Halvings(d)
      /\ \A j \in 0 .. Halvings(d) - 1 : 2 ^ j < d
  BY <1>6 DEF Halvings
<1> QED
  BY <1>7

LEMMA HalvingsLeast ==
    ASSUME NEW d \in Nat \ {0}, NEW k \in Nat, d <= 2 ^ k
    PROVE  Halvings(d) <= k
<1>1. PICK h \in Nat : h = Halvings(d) /\ \A j \in 0 .. h - 1 : 2 ^ j < d
  BY HalvingsFact
<1> SUFFICES ASSUME k < h PROVE FALSE
  BY <1>1
<1>2. k \in 0 .. h - 1 /\ 2 ^ k \in Nat
  BY <1>1, PowerType
<1> QED
  BY <1>1, <1>2

\* A smaller width has no more of them.
LEMMA HalvingsGrow ==
    ASSUME NEW d \in Nat \ {0}, NEW e \in Nat \ {0}, e <= d
    PROVE  Halvings(e) <= Halvings(d)
<1>1. PICK h \in Nat : h = Halvings(d) /\ d <= 2 ^ h
  BY HalvingsFact
<1>2. 2 ^ h \in Nat
  BY PowerType
<1>3. e <= 2 ^ h
  BY <1>1, <1>2
<1> QED
  BY <1>1, <1>3, HalvingsLeast

\* The larger half of a width has one less.
LEMMA Halved ==
    ASSUME NEW d \in Nat \ {0}, NEW e \in Nat \ {0}, 2 <= d, 2 * e <= d + 1
    PROVE  Halvings(e) < Halvings(d)
<1>1. PICK h \in Nat : h = Halvings(d) /\ d <= 2 ^ h
  BY HalvingsFact
<1>2. h # 0
  <2> SUFFICES ASSUME h = 0 PROVE FALSE
    OBVIOUS
  <2>1. 2 ^ h = 1
    OBVIOUS
  <2> QED
    BY <1>1, <2>1
<1>3. PICK k \in Nat : h = k + 1
  BY <1>2, h - 1 \in Nat
<1>4. PICK p \in Nat : p = 2 ^ k /\ 2 ^ h = 2 * p
  BY <1>3, PowerNext, PowerType
<1>5. e <= 2 ^ k
  BY <1>1, <1>4
<1>6. Halvings(e) <= k
  BY <1>5, HalvingsLeast
<1>7. Halvings(e) \in Nat
  BY HalvingsFact
<1> QED
  BY <1>1, <1>3, <1>6, <1>7

(***************************************************************************)
(* A bound on the rounds of an open probe after the first.  The last       *)
(* intervals are the slow ones: of two neighbouring numbers each may have  *)
(* to be read.                                                             *)
(***************************************************************************)
RoundsLeft(p) ==
    LET width == p.right - p.left
    IN  IF width = 0 THEN 1
        ELSE IF width = 1 /\ p.curValue # p.left THEN 2
        ELSE 3 + Halvings(width)

\* A probe reads next what is in the middle of its interval.
Centered(p) ==
    /\ p.left <= p.curValue /\ p.curValue <= p.right
    /\ p.curValue = (p.left + p.right) \div 2 \/ p.curValue = CeilHalf(p.left + p.right)

\* The bound by the width alone.
LEMMA RoundsOpen ==
    ASSUME NEW p \in Probe, ~p.foundItem, NEW d \in Nat, d = p.right - p.left
    PROVE  /\ RoundsLeft(p) \in Nat \ {0}
           /\ d = 0 => RoundsLeft(p) = 1
           /\ d > 0 => /\ RoundsLeft(p) >= 2
                       /\ RoundsLeft(p) <= 3 + Halvings(d)
           /\ d = 1 /\ p.curValue # p.left => RoundsLeft(p) = 2
           /\ d = 1 /\ p.curValue = p.left => RoundsLeft(p) >= 3
           /\ d > 1 => RoundsLeft(p) = 3 + Halvings(d)
<1>1. d > 0 => Halvings(d) \in Nat
  BY HalvingsFact
<1>2. RoundsLeft(p) = IF d = 0 THEN 1
                             ELSE IF d = 1 /\ p.curValue # p.left THEN 2 ELSE 3 + Halvings(d)
  BY DEF RoundsLeft
<1>h. PICK h, r : h = Halvings(d) /\ r = RoundsLeft(p)
  OBVIOUS
<1>3. /\ d > 0 => h \in Nat
      /\ r = IF d = 0 THEN 1 ELSE IF d = 1 /\ p.curValue # p.left THEN 2 ELSE 3 + h
  BY <1>1, <1>2, <1>h
<1>4. CASE d = 0
  BY <1>3, <1>4, <1>h
<1>5. CASE d = 1 /\ p.curValue # p.left
  <2>1. r = 2 /\ h \in Nat
    BY <1>3, <1>5
  <2> QED
    BY <1>5, <1>h, <2>1
<1>6. CASE d > 0 /\ ~(d = 1 /\ p.curValue # p.left)
  <2>1. r = 3 + h /\ h \in Nat
    BY <1>3, <1>6
  <2> QED
    BY <1>6, <1>h, <2>1
<1> QED
  BY <1>4, <1>5, <1>6

\* The first round leaves a probe in the middle of its interval.
LEMMA StartedRounds ==
    ASSUME BoxInv, NEW w \in DOMAIN CNTs, NEW i \in Slots(w),
           NEW p \in Probe, Unread(p, CNTs[w].Access), NEW id, id = Read(w, i, p.curValue)
    PROVE  /\ Centered(Started(p, id))
           /\ RoundsLeft(Started(p, id)) < 4 + Halvings(p.right)
<1>q. PICK q : q = Started(p, id)
  OBVIOUS
<1>A. PICK A : A = CNTs[w].Access
  OBVIOUS
<1>1. /\ q \in Probe /\ ~q.foundItem /\ Between(w, i, q)
  BY <1>q, StartedBetween
<1>2. A \in Nat /\ First(w, i) \in Nat \ {0}
  <2>1. /\ Acc(w, i) \in Nat \ {0} /\ First(w, i) \in 1 .. Acc(w, i) /\ CNTs[w].Access \in Nat
    BY ReadFacts
  <2> QED
    BY <1>A, <2>1
<1>3. p.left = 1 /\ p.right = A /\ p.curValue = 1 /\ ~p.foundItem
  BY <1>A DEF Unread
<1>4. q.right = A /\ q.curValue = (q.left + q.right) \div 2
  <2>1. CASE IsPointer(id)
    <3>1. q = [p EXCEPT !.left = id[2], !.curValue = (id[2] + A) \div 2,
                        !.lastAcc = (id[2] + A) \div 2]
      BY <1>3, <1>q, <2>1 DEF Started
    <3> QED
      BY <1>3, <3>1 DEF Probe
  <2>2. CASE ~IsPointer(id)
    <3>1. q = [p EXCEPT !.curValue = (1 + A) \div 2]
      BY <1>3, <1>q, <2>2 DEF Started
    <3> QED
      BY <1>3, <3>1 DEF Probe
  <2> QED
    BY <2>1, <2>2
<1>5. Centered(q)
  BY <1>1, <1>4 DEF Between, Centered
<1>6. q.left \in Nat \ {0} /\ q.left <= A
  BY <1>1, <1>2, <1>4 DEF Between, Probe
<1>d. PICK d \in Nat : d = q.right - q.left /\ d <= A
  BY <1>2, <1>4, <1>6
<1>7. A \in Nat \ {0}
  BY <1>2, <1>6
<1>8. Halvings(A) \in Nat /\ (d > 0 => Halvings(d) \in Nat /\ Halvings(d) <= Halvings(A))
  <2>1. Halvings(A) \in Nat
    BY <1>7, HalvingsFact
  <2>2. ASSUME d > 0 PROVE Halvings(d) \in Nat /\ Halvings(d) <= Halvings(A)
    BY <1>7, <1>d, <2>2, HalvingsFact, HalvingsGrow
  <2> QED
    BY <2>1, <2>2
<1>10. /\ RoundsLeft(q) \in Nat
       /\ d = 0 => RoundsLeft(q) = 1
       /\ d > 0 => RoundsLeft(q) <= 3 + Halvings(d)
  BY <1>1, <1>d, RoundsOpen
<1>9. RoundsLeft(q) < 4 + Halvings(A)
  <2>1. PICK h, r, e : h = Halvings(A) /\ r = RoundsLeft(q) /\ e = Halvings(d)
    OBVIOUS
  <2>2. r < 4 + h
    BY <1>8, <1>10, <2>1
  <2> QED
    BY <2>1, <2>2
<1> QED
  BY <1>3, <1>5, <1>9, <1>q


\* The ways in which an interval shrinks.
LEMMA RoundsDrop ==
    ASSUME NEW p \in Probe, ~p.foundItem, NEW d \in Nat, d = p.right - p.left,
           NEW q \in Probe, ~q.foundItem, NEW e \in Nat, e = q.right - q.left,
           \/ d > 0 /\ e = 0
           \/ d = 1 /\ p.curValue = p.left /\ e = 1 /\ q.curValue # q.left
           \/ d > 1 /\ e > 0 /\ 2 * e <= d + 1
    PROVE  RoundsLeft(q) < RoundsLeft(p)
<1>1. CASE d > 0 /\ e = 0
  <2>1. RoundsLeft(p) \in Nat \ {0} /\ RoundsLeft(p) >= 2
    BY <1>1, RoundsOpen
  <2>2. RoundsLeft(q) = 1
    BY <1>1, RoundsOpen
  <2> QED
    BY <2>1, <2>2
<1>2. CASE d = 1 /\ p.curValue = p.left /\ e = 1 /\ q.curValue # q.left
  <2>1. RoundsLeft(p) \in Nat \ {0} /\ RoundsLeft(p) >= 3
    BY <1>2, RoundsOpen
  <2>2. RoundsLeft(q) = 2
    BY <1>2, RoundsOpen
  <2> QED
    BY <2>1, <2>2
<1>3. CASE d > 1 /\ e > 0 /\ 2 * e <= d + 1
  <2>1. RoundsLeft(p) = 3 + Halvings(d)
    BY <1>3, RoundsOpen
  <2>2. RoundsLeft(q) \in Nat \ {0} /\ RoundsLeft(q) <= 3 + Halvings(e)
    BY <1>3, RoundsOpen
  <2>3. d \in Nat \ {0} /\ e \in Nat \ {0} /\ 2 <= d
    BY <1>3
  <2>4. Halvings(d) \in Nat /\ Halvings(e) \in Nat /\ Halvings(e) < Halvings(d)
    BY <1>3, <2>3, HalvingsFact, Halved
  <2> QED
    BY <2>1, <2>2, <2>4
<1> QED
  BY <1>1, <1>2, <1>3

\* Every later round closes a probe or leaves it in the middle of an interval
\* that takes fewer rounds.
LEMMA NarrowedRounds ==
    ASSUME NEW p \in Probe, ~p.foundItem, Centered(p), NEW id,
           Narrowed(p, id) \in Probe, ~Narrowed(p, id).foundItem
    PROVE  Centered(Narrowed(p, id)) /\ RoundsLeft(Narrowed(p, id)) < RoundsLeft(p)
<1>q. PICK q : q = Narrowed(p, id)
  OBVIOUS
<1>1. PICK a \in Nat, z \in Nat, c \in Nat : a = p.left /\ z = p.right /\ c = p.curValue
  BY DEF Probe
<1>2. /\ a <= c /\ c <= z
      /\ c = (a + z) \div 2 \/ c = (a + z + 1) \div 2
  BY <1>1 DEF Centered, CeilHalf
<1>d. PICK d \in Nat : d = z - a
  <2>1. z - a \in Nat
    BY <1>2
  <2> QED
    BY <2>1
<1>3. q \in Probe /\ ~q.foundItem
  BY <1>q
<1>4. a < z
  <2> SUFFICES ASSUME a >= z PROVE FALSE
    OBVIOUS
  <2>1. q = Closed(p, id)
    BY <1>1, <1>q DEF Narrowed
  <2>2. q.foundItem
    BY <2>1 DEF Closed, Probe
  <2> QED
    BY <1>3, <2>2
<1>5. /\ c = a \/ c = z => d = 1
      /\ a < c /\ c < z => d > 1
      /\ 2 * (c - a) <= d + 1 /\ 2 * (z - c) <= d + 1
  BY <1>2, <1>4, <1>d
<1>6. ASSUME NEW l \in Nat, NEW r \in Nat, NEW m \in Nat,
             q.left = l, q.right = r, q.curValue = m, l <= m, m <= r,
             m = (l + r) \div 2 \/ m = (l + r + 1) \div 2,
             \/ r - l = 0
             \/ d = 1 /\ c = a /\ r - l = 1 /\ m # l
             \/ d > 1 /\ r - l > 0 /\ 2 * (r - l) <= d + 1
      PROVE  Centered(q) /\ RoundsLeft(q) < RoundsLeft(p)
  <2>1. Centered(q)
    BY <1>6 DEF Centered, CeilHalf
  <2>2. PICK e \in Nat : e = r - l
    <3>1. r - l \in Nat
      BY <1>6
    <3> QED
      BY <3>1
  <2>3. d = p.right - p.left /\ e = q.right - q.left
    BY <1>1, <1>6, <1>d, <2>2
  <2>4. \/ d > 0 /\ e = 0
        \/ d = 1 /\ p.curValue = p.left /\ e = 1 /\ q.curValue # q.left
        \/ d > 1 /\ e > 0 /\ 2 * e <= d + 1
    BY <1>1, <1>4, <1>6, <1>d, <2>2
  <2>5. RoundsLeft(q) < RoundsLeft(p)
    BY <1>3, <2>3, <2>4, RoundsDrop
  <2> QED
    BY <2>1, <2>5
<1>7. CASE id = None /\ c = z
  <2>1. q = Miss(p)
    BY <1>1, <1>4, <1>7, <1>q DEF Narrowed
  <2>2. (a + z) \div 2 = a
    BY <1>2, <1>4, <1>7
  <2>3. q = [p EXCEPT !.curValue = a, !.right = a]
    BY <1>1, <1>7, <2>1, <2>2 DEF Miss
  <2>4. q.left = a /\ q.right = a /\ q.curValue = a
    BY <1>1, <2>3 DEF Probe
  <2>5. a = (a + a) \div 2
    OBVIOUS
  <2> QED
    BY <1>6, <1>q, <2>4, <2>5
<1>8. CASE id = None /\ c # z
  <2>1. q = Miss(p)
    BY <1>1, <1>4, <1>8, <1>q DEF Narrowed
  <2>2. PICK m : m = (a + c + 1) \div 2
    OBVIOUS
  <2>3. q = [p EXCEPT !.right = c, !.curValue = m]
    BY <1>1, <1>8, <2>1, <2>2 DEF Miss, CeilHalf
  <2>4. q.left = a /\ q.right = c /\ q.curValue = m
    BY <1>1, <2>3 DEF Probe
  <2>5. m \in Nat /\ a <= m /\ m <= c
    BY <1>2, <2>2
  <2>6. c - a = 0 \/ (d > 1 /\ c - a > 0 /\ 2 * (c - a) <= d + 1)
    BY <1>2, <1>5, <1>8
  <2> QED
    BY <1>6, <1>q, <2>2, <2>4, <2>5, <2>6
<1>9. CASE id # None
  <2>1. q = Hit(p, id)
    BY <1>1, <1>4, <1>9, <1>q DEF Narrowed
  <2>2. PICK m : m = IF c = a THEN (a + z + 1) \div 2 ELSE (c + z) \div 2
    OBVIOUS
  <2>3. q = [p EXCEPT !.lastID = id, !.lastAcc = c, !.left = c, !.curValue = m]
    BY <1>1, <2>1, <2>2 DEF Hit, CeilHalf
  <2>4. q.left = c /\ q.right = z /\ q.curValue = m
    BY <1>1, <2>3 DEF Probe
  <2>5. m \in Nat /\ c <= m /\ m <= z
    BY <1>2, <2>2
  <2>6. m = (c + z) \div 2 \/ m = (c + z + 1) \div 2
    BY <2>2
  <2>7. \/ z - c = 0
        \/ d = 1 /\ c = a /\ z - c = 1 /\ m # c
        \/ d > 1 /\ z - c > 0 /\ 2 * (z - c) <= d + 1
    <3>1. CASE c = z
      BY <3>1
    <3>2. CASE c = a
      <4>1. d = 1 /\ z - c = 1 /\ m = (a + z + 1) \div 2
        BY <1>5, <1>d, <2>2, <3>2
      <4>2. z = a + 1
        BY <1>d, <4>1
      <4>3. m # c
        BY <3>2, <4>1, <4>2
      <4> QED
        BY <3>2, <4>1, <4>3
    <3>3. CASE c # z /\ c # a
      BY <1>2, <1>5, <3>3
    <3> QED
      BY <3>1, <3>2, <3>3
  <2> QED
    BY <1>6, <1>q, <2>4, <2>5, <2>6, <2>7
<1> QED
  BY <1>7, <1>8, <1>9


\* The bound for a probe of the search under way.
Rounds(p) ==
    IF p.foundItem THEN 0
    ELSE IF firstRun THEN 4 + Halvings(p.right)
    ELSE RoundsLeft(p)

RoundsBounded ==
    searching # None =>
        \A i \in DOMAIN probe :
            Rounds(probe[i]) \in 0 .. 4 + Halvings(CNTs[searching].Access)

FewerRounds ==
    [][searching # None /\ searching' # None =>
          \A i \in DOMAIN probe :
              ~probe[i].foundItem => Rounds(probe[i])' < Rounds(probe[i])]_vars

CenterInv ==
    searching # None /\ ~firstRun =>
        \A i \in DOMAIN probe : ~probe[i].foundItem => Centered(probe[i])

LEMMA RoundsBoundedHolds ==
    ASSUME IInv
    PROVE  RoundsBounded
<1> SUFFICES ASSUME searching # None, NEW i \in DOMAIN probe
             PROVE  Rounds(probe[i]) \in 0 .. 4 + Halvings(CNTs[searching].Access)
  BY DEF RoundsBounded
<1>w. PICK w : w = searching
  OBVIOUS
<1>p. PICK p : p = probe[i]
  OBVIOUS
<1>A. PICK A : A = CNTs[w].Access
  OBVIOUS
<1>1. BoxInv /\ w \in DOMAIN CNTs /\ i \in Slots(w) /\ Probing(w, i, p)
  BY <1>w, <1>p, SearchFacts DEF IInv, SearchInv
<1>2. /\ A \in Nat \ {0} /\ First(w, i) \in Nat \ {0}
  <2>1. /\ Acc(w, i) \in Nat \ {0} /\ First(w, i) \in 1 .. Acc(w, i)
        /\ CNTs[w].Access \in Nat /\ Acc(w, i) <= CNTs[w].Access
    BY <1>1, ReadFacts
  <2> QED
    BY <1>A, <2>1
<1>3. Halvings(A) \in Nat
  BY <1>2, HalvingsFact
<1>4. CASE p.foundItem
  <2>1. Rounds(p) = 0
    BY <1>4 DEF Rounds
  <2> QED
    BY <1>3, <1>A, <1>p, <1>w, <2>1
<1>5. CASE ~p.foundItem /\ firstRun
  <2>1. p.right = A
    BY <1>1, <1>5, <1>A DEF Probing, Unread
  <2>2. Rounds(p) = 4 + Halvings(A)
    BY <1>5, <2>1 DEF Rounds
  <2> QED
    BY <1>3, <1>A, <1>p, <1>w, <2>2
<1>6. CASE ~p.foundItem /\ ~firstRun
  <2>1. p \in Probe /\ Between(w, i, p)
    BY <1>1, <1>6 DEF Probing
  <2>2. /\ p.left \in Nat /\ p.right \in Nat /\ p.curValue \in Nat
        /\ p.left <= p.curValue /\ p.curValue <= p.right /\ p.right <= A
    BY <1>A, <2>1 DEF Between, Probe
  <2>3. PICK d \in Nat : d = p.right - p.left /\ d <= A
    <3>1. p.right - p.left \in Nat /\ p.right - p.left <= A
      BY <1>2, <2>2
    <3> QED
      BY <3>1
  <2>4. /\ RoundsLeft(p) \in Nat \ {0}
        /\ d = 0 => RoundsLeft(p) = 1
        /\ d > 0 => RoundsLeft(p) <= 3 + Halvings(d)
    BY <1>6, <2>1, <2>3, RoundsOpen
  <2>5. d > 0 => Halvings(d) \in Nat /\ Halvings(d) <= Halvings(A)
    <3> SUFFICES ASSUME d > 0 PROVE Halvings(d) \in Nat /\ Halvings(d) <= Halvings(A)
      OBVIOUS
    <3>1. d \in Nat \ {0}
      OBVIOUS
    <3> QED
      BY <1>2, <2>3, <3>1, HalvingsFact, HalvingsGrow
  <2>6. PICK h, r, e : h = Halvings(A) /\ r = RoundsLeft(p) /\ e = Halvings(d)
    OBVIOUS
  <2>7. r \in 0 .. 4 + h
    BY <1>3, <2>4, <2>5, <2>6
  <2>8. Rounds(p) = r
    BY <1>6, <2>6 DEF Rounds
  <2> QED
    BY <1>A, <1>p, <1>w, <2>6, <2>7, <2>8
<1> QED
  BY <1>4, <1>5, <1>6

\* A round serves every open probe.
LEMMA RoundServes ==
    ASSUME IInv, CenterInv, SearchRound, thrown' = thrown
    PROVE  \A i \in DOMAIN probe : ~probe[i].foundItem =>
              /\ ~probe'[i].foundItem => Centered(probe'[i])
              /\ Rounds(probe[i])' < Rounds(probe[i])
<1> SUFFICES ASSUME NEW i \in DOMAIN probe, ~probe[i].foundItem
             PROVE  /\ ~probe'[i].foundItem => Centered(probe'[i])
                    /\ Rounds(probe[i])' < Rounds(probe[i])
  OBVIOUS
<1>w. PICK w : w = searching
  OBVIOUS
<1>p. PICK p : p = probe[i]
  OBVIOUS
<1>i. PICK id : id = Read(w, i, p.curValue)
  OBVIOUS
<1>q. PICK q : q = probe'[i]
  OBVIOUS
<1>0. searching # None /\ probe' = Advanced /\ firstRun' = FALSE
  BY RoundDoes
<1>1. BoxInv /\ w \in DOMAIN CNTs /\ i \in Slots(w) /\ Probing(w, i, p)
  BY <1>0, <1>w, <1>p, SearchFacts DEF IInv, SearchInv
<1>2. q = IF firstRun THEN Started(p, id) ELSE Narrowed(p, id)
  BY <1>0, <1>w, <1>p, <1>i, <1>q DEF Advanced
<1>3. q \in Probe
  <2>1. Onward(w, i, Advanced[i])
    BY <1>0, <1>1, <1>w, AdvancedOnward
  <2> QED
    BY <1>0, <1>q, <2>1 DEF Onward
<1>4. p \in Probe /\ ~p.foundItem
  BY <1>1, <1>p DEF Probing
<1>5. CASE firstRun
  <2>1. Unread(p, CNTs[w].Access) /\ q = Started(p, id)
    BY <1>1, <1>2, <1>5 DEF Probing
  <2>2. ~q.foundItem
    BY <1>1, <1>4, <1>i, <2>1, StartedBetween
  <2>3. Centered(q) /\ RoundsLeft(q) < 4 + Halvings(p.right)
    BY <1>1, <1>4, <1>i, <2>1, StartedRounds
  <2>4. Rounds(p) = 4 + Halvings(p.right)
    BY <1>4, <1>5 DEF Rounds
  <2>5. Rounds(probe[i])' = RoundsLeft(q)
    BY <1>0, <1>q, <2>2 DEF Rounds, RoundsLeft
  <2> QED
    BY <1>p, <1>q, <2>3, <2>4, <2>5
<1>6. CASE ~firstRun
  <2>1. Centered(p) /\ q = Narrowed(p, id)
    BY <1>0, <1>2, <1>4, <1>6, <1>p DEF CenterInv
  <2>2. Rounds(p) = RoundsLeft(p)
    BY <1>4, <1>6 DEF Rounds
  <2>3. CASE q.foundItem
    <3>1. Rounds(probe[i])' = 0
      BY <1>q, <2>3 DEF Rounds
    <3>2. Between(w, i, p)
      BY <1>1, <1>4, <1>6 DEF Probing
    <3>3. PICK d \in Nat : d = p.right - p.left
      <4>1. p.right - p.left \in Nat
        BY <1>4, <3>2 DEF Between, Probe
      <4> QED
        BY <4>1
    <3>4. RoundsLeft(p) \in Nat \ {0}
      BY <1>4, <3>3, RoundsOpen
    <3>5. 0 < RoundsLeft(p)
      BY <3>4
    <3> QED
      BY <1>p, <1>q, <2>2, <2>3, <3>1, <3>5
  <2>4. CASE ~q.foundItem
    <3>1. Centered(q) /\ RoundsLeft(q) < RoundsLeft(p)
      BY <1>3, <1>4, <2>1, <2>4, NarrowedRounds
    <3>2. Rounds(probe[i])' = RoundsLeft(q)
      BY <1>0, <1>q, <2>4 DEF Rounds, RoundsLeft
    <3> QED
      BY <1>p, <1>q, <2>2, <3>1, <3>2
  <2> QED
    BY <2>3, <2>4
<1> QED
  BY <1>5, <1>6

\* What else can happen while a search is under way.
LEMMA SearchSteps ==
    ASSUME IInv, [Next]_vars, searching # None, searching' # None
    PROVE  \/ SearchRound /\ thrown' = thrown
           \/ UNCHANGED <<probe, firstRun>> /\ \A i \in DOMAIN probe : probe[i].foundItem
           \/ UNCHANGED vars
<1>1. \A w \in Keyword, x \in Ind :
        ~SetupInsert(w, x) /\ ~Insert(w, x) /\ ~SetupRemove(w, x) /\ ~Remove(w, x)
  BY DEF SetupInsert, Insert, SetupRemove, Remove, Idle
<1>2. ~EndSetup /\ \A w \in Keyword : ~SearchBegin(w)
  BY DEF EndSetup, SearchBegin, Idle
<1>3. SearchRound => thrown' = thrown
  BY FoundNumbers DEF SearchRound
<1>4. ASSUME SearchEnd
      PROVE  UNCHANGED <<probe, firstRun>> /\ \A i \in DOMAIN probe : probe[i].foundItem
  BY <1>4 DEF SearchEnd, Throw, locals
<1> QED
  BY <1>1, <1>2, <1>3, <1>4 DEF Next

LEMMA CenterInvStep ==
    ASSUME IInv, CenterInv, [Next]_vars
    PROVE  CenterInv'
<1> SUFFICES ASSUME searching' # None, ~firstRun', NEW i \in DOMAIN probe',
                    ~probe'[i].foundItem
             PROVE  Centered(probe'[i])
  BY DEF CenterInv, Centered
<1>1. CASE searching = None
  <2>1. \A w \in Keyword, x \in Ind :
          SetupInsert(w, x) \/ Insert(w, x) \/ SetupRemove(w, x) \/ Remove(w, x)
             => searching' = searching
    BY DEF SetupInsert, Insert, SetupRemove, Remove, Removed, Throw, locals
  <2>2. /\ EndSetup \/ UNCHANGED vars => searching' = searching
        /\ \A w \in Keyword : SearchBegin(w) => firstRun'
        /\ ~SearchRound /\ ~SearchEnd
    BY <1>1 DEF EndSetup, SearchBegin, SearchRound, SearchEnd, locals, vars
  <2> QED
    BY <1>1, <2>1, <2>2 DEF Next
<1>2. CASE searching # None
  <2>1. CASE SearchRound /\ thrown' = thrown
    <3>1. probe' = Advanced
      BY <2>1, RoundDoes
    <3>2. i \in DOMAIN probe
      BY <3>1 DEF Advanced
    <3>3. ~probe[i].foundItem
      BY <3>1, <3>2 DEF Advanced
    <3> QED
      BY <2>1, <3>2, <3>3, RoundServes
  <2>2. CASE UNCHANGED <<probe, firstRun>>
    BY <1>2, <2>2 DEF CenterInv
  <2>3. UNCHANGED vars => UNCHANGED <<probe, firstRun>>
    BY DEF vars, locals
  <2> QED
    BY <1>2, <2>1, <2>2, <2>3, SearchSteps
<1> QED
  BY <1>1, <1>2

LEMMA FewerRoundsStep ==
    ASSUME IInv, CenterInv, [Next]_vars
    PROVE  [searching # None /\ searching' # None =>
               \A i \in DOMAIN probe :
                   ~probe[i].foundItem => Rounds(probe[i])' < Rounds(probe[i])]_vars
<1> SUFFICES ASSUME searching # None, searching' # None, ~UNCHANGED vars,
                    NEW i \in DOMAIN probe, ~probe[i].foundItem
             PROVE  Rounds(probe[i])' < Rounds(probe[i])
  OBVIOUS
<1>1. SearchRound /\ thrown' = thrown
  BY SearchSteps
<1> QED
  BY <1>1, RoundServes

(***************************************************************************)
(* A search is over after at most 4 + log2(Access) passes of its loop, the *)
(* logarithm rounded up: no probe has more of them left, and every pass    *)
(* leaves every open probe fewer.  This is why Horus::search always ends,  *)
(* although the interval of a probe at one of two neighbouring numbers     *)
(* stays as it is for a pass.                                              *)
(***************************************************************************)
THEOREM SearchTakesLogRounds ==
    ~SetupRefill => (Spec => []RoundsBounded /\ FewerRounds)
<1> SUFFICES ASSUME ~SetupRefill PROVE Spec => []RoundsBounded /\ FewerRounds
  OBVIOUS
<1>1. Spec => []IInv
  BY IInvHolds
<1>2. Init => CenterInv
  BY DEF Init, CenterInv
<1>3. IInv /\ CenterInv /\ [Next]_vars => CenterInv'
  BY CenterInvStep
<1>4. Spec => []CenterInv
  BY <1>1, <1>2, <1>3, PTL DEF Spec
<1>5. IInv => RoundsBounded
  BY RoundsBoundedHolds
<1>6. IInv /\ CenterInv /\ [Next]_vars =>
        [searching # None /\ searching' # None =>
            \A i \in DOMAIN probe :
                ~probe[i].foundItem => Rounds(probe[i])' < Rounds(probe[i])]_vars
  BY FewerRoundsStep
<1> QED
  BY <1>1, <1>4, <1>5, <1>6, PTL DEF Spec, FewerRounds
=============================================================================
