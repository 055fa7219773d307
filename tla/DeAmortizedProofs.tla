-------------------------- MODULE DeAmortizedProofs --------------------------
(***************************************************************************)
(* Proofs about the de-amortized scheme for every number of levels and     *)
(* every sequence of updates whose keywords a merge reads back as they     *)
(* were (Calls: at most 9 bytes, or 10 and never deleted under).  First what a level has: merges *)
(* run to their timetable, sets are whole and under their keys, counter    *)
(* records are exact.  Then what its sets hold: full sets have the updates *)
(* of their merges, so each update is in one of them, a search counts it   *)
(* once, and the scheme implements SSEIndex.                               *)
(***************************************************************************)
EXTENDS DeAmortized, NumberLemmas

-----------------------------------------------------------------------------
(* The timetable.  After u updates, Moves(i, u) elements were moved into   *)
(* level i, unless it is negative; Finished(i, u) merges are finished, and *)
(* Rest(i, u) elements moved in the next one.                              *)

Moves(i, u) == u - (2 ^ (i + 1) - 2)

Started(i, u) == Moves(i, u) >= 0

Finished(i, u) == IF Started(i, u) THEN Moves(i, u) \div 2 ^ i ELSE 0

Rest(i, u) == IF Started(i, u) THEN Moves(i, u) % 2 ^ i ELSE 0

\* The full sets of level i.  Two are needed to merge them, and a third one
\* comes while that is going on.
SetCount(i, u) ==
    IF i = Levels - 1 \/ Finished(i, u) < 2 THEN Finished(i, u)
    ELSE 2 + (Finished(i, u) % 2)

\* The u + 1-st update ends a merge into level i.
Ends(i, u) == Started(i, u) /\ Rest(i, u) + 1 = 2 ^ i

\* The constants are numbers.
LEMMA Numbers ==
    /\ Levels \in Nat /\ LocalSize \in Nat \ {0} /\ LocalSize < Levels
    /\ MaxUpdates \in Nat
    /\ Level \subseteq Nat /\ 0 \in Level
    /\ Level = Client \cup Remote /\ Client \cap Remote = {}
    /\ \A i \in Level : 2 ^ i \in Nat \ {0} /\ 2 ^ (i + 1) = 2 * 2 ^ i
<1>1. /\ Levels \in Nat /\ LocalSize \in Nat \ {0} /\ LocalSize < Levels
      /\ MaxUpdates \in Nat
  BY DeAmortizedAssumption
<1>2. Level \subseteq Nat /\ 0 \in Level
  BY <1>1 DEF Level
<1>3. Level = Client \cup Remote /\ Client \cap Remote = {}
  BY <1>1 DEF Level, Client, Remote
<1>4. \A i \in Level : 2 ^ i \in Nat \ {0} /\ 2 ^ (i + 1) = 2 * 2 ^ i
  BY <1>2, PowerType, PowerNext
<1> QED
  BY <1>1, <1>2, <1>3, <1>4

\* Moves is Finished merges and the Rest.
LEMMA Clock ==
    ASSUME NEW i \in Level, NEW u \in Nat
    PROVE  /\ Moves(i, u) \in Int
           /\ Finished(i, u) \in Nat /\ Rest(i, u) \in 0 .. 2 ^ i - 1
           /\ Started(i, u) => Moves(i, u) = Finished(i, u) * 2 ^ i + Rest(i, u)
<1>p. PICK p \in Nat \ {0} : p = 2 ^ i /\ 2 ^ (i + 1) = 2 * p
  BY Numbers
<1>m. PICK m \in Int : m = Moves(i, u)
  BY <1>p DEF Moves
<1>1. CASE ~Started(i, u)
  BY <1>1, <1>m, <1>p DEF Finished, Rest
<1>2. CASE Started(i, u)
  <2>1. m >= 0 /\ Finished(i, u) = m \div p /\ Rest(i, u) = m % p
    BY <1>2, <1>m, <1>p DEF Finished, Rest, Started
  <2>2. PICK t \in Int, s \in Int : t = m \div p /\ s = m % p
    OBVIOUS
  <2>3. m = p * t + s /\ 0 <= s /\ s < p
    BY <2>2
  <2>4. t >= 0
    <3> SUFFICES ASSUME t + 1 <= 0 PROVE FALSE
      BY <2>2
    <3>1. (t + 1) * p <= 0
      OBVIOUS
    <3> QED
      BY <2>1, <2>3, <3>1
  <2>5. m = t * p + s
    BY <2>3
  <2> QED
    BY <1>m, <1>p, <2>1, <2>2, <2>3, <2>4, <2>5
<1> QED
  BY <1>1, <1>2

\* One update later.
LEMMA Tick ==
    ASSUME NEW i \in Level, NEW u \in Nat
    PROVE  /\ Started(i, u) => Started(i, u + 1)
           /\ ~Started(i, u) => /\ Finished(i, u + 1) = 0 /\ Rest(i, u + 1) = 0
                                /\ Finished(i, u) = 0 /\ Rest(i, u) = 0
           /\ Ends(i, u) => Finished(i, u + 1) = Finished(i, u) + 1 /\ Rest(i, u + 1) = 0
           /\ Started(i, u) /\ ~Ends(i, u) =>
                 Finished(i, u + 1) = Finished(i, u) /\ Rest(i, u + 1) = Rest(i, u) + 1
<1>p. PICK p \in Nat \ {0} : p = 2 ^ i /\ 2 ^ (i + 1) = 2 * p
  BY Numbers
<1>m. PICK m \in Int : m = Moves(i, u) /\ Moves(i, u + 1) = m + 1
  BY <1>p DEF Moves
<1>f. PICK f \in Nat, r \in 0 .. p - 1 : f = Finished(i, u) /\ r = Rest(i, u)
  BY <1>p, Clock
<1>1. Started(i, u) => Started(i, u + 1)
  BY <1>m DEF Started
<1>2. CASE ~Started(i, u)
  <2>1. Finished(i, u) = 0 /\ Rest(i, u) = 0
    BY <1>2 DEF Finished, Rest
  <2>2. CASE m + 1 < 0
    <3>1. ~Started(i, u + 1)
      BY <1>m, <2>2 DEF Started
    <3> QED
      BY <1>2, <2>1, <3>1 DEF Finished, Rest, Ends
  <2>3. CASE m + 1 >= 0
    <3>1. m + 1 = 0
      BY <1>2, <1>m, <2>3 DEF Started
    <3>2. 0 \div p = 0 /\ 0 % p = 0
      BY DivMod
    <3>3. Finished(i, u + 1) = 0 /\ Rest(i, u + 1) = 0
      BY <1>m, <1>p, <3>1, <3>2 DEF Finished, Rest
    <3> QED
      BY <1>2, <2>1, <3>3 DEF Ends
  <2> QED
    BY <2>2, <2>3
<1>3. CASE Started(i, u)
  <2>1. m = f * p + r
    BY <1>3, <1>f, <1>m, <1>p, Clock
  <2>2. Finished(i, u + 1) = (m + 1) \div p /\ Rest(i, u + 1) = (m + 1) % p
    BY <1>1, <1>3, <1>m, <1>p DEF Finished, Rest
  <2>3. CASE r + 1 = p
    <3>1. m + 1 = (f + 1) * p + 0
      BY <2>1, <2>3
    <3>2. 0 \in 0 .. p - 1 /\ f + 1 \in Int /\ m + 1 \in Int
      OBVIOUS
    <3>3. (m + 1) \div p = f + 1 /\ (m + 1) % p = 0
      BY <3>1, <3>2, DivMod
    <3>4. Ends(i, u)
      BY <1>3, <1>f, <1>p, <2>3 DEF Ends
    <3> QED
      BY <1>1, <1>3, <1>f, <2>2, <3>3, <3>4
  <2>4. CASE r + 1 # p
    <3>1. m + 1 = f * p + (r + 1)
      BY <2>1
    <3>2. r + 1 \in 0 .. p - 1 /\ f \in Int /\ m + 1 \in Int
      BY <2>4
    <3>3. (m + 1) \div p = f /\ (m + 1) % p = r + 1
      BY <3>1, <3>2, DivMod
    <3>4. ~Ends(i, u)
      BY <1>f, <1>p, <2>4 DEF Ends
    <3> QED
      BY <1>1, <1>3, <1>f, <2>2, <3>3, <3>4
  <2> QED
    BY <2>3, <2>4
<1> QED
  BY <1>2, <1>3

\* The level above: it starts with two full sets, and ends a merge with every
\* other one that ends here.
LEMMA ClockAbove ==
    ASSUME NEW i \in Level, i + 1 \in Level, NEW u \in Nat
    PROVE  /\ Started(i + 1, u) <=> Finished(i, u) >= 2
           /\ Ends(i + 1, u) <=> Ends(i, u) /\ Finished(i, u) >= 2 /\ Finished(i, u) % 2 = 1
           /\ Finished(i, u) >= 2 =>
                 Finished(i, u) = 2 * Finished(i + 1, u) + 2 + (Finished(i, u) % 2)
<1>p. PICK p \in Nat \ {0} : p = 2 ^ i /\ 2 ^ (i + 1) = 2 * p /\ 2 ^ (i + 2) = 2 * (2 * p)
  <2>1. (i + 1) + 1 = i + 2
    BY Numbers
  <2> QED
    BY <2>1, Numbers
<1>m. PICK m \in Int : m = Moves(i, u) /\ Moves(i + 1, u) = m - 2 * p
  <2>1. (i + 1) + 1 = i + 2
    BY Numbers
  <2> QED
    BY <1>p, <2>1 DEF Moves
<1>f. PICK f \in Nat, r \in 0 .. p - 1 : f = Finished(i, u) /\ r = Rest(i, u)
  BY <1>p, Clock
<1>1. Started(i, u) => m = f * p + r
  BY <1>f, <1>m, <1>p, Clock
<1>2. Started(i + 1, u) <=> f >= 2
  <2>1. CASE ~Started(i, u)
    <3>1. m < 0 /\ f = 0
      BY <1>f, <1>m, <2>1 DEF Started, Finished
    <3> QED
      BY <1>m, <3>1 DEF Started
  <2>2. CASE Started(i, u) /\ f >= 2
    <3>1. 2 * p <= f * p
      BY <2>2
    <3>2. m - 2 * p >= 0
      BY <1>1, <2>2, <3>1
    <3> QED
      BY <1>m, <2>2, <3>2 DEF Started
  <2>3. CASE Started(i, u) /\ f < 2
    <3>1. f = 0 \/ f = 1
      BY <2>3
    <3>2. f * p <= p
      BY <3>1
    <3>3. m - 2 * p < 0
      BY <1>1, <2>3, <3>2
    <3> QED
      BY <1>m, <2>3, <3>3 DEF Started
  <2> QED
    BY <2>1, <2>2, <2>3
<1>3. CASE f < 2
  BY <1>2, <1>3, <1>f DEF Ends
<1>4. CASE f >= 2
  <2>1. Started(i, u)
    BY <1>4, <1>f DEF Finished
  <2>2. Started(i + 1, u) /\ Rest(i + 1, u) = (m - 2 * p) % (2 * p)
    BY <1>2, <1>4, <1>m, <1>p DEF Rest
  <2>3. PICK g \in Nat, b \in {0, 1} : f = 2 * g + b /\ b = f % 2
    <3>1. PICK t \in Int, s \in Int : t = f \div 2 /\ s = f % 2
      OBVIOUS
    <3>2. f = 2 * t + s /\ 0 <= s /\ s < 2
      BY <3>1
    <3>3. t \in Nat /\ s \in {0, 1}
      BY <3>2
    <3> QED
      BY <3>1, <3>2, <3>3
  <2>4. g >= 1
    BY <1>4, <2>3
  <2>5. m - 2 * p = (g - 1) * (2 * p) + (b * p + r)
    <3>1. m = f * p + r
      BY <1>1, <2>1
    <3>2. f * p = (2 * g) * p + b * p
      BY <2>3
    <3>3. PICK x \in Int, y \in Int : x = g * p /\ y = b * p
      BY <2>3
    <3>4. (2 * g) * p = 2 * (g * p)
      BY <2>3
    <3>5. (g - 1) * (2 * p) = 2 * (g * p) - 2 * p
      BY <2>3
    <3> QED
      BY <3>1, <3>2, <3>3, <3>4, <3>5
  <2>6. b * p + r \in 0 .. (2 * p) - 1
    <3>1. CASE b = 0
      BY <3>1
    <3>2. CASE b = 1
      BY <3>2
    <3> QED
      BY <2>3, <3>1, <3>2
  <2>7. Rest(i + 1, u) = b * p + r
    <3>1. 2 * p \in Nat \ {0} /\ m - 2 * p \in Int /\ g - 1 \in Int
      BY <2>3
    <3>2. (m - 2 * p) % (2 * p) = b * p + r
      BY <2>5, <2>6, <3>1, DivMod
    <3> QED
      BY <2>2, <3>2
  <2>8. Ends(i + 1, u) <=> b * p + r + 1 = 2 * p
    BY <1>p, <2>2, <2>7 DEF Ends
  <2>11. Finished(i + 1, u) = g - 1
    <3>1. 2 * p \in Nat \ {0} /\ m - 2 * p \in Int /\ g - 1 \in Int
      BY <2>3
    <3>2. (m - 2 * p) \div (2 * p) = g - 1
      BY <2>5, <2>6, <3>1, DivMod
    <3>3. Finished(i + 1, u) = (m - 2 * p) \div (2 * p)
      BY <1>2, <1>4, <1>m, <1>p DEF Finished
    <3> QED
      BY <3>2, <3>3
  <2>12. f = 2 * Finished(i + 1, u) + 2 + (f % 2)
    <3>1. f = 2 * (g - 1) + 2 + b
      BY <2>3
    <3> QED
      BY <2>3, <2>11, <3>1
  <2>9. b * p + r + 1 = 2 * p <=> b = 1 /\ r + 1 = p
    <3>1. CASE b = 0
      BY <3>1
    <3>2. CASE b = 1
      BY <3>2
    <3> QED
      BY <2>3, <3>1, <3>2
  <2>10. Ends(i, u) <=> r + 1 = p
    BY <1>f, <1>p, <2>1 DEF Ends
  <2> QED
    BY <1>2, <1>4, <1>f, <2>3, <2>8, <2>9, <2>10, <2>12
<1> QED
  BY <1>3, <1>4

\* There is a level above, or this is the top one.
LEMMA Top ==
    ASSUME NEW i \in Level
    PROVE  i + 1 \in Level <=> i # Levels - 1
BY Numbers DEF Level

\* Three full sets at most, also at the top, where none is taken away.
LEMMA SetCountFact ==
    ASSUME NEW i \in Level, NEW u \in Nat, u <= MaxUpdates
    PROVE  /\ SetCount(i, u) \in 0 .. 3
           /\ SetCount(i, u) >= 2 <=> Finished(i, u) >= 2
<1>f. PICK f \in Nat : f = Finished(i, u)
  BY Clock
<1>1. CASE i = Levels - 1
  <2>p. PICK p \in Nat \ {0} : p = 2 ^ i /\ 2 ^ (i + 1) = 2 * p
    BY Numbers
  <2>1. u < 6 * p - 2
    <3>1. i + 1 = Levels
      BY <1>1, Numbers
    <3>2. MaxUpdates < 3 * 2 ^ Levels - 2 /\ MaxUpdates \in Nat
      BY DeAmortizedAssumption
    <3> QED
      BY <2>p, <3>1, <3>2
  <2>2. f <= 3
    <3>1. CASE ~Started(i, u)
      BY <1>f, <3>1 DEF Finished
    <3>2. CASE Started(i, u)
      <4>1. PICK r \in 0 .. p - 1 : u - (2 * p - 2) = f * p + r
        BY <1>f, <2>p, <3>2, Clock DEF Moves
      <4> SUFFICES ASSUME 4 <= f PROVE FALSE
        OBVIOUS
      <4>2. 4 * p <= f * p
        OBVIOUS
      <4>q. PICK x \in Int : x = f * p
        OBVIOUS
      <4> QED
        BY <2>1, <4>1, <4>2, <4>q
    <3> QED
      BY <3>1, <3>2
  <2>3. SetCount(i, u) = f
    BY <1>1, <1>f DEF SetCount
  <2> QED
    BY <1>f, <2>2, <2>3
<1>2. CASE i # Levels - 1
  <2>1. CASE f < 2
    BY <1>2, <1>f, <2>1 DEF SetCount
  <2>2. CASE f >= 2
    <3>1. PICK s \in {0, 1} : s = f % 2
      BY Parity
    <3>2. SetCount(i, u) = 2 + s
      BY <1>2, <1>f, <2>2, <3>1 DEF SetCount
    <3>3. 2 + s \in 0 .. 3 /\ 2 + s >= 2
      OBVIOUS
    <3> QED
      BY <1>f, <2>2, <3>2, <3>3
  <2> QED
    BY <2>1, <2>2
<1> QED
  BY <1>1, <1>2

\* The level above takes two sets at the end of a merge, this one gets one.
Taken(i, u) == i + 1 \in Level /\ Ends(i + 1, u)

\* The sets of a level, one update later.
LEMMA SetCountTick ==
    ASSUME NEW i \in Level, NEW u \in Nat, u + 1 <= MaxUpdates
    PROVE  /\ Ends(i, u) /\ Taken(i, u) => SetCount(i, u) = 3 /\ SetCount(i, u + 1) = 2
           /\ Ends(i, u) /\ ~Taken(i, u) =>
                 SetCount(i, u) \in 0 .. 2 /\ SetCount(i, u + 1) = SetCount(i, u) + 1
           /\ ~Ends(i, u) => ~Taken(i, u) /\ SetCount(i, u + 1) = SetCount(i, u)
<1>f. PICK f \in Nat, g \in Nat : f = Finished(i, u) /\ g = Finished(i, u + 1)
  BY Clock
<1>c. PICK s \in 0 .. 3, t \in 0 .. 3 : s = SetCount(i, u) /\ t = SetCount(i, u + 1)
  <2>1. u <= MaxUpdates /\ u + 1 \in Nat
    BY Numbers
  <2> QED
    BY <2>1, SetCountFact
<1>1. /\ Ends(i, u) => g = f + 1
      /\ ~Ends(i, u) => g = f
  <2>1. Ends(i, u) => Started(i, u)
    BY DEF Ends
  <2> QED
    BY <1>f, <2>1, Tick
<1>2. ~Ends(i, u) => ~Taken(i, u)
  BY ClockAbove DEF Taken
<1>3. CASE i = Levels - 1
  <2>1. ~Taken(i, u)
    BY <1>3, Top DEF Taken
  <2>2. s = f /\ t = g
    BY <1>3, <1>f, <1>c DEF SetCount
  <2> QED
    BY <1>1, <1>c, <2>1, <2>2
<1>4. CASE i # Levels - 1
  <2>1. Taken(i, u) <=> Ends(i, u) /\ f >= 2 /\ f % 2 = 1
    BY <1>4, <1>f, Top, ClockAbove DEF Taken
  <2>2. /\ f < 2 => s = f
        /\ f >= 2 => s = 2 + (f % 2)
        /\ g < 2 => t = g
        /\ g >= 2 => t = 2 + (g % 2)
    BY <1>4, <1>f, <1>c DEF SetCount
  <2>3. CASE ~Ends(i, u)
    <3>1. g = f
      BY <1>1, <2>3
    <3>2. s = t
      BY <1>4, <1>f, <1>c, <3>1 DEF SetCount
    <3> QED
      BY <1>2, <1>c, <2>3, <3>2
  <2>4. CASE Ends(i, u)
    <3>1. PICK b \in {0, 1}, d \in {0, 1} : /\ b = f % 2 /\ d = g % 2
                                            /\ g = f + 1 /\ d = 1 - b
      BY <1>1, <2>4, Parity
    <3>2. /\ Taken(i, u) <=> f >= 2 /\ b = 1
          /\ f < 2 => s = f
          /\ f >= 2 => s = 2 + b
          /\ g < 2 => t = g
          /\ g >= 2 => t = 2 + d
      BY <2>1, <2>2, <2>4, <3>1
    <3>3. f = 1 => b = 1
      <4>1. 1 % 2 = 1
        <5>1. 1 = 0 * 2 + 1 /\ 1 \in 0 .. 2 - 1
          OBVIOUS
        <5> QED
          BY <5>1, DivMod
      <4> QED
        BY <3>1, <4>1
    <3>4. /\ Taken(i, u) => s = 3 /\ t = 2
          /\ ~Taken(i, u) => s \in 0 .. 2 /\ t = s + 1
      <4>1. CASE f >= 2
        BY <3>1, <3>2, <4>1
      <4>2. CASE f < 2
        BY <3>1, <3>2, <3>3, <4>2
      <4> QED
        BY <4>1, <4>2
    <3> QED
      BY <1>c, <2>4, <3>4
  <2> QED
    BY <2>3, <2>4
<1> QED
  BY <1>3, <1>4

\* upCnt numbers the merges from 1 on.
LEMMA UpCntFact ==
    ASSUME NEW i \in Level \ {0}, NEW u \in Nat, Started(i, u)
    PROVE  upCnt(i, u + 1) = Finished(i, u) + 1
<1>h. PICK h \in Nat \ {0} : h = 2 ^ (i - 1) /\ 2 ^ i = 2 * h
  <2>1. PICK j \in Nat : i = j + 1
    <3>1. i \in Nat \ {0}
      BY Numbers
    <3>2. i - 1 \in Nat /\ i = (i - 1) + 1
      BY <3>1
    <3> QED
      BY <3>2
  <2>2. i - 1 = j
    BY <2>1
  <2> QED
    BY <2>1, <2>2, PowerType, PowerNext
<1>p. PICK p \in Nat \ {0} : p = 2 ^ i /\ 2 ^ (i + 1) = 2 * p /\ p = 2 * h
  BY <1>h, Numbers
<1>f. PICK f \in Nat, r \in 0 .. p - 1 : /\ f = Finished(i, u) /\ r = Rest(i, u)
                                        /\ u - (2 * p - 2) = f * p + r
  BY <1>p, Clock DEF Moves
<1>1. PICK a \in Int : a = (u + 1) - (6 * h - 2)
  OBVIOUS
<1>x. PICK x \in Int : x = f * p
  OBVIOUS
<1>2. - a = (- f) * p + (p - r - 1)
  <2>1. (- f) * p = - x
    BY <1>x
  <2>2. u = x + r + 2 * p - 2
    BY <1>f, <1>x
  <2>3. - a = - u - 1 + 6 * h - 2
    BY <1>1
  <2>4. - a = - x + (p - r - 1)
    BY <1>p, <2>2, <2>3
  <2> QED
    BY <2>1, <2>4
<1>3. p - r - 1 \in 0 .. p - 1 /\ - f \in Int /\ - a \in Int
  OBVIOUS
<1>4. (- a) \div p = - f
  BY <1>2, <1>3, DivMod
<1>5. upCnt(i, u + 1) = - ((- a) \div p) + 1
  BY <1>1, <1>h, <1>p DEF upCnt, CeilDiv
<1> QED
  BY <1>4, <1>5, <1>f

-----------------------------------------------------------------------------
(* The inductive invariant.                                                *)

\* Of the instances of a level i, the first n are full sets and the others,
\* except for NEW, are empty.
Holds(i, sets, n) ==
    /\ DOMAIN sets = 0 .. NEW_
    /\ \A j \in 0 .. NEW_ : IsFiniteSet(DOMAIN sets[j])
    /\ \A j \in Full : IF j < n THEN Size(sets[j]) = 2 ^ i ELSE sets[j] = Empty

\* The flags of a level say so.
Marked(flags, n) ==
    /\ DOMAIN flags = 0 .. NEW_
    /\ \A j \in Full : IF j < n THEN flags[j] = TRUE ELSE flags[j] = FALSE

\* Each instance can be read with its key.
Opens(row, sets) ==
    /\ DOMAIN row = 0 .. NEW_
    /\ \A j \in 0 .. NEW_ : \A a \in DOMAIN sets[j] : a[1] = row[j]

\* The keys of the instances of level i.
KeyRow(i) == IF i \in Client THEN [j \in 0 .. NEW_ |-> Local] ELSE keys[i]

\* Level i keeps to the timetable.
LevelInv(i) ==
    /\ Holds(i, store[i], SetCount(i, updateCounter))
    /\ i \in Remote => Marked(exist[i], SetCount(i, updateCounter))
    /\ Opens(KeyRow(i), store[i])
    /\ cnt[i] = Rest(i, updateCounter)
    /\ Size(store[i][NEW_]) = Rest(i, updateCounter)

\* The counter of keyword w in the current merge into level i.
Record(i, w) ==
    LET k == <<w, upCnt(i, updateCounter + 1)>>
    IN  IF k \in DOMAIN Base(i) THEN Base(i)[k] ELSE 0

\* The entries of keyword w in NEW are numbered from 1 to its counter.
Numbered(i, w) ==
    /\ Record(i, w) \in Nat
    /\ Filed(store[i][NEW_], w) = {<<KeyOf(i, NEW_), w, p>> : p \in 1 .. Record(i, w)}

\* The counter records of level i > 0: they are of the current merge or of
\* earlier ones, which the dead-marker of an oblivious map tells apart.
CounterInv(i) ==
    /\ ~Started(i, updateCounter) => CounterMap(i) = Empty
    /\ \A k \in DOMAIN CounterMap(i) : k[2] \in Int /\ k[2] <= Finished(i, updateCounter) + 1
    /\ i \in Remote =>
          /\ phase = "setup" => /\ setupOMAPSDummies[i] = Finished(i, updateCounter)
                                /\ omaps[i] = Empty
          /\ phase = "live" => dummyValue[i] = Finished(i, updateCounter)
          /\ \A k, r \in DOMAIN omaps[i] : k[2] = r[2]
    /\ \A w : Numbered(i, w)

DInv ==
    /\ updateCounter \in 0 .. MaxUpdates
    /\ phase \in {"setup", "live"}
    /\ \A i \in Level : LevelInv(i)
    /\ \A i \in Level \ {0} : CounterInv(i)

-----------------------------------------------------------------------------
(* What the operators of an update do in such a state.                     *)

\* Sets that grow by one address.
LEMMA PutFact ==
    ASSUME NEW m, NEW k, NEW v, IsFiniteSet(DOMAIN m), k \notin DOMAIN m
    PROVE  /\ DOMAIN Put(m, k, v) = DOMAIN m \cup {k}
           /\ IsFiniteSet(DOMAIN Put(m, k, v))
           /\ Size(m) \in Nat /\ Size(Put(m, k, v)) = Size(m) + 1
<1>1. DOMAIN Put(m, k, v) = DOMAIN m \cup {k}
  BY DEF Put
<1>2. IsFiniteSet(DOMAIN m \cup {k}) /\ Cardinality(DOMAIN m \cup {k}) = Cardinality(DOMAIN m) + 1
  BY FS_AddElement
<1>3. Cardinality(DOMAIN m) \in Nat
  BY FS_CardinalityType
<1> QED
  BY <1>1, <1>2, <1>3 DEF Size

\* The empty set of entries.
LEMMA EmptyFact ==
    /\ DOMAIN Empty = {} /\ IsFiniteSet(DOMAIN Empty) /\ Size(Empty) = 0
<1>1. DOMAIN Empty = {}
  BY DEF Empty
<1> QED
  BY <1>1, FS_EmptySet DEF Size

\* The first of the instances that hold sets are Filled.
LEMMA FilledFact ==
    ASSUME NEW i \in Level, LevelInv(i), NEW j \in Full
    PROVE  Filled(i, j) <=> j < SetCount(i, updateCounter)
<1>1. CASE i \in Remote
  <2>1. i \notin Client
    BY <1>1, Numbers
  <2> QED
    BY <1>1, <2>1 DEF Filled, LevelInv, Marked
<1>2. CASE i \in Client
  <2>1. IF j < SetCount(i, updateCounter) THEN Size(store[i][j]) = 2 ^ i
                                          ELSE store[i][j] = Empty
    BY DEF LevelInv, Holds
  <2>2. 2 ^ i \in Nat \ {0}
    BY Numbers
  <2>3. Filled(i, j) <=> Size(store[i][j]) > 0
    BY <1>2 DEF Filled
  <2>4. CASE j < SetCount(i, updateCounter)
    BY <2>1, <2>2, <2>3, <2>4
  <2>5. CASE ~(j < SetCount(i, updateCounter))
    <3>1. Size(store[i][j]) = 0
      BY <2>1, <2>5, EmptyFact
    <3> QED
      BY <2>3, <2>5, <3>1
  <2> QED
    BY <2>4, <2>5
<1> QED
  BY <1>1, <1>2, Numbers

\* The level below i.
LEMMA Below ==
    ASSUME NEW i \in Level \ {0}
    PROVE  i - 1 \in Level /\ (i - 1) + 1 = i /\ i > 0
BY Numbers DEF Level

\* A merge runs from its start on.
LEMMA MergingFact ==
    ASSUME DInv, NEW i \in Level
    PROVE  Merging(i) <=> i # 0 /\ Started(i, updateCounter)
<1>u. updateCounter \in Nat /\ updateCounter <= MaxUpdates
  BY Numbers DEF DInv
<1>1. CASE i = 0
  BY <1>1 DEF Merging
<1>2. CASE i # 0
  <2>1. PICK b \in Level : b = i - 1 /\ b + 1 = i /\ i > 0
    BY <1>2, Below
  <2>2. LevelInv(b)
    BY DEF DInv
  <2>3. PICK s \in 0 .. 3 : s = SetCount(b, updateCounter)
    BY <1>u, SetCountFact
  <2>4. /\ Filled(b, OLDEST) <=> 0 < s
        /\ Filled(b, OLDER) <=> 1 < s
    BY <2>2, <2>3, FilledFact DEF Full, OLDEST, OLDER
  <2>5. Merging(i) <=> s >= 2
    BY <2>1, <2>3, <2>4 DEF Merging
  <2>6. s >= 2 <=> Finished(b, updateCounter) >= 2
    BY <1>u, <2>3, SetCountFact
  <2>7. Started(i, updateCounter) <=> Finished(b, updateCounter) >= 2
    BY <1>u, <2>1, ClockAbove
  <2> QED
    BY <1>2, <2>5, <2>6, <2>7
<1> QED
  BY <1>1, <1>2

\* The address that a merge adds to NEW.
Added(i) ==
    LET w == Slot(i, updateCounter + 1)[1]
    IN  <<KeyOf(i, NEW_), w, Record(i, w) + 1>>

\* The copied element is new to NEW, and its counter is the next one.
LEMMA ExtendedFact ==
    ASSUME DInv, NEW i \in Level \ {0}
    PROVE  /\ Extended(i, updateCounter + 1) = Put(store[i][NEW_], Added(i), Moved(i))
           /\ Added(i) \notin DOMAIN store[i][NEW_]
           /\ IsFiniteSet(DOMAIN Extended(i, updateCounter + 1))
           /\ DOMAIN Extended(i, updateCounter + 1) = DOMAIN store[i][NEW_] \cup {Added(i)}
           /\ Size(Extended(i, updateCounter + 1)) = Rest(i, updateCounter) + 1
           /\ \A a \in DOMAIN Extended(i, updateCounter + 1) : a[1] = KeyOf(i, NEW_)
<1> DEFINE v == updateCounter + 1
           k == Slot(i, v)
           w == k[1]
<1>l. LevelInv(i) /\ CounterInv(i)
  BY DEF DInv
<1>1. k = <<w, upCnt(i, v)>>
  BY DEF Slot
<1>2. Counted(i, k)[k] = Record(i, w) + 1
  <2>1. Counted(i, k)[k] = IF k \in DOMAIN Base(i) THEN Base(i)[k] + 1 ELSE 1
    BY DEF Counted, Put
  <2>2. Record(i, w) = IF k \in DOMAIN Base(i) THEN Base(i)[k] ELSE 0
    BY <1>1 DEF Record
  <2> HIDE DEF k
  <2> QED
    BY <2>1, <2>2
<1>3. Extended(i, v) = Put(store[i][NEW_], Added(i), Moved(i))
  BY <1>2 DEF Extended, Added
<1> HIDE DEF k
<1>4. Numbered(i, w)
  BY <1>l DEF CounterInv
<1>5. Added(i) \notin DOMAIN store[i][NEW_]
  <2> SUFFICES ASSUME Added(i) \in DOMAIN store[i][NEW_] PROVE FALSE
    OBVIOUS
  <2>1. PICK n \in Nat : n = Record(i, w)
    BY <1>4 DEF Numbered
  <2>2. Added(i) = <<KeyOf(i, NEW_), w, n + 1>>
    BY <2>1 DEF Added, k
  <2>3. Added(i) \in Filed(store[i][NEW_], w)
    BY <2>2 DEF Filed
  <2>4. PICK p \in 1 .. n : Added(i) = <<KeyOf(i, NEW_), w, p>>
    BY <1>4, <2>1, <2>3 DEF Numbered
  <2>5. n + 1 = p
    BY <2>2, <2>4
  <2> QED
    BY <2>5
<1>6. IsFiniteSet(DOMAIN store[i][NEW_]) /\ Size(store[i][NEW_]) = Rest(i, updateCounter)
  BY <1>l DEF LevelInv, Holds, NEW_
<1>7. /\ DOMAIN Extended(i, v) = DOMAIN store[i][NEW_] \cup {Added(i)}
      /\ IsFiniteSet(DOMAIN Extended(i, v))
      /\ Size(Extended(i, v)) = Rest(i, updateCounter) + 1
  <2> DEFINE e == Put(store[i][NEW_], Added(i), Moved(i))
  <2>1. /\ DOMAIN e = DOMAIN store[i][NEW_] \cup {Added(i)}
        /\ IsFiniteSet(DOMAIN e)
        /\ Size(e) = Size(store[i][NEW_]) + 1
    BY <1>5, <1>6, PutFact
  <2>2. Extended(i, v) = e
    BY <1>3
  <2> HIDE DEF e, v
  <2> QED
    BY <1>6, <2>1, <2>2
<1>8. \A a \in DOMAIN Extended(i, v) : a[1] = KeyOf(i, NEW_)
  <2>1. \A a \in DOMAIN store[i][NEW_] : a[1] = KeyOf(i, NEW_)
    <3>1. NEW_ \in 0 .. NEW_
      BY DEF NEW_
    <3>2. KeyRow(i)[NEW_] = KeyOf(i, NEW_)
      BY <3>1 DEF KeyRow, KeyOf
    <3> QED
      BY <1>l, <3>1, <3>2 DEF LevelInv, Opens
  <2>2. Added(i)[1] = KeyOf(i, NEW_)
    BY DEF Added
  <2> QED
    BY <1>7, <2>1, <2>2
<1> QED
  BY <1>3, <1>5, <1>7, <1>8

\* The merges that an update ends.
LEMMA DoneFact ==
    ASSUME DInv, NEW i \in Level
    PROVE  i \in Done(updateCounter + 1) <=> i # 0 /\ Ends(i, updateCounter)
<1>1. i \in Done(updateCounter + 1) <=>
         Merging(i) /\ Size(Extended(i, updateCounter + 1)) = 2 ^ i
  BY DEF Done
<1>2. CASE i = 0
  BY <1>1, <1>2 DEF Merging
<1>3. CASE i # 0
  <2>1. Size(Extended(i, updateCounter + 1)) = Rest(i, updateCounter) + 1
    BY <1>3, ExtendedFact
  <2>2. Merging(i) <=> Started(i, updateCounter)
    BY <1>3, MergingFact
  <2> QED
    BY <1>1, <1>3, <2>1, <2>2 DEF Ends
<1> QED
  BY <1>2, <1>3

\* The levels that lose their two oldest sets.
LEMMA TakenFact ==
    ASSUME DInv, NEW i \in Level
    PROVE  i + 1 \in Done(updateCounter + 1) <=> Taken(i, updateCounter)
<1>1. i + 1 # 0
  BY Numbers
<1>2. i + 1 \in Done(updateCounter + 1) => i + 1 \in Level
  BY DEF Done
<1> QED
  BY <1>1, <1>2, DoneFact DEF Taken

\* The two oldest sets go, the third becomes the oldest.
LEMMA ReleaseSets ==
    ASSUME NEW i, NEW sets, Holds(i, sets, 3)
    PROVE  Holds(i, [sets EXCEPT ![OLDEST] = sets[OLD], ![OLDER] = Empty, ![OLD] = Empty], 1)
<1> DEFINE rel == [sets EXCEPT ![OLDEST] = sets[OLD], ![OLDER] = Empty, ![OLD] = Empty]
<1>0. DOMAIN sets = 0 .. 3
  BY DEF Holds, NEW_
<1>1. /\ DOMAIN rel = 0 .. 3 /\ rel[0] = sets[2] /\ rel[1] = Empty /\ rel[2] = Empty
      /\ rel[3] = sets[3]
  BY <1>0 DEF OLDEST, OLDER, OLD
<1>2. /\ Size(sets[2]) = 2 ^ i
      /\ IsFiniteSet(DOMAIN sets[2]) /\ IsFiniteSet(DOMAIN sets[3])
  BY DEF Holds, Full, OLDEST, OLDER, OLD, NEW_
<1> HIDE DEF rel
<1>3. ASSUME NEW j \in 0 .. NEW_ PROVE IsFiniteSet(DOMAIN rel[j])
  <2>1. j \in {0, 1, 2, 3}
    BY DEF NEW_
  <2> QED
    BY <1>1, <1>2, <2>1, EmptyFact
<1>4. ASSUME NEW j \in Full
      PROVE  IF j < 1 THEN Size(rel[j]) = 2 ^ i ELSE rel[j] = Empty
  <2>1. j \in {0, 1, 2}
    BY DEF Full, OLDEST, OLDER, OLD
  <2> QED
    BY <1>1, <1>2, <2>1
<1>5. Holds(i, rel, 1)
  BY <1>1, <1>3, <1>4 DEF Holds, NEW_
<1> QED
  BY <1>5 DEF rel

\* A new set goes to the first free instance.
LEMMA FileSet ==
    ASSUME NEW i, NEW n \in 0 .. 2, NEW sets, Holds(i, sets, n),
           NEW full, IsFiniteSet(DOMAIN full), Size(full) = 2 ^ i
    PROVE  /\ Holds(i, [[sets EXCEPT ![NEW_] = Empty] EXCEPT ![n] = full], n + 1)
           /\ Holds(i, [sets EXCEPT ![n] = full], n + 1)
<1>0. DOMAIN sets = 0 .. 3 /\ n \in 0 .. 3 /\ n # 3
  BY DEF Holds, NEW_
<1>1. ASSUME NEW res, DOMAIN res = 0 .. 3, res[n] = full,
             res[3] = sets[3] \/ res[3] = Empty,
             \A j \in 0 .. 2 : j # n => res[j] = sets[j]
      PROVE  Holds(i, res, n + 1)
  <2>1. \A j \in 0 .. 3 : IsFiniteSet(DOMAIN sets[j])
    BY DEF Holds, NEW_
  <2>2. ASSUME NEW j \in 0 .. NEW_ PROVE IsFiniteSet(DOMAIN res[j])
    <3>1. j \in 0 .. 2 \/ j = 3
      BY DEF NEW_
    <3>2. j \in 0 .. 3
      BY DEF NEW_
    <3> QED
      BY <1>1, <2>1, <3>1, <3>2, EmptyFact
  <2>3. ASSUME NEW j \in Full
        PROVE  IF j < n + 1 THEN Size(res[j]) = 2 ^ i ELSE res[j] = Empty
    <3>1. j \in 0 .. 2
      BY DEF Full, OLDEST, OLDER, OLD
    <3>2. IF j < n THEN Size(sets[j]) = 2 ^ i ELSE sets[j] = Empty
      BY DEF Holds
    <3>3. CASE j = n
      BY <1>1, <3>1, <3>3
    <3>4. CASE j # n
      <4>1. j < n + 1 <=> j < n
        BY <3>1, <3>4
      <4>2. res[j] = sets[j]
        BY <1>1, <3>1, <3>4
      <4> QED
        BY <3>2, <4>1, <4>2
    <3> QED
      BY <3>3, <3>4
  <2> QED
    BY <1>1, <2>2, <2>3 DEF Holds, NEW_
<1>2. Holds(i, [sets EXCEPT ![n] = full], n + 1)
  <2> DEFINE res == [sets EXCEPT ![n] = full]
  <2>1. /\ DOMAIN res = 0 .. 3 /\ res[n] = full /\ res[3] = sets[3]
        /\ \A j \in 0 .. 2 : j # n => res[j] = sets[j]
    BY <1>0
  <2> HIDE DEF res
  <2>2. Holds(i, res, n + 1)
    BY <1>1, <2>1
  <2> QED
    BY <2>2 DEF res
<1>3. Holds(i, [[sets EXCEPT ![NEW_] = Empty] EXCEPT ![n] = full], n + 1)
  <2> DEFINE res == [[sets EXCEPT ![NEW_] = Empty] EXCEPT ![n] = full]
  <2>1. /\ DOMAIN res = 0 .. 3 /\ res[n] = full /\ res[3] = Empty
        /\ \A j \in 0 .. 2 : j # n => res[j] = sets[j]
    BY <1>0 DEF NEW_
  <2> HIDE DEF res
  <2>2. Holds(i, res, n + 1)
    BY <1>1, <2>1
  <2> QED
    BY <2>2 DEF res
<1> QED
  BY <1>2, <1>3

-----------------------------------------------------------------------------
(* A level during an update.                                               *)

\* What is left of level i when the level above has taken its sources.
Left(i, u) == IF Taken(i, u) THEN 1 ELSE SetCount(i, u)

ReleasedKeys(i, done) ==
    IF i \in Client THEN [j \in 0 .. NEW_ |-> Local]
    ELSE IF i + 1 \in done THEN [keys[i] EXCEPT ![OLDEST] = keys[i][OLD]]
    ELSE keys[i]

LEMMA LeftFact ==
    ASSUME NEW i \in Level, NEW u \in Nat, u + 1 <= MaxUpdates
    PROVE  /\ Left(i, u) \in 0 .. 3
           /\ Taken(i, u) => Ends(i, u) /\ SetCount(i, u) = 3
           /\ Ends(i, u) => Left(i, u) \in 0 .. 2 /\ SetCount(i, u + 1) = Left(i, u) + 1
           /\ ~Ends(i, u) => /\ ~Taken(i, u)
                             /\ Left(i, u) = SetCount(i, u) /\ SetCount(i, u + 1) = SetCount(i, u)
<1>1. u <= MaxUpdates
  BY Numbers
<1>2. SetCount(i, u) \in 0 .. 3
  BY <1>1, SetCountFact
<1>3. CASE Ends(i, u) /\ Taken(i, u)
  BY <1>3, SetCountTick DEF Left
<1>4. CASE Ends(i, u) /\ ~Taken(i, u)
  BY <1>4, SetCountTick DEF Left
<1>5. CASE ~Ends(i, u)
  BY <1>2, <1>5, SetCountTick DEF Left
<1> QED
  BY <1>3, <1>4, <1>5

\* The sets, flags and keys of a level when the level above has finished.
LEMMA ReleasedFact ==
    ASSUME DInv, updateCounter + 1 <= MaxUpdates, NEW i \in Level,
           NEW d, d = Done(updateCounter + 1)
    PROVE  /\ Holds(i, ReleasedStore(i, d), Left(i, updateCounter))
           /\ ReleasedStore(i, d)[NEW_] = store[i][NEW_]
           /\ i \in Remote => Marked(ReleasedExist(i, d), Left(i, updateCounter))
           /\ Opens(ReleasedKeys(i, d), ReleasedStore(i, d))
           /\ ReleasedKeys(i, d)[NEW_] = KeyOf(i, NEW_)
<1>u. updateCounter \in Nat
  BY Numbers DEF DInv
<1>l. LevelInv(i)
  BY DEF DInv
<1>t. i + 1 \in d <=> Taken(i, updateCounter)
  BY TakenFact
<1>n. NEW_ \in 0 .. NEW_
  BY DEF NEW_
<1>1. CASE ~Taken(i, updateCounter)
  <2>1. /\ ReleasedStore(i, d) = store[i] /\ ReleasedExist(i, d) = exist[i]
        /\ ReleasedKeys(i, d) = KeyRow(i)
        /\ Left(i, updateCounter) = SetCount(i, updateCounter)
    BY <1>1, <1>t DEF ReleasedStore, ReleasedExist, ReleasedKeys, KeyRow, Left
  <2>2. KeyRow(i)[NEW_] = KeyOf(i, NEW_)
    BY <1>n DEF KeyRow, KeyOf
  <2> QED
    BY <1>l, <2>1, <2>2 DEF LevelInv
<1>2. CASE Taken(i, updateCounter)
  <2>1. Left(i, updateCounter) = 1 /\ SetCount(i, updateCounter) = 3
    BY <1>2, <1>u, LeftFact DEF Left
  <2>2. Holds(i, store[i], 3)
    BY <1>l, <2>1 DEF LevelInv
  <2>3. ReleasedStore(i, d) =
           [store[i] EXCEPT ![OLDEST] = store[i][OLD], ![OLDER] = Empty, ![OLD] = Empty]
    BY <1>2, <1>t DEF ReleasedStore
  <2>4. Holds(i, ReleasedStore(i, d), 1)
    BY <2>2, <2>3, ReleaseSets
  <2>5. DOMAIN store[i] = 0 .. 3
    BY <2>2 DEF Holds, NEW_
  <2>6. /\ ReleasedStore(i, d)[0] = store[i][2] /\ ReleasedStore(i, d)[1] = Empty
        /\ ReleasedStore(i, d)[2] = Empty /\ ReleasedStore(i, d)[3] = store[i][3]
    BY <2>3, <2>5 DEF OLDEST, OLDER, OLD
  <2>7. ASSUME i \in Remote PROVE Marked(ReleasedExist(i, d), 1)
    <3>1. ReleasedExist(i, d) =
             [exist[i] EXCEPT ![0] = Size(store[i][2]) > 0, ![1] = FALSE, ![2] = FALSE]
      BY <1>2, <1>t DEF ReleasedExist, OLDEST, OLDER, OLD
    <3>2. DOMAIN exist[i] = 0 .. 3
      BY <1>l, <2>7 DEF LevelInv, Marked, NEW_
    <3>3. Size(store[i][2]) > 0
      <4>1. Size(store[i][2]) = 2 ^ i
        BY <2>2 DEF Holds, Full, OLDEST, OLDER, OLD
      <4> QED
        BY <4>1, Numbers
    <3>4. (Size(store[i][2]) > 0) = TRUE
      BY <3>3
    <3>5. ReleasedExist(i, d) = [exist[i] EXCEPT ![0] = TRUE, ![1] = FALSE, ![2] = FALSE]
      BY <3>1, <3>4, Zenon
    <3>6. /\ DOMAIN ReleasedExist(i, d) = 0 .. 3
          /\ ReleasedExist(i, d)[0] = TRUE /\ ReleasedExist(i, d)[1] = FALSE
          /\ ReleasedExist(i, d)[2] = FALSE
      BY <3>2, <3>5
    <3>7. ASSUME NEW j \in Full
          PROVE  IF j < 1 THEN ReleasedExist(i, d)[j] = TRUE ELSE ReleasedExist(i, d)[j] = FALSE
      <4>1. j \in {0, 1, 2}
        BY DEF Full, OLDEST, OLDER, OLD
      <4> QED
        BY <3>6, <4>1
    <3> QED
      BY <3>6, <3>7 DEF Marked, NEW_
  <2>8. Opens(KeyRow(i), store[i])
    BY <1>l DEF LevelInv
  <2>9. /\ DOMAIN ReleasedKeys(i, d) = 0 .. 3
        /\ ReleasedKeys(i, d)[0] = KeyRow(i)[2] /\ ReleasedKeys(i, d)[3] = KeyRow(i)[3]
    <3>1. CASE i \in Client
      BY <3>1 DEF ReleasedKeys, KeyRow, NEW_
    <3>2. CASE i \notin Client
      <4>1. KeyRow(i) = keys[i] /\ DOMAIN keys[i] = 0 .. 3
        BY <2>8, <3>2 DEF KeyRow, Opens, NEW_
      <4>2. ReleasedKeys(i, d) = [keys[i] EXCEPT ![0] = keys[i][2]]
        BY <1>2, <1>t, <3>2 DEF ReleasedKeys, OLDEST, OLD
      <4> QED
        BY <4>1, <4>2
    <3> QED
      BY <3>1, <3>2
  <2>10. Opens(ReleasedKeys(i, d), ReleasedStore(i, d))
    <3>1. ASSUME NEW j \in 0 .. NEW_, NEW a \in DOMAIN ReleasedStore(i, d)[j]
          PROVE  a[1] = ReleasedKeys(i, d)[j]
      <4>1. j \in {0, 1, 2, 3}
        BY DEF NEW_
      <4>2. j = 0 \/ j = 3
        BY <2>6, <3>1, <4>1, EmptyFact
      <4>3. /\ \A b \in DOMAIN store[i][2] : b[1] = KeyRow(i)[2]
            /\ \A b \in DOMAIN store[i][3] : b[1] = KeyRow(i)[3]
        BY <2>8 DEF Opens, NEW_
      <4> QED
        BY <2>6, <2>9, <3>1, <4>2, <4>3
    <3> QED
      BY <2>9, <3>1 DEF Opens, NEW_
  <2>11. KeyRow(i)[3] = KeyOf(i, 3)
    BY DEF KeyRow, KeyOf, NEW_
  <2> QED
    BY <2>1, <2>4, <2>6, <2>7, <2>9, <2>10, <2>11 DEF NEW_
<1> QED
  BY <1>1, <1>2

\* The first free instance.
LEMMA TargetFact ==
    ASSUME DInv, updateCounter + 1 <= MaxUpdates, NEW i \in Level,
           NEW d, d = Done(updateCounter + 1), Left(i, updateCounter) \in 0 .. 2
    PROVE  Target(i, d) = Left(i, updateCounter)
<1> DEFINE full(j) == IF i \in Client THEN Size(ReleasedStore(i, d)[j]) > 0
                                      ELSE ReleasedExist(i, d)[j]
           First(j) == /\ j = NEW_ \/ ~full(j)
                       /\ \A k \in 0 .. j - 1 : full(k)
<1>n. PICK n \in 0 .. 2 : n = Left(i, updateCounter)
  OBVIOUS
<1>1. ASSUME NEW j \in 0 .. 2 PROVE full(j) <=> j < n
  <2>1. j \in Full
    BY DEF Full, OLDEST, OLDER, OLD
  <2>2. CASE i \in Client
    <3>1. IF j < n THEN Size(ReleasedStore(i, d)[j]) = 2 ^ i
                   ELSE ReleasedStore(i, d)[j] = Empty
      BY <1>n, <2>1, ReleasedFact DEF Holds
    <3>2. 2 ^ i \in Nat \ {0}
      BY Numbers
    <3>3. full(j) <=> Size(ReleasedStore(i, d)[j]) > 0
      BY <2>2
    <3> HIDE DEF full
    <3>4. CASE j < n
      BY <3>1, <3>2, <3>3, <3>4
    <3>5. CASE ~(j < n)
      <4>1. Size(ReleasedStore(i, d)[j]) = 0
        BY <3>1, <3>5, EmptyFact
      <4> QED
        BY <3>3, <3>5, <4>1
    <3> QED
      BY <3>4, <3>5
  <2>3. CASE i \notin Client
    <3>1. Marked(ReleasedExist(i, d), n)
      BY <1>n, <2>3, Numbers, ReleasedFact
    <3> QED
      BY <2>1, <2>3, <3>1 DEF Marked
  <2> QED
    BY <2>2, <2>3
<1>2. Target(i, d) = CHOOSE j \in 0 .. NEW_ : First(j)
  BY DEF Target
<1> HIDE DEF full
<1>3. First(n) /\ n \in 0 .. NEW_
  BY <1>1 DEF NEW_
<1>4. ASSUME NEW j \in 0 .. NEW_, First(j) PROVE j = n
  <2>1. CASE j < n
    <3>1. j \in 0 .. 2 /\ j # 3
      BY <2>1 DEF NEW_
    <3> QED
      BY <1>1, <1>4, <2>1, <3>1 DEF NEW_
  <2>2. CASE j > n
    <3>1. n \in 0 .. j - 1
      BY <2>2
    <3> QED
      BY <1>1, <1>4, <3>1
  <2> QED
    BY <2>1, <2>2 DEF NEW_
<1> HIDE DEF First
<1>5. Target(i, d) \in 0 .. NEW_ /\ First(Target(i, d))
  BY <1>2, <1>3
<1> QED
  BY <1>4, <1>5, <1>n

-----------------------------------------------------------------------------
(* The levels after an update.                                             *)

\* A state change that is an update, with its number in range.
Updated ==
    /\ DInv
    /\ updateCounter + 1 <= MaxUpdates
    /\ \E c : SetupUpdate(c) \/ LiveUpdate(c)

\* What LevelInv asks of the next state.
LEMMA LevelNext ==
    ASSUME NEW i \in Level, Updated,
           Holds(i, store'[i], SetCount(i, updateCounter + 1)),
           i \in Remote => Marked(exist'[i], SetCount(i, updateCounter + 1)),
           Opens(IF i \in Client THEN [j \in 0 .. NEW_ |-> Local] ELSE keys'[i], store'[i]),
           cnt'[i] = Rest(i, updateCounter + 1),
           Size(store'[i][NEW_]) = Rest(i, updateCounter + 1)
    PROVE  LevelInv(i)'
<1>1. updateCounter' = updateCounter + 1
  BY DEF Updated, Update, SetupUpdate, LiveUpdate
<1> QED
  BY <1>1 DEF LevelInv, KeyRow

\* Level 0 gets the new element.
LEMMA LevelZero ==
    ASSUME Updated, NEW c, Update(c)
    PROVE  /\ LevelInv(0)'
           /\ Ends(0, updateCounter)
           /\ store'[0] = [ReleasedStore(0, Done(updateCounter + 1)) EXCEPT
                             ![Left(0, updateCounter)] =
                                Put(Empty, <<Local, c.kw, 1>>, updateCounter + 1)]
<1>0. DInv /\ updateCounter \in Nat /\ updateCounter + 1 <= MaxUpdates /\ 0 \in Level
  BY Numbers DEF Updated, DInv
<1>d. PICK d : d = Done(updateCounter + 1)
  OBVIOUS
<1>p. 2 ^ 0 = 1 /\ 0 \in Client /\ 0 \notin Remote
  BY Numbers DEF Client, Remote
<1>1. Rest(0, updateCounter) = 0 /\ Rest(0, updateCounter + 1) = 0
  <2>1. \A u \in Nat : Rest(0, u) \in 0 .. 2 ^ 0 - 1
    BY <1>0, Clock
  <2>2. \A u \in Nat : Rest(0, u) = 0
    BY <1>p, <2>1
  <2> QED
    BY <1>0, <2>2
<1>2. Ends(0, updateCounter)
  <2>1. 2 ^ (0 + 1) = 2
    BY <1>0, <1>p, Numbers
  <2>2. Moves(0, updateCounter) = updateCounter
    BY <1>0, <2>1 DEF Moves
  <2> QED
    BY <1>0, <1>1, <1>p, <2>2 DEF Ends, Started
<1>n. PICK n \in 0 .. 2 : /\ n = Left(0, updateCounter)
                          /\ SetCount(0, updateCounter + 1) = n + 1
  BY <1>0, <1>2, LeftFact
<1>r. PICK rel : rel = ReleasedStore(0, d)
  OBVIOUS
<1>3. Holds(0, rel, n) /\ rel[NEW_] = store[0][NEW_] /\ Opens([j \in 0 .. NEW_ |-> Local], rel)
  BY <1>0, <1>d, <1>n, <1>p, <1>r, ReleasedFact DEF ReleasedKeys
<1>a. PICK a, w : w = updateCounter + 1 /\ a = <<Local, c.kw, 1>>
  OBVIOUS
<1>4. rel[n] = Empty
  <2>1. n \in Full
    BY DEF Full, OLDEST, OLDER, OLD
  <2> QED
    BY <1>3, <2>1 DEF Holds
<1>5. store'[0] = [rel EXCEPT ![n] = Put(Empty, a, w)]
  <2>1. store'[0] = Level0After(w, c.kw, d)
    BY <1>0, <1>a, <1>d DEF Update
  <2>2. Target(0, d) = n /\ n # NEW_
    BY <1>0, <1>d, <1>n, TargetFact DEF NEW_
  <2>3. a \notin DOMAIN rel[n]
    BY <1>4, EmptyFact
  <2> QED
    BY <1>4, <1>a, <1>r, <2>1, <2>2, <2>3 DEF Level0After
<1>6. /\ IsFiniteSet(DOMAIN Put(Empty, a, w)) /\ Size(Put(Empty, a, w)) = 2 ^ 0
      /\ DOMAIN Put(Empty, a, w) = {a}
  <2>1. /\ DOMAIN Put(Empty, a, w) = DOMAIN Empty \cup {a}
        /\ IsFiniteSet(DOMAIN Put(Empty, a, w))
        /\ Size(Put(Empty, a, w)) = Size(Empty) + 1
    <3>1. IsFiniteSet(DOMAIN Empty) /\ a \notin DOMAIN Empty
      BY EmptyFact
    <3> QED
      BY <3>1, PutFact
  <2> QED
    BY <1>p, <2>1, EmptyFact
<1>7. Holds(0, store'[0], SetCount(0, updateCounter + 1))
  <2>1. Holds(0, [rel EXCEPT ![n] = Put(Empty, a, w)], n + 1)
    <3>1. PICK full : full = Put(Empty, a, w)
      OBVIOUS
    <3>2. Holds(0, [rel EXCEPT ![n] = full], n + 1)
      BY <1>3, <1>6, <3>1, FileSet
    <3> QED
      BY <3>1, <3>2
  <2> QED
    BY <1>5, <1>n, <2>1
<1>8. DOMAIN rel = 0 .. 3
  BY <1>3 DEF Holds, NEW_
<1>9. Opens([j \in 0 .. NEW_ |-> Local], store'[0])
  <2>1. ASSUME NEW j \in 0 .. NEW_, NEW b \in DOMAIN store'[0][j] PROVE b[1] = Local
    <3>1. CASE j = n
      <4>1. b = a
        BY <1>5, <1>6, <1>8, <2>1, <3>1 DEF NEW_
      <4> QED
        BY <1>a, <4>1
    <3>2. CASE j # n
      <4>1. b \in DOMAIN rel[j]
        BY <1>5, <1>8, <2>1, <3>2 DEF NEW_
      <4> QED
        BY <1>3, <4>1 DEF Opens
    <3> QED
      BY <3>1, <3>2
  <2> QED
    BY <2>1 DEF Opens
<1>10. cnt'[0] = 0
  <2>1. 0 \notin d /\ ~Merging(0)
    BY <1>0, <1>d, DoneFact, MergingFact
  <2>2. cnt'[0] = cnt[0]
    BY <1>0, <1>d, <2>1 DEF Update
  <2>3. LevelInv(0)
    BY <1>0 DEF DInv
  <2> QED
    BY <1>1, <2>2, <2>3 DEF LevelInv
<1>11. Size(store'[0][NEW_]) = 0
  <2>1. store'[0][NEW_] = store[0][NEW_]
    BY <1>3, <1>5, <1>8 DEF NEW_
  <2>2. LevelInv(0)
    BY <1>0 DEF DInv
  <2> QED
    BY <1>1, <2>1, <2>2 DEF LevelInv
<1>12. LevelInv(0)'
  BY <1>0, <1>1, <1>7, <1>9, <1>10, <1>11, <1>p, LevelNext
<1> QED
  BY <1>2, <1>5, <1>12, <1>a, <1>d, <1>n, <1>r

\* A level whose merge goes on, or has not started.
LEMMA LevelGoesOn ==
    ASSUME Updated, NEW i \in Level \ {0}, ~Ends(i, updateCounter)
    PROVE  /\ LevelInv(i)'
           /\ \A j \in Full : store'[i][j] = store[i][j]
           /\ KeyOf(i, NEW_)' = KeyOf(i, NEW_)
           /\ store'[i][NEW_] = IF Started(i, updateCounter)
                                THEN Extended(i, updateCounter + 1) ELSE store[i][NEW_]
<1>0. /\ DInv /\ updateCounter \in Nat /\ updateCounter + 1 <= MaxUpdates
      /\ LevelInv(i)
  BY Numbers DEF Updated, DInv
<1>d. PICK d : d = Done(updateCounter + 1)
  OBVIOUS
<1>c. PICK c : Update(c)
  BY DEF Updated, SetupUpdate, LiveUpdate
<1>1. i \notin d /\ i + 1 \notin d
  <2>1. ~Taken(i, updateCounter)
    BY <1>0, LeftFact
  <2> QED
    BY <1>0, <1>d, <2>1, DoneFact, TakenFact
<1>2. /\ i \in Remote => exist'[i] = exist[i] /\ keys'[i] = keys[i]
      /\ ReleasedStore(i, d) = store[i]
  BY <1>1, <1>c, <1>d DEF Update, ExistAfter, ReleasedExist, KeysAfter, ReleasedStore
<1>n. PICK n : n = SetCount(i, updateCounter) /\ SetCount(i, updateCounter + 1) = n
  BY <1>0, LeftFact
<1>3. /\ Holds(i, store[i], n) /\ (i \in Remote => Marked(exist[i], n))
      /\ Opens(KeyRow(i), store[i])
      /\ cnt[i] = Rest(i, updateCounter) /\ Size(store[i][NEW_]) = Rest(i, updateCounter)
  BY <1>0, <1>n DEF LevelInv
<1>k. PICK row : row = KeyRow(i)
  OBVIOUS
<1>4. /\ row = IF i \in Client THEN [j \in 0 .. NEW_ |-> Local] ELSE keys'[i]
      /\ KeyOf(i, NEW_)' = KeyOf(i, NEW_)
  BY <1>2, <1>k, Numbers DEF KeyRow, KeyOf
<1>5. CASE ~Started(i, updateCounter)
  <2>1. ~Merging(i)
    BY <1>0, <1>5, MergingFact
  <2>2. store'[i] = store[i]
    BY <1>1, <1>2, <1>c, <1>d, <2>1 DEF Update, StoreAfter
  <2>3. cnt'[i] = cnt[i]
    BY <1>1, <1>c, <1>d, <2>1 DEF Update
  <2>4. Rest(i, updateCounter) = 0 /\ Rest(i, updateCounter + 1) = 0
    BY <1>0, <1>5, Tick
  <2>5. LevelInv(i)'
    BY <1>2, <1>3, <1>4, <1>k, <1>n, <2>2, <2>3, <2>4, LevelNext
  <2> QED
    BY <1>4, <1>5, <2>2, <2>5
<1>6. CASE Started(i, updateCounter)
  <2>1. Merging(i)
    BY <1>0, <1>6, MergingFact
  <2>e. PICK e : e = Extended(i, updateCounter + 1)
    OBVIOUS
  <2>2. store'[i] = [store[i] EXCEPT ![NEW_] = e]
    BY <1>1, <1>2, <1>c, <1>d, <2>1, <2>e DEF Update, StoreAfter
  <2>3. cnt'[i] = cnt[i] + 1
    BY <1>1, <1>c, <1>d, <2>1 DEF Update
  <2>4. Rest(i, updateCounter + 1) = Rest(i, updateCounter) + 1
    BY <1>0, <1>6, Tick
  <2>5. /\ IsFiniteSet(DOMAIN e) /\ Size(e) = Rest(i, updateCounter) + 1
        /\ \A a \in DOMAIN e : a[1] = KeyOf(i, NEW_)
    BY <1>0, <2>e, ExtendedFact
  <2>6. DOMAIN store[i] = 0 .. 3
    BY <1>3 DEF Holds, NEW_
  <2>7. /\ DOMAIN store'[i] = 0 .. 3 /\ store'[i][3] = e
        /\ \A j \in 0 .. 2 : store'[i][j] = store[i][j]
    BY <2>2, <2>6 DEF NEW_
  <2>8. Holds(i, store'[i], n)
    <3>1. ASSUME NEW j \in 0 .. NEW_ PROVE IsFiniteSet(DOMAIN store'[i][j])
      <4>1. j \in 0 .. 2 \/ j = 3
        BY DEF NEW_
      <4> QED
        BY <1>3, <2>5, <2>7, <4>1 DEF Holds, NEW_
    <3>2. ASSUME NEW j \in Full PROVE store'[i][j] = store[i][j]
      BY <2>7 DEF Full, OLDEST, OLDER, OLD
    <3> QED
      BY <1>3, <2>7, <3>1, <3>2 DEF Holds, NEW_
  <2>9. Opens(row, store'[i])
    <3>1. ASSUME NEW j \in 0 .. NEW_, NEW a \in DOMAIN store'[i][j] PROVE a[1] = row[j]
      <4>1. CASE j = 3
        <5>1. row[3] = KeyOf(i, NEW_)
          BY <1>k DEF KeyRow, KeyOf, NEW_
        <5> QED
          BY <2>5, <2>7, <3>1, <4>1, <5>1
      <4>2. CASE j # 3
        <5>1. j \in 0 .. 2
          BY <4>2 DEF NEW_
        <5> QED
          BY <1>3, <1>k, <2>7, <3>1, <5>1 DEF Opens
      <4> QED
        BY <4>1, <4>2
    <3> QED
      BY <1>3, <1>k, <3>1 DEF Opens
  <2>10. LevelInv(i)'
    <3>1. Size(store'[i][NEW_]) = Rest(i, updateCounter + 1)
      BY <2>4, <2>5, <2>7 DEF NEW_
    <3>2. cnt'[i] = Rest(i, updateCounter + 1)
      BY <1>3, <2>3, <2>4
    <3> QED
      BY <1>2, <1>3, <1>4, <1>n, <2>8, <2>9, <3>1, <3>2, LevelNext
  <2>11. \A j \in Full : store'[i][j] = store[i][j]
    BY <2>7 DEF Full, OLDEST, OLDER, OLD
  <2> QED
    BY <1>4, <1>6, <2>7, <2>10, <2>11, <2>e DEF NEW_
<1> QED
  BY <1>5, <1>6

\* The flags of a level with one more set.
LEMMA MarkSet ==
    ASSUME NEW n \in 0 .. 2, NEW flags, Marked(flags, n)
    PROVE  Marked([flags EXCEPT ![n] = TRUE], n + 1)
<1>1. DOMAIN flags = 0 .. 3
  BY DEF Marked, NEW_
<1>r. PICK res : res = [flags EXCEPT ![n] = TRUE]
  OBVIOUS
<1>2. DOMAIN res = 0 .. 3 /\ res[n] = TRUE /\ \A j \in 0 .. 3 : j # n => res[j] = flags[j]
  <2>1. PICK yes : yes = TRUE
    OBVIOUS
  <2>2. res = [flags EXCEPT ![n] = yes]
    BY <1>r, <2>1, Zenon
  <2>3. DOMAIN res = 0 .. 3 /\ res[n] = yes /\ \A j \in 0 .. 3 : j # n => res[j] = flags[j]
    BY <1>1, <2>2
  <2> QED
    BY <2>1, <2>3, Zenon
<1>3. ASSUME NEW j \in Full
      PROVE  IF j < n + 1 THEN res[j] = TRUE ELSE res[j] = FALSE
  <2>1. j \in 0 .. 2
    BY DEF Full, OLDEST, OLDER, OLD
  <2>2. CASE j = n
    BY <1>2, <2>1, <2>2
  <2>3. CASE j # n
    <3>1. j < n + 1 <=> j < n
      BY <2>1, <2>3
    <3>2. res[j] = flags[j]
      BY <1>2, <2>1, <2>3
    <3>3. IF j < n THEN flags[j] = TRUE ELSE flags[j] = FALSE
      BY DEF Marked
    <3> QED
      BY <3>1, <3>2, <3>3
  <2> QED
    BY <2>2, <2>3
<1>4. Marked(res, n + 1)
  BY <1>2, <1>3 DEF Marked, NEW_
<1> QED
  BY <1>r, <1>4

\* A level whose merge ends.
LEMMA LevelEnds ==
    ASSUME Updated, NEW i \in Level \ {0}, Ends(i, updateCounter)
    PROVE  /\ LevelInv(i)'
           /\ store'[i][NEW_] = Empty
           /\ store'[i][Left(i, updateCounter)] = Extended(i, updateCounter + 1)
           /\ \A j \in Full : j # Left(i, updateCounter) =>
                 store'[i][j] = ReleasedStore(i, Done(updateCounter + 1))[j]
<1>0. /\ DInv /\ updateCounter \in Nat /\ updateCounter + 1 <= MaxUpdates
      /\ LevelInv(i) /\ Started(i, updateCounter)
  BY Numbers DEF Updated, DInv, Ends
<1>d. PICK d : d = Done(updateCounter + 1)
  OBVIOUS
<1>c. PICK c : Update(c)
  BY DEF Updated, SetupUpdate, LiveUpdate
<1>1. i \in d
  BY <1>0, <1>d, DoneFact
<1>n. PICK n \in 0 .. 2 : /\ n = Left(i, updateCounter)
                          /\ SetCount(i, updateCounter + 1) = n + 1
  BY <1>0, LeftFact
<1>t. Target(i, d) = n /\ n # NEW_
  BY <1>0, <1>d, <1>n, TargetFact DEF NEW_
<1>r. PICK rel, row : rel = ReleasedStore(i, d) /\ row = ReleasedKeys(i, d)
  OBVIOUS
<1>2. /\ Holds(i, rel, n) /\ Opens(row, rel) /\ row[NEW_] = KeyOf(i, NEW_)
      /\ i \in Remote => Marked(ReleasedExist(i, d), n)
  BY <1>0, <1>d, <1>n, <1>r, ReleasedFact
<1>e. PICK e : e = Extended(i, updateCounter + 1)
  OBVIOUS
<1>3. /\ IsFiniteSet(DOMAIN e) /\ Size(e) = 2 ^ i
      /\ \A a \in DOMAIN e : a[1] = KeyOf(i, NEW_)
  BY <1>0, <1>e, ExtendedFact DEF Ends
<1>4. store'[i] = [[rel EXCEPT ![NEW_] = Empty] EXCEPT ![n] = e]
  BY <1>1, <1>c, <1>d, <1>e, <1>r, <1>t DEF Update, StoreAfter
<1>5. Holds(i, store'[i], SetCount(i, updateCounter + 1))
  <2>1. Holds(i, [[rel EXCEPT ![NEW_] = Empty] EXCEPT ![n] = e], n + 1)
    BY <1>2, <1>3, FileSet
  <2> QED
    BY <1>4, <1>n, <2>1
<1>6. DOMAIN rel = 0 .. 3 /\ DOMAIN row = 0 .. 3
  BY <1>2 DEF Holds, Opens, NEW_
<1>7. /\ store'[i][n] = e /\ store'[i][3] = Empty
      /\ \A j \in 0 .. 2 : j # n => store'[i][j] = rel[j]
  BY <1>4, <1>6 DEF NEW_
<1>8. i \in Remote => Marked(exist'[i], SetCount(i, updateCounter + 1))
  <2> SUFFICES ASSUME i \in Remote PROVE Marked(exist'[i], SetCount(i, updateCounter + 1))
    OBVIOUS
  <2>1. PICK flags : flags = ReleasedExist(i, d)
    OBVIOUS
  <2>2. exist'[i] = [flags EXCEPT ![n] = TRUE]
    BY <1>1, <1>c, <1>d, <1>t, <2>1 DEF Update, ExistAfter
  <2> QED
    BY <1>2, <1>n, <2>1, <2>2, MarkSet
<1>k. PICK next : next = IF i \in Client THEN [j \in 0 .. NEW_ |-> Local] ELSE keys'[i]
  OBVIOUS
<1>9. /\ DOMAIN next = 0 .. 3 /\ next[n] = KeyOf(i, NEW_)
      /\ \A j \in 0 .. 2 : j # n => next[j] = row[j]
  <2>1. CASE i \in Client
    BY <1>k, <1>r, <2>1 DEF ReleasedKeys, KeyOf, NEW_
  <2>2. CASE i \notin Client
    <3>1. i \in Remote
      BY <2>2, Numbers
    <3>2. keys'[i] = [row EXCEPT ![n] = keys[i][NEW_], ![NEW_] = updateCounter + 1]
      BY <1>1, <1>c, <1>d, <1>r, <1>t, <2>2, <3>1 DEF Update, KeysAfter, ReleasedKeys
    <3>3. KeyOf(i, NEW_) = keys[i][NEW_]
      BY <2>2 DEF KeyOf
    <3> QED
      BY <1>6, <1>k, <2>2, <3>2, <3>3 DEF NEW_
  <2> QED
    BY <2>1, <2>2
<1>10. Opens(next, store'[i])
  <2>1. ASSUME NEW j \in 0 .. NEW_, NEW a \in DOMAIN store'[i][j] PROVE a[1] = next[j]
    <3>1. j \in 0 .. 2 \/ j = 3
      BY DEF NEW_
    <3>2. CASE j = n
      BY <1>3, <1>7, <1>9, <2>1, <3>2
    <3>3. CASE j \in 0 .. 2 /\ j # n
      <4>1. a \in DOMAIN rel[j] /\ next[j] = row[j]
        BY <1>7, <1>9, <2>1, <3>3
      <4> QED
        BY <1>2, <4>1 DEF Opens
    <3>4. CASE j = 3
      BY <1>7, <2>1, <3>4, EmptyFact
    <3> QED
      BY <3>1, <3>2, <3>3, <3>4
  <2> QED
    BY <1>9, <2>1 DEF Opens, NEW_
<1>11. cnt'[i] = 0
  BY <1>1, <1>c, <1>d DEF Update
<1>12. Rest(i, updateCounter + 1) = 0
  BY <1>0, Tick
<1>13. Size(store'[i][NEW_]) = 0
  BY <1>7, EmptyFact DEF NEW_
<1>14. LevelInv(i)'
  BY <1>5, <1>8, <1>10, <1>11, <1>12, <1>13, <1>k, LevelNext
<1>15. \A j \in Full : j # n => store'[i][j] = rel[j]
  BY <1>7 DEF Full, OLDEST, OLDER, OLD
<1> QED
  BY <1>7, <1>14, <1>15, <1>d, <1>e, <1>n, <1>r DEF NEW_

LEMMA LevelStep ==
    ASSUME Updated, NEW i \in Level
    PROVE  LevelInv(i)'
<1>1. PICK c : Update(c)
  BY DEF Updated, SetupUpdate, LiveUpdate
<1> QED
  BY <1>1, LevelZero, LevelGoesOn, LevelEnds

-----------------------------------------------------------------------------
(* The counter records after an update.                                    *)

\* The records that the next move can see are not of later merges, and those
\* of an oblivious map in use are of the current one.
LEMMA BaseFact ==
    ASSUME DInv, NEW i \in Level \ {0}
    PROVE  /\ \A k \in DOMAIN Base(i) :
                 k[2] \in Int /\ k[2] <= Finished(i, updateCounter) + 1
           /\ i \in Remote /\ phase = "live" =>
                 \A k \in DOMAIN Base(i) : k[2] = Finished(i, updateCounter) + 1
           /\ CounterMap(i) = Empty => Base(i) = Empty
<1>l. CounterInv(i)
  BY DEF DInv
<1>f. PICK f \in Nat : f = Finished(i, updateCounter)
  <2>1. updateCounter \in Nat
    BY Numbers DEF DInv
  <2> QED
    BY <2>1, Clock
<1>1. Base(i) = Empty \/ Base(i) = CounterMap(i)
  BY DEF Base
<1>2. \A k \in DOMAIN Base(i) : k[2] \in Int /\ k[2] <= f + 1
  BY <1>1, <1>f, <1>l, EmptyFact DEF CounterInv
<1>3. ASSUME i \in Remote, phase = "live", NEW k \in DOMAIN Base(i)
      PROVE  k[2] = f + 1
  <2>1. i \notin Client
    BY <1>3, Numbers
  <2>2. CounterMap(i) = omaps[i] /\ dummyValue[i] = f
    BY <1>3, <1>f, <1>l, <2>1 DEF CounterMap, CounterInv
  <2>3. Base(i) = omaps[i] /\ ~Dead(omaps[i], f)
    BY <1>3, <2>2, EmptyFact DEF Base
  <2>4. PICK r \in DOMAIN omaps[i] : ~(r[2] <= f)
    BY <2>3 DEF Dead
  <2>5. k[2] = r[2]
    BY <1>3, <1>l, <2>3, <2>4 DEF CounterInv
  <2>6. PICK x \in Int : x = r[2] /\ x <= f + 1
    BY <1>2, <2>3, <2>4
  <2> QED
    BY <2>4, <2>5, <2>6
<1> QED
  BY <1>1, <1>2, <1>3, <1>f

\* The record that a move writes.
LEMMA CountedFact ==
    ASSUME DInv, NEW i \in Level \ {0}, Started(i, updateCounter), NEW k,
           k = Slot(i, updateCounter + 1)
    PROVE  /\ k = <<k[1], Finished(i, updateCounter) + 1>>
           /\ DOMAIN Counted(i, k) = DOMAIN Base(i) \cup {k}
           /\ Counted(i, k)[k] = Record(i, k[1]) + 1
           /\ \A r \in DOMAIN Base(i) : r # k => Counted(i, k)[r] = Base(i)[r]
           /\ \A r \in DOMAIN Counted(i, k) :
                 r[2] \in Int /\ r[2] <= Finished(i, updateCounter) + 1
           /\ i \in Remote /\ phase = "live" =>
                 \A r \in DOMAIN Counted(i, k) : r[2] = Finished(i, updateCounter) + 1
<1>0. updateCounter \in Nat
  BY Numbers DEF DInv
<1>f. PICK f \in Nat : f = Finished(i, updateCounter)
  BY <1>0, Clock
<1>1. upCnt(i, updateCounter + 1) = f + 1
  BY <1>0, <1>f, UpCntFact
<1>2. k = <<k[1], f + 1>>
  <2>1. PICK w : Slot(i, updateCounter + 1) = <<w, f + 1>>
    BY <1>1 DEF Slot
  <2> QED
    BY <2>1
<1>3. /\ DOMAIN Counted(i, k) = DOMAIN Base(i) \cup {k}
      /\ Counted(i, k)[k] = IF k \in DOMAIN Base(i) THEN Base(i)[k] + 1 ELSE 1
      /\ \A r \in DOMAIN Base(i) : r # k => Counted(i, k)[r] = Base(i)[r]
  BY DEF Counted, Put
<1>4. Counted(i, k)[k] = Record(i, k[1]) + 1
  <2>1. Record(i, k[1]) = IF k \in DOMAIN Base(i) THEN Base(i)[k] ELSE 0
    BY <1>1, <1>2 DEF Record
  <2> QED
    BY <1>3, <2>1
<1>5. k[2] = f + 1
  BY <1>2
<1> QED
  BY <1>2, <1>3, <1>4, <1>5, <1>f, BaseFact

\* The counters of level i after an update.
LEMMA MapNext ==
    ASSUME Updated, NEW i \in Level \ {0}, NEW k, k = Slot(i, updateCounter + 1)
    PROVE  /\ ~Started(i, updateCounter) => CounterMap(i)' = CounterMap(i)
           /\ Started(i, updateCounter) /\ ~Ends(i, updateCounter) =>
                 CounterMap(i)' = Counted(i, k)
           /\ Started(i, updateCounter) =>
                 DOMAIN (CounterMap(i)') \subseteq DOMAIN Counted(i, k)
           /\ i \in Remote =>
                 /\ phase = "setup" =>
                       /\ setupOMAPSDummies'[i] = Finished(i, updateCounter + 1)
                       /\ omaps'[i] = omaps[i]
                 /\ phase = "live" =>
                       /\ dummyValue'[i] = Finished(i, updateCounter + 1)
                       /\ omaps'[i] = IF Started(i, updateCounter) THEN Counted(i, k)
                                                                   ELSE omaps[i]
<1>0. /\ DInv /\ updateCounter \in Nat /\ CounterInv(i)
      /\ phase' = phase /\ phase \in {"setup", "live"}
  BY Numbers DEF Updated, DInv, SetupUpdate, LiveUpdate
<1>c. PICK c : SetupUpdate(c) \/ LiveUpdate(c)
  BY DEF Updated
<1>1. Merging(i) <=> Started(i, updateCounter)
  BY <1>0, MergingFact
<1>2. i \in Done(updateCounter + 1) <=> Ends(i, updateCounter)
  BY <1>0, DoneFact
<1>3. Ends(i, updateCounter) => Started(i, updateCounter)
  BY DEF Ends
<1>4. CASE i \in Client
  <2>1. CounterMap(i) = localmap[i] /\ CounterMap(i)' = localmap'[i]
    BY <1>4 DEF CounterMap
  <2>2. localmap'[i] = LocalmapAfter(i, updateCounter + 1, Done(updateCounter + 1))
    BY <1>4, <1>c DEF SetupUpdate, LiveUpdate, Update
  <2>3. i \notin Remote
    BY <1>4, Numbers
  <2>4. CASE ~Started(i, updateCounter)
    BY <1>1, <2>1, <2>2, <2>3, <2>4 DEF LocalmapAfter
  <2>5. CASE Started(i, updateCounter) /\ ~Ends(i, updateCounter)
    BY <1>1, <1>2, <2>1, <2>2, <2>3, <2>5 DEF LocalmapAfter
  <2>6. CASE Ends(i, updateCounter)
    <3>1. DOMAIN localmap'[i] \subseteq DOMAIN localmap[i]
      BY <1>1, <1>2, <1>3, <2>2, <2>6 DEF LocalmapAfter
    <3>2. Base(i) = localmap[i]
      BY <2>1, <2>3 DEF Base
    <3>3. DOMAIN Base(i) \subseteq DOMAIN Counted(i, k)
      BY DEF Counted, Put
    <3> QED
      BY <1>3, <2>1, <2>3, <2>6, <3>1, <3>2, <3>3
  <2> QED
    BY <1>3, <2>4, <2>5, <2>6
<1>5. CASE i \in Remote
  <2>0. i \notin Client
    BY <1>5, Numbers
  <2>1. Finished(i, updateCounter + 1) = IF Ends(i, updateCounter)
                                         THEN upCnt(i, updateCounter + 1)
                                         ELSE Finished(i, updateCounter)
    <3>1. CASE Ends(i, updateCounter)
      BY <1>0, <1>3, <3>1, Tick, UpCntFact
    <3>2. CASE ~Ends(i, updateCounter)
      BY <1>0, <3>2, Tick
    <3> QED
      BY <3>1, <3>2
  <2>2. CASE SetupUpdate(c)
    <3>1. phase = "setup" /\ phase # "live" /\ phase' = "setup"
      BY <1>0, <2>2 DEF SetupUpdate
    <3>2. CounterMap(i) = setupOMAPS[i] /\ CounterMap(i)' = setupOMAPS'[i]
      BY <2>0, <3>1 DEF CounterMap
    <3>3. setupOMAPS'[i] = IF Started(i, updateCounter) THEN Counted(i, k) ELSE setupOMAPS[i]
      BY <1>1, <1>5, <2>2 DEF SetupUpdate, CounterMapsAfter
    <3>4. setupOMAPSDummies'[i] = IF Ends(i, updateCounter) THEN upCnt(i, updateCounter + 1)
                                                             ELSE setupOMAPSDummies[i]
      BY <1>2, <1>5, <2>2 DEF SetupUpdate, DummiesAfter
    <3>5. setupOMAPSDummies[i] = Finished(i, updateCounter)
      BY <1>0, <1>5, <3>1 DEF CounterInv
    <3>6. omaps'[i] = omaps[i]
      BY <2>2 DEF SetupUpdate
    <3> QED
      BY <1>5, <2>1, <3>1, <3>2, <3>3, <3>4, <3>5, <3>6
  <2>3. CASE LiveUpdate(c)
    <3>1. phase = "live" /\ phase # "setup" /\ phase' = "live"
      BY <1>0, <2>3 DEF LiveUpdate
    <3>2. CounterMap(i) = omaps[i] /\ CounterMap(i)' = omaps'[i]
      BY <2>0, <3>1 DEF CounterMap
    <3>3. omaps'[i] = IF Started(i, updateCounter) THEN Counted(i, k) ELSE omaps[i]
      BY <1>1, <1>5, <2>3 DEF LiveUpdate, CounterMapsAfter
    <3>4. dummyValue'[i] = IF Ends(i, updateCounter) THEN upCnt(i, updateCounter + 1)
                                                      ELSE dummyValue[i]
      BY <1>2, <1>5, <2>3 DEF LiveUpdate, DummiesAfter
    <3>5. dummyValue[i] = Finished(i, updateCounter)
      BY <1>0, <1>5, <3>1 DEF CounterInv
    <3> QED
      BY <1>5, <2>1, <3>1, <3>2, <3>3, <3>4, <3>5
  <2> QED
    BY <1>c, <2>2, <2>3
<1> QED
  BY <1>4, <1>5, Numbers

\* An update keeps the counts exact.
LEMMA NumberedStep ==
    ASSUME Updated, NEW i \in Level \ {0}, NEW w
    PROVE  Numbered(i, w)'
<1>0. /\ DInv /\ updateCounter \in Nat /\ updateCounter' = updateCounter + 1
      /\ CounterInv(i) /\ phase' = phase
  BY Numbers DEF Updated, DInv, SetupUpdate, LiveUpdate, Update
<1>f. PICK f \in Nat : f = Finished(i, updateCounter)
  BY <1>0, Clock
<1>k. PICK k : k = Slot(i, updateCounter + 1)
  OBVIOUS
<1>1. CASE ~Started(i, updateCounter)
  <2>1. CounterMap(i) = Empty
    BY <1>0, <1>1 DEF CounterInv
  <2>2. CounterMap(i)' = Empty
    BY <1>1, <1>k, <2>1, MapNext
  <2>3. Base(i)' = Empty
    BY <2>2 DEF Base
  <2>4. ~Ends(i, updateCounter)
    BY <1>1 DEF Ends
  <2>5. store'[i][NEW_] = store[i][NEW_]
    BY <1>1, <2>4, LevelGoesOn
  <2>6. DOMAIN store[i][NEW_] = {}
    <3>1. Rest(i, updateCounter) = 0
      BY <1>1 DEF Rest
    <3>2. LevelInv(i)
      BY <1>0 DEF DInv
    <3>3. IsFiniteSet(DOMAIN store[i][NEW_]) /\ Cardinality(DOMAIN store[i][NEW_]) = 0
      BY <3>1, <3>2 DEF LevelInv, Holds, NEW_, Size
    <3> QED
      BY <3>3, FS_EmptySet
  <2>7. Record(i, w)' = 0
    BY <2>3, EmptyFact DEF Record
  <2>8. Filed(store'[i][NEW_], w) = {}
    BY <2>5, <2>6 DEF Filed
  <2> QED
    BY <2>7, <2>8 DEF Numbered
<1>2. CASE Ends(i, updateCounter)
  <2>1. Started(i, updateCounter)
    BY <1>2 DEF Ends
  <2>2. upCnt(i, (updateCounter + 1) + 1) = f + 2
    <3>1. Started(i, updateCounter + 1) /\ Finished(i, updateCounter + 1) = f + 1
      BY <1>0, <1>2, <1>f, <2>1, Tick
    <3>2. updateCounter + 1 \in Nat
      BY <1>0
    <3> QED
      BY <3>1, <3>2, UpCntFact
  <2>3. \A r \in DOMAIN (CounterMap(i)') : r[2] \in Int /\ r[2] <= f + 1
    <3>1. \A r \in DOMAIN Counted(i, k) : r[2] \in Int /\ r[2] <= f + 1
      BY <1>0, <1>f, <1>k, <2>1, CountedFact
    <3>2. DOMAIN (CounterMap(i)') \subseteq DOMAIN Counted(i, k)
      BY <1>k, <2>1, MapNext
    <3> QED
      BY <3>1, <3>2
  <2>4. Base(i)' = Empty \/ Base(i)' = CounterMap(i)'
    BY DEF Base
  <2>5. <<w, f + 2>> \notin DOMAIN (Base(i)')
    BY <2>3, <2>4, EmptyFact
  <2>6. Record(i, w)' = 0
    BY <1>0, <2>2, <2>5 DEF Record
  <2>7. Filed(store'[i][NEW_], w) = {}
    BY <1>2, LevelEnds, EmptyFact DEF Filed
  <2> QED
    BY <2>6, <2>7 DEF Numbered
<1>3. CASE Started(i, updateCounter) /\ ~Ends(i, updateCounter)
  <2>1. upCnt(i, updateCounter + 1) = f + 1 /\ upCnt(i, (updateCounter + 1) + 1) = f + 1
    <3>1. Started(i, updateCounter + 1) /\ Finished(i, updateCounter + 1) = f
      BY <1>0, <1>3, <1>f, Tick
    <3>2. updateCounter + 1 \in Nat
      BY <1>0
    <3> QED
      BY <1>0, <1>3, <1>f, <3>1, <3>2, UpCntFact
  <2>2. /\ k = <<k[1], f + 1>>
        /\ DOMAIN Counted(i, k) = DOMAIN Base(i) \cup {k}
        /\ Counted(i, k)[k] = Record(i, k[1]) + 1
        /\ \A r \in DOMAIN Base(i) : r # k => Counted(i, k)[r] = Base(i)[r]
    BY <1>0, <1>3, <1>f, <1>k, CountedFact
  <2>3. Base(i)' = Counted(i, k)
    <3>1. CounterMap(i)' = Counted(i, k)
      BY <1>3, <1>k, MapNext
    <3>2. CASE i \in Remote /\ phase = "live"
      <4>1. omaps'[i] = Counted(i, k) /\ dummyValue'[i] = f
        BY <1>0, <1>3, <1>f, <1>k, <3>2, MapNext, Tick
      <4>2. ~Dead(omaps'[i], f)
        <5>1. k \in DOMAIN omaps'[i] /\ k[2] = f + 1
          BY <2>2, <4>1
        <5> QED
          BY <5>1 DEF Dead
      <4> QED
        BY <3>1, <4>1, <4>2 DEF Base
    <3>3. CASE ~(i \in Remote /\ phase = "live")
      BY <1>0, <3>1, <3>3 DEF Base
    <3> QED
      BY <3>2, <3>3
  <2>4. Record(i, w)' = IF <<w, f + 1>> \in DOMAIN Counted(i, k)
                        THEN Counted(i, k)[<<w, f + 1>>] ELSE 0
    BY <1>0, <2>1, <2>3 DEF Record
  <2>5. Record(i, w) = IF <<w, f + 1>> \in DOMAIN Base(i) THEN Base(i)[<<w, f + 1>>] ELSE 0
    BY <2>1 DEF Record
  <2>6. Numbered(i, w)
    BY <1>0 DEF CounterInv
  <2>n. PICK n \in Nat : n = Record(i, w)
    BY <2>6 DEF Numbered
  <2>y. PICK y : y = KeyOf(i, NEW_) /\ y = KeyOf(i, NEW_)'
    BY <1>3, LevelGoesOn
  <2>a. PICK a : a = Added(i) /\ a = <<y, k[1], Record(i, k[1]) + 1>>
    BY <1>k, <2>y DEF Added
  <2>7. DOMAIN store'[i][NEW_] = DOMAIN store[i][NEW_] \cup {a}
    BY <1>0, <1>3, <2>a, LevelGoesOn, ExtendedFact
  <2>8. Filed(store[i][NEW_], w) = {<<y, w, p>> : p \in 1 .. n}
    BY <2>6, <2>n, <2>y DEF Numbered
  <2>9. CASE w = k[1]
    <3>1. Record(i, w)' = n + 1
      BY <2>2, <2>4, <2>9, <2>n
    <3>2. Filed(store'[i][NEW_], w) = Filed(store[i][NEW_], w) \cup {<<y, w, n + 1>>}
      <4>1. a = <<y, w, n + 1>>
        BY <2>9, <2>a, <2>n
      <4> QED
        BY <2>7, <4>1 DEF Filed
    <3>3. {<<y, w, p>> : p \in 1 .. n + 1} = {<<y, w, p>> : p \in 1 .. n} \cup {<<y, w, n + 1>>}
      <4>1. 1 .. n + 1 = (1 .. n) \cup {n + 1}
        OBVIOUS
      <4> QED
        BY <4>1
    <3>4. n + 1 \in Nat
      OBVIOUS
    <3> QED
      BY <2>8, <2>y, <3>1, <3>2, <3>3, <3>4 DEF Numbered
  <2>10. CASE w # k[1]
    <3>1. <<w, f + 1>> # k
      BY <2>10, <2>2
    <3>2. Record(i, w)' = n
      BY <2>2, <2>4, <2>5, <2>n, <3>1
    <3>3. Filed(store'[i][NEW_], w) = Filed(store[i][NEW_], w)
      <4>1. a[2] # w
        BY <2>10, <2>a
      <4> QED
        BY <2>7, <4>1 DEF Filed
    <3> QED
      BY <2>8, <2>y, <3>2, <3>3 DEF Numbered
  <2> QED
    BY <2>9, <2>10
<1> QED
  BY <1>1, <1>2, <1>3

LEMMA CounterStep ==
    ASSUME Updated, NEW i \in Level \ {0}
    PROVE  CounterInv(i)'
<1>0. /\ DInv /\ updateCounter \in Nat /\ updateCounter' = updateCounter + 1
      /\ CounterInv(i) /\ phase' = phase /\ phase \in {"setup", "live"}
  BY Numbers DEF Updated, DInv, SetupUpdate, LiveUpdate, Update
<1>f. PICK f \in Nat, g \in Nat : /\ f = Finished(i, updateCounter)
                                  /\ g = Finished(i, updateCounter + 1) /\ f <= g
  <2>1. updateCounter + 1 \in Nat
    BY <1>0
  <2>2. Finished(i, updateCounter) \in Nat /\ Finished(i, updateCounter + 1) \in Nat
    BY <1>0, <2>1, Clock
  <2>3. CASE Ends(i, updateCounter)
    BY <1>0, <2>2, <2>3, Tick
  <2>4. CASE ~Ends(i, updateCounter)
    BY <1>0, <2>2, <2>4, Tick
  <2> QED
    BY <2>3, <2>4
<1>k. PICK k : k = Slot(i, updateCounter + 1)
  OBVIOUS
<1>1. ~Started(i, updateCounter + 1) => CounterMap(i)' = Empty
  <2> SUFFICES ASSUME ~Started(i, updateCounter + 1) PROVE CounterMap(i)' = Empty
    OBVIOUS
  <2>1. ~Started(i, updateCounter)
    BY <1>0, Tick
  <2>2. CounterMap(i) = Empty
    BY <1>0, <2>1 DEF CounterInv
  <2> QED
    BY <1>k, <2>1, <2>2, MapNext
<1>2. \A r \in DOMAIN (CounterMap(i)') : r[2] \in Int /\ r[2] <= g + 1
  <2>1. \A r \in DOMAIN (CounterMap(i)') : r[2] \in Int /\ r[2] <= f + 1
    <3>1. CASE Started(i, updateCounter)
      <4>1. \A r \in DOMAIN Counted(i, k) : r[2] \in Int /\ r[2] <= f + 1
        BY <1>0, <1>f, <1>k, <3>1, CountedFact
      <4>2. DOMAIN (CounterMap(i)') \subseteq DOMAIN Counted(i, k)
        BY <1>k, <3>1, MapNext
      <4> QED
        BY <4>1, <4>2
    <3>2. CASE ~Started(i, updateCounter)
      BY <1>0, <1>f, <1>k, <3>2, MapNext DEF CounterInv
    <3> QED
      BY <3>1, <3>2
  <2> QED
    BY <1>f, <2>1
<1>3. ASSUME i \in Remote
      PROVE  /\ phase = "setup" => setupOMAPSDummies'[i] = g /\ omaps'[i] = Empty
             /\ phase = "live" => dummyValue'[i] = g
             /\ \A q, r \in DOMAIN omaps'[i] : q[2] = r[2]
  <2>1. CASE phase = "setup"
    <3>1. setupOMAPSDummies'[i] = g /\ omaps'[i] = omaps[i]
      BY <1>3, <1>f, <1>k, <2>1, MapNext
    <3>2. omaps[i] = Empty
      BY <1>0, <1>3, <2>1 DEF CounterInv
    <3>3. phase # "live"
      BY <2>1
    <3> QED
      BY <3>1, <3>2, <3>3, EmptyFact
  <2>2. CASE phase = "live"
    <3>1. /\ dummyValue'[i] = g
          /\ omaps'[i] = IF Started(i, updateCounter) THEN Counted(i, k) ELSE omaps[i]
      BY <1>3, <1>f, <1>k, <2>2, MapNext
    <3>2. \A q, r \in DOMAIN omaps[i] : q[2] = r[2]
      BY <1>0, <1>3 DEF CounterInv
    <3>3. Started(i, updateCounter) => \A r \in DOMAIN Counted(i, k) : r[2] = f + 1
      <4> SUFFICES ASSUME Started(i, updateCounter)
                   PROVE  \A r \in DOMAIN Counted(i, k) : r[2] = f + 1
        OBVIOUS
      <4>1. i \in Remote /\ phase = "live" =>
               \A r \in DOMAIN Counted(i, k) : r[2] = Finished(i, updateCounter) + 1
        BY <1>0, <1>k, CountedFact
      <4> QED
        BY <1>3, <1>f, <2>2, <4>1
    <3>4. phase # "setup"
      BY <2>2
    <3> QED
      BY <3>1, <3>2, <3>3, <3>4
  <2> QED
    BY <1>0, <2>1, <2>2
<1>4. \A w : Numbered(i, w)'
  BY NumberedStep
<1> QED
  BY <1>0, <1>1, <1>2, <1>3, <1>4, <1>f DEF CounterInv

-----------------------------------------------------------------------------
(* The invariant.                                                          *)

LEMMA UpdateStep ==
    ASSUME Updated
    PROVE  DInv'
<1>0. /\ DInv /\ updateCounter' = updateCounter + 1 /\ phase' = phase
      /\ updateCounter + 1 <= MaxUpdates
  BY DEF Updated, SetupUpdate, LiveUpdate, Update
<1>1. updateCounter' \in 0 .. MaxUpdates /\ phase' \in {"setup", "live"}
  BY <1>0, Numbers DEF DInv
<1>2. \A i \in Level : LevelInv(i)'
  BY LevelStep
<1>3. \A i \in Level \ {0} : CounterInv(i)'
  BY CounterStep
<1> QED
  BY <1>1, <1>2, <1>3 DEF DInv

\* What the levels are made of.
levelVars == <<updateCounter, store, exist, keys, cnt>>

LEMMA LevelSame ==
    ASSUME DInv, UNCHANGED levelVars, NEW i \in Level
    PROVE  LevelInv(i)'
<1>1. LevelInv(i)
  BY DEF DInv
<1> QED
  BY <1>1 DEF LevelInv, KeyRow, levelVars

\* The end of the setup phase takes over the records of the current merge.
LEMMA EndSetupStep ==
    ASSUME DInv, EndSetup
    PROVE  DInv'
<1>0. /\ UNCHANGED levelVars /\ phase = "setup" /\ phase' = "live"
      /\ updateCounter' = updateCounter /\ localmap' = localmap
      /\ updateCounter \in Nat
  BY Numbers DEF EndSetup, levelVars, DInv
<1>1. ASSUME NEW i \in Level \ {0} PROVE CounterInv(i)'
  <2>0. CounterInv(i)
    BY DEF DInv
  <2>f. PICK f \in Nat : f = Finished(i, updateCounter)
    BY <1>0, Clock
  <2>1. CASE i \in Client
    <3>1. i \notin Remote
      BY <2>1, Numbers
    <3>2. CounterMap(i)' = CounterMap(i) /\ Base(i)' = Base(i) /\ Base(i) = localmap[i]
      BY <1>0, <2>1, <3>1 DEF CounterMap, Base
    <3>3. \A w : Record(i, w)' = Record(i, w)
      BY <1>0, <3>2 DEF Record
    <3>4. KeyOf(i, NEW_)' = KeyOf(i, NEW_) /\ store' = store
      BY <2>1 DEF KeyOf, EndSetup
    <3>5. \A w : Numbered(i, w)'
      BY <2>0, <3>3, <3>4 DEF CounterInv, Numbered
    <3> QED
      BY <1>0, <2>0, <3>1, <3>2, <3>5 DEF CounterInv
  <2>2. CASE i \in Remote
    <3>1. i \notin Client
      BY <2>2, Numbers
    <3>2. /\ CounterMap(i) = setupOMAPS[i] /\ Base(i) = setupOMAPS[i]
          /\ CounterMap(i)' = omaps'[i]
      BY <1>0, <3>1 DEF CounterMap, Base
    <3>3. setupOMAPSDummies[i] = f
      BY <1>0, <2>0, <2>2, <2>f DEF CounterInv
    <3>4. dummyValue'[i] = f
      BY <3>3 DEF EndSetup
    <3>5. /\ DOMAIN omaps'[i] = {r \in DOMAIN setupOMAPS[i] : r[2] > f}
          /\ \A r \in DOMAIN omaps'[i] : omaps'[i][r] = setupOMAPS[i][r]
      BY <2>2, <3>3 DEF EndSetup
    <3>6. \A r \in DOMAIN omaps'[i] : r[2] \in Int /\ r[2] = f + 1
      <4>1. \A r \in DOMAIN setupOMAPS[i] : r[2] \in Int /\ r[2] <= f + 1
        BY <2>0, <2>f, <3>2 DEF CounterInv
      <4> QED
        BY <3>5, <4>1
    <3>7. ~Started(i, updateCounter) => omaps'[i] = Empty
      <4> SUFFICES ASSUME ~Started(i, updateCounter) PROVE omaps'[i] = Empty
        OBVIOUS
      <4>1. setupOMAPS[i] = Empty
        BY <2>0, <3>2 DEF CounterInv
      <4>2. DOMAIN omaps'[i] = {}
        BY <3>5, <4>1, EmptyFact
      <4>3. omaps'[i] = [r \in DOMAIN omaps'[i] |-> omaps'[i][r]]
        BY <2>2 DEF EndSetup
      <4> QED
        BY <4>2, <4>3 DEF Empty
    <3>8. Base(i)' = omaps'[i]
      <4>1. CASE DOMAIN omaps'[i] = {}
        <5>1. omaps'[i] = [r \in DOMAIN omaps'[i] |-> omaps'[i][r]]
          BY <2>2 DEF EndSetup
        <5>2. omaps'[i] = Empty
          BY <4>1, <5>1 DEF Empty
        <5> QED
          BY <3>2, <5>2 DEF Base
      <4>2. CASE DOMAIN omaps'[i] # {}
        <5>1. PICK r : r \in DOMAIN omaps'[i]
          BY <4>2
        <5>2. ~(r[2] <= f)
          BY <3>6, <5>1
        <5>3. ~Dead(omaps'[i], f)
          BY <5>1, <5>2 DEF Dead
        <5> QED
          BY <3>2, <3>4, <5>3 DEF Base
      <4> QED
        BY <4>1, <4>2
    <3>9. ASSUME NEW w PROVE Numbered(i, w)'
      <4>1. Record(i, w)' = Record(i, w)
        <5>1. /\ Record(i, w)' = IF <<w, upCnt(i, updateCounter + 1)>> \in DOMAIN omaps'[i]
                                 THEN omaps'[i][<<w, upCnt(i, updateCounter + 1)>>] ELSE 0
              /\ Record(i, w) = IF <<w, upCnt(i, updateCounter + 1)>> \in DOMAIN setupOMAPS[i]
                                THEN setupOMAPS[i][<<w, upCnt(i, updateCounter + 1)>>] ELSE 0
          BY <1>0, <3>2, <3>8 DEF Record
        <5>2. CASE Started(i, updateCounter)
          <6>1. upCnt(i, updateCounter + 1) = f + 1
            BY <1>0, <2>f, <5>2, UpCntFact
          <6>2. <<w, f + 1>> \in DOMAIN omaps'[i] <=> <<w, f + 1>> \in DOMAIN setupOMAPS[i]
            BY <3>5
          <6> QED
            BY <3>5, <5>1, <6>1, <6>2
        <5>3. CASE ~Started(i, updateCounter)
          <6>1. setupOMAPS[i] = Empty
            BY <2>0, <3>2, <5>3 DEF CounterInv
          <6> QED
            BY <3>7, <5>1, <5>3, <6>1
        <5> QED
          BY <5>2, <5>3
      <4>2. KeyOf(i, NEW_)' = KeyOf(i, NEW_) /\ store' = store
        BY DEF KeyOf, EndSetup
      <4>3. Numbered(i, w)
        BY <2>0 DEF CounterInv
      <4> QED
        BY <4>1, <4>2, <4>3 DEF Numbered
    <3>10. phase' # "setup"
      BY <1>0
    <3>11. \A r \in DOMAIN (CounterMap(i)') : r[2] \in Int /\ r[2] <= f + 1
      BY <3>2, <3>6
    <3>12. \A k, r \in DOMAIN omaps'[i] : k[2] = r[2]
      BY <3>6
    <3>13. \A w : Numbered(i, w)'
      BY <3>9
    <3> QED
      BY <1>0, <2>f, <3>2, <3>4, <3>7, <3>10, <3>11, <3>12, <3>13 DEF CounterInv
  <2> QED
    BY <2>1, <2>2, Numbers
<1>2. \A i \in Level : LevelInv(i)'
  BY <1>0, LevelSame
<1> QED
  BY <1>0, <1>1, <1>2 DEF DInv

\* A search, or no step.
LEMMA SameStep ==
    ASSUME DInv, \/ UNCHANGED vars
                 \/ \E w \in Keyword : Search(w)
    PROVE  DInv'
<1>0. /\ UNCHANGED levelVars
      /\ UNCHANGED <<updateCounter, store, keys, localmap, omaps, dummyValue, setupOMAPS,
                     setupOMAPSDummies, phase>>
  BY DEF vars, Search, levelVars
<1>1. ASSUME NEW i \in Level \ {0} PROVE CounterInv(i)'
  <2>1. CounterInv(i)
    BY DEF DInv
  <2>2. CounterMap(i)' = CounterMap(i) /\ Base(i)' = Base(i) /\ KeyOf(i, NEW_)' = KeyOf(i, NEW_)
    BY <1>0 DEF CounterMap, Base, KeyOf
  <2>3. ASSUME NEW w PROVE Numbered(i, w)'
    <3>1. Record(i, w)' = Record(i, w)
      BY <1>0, <2>2 DEF Record
    <3>2. Numbered(i, w)
      BY <2>1 DEF CounterInv
    <3> QED
      BY <1>0, <2>2, <3>1, <3>2 DEF Numbered
  <2> QED
    BY <1>0, <2>1, <2>2, <2>3 DEF CounterInv
<1>2. \A i \in Level : LevelInv(i)'
  BY <1>0, LevelSame
<1> QED
  BY <1>0, <1>1, <1>2 DEF DInv

\* Nothing has been moved before the first update.
LEMMA ClockZero ==
    ASSUME NEW i \in Level
    PROVE  /\ Finished(i, 0) = 0 /\ Rest(i, 0) = 0 /\ SetCount(i, 0) = 0
           /\ i # 0 => ~Started(i, 0)
<1>p. PICK p \in Nat \ {0} : p = 2 ^ i /\ 2 ^ (i + 1) = 2 * p
  BY Numbers
<1>1. p >= 1 /\ Moves(i, 0) = 2 - 2 * p
  BY <1>p DEF Moves
<1>2. CASE Started(i, 0)
  <2>1. 2 - 2 * p >= 0
    BY <1>1, <1>2 DEF Started
  <2>2. p = 1
    BY <1>1, <2>1
  <2>3. Moves(i, 0) = 0
    BY <1>1, <2>2
  <2>4. 0 \div p = 0 /\ 0 % p = 0
    BY DivMod
  <2>5. Finished(i, 0) = 0 /\ Rest(i, 0) = 0
    BY <1>p, <2>3, <2>4 DEF Finished, Rest
  <2>6. i # 0 => p # 1
    <3> SUFFICES ASSUME i # 0 PROVE p # 1
      OBVIOUS
    <3>1. PICK b \in Level : b + 1 = i
      BY Below
    <3>2. PICK x \in Nat : x = 2 ^ b /\ 2 ^ (b + 1) = 2 * x
      BY Numbers
    <3>3. p = 2 * x
      BY <1>p, <3>1, <3>2
    <3> QED
      BY <3>3
  <2> QED
    BY <2>2, <2>5, <2>6 DEF SetCount
<1>3. CASE ~Started(i, 0)
  <2>1. Finished(i, 0) = 0 /\ Rest(i, 0) = 0
    BY <1>3 DEF Finished, Rest
  <2> QED
    BY <1>3, <2>1 DEF SetCount
<1> QED
  BY <1>2, <1>3

LEMMA InitInv ==
    ASSUME Init
    PROVE  DInv
<1>0. updateCounter = 0 /\ phase = "setup" /\ MaxUpdates \in Nat
  BY Numbers DEF Init
<1>1. ASSUME NEW i \in Level PROVE LevelInv(i)
  <2>1. /\ SetCount(i, updateCounter) = 0 /\ Rest(i, updateCounter) = 0
    BY <1>0, ClockZero
  <2>2. /\ store[i] = [j \in 0 .. NEW_ |-> Empty] /\ cnt[i] = 0
        /\ i \in Remote => exist[i] = [j \in 0 .. NEW_ |-> FALSE]
        /\ i \in Remote => DOMAIN keys[i] = 0 .. NEW_
    BY DEF Init
  <2>3. Full \subseteq 0 .. 2 /\ Full \subseteq 0 .. NEW_ /\ NEW_ \in 0 .. NEW_
    BY DEF Full, OLDEST, OLDER, OLD, NEW_
  <2>4. Holds(i, store[i], 0)
    <3>1. \A j \in 0 .. NEW_ : store[i][j] = Empty
      BY <2>2, Zenon
    <3>2. \A j \in 0 .. NEW_ : IsFiniteSet(DOMAIN store[i][j])
      BY <3>1, EmptyFact
    <3>3. \A j \in Full : ~(j < 0) /\ store[i][j] = Empty
      BY <2>3, <3>1
    <3> QED
      BY <2>2, <3>2, <3>3 DEF Holds
  <2>5. i \in Remote => Marked(exist[i], 0)
    <3> SUFFICES ASSUME i \in Remote PROVE Marked(exist[i], 0)
      OBVIOUS
    <3>1. exist[i] = [j \in 0 .. NEW_ |-> FALSE]
      BY <2>2
    <3>2. DOMAIN exist[i] = 0 .. NEW_
      BY <3>1
    <3>3. \A j \in Full : exist[i][j] = FALSE
      BY <2>3, <3>1, Zenon
    <3>4. \A j \in Full : ~(j < 0)
      BY <2>3
    <3> QED
      BY <3>2, <3>3, <3>4 DEF Marked
  <2>6. Opens(KeyRow(i), store[i])
    <3>1. DOMAIN KeyRow(i) = 0 .. NEW_
      BY <2>2, Numbers DEF KeyRow
    <3>2. \A j \in 0 .. NEW_ : DOMAIN store[i][j] = {}
      BY <2>2, EmptyFact
    <3> QED
      BY <3>1, <3>2 DEF Opens
  <2>7. Size(store[i][NEW_]) = 0
    <3>1. store[i][NEW_] = Empty
      BY <2>2, <2>3
    <3> QED
      BY <3>1, EmptyFact
  <2> QED
    BY <2>1, <2>2, <2>4, <2>5, <2>6, <2>7 DEF LevelInv
<1>2. ASSUME NEW i \in Level \ {0} PROVE CounterInv(i)
  <2>1. Finished(i, updateCounter) = 0
    BY <1>0, ClockZero
  <2>2. CounterMap(i) = Empty
    <3>1. CASE i \in Client
      BY <3>1 DEF CounterMap, Init
    <3>2. CASE i \notin Client
      <4>1. i \in Remote
        BY <3>2, Numbers
      <4> QED
        BY <1>0, <3>2, <4>1 DEF CounterMap, Init
    <3> QED
      BY <3>1, <3>2
  <2>3. Base(i) = Empty
    BY <2>2 DEF Base
  <2>4. DOMAIN store[i][NEW_] = {}
    <3>1. store[i][NEW_] = Empty
      BY DEF Init, NEW_
    <3> QED
      BY <3>1, EmptyFact
  <2>5. ASSUME NEW w PROVE Numbered(i, w)
    <3>1. Record(i, w) = 0
      BY <2>3, EmptyFact DEF Record
    <3>2. Filed(store[i][NEW_], w) = {}
      BY <2>4 DEF Filed
    <3> QED
      BY <3>1, <3>2 DEF Numbered
  <2>6. i \in Remote => setupOMAPSDummies[i] = 0 /\ omaps[i] = Empty
    BY DEF Init
  <2>7. phase # "live"
    BY <1>0
  <2> QED
    BY <2>1, <2>2, <2>5, <2>6, <2>7, EmptyFact DEF CounterInv
<1> QED
  BY <1>0, <1>1, <1>2 DEF DInv

\* In every state the levels are on schedule and their counters are exact.
LEMMA Invariance == Spec => []DInv
<1>1. Init => DInv
  BY InitInv
<1>2. DInv /\ [Next]_vars => DInv'
  <2> SUFFICES ASSUME DInv, [Next]_vars PROVE DInv'
    OBVIOUS
  <2>1. CASE \E c \in Choices : SetupUpdate(c) \/ LiveUpdate(c)
    <3>1. updateCounter + 1 <= MaxUpdates
      <4>1. updateCounter < MaxUpdates
        BY <2>1 DEF Choices
      <4> QED
        BY <4>1, Numbers DEF DInv
    <3>2. Updated
      BY <2>1, <3>1 DEF Updated
    <3> QED
      BY <3>2, UpdateStep
  <2>2. CASE \E w \in Keyword : Search(w)
    BY <2>2, SameStep
  <2>3. CASE EndSetup
    BY <2>3, EndSetupStep
  <2>4. CASE UNCHANGED vars
    BY <2>4, SameStep
  <2> QED
    BY <2>1, <2>2, <2>3, <2>4 DEF Next
<1> QED
  BY <1>1, <1>2, PTL DEF Spec

-----------------------------------------------------------------------------
(* What the searches and merges rely on.                                   *)

\* The merges run to the timetable that DeAmortized::update computes upCnt
\* from, whatever is inserted and wherever the setup ends.
THEOREM ScheduleKept == Spec => []OnSchedule
<1>1. DInv => OnSchedule
  <2> SUFFICES ASSUME DInv, NEW i \in Level \ {0}
               PROVE  cnt[i] = IF updateCounter < 2 ^ (i + 1) - 1 THEN 0
                               ELSE (updateCounter - (2 ^ (i + 1) - 2)) % 2 ^ i
    BY DEF OnSchedule
  <2>1. cnt[i] = Rest(i, updateCounter) /\ updateCounter \in Nat
    BY Numbers DEF DInv, LevelInv
  <2>p. PICK p \in Nat \ {0} : p = 2 ^ i /\ 2 ^ (i + 1) = 2 * p
    BY Numbers
  <2>2. Moves(i, updateCounter) = updateCounter - (2 * p - 2)
    BY <2>p DEF Moves
  <2>3. CASE updateCounter < 2 * p - 2
    <3>1. ~Started(i, updateCounter)
      BY <2>1, <2>2, <2>3 DEF Started
    <3>2. updateCounter < 2 * p - 1
      BY <2>1, <2>3
    <3> QED
      BY <2>1, <2>p, <3>1, <3>2 DEF Rest
  <2>4. CASE updateCounter = 2 * p - 2
    <3>1. Moves(i, updateCounter) = 0
      BY <2>2, <2>4
    <3>2. 0 % p = 0
      BY DivMod
    <3>3. Rest(i, updateCounter) = 0
      BY <2>p, <3>1, <3>2 DEF Rest
    <3>4. updateCounter < 2 * p - 1
      BY <2>4
    <3> QED
      BY <2>1, <2>p, <3>3, <3>4
  <2>5. CASE updateCounter > 2 * p - 2
    <3>1. Started(i, updateCounter) /\ ~(updateCounter < 2 * p - 1)
      BY <2>1, <2>2, <2>5 DEF Started
    <3> QED
      BY <2>1, <2>2, <2>p, <3>1 DEF Rest
  <2> QED
    BY <2>1, <2>3, <2>4, <2>5
<1> QED
  BY <1>1, Invariance, PTL

\* getElementAt and L->get stay inside their maps, and a finished merge finds
\* a free instance: the sets that are read are whole, and NEW is never full
\* between two updates.
THEOREM SetsStayWhole == Spec => []SetsWhole
<1>1. DInv => SetsWhole
  <2> SUFFICES ASSUME DInv, NEW i \in Level
               PROVE  /\ \A j \in Full : Size(store[i][j]) \in {0, 2 ^ i}
                      /\ \A j \in {OLDEST, OLDER} : ~Filled(i, j) => ~Filled(i, j + 1)
                      /\ Size(store[i][NEW_]) = cnt[i] /\ cnt[i] < 2 ^ i
    BY DEF SetsWhole
  <2>1. LevelInv(i) /\ updateCounter \in Nat /\ updateCounter <= MaxUpdates
    BY Numbers DEF DInv
  <2>2. ASSUME NEW j \in Full PROVE Size(store[i][j]) \in {0, 2 ^ i}
    <3>1. IF j < SetCount(i, updateCounter) THEN Size(store[i][j]) = 2 ^ i
                                            ELSE store[i][j] = Empty
      BY <2>1 DEF LevelInv, Holds
    <3> QED
      BY <3>1, EmptyFact
  <2>3. ASSUME NEW j \in {OLDEST, OLDER} PROVE ~Filled(i, j) => ~Filled(i, j + 1)
    <3>1. j \in Full /\ j + 1 \in Full /\ j \in Nat
      BY DEF Full, OLDEST, OLDER, OLD
    <3>2. PICK s \in 0 .. 3 : s = SetCount(i, updateCounter)
      BY <2>1, SetCountFact
    <3>3. Filled(i, j) <=> j < s
      BY <2>1, <3>1, <3>2, FilledFact
    <3>4. Filled(i, j + 1) <=> j + 1 < s
      BY <2>1, <3>1, <3>2, FilledFact
    <3> QED
      BY <3>1, <3>3, <3>4
  <2>4. Rest(i, updateCounter) \in 0 .. 2 ^ i - 1 /\ 2 ^ i \in Nat
    BY <2>1, Clock, Numbers
  <2>5. Size(store[i][NEW_]) = cnt[i] /\ cnt[i] < 2 ^ i
    BY <2>1, <2>4 DEF LevelInv
  <2> QED
    BY <2>2, <2>3, <2>5
<1> QED
  BY <1>1, Invariance, PTL

\* The client can open every set of the server with the key it holds for it,
\* and exist is up to date.
THEOREM KeysFollow == Spec => []KeysFollowSets
<1>1. DInv => KeysFollowSets
  <2> SUFFICES ASSUME DInv, NEW i \in Remote, NEW j \in 0 .. NEW_
               PROVE  /\ \A a \in DOMAIN store[i][j] : a[1] = keys[i][j]
                      /\ j \in Full => (exist[i][j] <=> store[i][j] # Empty)
    BY DEF KeysFollowSets
  <2>1. i \in Level /\ i \notin Client
    BY Numbers
  <2>2. LevelInv(i)
    BY <2>1 DEF DInv
  <2>3. \A a \in DOMAIN store[i][j] : a[1] = keys[i][j]
    BY <2>1, <2>2 DEF LevelInv, Opens, KeyRow
  <2>4. ASSUME j \in Full PROVE exist[i][j] <=> store[i][j] # Empty
    <3>1. IF j < SetCount(i, updateCounter) THEN Size(store[i][j]) = 2 ^ i
                                            ELSE store[i][j] = Empty
      BY <2>2, <2>4 DEF LevelInv, Holds
    <3>2. IF j < SetCount(i, updateCounter) THEN exist[i][j] = TRUE ELSE exist[i][j] = FALSE
      BY <2>2, <2>4 DEF LevelInv, Marked
    <3>3. CASE j < SetCount(i, updateCounter)
      <4>1. exist[i][j]
        BY <3>2, <3>3
      <4>2. Size(store[i][j]) # 0
        BY <2>1, <3>1, <3>3, Numbers
      <4>3. store[i][j] # Empty
        BY <4>2, EmptyFact
      <4> QED
        BY <4>1, <4>3
    <3>4. CASE ~(j < SetCount(i, updateCounter))
      BY <3>1, <3>2, <3>4
    <3> QED
      BY <3>3, <3>4
  <2> QED
    BY <2>3, <2>4
<1> QED
  BY <1>1, Invariance, PTL

\* As many addresses as counters.
LEMMA CountEntries ==
    ASSUME NEW y, NEW w, NEW n \in Nat, NEW S,
           \A e : e \in S <=> \E p \in 1 .. n : e = <<y, w, p>>
    PROVE  Cardinality(S) = n
<1> DEFINE f == [p \in 1 .. n |-> <<y, w, p>>]
<1>1. f \in Bijection(1 .. n, S)
  <2>1. f \in [1 .. n -> S]
    OBVIOUS
  <2>2. \A p, q \in 1 .. n : f[p] = f[q] => p = q
    OBVIOUS
  <2>3. \A e \in S : \E p \in 1 .. n : f[p] = e
    OBVIOUS
  <2> HIDE DEF f
  <2> QED
    BY <2>1, <2>2, <2>3 DEF Bijection, Injection, Surjection, IsInjective
<1> HIDE DEF f
<1>2. ExistsBijection(1 .. n, S)
  BY <1>1 DEF ExistsBijection
<1> QED
  BY <1>2, FS_CountingElements

\* The counter that the next move of a keyword gets continues the numbering of
\* its entries in NEW, across the end of merges and the end of the setup.
THEOREM CountersStayExact == Spec => []CountersExact
<1>1. DInv => CountersExact
  <2> SUFFICES ASSUME DInv, NEW i \in Level \ {0}, NEW w \in Keyword
               PROVE  Record(i, w) = Cardinality(Filed(store[i][NEW_], w))
    BY DEF CountersExact, Record
  <2>1. Numbered(i, w)
    BY DEF DInv, CounterInv
  <2>2. PICK n \in Nat : n = Record(i, w)
    BY <2>1 DEF Numbered
  <2>3. PICK y : y = KeyOf(i, NEW_)
    OBVIOUS
  <2>4. Filed(store[i][NEW_], w) = {<<y, w, p>> : p \in 1 .. n}
    BY <2>1, <2>2, <2>3 DEF Numbered
  <2>5. \A e : e \in Filed(store[i][NEW_], w) <=> \E p \in 1 .. n : e = <<y, w, p>>
    BY <2>4
  <2>6. Cardinality(Filed(store[i][NEW_], w)) = n
    BY <2>5, CountEntries
  <2> QED
    BY <2>2, <2>6
<1> QED
  BY <1>1, Invariance, PTL

\* The root of an oblivious map tells whether all of it is dead.
THEOREM TreesNotMixed == Spec => []OneMergePerTree
<1>1. DInv => OneMergePerTree
  <2> SUFFICES ASSUME DInv, NEW i \in Remote
               PROVE  \A k, r \in DOMAIN omaps[i] : k[2] = r[2]
    BY DEF OneMergePerTree
  <2>1. i \in Level \ {0}
    BY Numbers DEF Remote
  <2> QED
    BY <2>1 DEF DInv, CounterInv
<1> QED
  BY <1>1, Invariance, PTL

-----------------------------------------------------------------------------
(* getElementAt and L->get: what is at the positions of a set.             *)

Before(a, b) == a[2] < b[2] \/ (a[2] = b[2] /\ a[3] < b[3])

\* The position of an address.
Rank(s, a) == Cardinality({b \in DOMAIN s : Before(b, a)})

\* Addresses that keyword and counter tell apart.
Sortable(s) ==
    /\ IsFiniteSet(DOMAIN s)
    /\ \A a \in DOMAIN s : a[2] \in Int /\ a[3] \in Int
    /\ \A a, b \in DOMAIN s : a[2] = b[2] /\ a[3] = b[3] => a = b

\* Positions and addresses correspond.
LEMMA Ranked ==
    ASSUME NEW s, Sortable(s)
    PROVE  /\ Size(s) \in Nat
           /\ \A a \in DOMAIN s : Rank(s, a) \in 0 .. Size(s) - 1
           /\ \A a, b \in DOMAIN s : Rank(s, a) = Rank(s, b) => a = b
           /\ \A q \in 0 .. Size(s) - 1 : \E a \in DOMAIN s : Rank(s, a) = q
<1>d. PICK D : D = DOMAIN s /\ IsFiniteSet(D)
  BY DEF Sortable
<1>n. PICK n \in Nat : n = Cardinality(D) /\ n = Size(s)
  BY <1>d, FS_CardinalityType DEF Size
<1> DEFINE R(a) == {b \in D : Before(b, a)}
<1>1. ASSUME NEW a \in D
      PROVE  /\ IsFiniteSet(R(a)) /\ Cardinality(R(a)) \in Nat /\ Rank(s, a) = Cardinality(R(a))
             /\ a \notin R(a)
  <2>1. IsFiniteSet(R(a))
    BY <1>d, FS_Subset
  <2>2. ~Before(a, a)
    BY <1>1, <1>d DEF Before, Sortable
  <2>3. Rank(s, a) = Cardinality(R(a))
    BY <1>d DEF Rank
  <2> QED
    BY <2>1, <2>2, <2>3, FS_CardinalityType
<1>2. ASSUME NEW a \in D PROVE Rank(s, a) \in 0 .. n - 1
  <2>1. R(a) \subseteq D \ {a}
    BY <1>1
  <2>2. IsFiniteSet(D \ {a}) /\ Cardinality(D \ {a}) = n - 1
    BY <1>d, <1>n, FS_RemoveElement
  <2> HIDE DEF R
  <2>3. Cardinality(R(a)) <= n - 1
    BY <2>1, <2>2, FS_Subset
  <2> QED
    BY <1>1, <2>3
<1>3. ASSUME NEW a \in D, NEW b \in D, Before(a, b) PROVE Rank(s, a) < Rank(s, b)
  <2>1. R(a) \cup {a} \subseteq R(b)
    <3>1. ASSUME NEW e \in R(a) PROVE e \in R(b)
      BY <1>3, <1>d, <3>1 DEF Before, Sortable
    <3> QED
      BY <1>3, <3>1
  <2>2. /\ IsFiniteSet(R(a)) /\ a \notin R(a) /\ IsFiniteSet(R(b))
        /\ Cardinality(R(a)) \in Nat /\ Cardinality(R(b)) \in Nat
        /\ Rank(s, a) = Cardinality(R(a)) /\ Rank(s, b) = Cardinality(R(b))
    BY <1>1
  <2> HIDE DEF R
  <2>3. Cardinality(R(a) \cup {a}) = Cardinality(R(a)) + 1
    BY <2>2, FS_AddElement
  <2>4. Cardinality(R(a) \cup {a}) <= Cardinality(R(b))
    BY <2>1, <2>2, FS_Subset
  <2> QED
    BY <2>2, <2>3, <2>4
<1>4. ASSUME NEW a \in D, NEW b \in D, Rank(s, a) = Rank(s, b) PROVE a = b
  <2>1. ~Before(a, b) /\ ~Before(b, a)
    BY <1>2, <1>3, <1>4
  <2>2. a[2] = b[2] /\ a[3] = b[3]
    BY <1>d, <2>1 DEF Before, Sortable
  <2> QED
    BY <1>d, <2>2 DEF Sortable
<1> DEFINE f == [a \in D |-> Rank(s, a)]
<1>5. f \in Injection(D, 0 .. n - 1)
  BY <1>2, <1>4 DEF Injection, IsInjective
<1>6. IsFiniteSet(0 .. n - 1) /\ Cardinality(0 .. n - 1) = n
  BY FS_Interval
<1> HIDE DEF f
<1>7. f \in Surjection(D, 0 .. n - 1)
  BY <1>5, <1>6, <1>n, FS_Injection
<1>8. \A q \in 0 .. n - 1 : \E a \in D : Rank(s, a) = q
  BY <1>7 DEF Surjection, f
<1> QED
  BY <1>2, <1>4, <1>8, <1>d, <1>n

\* The element at the position of an address is the one stored there.
LEMMA ElementRank ==
    ASSUME NEW s, Sortable(s), NEW a \in DOMAIN s
    PROVE  ElementAt(s, Rank(s, a)) = s[a]
<1>1. ElementAt(s, Rank(s, a)) = s[CHOOSE b \in DOMAIN s : Rank(s, b) = Rank(s, a)]
  BY DEF ElementAt, Rank, Before
<1>2. \A b \in DOMAIN s : Rank(s, b) = Rank(s, a) => b = a
  BY Ranked
<1> DEFINE c == CHOOSE b \in DOMAIN s : Rank(s, b) = Rank(s, a)
<1>3. c \in DOMAIN s /\ Rank(s, c) = Rank(s, a)
  OBVIOUS
<1>4. c = a
  BY <1>2, <1>3
<1> QED
  BY <1>1, <1>4

-----------------------------------------------------------------------------
(* The contents of the sets.                                               *)

\* The updates that the m-th merge into level i collects.
Block(i, m) == (m - 1) * 2 ^ i + 1 .. m * 2 ^ i

\* The number of the merge whose result is in instance j of level i: the
\* latest ones are there.
Nth(i, j) == Finished(i, updateCounter) - SetCount(i, updateCounter) + j + 1

\* Set s holds the updates B of a log, each once and under its keyword, the
\* counters of a keyword without a gap.
Files(log, s, B) ==
    /\ \A a \in DOMAIN s :
          /\ a = <<a[1], a[2], a[3]>> /\ a[3] \in Nat \ {0}
          /\ \A p \in 1 .. a[3] : <<a[1], a[2], p>> \in DOMAIN s
          /\ s[a] \in B /\ log[s[a]].kw = a[2]
    /\ \A a, b \in DOMAIN s : s[a] = s[b] => a = b
    /\ \A v \in B : \E a \in DOMAIN s : s[a] = v

\* The q-th element, from 0, that a merge moves from two sets of level i - 1.
Element(i, q, oldest, older) ==
    IF q < 2 ^ (i - 1) THEN ElementAt(oldest, q)
    ELSE ElementAt(older, q % 2 ^ (i - 1))

\* The first n elements that the merge into level i moves.
Copied(i, n) ==
    {Element(i, q, store[i - 1][OLDEST], store[i - 1][OLDER]) : q \in 0 .. n - 1}

\* A full set holds the updates of its merge, and NEW the elements moved.
ContentInv(i) ==
    /\ \A j \in Full : j < SetCount(i, updateCounter) =>
          Files(calls, store[i][j], Block(i, Nth(i, j)))
    /\ i # 0 => Files(calls, store[i][NEW_], Copied(i, Rest(i, updateCounter)))

CInv ==
    /\ DInv
    /\ calls \in Seq(Calls) /\ Len(calls) = updateCounter
    /\ \A i \in Level : ContentInv(i)

\* A merge reads back the keyword of the call.
LEMMA ReadBack ==
    ASSUME CInv, NEW u \in 1 .. updateCounter
    PROVE  curKeyword(calls[u]) = calls[u].kw
<1>1. calls \in Seq(Calls) /\ u \in 1 .. Len(calls)
  BY DEF CInv
<1>2. calls[u] \in Calls
  BY <1>1
<1> QED
  BY <1>2 DEF Calls, curKeyword, OpByte

\* A longer log.
LEMMA FilesLonger ==
    ASSUME NEW log \in Seq(Calls), NEW c, NEW s, NEW B, B \subseteq 1 .. Len(log),
           Files(log, s, B)
    PROVE  Files(Append(log, c), s, B)
<1>l. PICK l : l = Append(log, c)
  OBVIOUS
<1>1. \A v \in B : l[v] = log[v]
  BY <1>l
<1>2. ASSUME NEW a \in DOMAIN s
      PROVE  /\ a = <<a[1], a[2], a[3]>> /\ a[3] \in Nat \ {0}
             /\ \A p \in 1 .. a[3] : <<a[1], a[2], p>> \in DOMAIN s
             /\ s[a] \in B /\ l[s[a]].kw = a[2]
  <2>1. /\ a = <<a[1], a[2], a[3]>> /\ a[3] \in Nat \ {0}
        /\ \A p \in 1 .. a[3] : <<a[1], a[2], p>> \in DOMAIN s
        /\ s[a] \in B /\ log[s[a]].kw = a[2]
    BY Zenon DEF Files
  <2>2. l[s[a]] = log[s[a]]
    BY <1>1, <2>1, Zenon
  <2> QED
    BY <2>1, <2>2, Zenon
<1>3. /\ \A a, b \in DOMAIN s : s[a] = s[b] => a = b
      /\ \A v \in B : \E a \in DOMAIN s : s[a] = v
  BY Zenon DEF Files
<1>4. Files(l, s, B)
  BY <1>2, <1>3, Zenon DEF Files
<1> QED
  BY <1>4, <1>l

\* One more element, with the next counter of its keyword.
LEMMA FilesMore ==
    ASSUME NEW log, NEW s, NEW B, Files(log, s, B), NEW v, v \notin B,
           NEW y, NEW n \in Nat, NEW w, w = log[v].kw,
           \A e : e \in Filed(s, w) <=> \E p \in 1 .. n : e = <<y, w, p>>
    PROVE  Files(log, Put(s, <<y, w, n + 1>>, v), B \cup {v})
<1>a. PICK a : a = <<y, w, n + 1>>
  OBVIOUS
<1>t. PICK t : t = Put(s, a, v)
  OBVIOUS
<1>1. a \notin DOMAIN s
  <2> SUFFICES ASSUME a \in DOMAIN s PROVE FALSE
    OBVIOUS
  <2>1. a \in Filed(s, w)
    BY <1>a DEF Filed
  <2>2. PICK p \in 1 .. n : a = <<y, w, p>>
    BY <2>1
  <2>3. p = n + 1
    BY <1>a, <2>2
  <2> QED
    BY <2>3
<1>2. /\ DOMAIN t = DOMAIN s \cup {a} /\ t[a] = v
      /\ \A b \in DOMAIN s : t[b] = s[b]
  BY <1>1, <1>t DEF Put
<1>3. ASSUME NEW b \in DOMAIN t
      PROVE  /\ b = <<b[1], b[2], b[3]>> /\ b[3] \in Nat \ {0}
             /\ \A p \in 1 .. b[3] : <<b[1], b[2], p>> \in DOMAIN t
             /\ t[b] \in B \cup {v} /\ log[t[b]].kw = b[2]
  <2>1. CASE b \in DOMAIN s
    BY <1>2, <2>1 DEF Files
  <2>2. CASE b = a
    <3>1. b[1] = y /\ b[2] = w /\ b[3] = n + 1 /\ b = <<b[1], b[2], b[3]>>
      BY <1>a, <2>2
    <3>2. ASSUME NEW p \in 1 .. n + 1 PROVE <<y, w, p>> \in DOMAIN t
      <4>1. CASE p = n + 1
        BY <1>2, <1>a, <4>1
      <4>2. CASE p # n + 1
        <5>1. p \in 1 .. n
          BY <4>2
        <5>2. <<y, w, p>> \in Filed(s, w)
          BY <5>1
        <5> QED
          BY <1>2, <5>2 DEF Filed
      <4> QED
        BY <4>1, <4>2
    <3>3. t[b] = v
      BY <1>2, <2>2
    <3> QED
      BY <3>1, <3>2, <3>3
  <2> QED
    BY <1>2, <2>1, <2>2
<1>4. ASSUME NEW b \in DOMAIN t, NEW e \in DOMAIN t, t[b] = t[e] PROVE b = e
  <2>1. \A f \in DOMAIN s : t[f] # v /\ t[f] = s[f]
    BY <1>2 DEF Files
  <2> QED
    BY <1>2, <1>4, <2>1 DEF Files
<1>5. \A x \in B \cup {v} : \E b \in DOMAIN t : t[b] = x
  BY <1>2 DEF Files
<1>6. Files(log, t, B \cup {v})
  BY <1>3, <1>4, <1>5 DEF Files
<1> QED
  BY <1>6, <1>a, <1>t

-----------------------------------------------------------------------------
(* The timetable of the contents.                                          *)

\* The sets that a level has given up are those that the level above has.
LEMMA Handed ==
    ASSUME NEW i \in Level, NEW u \in Nat
    PROVE  /\ Finished(i, u) - SetCount(i, u) \in Nat
           /\ i = Levels - 1 => Finished(i, u) = SetCount(i, u)
           /\ i + 1 \in Level => Finished(i, u) - SetCount(i, u) = 2 * Finished(i + 1, u)
<1>f. PICK f \in Nat : f = Finished(i, u)
  BY Clock
<1>1. CASE i = Levels - 1
  BY <1>1, <1>f, Top DEF SetCount
<1>2. CASE i # Levels - 1
  <2>0. i + 1 \in Level
    BY <1>2, Top
  <2>g. PICK g \in Nat : g = Finished(i + 1, u)
    BY <2>0, Clock
  <2>1. CASE f < 2
    <3>1. SetCount(i, u) = f
      BY <1>f, <2>1 DEF SetCount
    <3>2. ~Started(i + 1, u)
      BY <1>f, <2>0, <2>1, ClockAbove
    <3>3. g = 0
      BY <2>g, <3>2 DEF Finished
    <3> QED
      BY <1>2, <1>f, <2>g, <3>1, <3>3
  <2>2. CASE f >= 2
    <3>1. PICK b \in {0, 1} : b = f % 2
      BY Parity
    <3>2. SetCount(i, u) = 2 + b
      BY <1>2, <1>f, <2>2, <3>1 DEF SetCount
    <3>3. f = 2 * g + 2 + b
      BY <1>f, <2>0, <2>2, <2>g, <3>1, ClockAbove
    <3> QED
      BY <1>2, <1>f, <2>g, <3>2, <3>3
  <2> QED
    BY <2>1, <2>2
<1> QED
  BY <1>1, <1>2

\* Each update is a merge into level 0.
LEMMA FinishedZero ==
    ASSUME NEW u \in Nat
    PROVE  Finished(0, u) = u
<1>1. 2 ^ 0 = 1
  OBVIOUS
<1>2. 2 ^ (0 + 1) = 2
  BY <1>1, Numbers
<1>3. Moves(0, u) = u
  BY <1>2 DEF Moves
<1>4. Started(0, u)
  BY <1>3 DEF Started
<1>5. u = u * 1 + 0 /\ 0 \in 0 .. 1 - 1
  OBVIOUS
<1>6. u \div 1 = u
  BY <1>5, DivMod
<1> QED
  BY <1>1, <1>3, <1>4, <1>6 DEF Finished

\* Finished merges have collected updates that were made.
LEMMA BlockFact ==
    ASSUME NEW i \in Level, NEW u \in Nat, NEW m \in 1 .. Finished(i, u)
    PROVE  Block(i, m) \subseteq 1 .. u
<1>p. PICK p \in Nat \ {0} : p = 2 ^ i /\ 2 ^ (i + 1) = 2 * p
  BY Numbers
<1>0. Started(i, u)
  <2> SUFFICES ASSUME ~Started(i, u) PROVE FALSE
    OBVIOUS
  <2>1. Finished(i, u) = 0
    BY DEF Finished
  <2> QED
    BY <2>1
<1>1. PICK f \in Nat, r \in 0 .. p - 1 : f = Finished(i, u) /\ u - (2 * p - 2) = f * p + r
  BY <1>0, <1>p, Clock DEF Moves
<1>2. m * p <= f * p /\ 0 <= (m - 1) * p
  BY <1>1
<1>3. PICK x \in Int, y \in Int, z \in Int : x = m * p /\ y = f * p /\ z = (m - 1) * p
  OBVIOUS
<1>4. x <= u /\ 0 <= z
  BY <1>1, <1>2, <1>3
<1>5. Block(i, m) = z + 1 .. x
  BY <1>p, <1>3 DEF Block
<1> QED
  BY <1>4, <1>5

\* What CInv says of a full set.
LEMMA SetFact ==
    ASSUME CInv, NEW i \in Level, NEW j \in Full, j < SetCount(i, updateCounter)
    PROVE  /\ Nth(i, j) \in 1 .. Finished(i, updateCounter)
           /\ Block(i, Nth(i, j)) \subseteq 1 .. updateCounter
           /\ Files(calls, store[i][j], Block(i, Nth(i, j)))
           /\ Sortable(store[i][j])
           /\ Size(store[i][j]) = 2 ^ i
<1>0. updateCounter \in Nat /\ updateCounter <= MaxUpdates
  BY Numbers DEF CInv, DInv
<1>f. PICK f \in Nat, s \in 0 .. 3 : f = Finished(i, updateCounter) /\ s = SetCount(i, updateCounter)
  BY <1>0, Clock, SetCountFact
<1>j. j \in 0 .. 2 /\ j < s
  BY <1>f DEF Full, OLDEST, OLDER, OLD
<1>1. Nth(i, j) \in 1 .. f
  <2>1. f - s \in Nat
    BY <1>0, <1>f, Handed
  <2>2. Nth(i, j) = f - s + j + 1
    BY <1>f DEF Nth
  <2> QED
    BY <1>j, <2>1, <2>2
<1>2. Block(i, Nth(i, j)) \subseteq 1 .. updateCounter
  BY <1>0, <1>1, <1>f, BlockFact
<1>3. Files(calls, store[i][j], Block(i, Nth(i, j)))
  BY DEF CInv, ContentInv
<1>4. LevelInv(i)
  BY DEF CInv, DInv
<1>5. Size(store[i][j]) = 2 ^ i
  BY <1>4 DEF LevelInv, Holds
<1>6. Sortable(store[i][j])
  <2>0. j \in 0 .. NEW_
    BY <1>j DEF NEW_
  <2>1. IsFiniteSet(DOMAIN store[i][j])
    BY <1>4, <2>0 DEF LevelInv, Holds
  <2>2. ASSUME NEW a \in DOMAIN store[i][j] PROVE a[2] \in Int /\ a[3] \in Int
    <3>1. a[3] \in Nat /\ store[i][j][a] \in 1 .. updateCounter /\ calls[store[i][j][a]].kw = a[2]
      BY <1>2, <1>3 DEF Files
    <3>2. PICK v \in 1 .. updateCounter : v = store[i][j][a] /\ calls[v].kw = a[2]
      BY <3>1
    <3>3. a[2] \in Keyword
      <4>1. calls \in Seq(Calls) /\ Len(calls) = updateCounter
        BY DEF CInv
      <4>2. v \in 1 .. Len(calls)
        BY <4>1
      <4>3. calls[v] \in Calls
        BY <4>1, <4>2
      <4> QED
        BY <3>2, <4>3 DEF Calls, Call
    <3>4. Keyword \subseteq Nat
      BY KeywordAssumption
    <3>5. a[2] \in Nat
      BY <3>3, <3>4
    <3>6. \A x \in Nat : x \in Int
      OBVIOUS
    <3> QED
      BY <3>1, <3>5, <3>6, Zenon
  <2>3. ASSUME NEW a \in DOMAIN store[i][j], NEW b \in DOMAIN store[i][j],
               a[2] = b[2], a[3] = b[3]
        PROVE  a = b
    <3>1. a[1] = b[1]
      BY <1>4, <2>0 DEF LevelInv, Opens
    <3>2. a = <<a[1], a[2], a[3]>> /\ b = <<b[1], b[2], b[3]>>
      BY <1>3 DEF Files
    <3> QED
      BY <2>3, <3>1, <3>2
  <2> QED
    BY <2>1, <2>2, <2>3 DEF Sortable
<1> QED
  BY <1>1, <1>2, <1>3, <1>5, <1>6, <1>f

\* Reading a set from its first position to its last gives its updates.
LEMMA Positions ==
    ASSUME NEW log, NEW s, NEW B, Files(log, s, B), Sortable(s), NEW n \in Nat, Size(s) = n
    PROVE  /\ \A q \in 0 .. n - 1 : ElementAt(s, q) \in B
           /\ \A q, r \in 0 .. n - 1 : ElementAt(s, q) = ElementAt(s, r) => q = r
           /\ \A v \in B : \E q \in 0 .. n - 1 : ElementAt(s, q) = v
<1>1. ASSUME NEW q \in 0 .. n - 1 PROVE \E a \in DOMAIN s : Rank(s, a) = q /\ ElementAt(s, q) = s[a]
  <2>1. PICK a \in DOMAIN s : Rank(s, a) = q
    BY Ranked
  <2>2. ElementAt(s, q) = s[a]
    BY <2>1, ElementRank
  <2> QED
    BY <2>1, <2>2
<1>2. ASSUME NEW v \in B PROVE \E q \in 0 .. n - 1 : ElementAt(s, q) = v
  <2>1. PICK a \in DOMAIN s : s[a] = v
    BY DEF Files
  <2>2. Rank(s, a) \in 0 .. n - 1 /\ ElementAt(s, Rank(s, a)) = v
    BY <2>1, Ranked, ElementRank
  <2> QED
    BY <2>2
<1>3. ASSUME NEW q \in 0 .. n - 1 PROVE ElementAt(s, q) \in B
  BY <1>1 DEF Files
<1>4. ASSUME NEW q \in 0 .. n - 1, NEW r \in 0 .. n - 1, ElementAt(s, q) = ElementAt(s, r)
      PROVE  q = r
  <2>1. PICK a \in DOMAIN s : Rank(s, a) = q /\ ElementAt(s, q) = s[a]
    BY <1>1
  <2>2. PICK b \in DOMAIN s : Rank(s, b) = r /\ ElementAt(s, r) = s[b]
    BY <1>1
  <2>3. a = b
    BY <1>4, <2>1, <2>2 DEF Files
  <2> QED
    BY <2>1, <2>2, <2>3
<1> QED
  BY <1>2, <1>3, <1>4

\* A merge moves the updates of its block, each once.
LEMMA ElementFact ==
    ASSUME CInv, NEW i \in Level \ {0}, Started(i, updateCounter),
           NEW oldest, oldest = store[i - 1][OLDEST], NEW older, older = store[i - 1][OLDER],
           NEW B, B = Block(i, Finished(i, updateCounter) + 1)
    PROVE  /\ \A q \in 0 .. 2 ^ i - 1 : Element(i, q, oldest, older) \in B
           /\ \A q, r \in 0 .. 2 ^ i - 1 :
                 Element(i, q, oldest, older) = Element(i, r, oldest, older) => q = r
           /\ \A v \in B : \E q \in 0 .. 2 ^ i - 1 : Element(i, q, oldest, older) = v
           /\ B \subseteq 1 .. updateCounter
<1>0. updateCounter \in Nat /\ updateCounter <= MaxUpdates
  BY Numbers DEF CInv, DInv
<1>b. PICK b \in Level : b = i - 1 /\ b + 1 = i /\ i > 0
  BY Below
<1>n. PICK n \in Nat : n = Finished(i, updateCounter)
  BY <1>0, Clock
<1>h. PICK h \in Nat \ {0} : h = 2 ^ b /\ 2 ^ i = 2 * h
  BY <1>b, Numbers
<1>s. PICK s \in 0 .. 3 : s = SetCount(b, updateCounter) /\ s >= 2
  <2>1. Finished(b, updateCounter) >= 2
    BY <1>0, <1>b, ClockAbove
  <2> QED
    BY <1>0, <2>1, SetCountFact
<1>1. Nth(b, 0) = 2 * n + 1 /\ Nth(b, 1) = 2 * n + 2
  <2>1. PICK f \in Nat : f = Finished(b, updateCounter)
    BY <1>0, Clock
  <2>2. f - s = 2 * n
    BY <1>0, <1>b, <1>n, <1>s, <2>1, Handed
  <2> QED
    BY <1>s, <2>1, <2>2 DEF Nth
<1>c. PICK C, D : C = Block(b, 2 * n + 1) /\ D = Block(b, 2 * n + 2)
  OBVIOUS
<1>2. /\ Files(calls, oldest, C) /\ Sortable(oldest) /\ Size(oldest) = h
      /\ C \subseteq 1 .. updateCounter
  <2>1. OLDEST \in Full /\ OLDEST < SetCount(b, updateCounter)
    BY <1>s DEF Full, OLDEST
  <2> QED
    BY <1>1, <1>b, <1>c, <1>h, <2>1, SetFact DEF OLDEST
<1>3. /\ Files(calls, older, D) /\ Sortable(older) /\ Size(older) = h
      /\ D \subseteq 1 .. updateCounter
  <2>1. OLDER \in Full /\ OLDER < SetCount(b, updateCounter)
    BY <1>s DEF Full, OLDER
  <2> QED
    BY <1>1, <1>b, <1>c, <1>h, <2>1, SetFact DEF OLDER
<1>4. B = C \cup D /\ \A v \in C : v \notin D
  <2>1. PICK x \in Int : x = n * h
    OBVIOUS
  <2>2. ((2 * n + 1) - 1) * h = 2 * x /\ (2 * n + 1) * h = 2 * x + h
    BY <2>1
  <2>3. ((2 * n + 2) - 1) * h = 2 * x + h /\ (2 * n + 2) * h = 2 * x + 2 * h
    BY <2>1
  <2>4. ((n + 1) - 1) * (2 * h) = 2 * x /\ (n + 1) * (2 * h) = 2 * x + 2 * h
    BY <2>1
  <2>5. C = 2 * x + 1 .. 2 * x + h
    BY <1>c, <1>h, <2>2 DEF Block
  <2>6. D = 2 * x + h + 1 .. 2 * x + 2 * h
    BY <1>c, <1>h, <2>3 DEF Block
  <2>7. B = 2 * x + 1 .. 2 * x + 2 * h
    BY <1>h, <1>n, <2>4 DEF Block
  <2> QED
    BY <2>1, <2>5, <2>6, <2>7
<1>5. /\ \A q \in 0 .. h - 1 : ElementAt(oldest, q) \in C
      /\ \A q, r \in 0 .. h - 1 : ElementAt(oldest, q) = ElementAt(oldest, r) => q = r
      /\ \A v \in C : \E q \in 0 .. h - 1 : ElementAt(oldest, q) = v
  BY <1>2, Positions
<1>6. /\ \A q \in 0 .. h - 1 : ElementAt(older, q) \in D
      /\ \A q, r \in 0 .. h - 1 : ElementAt(older, q) = ElementAt(older, r) => q = r
      /\ \A v \in D : \E q \in 0 .. h - 1 : ElementAt(older, q) = v
  BY <1>3, Positions
<1>7. /\ \A q \in 0 .. h - 1 : Element(i, q, oldest, older) = ElementAt(oldest, q)
      /\ \A q \in 0 .. h - 1 : Element(i, q + h, oldest, older) = ElementAt(older, q)
  <2>1. ASSUME NEW q \in 0 .. h - 1 PROVE (q + h) % h = q
    <3>1. q + h = 1 * h + q /\ q + h \in Int
      OBVIOUS
    <3> QED
      BY <3>1, DivMod
  <2> QED
    BY <1>b, <1>h, <2>1 DEF Element
<1>8. \A q \in 0 .. 2 * h - 1 : q \in 0 .. h - 1 \/ \E r \in 0 .. h - 1 : q = r + h
  <2>1. ASSUME NEW q \in 0 .. 2 * h - 1, q \notin 0 .. h - 1
        PROVE  q - h \in 0 .. h - 1 /\ q = (q - h) + h
    BY <2>1
  <2> QED
    BY <2>1
<1>9. ASSUME NEW q \in 0 .. 2 * h - 1 PROVE Element(i, q, oldest, older) \in B
  BY <1>4, <1>5, <1>6, <1>7, <1>8
<1>10. ASSUME NEW v \in B PROVE \E q \in 0 .. 2 * h - 1 : Element(i, q, oldest, older) = v
  <2>1. CASE v \in C
    <3>1. PICK q \in 0 .. h - 1 : Element(i, q, oldest, older) = v
      BY <1>5, <1>7, <2>1
    <3>2. q \in 0 .. 2 * h - 1
      OBVIOUS
    <3> QED
      BY <3>1, <3>2
  <2>2. CASE v \in D
    <3>1. PICK q \in 0 .. h - 1 : Element(i, q + h, oldest, older) = v
      BY <1>6, <1>7, <2>2
    <3>2. q + h \in 0 .. 2 * h - 1
      OBVIOUS
    <3> QED
      BY <3>1, <3>2
  <2> QED
    BY <1>4, <2>1, <2>2
<1>11. ASSUME NEW q \in 0 .. 2 * h - 1, NEW r \in 0 .. 2 * h - 1,
              Element(i, q, oldest, older) = Element(i, r, oldest, older)
       PROVE  q = r
  <2>1. CASE q \in 0 .. h - 1 /\ r \in 0 .. h - 1
    BY <1>5, <1>7, <1>11, <2>1
  <2>2. CASE q \notin 0 .. h - 1 /\ r \notin 0 .. h - 1
    <3>1. PICK d \in 0 .. h - 1, e \in 0 .. h - 1 : q = d + h /\ r = e + h
      BY <1>8, <2>2
    <3>2. ElementAt(older, d) = ElementAt(older, e)
      BY <1>7, <1>11, <3>1
    <3>3. d = e
      BY <1>6, <3>2
    <3> QED
      BY <3>1, <3>3
  <2>3. CASE q \in 0 .. h - 1 /\ r \notin 0 .. h - 1
    <3>1. PICK e \in 0 .. h - 1 : r = e + h
      BY <1>8, <2>3
    <3>2. ElementAt(oldest, q) = ElementAt(older, e)
      BY <1>7, <1>11, <2>3, <3>1
    <3> QED
      BY <1>4, <1>5, <1>6, <2>3, <3>2
  <2>4. CASE q \notin 0 .. h - 1 /\ r \in 0 .. h - 1
    <3>1. PICK d \in 0 .. h - 1 : q = d + h
      BY <1>8, <2>4
    <3>2. ElementAt(older, d) = ElementAt(oldest, r)
      BY <1>7, <1>11, <2>4, <3>1
    <3> QED
      BY <1>4, <1>5, <1>6, <2>4, <3>2
  <2> QED
    BY <2>1, <2>2, <2>3, <2>4
<1> QED
  BY <1>2, <1>3, <1>4, <1>9, <1>10, <1>11, <1>h

\* The copied element joins NEW.
LEMMA ExtendedFiles ==
    ASSUME CInv, NEW i \in Level \ {0}, Started(i, updateCounter)
    PROVE  Files(calls, Extended(i, updateCounter + 1), Copied(i, Rest(i, updateCounter) + 1))
<1>0. DInv /\ updateCounter \in Nat
  BY Numbers DEF CInv, DInv
<1>o. PICK o, d, B : /\ o = store[i - 1][OLDEST] /\ d = store[i - 1][OLDER]
                     /\ B = Block(i, Finished(i, updateCounter) + 1)
  OBVIOUS
<1>r. PICK r \in 0 .. 2 ^ i - 1 : r = Rest(i, updateCounter) /\ r = cnt[i]
  BY <1>0, Clock DEF DInv, LevelInv
<1>p. 2 ^ i \in Nat
  BY Numbers
<1>v. PICK v : v = Element(i, r, o, d)
  OBVIOUS
<1>1. Moved(i) = v
  BY <1>o, <1>r, <1>v DEF Moved, Element
<1>2. \A q, s \in 0 .. 2 ^ i - 1 : Element(i, q, o, d) = Element(i, s, o, d) => q = s
  BY <1>o, ElementFact
<1>k. curKeyword(calls[v]) = calls[v].kw
  <2>1. v \in 1 .. updateCounter
    <3>1. v \in B /\ B \subseteq 1 .. updateCounter
      BY <1>o, <1>v, ElementFact
    <3> QED
      BY <3>1
  <2> QED
    BY <2>1, ReadBack
<1>3. v \notin Copied(i, r)
  <2> SUFFICES ASSUME v \in Copied(i, r) PROVE FALSE
    OBVIOUS
  <2>1. PICK q \in 0 .. r - 1 : v = Element(i, q, o, d)
    BY <1>o DEF Copied
  <2>2. q \in 0 .. 2 ^ i - 1 /\ q # r
    BY <1>p
  <2> QED
    BY <1>2, <1>v, <2>1, <2>2
<1>4. Copied(i, r + 1) = Copied(i, r) \cup {v}
  <2>1. 0 .. (r + 1) - 1 = (0 .. r - 1) \cup {r}
    BY <1>p
  <2> QED
    BY <1>o, <1>v, <2>1 DEF Copied
<1>5. Files(calls, store[i][NEW_], Copied(i, r))
  BY <1>r DEF CInv, ContentInv
<1>w. PICK w, y : w = calls[v].kw /\ y = KeyOf(i, NEW_)
  OBVIOUS
<1>6. Numbered(i, w)
  BY <1>0 DEF DInv, CounterInv
<1>n. PICK n \in Nat : n = Record(i, w)
  BY <1>6 DEF Numbered
<1>7. \A e : e \in Filed(store[i][NEW_], w) <=> \E p \in 1 .. n : e = <<y, w, p>>
  BY <1>6, <1>n, <1>w DEF Numbered
<1>8. Added(i) = <<y, w, n + 1>>
  BY <1>1, <1>k, <1>n, <1>w DEF Added, Slot
<1>9. Extended(i, updateCounter + 1) = Put(store[i][NEW_], <<y, w, n + 1>>, v)
  <2>1. Extended(i, updateCounter + 1) = Put(store[i][NEW_], Added(i), Moved(i))
    BY <1>0, ExtendedFact
  <2> QED
    BY <1>1, <1>8, <2>1
<1>10. Files(calls, Put(store[i][NEW_], <<y, w, n + 1>>, v), Copied(i, r) \cup {v})
  <2>1. PICK t, K : t = store[i][NEW_] /\ K = Copied(i, r)
    OBVIOUS
  <2>2. Files(calls, t, K) /\ v \notin K /\ w = calls[v].kw
    BY <1>3, <1>5, <1>w, <2>1
  <2>3. \A e : e \in Filed(t, w) <=> \E p \in 1 .. n : e = <<y, w, p>>
    BY <1>7, <2>1
  <2>4. Files(calls, Put(t, <<y, w, n + 1>>, v), K \cup {v})
    BY <2>2, <2>3, FilesMore
  <2> QED
    BY <2>1, <2>4
<1> QED
  BY <1>4, <1>9, <1>10, <1>r

\* When all is moved it is the block of the merge.
LEMMA AllCopied ==
    ASSUME CInv, NEW i \in Level \ {0}, Ends(i, updateCounter)
    PROVE  Copied(i, Rest(i, updateCounter) + 1) = Block(i, Finished(i, updateCounter) + 1)
<1>1. Started(i, updateCounter) /\ Rest(i, updateCounter) + 1 = 2 ^ i
  BY DEF Ends
<1>o. PICK o, d, B : /\ o = store[i - 1][OLDEST] /\ d = store[i - 1][OLDER]
                     /\ B = Block(i, Finished(i, updateCounter) + 1)
  OBVIOUS
<1>2. /\ \A q \in 0 .. 2 ^ i - 1 : Element(i, q, o, d) \in B
      /\ \A v \in B : \E q \in 0 .. 2 ^ i - 1 : Element(i, q, o, d) = v
  BY <1>1, <1>o, ElementFact
<1>3. Copied(i, 2 ^ i) = {Element(i, q, o, d) : q \in 0 .. 2 ^ i - 1}
  BY <1>o DEF Copied
<1> QED
  BY <1>1, <1>2, <1>3, <1>o

\* What has been moved was inserted.
LEMMA CopiedMade ==
    ASSUME CInv, NEW i \in Level \ {0}, Started(i, updateCounter)
    PROVE  Copied(i, Rest(i, updateCounter) + 1) \subseteq 1 .. updateCounter
<1>0. updateCounter \in Nat
  BY Numbers DEF CInv, DInv
<1>o. PICK o, d, B : /\ o = store[i - 1][OLDEST] /\ d = store[i - 1][OLDER]
                     /\ B = Block(i, Finished(i, updateCounter) + 1)
  OBVIOUS
<1>r. PICK r \in 0 .. 2 ^ i - 1 : r = Rest(i, updateCounter)
  BY <1>0, Clock
<1>1. /\ \A q \in 0 .. 2 ^ i - 1 : Element(i, q, o, d) \in B
      /\ B \subseteq 1 .. updateCounter
  BY <1>o, ElementFact
<1>2. \A q \in 0 .. r : q \in 0 .. 2 ^ i - 1
  BY Numbers
<1>3. (r + 1) - 1 = r
  OBVIOUS
<1>4. ASSUME NEW x \in Copied(i, r + 1) PROVE x \in 1 .. updateCounter
  <2>1. PICK q \in 0 .. r : x = Element(i, q, o, d)
    BY <1>3, <1>o DEF Copied
  <2>2. x \in B
    BY <1>1, <1>2, <2>1
  <2> QED
    BY <1>1, <2>2
<1> QED
  BY <1>4, <1>r

-----------------------------------------------------------------------------
(* The contents after an update.                                           *)

\* The sets of a level that stay where they are.
LEMMA SetsKept ==
    ASSUME Updated, NEW i \in Level, ~Taken(i, updateCounter),
           NEW j \in Full, j < SetCount(i, updateCounter)
    PROVE  store'[i][j] = store[i][j]
<1>0. DInv /\ updateCounter \in Nat /\ updateCounter + 1 <= MaxUpdates
  BY Numbers DEF Updated, DInv
<1>d. PICK d : d = Done(updateCounter + 1)
  OBVIOUS
<1>1. ReleasedStore(i, d) = store[i]
  <2>1. i + 1 \notin d
    BY <1>0, <1>d, TakenFact
  <2> QED
    BY <2>1 DEF ReleasedStore
<1>2. Left(i, updateCounter) = SetCount(i, updateCounter)
  BY DEF Left
<1>3. j # Left(i, updateCounter)
  <2>1. j \in 0 .. 2
    BY DEF Full, OLDEST, OLDER, OLD
  <2> QED
    BY <1>2, <2>1
<1>4. CASE i = 0
  <2>1. PICK c : Update(c)
    BY DEF Updated, SetupUpdate, LiveUpdate
  <2>n. PICK n, new : /\ n = Left(0, updateCounter)
                      /\ new = Put(Empty, <<Local, c.kw, 1>>, updateCounter + 1)
    OBVIOUS
  <2>2. store'[0] = [store[0] EXCEPT ![n] = new]
    <3>1. store'[0] = [ReleasedStore(0, d) EXCEPT ![n] = new]
      BY <1>d, <2>1, <2>n, LevelZero
    <3> QED
      BY <1>1, <1>4, <3>1
  <2>3. DOMAIN store[0] = 0 .. NEW_ /\ j \in 0 .. NEW_
    <3>1. LevelInv(i)
      BY <1>0 DEF DInv
    <3> QED
      BY <1>4, <3>1 DEF LevelInv, Holds, Full, OLDEST, OLDER, OLD, NEW_
  <2> QED
    BY <1>3, <1>4, <2>n, <2>2, <2>3
<1>5. CASE i # 0 /\ Ends(i, updateCounter)
  BY <1>1, <1>3, <1>5, <1>d, LevelEnds
<1>6. CASE i # 0 /\ ~Ends(i, updateCounter)
  BY <1>6, LevelGoesOn
<1> QED
  BY <1>4, <1>5, <1>6

\* The oldest set of a level that gives up two.
LEMMA SetMoved ==
    ASSUME Updated, NEW i \in Level, Taken(i, updateCounter)
    PROVE  store'[i][OLDEST] = store[i][OLD]
<1>0. DInv /\ updateCounter \in Nat /\ updateCounter + 1 <= MaxUpdates
  BY Numbers DEF Updated, DInv
<1>l. LevelInv(i)
  BY <1>0 DEF DInv
<1>d. PICK d : d = Done(updateCounter + 1)
  OBVIOUS
<1>1. ReleasedStore(i, d)[OLDEST] = store[i][OLD]
  <2>1. i + 1 \in d
    BY <1>0, <1>d, TakenFact
  <2>2. DOMAIN store[i] = 0 .. 3
    BY <1>l DEF LevelInv, Holds, NEW_
  <2> QED
    BY <2>1, <2>2 DEF ReleasedStore, OLDEST, OLDER, OLD
<1>2. Left(i, updateCounter) = 1 /\ Ends(i, updateCounter)
  BY <1>0, LeftFact DEF Left
<1>3. CASE i = 0
  <2>1. PICK c : Update(c)
    BY DEF Updated, SetupUpdate, LiveUpdate
  <2>2. PICK new : store'[0] = [ReleasedStore(0, d) EXCEPT ![1] = new]
    BY <1>2, <1>3, <1>d, <2>1, LevelZero
  <2>3. DOMAIN ReleasedStore(0, d) = 0 .. 3
    BY <1>0, <1>3, <1>d, ReleasedFact DEF Holds, NEW_
  <2> QED
    BY <1>1, <1>3, <2>2, <2>3 DEF OLDEST
<1>4. CASE i # 0
  <2>1. OLDEST \in Full /\ OLDEST # Left(i, updateCounter)
    BY <1>2 DEF Full, OLDEST
  <2> QED
    BY <1>1, <1>2, <1>4, <1>d, <2>1, LevelEnds
<1> QED
  BY <1>3, <1>4

\* The set that arrives.
LEMMA SetFiled ==
    ASSUME Updated, CInv, NEW i \in Level, Ends(i, updateCounter), NEW c, Update(c)
    PROVE  Files(calls', store'[i][Left(i, updateCounter)],
                 Block(i, Finished(i, updateCounter) + 1))
<1>0. /\ DInv /\ updateCounter \in Nat /\ updateCounter + 1 <= MaxUpdates
      /\ calls \in Seq(Calls) /\ Len(calls) = updateCounter /\ calls' = Append(calls, c)
  BY Numbers DEF Updated, DInv, CInv, Update
<1>n. PICK n \in 0 .. 2 : n = Left(i, updateCounter)
  BY <1>0, LeftFact
<1>1. CASE i = 0
  <2>a. PICK a, u : a = <<Local, c.kw, 1>> /\ u = updateCounter + 1
    OBVIOUS
  <2>e. PICK e : e = Put(Empty, a, u)
    OBVIOUS
  <2>1. store'[0][n] = e
    <3>1. store'[0] = [ReleasedStore(0, Done(u)) EXCEPT ![n] = e]
      BY <1>1, <1>n, <2>a, <2>e, LevelZero
    <3>2. DOMAIN ReleasedStore(0, Done(u)) = 0 .. 3
      BY <1>0, <1>1, <2>a, ReleasedFact DEF Holds, NEW_
    <3> QED
      BY <3>1, <3>2
  <2>2. DOMAIN e = {a} /\ e[a] = u
    BY <2>e, EmptyFact DEF Put
  <2>3. Block(0, Finished(0, updateCounter) + 1) = {u}
    <3>1. 2 ^ 0 = 1
      OBVIOUS
    <3>4. Finished(0, updateCounter) = updateCounter
      BY <1>0, FinishedZero
    <3>5. Block(0, updateCounter + 1) = updateCounter + 1 .. updateCounter + 1
      BY <1>0, <3>1 DEF Block
    <3> QED
      BY <1>0, <2>a, <3>4, <3>5
  <2>4. calls'[u].kw = c.kw
    BY <1>0, <2>a
  <2>5. Files(calls', e, {u})
    <3>1. a[1] = Local /\ a[2] = c.kw /\ a[3] = 1 /\ a = <<a[1], a[2], a[3]>>
      BY <2>a
    <3>2. \A p \in 1 .. 1 : <<Local, c.kw, p>> = a
      BY <2>a
    <3> QED
      BY <2>2, <2>4, <3>1, <3>2 DEF Files
  <2> QED
    BY <1>1, <1>n, <2>1, <2>3, <2>5
<1>2. CASE i # 0
  <2>1. Started(i, updateCounter)
    BY DEF Ends
  <2>2. store'[i][n] = Extended(i, updateCounter + 1)
    BY <1>2, <1>n, LevelEnds
  <2>b. PICK B : B = Block(i, Finished(i, updateCounter) + 1)
    OBVIOUS
  <2>3. Files(calls, Extended(i, updateCounter + 1), B) /\ B \subseteq 1 .. updateCounter
    <3>1. i \in Level \ {0}
      BY <1>2
    <3>2. Copied(i, Rest(i, updateCounter) + 1) = B
      BY <2>b, <3>1, AllCopied
    <3> QED
      BY <2>1, <3>1, <3>2, ExtendedFiles, CopiedMade
  <2>4. Files(Append(calls, c), Extended(i, updateCounter + 1), B)
    BY <1>0, <2>3, FilesLonger
  <2> QED
    BY <1>0, <1>n, <2>2, <2>4, <2>b
<1> QED
  BY <1>1, <1>2

\* The contents of a level.
LEMMA ContentStep ==
    ASSUME Updated, CInv, NEW i \in Level
    PROVE  ContentInv(i)'
<1>c. PICK c : Update(c)
  BY DEF Updated, SetupUpdate, LiveUpdate
<1>0. /\ DInv /\ updateCounter \in Nat /\ updateCounter + 1 <= MaxUpdates
      /\ calls \in Seq(Calls) /\ Len(calls) = updateCounter /\ calls' = Append(calls, c)
      /\ updateCounter' = updateCounter + 1
  BY <1>c, Numbers DEF Updated, DInv, CInv, Update
<1>f. PICK f \in Nat, s \in 0 .. 3 : f = Finished(i, updateCounter) /\ s = SetCount(i, updateCounter)
  <2>1. updateCounter <= MaxUpdates
    BY <1>0, Numbers
  <2> QED
    BY <1>0, <2>1, Clock, SetCountFact
<1>g. PICK g \in Nat, t \in 0 .. 3 : /\ g = Finished(i, updateCounter + 1)
                                     /\ t = SetCount(i, updateCounter + 1)
  <2>1. updateCounter + 1 \in Nat
    BY <1>0
  <2> QED
    BY <1>0, <2>1, Clock, SetCountFact
<1>1. ASSUME NEW j \in Full, j < t
      PROVE  Files(calls', store'[i][j], Block(i, g - t + j + 1))
  <2>0. j \in 0 .. 2
    BY DEF Full, OLDEST, OLDER, OLD
  <2>1. ASSUME NEW k \in Full, k < s
        PROVE  Files(calls', store[i][k], Block(i, f - s + k + 1))
    <3>1. Files(calls, store[i][k], Block(i, Nth(i, k))) /\ Block(i, Nth(i, k)) \subseteq 1 .. updateCounter
      BY <1>f, <2>1, SetFact
    <3>2. Nth(i, k) = f - s + k + 1
      BY <1>f DEF Nth
    <3>3. Files(Append(calls, c), store[i][k], Block(i, Nth(i, k)))
      BY <1>0, <3>1, FilesLonger
    <3> QED
      BY <1>0, <3>2, <3>3
  <2>2. CASE ~Ends(i, updateCounter)
    <3>1. g = f /\ t = s /\ ~Taken(i, updateCounter)
      BY <1>0, <1>f, <1>g, <2>2, Tick, SetCountTick
    <3>2. store'[i][j] = store[i][j]
      BY <1>1, <1>f, <3>1, SetsKept
    <3> QED
      BY <1>1, <2>1, <3>1, <3>2
  <2>3. CASE Ends(i, updateCounter)
    <3>1. g = f + 1
      BY <1>0, <1>f, <1>g, <2>3, Tick DEF Ends
    <3>2. CASE Taken(i, updateCounter)
      <4>1. s = 3 /\ t = 2 /\ Left(i, updateCounter) = 1
        BY <1>0, <1>f, <1>g, <2>3, <3>2, SetCountTick DEF Left
      <4>2. CASE j = 0
        <5>1. store'[i][0] = store[i][2]
          BY <3>2, SetMoved DEF OLDEST, OLD
        <5>2. Files(calls', store[i][2], Block(i, f - s + 2 + 1))
          BY <2>1, <4>1 DEF Full, OLD
        <5>3. f - s + 2 + 1 = g - t + 0 + 1
          BY <3>1, <4>1
        <5> QED
          BY <4>2, <5>1, <5>2, <5>3
      <4>3. CASE j = 1
        <5>1. g - t + 1 + 1 = f + 1
          BY <3>1, <4>1
        <5> QED
          BY <1>c, <1>f, <2>3, <4>1, <4>3, <5>1, SetFiled
      <4> QED
        BY <1>1, <2>0, <4>1, <4>2, <4>3
    <3>3. CASE ~Taken(i, updateCounter)
      <4>1. t = s + 1 /\ Left(i, updateCounter) = s
        BY <1>0, <1>f, <1>g, <2>3, <3>3, SetCountTick DEF Left
      <4>2. CASE j < s
        <5>1. store'[i][j] = store[i][j]
          BY <1>f, <3>3, <4>2, SetsKept
        <5>2. f - s + j + 1 = g - t + j + 1
          BY <3>1, <4>1
        <5>3. Files(calls', store[i][j], Block(i, f - s + j + 1))
          BY <2>1, <4>2
        <5> QED
          BY <5>1, <5>2, <5>3
      <4>3. CASE j = s
        <5>1. g - t + j + 1 = f + 1
          BY <3>1, <4>1, <4>3
        <5> QED
          BY <1>c, <1>f, <2>3, <4>1, <4>3, <5>1, SetFiled
      <4> QED
        BY <1>1, <2>0, <4>1, <4>2, <4>3
    <3> QED
      BY <3>2, <3>3
  <2> QED
    BY <2>2, <2>3
<1>2. ASSUME i # 0
      PROVE  Files(calls', store'[i][NEW_], Copied(i, Rest(i, updateCounter))')
  <2>1. CASE Started(i, updateCounter) /\ ~Ends(i, updateCounter)
    <3>1. store'[i][NEW_] = Extended(i, updateCounter + 1)
      BY <1>2, <2>1, LevelGoesOn
    <3>b. PICK b \in Level : b = i - 1 /\ b + 1 = i
      BY <1>2, Below
    <3>2. ~Taken(b, updateCounter)
      BY <2>1, <3>b DEF Taken
    <3>3. SetCount(b, updateCounter) >= 2 /\ SetCount(b, updateCounter) \in 0 .. 3
      <4>1. Finished(b, updateCounter) >= 2 /\ updateCounter <= MaxUpdates
        BY <1>0, <2>1, <3>b, ClockAbove, Numbers
      <4> QED
        BY <1>0, <4>1, SetCountFact
    <3>4. store'[b][OLDEST] = store[b][OLDEST] /\ store'[b][OLDER] = store[b][OLDER]
      <4>1. /\ OLDEST \in Full /\ OLDEST < SetCount(b, updateCounter)
            /\ OLDER \in Full /\ OLDER < SetCount(b, updateCounter)
        BY <3>3 DEF Full, OLDEST, OLDER
      <4> QED
        BY <3>2, <4>1, SetsKept
    <3>5. Rest(i, updateCounter + 1) = Rest(i, updateCounter) + 1
      BY <1>0, <2>1, Tick
    <3>6. Copied(i, Rest(i, updateCounter))' = Copied(i, Rest(i, updateCounter) + 1)
      BY <1>0, <3>4, <3>5, <3>b DEF Copied
    <3>7. /\ Files(calls, Extended(i, updateCounter + 1), Copied(i, Rest(i, updateCounter) + 1))
          /\ Copied(i, Rest(i, updateCounter) + 1) \subseteq 1 .. updateCounter
      BY <1>2, <2>1, ExtendedFiles, CopiedMade
    <3>8. Files(Append(calls, c), Extended(i, updateCounter + 1),
                Copied(i, Rest(i, updateCounter) + 1))
      BY <1>0, <3>7, FilesLonger
    <3> QED
      BY <1>0, <3>1, <3>6, <3>8
  <2>2. CASE ~(Started(i, updateCounter) /\ ~Ends(i, updateCounter))
    <3>1. Rest(i, updateCounter + 1) = 0
      BY <1>0, <2>2, Tick
    <3>2. LevelInv(i)'
      BY LevelStep
    <3>3. DOMAIN store'[i][NEW_] = {}
      <4>1. IsFiniteSet(DOMAIN store'[i][NEW_]) /\ Cardinality(DOMAIN store'[i][NEW_]) = 0
        BY <1>0, <3>1, <3>2 DEF LevelInv, Holds, NEW_, Size
      <4> QED
        BY <4>1, FS_EmptySet
    <3>4. Copied(i, Rest(i, updateCounter))' = {}
      <4>1. 0 .. 0 - 1 = {}
        OBVIOUS
      <4> QED
        BY <1>0, <3>1, <4>1 DEF Copied
    <3> QED
      BY <3>3, <3>4 DEF Files
  <2> QED
    BY <2>1, <2>2
<1> QED
  BY <1>0, <1>1, <1>2, <1>g DEF ContentInv, Nth


\* The contents after a search, at the end of the setup, or without a step.
LEMMA ContentSame ==
    ASSUME CInv, UNCHANGED <<updateCounter, calls, store>>, NEW i \in Level
    PROVE  ContentInv(i)'
<1>1. ContentInv(i)
  BY DEF CInv
<1> QED
  BY <1>1 DEF ContentInv, Nth, Copied, Element

\* In every state the sets hold the updates of their merges.
LEMMA ContentInvariance == Spec => []CInv
<1>1. Init => CInv
  <2> SUFFICES ASSUME Init PROVE CInv
    OBVIOUS
  <2>1. DInv
    BY InitInv
  <2>2. updateCounter = 0 /\ calls = <<>>
    BY DEF Init
  <2>3. ASSUME NEW i \in Level PROVE ContentInv(i)
    <3>1. SetCount(i, updateCounter) = 0 /\ Rest(i, updateCounter) = 0
      BY <2>2, ClockZero
    <3>2. \A j \in Full : ~(j < 0)
      BY DEF Full, OLDEST, OLDER, OLD
    <3>3. DOMAIN store[i][NEW_] = {}
      <4>1. store[i][NEW_] = Empty
        BY DEF Init, NEW_
      <4> QED
        BY <4>1, EmptyFact
    <3>4. Copied(i, 0) = {}
      <4>1. 0 .. 0 - 1 = {}
        OBVIOUS
      <4> QED
        BY <4>1 DEF Copied
    <3>5. Files(calls, store[i][NEW_], Copied(i, 0))
      BY <3>3, <3>4 DEF Files
    <3> QED
      BY <3>1, <3>2, <3>5 DEF ContentInv
  <2> QED
    BY <2>1, <2>2, <2>3 DEF CInv
<1>2. CInv /\ [Next]_vars => CInv'
  <2> SUFFICES ASSUME CInv, [Next]_vars PROVE CInv'
    OBVIOUS
  <2>0. /\ DInv /\ updateCounter \in Nat /\ calls \in Seq(Calls) /\ Len(calls) = updateCounter
    BY Numbers DEF CInv, DInv
  <2>1. CASE \E c \in Choices : SetupUpdate(c) \/ LiveUpdate(c)
    <3>1. updateCounter + 1 <= MaxUpdates
      <4>1. updateCounter < MaxUpdates
        BY <2>1 DEF Choices
      <4> QED
        BY <2>0, <4>1, Numbers
    <3>2. Updated
      BY <2>0, <2>1, <3>1 DEF Updated
    <3>3. DInv'
      BY <3>2, UpdateStep
    <3>4. PICK c \in Choices : Update(c)
      BY <2>1 DEF SetupUpdate, LiveUpdate
    <3>5. c \in Calls
      <4>1. c \in Workload[updateCounter + 1]
        BY <3>4 DEF Choices
      <4>2. updateCounter + 1 \in 1 .. MaxUpdates
        BY <2>0, <3>1, Numbers
      <4> QED
        BY <4>1, <4>2, DeAmortizedAssumption
    <3>6. calls' = Append(calls, c) /\ updateCounter' = updateCounter + 1
      BY <3>4 DEF Update
    <3>7. calls' \in Seq(Calls) /\ Len(calls') = updateCounter'
      BY <2>0, <3>5, <3>6
    <3>8. \A i \in Level : ContentInv(i)'
      BY <3>2, ContentStep
    <3> QED
      BY <3>3, <3>7, <3>8 DEF CInv
  <2>2. CASE (\E w \in Keyword : Search(w)) \/ EndSetup \/ UNCHANGED vars
    <3>1. UNCHANGED <<updateCounter, calls, store>>
      BY <2>2 DEF Search, EndSetup, vars
    <3>2. DInv'
      <4>1. CASE EndSetup
        BY <2>0, <4>1, EndSetupStep
      <4>2. CASE (\E w \in Keyword : Search(w)) \/ UNCHANGED vars
        BY <2>0, <4>2, SameStep
      <4> QED
        BY <2>2, <4>1, <4>2
    <3>3. \A i \in Level : ContentInv(i)'
      BY <3>1, ContentSame
    <3> QED
      BY <2>0, <3>1, <3>2, <3>3 DEF CInv
  <2> QED
    BY <2>1, <2>2 DEF Next
<1> QED
  BY <1>1, <1>2, PTL DEF Spec


-----------------------------------------------------------------------------
(* Every update is in one full set.                                        *)

\* The updates that levels i and below still hold are those after this one.
Gone(i, u) == Finished(i, u) - SetCount(i, u)

\* The merge that collects update v.
LEMMA BlockMember ==
    ASSUME NEW i \in Level, NEW v \in Nat \ {0}, NEW m \in Nat \ {0}
    PROVE  /\ v \in Block(i, m) <=> m = ((v - 1) \div 2 ^ i) + 1
           /\ (v - 1) \div 2 ^ i \in Nat
<1>p. PICK p \in Nat \ {0} : p = 2 ^ i
  BY Numbers
<1>q. PICK q \in Int, r \in 0 .. p - 1 : /\ q = (v - 1) \div p
                                        /\ v - 1 = q * p + r
  <2>1. PICK q \in Int, r \in Int : q = (v - 1) \div p /\ r = (v - 1) % p
    OBVIOUS
  <2>2. v - 1 = p * q + r /\ 0 <= r /\ r < p
    BY <2>1
  <2> QED
    BY <2>1, <2>2
<1>1. q \in Nat
  <2> SUFFICES ASSUME q + 1 <= 0 PROVE FALSE
    OBVIOUS
  <2>1. (q + 1) * p <= 0
    OBVIOUS
  <2>2. (q + 1) * p = q * p + p
    OBVIOUS
  <2>3. PICK x \in Int : x = q * p
    OBVIOUS
  <2> QED
    BY <1>q, <2>1, <2>2, <2>3
<1>2. ASSUME v \in Block(i, m) PROVE m = q + 1
  <2>1. PICK x \in Int : x = (m - 1) * p
    OBVIOUS
  <2>2. m * p = x + p
    BY <2>1
  <2>3. Block(i, m) = x + 1 .. x + p
    BY <1>p, <2>1, <2>2 DEF Block
  <2>4. PICK d \in 0 .. p - 1 : v - 1 = x + d
    <3>1. v - 1 - x \in 0 .. p - 1 /\ v - 1 = x + (v - 1 - x)
      BY <1>2, <2>3
    <3> QED
      BY <3>1
  <2>5. (v - 1) \div p = m - 1
    BY <2>1, <2>4, DivMod
  <2> QED
    BY <1>q, <2>5
<1>3. ASSUME m = q + 1 PROVE v \in Block(i, m)
  <2>1. PICK x \in Int : x = q * p
    OBVIOUS
  <2>2. (m - 1) * p = x /\ m * p = x + p
    BY <1>3, <2>1
  <2>3. Block(i, m) = x + 1 .. x + p
    BY <1>p, <2>2 DEF Block
  <2> QED
    BY <1>q, <2>1, <2>3
<1> QED
  BY <1>1, <1>2, <1>3, <1>p, <1>q

\* The updates of the full sets of a level are those after the ones given up,
\* as far as merges are finished.
LEMMA LevelHolds ==
    ASSUME DInv, NEW i \in Level, NEW v \in Nat \ {0}
    PROVE  (\E j \in Full : j < SetCount(i, updateCounter) /\ v \in Block(i, Nth(i, j)))
              <=> /\ Gone(i, updateCounter) * 2 ^ i < v
                  /\ v <= Finished(i, updateCounter) * 2 ^ i
<1>0. updateCounter \in Nat /\ updateCounter <= MaxUpdates
  BY Numbers DEF DInv
<1>p. PICK p \in Nat \ {0} : p = 2 ^ i
  BY Numbers
<1>f. PICK f \in Nat, s \in 0 .. 3 : f = Finished(i, updateCounter) /\ s = SetCount(i, updateCounter)
  BY <1>0, Clock, SetCountFact
<1>g. PICK g \in Nat : g = Gone(i, updateCounter) /\ f = g + s
  <2>1. f - s \in Nat
    BY <1>0, <1>f, Handed
  <2> QED
    BY <1>f, <2>1 DEF Gone
<1>q. PICK q \in Nat : q = (v - 1) \div p
  <2>1. 1 \in Nat \ {0}
    OBVIOUS
  <2> QED
    BY <1>p, <2>1, BlockMember
<1>r. PICK r \in 0 .. p - 1 : v - 1 = q * p + r
  <2>1. PICK r \in Int : r = (v - 1) % p
    OBVIOUS
  <2>2. v - 1 = p * q + r /\ 0 <= r /\ r < p
    BY <1>q, <2>1
  <2> QED
    BY <2>2
<1>1. ASSUME NEW j \in Full PROVE v \in Block(i, Nth(i, j)) <=> q = g + j
  <2>1. j \in Nat /\ Nth(i, j) = g + j + 1
    BY <1>f, <1>g DEF Full, OLDEST, OLDER, OLD, Nth
  <2>2. Nth(i, j) \in Nat \ {0}
    BY <2>1
  <2>3. v \in Block(i, Nth(i, j)) <=> Nth(i, j) = q + 1
    BY <1>p, <1>q, <2>2, BlockMember
  <2> QED
    BY <2>1, <2>3
<1>2. (\E j \in Full : j < s /\ v \in Block(i, Nth(i, j))) <=> g <= q /\ q < f
  <2>1. \A j \in Full : j \in 0 .. 2
    BY DEF Full, OLDEST, OLDER, OLD
  <2>2. \A j \in 0 .. 2 : j \in Full
    BY DEF Full, OLDEST, OLDER, OLD
  <2>3. ASSUME g <= q, q < f PROVE \E j \in Full : j < s /\ v \in Block(i, Nth(i, j))
    <3>1. q - g \in 0 .. 2 /\ q - g < s /\ q = g + (q - g)
      BY <1>g, <2>3
    <3>2. q - g \in Full
      BY <2>2, <3>1
    <3> QED
      BY <1>1, <3>1, <3>2
  <2>4. ASSUME NEW j \in Full, j < s, v \in Block(i, Nth(i, j)) PROVE g <= q /\ q < f
    BY <1>1, <1>g, <2>1, <2>4
  <2> QED
    BY <2>3, <2>4
<1>3. g <= q <=> g * p < v
  <2>1. ASSUME g <= q PROVE g * p < v
    <3>1. g * p <= q * p
      BY <2>1
    <3>2. PICK x \in Int, y \in Int : x = g * p /\ y = q * p
      OBVIOUS
    <3> QED
      BY <1>r, <3>1, <3>2
  <2>2. ASSUME q + 1 <= g PROVE ~(g * p < v)
    <3>1. (q + 1) * p <= g * p /\ (q + 1) * p = q * p + p
      BY <2>2
    <3>2. PICK x \in Int, y \in Int : x = g * p /\ y = q * p
      OBVIOUS
    <3> QED
      BY <1>r, <3>1, <3>2
  <2> QED
    BY <2>1, <2>2
<1>4. q < f <=> v <= f * p
  <2>1. ASSUME q + 1 <= f PROVE v <= f * p
    <3>1. (q + 1) * p <= f * p /\ (q + 1) * p = q * p + p
      BY <2>1
    <3>2. PICK x \in Int, y \in Int : x = f * p /\ y = q * p
      OBVIOUS
    <3> QED
      BY <1>r, <3>1, <3>2
  <2>2. ASSUME f <= q PROVE ~(v <= f * p)
    <3>1. f * p <= q * p
      BY <2>2
    <3>2. PICK x \in Int, y \in Int : x = f * p /\ y = q * p
      OBVIOUS
    <3> QED
      BY <1>r, <3>1, <3>2
  <2> QED
    BY <2>1, <2>2
<1> QED
  BY <1>2, <1>3, <1>4, <1>f, <1>g, <1>p

\* What a level has given up is what the level above has taken.
LEMMA Borders ==
    ASSUME NEW i \in Level, NEW u \in Nat, u <= MaxUpdates
    PROVE  /\ Gone(i, u) * 2 ^ i \in Nat
           /\ Gone(i, u) * 2 ^ i <= Finished(i, u) * 2 ^ i
           /\ i = Levels - 1 => Gone(i, u) * 2 ^ i = 0
           /\ i + 1 \in Level => Gone(i, u) * 2 ^ i = Finished(i + 1, u) * 2 ^ (i + 1)
<1>p. PICK p \in Nat \ {0} : p = 2 ^ i /\ 2 ^ (i + 1) = 2 * p
  BY Numbers
<1>f. PICK f \in Nat, s \in 0 .. 3 : f = Finished(i, u) /\ s = SetCount(i, u)
  BY Clock, SetCountFact
<1>g. PICK g \in Nat : g = Gone(i, u) /\ g = f - s
  <2>1. f - s \in Nat
    BY <1>f, Handed
  <2> QED
    BY <1>f, <2>1 DEF Gone
<1>1. g * p \in Nat /\ g * p <= f * p
  BY <1>g
<1>2. i = Levels - 1 => g * p = 0
  <2>1. ASSUME i = Levels - 1 PROVE g = 0
    BY <1>f, <1>g, <2>1, Handed
  <2> QED
    BY <2>1
<1>3. ASSUME i + 1 \in Level PROVE g * p = Finished(i + 1, u) * 2 ^ (i + 1)
  <2>1. PICK h \in Nat : h = Finished(i + 1, u)
    BY <1>3, Clock
  <2>2. g = 2 * h
    BY <1>3, <1>f, <1>g, <2>1, Handed
  <2>3. (2 * h) * p = h * (2 * p)
    OBVIOUS
  <2> QED
    BY <1>p, <2>1, <2>2, <2>3
<1> QED
  BY <1>1, <1>2, <1>3, <1>f, <1>g, <1>p


\* Each update is in a full set.
LEMMA SomeSet ==
    ASSUME DInv, NEW v \in 1 .. updateCounter
    PROVE  \E i \in Level : \E j \in Full :
              j < SetCount(i, updateCounter) /\ v \in Block(i, Nth(i, j))
<1>0. updateCounter \in Nat /\ updateCounter <= MaxUpdates
  BY Numbers DEF DInv
<1> DEFINE T == {k \in Level : Gone(k, updateCounter) * 2 ^ k < v}
<1>1. T \subseteq Nat
  BY Numbers
<1>2. Levels - 1 \in T
  <2>1. Levels - 1 \in Level
    BY Numbers DEF Level
  <2>2. Gone(Levels - 1, updateCounter) * 2 ^ (Levels - 1) = 0
    BY <1>0, <2>1, Borders
  <2> QED
    BY <2>1, <2>2
<1>3. PICK i \in T : \A y \in T : i <= y
  BY <1>1, <1>2, Minimum
<1>4. i \in Level /\ Gone(i, updateCounter) * 2 ^ i < v
  BY <1>3
<1>5. v <= Finished(i, updateCounter) * 2 ^ i
  <2>1. CASE i = 0
    <3>1. Finished(0, updateCounter) = updateCounter /\ 2 ^ 0 = 1
      BY <1>0, FinishedZero
    <3> QED
      BY <1>0, <2>1, <3>1
  <2>2. CASE i # 0
    <3>1. PICK b \in Level : b = i - 1 /\ b + 1 = i
      BY <1>4, <2>2, Below
    <3>2. b \notin T
      <4>1. ~(i <= b)
        BY <1>4, <3>1, Numbers
      <4> QED
        BY <1>3, <4>1
    <3>3. PICK x \in Nat : x = Gone(b, updateCounter) * 2 ^ b
      BY <1>0, Borders
    <3>4. v <= x
      BY <3>2, <3>3
    <3>5. x = Finished(i, updateCounter) * 2 ^ i
      BY <1>0, <1>4, <3>1, <3>3, Borders
    <3> QED
      BY <3>4, <3>5
  <2> QED
    BY <2>1, <2>2
<1>6. v \in Nat \ {0}
  BY <1>0
<1> QED
  BY <1>4, <1>5, <1>6, LevelHolds

\* What the levels above have taken ends where a level begins.
LEMMA Separate ==
    ASSUME NEW u \in Nat, u <= MaxUpdates, NEW k \in Level, NEW m \in Level, m < k
    PROVE  Finished(k, u) * 2 ^ k <= Gone(m, u) * 2 ^ m
<1> DEFINE G == {e \in Level : \A d \in Level : d < e =>
                    Finished(e, u) * 2 ^ e <= Gone(d, u) * 2 ^ d}
<1>n. PICK n \in Nat : n = Levels - 1 /\ Level = 0 .. n
  <2>1. Levels - 1 \in Nat
    BY Numbers
  <2> QED
    BY <2>1 DEF Level
<1>1. 0 \in G
  BY <1>n
<1>2. ASSUME NEW e \in 0 .. n - 1, e \in G PROVE e + 1 \in G
  <2>0. e \in Level /\ e + 1 \in Level
    BY <1>n
  <2>x. PICK x \in Nat : /\ x = Gone(e, u) * 2 ^ e
                         /\ x <= Finished(e, u) * 2 ^ e
                         /\ x = Finished(e + 1, u) * 2 ^ (e + 1)
    BY <2>0, Borders
  <2>1. ASSUME NEW d \in Level, d < e + 1
        PROVE  Finished(e + 1, u) * 2 ^ (e + 1) <= Gone(d, u) * 2 ^ d
    <3>1. CASE d = e
      BY <2>x, <3>1
    <3>2. CASE d < e
      <4>1. PICK y \in Nat : y = Finished(e, u) * 2 ^ e
        <5>1. Finished(e, u) \in Nat /\ 2 ^ e \in Nat
          BY <2>0, Clock, Numbers
        <5> QED
          BY <5>1
      <4>2. PICK z \in Nat : z = Gone(d, u) * 2 ^ d
        BY Borders
      <4>3. y <= z
        BY <1>2, <3>2, <4>1, <4>2
      <4> QED
        BY <2>x, <4>1, <4>2, <4>3
    <3> QED
      BY <1>n, <2>1, <3>1, <3>2
  <2> QED
    BY <2>0, <2>1
<1> HIDE DEF G
<1>3. \A e \in 0 .. n : e \in G
  BY <1>1, <1>2, Induction
<1> QED
  BY <1>3, <1>n DEF G

\* Each update is in one full set only.
LEMMA OneSet ==
    ASSUME DInv, NEW v \in 1 .. updateCounter,
           NEW i \in Level, NEW j \in Full, j < SetCount(i, updateCounter),
           v \in Block(i, Nth(i, j)),
           NEW k \in Level, NEW m \in Full, m < SetCount(k, updateCounter),
           v \in Block(k, Nth(k, m))
    PROVE  i = k /\ j = m
<1>0. updateCounter \in Nat /\ updateCounter <= MaxUpdates /\ v \in Nat \ {0}
  BY Numbers DEF DInv
<1>1. ASSUME NEW a \in Level, NEW b \in Level, a < b,
             NEW c \in Full, c < SetCount(a, updateCounter), v \in Block(a, Nth(a, c)),
             NEW d \in Full, d < SetCount(b, updateCounter), v \in Block(b, Nth(b, d))
      PROVE  FALSE
  <2>1. Gone(a, updateCounter) * 2 ^ a < v
    BY <1>0, <1>1, LevelHolds
  <2>2. v <= Finished(b, updateCounter) * 2 ^ b
    BY <1>0, <1>1, LevelHolds
  <2>3. PICK x \in Nat : x = Gone(a, updateCounter) * 2 ^ a
    BY <1>0, Borders
  <2>4. Finished(b, updateCounter) * 2 ^ b <= x
    BY <1>0, <1>1, <2>3, Separate
  <2>5. PICK y \in Nat : y = Finished(b, updateCounter) * 2 ^ b
    <3>1. Finished(b, updateCounter) \in Nat /\ 2 ^ b \in Nat
      BY <1>0, Clock, Numbers
    <3> QED
      BY <3>1
  <2> QED
    BY <1>0, <2>1, <2>2, <2>3, <2>4, <2>5
<1>2. i = k
  <2>1. ~(i < k) /\ ~(k < i)
    BY <1>1
  <2> QED
    BY <2>1, Numbers
<1>3. j = m
  <2>1. j \in 0 .. 2 /\ m \in 0 .. 2
    BY DEF Full, OLDEST, OLDER, OLD
  <2>g. PICK g \in Nat : g = Finished(i, updateCounter) - SetCount(i, updateCounter)
    BY <1>0, Handed
  <2>2. Nth(i, j) = g + j + 1 /\ Nth(i, m) = g + m + 1
    BY <2>g DEF Nth
  <2>3. Nth(i, j) \in Nat \ {0} /\ Nth(i, m) \in Nat \ {0}
    BY <2>1, <2>2
  <2>4. Nth(i, j) = Nth(i, m)
    BY <1>0, <1>2, <2>3, BlockMember
  <2> QED
    BY <2>1, <2>2, <2>4
<1> QED
  BY <1>2, <1>3


-----------------------------------------------------------------------------
(* What a search reads.                                                    *)

\* The address that a search asks instance j of level i for.
At(i, j, w, p) == <<KeyOf(i, j), w, p>>

\* A full set holds its counters from 1 to some number below 2^i.
LEMMA CountersFit ==
    ASSUME NEW s, IsFiniteSet(DOMAIN s), NEW y, NEW w, NEW n \in Nat,
           \A q \in 1 .. n : <<y, w, q>> \in DOMAIN s
    PROVE  n <= Size(s)
<1> DEFINE S == {<<y, w, q>> : q \in 1 .. n}
<1>1. \A e : e \in S <=> \E p \in 1 .. n : e = <<y, w, p>>
  OBVIOUS
<1>2. S \subseteq DOMAIN s
  OBVIOUS
<1> HIDE DEF S
<1>3. Cardinality(S) = n
  BY <1>1, CountEntries
<1> QED
  BY <1>2, <1>3, FS_Subset DEF Size

\* In a full set a search sees every counter of its keyword.
LEMMA VisibleFact ==
    ASSUME CInv, NEW i \in Level, NEW j \in Full, j < SetCount(i, updateCounter), NEW w, NEW p
    PROVE  p \in Visible(i, j, w) <=> p \in Nat /\ At(i, j, w, p) \in DOMAIN store[i][j]
<1>s. PICK s, y : s = store[i][j] /\ y = KeyOf(i, j)
  OBVIOUS
<1>B. PICK B : Files(calls, s, B)
  BY <1>s, SetFact
<1>f. IsFiniteSet(DOMAIN s) /\ Size(s) \in Nat
  BY <1>s, SetFact, Ranked DEF Sortable
<1>1. ASSUME p \in Visible(i, j, w) PROVE p \in Nat /\ At(i, j, w, p) \in DOMAIN store[i][j]
  <2>1. p \in 1 .. Size(s) /\ \A q \in 1 .. p : <<y, w, q>> \in DOMAIN s
    BY <1>1, <1>s DEF Visible
  <2>2. p \in Nat /\ p \in 1 .. p
    BY <1>f, <2>1
  <2> QED
    BY <1>s, <2>1, <2>2 DEF At
<1>2. ASSUME p \in Nat, At(i, j, w, p) \in DOMAIN store[i][j] PROVE p \in Visible(i, j, w)
  <2>a. PICK a : a = <<y, w, p>>
    OBVIOUS
  <2>1. a \in DOMAIN s /\ a[1] = y /\ a[2] = w /\ a[3] = p
    BY <1>2, <1>s, <2>a DEF At
  <2>2. a[3] \in Nat \ {0} /\ \A q \in 1 .. a[3] : <<a[1], a[2], q>> \in DOMAIN s
    BY <1>B, <2>1 DEF Files
  <2>3. p \in Nat \ {0} /\ \A q \in 1 .. p : <<y, w, q>> \in DOMAIN s
    BY <2>1, <2>2
  <2>4. p <= Size(s)
    BY <1>f, <2>3, CountersFit
  <2>5. p \in 1 .. Size(s)
    BY <1>f, <2>3, <2>4
  <2> QED
    BY <1>s, <2>3, <2>5 DEF Visible
<1> QED
  BY <1>1, <1>2

\* The places a search finds a value in.
LEMMA SearchFact ==
    ASSUME CInv, NEW w, NEW e
    PROVE  e \in encIndexes(w) <=>
              \E i \in Level, j \in Full, p \in Nat :
                 /\ j < SetCount(i, updateCounter)
                 /\ At(i, j, w, p) \in DOMAIN store[i][j]
                 /\ e = <<i, j, p, store[i][j][At(i, j, w, p)]>>
<1>1. ASSUME e \in encIndexes(w)
      PROVE  \E i \in Level, j \in Full, p \in Nat :
                 /\ j < SetCount(i, updateCounter)
                 /\ At(i, j, w, p) \in DOMAIN store[i][j]
                 /\ e = <<i, j, p, store[i][j][At(i, j, w, p)]>>
  <2>1. PICK d \in Level \X Full : Filled(d[1], d[2]) /\ e \in Indexes(d[1], d[2], w)
    BY <1>1 DEF encIndexes, Full
  <2>2. PICK i \in Level, j \in Full : i = d[1] /\ j = d[2]
    OBVIOUS
  <2>3. j < SetCount(i, updateCounter)
    <3>1. LevelInv(i) /\ Filled(i, j)
      BY <2>1, <2>2 DEF CInv, DInv
    <3> QED
      BY <3>1, FilledFact
  <2>4. PICK p \in Visible(i, j, w) : e = <<i, j, p, store[i][j][At(i, j, w, p)]>>
    BY <2>1, <2>2 DEF Indexes, At
  <2>5. p \in Nat /\ At(i, j, w, p) \in DOMAIN store[i][j]
    BY <2>3, VisibleFact
  <2> QED
    BY <2>3, <2>4, <2>5
<1>2. ASSUME NEW i \in Level, NEW j \in Full, NEW p \in Nat,
             j < SetCount(i, updateCounter), At(i, j, w, p) \in DOMAIN store[i][j],
             e = <<i, j, p, store[i][j][At(i, j, w, p)]>>
      PROVE  e \in encIndexes(w)
  <2>1. p \in Visible(i, j, w)
    BY <1>2, VisibleFact
  <2>2. e \in Indexes(i, j, w)
    BY <1>2, <2>1 DEF Indexes, At
  <2>3. Filled(i, j)
    <3>1. LevelInv(i)
      BY DEF CInv, DInv
    <3> QED
      BY <1>2, <3>1, FilledFact
  <2>d. PICK d \in Level \X Full : d = <<i, j>>
    OBVIOUS
  <2>4. d[1] = i /\ d[2] = j
    BY <2>d
  <2> QED
    BY <2>2, <2>3, <2>4 DEF encIndexes, Full
<1> QED
  BY <1>1, <1>2

\* The updates of a keyword.
Made(w) == {u \in 1 .. updateCounter : calls[u].kw = w}

\* A search finds each of them, in one place.
LEMMA FoundFact ==
    ASSUME CInv, NEW w
    PROVE  /\ \A e \in encIndexes(w) : e[4] \in Made(w)
           /\ \A d, e \in encIndexes(w) : d[4] = e[4] => d = e
           /\ \A v \in Made(w) : \E e \in encIndexes(w) : e[4] = v
<1>1. ASSUME NEW i \in Level, NEW j \in Full, NEW p \in Nat, NEW v,
             j < SetCount(i, updateCounter), At(i, j, w, p) \in DOMAIN store[i][j],
             v = store[i][j][At(i, j, w, p)]
      PROVE  v \in Made(w) /\ v \in Block(i, Nth(i, j))
  <2>a. PICK a, s, B : a = At(i, j, w, p) /\ s = store[i][j] /\ B = Block(i, Nth(i, j))
    OBVIOUS
  <2>1. Files(calls, s, B) /\ B \subseteq 1 .. updateCounter
    BY <1>1, <2>a, SetFact
  <2>2. a \in DOMAIN s /\ v = s[a] /\ a[2] = w
    BY <1>1, <2>a DEF At
  <2>3. v \in B /\ calls[v].kw = w
    BY <2>1, <2>2 DEF Files
  <2> QED
    BY <2>1, <2>3, <2>a DEF Made
<1>2. ASSUME NEW e \in encIndexes(w) PROVE e[4] \in Made(w)
  <2>1. PICK i \in Level, j \in Full, p \in Nat :
           /\ j < SetCount(i, updateCounter)
           /\ At(i, j, w, p) \in DOMAIN store[i][j]
           /\ e = <<i, j, p, store[i][j][At(i, j, w, p)]>>
    BY <1>2, SearchFact
  <2>2. e[4] = store[i][j][At(i, j, w, p)]
    BY <2>1
  <2> QED
    BY <1>1, <2>1, <2>2
<1>3. ASSUME NEW d \in encIndexes(w), NEW e \in encIndexes(w), d[4] = e[4] PROVE d = e
  <2>1. PICK i \in Level, j \in Full, p \in Nat :
           /\ j < SetCount(i, updateCounter)
           /\ At(i, j, w, p) \in DOMAIN store[i][j]
           /\ d = <<i, j, p, store[i][j][At(i, j, w, p)]>>
    BY <1>3, SearchFact
  <2>2. PICK k \in Level, m \in Full, q \in Nat :
           /\ m < SetCount(k, updateCounter)
           /\ At(k, m, w, q) \in DOMAIN store[k][m]
           /\ e = <<k, m, q, store[k][m][At(k, m, w, q)]>>
    BY <1>3, SearchFact
  <2>v. PICK v : v = d[4]
    OBVIOUS
  <2>3. v = store[i][j][At(i, j, w, p)] /\ v = store[k][m][At(k, m, w, q)]
    BY <1>3, <2>1, <2>2, <2>v
  <2>4. v \in Made(w) /\ v \in Block(i, Nth(i, j)) /\ v \in Block(k, Nth(k, m))
    BY <1>1, <2>1, <2>2, <2>3
  <2>5. i = k /\ j = m
    <3>1. DInv /\ v \in 1 .. updateCounter
      BY <2>4 DEF CInv, Made
    <3> QED
      BY <2>1, <2>2, <2>4, <3>1, OneSet
  <2>6. p = q
    <3>a. PICK a, b, s : a = At(i, j, w, p) /\ b = At(i, j, w, q) /\ s = store[i][j]
      OBVIOUS
    <3>1. a \in DOMAIN s /\ b \in DOMAIN s /\ s[a] = s[b]
      BY <2>1, <2>2, <2>3, <2>5, <3>a
    <3>2. PICK B : Files(calls, s, B)
      BY <2>1, <3>a, SetFact
    <3>3. a = b
      BY <3>1, <3>2 DEF Files
    <3>4. a[3] = p /\ b[3] = q
      BY <3>a DEF At
    <3> QED
      BY <3>3, <3>4
  <2> QED
    BY <2>1, <2>2, <2>5, <2>6
<1>4. ASSUME NEW v \in Made(w) PROVE \E e \in encIndexes(w) : e[4] = v
  <2>0. DInv /\ v \in 1 .. updateCounter /\ calls[v].kw = w
    BY <1>4 DEF CInv, Made
  <2>1. PICK i \in Level, j \in Full :
           j < SetCount(i, updateCounter) /\ v \in Block(i, Nth(i, j))
    BY <2>0, SomeSet
  <2>s. PICK s, B, y : s = store[i][j] /\ B = Block(i, Nth(i, j)) /\ y = KeyOf(i, j)
    OBVIOUS
  <2>2. Files(calls, s, B)
    BY <2>1, <2>s, SetFact
  <2>3. PICK a \in DOMAIN s : s[a] = v
    BY <2>1, <2>2, <2>s DEF Files
  <2>4. a = <<a[1], a[2], a[3]>> /\ a[3] \in Nat /\ a[2] = w
    BY <2>0, <2>2, <2>3 DEF Files
  <2>5. a[1] = y
    <3>1. LevelInv(i)
      BY <2>0 DEF DInv
    <3>2. j \in 0 .. NEW_
      BY DEF Full, OLDEST, OLDER, OLD, NEW_
    <3>3. a[1] = KeyRow(i)[j]
      BY <2>s, <3>1, <3>2 DEF LevelInv, Opens
    <3> QED
      BY <2>s, <3>2, <3>3 DEF KeyRow, KeyOf
  <2>6. a = At(i, j, w, a[3])
    BY <2>4, <2>5, <2>s DEF At
  <2>p. PICK p \in Nat : p = a[3]
    BY <2>4
  <2>e. PICK e : e = <<i, j, p, v>>
    OBVIOUS
  <2>7. /\ At(i, j, w, p) \in DOMAIN store[i][j]
        /\ e = <<i, j, p, store[i][j][At(i, j, w, p)]>>
    BY <2>3, <2>6, <2>e, <2>p, <2>s
  <2>8. e \in encIndexes(w)
    BY <2>1, <2>7, SearchFact
  <2>9. e[4] = v
    BY <2>e
  <2> QED
    BY <2>8, <2>9
<1> QED
  BY <1>2, <1>3, <1>4


\* A search and the updates it finds correspond, so they are as many.
LEMMA SameNumber ==
    ASSUME NEW S, NEW T, IsFiniteSet(T),
           \A e \in S : e[4] \in T,
           \A d, e \in S : d[4] = e[4] => d = e,
           \A v \in T : \E e \in S : e[4] = v
    PROVE  Cardinality(S) = Cardinality(T)
<1> DEFINE f == [e \in S |-> e[4]]
<1>1. f \in Injection(S, T) /\ f \in Surjection(S, T)
  BY DEF Injection, Surjection, IsInjective
<1> HIDE DEF f
<1> QED
  BY <1>1, FS_Injection

\* Whatever is being merged, a search finds each update of its keyword once.
\* The workload is within Calls, so that curKeyword is the caller's keyword.
THEOREM EachFoundOnce == Spec => []FoundOnce
<1>1. CInv => FoundOnce
  <2> SUFFICES ASSUME CInv, NEW w \in Keyword
               PROVE  /\ {e[4] : e \in encIndexes(w)} = Made(w)
                      /\ Cardinality(encIndexes(w)) = Cardinality(Made(w))
    BY DEF FoundOnce, Made
  <2>1. /\ \A e \in encIndexes(w) : e[4] \in Made(w)
        /\ \A d, e \in encIndexes(w) : d[4] = e[4] => d = e
        /\ \A v \in Made(w) : \E e \in encIndexes(w) : e[4] = v
    BY FoundFact
  <2>2. {e[4] : e \in encIndexes(w)} = Made(w)
    BY <2>1
  <2>3. IsFiniteSet(Made(w))
    <3>1. IsFiniteSet(1 .. updateCounter)
      BY FS_Interval, Numbers DEF CInv, DInv
    <3> QED
      BY <3>1, FS_Subset DEF Made
  <2> QED
    BY <2>1, <2>2, <2>3, SameNumber
<1> QED
  BY <1>1, ContentInvariance, PTL

-----------------------------------------------------------------------------
(* The abstract index.                                                     *)

\* The updates that inserted or deleted x under w.
Those(w, x, op) ==
    {u \in 1 .. updateCounter : calls[u].kw = w /\ calls[u].ind = x /\ calls[u].op = op}

Totals ==
    [w \in Keyword |-> [x \in Ind |->
        Cardinality(Those(w, x, "INS")) - Cardinality(Those(w, x, "DEL"))]]

CountsRight == Balance = Totals

\* A search counts the updates that were made.
LEMMA CountingFact == CInv => CountsRight
<1> SUFFICES ASSUME CInv PROVE CountsRight
  OBVIOUS
<1>1. ASSUME NEW w, NEW x, NEW op
      PROVE  Tally(encIndexes(w), x, op) = Cardinality(Those(w, x, op))
  <2> DEFINE S == {e \in encIndexes(w) : calls[e[4]].ind = x /\ calls[e[4]].op = op}
             T == Those(w, x, op)
  <2>1. /\ \A e \in encIndexes(w) : e[4] \in Made(w)
        /\ \A d, e \in encIndexes(w) : d[4] = e[4] => d = e
        /\ \A v \in Made(w) : \E e \in encIndexes(w) : e[4] = v
    BY FoundFact
  <2>2. \A v : v \in T <=> v \in Made(w) /\ calls[v].ind = x /\ calls[v].op = op
    BY DEF Those, Made
  <2>3. IsFiniteSet(T)
    <3>1. IsFiniteSet(1 .. updateCounter)
      BY FS_Interval, Numbers DEF CInv, DInv
    <3> QED
      BY <3>1, FS_Subset DEF Those
  <2>4. Tally(encIndexes(w), x, op) = Cardinality(S)
    BY DEF Tally
  <2> HIDE DEF T
  <2>5. /\ \A e \in S : e[4] \in T
        /\ \A d, e \in S : d[4] = e[4] => d = e
        /\ \A v \in T : \E e \in S : e[4] = v
    BY <2>1, <2>2
  <2> HIDE DEF S
  <2>6. Cardinality(S) = Cardinality(T)
    BY <2>3, <2>5, SameNumber
  <2> QED
    BY <2>4, <2>6 DEF T
<1>2. \A w, x : Net(encIndexes(w), x) =
                   Cardinality(Those(w, x, "INS")) - Cardinality(Those(w, x, "DEL"))
  BY <1>1 DEF Net
<1> QED
  BY <1>2 DEF CountsRight, Balance, Totals

\* An update is one more of its kind.
LEMMA ThoseNext ==
    ASSUME CInv, NEW c, calls' = Append(calls, c), updateCounter' = updateCounter + 1,
           NEW w, NEW x, NEW op
    PROVE  /\ Cardinality(Those(w, x, op)) \in Nat
           /\ Cardinality(Those(w, x, op))' =
                 IF c.kw = w /\ c.ind = x /\ c.op = op
                 THEN Cardinality(Those(w, x, op)) + 1 ELSE Cardinality(Those(w, x, op))
<1>0. updateCounter \in Nat /\ calls \in Seq(Calls) /\ Len(calls) = updateCounter
  BY Numbers DEF CInv, DInv
<1>s. PICK S : S = Those(w, x, op)
  OBVIOUS
<1>u. PICK u : u = updateCounter + 1
  OBVIOUS
<1>1. IsFiniteSet(S) /\ Cardinality(S) \in Nat /\ u \notin S
  <2>1. IsFiniteSet(1 .. updateCounter)
    BY <1>0, FS_Interval
  <2>2. S \subseteq 1 .. updateCounter /\ u \notin 1 .. updateCounter
    BY <1>0, <1>s, <1>u DEF Those
  <2> QED
    BY <2>1, <2>2, FS_Subset, FS_CardinalityType
<1>2. /\ \A v \in 1 .. updateCounter : calls'[v] = calls[v]
      /\ calls'[u] = c
      /\ 1 .. updateCounter' = (1 .. updateCounter) \cup {u}
  BY <1>0, <1>u
<1>3. Those(w, x, op)' = {v \in 1 .. updateCounter' :
                            calls'[v].kw = w /\ calls'[v].ind = x /\ calls'[v].op = op}
  BY DEF Those
<1>4. CASE c.kw = w /\ c.ind = x /\ c.op = op
  <2>1. Those(w, x, op)' = S \cup {u}
    BY <1>2, <1>3, <1>4, <1>s DEF Those
  <2>2. Cardinality(S \cup {u}) = Cardinality(S) + 1
    BY <1>1, FS_AddElement
  <2>3. Cardinality(Those(w, x, op))' = Cardinality(S \cup {u})
    BY <2>1
  <2> QED
    BY <1>1, <1>4, <1>s, <2>2, <2>3
<1>5. CASE ~(c.kw = w /\ c.ind = x /\ c.op = op)
  <2>1. Those(w, x, op)' = S
    BY <1>2, <1>3, <1>5, <1>s DEF Those
  <2> QED
    BY <1>1, <1>5, <1>s, <2>1
<1> QED
  BY <1>4, <1>5

\* It shifts one balance by one.
LEMMA TotalsNext ==
    ASSUME CInv, NEW c \in Calls, calls' = Append(calls, c), updateCounter' = updateCounter + 1
    PROVE  Totals' = Index!Shifted(Totals, c.op, c.kw, c.ind)
<1>c. c.op \in OP /\ c.kw \in Keyword /\ c.ind \in Ind
  BY DEF Calls, Call
<1> DEFINE N(w, x, op) == Cardinality(Those(w, x, op))
<1>1. ASSUME NEW w \in Keyword, NEW x \in Ind
      PROVE  Totals'[w][x] = Totals[w][x]
                + (IF w = c.kw /\ x = c.ind THEN Index!Weight(c.op) ELSE 0)
  <2>1. Totals[w][x] = N(w, x, "INS") - N(w, x, "DEL")
    BY DEF Totals
  <2>2. Totals'[w][x] = N(w, x, "INS")' - N(w, x, "DEL")'
    BY DEF Totals
  <2>3. /\ N(w, x, "INS") \in Nat
        /\ N(w, x, "INS")' = IF c.kw = w /\ c.ind = x /\ c.op = "INS"
                             THEN N(w, x, "INS") + 1 ELSE N(w, x, "INS")
    BY ThoseNext
  <2>4. /\ N(w, x, "DEL") \in Nat
        /\ N(w, x, "DEL")' = IF c.kw = w /\ c.ind = x /\ c.op = "DEL"
                             THEN N(w, x, "DEL") + 1 ELSE N(w, x, "DEL")
    BY ThoseNext
  <2>5. c.op = "INS" \/ c.op = "DEL"
    BY <1>c DEF OP
  <2> HIDE DEF N
  <2> QED
    BY <2>1, <2>2, <2>3, <2>4, <2>5 DEF Index!Weight
<1>2. \A w \in Keyword, x \in Ind : Totals[w][x] \in Int
  <2>1. \A w, x, op : N(w, x, op) \in Nat
    BY ThoseNext
  <2> QED
    BY <2>1 DEF Totals
<1>3. /\ Totals = [w \in Keyword |-> [x \in Ind |-> Totals[w][x]]]
      /\ Totals' = [w \in Keyword |-> [x \in Ind |-> Totals'[w][x]]]
  BY DEF Totals
<1>s. PICK s : s = Index!Shifted(Totals, c.op, c.kw, c.ind)
  OBVIOUS
<1>4. /\ s = [w \in Keyword |-> [x \in Ind |-> s[w][x]]]
      /\ \A w \in Keyword, x \in Ind : s[w][x] = Totals[w][x]
                + (IF w = c.kw /\ x = c.ind THEN Index!Weight(c.op) ELSE 0)
  <2>t. PICK t : t = Totals
    OBVIOUS
  <2>1. t = [w \in Keyword |-> [x \in Ind |-> t[w][x]]]
    BY <1>3, <2>t
  <2>2. \A w \in Keyword, x \in Ind : t[w][x] \in Int
    BY <1>2, <2>t
  <2>k. PICK k \in Keyword, y \in Ind, n \in Int :
           k = c.kw /\ y = c.ind /\ n = Index!Weight(c.op)
    BY <1>c DEF Index!Weight
  <2>3. s = [t EXCEPT ![k][y] = @ + n]
    BY <1>s, <2>k, <2>t DEF Index!Shifted
  <2>4. DOMAIN s = Keyword /\ \A w \in Keyword : s[w] = IF w = k THEN [t[k] EXCEPT ![y] = @ + n]
                                                               ELSE t[w]
    BY <2>1, <2>3
  <2>5. \A w \in Keyword : DOMAIN s[w] = Ind
    BY <2>1, <2>4
  <2>6. ASSUME NEW w \in Keyword, NEW x \in Ind
        PROVE  s[w][x] = t[w][x] + (IF w = k /\ x = y THEN n ELSE 0)
    <3>1. CASE w = k
      <4>1. s[w] = [t[k] EXCEPT ![y] = @ + n] /\ DOMAIN t[k] = Ind
        BY <2>1, <2>4, <3>1
      <4>2. s[w][x] = IF x = y THEN t[k][y] + n ELSE t[k][x]
        BY <4>1
      <4> QED
        BY <2>2, <3>1, <4>2
    <3>2. CASE w # k
      BY <2>2, <2>4, <3>2
    <3> QED
      BY <3>1, <3>2
  <2>7. s = [w \in Keyword |-> [x \in Ind |-> s[w][x]]]
    <3>1. s = [w \in Keyword |-> s[w]]
      BY <2>1, <2>3
    <3>2. \A w \in Keyword : s[w] = [x \in Ind |-> s[w][x]]
      BY <2>1, <2>4
    <3> QED
      BY <3>1, <3>2
  <2> QED
    BY <2>6, <2>7, <2>k, <2>t
<1> HIDE DEF N
<1>5. \A w \in Keyword, x \in Ind : Totals'[w][x] = s[w][x]
  BY <1>1, <1>4
<1>r. PICK r : r = Totals'
  OBVIOUS
<1>6. r = [w \in Keyword |-> [x \in Ind |-> r[w][x]]]
  BY <1>3, <1>r
<1>7. \A w \in Keyword : [x \in Ind |-> r[w][x]] = [x \in Ind |-> s[w][x]]
  BY <1>5, <1>r
<1>8. r = [w \in Keyword |-> [x \in Ind |-> s[w][x]]]
  BY <1>6, <1>7
<1> QED
  BY <1>4, <1>8, <1>r, <1>s

LEMMA RefinesInit == Init /\ CountsRight => Index!AInit
<1> SUFFICES ASSUME Init, CountsRight PROVE Index!AInit
  OBVIOUS
<1>1. updateCounter = 0 /\ finalRes = {}
  BY DEF Init
<1>2. ASSUME NEW w, NEW x, NEW op PROVE Cardinality(Those(w, x, op)) = 0
  <2>1. Those(w, x, op) = {}
    BY <1>1 DEF Those
  <2> QED
    BY <2>1, FS_EmptySet
<1>3. Totals = [w \in Keyword |-> [x \in Ind |-> 0]]
  BY <1>2 DEF Totals
<1> QED
  BY <1>1, <1>3 DEF Index!AInit, Index!Zero, CountsRight

LEMMA RefinesNext ==
    CInv /\ CountsRight /\ CountsRight' /\ [Next]_vars => [Index!ANext]_(Index!avars)
<1> SUFFICES ASSUME CInv, CountsRight, CountsRight', [Next]_vars
             PROVE  [Index!ANext]_(Index!avars)
  OBVIOUS
<1>b. Balance = Totals /\ Balance' = Totals'
  BY DEF CountsRight
<1>0. DInv /\ updateCounter \in Nat
  BY Numbers DEF CInv, DInv
<1>1. ASSUME NEW c \in Choices, SetupUpdate(c) \/ LiveUpdate(c) PROVE Index!ANext
  <2>1. c \in Calls
    <3>1. c \in Workload[updateCounter + 1] /\ updateCounter + 1 \in 1 .. MaxUpdates
      BY <1>0, <1>1, Numbers DEF Choices
    <3> QED
      BY <3>1, DeAmortizedAssumption
  <2>2. calls' = Append(calls, c) /\ updateCounter' = updateCounter + 1 /\ finalRes' = finalRes
    BY <1>1 DEF SetupUpdate, LiveUpdate, Update
  <2>3. Totals' = Index!Shifted(Totals, c.op, c.kw, c.ind)
    BY <2>1, <2>2, TotalsNext
  <2>4. c.op \in OP /\ c.kw \in Keyword /\ c.ind \in Ind
    BY <2>1 DEF Calls, Call
  <2>5. Index!AUpdate(c.op, c.kw, c.ind)
    BY <1>b, <2>2, <2>3 DEF Index!AUpdate
  <2> QED
    BY <2>4, <2>5 DEF Index!ANext, Index!OP, OP
<1>2. ASSUME UNCHANGED <<calls, updateCounter>> PROVE Balance' = Balance
  <2>1. Totals' = Totals
    BY <1>2 DEF Totals, Those
  <2> QED
    BY <1>b, <2>1
<1>3. ASSUME NEW w \in Keyword, Search(w) PROVE Index!ANext
  <2>1. finalRes' = {x \in Ind : Net(encIndexes(w), x) > 0}
    BY <1>3 DEF Search
  <2>2. Balance[w] = [x \in Ind |-> Net(encIndexes(w), x)]
    BY DEF Balance
  <2>3. finalRes' = Index!Positive(Balance[w])
    BY <2>1, <2>2 DEF Index!Positive
  <2>4. Balance' = Balance
    BY <1>2, <1>3 DEF Search
  <2>5. Index!ASearch(w)
    BY <2>3, <2>4 DEF Index!ASearch
  <2> QED
    BY <2>5 DEF Index!ANext
<1>4. ASSUME EndSetup \/ UNCHANGED vars PROVE UNCHANGED Index!avars
  <2>1. Balance' = Balance /\ finalRes' = finalRes
    BY <1>2, <1>4 DEF EndSetup, vars
  <2> QED
    BY <2>1 DEF Index!avars
<1> QED
  BY <1>1, <1>3, <1>4 DEF Next

\* Moving sets about and searching leave what a search counts, an update
\* changes one balance by one, and a search answers by the balances; for calls
\* within Calls, whose keywords a move reads back as they were.
THEOREM Refinement == Spec => RefinesIndex
BY RefinesInit, RefinesNext, CountingFact, ContentInvariance, PTL
   DEF Spec, RefinesIndex, Index!ASpec

-----------------------------------------------------------------------------
(* Types.                                                                  *)

\* The tables the contents do not need.
Tables ==
    /\ exist \in [Remote -> [0 .. NEW_ -> BOOLEAN]]
    /\ keys \in [Remote -> [0 .. NEW_ -> FirstKey \cup 1 .. MaxUpdates]]
    /\ cnt \in [Level -> Nat]
    /\ dummyValue \in [Remote -> Nat] /\ setupOMAPSDummies \in [Remote -> Nat]
    /\ finalRes \subseteq Ind

LEMMA ExistStep ==
    ASSUME Tables, NEW i \in Remote, NEW d
    PROVE  ExistAfter(i, d) \in [0 .. NEW_ -> BOOLEAN]
<1>1. exist[i] \in [0 .. NEW_ -> BOOLEAN]
  BY DEF Tables
<1>2. ReleasedExist(i, d) \in [0 .. NEW_ -> BOOLEAN]
  <2>1. ASSUME NEW e \in [0 .. NEW_ -> BOOLEAN], NEW b \in BOOLEAN
        PROVE  [e EXCEPT ![OLDEST] = b, ![OLDER] = FALSE, ![OLD] = FALSE]
                  \in [0 .. NEW_ -> BOOLEAN]
    OBVIOUS
  <2>2. (Size(store[i][OLD]) > 0) \in BOOLEAN
    OBVIOUS
  <2>3. CASE i + 1 \in d
    <3>1. ReleasedExist(i, d) = [exist[i] EXCEPT ![OLDEST] = Size(store[i][OLD]) > 0,
                                                 ![OLDER] = FALSE, ![OLD] = FALSE]
      BY <2>3 DEF ReleasedExist
    <3>2. [exist[i] EXCEPT ![OLDEST] = Size(store[i][OLD]) > 0,
                           ![OLDER] = FALSE, ![OLD] = FALSE] \in [0 .. NEW_ -> BOOLEAN]
      BY <1>1, <2>1, <2>2, Zenon
    <3> QED
      BY <3>1, <3>2, Zenon
  <2>4. CASE i + 1 \notin d
    BY <1>1, <2>4 DEF ReleasedExist
  <2> QED
    BY <2>3, <2>4
<1>3. PICK r, n : r = ReleasedExist(i, d) /\ n = Target(i, d)
  OBVIOUS
<1>4. [r EXCEPT ![n] = TRUE] \in [0 .. NEW_ -> BOOLEAN]
  BY <1>2, <1>3
<1> QED
  BY <1>2, <1>3, <1>4 DEF ExistAfter

LEMMA KeysStep ==
    ASSUME Tables, NEW i \in Remote, NEW d, NEW u \in 1 .. MaxUpdates
    PROVE  KeysAfter(i, u, d) \in [0 .. NEW_ -> FirstKey \cup 1 .. MaxUpdates]
<1>k. PICK K : K = FirstKey \cup 1 .. MaxUpdates /\ u \in K
  OBVIOUS
<1>1. PICK k \in [0 .. NEW_ -> K] : k = keys[i]
  BY <1>k DEF Tables
<1>n. PICK n : n = Target(i, d)
  OBVIOUS
<1>2. k[OLD] \in K /\ k[NEW_] \in K
  BY DEF OLD, NEW_
<1>3. PICK r \in [0 .. NEW_ -> K] : r = IF i + 1 \in d THEN [k EXCEPT ![OLDEST] = k[OLD]] ELSE k
  BY <1>2
<1>4. [r EXCEPT ![n] = k[NEW_], ![NEW_] = u] \in [0 .. NEW_ -> K]
  BY <1>2, <1>k
<1>5. KeysAfter(i, u, d) = IF i \in d THEN [r EXCEPT ![n] = k[NEW_], ![NEW_] = u] ELSE r
  BY <1>1, <1>3, <1>n DEF KeysAfter
<1> QED
  BY <1>3, <1>4, <1>5, <1>k

\* An update keeps the tables.
LEMMA TablesStep ==
    ASSUME Tables, Updated
    PROVE  Tables'
<1>0. DInv /\ updateCounter \in Nat /\ updateCounter + 1 <= MaxUpdates
  BY Numbers DEF Updated, DInv
<1>c. PICK c : (SetupUpdate(c) \/ LiveUpdate(c)) /\ Update(c)
  BY DEF Updated, SetupUpdate, LiveUpdate
<1>d. PICK d, u : u = updateCounter + 1 /\ d = Done(u)
  OBVIOUS
<1>u. u \in 1 .. MaxUpdates
  BY <1>0, <1>d, Numbers
<1>1. exist' \in [Remote -> [0 .. NEW_ -> BOOLEAN]]
  <2>1. exist' = [i \in Remote |-> ExistAfter(i, d)]
    BY <1>c, <1>d DEF Update
  <2> QED
    BY <2>1, ExistStep
<1>2. keys' \in [Remote -> [0 .. NEW_ -> FirstKey \cup 1 .. MaxUpdates]]
  <2>1. keys' = [i \in Remote |-> KeysAfter(i, u, d)]
    BY <1>c, <1>d DEF Update
  <2> QED
    BY <1>u, <2>1, KeysStep
<1>3. cnt' \in [Level -> Nat]
  <2>1. cnt' = [i \in Level |-> IF i \in d THEN 0 ELSE IF Merging(i) THEN cnt[i] + 1 ELSE cnt[i]]
    BY <1>c, <1>d DEF Update
  <2> QED
    BY <2>1 DEF Tables
<1>4. ASSUME NEW i \in Remote, i \in d PROVE upCnt(i, u) \in Nat
  <2>1. i \in Level \ {0}
    BY Numbers DEF Remote
  <2>2. Started(i, updateCounter)
    BY <1>0, <1>4, <1>d, <2>1, DoneFact DEF Ends
  <2>3. upCnt(i, u) = Finished(i, updateCounter) + 1
    BY <1>0, <1>d, <2>1, <2>2, UpCntFact
  <2> QED
    BY <1>0, <2>1, <2>3, Clock
<1>5. dummyValue' \in [Remote -> Nat] /\ setupOMAPSDummies' \in [Remote -> Nat]
  <2>1. \A v \in [Remote -> Nat] : DummiesAfter(v, u) \in [Remote -> Nat]
    BY <1>4, <1>d DEF DummiesAfter
  <2>2. /\ dummyValue' = DummiesAfter(dummyValue, u) \/ dummyValue' = dummyValue
        /\ \/ setupOMAPSDummies' = DummiesAfter(setupOMAPSDummies, u)
           \/ setupOMAPSDummies' = setupOMAPSDummies
    BY <1>c, <1>d DEF SetupUpdate, LiveUpdate
  <2> QED
    BY <2>1, <2>2 DEF Tables
<1>6. finalRes' \subseteq Ind
  BY <1>c DEF Update, Tables
<1> QED
  BY <1>1, <1>2, <1>3, <1>5, <1>6 DEF Tables

\* What a set or a merge holds fits its level.
LEMMA EntryFact ==
    ASSUME CInv, NEW i \in Level, NEW j \in 0 .. NEW_, NEW a \in DOMAIN store[i][j]
    PROVE  a[2] \in Keyword /\ a[3] \in 1 .. 2 ^ i /\ store[i][j][a] \in 1 .. updateCounter
<1>0. DInv /\ updateCounter \in Nat /\ updateCounter <= MaxUpdates
  BY Numbers DEF CInv, DInv
<1>l. LevelInv(i)
  BY <1>0 DEF DInv
<1>s. PICK s : s = store[i][j]
  OBVIOUS
<1>p. 2 ^ i \in Nat
  BY Numbers
<1>1. ASSUME NEW B, B \subseteq 1 .. updateCounter, Files(calls, s, B), Size(s) <= 2 ^ i
      PROVE  a[2] \in Keyword /\ a[3] \in 1 .. 2 ^ i /\ s[a] \in 1 .. updateCounter
  <2>1. /\ a[3] \in Nat \ {0} /\ \A p \in 1 .. a[3] : <<a[1], a[2], p>> \in DOMAIN s
        /\ s[a] \in 1 .. updateCounter /\ calls[s[a]].kw = a[2]
    BY <1>1, <1>s DEF Files
  <2>n. PICK n \in Nat \ {0} : n = a[3]
    BY <2>1
  <2>y. PICK y, w : y = a[1] /\ w = a[2]
    OBVIOUS
  <2>f. IsFiniteSet(DOMAIN s)
    BY <1>l, <1>s DEF LevelInv, Holds
  <2>2. n <= Size(s) /\ Size(s) \in Nat
    BY <2>1, <2>f, <2>n, <2>y, CountersFit, FS_CardinalityType DEF Size
  <2>3. a[2] \in Keyword
    <3>1. PICK v \in 1 .. updateCounter : calls[v].kw = a[2]
      BY <2>1
    <3>2. calls \in Seq(Calls) /\ Len(calls) = updateCounter
      BY DEF CInv
    <3>3. calls[v] \in Calls
      BY <3>2
    <3> QED
      BY <3>1, <3>3 DEF Calls, Call
  <2> QED
    BY <1>1, <1>p, <2>1, <2>2, <2>3, <2>n
<1>2. CASE j \in Full /\ j < SetCount(i, updateCounter)
  <2>1. /\ Block(i, Nth(i, j)) \subseteq 1 .. updateCounter
        /\ Files(calls, s, Block(i, Nth(i, j))) /\ Size(s) = 2 ^ i
    BY <1>2, <1>s, SetFact
  <2> QED
    BY <1>1, <1>p, <1>s, <2>1
<1>3. CASE j \in Full /\ ~(j < SetCount(i, updateCounter))
  <2>1. store[i][j] = Empty
    BY <1>3, <1>l DEF LevelInv, Holds
  <2> QED
    BY <2>1, EmptyFact
<1>4. CASE j \notin Full
  <2>1. j = NEW_
    BY <1>4 DEF Full, OLDEST, OLDER, OLD, NEW_
  <2>r. PICK r \in 0 .. 2 ^ i - 1 : r = Rest(i, updateCounter) /\ Size(s) = r
    BY <1>0, <1>l, <1>s, <2>1, Clock DEF LevelInv
  <2>2. r # 0
    <3> SUFFICES ASSUME r = 0 PROVE FALSE
      OBVIOUS
    <3>1. IsFiniteSet(DOMAIN s) /\ Cardinality(DOMAIN s) = 0
      BY <1>l, <1>s, <2>r DEF LevelInv, Holds, Size
    <3>2. DOMAIN s = {}
      BY <3>1, FS_EmptySet
    <3> QED
      BY <1>s, <3>2
  <2>3. i \in Level \ {0} /\ Started(i, updateCounter)
    <3>1. Started(i, updateCounter)
      BY <2>2, <2>r DEF Rest
    <3>2. i # 0
      <4> SUFFICES ASSUME i = 0 PROVE FALSE
        OBVIOUS
      <4>1. 2 ^ 0 = 1
        OBVIOUS
      <4> QED
        BY <2>2, <4>1
    <3> QED
      BY <3>1, <3>2
  <2>4. Files(calls, s, Copied(i, r))
    BY <1>s, <2>1, <2>3, <2>r DEF CInv, ContentInv
  <2>5. Copied(i, r) \subseteq 1 .. updateCounter
    <3>1. Copied(i, r + 1) \subseteq 1 .. updateCounter
      BY <2>3, <2>r, CopiedMade
    <3>2. 0 .. r - 1 \subseteq 0 .. (r + 1) - 1
      OBVIOUS
    <3>3. Copied(i, r) \subseteq Copied(i, r + 1)
      BY <3>2 DEF Copied
    <3> QED
      BY <3>1, <3>3
  <2>6. Size(s) <= 2 ^ i
    BY <1>p, <2>r
  <2> QED
    BY <1>1, <1>s, <2>4, <2>5, <2>6
<1> QED
  BY <1>2, <1>3, <1>4

LEMMA TablesInvariance == Spec => []Tables
<1>1. Init => Tables
  <2> SUFFICES ASSUME Init PROVE Tables
    OBVIOUS
  <2>1. exist \in [Remote -> [0 .. NEW_ -> BOOLEAN]]
    BY DEF Init
  <2>2. keys \in [Remote -> [0 .. NEW_ -> FirstKey \cup 1 .. MaxUpdates]]
    BY DEF Init
  <2>3. cnt \in [Level -> Nat] /\ dummyValue \in [Remote -> Nat]
        /\ setupOMAPSDummies \in [Remote -> Nat] /\ finalRes \subseteq Ind
    BY DEF Init
  <2> QED
    BY <2>1, <2>2, <2>3 DEF Tables
<1>2. DInv /\ Tables /\ [Next]_vars => Tables'
  <2> SUFFICES ASSUME DInv, Tables, [Next]_vars PROVE Tables'
    OBVIOUS
  <2>1. CASE \E c \in Choices : SetupUpdate(c) \/ LiveUpdate(c)
    <3>1. updateCounter + 1 <= MaxUpdates
      <4>1. updateCounter < MaxUpdates
        BY <2>1 DEF Choices
      <4> QED
        BY <4>1, Numbers DEF DInv
    <3>2. Updated
      BY <2>1, <3>1 DEF Updated
    <3> QED
      BY <3>2, TablesStep
  <2>2. CASE \E w \in Keyword : Search(w)
    BY <2>2 DEF Search, Tables
  <2>3. CASE EndSetup
    BY <2>3 DEF EndSetup, Tables
  <2>4. CASE UNCHANGED vars
    BY <2>4 DEF vars, Tables
  <2> QED
    BY <2>1, <2>2, <2>3, <2>4 DEF Next
<1> QED
  BY <1>1, <1>2, Invariance, PTL DEF Spec

\* The sets hold updates that were made, under keywords of the application and
\* counters no larger than the set, and the tables have their types.
THEOREM TypesKept == Spec => []TypeOK
<1>1. CInv /\ Tables => TypeOK
  <2> SUFFICES ASSUME CInv, Tables PROVE TypeOK
    OBVIOUS
  <2>1. /\ updateCounter \in 0 .. MaxUpdates /\ phase \in {"setup", "live"}
        /\ calls \in Seq(Calls) /\ Len(calls) = updateCounter
    BY DEF CInv, DInv
  <2>2. \A i \in Level, j \in 0 .. NEW_ :
           \A a \in DOMAIN store[i][j] :
              a[2] \in Keyword /\ a[3] \in 1 .. 2 ^ i
                /\ store[i][j][a] \in 1 .. updateCounter
    BY EntryFact
  <2> QED
    BY <2>1, <2>2 DEF Tables, TypeOK
<1> QED
  BY <1>1, ContentInvariance, TablesInvariance, PTL
=============================================================================
