------------------------------- MODULE MCOMAP -------------------------------
(* Instances of the copies of the oblivious map for TLC. *)
EXTENDS OMAPCopies

\* Mitra: inner cases on both sides, the last one with a subtree T2: rightRotate
\* of 5 hands 4 over from 3.  QOS: the root changes.  Static: a merge of five
\* keywords and one of two.  Horus: one key more than blocks.
CopyOrder == [mitra |-> <<3, 1, 2, 6, 5, 4>>, qos |-> <<1, 2, 3>>,
              static |-> <<5, 3, 1, 7, 6, 2, 4>>, horus |-> <<4, 2, 6, 1, 3, 5, 7>>]

\* Static: 2 and 4 are the keywords of 1 and 3 in the second merge.
CopyStamp == [b \in 1 .. 7 |-> IF b \in {2, 4} THEN 2 ELSE 1]

\* One block takes any leaf, the others a fixed one.  For Mitra and the static
\* scheme mostly the same one, so that blocks stay in the cache.
CopyRandom ==
    [mitra  |-> [b \in 1 .. 7 |-> CASE b = 3 -> {0, 1} [] b = 2 -> {0} [] OTHER -> {1}],
     qos    |-> [b \in 1 .. 7 |-> IF b = 2 THEN {0, 1} ELSE {b % 2}],
     static |-> [b \in 1 .. 7 |-> IF b = 3 THEN {0, 1} ELSE {0}],
     horus  |-> [b \in 1 .. 7 |-> IF b = 6 THEN {0, 1} ELSE {b % 2}]]

\* A counter of each copy gains a digit.
CopyValues ==
    [mitra  |-> [b \in 1 .. 7 |-> IF b = 3 THEN {<<9, 0>>, <<10, 0>>} ELSE {<<1, 0>>}],
     qos    |-> [b \in 1 .. 7 |-> CASE b = 1 -> {<<0, 0>>, <<0, 1>>}
                                    [] b = 2 -> {<<9, 0>>, <<10, 0>>}
                                    [] OTHER -> {<<0, 0>>}],
     static |-> [b \in 1 .. 7 |-> IF b = 3 THEN {<<9>>, <<10>>} ELSE {<<1>>}],
     horus  |-> [b \in 1 .. 7 |-> IF b = 4 THEN {<<9>>, <<10>>} ELSE {<<1>>}]]

\* Keys on both sides of the root.
CopyBatches == [mitra |-> {{1, 4, 6}}, qos |-> {{1, 3}}, static |-> {{1, 2, 7}},
                horus |-> {{1, 3, 6}}]

\* Horus: with more keys the tree would be higher than finilize counts.
CopySetup == [mitra |-> 6, qos |-> 3, static |-> 6, horus |-> 3]

\* The thinnest AVL tree of height 5, level by level: no insertion rotates.
TallOrder == [mitra |-> <<8, 5, 11, 3, 7, 10, 12, 2, 4, 6, 9, 1>>]

\* Only block 5, the larger child of the root, changes leaf.
TallRandom == [mitra |-> [b \in 1 .. 12 |-> IF b = 5 THEN {0, 1} ELSE {b % 2}]]

TallValues == [mitra |-> [b \in 1 .. 12 |-> {<<1, 0>>}]]

TallSetup == [mitra |-> 4]

TallBatches == [mitra |-> {}]

TallStamp == [b \in 1 .. 12 |-> 0]
=============================================================================
