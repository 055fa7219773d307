----------------------------- MODULE StoredCall -----------------------------
(***************************************************************************)
(* The 16-byte value that Amortized::update and DeAmortized::update store  *)
(* for a call, and curKeyword, the keyword a merge reads back from it.     *)
(*                                                                         *)
(* The keyword is copied to the front of a value of zeros; then the        *)
(* operation is written over byte OpAt and the identifier over the four    *)
(* bytes behind it.  The merge reads a C string, which ends at the first   *)
(* zero byte.  A keyword is modelled by its number and its length.         *)
(***************************************************************************)
EXTENDS Integers

CONSTANTS Keyword,  \* keywords, numbered
          Length,   \* Length[w]: bytes of w, none of them zero
          Garbled,  \* Garbled[c]: what is read back when w does not end with a 0
          Ind       \* document identifiers

\* AES_KEY_SIZE - 6
OpAt == 10

\* A longer keyword loses its end to the operation and the identifier in
\* every value.
ASSUME KeywordAssumption ==
    /\ Keyword \subseteq Nat
    /\ Length \in [Keyword -> 0 .. OpAt]

OP == {"INS", "DEL"}

\* Mutant: the codes of the operations are swapped.
OpByteSwapped(op) == IF op = "INS" THEN 1 ELSE 0

OpByte(op) == IF op = "INS" THEN 0 ELSE 1

Call == [op : OP, kw : Keyword, ind : Ind]

\* Only the operation can follow a keyword without a zero in between.
curKeyword(c) ==
    IF Length[c.kw] < OpAt \/ OpByte(c.op) = 0 THEN c.kw ELSE Garbled[c]

\* The calls of a caller that never deletes under a keyword of OpAt bytes:
\* such a value would be filed under another keyword by its next merge.
Calls == {c \in Call : Length[c.kw] < OpAt \/ c.op = "INS"}
=============================================================================
