--------------------------- MODULE MCDeAmortized ---------------------------
(* Instances of DeAmortized for TLC. *)
EXTENDS DeAmortized, TLC

CONSTANTS k1

\* Keyword 1 fills the bytes before the operation, keyword 2 leaves a zero.
KeywordLength == [w \in Keyword |-> IF w = 1 THEN OpAt ELSE OpAt - 1]

\* Whatever is read back for keyword 1 is no other keyword of the model.
Misread == [c \in Call |-> 0]

Ins(w) == [op |-> "INS", kw |-> w, ind |-> 5]
Del(w) == [op |-> "DEL", kw |-> w, ind |-> 5]

\* Long: a free choice at every third update.
LongWorkload ==
    [u \in 1 .. MaxUpdates |-> CASE u % 3 = 1 -> {Ins(1), Ins(2)}
                                 [] u % 3 = 2 -> {Ins(1)}
                                 [] OTHER -> {Del(2)}]
=============================================================================
