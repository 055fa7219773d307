------------------------------- MODULE BoxMap -------------------------------
(***************************************************************************)
(* What an ORAM promises to the scheme above it: a map from identifiers to *)
(* values.  Any batch is written or read as one step.  PRFORAM and OMAP    *)
(* implement it.                                                           *)
(***************************************************************************)
CONSTANTS Bid,    \* identifiers
          Value,  \* their values
          Absent  \* what a read of a missing identifier returns

VARIABLES contents,  \* identifier -> value, for what was written so far
          answer     \* what the last batch of reads returned

avars == <<contents, answer>>

ValueOf(m, b) == IF b \in DOMAIN m THEN m[b] ELSE Absent

AInit == contents = [b \in {} |-> Absent] /\ answer = [b \in {} |-> Absent]

\* Nothing disappears; the identifiers of the batch get their values.
AWrite ==
    /\ DOMAIN contents \subseteq DOMAIN contents'
    /\ DOMAIN contents' \subseteq Bid
    /\ contents' \in [DOMAIN contents' -> Value]
    /\ UNCHANGED answer

\* The batch of reads sees the values written last.
ARead ==
    /\ DOMAIN answer' \subseteq Bid
    /\ answer' = [b \in DOMAIN answer' |-> ValueOf(contents, b)]
    /\ UNCHANGED contents

\* An identifier is written and its old value returned, or blank.
AUpdate(blank) ==
    /\ DOMAIN answer' \subseteq Bid
    /\ answer' = [b \in DOMAIN answer' |-> IF b \in DOMAIN contents THEN contents[b] ELSE blank]
    /\ DOMAIN contents' \subseteq DOMAIN contents \cup DOMAIN answer'
    /\ \A b \in DOMAIN contents \ DOMAIN answer' :
          b \in DOMAIN contents' /\ contents'[b] = contents[b]

\* Identifiers are given up; the values of the others stay.
AExpire ==
    /\ DOMAIN contents' \subseteq DOMAIN contents
    /\ contents' = [b \in DOMAIN contents' |-> contents[b]]
    /\ UNCHANGED answer

\* AUpdate and AExpire are not steps of every map.
ANext == AWrite \/ ARead

ASpec == AInit /\ [][ANext]_avars
=============================================================================
