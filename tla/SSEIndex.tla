------------------------------ MODULE SSEIndex ------------------------------
(***************************************************************************)
(* What a keyword index promises to its caller, whatever stores it.        *)
(*                                                                         *)
(* An update (INS or DEL of a document identifier under a keyword) shifts  *)
(* the balance of the identifier by one; a search reports the identifiers  *)
(* whose balance is positive.  Mitra, the amortized and the de-amortized   *)
(* scheme all answer by this count.  With Cleaning the answer also         *)
(* replaces the history it was computed from (Mitra's cleaning mode): a    *)
(* reported identifier counts once, any other not at all.                  *)
(*                                                                         *)
(* Updates of the setup phase are staged: no search sees them before       *)
(* EndSetup publishes them.                                                *)
(***************************************************************************)
EXTENDS Integers

CONSTANTS Keyword,   \* the keywords of the application
          Ind,       \* the document identifiers
          Cleaning   \* TRUE if a search compacts the keyword's history

VARIABLES balance,   \* balance[w][x]: INS minus DEL of x under w, published
          staged,    \* the same for the updates of the setup phase
          answer     \* what the last search returned

avars == <<balance, staged, answer>>

OP == {"INS", "DEL"}

Weight(op) == IF op = "INS" THEN 1 ELSE -1

Zero == [w \in Keyword |-> [x \in Ind |-> 0]]

Positive(b) == {x \in Ind : b[x] > 0}

Compacted(b) == [x \in Ind |-> IF b[x] > 0 THEN 1 ELSE 0]

Shifted(b, op, w, x) == [b EXCEPT ![w][x] = @ + Weight(op)]

AInit ==
    /\ balance = Zero
    /\ staged = Zero
    /\ answer = {}

AUpdate(op, w, x) ==
    /\ balance' = Shifted(balance, op, w, x)
    /\ UNCHANGED <<staged, answer>>

AStage(op, w, x) ==
    /\ staged' = Shifted(staged, op, w, x)
    /\ UNCHANGED <<balance, answer>>

AEndSetup ==
    /\ balance' = staged
    /\ staged' = Zero
    /\ UNCHANGED answer

ASearch(w) ==
    /\ answer' = Positive(balance[w])
    /\ balance' = IF Cleaning
                  THEN [balance EXCEPT ![w] = Compacted(@)]
                  ELSE balance
    /\ UNCHANGED staged

ANext ==
    \/ \E op \in OP, w \in Keyword, x \in Ind :
          AUpdate(op, w, x) \/ AStage(op, w, x)
    \/ \E w \in Keyword : ASearch(w)
    \/ AEndSetup

ASpec == AInit /\ [][ANext]_avars
=============================================================================
