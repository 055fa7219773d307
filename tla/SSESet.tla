------------------------------- MODULE SSESet -------------------------------
(***************************************************************************)
(* What a keyword index promises to a caller that inserts an identifier    *)
(* under a keyword only while it is absent and removes it only while it is *)
(* present: a set of identifiers per keyword, which a search returns.  QOS *)
(* and Horus are used this way.                                            *)
(***************************************************************************)
CONSTANTS Keyword,   \* the keywords of the application
          Ind        \* the document identifiers

VARIABLES contents,  \* contents[w]: the identifiers under w
          answer     \* what the last search returned

avars == <<contents, answer>>

AInit ==
    /\ contents = [w \in Keyword |-> {}]
    /\ answer = {}

AInsert(w, x) ==
    /\ x \notin contents[w]
    /\ contents' = [contents EXCEPT ![w] = @ \cup {x}]
    /\ UNCHANGED answer

ARemove(w, x) ==
    /\ x \in contents[w]
    /\ contents' = [contents EXCEPT ![w] = @ \ {x}]
    /\ UNCHANGED answer

ASearch(w) ==
    /\ answer' = contents[w]
    /\ UNCHANGED contents

ANext ==
    \E w \in Keyword :
        \/ \E x \in Ind : AInsert(w, x) \/ ARemove(w, x)
        \/ ASearch(w)

ASpec == AInit /\ [][ANext]_avars
=============================================================================
