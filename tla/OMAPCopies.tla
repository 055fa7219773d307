----------------------------- MODULE OMAPCopies -----------------------------
(***************************************************************************)
(* The four copies of the oblivious map, with the state and the properties *)
(* of OMAP: a behaviour is one of one copy.                                *)
(***************************************************************************)
EXTENDS OMAP

M == INSTANCE MitraOMAP

Q == INSTANCE QOSOMAP

S == INSTANCE StaticOMAP

H == INSTANCE HorusOMAP

Init == copy \in Copies /\ (M!Init \/ Q!Init \/ S!Init \/ H!Init)

Next ==
    \/ copy = "mitra" /\ M!Next
    \/ copy = "qos" /\ Q!Next
    \/ copy = "static" /\ S!Next
    \/ copy = "horus" /\ H!Next

Spec == Init /\ [][Next]_vars
=============================================================================
