--------------------------- MODULE TokenFamilies ---------------------------
(***************************************************************************)
(* What rotation promises of a refresh-token family, whatever the requests *)
(* in progress: it opens once, its newest token is only ever replaced      *)
(* while the family is live, and a family closed is closed for good.       *)
(***************************************************************************)
EXTENDS Naturals

CONSTANT Families

VARIABLES newest, live

familyVars == <<newest, live>>

Init == newest = [f \in Families |-> 0] /\ live = [f \in Families |-> FALSE]

Open(f) ==
  /\ newest[f] = 0
  /\ newest' = [newest EXCEPT ![f] = f]
  /\ live' = [live EXCEPT ![f] = TRUE]

Advance(f) ==
  /\ live[f]
  /\ \E n \in Families : n > newest[f] /\ newest' = [newest EXCEPT ![f] = n]
  /\ UNCHANGED live

Close(S) ==
  /\ live' = [f \in Families |-> live[f] /\ f \notin S]
  /\ UNCHANGED newest

Next == (\E f \in Families : Open(f) \/ Advance(f)) \/ \E S \in SUBSET Families : Close(S)

Spec == Init /\ [][Next]_familyVars
=============================================================================
