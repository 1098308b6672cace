------------------------------- MODULE Consent -------------------------------
(***************************************************************************)
(* What a contributor is promised: nobody is asked about a job that is not *)
(* open, nobody's address is handed over but on their own yes, an answer   *)
(* is given once, and only somebody who said yes is recorded as hired.     *)
(***************************************************************************)
CONSTANTS Jobs, People

VARIABLES
  open,      \* jobs anybody may be asked about
  answer,    \* what each person said of each job
  address,   \* whose address the company holds, by job
  hired      \* whom a job was filled with

consentVars == <<open, answer, address, hired>>

Init ==
  /\ open = {}
  /\ answer = [j \in Jobs |-> [p \in People |-> "silent"]]
  /\ address = [j \in Jobs |-> {}]
  /\ hired = [j \in Jobs |-> {}]

Open(j) == open' = open \cup {j} /\ UNCHANGED <<answer, address, hired>>

Close(j) ==
  \E who \in SUBSET {p \in People : answer[j][p] = "yes"} :
    /\ open' = open \ {j}
    /\ hired' = [hired EXCEPT ![j] = @ \cup who]
    /\ UNCHANGED <<answer, address>>

Ask(j) ==
  /\ j \in open
  /\ \E who \in SUBSET {p \in People : answer[j][p] = "silent"} :
       answer' = [answer EXCEPT ![j] = [p \in People |-> IF p \in who THEN "asked" ELSE @[p]]]
  /\ UNCHANGED <<open, address, hired>>

Say(j, p) ==
  /\ answer[j][p] = "asked"
  /\ \/ /\ answer' = [answer EXCEPT ![j][p] = "yes"]
        /\ address' = [address EXCEPT ![j] = @ \cup {p}]
     \/ /\ answer' = [answer EXCEPT ![j][p] = "no"]
        /\ UNCHANGED address
  /\ UNCHANGED <<open, hired>>

GiveUp ==
  /\ \E late \in [Jobs -> SUBSET People] :
       /\ \A j \in Jobs : \A p \in late[j] : answer[j][p] = "asked"
       /\ answer' = [j \in Jobs |-> [p \in People |->
                       IF p \in late[j] THEN "late" ELSE answer[j][p]]]
  /\ UNCHANGED <<open, address, hired>>

Next ==
  \/ \E j \in Jobs : Open(j) \/ Close(j) \/ Ask(j) \/ \E p \in People : Say(j, p)
  \/ GiveUp

Spec == Init /\ [][Next]_consentVars
=============================================================================
