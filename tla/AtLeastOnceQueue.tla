-------------------------- MODULE AtLeastOnceQueue --------------------------
(***************************************************************************)
(* What port.Broker promises the code above it, with no table, lease or    *)
(* worker in sight: a published message is delivered, again and again if   *)
(* need be but at most Limit times, until it is settled; its work takes    *)
(* effect at most once and only in the step that settles it; a settled     *)
(* message is never delivered again, and one settled without effect is on  *)
(* record or asked for what had been done under another message.           *)
(***************************************************************************)
EXTENDS Integers

CONSTANTS
  Ids,          \* the messages that can be published
  Subjects,     \* what a message can ask for
  NoSubject,    \* what nobody has asked for
  Limit         \* how often one message can be delivered, a natural number

VARIABLES
  subject,      \* what each message asks for
  done,         \* what has been done, under any message
  status,       \* "absent", "waiting" or "settled"
  delivered,    \* how often each message has been delivered
  effective,    \* the messages whose work has taken effect
  recorded      \* the messages a human has been left a record of

queueVars == <<subject, done, status, delivered, effective, recorded>>

QueueInit ==
  /\ subject = [i \in Ids |-> NoSubject]
  /\ done = {}
  /\ status = [i \in Ids |-> "absent"]
  /\ delivered = [i \in Ids |-> 0]
  /\ effective = {}
  /\ recorded = {}

Waiting == {i \in Ids : status[i] = "waiting"}

Accept(S) ==
  /\ \A i \in S : status[i] = "absent"
  /\ status' = [i \in Ids |-> IF i \in S THEN "waiting" ELSE status[i]]
  /\ \E asked \in [S -> Subjects] :
       subject' = [i \in Ids |-> IF i \in S THEN asked[i] ELSE subject[i]]
  /\ UNCHANGED <<done, delivered, effective, recorded>>

Deliver(S) ==
  /\ \A i \in S : delivered[i] < Limit
  /\ delivered' = [i \in Ids |-> IF i \in S THEN delivered[i] + 1 ELSE delivered[i]]
  /\ UNCHANGED <<subject, done, status, effective, recorded>>

\* What gets done is what the message's claim has become, not always what the
\* message asks for.
TakeEffect(i) ==
  /\ i \in Waiting /\ delivered[i] > 0
  /\ status' = [status EXCEPT ![i] = "settled"]
  /\ effective' = effective \cup {i}
  /\ \E s \in Subjects : done' = done \cup {s}
  /\ UNCHANGED <<subject, delivered, recorded>>

\* Nothing is left to do for it.
Dismiss(i) ==
  /\ i \in Waiting /\ delivered[i] > 0
  /\ subject[i] \in done
  /\ status' = [status EXCEPT ![i] = "settled"]
  /\ UNCHANGED <<subject, done, delivered, effective, recorded>>

PutOnRecord(i) ==
  /\ delivered[i] > 0
  /\ recorded' = recorded \cup {i}
  /\ UNCHANGED <<subject, done, status, delivered, effective>>

GiveUp(i) ==
  /\ i \in Waiting \cap recorded
  /\ status' = [status EXCEPT ![i] = "settled"]
  /\ UNCHANGED <<subject, done, delivered, effective, recorded>>

QueueNext ==
  \/ \E S \in SUBSET Ids : Accept(S)
  \/ \E S \in SUBSET Waiting : Deliver(S)
  \/ \E i \in Ids : TakeEffect(i) \/ Dismiss(i) \/ PutOnRecord(i) \/ GiveUp(i)

QueueSpec == QueueInit /\ [][QueueNext]_queueVars
=============================================================================
