-------------------------- MODULE BrokerProperties --------------------------
(***************************************************************************)
(* What the queue and the workers that drain it are for.                   *)
(***************************************************************************)
EXTENDS Broker

\* No message's work is committed twice, however often the message is
\* delivered, and committed work always takes its row with it: Ack is in the
\* transaction it completes and fails on a missing row (Broker.Ack, "In the SAME
\* transaction as the work it completed").
CommittedOnce ==
  \A i \in JobIds : committed[i] > 0 => committed[i] = 1 /\ jobs[i].state = "acked"

\* A row leaves the table only with its work committed, with a dead letter left
\* for a human (deadLetter: "one discarded silently would lose a contributor's
\* submission with no trace"), or because the very version it asks for is judged
\* already (Process: "a redelivery of a completed evaluation acks and returns");
\* an evaluation that was stamped with another version settles nothing.
NothingDiscarded ==
  \A i \in JobIds : jobs[i].state = "acked" =>
    committed[i] > 0 \/ parked[i] > 0 \/ Subject(i) \in judged

\* A message in a worker's hands was delivered to it, and each delivery is worked
\* at most once: dead letters plus copies in hand never exceed the attempts
\* counted on the row, which is what bounds the model calls one job can cost.
InHand(i) == {w \in Workers : i \in worker[w].inbox}
SpendIsCounted ==
  \A i \in JobIds : parked[i] + Cardinality(InHand(i)) <= jobs[i].attempt

\* What a worker holds, it was given: its messages were delivered to it, and one
\* it is about to ack as a dead letter has its dead-letter row already.
HandsAreFull ==
  \A w \in Workers :
    /\ \A i \in worker[w].inbox : jobs[i].state # "free" /\ jobs[i].attempt > 0
    /\ worker[w].pc = "parking" =>
         /\ worker[w].current \in JobIds
         /\ jobs[worker[w].current].state # "free"
         /\ parked[worker[w].current] > 0

\* An identifier nothing was published under has no history.
UnusedIsBlank ==
  \A i \in JobIds : jobs[i].state = "free" =>
    jobs[i].attempt = 0 /\ committed[i] = 0 /\ parked[i] = 0

\* The inductive invariant under CommittedOnce, NothingDiscarded and the
\* refinement: a commit is of a queued row, so what excludes a second one is that
\* committed work left no row; an ack of a dead letter discards nothing because
\* its row was written first, which is a fact about the worker and not the table.
QueueInvariant ==
  TypeOK /\ HandsAreFull /\ UnusedIsBlank /\ CommittedOnce /\ NothingDiscarded

\* The queue the services see: Broker implements AtLeastOnceQueue.
PromisedStatus == [i \in JobIds |-> IF jobs[i].state = "free" THEN "absent"
                                   ELSE IF InQueue(i) THEN "waiting" ELSE "settled"]
Deliveries == [i \in JobIds |-> jobs[i].attempt]
Effective == {i \in JobIds : committed[i] > 0}
Recorded == {i \in JobIds : parked[i] > 0}
AskedFor == [i \in JobIds |-> IF jobs[i].state = "free" THEN NoMessage ELSE Subject(i)]

Promise == INSTANCE AtLeastOnceQueue WITH
  Ids <- JobIds, Limit <- MaxAttempts, NoSubject <- NoMessage,
  Subjects <- Claims \X Versions, subject <- AskedFor, done <- judged,
  status <- PromisedStatus, delivered <- Deliveries, effective <- Effective,
  recorded <- Recorded
DeliversAtLeastOnce == Promise!QueueSpec

\* Once some evaluator process stays up, no queued message waits for ever: it
\* leaves the table or uses up its attempts, whatever the other processes and the
\* leases do (DefaultLease: redelivery "is what makes a crashed worker
\* recoverable").
StaysUp(w) == <>[](worker[w].pc \in {"running", "parking"})
EveryJobEnds ==
  (\E w \in Workers : StaysUp(w)) =>
    \A i \in JobIds : InQueue(i) ~> (~InQueue(i) \/ Exhausted(i))

-----------------------------------------------------------------------------
(* What the code says of itself and does not do                            *)

\* "claims.live first and claims.sweep only when live is empty" (the header of
\* cmd/evaluator/main.go): no sweep row is leased while a live one is left
\* claimable.
LiveBeforeSweep ==
  [][\A i, j \in JobIds :
       /\ jobs'[i].attempt > jobs[i].attempt /\ jobs[i].msg.topic = "claims.sweep"
       /\ j \in Claimable /\ jobs[j].msg.topic = "claims.live"
       => jobs'[j].attempt > jobs[j].attempt]_vars

\* "A failure is NACKed rather than returned. One claim the model choked on must
\* not stop the queue" (drain): no failing message ends an evaluator process.
FailureStopsNoWorker == \A w \in Workers : worker[w].pc # "stopped"
=============================================================================
