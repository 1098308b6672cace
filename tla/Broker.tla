------------------------------- MODULE Broker -------------------------------
(***************************************************************************)
(* The evaluator processes draining the queue                              *)
(* (backend/cmd/evaluator/main.go, drain; what one message does to the     *)
(* queue comes from EvaluationService.Process and deadLetter).             *)
(*                                                                         *)
(* A worker leases a batch, works its messages one after another and       *)
(* leases again.  A lease can lapse while its message waits in the batch   *)
(* or is being judged, and then two workers hold the same message.  Here a *)
(* message is its topic and the claim version it is about, and of a claim  *)
(* only the versions judged so far are kept: what else the work does to    *)
(* claims, and the rubric it is judged under, is the module                *)
(* ClaimPipeline's.                                                        *)
(***************************************************************************)
EXTENDS EvaluationJobs

CONSTANTS
  Claims,       \* the claims messages are about
  Versions,     \* the versions a claim can have
  Workers,      \* the evaluator processes
  Batch,        \* the flag --batch
  NoJob         \* no message in hand

ASSUME BrokerConstants ==
  /\ Batch \in Nat \ {0}
  /\ NoJob \notin JobIds
  /\ IsFiniteSet(Workers)
  /\ Messages = [topic : {"claims.live", "claims.sweep"},
                 claim : Claims, version : Versions]

VARIABLES
  worker,       \* what each evaluator process is doing
  committed,    \* how often the work of a job was committed (not a column)
  parked,       \* how many dead-letter rows a job has
  judged        \* the claim versions an evaluation is recorded of, whatever
                \* the rubric: rows of evaluations are never deleted

vars == <<jobs, ahead, worker, committed, parked, judged>>

\* "running" with an empty inbox polls; "parking" is between the dead-letter
\* row of its `current' message and that message's ack; "stopped" is drain
\* having returned an error, which ends the process; "crashed" is any other end.
WorkerState == [pc      : {"running", "parking", "stopped", "crashed"},
                inbox   : SUBSET JobIds,
                current : JobIds \cup {NoJob}]

TypeOK ==
  /\ JobsTypeOK
  /\ worker \in [Workers -> WorkerState]
  /\ committed \in [JobIds -> Nat]
  /\ parked \in [JobIds -> Nat]
  /\ judged \subseteq Claims \X Versions
  /\ \A i \in JobIds : jobs[i].state # "free" => jobs[i].msg \in Messages

Idle == [pc |-> "running", inbox |-> {}, current |-> NoJob]
Down(how) == [pc |-> how, inbox |-> {}, current |-> NoJob]

Init ==
  /\ JobsInit
  /\ worker = [w \in Workers |-> Idle]
  /\ committed = [i \in JobIds |-> 0]
  /\ parked = [i \in JobIds |-> 0]
  /\ judged = {}

-----------------------------------------------------------------------------
(* The transactions that publish                                           *)

\* The messages one transaction publishes on a topic, one per free identifier.
Batches(topic, S) == [S -> {m \in Messages : m.topic = topic}]

\* A submission or an accepted dispute.
PublishLive ==
  /\ \E i \in FreeIds : \E batch \in Batches("claims.live", {i}) : Publish(batch)
  /\ UNCHANGED <<worker, committed, parked, judged>>

\* A rubric sweep: the whole corpus in one transaction.
PublishSweep ==
  /\ \E S \in SUBSET FreeIds :
       /\ S # {}
       /\ \E batch \in Batches("claims.sweep", S) : Publish(batch)
  /\ UNCHANGED <<worker, committed, parked, judged>>

-----------------------------------------------------------------------------
(* A worker                                                                *)

Consume(w) ==
  /\ worker[w].pc = "running" /\ worker[w].inbox = {}
  /\ Claimable # {}
  /\ \E S \in NextBatch(Batch) :
       /\ LeaseRows(S)
       /\ worker' = [worker EXCEPT ![w].inbox = S]
  /\ UNCHANGED <<committed, parked, judged>>

\* The rows come back in no stated order, so any message is the next one.
Holds(w, i) == worker[w].pc = "running" /\ i \in worker[w].inbox
Drop(w, i) == [worker[w] EXCEPT !.inbox = @ \ {i}]

\* What message i asks to have judged.
Subject(i) == <<jobs[i].msg.claim, jobs[i].msg.version>>

\* An evaluation is recorded of the version its claim had when Process read it,
\* which an edit can have made another one than the message names.
RecordEvaluation(i) ==
  \E v \in Versions : judged' = judged \cup {<<jobs[i].msg.claim, v>>}

\* (A fault: an ack that does not mind a missing row.)
CompleteUnchecked(w, i) ==
  /\ Holds(w, i)
  /\ \/ InQueue(i) /\ AckRow(i)
     \/ ~InQueue(i) /\ UNCHANGED jobVars
  /\ RecordEvaluation(i)
  /\ committed' = [committed EXCEPT ![i] = @ + 1]
  /\ worker' = [worker EXCEPT ![w] = Drop(w, i)]
  /\ UNCHANGED parked

\* Process commits: the work and the ack are one transaction.
Complete(w, i) ==
  /\ Holds(w, i) /\ InQueue(i)
  /\ AckRow(i)
  /\ RecordEvaluation(i)
  /\ committed' = [committed EXCEPT ![i] = @ + 1]
  /\ worker' = [worker EXCEPT ![w] = Drop(w, i)]
  /\ UNCHANGED parked

\* (A fault: any evaluation of the claim will do, whatever its version.)
AckJudgedAnyVersion(w, i) ==
  /\ Holds(w, i) /\ InQueue(i)
  /\ \E v \in Versions : <<jobs[i].msg.claim, v>> \in judged
  /\ AckRow(i)
  /\ worker' = [worker EXCEPT ![w] = Drop(w, i)]
  /\ UNCHANGED <<committed, parked, judged>>

\* Process finds the version judged already and acks, with no work and no dead
\* letter: a second message about one version, an accepted dispute's job.
AckJudged(w, i) ==
  /\ Holds(w, i) /\ InQueue(i)
  /\ Subject(i) \in judged
  /\ AckRow(i)
  /\ worker' = [worker EXCEPT ![w] = Drop(w, i)]
  /\ UNCHANGED <<committed, parked, judged>>

\* Process fails, and the message goes back with a backoff.
Fail(w, i) ==
  /\ Holds(w, i) /\ InQueue(i)
  /\ NackRow(i)
  /\ worker' = [worker EXCEPT ![w] = Drop(w, i)]
  /\ UNCHANGED <<committed, parked, judged>>

\* The row is gone: the ack finds nothing, the work is rolled back, Process
\* reports the error, and the nack that answers it finds nothing either, which
\* makes drain return.
FindGone(w, i) ==
  /\ Holds(w, i) /\ ~InQueue(i)
  /\ worker' = [worker EXCEPT ![w] = Down("stopped")]
  /\ UNCHANGED <<jobs, ahead, committed, parked, judged>>

\* (A fault: the dead letter is acked and not written.)
ParkSilently(w, i) ==
  /\ Holds(w, i)
  /\ worker' = [worker EXCEPT ![w] =
                  [Drop(w, i) EXCEPT !.pc = "parking", !.current = i]]
  /\ UNCHANGED <<jobs, ahead, committed, parked, judged>>

\* deadLetter's first half, a statement of its own.
Park(w, i) ==
  /\ Holds(w, i)
  /\ parked' = [parked EXCEPT ![i] = @ + 1]
  /\ worker' = [worker EXCEPT ![w] =
                  [Drop(w, i) EXCEPT !.pc = "parking", !.current = i]]
  /\ UNCHANGED <<jobs, ahead, committed, judged>>

\* Its second half: an ack that does not mind a missing row.
AckParked(w) ==
  /\ worker[w].pc = "parking"
  /\ \/ InQueue(worker[w].current) /\ AckRow(worker[w].current)
     \/ ~InQueue(worker[w].current) /\ UNCHANGED jobVars
  /\ worker' = [worker EXCEPT ![w].pc = "running", ![w].current = NoJob]
  /\ UNCHANGED <<committed, parked, judged>>

Crash(w) ==
  /\ worker[w].pc \in {"running", "parking"}
  /\ worker' = [worker EXCEPT ![w] = Down("crashed")]
  /\ UNCHANGED <<jobs, ahead, committed, parked, judged>>

\* Someone starts the process again; nothing in the repository does.
Restart(w) ==
  /\ worker[w].pc \in {"stopped", "crashed"}
  /\ worker' = [worker EXCEPT ![w] = Idle]
  /\ UNCHANGED <<jobs, ahead, committed, parked, judged>>

-----------------------------------------------------------------------------

Lapse(i) == LeaseLapses(i) /\ UNCHANGED <<worker, committed, parked, judged>>
Return(i) == BackoffEnds(i) /\ UNCHANGED <<worker, committed, parked, judged>>

Work(w) ==
  \/ \E i \in JobIds :
       Complete(w, i) \/ AckJudged(w, i) \/ Fail(w, i) \/ FindGone(w, i) \/ Park(w, i)
  \/ AckParked(w)

Next ==
  \/ PublishLive
  \/ PublishSweep
  \/ \E w \in Workers : Consume(w) \/ Work(w) \/ Crash(w) \/ Restart(w)
  \/ \E i \in JobIds : Lapse(i) \/ Return(i)

\* The clock moves, and a live process gets on with its loop.  Nothing is
\* assumed of publishers, of crashes or of anyone restarting a process.
Fairness ==
  /\ \A w \in Workers : WF_vars(Consume(w)) /\ WF_vars(Work(w))
  /\ \A i \in JobIds : WF_vars(Lapse(i)) /\ WF_vars(Return(i))

Spec == Init /\ [][Next]_vars
FairSpec == Spec /\ Fairness
=============================================================================
