----------------------------- MODULE BrokerProofs -----------------------------
(***************************************************************************)
(* The promises of the queue, for any number of jobs, workers, attempts    *)
(* and any batch size.                                                     *)
(***************************************************************************)
EXTENDS BrokerProperties, FiniteSetTheorems, TLAPS

-----------------------------------------------------------------------------
(* What each statement on evaluation_jobs keeps                            *)

\* The queue starts well typed: an empty table (NewBroker on a fresh schema).
LEMMA InitKeepsType == ASSUME JobsInit PROVE JobsTypeOK
<1>1. MaxAttempts \in Nat BY JobConstants
<1>2. FreeRow \in JobRow BY <1>1 DEF FreeRow, JobRow
<1> QED BY <1>2 DEF JobsInit, JobsTypeOK

\* Publishing known messages under unused identifiers keeps the rows well typed
\* (Broker.Publish).
LEMMA PublishKeepsType ==
  ASSUME JobsTypeOK, NEW batch, DOMAIN batch \subseteq JobIds,
         \A i \in DOMAIN batch : batch[i] \in Messages, Publish(batch)
  PROVE  JobsTypeOK'
<1> DEFINE new(i) == [state |-> "queued", msg |-> batch[i], attempt |-> 0,
                      leased |-> FALSE, due |-> TRUE]
<1>1. MaxAttempts \in Nat BY JobConstants
<1>2. \A i \in DOMAIN batch : new(i) \in JobRow BY <1>1 DEF JobRow
<1>3. jobs' \in [JobIds -> JobRow] BY <1>2 DEF Publish, JobsTypeOK
<1>4. ahead' \in SUBSET (JobIds \X JobIds) BY DEF Publish, JobsTypeOK, Due
<1> QED BY <1>3, <1>4 DEF JobsTypeOK

\* Leasing rows whose attempts are not spent keeps them well typed: the counter
\* stays within max_attempts (Broker.Consume).
LEMMA LeaseKeepsType ==
  ASSUME JobsTypeOK, NEW S \in SUBSET Claimable, LeaseRows(S)
  PROVE  JobsTypeOK'
<1>1. MaxAttempts \in Nat BY JobConstants
<1>2. ASSUME NEW i \in S
      PROVE  [jobs[i] EXCEPT !.leased = TRUE, !.attempt = @ + 1] \in JobRow
  <2>1. i \in JobIds /\ jobs[i].attempt < MaxAttempts BY DEF Claimable
  <2>2. jobs[i] \in JobRow BY <2>1 DEF JobsTypeOK
  <2>3. jobs[i].attempt + 1 \in 0 .. MaxAttempts BY <1>1, <2>1, <2>2 DEF JobRow
  <2> QED BY <2>2, <2>3 DEF JobRow
<1>3. jobs' \in [JobIds -> JobRow] BY <1>2 DEF LeaseRows, JobsTypeOK
<1> QED BY <1>3 DEF LeaseRows, JobsTypeOK

\* Deleting a row keeps the others (Broker.Ack).
LEMMA AckKeepsType ==
  ASSUME JobsTypeOK, NEW i \in JobIds, AckRow(i) PROVE JobsTypeOK'
<1>1. jobs[i] \in JobRow BY DEF JobsTypeOK
<1>2. [jobs[i] EXCEPT !.state = "acked", !.leased = FALSE, !.due = FALSE] \in JobRow
  BY <1>1 DEF JobRow
<1>3. jobs' \in [JobIds -> JobRow] BY <1>2 DEF AckRow, JobsTypeOK
<1>4. ahead' \in SUBSET (JobIds \X JobIds) BY DEF AckRow, OutOfOrder, JobsTypeOK
<1> QED BY <1>3, <1>4 DEF JobsTypeOK

\* Returning a row keeps it well typed (Broker.Nack).
LEMMA NackKeepsType ==
  ASSUME JobsTypeOK, NEW i \in JobIds, NackRow(i) PROVE JobsTypeOK'
<1>1. jobs[i] \in JobRow BY DEF JobsTypeOK
<1>2. [jobs[i] EXCEPT !.leased = FALSE, !.due = FALSE] \in JobRow
  BY <1>1 DEF JobRow
<1>3. jobs' \in [JobIds -> JobRow] BY <1>2 DEF NackRow, JobsTypeOK
<1>4. ahead' \in SUBSET (JobIds \X JobIds) BY DEF NackRow, OutOfOrder, JobsTypeOK
<1> QED BY <1>3, <1>4 DEF JobsTypeOK

\* Time keeps the rows well typed (the comparisons with now() in Consume).
LEMMA TimeKeepsType ==
  ASSUME JobsTypeOK, NEW i \in JobIds, LeaseLapses(i) \/ BackoffEnds(i)
  PROVE  JobsTypeOK'
<1>1. jobs[i] \in JobRow BY DEF JobsTypeOK
<1>2. CASE LeaseLapses(i)
  <2>1. [jobs[i] EXCEPT !.leased = FALSE] \in JobRow BY <1>1 DEF JobRow
  <2> QED BY <1>2, <2>1 DEF LeaseLapses, JobsTypeOK
<1>3. CASE BackoffEnds(i)
  <2>1. [jobs[i] EXCEPT !.due = TRUE] \in JobRow BY <1>1 DEF JobRow
  <2>2. ahead' \in SUBSET (JobIds \X JobIds) BY <1>3 DEF BackoffEnds, JobsTypeOK, Due
  <2> QED BY <1>3, <2>1, <2>2 DEF BackoffEnds, JobsTypeOK
<1> QED BY <1>2, <1>3

-----------------------------------------------------------------------------
(* What a statement does to the columns the invariants speak of            *)

\* Publish fills its own rows and no other (Broker.Publish).
LEMMA PublishRows ==
  ASSUME JobsTypeOK, NEW batch, DOMAIN batch \subseteq FreeIds, Publish(batch)
  PROVE  /\ \A j \in DOMAIN batch : /\ j \in JobIds
                                    /\ jobs[j].state = "free"
                                    /\ jobs'[j].state = "queued"
                                    /\ jobs'[j].msg = batch[j]
                                    /\ jobs'[j].attempt = 0
         /\ \A j \in JobIds : j \notin DOMAIN batch => jobs'[j] = jobs[j]
<1> QED BY DEF Publish, FreeIds, JobsTypeOK

\* Leasing counts one delivery on each row it takes (Broker.Consume).
LEMMA LeaseKeepsRows ==
  ASSUME JobsTypeOK, NEW S \in SUBSET Claimable, LeaseRows(S)
  PROVE  \A j \in JobIds :
           /\ jobs'[j].state = jobs[j].state
           /\ jobs'[j].msg = jobs[j].msg
           /\ jobs'[j].attempt = IF j \in S THEN jobs[j].attempt + 1 ELSE jobs[j].attempt
<1>1. \A j \in JobIds : jobs[j] \in JobRow BY DEF JobsTypeOK
<1> QED BY <1>1 DEF LeaseRows, JobRow

\* An ack takes one row out of the queue and leaves the others (Broker.Ack).
LEMMA AckKeepsRows ==
  ASSUME JobsTypeOK, NEW i \in JobIds, AckRow(i)
  PROVE  /\ \A j \in JobIds : /\ jobs'[j].msg = jobs[j].msg
                             /\ jobs'[j].attempt = jobs[j].attempt
         /\ jobs'[i].state = "acked"
         /\ \A j \in JobIds : j # i => jobs'[j] = jobs[j]
<1>1. \A j \in JobIds : jobs[j] \in JobRow BY DEF JobsTypeOK
<1> QED BY <1>1 DEF AckRow, JobsTypeOK, JobRow

\* A nack takes no row out of the queue and forgives no attempt (Broker.Nack).
LEMMA NackKeepsRows ==
  ASSUME JobsTypeOK, NEW i \in JobIds, NackRow(i)
  PROVE  \A j \in JobIds : /\ jobs'[j].state = jobs[j].state
                          /\ jobs'[j].msg = jobs[j].msg
                          /\ jobs'[j].attempt = jobs[j].attempt
<1>1. \A j \in JobIds : jobs[j] \in JobRow BY DEF JobsTypeOK
<1> QED BY <1>1 DEF NackRow, JobsTypeOK, JobRow

\* What time does to a row it does not touch otherwise (Broker.Consume).
LEMMA TimeKeepsRows ==
  ASSUME JobsTypeOK, NEW i \in JobIds, LeaseLapses(i) \/ BackoffEnds(i)
  PROVE  \A j \in JobIds : /\ jobs'[j].state = jobs[j].state
                           /\ jobs'[j].msg = jobs[j].msg
                           /\ jobs'[j].attempt = jobs[j].attempt
<1>1. \A j \in JobIds : jobs[j] \in JobRow BY DEF JobsTypeOK
<1> QED BY <1>1 DEF LeaseLapses, BackoffEnds, JobsTypeOK, JobRow

-----------------------------------------------------------------------------
(* Type correctness                                                        *)

\* The broker starts well typed (an empty table, every worker polling).
LEMMA InitType == Init => TypeOK
<1> SUFFICES ASSUME Init PROVE TypeOK OBVIOUS
<1>1. JobsTypeOK BY InitKeepsType DEF Init
<1>2. Idle \in WorkerState BY DEF Idle, WorkerState
<1>3. \A i \in JobIds : jobs[i].state = "free" BY DEF Init, JobsInit, FreeRow
<1> QED BY <1>1, <1>2, <1>3 DEF Init, TypeOK

\* A worker's record stays well typed when it drops a message, goes down or
\* starts again (drain's local variables).
LEMMA WorkerRecords ==
  ASSUME TypeOK, NEW w \in Workers, NEW i \in JobIds
  PROVE  /\ Drop(w, i) \in WorkerState
         /\ [Drop(w, i) EXCEPT !.pc = "parking", !.current = i] \in WorkerState
         /\ [worker[w] EXCEPT !.pc = "running", !.current = NoJob] \in WorkerState
         /\ Drop(w, i).pc = worker[w].pc
         /\ Drop(w, i).inbox = worker[w].inbox \ {i}
         /\ Drop(w, i).current = worker[w].current
<1>1. worker[w] \in WorkerState BY DEF TypeOK
<1>2. worker[w].inbox \ {i} \in SUBSET JobIds BY <1>1 DEF WorkerState
<1>3. Drop(w, i) \in WorkerState BY <1>1, <1>2 DEF Drop, WorkerState
<1>4. [Drop(w, i) EXCEPT !.pc = "parking", !.current = i] \in WorkerState
  BY <1>3 DEF WorkerState
<1>5. [worker[w] EXCEPT !.pc = "running", !.current = NoJob] \in WorkerState
  BY <1>1 DEF WorkerState
<1> QED BY <1>1, <1>3, <1>4, <1>5 DEF Drop, WorkerState

\* A statement that fills no row and changes no payload leaves every published
\* row with its message (Consume, Ack, Nack and the clock).
LEMMA MessagesStay ==
  ASSUME TypeOK, \A j \in JobIds : /\ jobs'[j].msg = jobs[j].msg
                                   /\ jobs'[j].state # "free" => jobs[j].state # "free"
  PROVE  \A j \in JobIds : jobs'[j].state # "free" => jobs'[j].msg \in Messages
<1> QED BY DEF TypeOK

\* What is judged is a version of a claim (Record stamps the claim's version).
LEMMA JudgedKeepsType ==
  ASSUME TypeOK, NEW i \in JobIds, jobs[i].state # "free", RecordEvaluation(i)
  PROVE  judged' \subseteq Claims \X Versions
<1>1. jobs[i].msg \in Messages BY DEF TypeOK
<1>2. jobs[i].msg.claim \in Claims BY <1>1, BrokerConstants
<1> QED BY <1>2 DEF TypeOK, RecordEvaluation

\* Every step of publishers, workers and the clock keeps the types (Broker's
\* statements and drain's loop).
LEMMA StepType == TypeOK /\ [Next]_vars => TypeOK'
<1> SUFFICES ASSUME TypeOK, [Next]_vars PROVE TypeOK' OBVIOUS
<1> USE BrokerConstants
<1>1. CASE PublishLive
  <2>1. PICK i \in FreeIds : \E batch \in Batches("claims.live", {i}) : Publish(batch)
    BY <1>1 DEF PublishLive
  <2>2. PICK batch \in Batches("claims.live", {i}) : Publish(batch) BY <2>1
  <2>3. DOMAIN batch \subseteq FreeIds /\ \A j \in DOMAIN batch : batch[j] \in Messages
    BY DEF Batches
  <2>4. JobsTypeOK' BY <2>2, <2>3, PublishKeepsType DEF TypeOK, FreeIds
  <2>5. \A j \in JobIds : jobs'[j].state # "free" => jobs'[j].msg \in Messages
    BY <2>2, <2>3, PublishRows DEF TypeOK
  <2> QED BY <1>1, <2>4, <2>5 DEF PublishLive, TypeOK
<1>2. CASE PublishSweep
  <2>1. PICK S \in SUBSET FreeIds : \E batch \in Batches("claims.sweep", S) : Publish(batch)
    BY <1>2 DEF PublishSweep
  <2>2. PICK batch \in Batches("claims.sweep", S) : Publish(batch) BY <2>1
  <2>3. DOMAIN batch \subseteq FreeIds /\ \A j \in DOMAIN batch : batch[j] \in Messages
    BY DEF Batches
  <2>4. JobsTypeOK' BY <2>2, <2>3, PublishKeepsType DEF TypeOK, FreeIds
  <2>5. \A j \in JobIds : jobs'[j].state # "free" => jobs'[j].msg \in Messages
    BY <2>2, <2>3, PublishRows DEF TypeOK
  <2> QED BY <1>2, <2>4, <2>5 DEF PublishSweep, TypeOK
<1>3. ASSUME NEW w \in Workers, Consume(w) PROVE TypeOK'
  <2>1. PICK S \in NextBatch(Batch) :
          LeaseRows(S) /\ worker' = [worker EXCEPT ![w].inbox = S]
    BY <1>3 DEF Consume
  <2>2. S \in SUBSET Claimable BY DEF NextBatch
  <2>3. JobsTypeOK' BY <2>1, <2>2, LeaseKeepsType DEF TypeOK
  <2>4. S \in SUBSET JobIds BY <2>2 DEF Claimable
  <2>5. [worker[w] EXCEPT !.inbox = S] \in WorkerState BY <2>4 DEF TypeOK, WorkerState
  <2>6. \A j \in JobIds : jobs'[j].state # "free" => jobs'[j].msg \in Messages
    BY <2>1, <2>2, LeaseKeepsRows, MessagesStay DEF TypeOK
  <2> QED BY <1>3, <2>1, <2>3, <2>5, <2>6 DEF Consume, TypeOK
<1>4. ASSUME NEW w \in Workers, NEW i \in JobIds, Complete(w, i) PROVE TypeOK'
  <2>1. JobsTypeOK' BY <1>4, AckKeepsType DEF Complete, TypeOK
  <2>2. committed[i] + 1 \in Nat BY DEF TypeOK
  <2>3. committed' \in [JobIds -> Nat] BY <1>4, <2>2 DEF Complete, TypeOK
  <2>4. judged' \subseteq Claims \X Versions BY <1>4, JudgedKeepsType DEF Complete, InQueue
  <2>5. \A j \in JobIds : jobs'[j].state # "free" => jobs'[j].msg \in Messages
    <3>1. jobs[i].state # "free" BY <1>4 DEF Complete, InQueue
    <3> QED BY <1>4, <3>1, AckKeepsRows, MessagesStay DEF Complete, TypeOK
  <2> QED BY <1>4, <2>1, <2>3, <2>4, <2>5, WorkerRecords DEF Complete, TypeOK
<1>13. ASSUME NEW w \in Workers, NEW i \in JobIds, AckJudged(w, i) PROVE TypeOK'
  <2>1. JobsTypeOK' BY <1>13, AckKeepsType DEF AckJudged, TypeOK
  <2>2. \A j \in JobIds : jobs'[j].state # "free" => jobs'[j].msg \in Messages
    <3>1. jobs[i].state # "free" BY <1>13 DEF AckJudged, InQueue
    <3> QED BY <1>13, <3>1, AckKeepsRows, MessagesStay DEF AckJudged, TypeOK
  <2> QED BY <1>13, <2>1, <2>2, WorkerRecords DEF AckJudged, TypeOK
<1>5. ASSUME NEW w \in Workers, NEW i \in JobIds, Fail(w, i) PROVE TypeOK'
  <2>1. JobsTypeOK' BY <1>5, NackKeepsType DEF Fail, TypeOK
  <2>2. \A j \in JobIds : jobs'[j].state # "free" => jobs'[j].msg \in Messages
    BY <1>5, NackKeepsRows, MessagesStay DEF Fail, TypeOK
  <2> QED BY <1>5, <2>1, <2>2, WorkerRecords DEF Fail, TypeOK
<1>6. ASSUME NEW w \in Workers, NEW i \in JobIds, FindGone(w, i) PROVE TypeOK'
  <2>1. Down("stopped") \in WorkerState BY DEF Down, WorkerState
  <2> QED BY <1>6, <2>1 DEF FindGone, TypeOK, JobsTypeOK
<1>7. ASSUME NEW w \in Workers, NEW i \in JobIds, Park(w, i) PROVE TypeOK'
  <2>1. parked[i] + 1 \in Nat BY DEF TypeOK
  <2>2. parked' \in [JobIds -> Nat] BY <1>7, <2>1 DEF Park, TypeOK
  <2> QED BY <1>7, <2>2, WorkerRecords DEF Park, TypeOK, JobsTypeOK
<1>8. ASSUME NEW w \in Workers, AckParked(w) PROVE TypeOK'
  <2>1. worker' \in [Workers -> WorkerState]
    <3>1. [worker[w] EXCEPT !.pc = "running", !.current = NoJob] \in WorkerState
      BY DEF TypeOK, WorkerState
    <3> QED BY <1>8, <3>1 DEF AckParked, TypeOK
  <2>2. CASE InQueue(worker[w].current) /\ AckRow(worker[w].current)
    <3>2. \A j \in JobIds : jobs'[j].state # "free" => jobs'[j].msg \in Messages
      <4>1. CASE worker[w].current \in JobIds
        <5>1. jobs[worker[w].current].state # "free" BY <2>2 DEF InQueue
        <5> QED BY <2>2, <4>1, <5>1, AckKeepsRows, MessagesStay DEF TypeOK
      <4>2. CASE worker[w].current \notin JobIds
        <5>1. jobs' = jobs BY <2>2, <4>2 DEF AckRow, TypeOK, JobsTypeOK
        <5> QED BY <5>1 DEF TypeOK
      <4> QED BY <4>1, <4>2
    <3>1. JobsTypeOK'
      <4>1. CASE worker[w].current \in JobIds BY <2>2, <4>1, AckKeepsType DEF TypeOK
      <4>2. CASE worker[w].current \notin JobIds
        <5>1. jobs' = jobs BY <2>2, <4>2 DEF AckRow, TypeOK, JobsTypeOK
        <5>2. ahead' \subseteq ahead BY <2>2 DEF AckRow, OutOfOrder
        <5> QED BY <5>1, <5>2 DEF TypeOK, JobsTypeOK
      <4> QED BY <4>1, <4>2
    <3> QED BY <1>8, <2>1, <3>1, <3>2 DEF AckParked, TypeOK
  <2>3. CASE UNCHANGED jobVars
    BY <1>8, <2>1, <2>3 DEF AckParked, TypeOK, JobsTypeOK, jobVars
  <2> QED BY <1>8, <2>2, <2>3 DEF AckParked
<1>9. ASSUME NEW w \in Workers, Crash(w) PROVE TypeOK'
  <2>1. Down("crashed") \in WorkerState BY DEF Down, WorkerState
  <2> QED BY <1>9, <2>1 DEF Crash, TypeOK, JobsTypeOK
<1>10. ASSUME NEW w \in Workers, Restart(w) PROVE TypeOK'
  <2>1. Idle \in WorkerState BY DEF Idle, WorkerState
  <2> QED BY <1>10, <2>1 DEF Restart, TypeOK, JobsTypeOK
<1>11. ASSUME NEW i \in JobIds, Lapse(i) \/ Return(i) PROVE TypeOK'
  <2>1. JobsTypeOK' BY <1>11, TimeKeepsType DEF Lapse, Return, TypeOK
  <2>2. \A j \in JobIds : jobs'[j].state # "free" => jobs'[j].msg \in Messages
    BY <1>11, TimeKeepsRows, MessagesStay DEF Lapse, Return, TypeOK
  <2> QED BY <1>11, <2>1, <2>2 DEF Lapse, Return, TypeOK
<1>12. CASE UNCHANGED vars BY <1>12 DEF vars, TypeOK, JobsTypeOK
<1> QED BY <1>1, <1>2, <1>3, <1>4, <1>5, <1>6, <1>7, <1>8, <1>9, <1>10, <1>11, <1>12, <1>13
        DEF Next, Work

\* The rows, the workers and the counts keep their types in every run of the
\* queue: in particular no delivery takes a row past max_attempts (Consume).
THEOREM BrokerTypes == Spec => []TypeOK
<1> QED BY InitType, StepType, PTL DEF Spec

-----------------------------------------------------------------------------
(* The inductive invariant                                                 *)

\* It holds of the empty table (Init is a fresh schema and polling workers).
LEMMA InitInvariant == Init => QueueInvariant
<1> SUFFICES ASSUME Init PROVE QueueInvariant OBVIOUS
<1>1. TypeOK BY InitType
<1>2. HandsAreFull BY DEF Init, HandsAreFull, Idle
<1>3. UnusedIsBlank BY DEF Init, UnusedIsBlank, JobsInit, FreeRow
<1>4. CommittedOnce BY DEF Init, CommittedOnce
<1>5. NothingDiscarded BY DEF Init, NothingDiscarded, JobsInit, FreeRow
<1> QED BY <1>1, <1>2, <1>3, <1>4, <1>5 DEF QueueInvariant

\* A step that publishes, under identifiers that have no history (Broker.Publish
\* in the transaction of Submit, DecideReevaluation or Sweep).
LEMMA PublishInvariant ==
  ASSUME QueueInvariant, TypeOK', NEW batch, DOMAIN batch \subseteq FreeIds,
         Publish(batch), UNCHANGED <<worker, committed, parked, judged>>
  PROVE  QueueInvariant'
<1> USE DEF QueueInvariant
<1>1. JobsTypeOK BY DEF TypeOK
<1>2. \A j \in JobIds :
        \/ jobs'[j] = jobs[j]
        \/ jobs[j].state = "free" /\ jobs'[j].state = "queued" /\ jobs'[j].attempt = 0
  BY <1>1, PublishRows
<1>3. \A w \in Workers : worker[w].inbox \subseteq JobIds BY DEF TypeOK, WorkerState
<1>4. HandsAreFull' BY <1>2, <1>3 DEF HandsAreFull
<1>5. UnusedIsBlank' BY <1>2 DEF UnusedIsBlank
<1>6. CommittedOnce' BY <1>2 DEF CommittedOnce, UnusedIsBlank
<1>7. NothingDiscarded' BY <1>2 DEF NothingDiscarded, Subject
<1> QED BY <1>4, <1>5, <1>6, <1>7

\* A step that leaves every row's state and attempts and every record alone, and
\* after which no worker holds more than it did (nacks, stops, restarts, time).
LEMMA QuietInvariant ==
  ASSUME QueueInvariant, TypeOK', UNCHANGED <<committed, parked, judged>>,
         \A j \in JobIds : /\ jobs'[j].state = jobs[j].state
                            /\ jobs'[j].msg = jobs[j].msg
                            /\ jobs'[j].attempt = jobs[j].attempt,
         \A v \in Workers : /\ worker'[v].inbox \subseteq worker[v].inbox
                            /\ worker'[v].pc = "parking" => worker'[v] = worker[v]
  PROVE  QueueInvariant'
<1> USE DEF QueueInvariant
<1>1. \A w \in Workers : worker[w].inbox \subseteq JobIds BY DEF TypeOK, WorkerState
<1>2. HandsAreFull' BY <1>1 DEF HandsAreFull
<1>3. UnusedIsBlank' BY DEF UnusedIsBlank
<1>4. CommittedOnce' BY DEF CommittedOnce
<1>5. NothingDiscarded' BY DEF NothingDiscarded, Subject
<1> QED BY <1>2, <1>3, <1>4, <1>5

\* Every step keeps the inductive invariant (drain and Process, one action each).
LEMMA StepInvariant == QueueInvariant /\ [Next]_vars => QueueInvariant'
<1> SUFFICES ASSUME QueueInvariant, [Next]_vars PROVE QueueInvariant' OBVIOUS
<1> USE DEF QueueInvariant
<1>0. TypeOK' BY StepType
<1>a. JobsTypeOK /\ \A w \in Workers : worker[w] \in WorkerState /\ worker[w].inbox \subseteq JobIds
  BY DEF TypeOK, WorkerState
<1>1. CASE PublishLive
  <2>1. PICK i \in FreeIds : \E batch \in Batches("claims.live", {i}) : Publish(batch)
    BY <1>1 DEF PublishLive
  <2>2. PICK batch \in Batches("claims.live", {i}) : Publish(batch) BY <2>1
  <2>3. DOMAIN batch \subseteq FreeIds /\ \A j \in DOMAIN batch : batch[j] \in Messages
    BY DEF Batches
  <2> QED BY <1>0, <1>1, <2>2, <2>3, PublishInvariant DEF PublishLive
<1>2. CASE PublishSweep
  <2>1. PICK S \in SUBSET FreeIds : \E batch \in Batches("claims.sweep", S) : Publish(batch)
    BY <1>2 DEF PublishSweep
  <2>2. PICK batch \in Batches("claims.sweep", S) : Publish(batch) BY <2>1
  <2>3. DOMAIN batch \subseteq FreeIds /\ \A j \in DOMAIN batch : batch[j] \in Messages
    BY DEF Batches
  <2> QED BY <1>0, <1>2, <2>2, <2>3, PublishInvariant DEF PublishSweep
<1>3. ASSUME NEW w \in Workers, Consume(w) PROVE QueueInvariant'
  <2>1. PICK S \in NextBatch(Batch) :
          LeaseRows(S) /\ worker' = [worker EXCEPT ![w].inbox = S]
    BY <1>3 DEF Consume
  <2>2. S \in SUBSET Claimable BY DEF NextBatch
  <2>3. \A j \in S : j \in JobIds /\ jobs[j].state = "queued" /\ jobs[j].attempt \in Nat
    BY <2>2 DEF Claimable, InQueue, TypeOK, JobsTypeOK, JobRow
  <2>4. \A j \in JobIds :
          /\ jobs'[j].state = jobs[j].state
          /\ jobs'[j].msg = jobs[j].msg
          /\ jobs'[j].attempt = IF j \in S THEN jobs[j].attempt + 1 ELSE jobs[j].attempt
    BY <1>a, <2>1, <2>2, LeaseKeepsRows
  <2>5. \A j \in JobIds : jobs[j].attempt > 0 => jobs'[j].attempt > 0 BY <2>3, <2>4
  <2>6. \A j \in S : jobs'[j].attempt > 0 BY <2>3, <2>4
  <2>7. \A v \in Workers :
          /\ worker'[v].inbox = IF v = w THEN S ELSE worker[v].inbox
          /\ worker'[v].pc = worker[v].pc
          /\ worker'[v].current = worker[v].current
    BY <1>a, <2>1 DEF TypeOK, WorkerState
  <2>8. HandsAreFull'
    <3> SUFFICES ASSUME NEW v \in Workers
                 PROVE  /\ \A i \in worker'[v].inbox : jobs'[i].state # "free" /\ jobs'[i].attempt > 0
                        /\ worker'[v].pc = "parking" =>
                             /\ worker'[v].current \in JobIds
                             /\ jobs'[worker'[v].current].state # "free"
                             /\ parked'[worker'[v].current] > 0
      BY DEF HandsAreFull
    <3>1. \A i \in worker'[v].inbox : jobs'[i].state # "free" /\ jobs'[i].attempt > 0
      BY <1>a, <2>3, <2>4, <2>5, <2>6, <2>7 DEF HandsAreFull
    <3>2. parked' = parked BY <1>3 DEF Consume
    <3> QED BY <2>4, <2>7, <3>1, <3>2 DEF HandsAreFull
  <2>9. UnusedIsBlank' BY <1>3, <2>3, <2>4 DEF UnusedIsBlank, Consume
  <2>10. CommittedOnce' BY <1>3, <2>4 DEF CommittedOnce, Consume
  <2>11. NothingDiscarded' BY <1>3, <2>4 DEF NothingDiscarded, Subject, Consume
  <2> QED BY <1>0, <2>8, <2>9, <2>10, <2>11
<1>4. ASSUME NEW w \in Workers, NEW i \in JobIds, Complete(w, i) PROVE QueueInvariant'
  <2>1. /\ \A j \in JobIds : jobs'[j].attempt = jobs[j].attempt
        /\ jobs'[i].state = "acked"
        /\ \A j \in JobIds : j # i => jobs'[j] = jobs[j]
    BY <1>4, <1>a, AckKeepsRows DEF Complete
  <2>2. \A v \in Workers :
          /\ worker'[v].inbox \subseteq worker[v].inbox
          /\ worker'[v].pc = worker[v].pc
          /\ worker'[v].current = worker[v].current
    <3>1. \A v \in Workers : worker'[v] = IF v = w THEN Drop(w, i) ELSE worker[v]
      BY <1>4 DEF Complete, TypeOK
    <3>2. /\ Drop(w, i).inbox \subseteq worker[w].inbox
          /\ Drop(w, i).pc = worker[w].pc
          /\ Drop(w, i).current = worker[w].current
      BY WorkerRecords
    <3> QED BY <3>1, <3>2
  <2>3. committed[i] = 0 BY <1>4 DEF Complete, InQueue, CommittedOnce, TypeOK
  <2>4. committed' = [committed EXCEPT ![i] = 1] /\ parked' = parked
    BY <1>4, <2>3 DEF Complete
  <2>5. HandsAreFull' BY <1>a, <2>1, <2>2, <2>4 DEF HandsAreFull
  <2>6. UnusedIsBlank' BY <2>1, <2>4 DEF UnusedIsBlank, TypeOK
  <2>7. CommittedOnce' BY <2>1, <2>4 DEF CommittedOnce, TypeOK
  <2>8. NothingDiscarded'
    <3>1. judged \subseteq judged' BY <1>4 DEF Complete, RecordEvaluation
    <3> QED BY <2>1, <2>4, <3>1 DEF NothingDiscarded, Subject, TypeOK
  <2> QED BY <1>0, <2>5, <2>6, <2>7, <2>8
<1>12. ASSUME NEW w \in Workers, NEW i \in JobIds, AckJudged(w, i) PROVE QueueInvariant'
  <2>1. /\ \A j \in JobIds : /\ jobs'[j].attempt = jobs[j].attempt
                             /\ jobs'[j].msg = jobs[j].msg
        /\ jobs[i].state = "queued" /\ jobs'[i].state = "acked"
        /\ \A j \in JobIds : j # i => jobs'[j] = jobs[j]
    BY <1>12, <1>a, AckKeepsRows DEF AckJudged, InQueue
  <2>2. \A v \in Workers : /\ worker'[v].inbox \subseteq worker[v].inbox
                           /\ worker'[v].pc = "parking" => worker'[v] = worker[v]
    <3>1. \A v \in Workers : worker'[v] = IF v = w THEN Drop(w, i) ELSE worker[v]
      BY <1>12 DEF AckJudged, TypeOK
    <3>2. Drop(w, i).inbox \subseteq worker[w].inbox /\ Drop(w, i).pc = worker[w].pc
      BY WorkerRecords
    <3>3. worker[w].pc = "running" BY <1>12 DEF AckJudged, Holds
    <3>4. Drop(w, i).pc # "parking" BY <3>2, <3>3
    <3> QED BY <3>1, <3>2, <3>4
  <2>3. UNCHANGED <<committed, parked, judged>> /\ Subject(i) \in judged
    BY <1>12 DEF AckJudged
  <2>4. HandsAreFull' BY <1>a, <2>1, <2>2, <2>3 DEF HandsAreFull
  <2>5. UnusedIsBlank' BY <2>1, <2>3 DEF UnusedIsBlank
  <2>6. CommittedOnce' BY <2>1, <2>3 DEF CommittedOnce
  <2>7. NothingDiscarded' BY <2>1, <2>3 DEF NothingDiscarded, Subject
  <2> QED BY <1>0, <2>4, <2>5, <2>6, <2>7
<1>5. ASSUME NEW w \in Workers, NEW i \in JobIds, Fail(w, i) PROVE QueueInvariant'
  <2>1. \A j \in JobIds : /\ jobs'[j].state = jobs[j].state
                          /\ jobs'[j].msg = jobs[j].msg
                          /\ jobs'[j].attempt = jobs[j].attempt
    BY <1>5, <1>a, NackKeepsRows DEF Fail
  <2>2. \A v \in Workers : /\ worker'[v].inbox \subseteq worker[v].inbox
                           /\ worker'[v].pc = "parking" => worker'[v] = worker[v]
    <3>1. \A v \in Workers : worker'[v] = IF v = w THEN Drop(w, i) ELSE worker[v]
      BY <1>5 DEF Fail, TypeOK
    <3>2. Drop(w, i).inbox \subseteq worker[w].inbox /\ Drop(w, i).pc = worker[w].pc
      BY WorkerRecords
    <3>3. worker[w].pc = "running" BY <1>5 DEF Fail, Holds
    <3>4. Drop(w, i).pc # "parking" BY <3>2, <3>3
    <3> QED BY <3>1, <3>2, <3>4
  <2> QED BY <1>0, <1>5, <2>1, <2>2, QuietInvariant DEF Fail
<1>6. ASSUME NEW w \in Workers, NEW i \in JobIds, FindGone(w, i) PROVE QueueInvariant'
  <2>1. \A v \in Workers : /\ worker'[v].inbox \subseteq worker[v].inbox
                           /\ worker'[v].pc = "parking" => worker'[v] = worker[v]
    BY <1>6 DEF FindGone, TypeOK, Down
  <2> QED BY <1>0, <1>6, <2>1, QuietInvariant DEF FindGone
<1>7. ASSUME NEW w \in Workers, NEW i \in JobIds, Park(w, i) PROVE QueueInvariant'
  <2>1. UNCHANGED <<jobs, committed>> /\ parked' = [parked EXCEPT ![i] = @ + 1]
    BY <1>7 DEF Park
  <2>2. \A j \in JobIds : parked[j] > 0 => parked'[j] > 0 BY <2>1 DEF TypeOK
  <2>3. parked'[i] > 0 BY <2>1 DEF TypeOK
  <2>4. jobs[i].state # "free" BY <1>7 DEF Park, Holds, HandsAreFull
  <2>5. \A v \in Workers :
          /\ worker'[v].inbox \subseteq worker[v].inbox
          /\ v # w => worker'[v] = worker[v]
    <3>1. \A v \in Workers :
            worker'[v] = IF v = w THEN [Drop(w, i) EXCEPT !.pc = "parking", !.current = i]
                                  ELSE worker[v]
      BY <1>7 DEF Park, TypeOK
    <3>2. Drop(w, i) \in WorkerState /\ Drop(w, i).inbox \subseteq worker[w].inbox
      BY WorkerRecords
    <3>3. [Drop(w, i) EXCEPT !.pc = "parking", !.current = i].inbox \subseteq worker[w].inbox
      BY <3>2 DEF WorkerState
    <3> QED BY <3>1, <3>3
  <2>6. worker'[w].current = i
    <3>1. worker'[w] = [Drop(w, i) EXCEPT !.pc = "parking", !.current = i]
      BY <1>7 DEF Park, TypeOK
    <3>2. Drop(w, i) \in WorkerState BY WorkerRecords
    <3>3. [Drop(w, i) EXCEPT !.pc = "parking", !.current = i].current = i
      BY <3>2 DEF WorkerState
    <3> QED BY <3>1, <3>3
  <2>7. HandsAreFull'
    <3>1. ASSUME NEW v \in Workers, worker'[v].pc = "parking"
          PROVE  /\ worker'[v].current \in JobIds
                 /\ jobs'[worker'[v].current].state # "free"
                 /\ parked'[worker'[v].current] > 0
      <4>1. CASE v = w BY <2>1, <2>3, <2>4, <2>6, <4>1
      <4>2. CASE v # w BY <2>1, <2>2, <2>5, <3>1, <4>2 DEF HandsAreFull
      <4> QED BY <4>1, <4>2
    <3> QED BY <2>1, <2>5, <3>1 DEF HandsAreFull
  <2>8. UnusedIsBlank'
    <3>1. \A j \in JobIds : j # i => parked'[j] = parked[j] BY <2>1 DEF TypeOK
    <3> QED BY <2>1, <2>4, <3>1 DEF UnusedIsBlank
  <2>9. CommittedOnce' BY <2>1 DEF CommittedOnce
  <2>10. NothingDiscarded'
    <3>1. judged' = judged BY <1>7 DEF Park
    <3> QED BY <2>1, <2>2, <3>1 DEF NothingDiscarded, Subject
  <2> QED BY <1>0, <2>7, <2>8, <2>9, <2>10
<1>8. ASSUME NEW w \in Workers, AckParked(w) PROVE QueueInvariant'
  <2> DEFINE i == worker[w].current
  <2>1. i \in JobIds /\ parked[i] > 0 /\ jobs[i].state # "free"
    BY <1>8 DEF AckParked, HandsAreFull
  <2>2. \A v \in Workers : /\ worker'[v].inbox \subseteq worker[v].inbox
                           /\ worker'[v].pc = "parking" => worker'[v] = worker[v]
    BY <1>8, <1>a DEF AckParked, TypeOK, WorkerState
  <2>3. UNCHANGED <<committed, parked, judged>> BY <1>8 DEF AckParked
  <2>4. CASE InQueue(i) /\ AckRow(i)
    <3>1. /\ \A j \in JobIds : /\ jobs'[j].attempt = jobs[j].attempt
                               /\ jobs'[j].msg = jobs[j].msg
          /\ jobs'[i].state = "acked"
          /\ \A j \in JobIds : j # i => jobs'[j] = jobs[j]
      BY <1>a, <2>1, <2>4, AckKeepsRows
    <3>2. HandsAreFull' BY <1>a, <2>2, <2>3, <3>1 DEF HandsAreFull
    <3>3. UnusedIsBlank' BY <2>3, <3>1 DEF UnusedIsBlank
    <3>4. CommittedOnce' BY <2>3, <3>1 DEF CommittedOnce
    <3>5. NothingDiscarded' BY <2>1, <2>3, <3>1 DEF NothingDiscarded, Subject
    <3> QED BY <1>0, <3>2, <3>3, <3>4, <3>5
  <2>5. CASE UNCHANGED jobVars
    BY <1>0, <2>2, <2>3, <2>5, QuietInvariant DEF jobVars
  <2> QED BY <1>8, <2>4, <2>5 DEF AckParked
<1>9. ASSUME NEW w \in Workers, Crash(w) \/ Restart(w) PROVE QueueInvariant'
  <2>1. \A v \in Workers : /\ worker'[v].inbox \subseteq worker[v].inbox
                           /\ worker'[v].pc = "parking" => worker'[v] = worker[v]
    BY <1>9 DEF Crash, Restart, TypeOK, Down, Idle
  <2> QED BY <1>0, <1>9, <2>1, QuietInvariant DEF Crash, Restart
<1>10. ASSUME NEW i \in JobIds, Lapse(i) \/ Return(i) PROVE QueueInvariant'
  <2>1. \A j \in JobIds : /\ jobs'[j].state = jobs[j].state
                          /\ jobs'[j].msg = jobs[j].msg
                          /\ jobs'[j].attempt = jobs[j].attempt
    BY <1>10, <1>a, TimeKeepsRows DEF Lapse, Return
  <2> QED BY <1>0, <1>10, <2>1, QuietInvariant DEF Lapse, Return
<1>11. CASE UNCHANGED vars BY <1>0, <1>11, QuietInvariant DEF vars
<1> QED BY <1>1, <1>2, <1>3, <1>4, <1>5, <1>6, <1>7, <1>8, <1>9, <1>10, <1>11, <1>12
        DEF Next, Work

\* The inductive invariant holds in every run of the queue.
THEOREM QueueIsSound == Spec => []QueueInvariant
<1> QED BY InitInvariant, StepInvariant, PTL DEF Spec

\* For any number of workers and redeliveries, the work of a message is
\* committed at most once and takes its row with it (Process and Broker.Ack).
THEOREM WorkCommittedOnce == Spec => []CommittedOnce
<1>1. QueueInvariant => CommittedOnce BY DEF QueueInvariant
<1> QED BY <1>1, QueueIsSound, PTL

\* No message leaves the queue without its work, a dead letter or an evaluation
\* of the very version it asks for (Process and deadLetter).
THEOREM NoMessageDiscarded == Spec => []NothingDiscarded
<1>1. QueueInvariant => NothingDiscarded BY DEF QueueInvariant
<1> QED BY <1>1, QueueIsSound, PTL

-----------------------------------------------------------------------------
(* The queue the services see                                              *)

\* The empty table is the empty queue (Init, under the mapping of Promise).
LEMMA InitPromise == Init => Promise!QueueInit
<1> SUFFICES ASSUME Init PROVE Promise!QueueInit OBVIOUS
<1>1. \A i \in JobIds : jobs[i].state = "free" /\ jobs[i].attempt = 0
  BY DEF Init, JobsInit, FreeRow
<1>2. PromisedStatus = [i \in JobIds |-> "absent"] BY <1>1 DEF PromisedStatus, InQueue
<1>3. Deliveries = [i \in JobIds |-> 0] BY <1>1 DEF Deliveries
<1>4. Effective = {} /\ Recorded = {} /\ judged = {} BY DEF Init, Effective, Recorded
<1>5. AskedFor = [i \in JobIds |-> NoMessage] BY <1>1 DEF AskedFor
<1> QED BY <1>2, <1>3, <1>4, <1>5 DEF Promise!QueueInit

\* Rows that keep their state and attempts look the same to the services.
LEMMA SameView ==
  ASSUME \A j \in JobIds : /\ jobs'[j].state = jobs[j].state
                            /\ jobs'[j].msg = jobs[j].msg
                            /\ jobs'[j].attempt = jobs[j].attempt
  PROVE  UNCHANGED <<AskedFor, PromisedStatus, Deliveries>>
<1> QED BY DEF AskedFor, Subject, PromisedStatus, InQueue, Deliveries

\* An ack changes what the services see of its own message only: it is settled
\* (Broker.Ack).
LEMMA AckSettles ==
  ASSUME JobsTypeOK, NEW i \in JobIds, InQueue(i), AckRow(i)
  PROVE  /\ PromisedStatus' = [PromisedStatus EXCEPT ![i] = "settled"]
         /\ UNCHANGED <<AskedFor, Deliveries>>
<1>1. /\ \A j \in JobIds : /\ jobs'[j].attempt = jobs[j].attempt
                           /\ jobs'[j].msg = jobs[j].msg
      /\ jobs[i].state = "queued" /\ jobs'[i].state = "acked"
      /\ \A j \in JobIds : j # i => jobs'[j] = jobs[j]
  BY AckKeepsRows DEF InQueue
<1> QED BY <1>1 DEF PromisedStatus, InQueue, AskedFor, Subject, Deliveries

\* Published rows are accepted messages (Broker.Publish).
LEMMA PublishIsAccept ==
  ASSUME QueueInvariant, NEW batch, DOMAIN batch \subseteq FreeIds, Publish(batch),
         \A j \in DOMAIN batch : batch[j] \in Messages,
         UNCHANGED <<committed, parked, judged>>
  PROVE  Promise!QueueNext
<1> DEFINE S == DOMAIN batch
<1>0. JobsTypeOK BY DEF QueueInvariant, TypeOK
<1>1. /\ \A j \in S : /\ j \in JobIds /\ jobs[j].state = "free"
                       /\ jobs'[j].state = "queued" /\ jobs'[j].attempt = 0
                       /\ jobs'[j].msg = batch[j]
      /\ \A j \in JobIds : j \notin S => jobs'[j] = jobs[j]
  BY <1>0, PublishRows
<1>2. \A j \in S : jobs[j].attempt = 0 BY <1>1 DEF QueueInvariant, UnusedIsBlank
<1>3. \A j \in S : PromisedStatus[j] = "absent" BY <1>1 DEF PromisedStatus, InQueue
<1>4. PromisedStatus' = [j \in JobIds |-> IF j \in S THEN "waiting" ELSE PromisedStatus[j]]
  BY <1>1 DEF PromisedStatus, InQueue
<1>5. Deliveries' = Deliveries BY <1>1, <1>2 DEF Deliveries
<1>6. UNCHANGED <<Effective, Recorded>> BY DEF Effective, Recorded
<1>9. DEFINE asked == [j \in S |-> <<batch[j].claim, batch[j].version>>]
<1>10. asked \in [S -> Claims \X Versions] BY BrokerConstants
<1>11. AskedFor' = [j \in JobIds |-> IF j \in S THEN asked[j] ELSE AskedFor[j]]
  BY <1>1 DEF AskedFor, Subject
<1>7. Promise!Accept(S) BY <1>3, <1>4, <1>5, <1>6, <1>10, <1>11 DEF Promise!Accept
<1>8. S \in SUBSET JobIds BY <1>1
<1> QED BY <1>7, <1>8 DEF Promise!QueueNext

\* Every step of the broker is one of the promised queue or changes nothing the
\* services can see (drain and Process, under the mapping of Promise).
LEMMA StepPromise ==
  QueueInvariant /\ [Next]_vars => [Promise!QueueNext]_(Promise!queueVars)
<1> SUFFICES ASSUME QueueInvariant, [Next]_vars
             PROVE  \/ Promise!QueueNext
                    \/ UNCHANGED <<AskedFor, judged, PromisedStatus, Deliveries, Effective, Recorded>>
  BY DEF Promise!queueVars
<1>a. /\ TypeOK /\ JobsTypeOK
      /\ \A j \in JobIds : jobs[j].attempt \in Nat
      /\ \A w \in Workers : worker[w].inbox \subseteq JobIds
  BY DEF QueueInvariant, TypeOK, JobsTypeOK, JobRow, WorkerState
<1>1. CASE PublishLive
  <2>1. PICK i \in FreeIds : \E batch \in Batches("claims.live", {i}) : Publish(batch)
    BY <1>1 DEF PublishLive
  <2>2. PICK batch \in Batches("claims.live", {i}) : Publish(batch) BY <2>1
  <2>3. DOMAIN batch \subseteq FreeIds /\ \A j \in DOMAIN batch : batch[j] \in Messages
    BY DEF Batches
  <2> QED BY <1>1, <2>2, <2>3, PublishIsAccept DEF PublishLive
<1>2. CASE PublishSweep
  <2>1. PICK S \in SUBSET FreeIds : \E batch \in Batches("claims.sweep", S) : Publish(batch)
    BY <1>2 DEF PublishSweep
  <2>2. PICK batch \in Batches("claims.sweep", S) : Publish(batch) BY <2>1
  <2>3. DOMAIN batch \subseteq FreeIds /\ \A j \in DOMAIN batch : batch[j] \in Messages
    BY DEF Batches
  <2> QED BY <1>2, <2>2, <2>3, PublishIsAccept DEF PublishSweep
<1>3. ASSUME NEW w \in Workers, Consume(w) PROVE Promise!QueueNext
  <2>1. PICK S \in NextBatch(Batch) : LeaseRows(S) BY <1>3 DEF Consume
  <2>2. S \in SUBSET Claimable BY DEF NextBatch
  <2>3. \A j \in JobIds :
          /\ jobs'[j].state = jobs[j].state
          /\ jobs'[j].msg = jobs[j].msg
          /\ jobs'[j].attempt = IF j \in S THEN jobs[j].attempt + 1 ELSE jobs[j].attempt
    BY <1>a, <2>1, <2>2, LeaseKeepsRows
  <2>4. \A j \in S : j \in JobIds /\ jobs[j].state = "queued" /\ jobs[j].attempt < MaxAttempts
    BY <2>2 DEF Claimable, InQueue
  <2>5. S \in SUBSET Promise!Waiting BY <2>4 DEF Promise!Waiting, PromisedStatus, InQueue
  <2>6. \A j \in S : Deliveries[j] < MaxAttempts BY <2>4 DEF Deliveries
  <2>7. Deliveries' = [j \in JobIds |-> IF j \in S THEN Deliveries[j] + 1 ELSE Deliveries[j]]
    BY <2>3 DEF Deliveries
  <2>8. UNCHANGED <<AskedFor, judged, PromisedStatus, Effective, Recorded>>
    BY <1>3, <2>3 DEF AskedFor, Subject, PromisedStatus, InQueue, Effective, Recorded, Consume
  <2>9. Promise!Deliver(S) BY <2>6, <2>7, <2>8 DEF Promise!Deliver
  <2> QED BY <2>5, <2>9 DEF Promise!QueueNext
<1>4. ASSUME NEW w \in Workers, NEW i \in JobIds, Complete(w, i) PROVE Promise!QueueNext
  <2>2. jobs[i].state = "queued" /\ jobs[i].attempt > 0
    BY <1>4 DEF Complete, InQueue, Holds, QueueInvariant, HandsAreFull
  <2>3. i \in Promise!Waiting /\ Deliveries[i] > 0
    BY <2>2 DEF Promise!Waiting, PromisedStatus, InQueue, Deliveries
  <2>4. /\ PromisedStatus' = [PromisedStatus EXCEPT ![i] = "settled"]
        /\ UNCHANGED <<AskedFor, Deliveries>>
    BY <1>4, <1>a, AckSettles DEF Complete
  <2>5. Effective' = Effective \cup {i}
    <3>1. committed' = [committed EXCEPT ![i] = @ + 1] BY <1>4 DEF Complete
    <3>2. committed'[i] > 0 /\ \A j \in JobIds : j # i => committed'[j] = committed[j]
      BY <1>a, <3>1 DEF TypeOK
    <3> QED BY <3>2 DEF Effective
  <2>6. Recorded' = Recorded BY <1>4 DEF Recorded, Complete
  <2>8. \E s \in Claims \X Versions : judged' = judged \cup {s}
    <3>1. jobs[i].msg \in Messages BY <1>a, <2>2 DEF TypeOK
    <3>2. jobs[i].msg.claim \in Claims BY <3>1, BrokerConstants
    <3>3. PICK v \in Versions : judged' = judged \cup {<<jobs[i].msg.claim, v>>}
      BY <1>4 DEF Complete, RecordEvaluation
    <3> QED BY <3>2, <3>3
  <2>7. Promise!TakeEffect(i) BY <2>3, <2>4, <2>5, <2>6, <2>8 DEF Promise!TakeEffect
  <2> QED BY <2>7 DEF Promise!QueueNext
<1>12. ASSUME NEW w \in Workers, NEW i \in JobIds, AckJudged(w, i) PROVE Promise!QueueNext
  <2>1. jobs[i].state = "queued" /\ jobs[i].attempt > 0
    BY <1>12 DEF AckJudged, InQueue, Holds, QueueInvariant, HandsAreFull
  <2>2. i \in Promise!Waiting /\ Deliveries[i] > 0
    BY <2>1 DEF Promise!Waiting, PromisedStatus, InQueue, Deliveries
  <2>3. AskedFor[i] \in judged BY <1>12, <2>1 DEF AckJudged, AskedFor
  <2>4. /\ PromisedStatus' = [PromisedStatus EXCEPT ![i] = "settled"]
        /\ UNCHANGED <<AskedFor, Deliveries>>
    BY <1>12, <1>a, AckSettles DEF AckJudged
  <2>5. UNCHANGED <<judged, Effective, Recorded>> BY <1>12 DEF AckJudged, Effective, Recorded
  <2>6. Promise!Dismiss(i) BY <2>2, <2>3, <2>4, <2>5 DEF Promise!Dismiss
  <2> QED BY <2>6 DEF Promise!QueueNext
<1>5. ASSUME NEW w \in Workers, NEW i \in JobIds, Fail(w, i)
      PROVE  UNCHANGED <<AskedFor, judged, PromisedStatus, Deliveries, Effective, Recorded>>
  <2>1. \A j \in JobIds : /\ jobs'[j].state = jobs[j].state
                          /\ jobs'[j].msg = jobs[j].msg
                          /\ jobs'[j].attempt = jobs[j].attempt
    BY <1>5, <1>a, NackKeepsRows DEF Fail
  <2> QED BY <1>5, <2>1, SameView DEF Fail, Effective, Recorded
<1>6. ASSUME NEW w \in Workers, NEW i \in JobIds, FindGone(w, i)
      PROVE  UNCHANGED <<AskedFor, judged, PromisedStatus, Deliveries, Effective, Recorded>>
  BY <1>6 DEF FindGone, AskedFor, Subject, PromisedStatus, InQueue, Deliveries, Effective, Recorded
<1>7. ASSUME NEW w \in Workers, NEW i \in JobIds, Park(w, i) PROVE Promise!QueueNext
  <2>1. parked' = [parked EXCEPT ![i] = @ + 1] BY <1>7 DEF Park
  <2>2. parked'[i] > 0 /\ \A j \in JobIds : j # i => parked'[j] = parked[j]
    BY <1>a, <2>1 DEF TypeOK
  <2>3. Recorded' = Recorded \cup {i} BY <2>2 DEF Recorded
  <2>4. jobs[i].attempt > 0 BY <1>7 DEF Park, Holds, QueueInvariant, HandsAreFull
  <2>5. Deliveries[i] > 0 BY <2>4 DEF Deliveries
  <2>6. UNCHANGED <<AskedFor, judged, PromisedStatus, Deliveries, Effective>>
    BY <1>7 DEF Park, AskedFor, Subject, PromisedStatus, InQueue, Deliveries, Effective
  <2>7. Promise!PutOnRecord(i) BY <2>3, <2>5, <2>6 DEF Promise!PutOnRecord
  <2> QED BY <2>7 DEF Promise!QueueNext
<1>8. ASSUME NEW w \in Workers, AckParked(w)
      PROVE  \/ Promise!QueueNext
             \/ UNCHANGED <<AskedFor, judged, PromisedStatus, Deliveries, Effective, Recorded>>
  <2> DEFINE i == worker[w].current
  <2>1. i \in JobIds /\ parked[i] > 0
    BY <1>8 DEF AckParked, QueueInvariant, HandsAreFull
  <2>2. UNCHANGED <<judged, Effective, Recorded>> BY <1>8 DEF AckParked, Effective, Recorded
  <2>3. CASE InQueue(i) /\ AckRow(i)
    <3>2. i \in Promise!Waiting \cap Recorded
      BY <2>1, <2>3 DEF Promise!Waiting, PromisedStatus, Recorded, InQueue
    <3>3. /\ PromisedStatus' = [PromisedStatus EXCEPT ![i] = "settled"]
          /\ UNCHANGED <<AskedFor, Deliveries>>
      BY <1>a, <2>1, <2>3, AckSettles
    <3>5. Promise!GiveUp(i) BY <2>2, <3>2, <3>3 DEF Promise!GiveUp
    <3> QED BY <2>1, <3>5 DEF Promise!QueueNext
  <2>4. CASE UNCHANGED jobVars BY <2>2, <2>4, SameView DEF jobVars
  <2> QED BY <1>8, <2>3, <2>4 DEF AckParked
<1>9. ASSUME NEW i \in JobIds, Lapse(i) \/ Return(i)
      PROVE  UNCHANGED <<AskedFor, judged, PromisedStatus, Deliveries, Effective, Recorded>>
  <2>1. \A j \in JobIds : /\ jobs'[j].state = jobs[j].state
                          /\ jobs'[j].msg = jobs[j].msg
                          /\ jobs'[j].attempt = jobs[j].attempt
    BY <1>9, <1>a, TimeKeepsRows DEF Lapse, Return
  <2> QED BY <1>9, <2>1, SameView DEF Lapse, Return, Effective, Recorded
<1>10. CASE UNCHANGED vars
  BY <1>10 DEF vars, AskedFor, Subject, PromisedStatus, InQueue, Deliveries, Effective, Recorded
<1>11. ASSUME NEW w \in Workers, Crash(w) \/ Restart(w)
      PROVE  UNCHANGED <<AskedFor, judged, PromisedStatus, Deliveries, Effective, Recorded>>
  BY <1>11 DEF Crash, Restart, AskedFor, Subject, PromisedStatus, InQueue, Deliveries, Effective, Recorded
<1> QED BY <1>1, <1>2, <1>3, <1>4, <1>5, <1>6, <1>7, <1>8, <1>9, <1>10, <1>11, <1>12
        DEF Next, Work

\* The table, the leases and the workers together are the at-least-once queue the
\* services are written against (port.Broker).
THEOREM BrokerImplementsQueue == Spec => DeliversAtLeastOnce
<1> QED BY InitPromise, StepPromise, QueueIsSound, PTL
        DEF Spec, DeliversAtLeastOnce, Promise!QueueSpec

-----------------------------------------------------------------------------
(* Deliveries bound what is spent                                          *)

\* Inboxes that do not grow leave no job in more hands (every step but Consume).
LEMMA FewerHands ==
  ASSUME NEW i, \A v \in Workers : worker'[v].inbox \subseteq worker[v].inbox
  PROVE  /\ Cardinality(InHand(i)) \in Nat /\ Cardinality(InHand(i)') \in Nat
         /\ Cardinality(InHand(i)') <= Cardinality(InHand(i))
<1>1. IsFiniteSet(InHand(i)) BY BrokerConstants, FS_Subset DEF InHand
<1>2. InHand(i)' \subseteq InHand(i) BY DEF InHand
<1> QED BY <1>1, <1>2, FS_Subset, FS_CardinalityType

\* Every step keeps the dead letters and the copies in hand of a job within the
\* attempts counted on its row (Consume counts what it leases).
LEMMA StepSpend == QueueInvariant /\ SpendIsCounted /\ [Next]_vars => SpendIsCounted'
<1> SUFFICES ASSUME QueueInvariant, SpendIsCounted, [Next]_vars, NEW i \in JobIds
             PROVE  (parked[i] + Cardinality(InHand(i)) <= jobs[i].attempt)'
  BY DEF SpendIsCounted
<1>a. /\ TypeOK /\ JobsTypeOK
      /\ \A j \in JobIds : jobs[j].attempt \in Nat
      /\ parked[i] \in Nat
  BY DEF QueueInvariant, TypeOK, JobsTypeOK, JobRow
<1>b. parked[i] + Cardinality(InHand(i)) <= jobs[i].attempt BY DEF SpendIsCounted
<1>c. ASSUME \A v \in Workers : worker'[v].inbox \subseteq worker[v].inbox,
             parked'[i] = parked[i], jobs'[i].attempt = jobs[i].attempt
      PROVE  (parked[i] + Cardinality(InHand(i)) <= jobs[i].attempt)'
  BY <1>a, <1>b, <1>c, FewerHands
<1>1. ASSUME NEW batch, DOMAIN batch \subseteq FreeIds, Publish(batch),
             UNCHANGED <<worker, parked>>
      PROVE  (parked[i] + Cardinality(InHand(i)) <= jobs[i].attempt)'
  <2>1. jobs'[i].attempt = jobs[i].attempt
    BY <1>a, <1>1, PublishRows DEF QueueInvariant, UnusedIsBlank
  <2> QED BY <1>1, <1>c, <2>1
<1>2. CASE PublishLive \/ PublishSweep
  <2>1. PICK batch : DOMAIN batch \subseteq FreeIds /\ Publish(batch)
    BY <1>2 DEF PublishLive, PublishSweep, Batches
  <2> QED BY <1>1, <1>2, <2>1 DEF PublishLive, PublishSweep
<1>3. ASSUME NEW w \in Workers, Consume(w)
      PROVE  (parked[i] + Cardinality(InHand(i)) <= jobs[i].attempt)'
  <2>1. PICK S \in NextBatch(Batch) :
          LeaseRows(S) /\ worker' = [worker EXCEPT ![w].inbox = S]
    BY <1>3 DEF Consume
  <2>2. S \in SUBSET Claimable BY DEF NextBatch
  <2>3. jobs'[i].attempt = IF i \in S THEN jobs[i].attempt + 1 ELSE jobs[i].attempt
    BY <1>a, <2>1, <2>2, LeaseKeepsRows
  <2>4. \A v \in Workers : worker'[v].inbox = IF v = w THEN S ELSE worker[v].inbox
    BY <1>a, <2>1 DEF TypeOK, WorkerState
  <2>5. w \notin InHand(i) BY <1>3 DEF Consume, InHand
  <2>6. InHand(i)' = IF i \in S THEN InHand(i) \cup {w} ELSE InHand(i)
    BY <2>4, <2>5 DEF InHand
  <2>7. IsFiniteSet(InHand(i)) BY BrokerConstants, FS_Subset DEF InHand
  <2>8. /\ Cardinality(InHand(i)) \in Nat
        /\ Cardinality(InHand(i)') = IF i \in S THEN Cardinality(InHand(i)) + 1
                                               ELSE Cardinality(InHand(i))
    BY <2>5, <2>6, <2>7, FS_AddElement, FS_CardinalityType
  <2>9. parked' = parked BY <1>3 DEF Consume
  <2> QED BY <1>a, <1>b, <2>3, <2>8, <2>9
<1>4. ASSUME NEW w \in Workers, NEW j \in JobIds,
             Complete(w, j) \/ AckJudged(w, j) \/ Fail(w, j)
      PROVE  (parked[i] + Cardinality(InHand(i)) <= jobs[i].attempt)'
  <2>1. jobs'[i].attempt = jobs[i].attempt
    BY <1>a, <1>4, AckKeepsRows, NackKeepsRows DEF Complete, AckJudged, Fail
  <2>2. Drop(w, j).inbox \subseteq worker[w].inbox BY <1>a, WorkerRecords
  <2>3. \A v \in Workers : worker'[v].inbox \subseteq worker[v].inbox
    BY <1>a, <1>4, <2>2 DEF Complete, AckJudged, Fail, TypeOK
  <2> QED BY <1>4, <1>c, <2>1, <2>3 DEF Complete, AckJudged, Fail
<1>5. ASSUME NEW w \in Workers, NEW j \in JobIds, Park(w, j)
      PROVE  (parked[i] + Cardinality(InHand(i)) <= jobs[i].attempt)'
  <2>1. Drop(w, j) \in WorkerState /\ Drop(w, j).inbox = worker[w].inbox \ {j}
    BY <1>a, WorkerRecords
  <2>2. [Drop(w, j) EXCEPT !.pc = "parking", !.current = j].inbox = worker[w].inbox \ {j}
    BY <2>1 DEF WorkerState
  <2>3. \A v \in Workers : worker'[v].inbox = IF v = w THEN worker[w].inbox \ {j}
                                                       ELSE worker[v].inbox
    BY <1>a, <1>5, <2>2 DEF Park, TypeOK
  <2>4. parked'[i] = IF i = j THEN parked[i] + 1 ELSE parked[i]
    BY <1>a, <1>5 DEF Park, TypeOK
  <2>5. jobs' = jobs BY <1>5 DEF Park
  <2>6. CASE i # j BY <1>c, <2>3, <2>4, <2>5, <2>6
  <2>7. CASE i = j
    <3>1. w \in InHand(i) /\ InHand(i)' = InHand(i) \ {w}
      BY <1>5, <2>3, <2>7 DEF Park, Holds, InHand
    <3>2. IsFiniteSet(InHand(i)) BY BrokerConstants, FS_Subset DEF InHand
    <3>3. Cardinality(InHand(i)) \in Nat /\ Cardinality(InHand(i)') = Cardinality(InHand(i)) - 1
      BY <3>1, <3>2, FS_RemoveElement, FS_CardinalityType
    <3> QED BY <1>a, <1>b, <2>4, <2>5, <2>7, <3>3
  <2> QED BY <2>6, <2>7
<1>6. ASSUME NEW w \in Workers, AckParked(w)
      PROVE  (parked[i] + Cardinality(InHand(i)) <= jobs[i].attempt)'
  <2>1. worker[w].current \in JobIds BY <1>6 DEF AckParked, QueueInvariant, HandsAreFull
  <2>2. jobs'[i].attempt = jobs[i].attempt
    BY <1>a, <1>6, <2>1, AckKeepsRows DEF AckParked, jobVars
  <2>3. \A v \in Workers : worker'[v].inbox \subseteq worker[v].inbox
    BY <1>a, <1>6 DEF AckParked, TypeOK, WorkerState
  <2> QED BY <1>6, <1>c, <2>2, <2>3 DEF AckParked
<1>7. ASSUME NEW w \in Workers,
             Crash(w) \/ Restart(w) \/ \E j \in JobIds : FindGone(w, j)
      PROVE  (parked[i] + Cardinality(InHand(i)) <= jobs[i].attempt)'
  <2>1. \A v \in Workers : worker'[v].inbox \subseteq worker[v].inbox
    BY <1>a, <1>7 DEF Crash, Restart, FindGone, TypeOK, Down, Idle
  <2> QED BY <1>7, <1>c, <2>1 DEF Crash, Restart, FindGone
<1>8. ASSUME NEW j \in JobIds, Lapse(j) \/ Return(j)
      PROVE  (parked[i] + Cardinality(InHand(i)) <= jobs[i].attempt)'
  <2>1. jobs'[i].attempt = jobs[i].attempt
    BY <1>a, <1>8, TimeKeepsRows DEF Lapse, Return
  <2> QED BY <1>8, <1>c, <2>1 DEF Lapse, Return
<1>9. CASE UNCHANGED vars BY <1>9, <1>c DEF vars
<1> QED BY <1>2, <1>3, <1>4, <1>5, <1>6, <1>7, <1>8, <1>9 DEF Next, Work

\* Dead letters and copies in hand never exceed the deliveries counted, so one
\* job costs at most max_attempts model calls however its leases lapse (Consume).
THEOREM DeliveriesBoundSpend == Spec => []SpendIsCounted
<1>1. Init => SpendIsCounted
  <2> SUFFICES ASSUME Init, NEW i \in JobIds
               PROVE  parked[i] + Cardinality(InHand(i)) <= jobs[i].attempt
    BY DEF SpendIsCounted
  <2>1. InHand(i) = {} BY DEF Init, Idle, InHand
  <2>2. Cardinality(InHand(i)) = 0 BY <2>1, FS_EmptySet
  <2> QED BY <2>2 DEF Init, JobsInit, FreeRow
<1> QED BY <1>1, StepSpend, QueueIsSound, PTL DEF Spec
=============================================================================
