------------------------- MODULE ClaimPipelineProofs -------------------------
(***************************************************************************)
(* The promises of the claim pipeline, for any number of claims, skills,   *)
(* pull requests, requests in flight, evaluators and jobs.                 *)
(***************************************************************************)
EXTENDS PipelineProperties, SequenceTheorems, FiniteSetTheorems, TLAPS

-----------------------------------------------------------------------------
(* Data                                                                    *)

\* A list of pull requests of a claim: its positions and its members
\* (claim_pr_evidence, ordered by position).
LEMMA EvidencePositions ==
  ASSUME NEW list \in Sequenced(MaxPRs)
  PROVE  /\ DOMAIN list \subseteq Positions
         /\ \A n \in DOMAIN list : list[n] \in PRs
<1>1. PICK m \in 0 .. MaxPRs : list \in [1 .. m -> PRs] BY DEF Sequenced
<1>2. MaxPRs \in Nat BY PipelineConstants
<1> QED BY <1>1, <1>2 DEF Positions

\* A contributor's list is one the model keeps, and so is the empty one.
LEMMA ListsAreSequenced ==
  /\ EvidenceLists \subseteq Sequenced(MaxPRs)
  /\ <<>> \in Sequenced(MaxPRs)
<1>1. EvidenceLists \subseteq Sequenced(MaxPRs) BY PipelineConstants
<1>2. <<>> \in [1 .. 0 -> PRs] OBVIOUS
<1>3. 0 \in 0 .. MaxPRs BY PipelineConstants
<1> QED BY <1>1, <1>2, <1>3 DEF Sequenced

\* RecomputeStanding writes a number for every skill.
LEMMA RecountIsNat ==
  ASSUME TypeOK, NEW S, NEW lnk PROVE Recount(S, lnk) \in [Skills -> Nat]
<1>1. ASSUME NEW s \in Skills PROVE Cardinality(ScoredFor(lnk, s)) \in Nat
  <2>1. IsFiniteSet(PRs) BY PipelineConstants
  <2>2. ScoredFor(lnk, s) \subseteq PRs BY DEF ScoredFor
  <2>3. IsFiniteSet(ScoredFor(lnk, s)) BY <2>1, <2>2, FS_Subset
  <2> QED BY <2>3, FS_CardinalityType
<1>2. \A s \in Skills : counts[s] \in Nat BY DEF TypeOK
<1> QED BY <1>1, <1>2 DEF Recount

\* The fingerprint of a claim is one (ClaimRepository.Fingerprint).
LEMMA FingerprintType ==
  ASSUME TypeOK, NEW c \in Claims PROVE Fingerprint(c) \in Fingerprints
<1>1. claims[c] \in ClaimRow BY DEF TypeOK
<1>2. claims[c].prs \in Sequenced(MaxPRs) BY <1>1 DEF ClaimRow
<1>3. PRsOf(claims[c].prs) \in SUBSET PRs BY <1>2, EvidencePositions DEF PRsOf
<1>4. Declared(claims[c].skills) \in SUBSET Skills BY DEF Declared
<1> QED BY <1>3, <1>4 DEF Fingerprint, Fingerprints

\* The links after a release, an acceptance or a judgement are well typed
\* (UnlinkClaim, LinkJudgedEvidence, SetLinkStatus).
LEMMA LinksType ==
  ASSUME TypeOK, NEW c \in Claims
  PROVE  /\ Released(c) \in [Skills \X PRs -> LinkRow]
         /\ \A s : AcceptedLinks(c, s) \in [Skills \X PRs -> LinkRow]
         /\ \A w \in Workers : Settled(w) \in [Skills \X PRs -> LinkRow]
<1>1. \A pair \in Skills \X PRs : links[pair] \in LinkRow BY DEF TypeOK
<1>2. Unlinked \in LinkRow BY DEF Unlinked, LinkRow
<1>3. [claim |-> c, status |-> "scored"] \in LinkRow BY DEF LinkRow
<1>4. Released(c) \in [Skills \X PRs -> LinkRow] BY <1>1, <1>2 DEF Released
<1>5. \A s : AcceptedLinks(c, s) \in [Skills \X PRs -> LinkRow]
  BY <1>1, <1>3 DEF AcceptedLinks
<1>6. ASSUME NEW w \in Workers PROVE Settled(w) \in [Skills \X PRs -> LinkRow]
  <2>1. \A pair \in Skills \X PRs :
          /\ [links[pair] EXCEPT !.status = "scored"] \in LinkRow
          /\ [links[pair] EXCEPT !.status = "rejected"] \in LinkRow
    BY <1>1 DEF LinkRow
  <2> DEFINE scored(pair) == \E n \in DOMAIN worker[w].prs :
        worker[w].prs[n] = pair[2] /\ <<n, pair[1]>> \in worker[w].scored
  <2>2. \A pair \in Skills \X PRs :
          [links[pair] EXCEPT !.status = IF scored(pair) THEN "scored" ELSE "rejected"]
            \in LinkRow
    BY <2>1
  <2> QED BY <1>1, <2>2 DEF Settled
<1> QED BY <1>4, <1>5, <1>6

\* What a request read makes a well-typed request (patch, Replace, Submit and
\* Withdraw keep the claim they read in memory).
LEMMA RequestTypes ==
  ASSUME TypeOK, NEW c \in Claims
  PROVE  /\ claims[c] \in ClaimRow
         /\ claims[c].version \in 1 .. MaxVersion
         /\ claims[c].version \in 0 .. MaxVersion
         /\ claims[c].prs \in Sequenced(MaxPRs)
         /\ claims[c].skills \in [Skills -> OnClaim]
         /\ \A f \in [Skills -> OnClaim] : Reinserted(f) \in [Skills -> OnClaim]
         /\ \A S : Declaring(S) \in [Skills -> OnClaim]
         /\ NoSkills \in [Skills -> OnClaim]
<1>1. claims[c] \in ClaimRow BY DEF TypeOK
<1>2. MaxVersion \in Nat \ {0} BY PipelineConstants
<1>3. claims[c].version \in 1 .. MaxVersion /\ claims[c].version \in 0 .. MaxVersion
  BY <1>1, <1>2 DEF ClaimRow
<1>4. claims[c].prs \in Sequenced(MaxPRs) /\ claims[c].skills \in [Skills -> OnClaim]
  BY <1>1 DEF ClaimRow
<1>5. ASSUME NEW f \in [Skills -> OnClaim] PROVE Reinserted(f) \in [Skills -> OnClaim]
  BY DEF Reinserted, OnClaim
<1>6. \A S : Declaring(S) \in [Skills -> OnClaim] BY DEF Declaring, OnClaim
<1>7. NoSkills \in [Skills -> OnClaim] BY DEF NoSkills, OnClaim
<1> QED BY <1>1, <1>3, <1>4, <1>5, <1>6, <1>7

\* The blank records of requests and workers are well typed.
LEMMA BlankRecords ==
  /\ NoRequest \in ClientState
  /\ NoSweep \in AdminState
  /\ Waits \in WorkerState
  /\ \A i \in JobIds : [Waits EXCEPT !.pc = "reading", !.job = i] \in WorkerState
<1>1. MaxVersion \in Nat /\ Rubrics \in Nat BY PipelineConstants
<1>2. <<>> \in Sequenced(MaxPRs) BY ListsAreSequenced
<1>3. NoSkills \in [Skills -> OnClaim] BY DEF NoSkills, OnClaim
<1>4. 0 \in 0 .. MaxVersion /\ 0 \in 0 .. Rubrics BY <1>1
<1>5. NoRequest \in ClientState BY <1>2, <1>3, <1>4 DEF NoRequest, ClientState
<1>6. NoSweep \in AdminState BY <1>4 DEF NoSweep, AdminState
<1>7. NoFingerprint \in Fingerprints BY DEF NoFingerprint, Fingerprints
<1>8. Waits \in WorkerState BY <1>2, <1>3, <1>4, <1>7 DEF Waits, WorkerState
<1>9. \A i \in JobIds : [Waits EXCEPT !.pc = "reading", !.job = i] \in WorkerState
  BY <1>8 DEF WorkerState
<1> QED BY <1>5, <1>6, <1>8, <1>9

\* The messages the three publishers send are messages (claim.go Submit, admin.go
\* DecideReevaluation, evaluation.go Sweep).
LEMMA MessagesType ==
  ASSUME NEW c \in Claims, NEW v \in 1 .. MaxVersion,
         NEW cause \in {"submit", "dispute", "sweep"}
  PROVE  Message(c, v, cause) \in Messages
BY PipelineConstants DEF Message

-----------------------------------------------------------------------------
(* The queue under the pipeline's transactions                             *)

\* No step takes a message off its row, brings an acked row back, or writes a row
\* that carries no message.
RowsKept ==
  \A i \in JobIds :
    /\ jobs[i].state # "free" => jobs'[i].state # "free" /\ jobs'[i].msg = jobs[i].msg
    /\ jobs[i].state = "acked" => jobs'[i].state = "acked"
    /\ jobs'[i].state # "free" => jobs'[i].msg \in Messages

\* Publishing messages fills their own rows and keeps the others (Broker.Publish).
LEMMA PublishKept ==
  ASSUME TypeOK, InFlight, NEW batch, DOMAIN batch \subseteq FreeIds,
         \A i \in DOMAIN batch : batch[i] \in Messages, Publish(batch)
  PROVE  /\ JobsTypeOK' /\ RowsKept
         /\ \A j \in DOMAIN batch :
              j \in JobIds /\ jobs'[j].state = "queued" /\ jobs'[j].msg = batch[j]
<1> DEFINE new(i) == [state |-> "queued", msg |-> batch[i], attempt |-> 0,
                      leased |-> FALSE, due |-> TRUE]
<1>1. JobsTypeOK /\ MaxAttempts \in Nat BY JobConstants DEF TypeOK
<1>2. \A i \in DOMAIN batch : new(i) \in JobRow BY <1>1 DEF JobRow
<1>3. jobs' \in [JobIds -> JobRow] BY <1>1, <1>2 DEF Publish, JobsTypeOK
<1>4. ahead' \in SUBSET (JobIds \X JobIds) BY <1>1 DEF Publish, JobsTypeOK, Due, FreeIds
<1>5. JobsTypeOK' BY <1>3, <1>4 DEF JobsTypeOK
<1>6. \A j \in DOMAIN batch : /\ j \in JobIds /\ jobs[j].state = "free"
                              /\ jobs'[j].state = "queued" /\ jobs'[j].msg = batch[j]
  BY <1>1 DEF Publish, FreeIds, JobsTypeOK
<1>7. \A j \in JobIds : j \notin DOMAIN batch => jobs'[j] = jobs[j]
  BY <1>1 DEF Publish, FreeIds, JobsTypeOK
<1> QED BY <1>5, <1>6, <1>7 DEF RowsKept, InFlight

\* An ack keeps the rows, provided the row is queued (Broker.Ack).
LEMMA AckKept ==
  ASSUME TypeOK, InFlight, NEW i \in JobIds, InQueue(i), AckRow(i)
  PROVE  /\ JobsTypeOK' /\ RowsKept
         /\ jobs'[i].state = "acked"
         /\ \A j \in JobIds : j # i => jobs'[j] = jobs[j]
         /\ \A j \in JobIds : jobs'[j].msg = jobs[j].msg
<1>1. JobsTypeOK /\ jobs[i] \in JobRow BY DEF TypeOK, JobsTypeOK
<1>2. [jobs[i] EXCEPT !.state = "acked", !.leased = FALSE, !.due = FALSE] \in JobRow
  BY <1>1 DEF JobRow
<1>3. jobs' \in [JobIds -> JobRow] BY <1>1, <1>2 DEF AckRow, JobsTypeOK
<1>4. ahead' \in SUBSET (JobIds \X JobIds) BY <1>1 DEF AckRow, OutOfOrder, JobsTypeOK
<1>5. JobsTypeOK' BY <1>3, <1>4 DEF JobsTypeOK
<1>6. /\ \A j \in JobIds : jobs'[j].msg = jobs[j].msg
      /\ jobs'[i].state = "acked"
      /\ \A j \in JobIds : j # i => jobs'[j] = jobs[j]
  BY <1>1 DEF AckRow, JobsTypeOK, JobRow
<1>7. jobs[i].state = "queued" BY DEF InQueue
<1> QED BY <1>5, <1>6, <1>7 DEF RowsKept, InFlight

\* A nack, a lease and the passage of time keep them (Broker.Nack, Broker.Consume).
LEMMA OtherKept ==
  ASSUME TypeOK, InFlight,
         \/ \E i \in JobIds : NackRow(i) \/ LeaseLapses(i) \/ BackoffEnds(i)
         \/ \E i \in Claimable : LeaseRows({i})
         \/ UNCHANGED jobVars
  PROVE  /\ JobsTypeOK' /\ RowsKept
         /\ \A j \in JobIds : jobs'[j].state = jobs[j].state /\ jobs'[j].msg = jobs[j].msg
<1>1. JobsTypeOK /\ \A j \in JobIds : jobs[j] \in JobRow BY DEF TypeOK, JobsTypeOK
<1> DEFINE Kept == JobsTypeOK' /\ \A j \in JobIds : /\ jobs'[j].state = jobs[j].state
                                                    /\ jobs'[j].msg = jobs[j].msg
<1>2. ASSUME NEW i \in JobIds, NackRow(i) PROVE Kept
  <2>1. [jobs[i] EXCEPT !.leased = FALSE, !.due = FALSE] \in JobRow BY <1>1 DEF JobRow
  <2>2. jobs' \in [JobIds -> JobRow] BY <1>1, <1>2, <2>1 DEF NackRow, JobsTypeOK
  <2>3. ahead' \in SUBSET (JobIds \X JobIds)
    BY <1>1, <1>2 DEF NackRow, OutOfOrder, JobsTypeOK
  <2> QED BY <1>1, <1>2, <2>2, <2>3 DEF NackRow, JobsTypeOK, JobRow
<1>3. ASSUME NEW i \in JobIds, LeaseLapses(i) PROVE Kept
  <2>1. [jobs[i] EXCEPT !.leased = FALSE] \in JobRow BY <1>1 DEF JobRow
  <2> QED BY <1>1, <1>3, <2>1 DEF LeaseLapses, JobsTypeOK, JobRow
<1>4. ASSUME NEW i \in JobIds, BackoffEnds(i) PROVE Kept
  <2>1. [jobs[i] EXCEPT !.due = TRUE] \in JobRow BY <1>1 DEF JobRow
  <2>2. jobs' \in [JobIds -> JobRow] BY <1>1, <1>4, <2>1 DEF BackoffEnds, JobsTypeOK
  <2>3. ahead' \in SUBSET (JobIds \X JobIds) BY <1>1, <1>4 DEF BackoffEnds, JobsTypeOK, Due
  <2> QED BY <1>1, <1>4, <2>2, <2>3 DEF BackoffEnds, JobsTypeOK, JobRow
<1>5. ASSUME NEW i \in Claimable, LeaseRows({i}) PROVE Kept
  <2>1. i \in JobIds /\ jobs[i].attempt < MaxAttempts /\ MaxAttempts \in Nat
    BY JobConstants DEF Claimable
  <2>2. jobs[i].attempt + 1 \in 0 .. MaxAttempts BY <1>1, <2>1 DEF JobRow
  <2>3. [jobs[i] EXCEPT !.leased = TRUE, !.attempt = @ + 1] \in JobRow
    BY <1>1, <2>1, <2>2 DEF JobRow
  <2>4. jobs' \in [JobIds -> JobRow] BY <1>1, <1>5, <2>3 DEF LeaseRows, JobsTypeOK
  <2> QED BY <1>1, <1>5, <2>4 DEF LeaseRows, JobsTypeOK, JobRow
<1>6. CASE UNCHANGED jobVars BY <1>1, <1>6 DEF jobVars, JobsTypeOK, RowsKept, InFlight
<1>7. UNCHANGED jobVars \/ Kept BY <1>2, <1>3, <1>4, <1>5
<1> QED BY <1>6, <1>7 DEF RowsKept, InFlight

\* A submission's row (Submit's transaction).
LEMMA EnqueueKept ==
  ASSUME TypeOK, InFlight, NEW k \in Clients, Enqueue(k)
  PROVE  /\ JobsTypeOK' /\ RowsKept
         /\ \E i \in JobIds : jobs'[i].state = "queued" /\ jobs'[i].msg.claim = client[k].claim
<1>1. client[k].claim \in Claims /\ client[k].version >= 1 BY DEF Enqueue, InFlight
<1>2. client[k] \in ClientState BY DEF TypeOK
<1>3. client[k].version \in 1 .. MaxVersion BY <1>1, <1>2, PipelineConstants DEF ClientState
<1> DEFINE m == Message(client[k].claim, client[k].version, "submit")
<1>4. m \in Messages BY <1>1, <1>3, MessagesType
<1>5. PICK i \in FreeIds : Publish([j \in {i} |-> m]) BY DEF Enqueue
<1>6. m.claim = client[k].claim BY DEF Message
<1> HIDE DEF m
<1>7. /\ JobsTypeOK' /\ RowsKept
      /\ i \in JobIds /\ jobs'[i].state = "queued" /\ jobs'[i].msg = m
  BY <1>4, <1>5, PublishKept
<1> QED BY <1>6, <1>7

\* An accepted dispute's row (DecideReevaluation's transaction).
LEMMA AcceptDisputeKept ==
  ASSUME TypeOK, InFlight, NEW c \in Claims, AcceptDispute(c)
  PROVE  /\ JobsTypeOK' /\ RowsKept
         /\ \E i \in JobIds : jobs'[i].state = "queued" /\ jobs'[i].msg.claim = c
<1> DEFINE m == Message(c, claims[c].version, "dispute")
<1>1. m \in Messages BY RequestTypes, MessagesType
<1>2. PICK i \in FreeIds : Publish([j \in {i} |-> m]) BY DEF AcceptDispute
<1>3. m.claim = c BY DEF Message
<1> HIDE DEF m
<1>4. /\ JobsTypeOK' /\ RowsKept
      /\ i \in JobIds /\ jobs'[i].state = "queued" /\ jobs'[i].msg = m
  BY <1>1, <1>2, PublishKept
<1> QED BY <1>3, <1>4

\* A sweep's rows, one for each claim it collected (Sweep's transaction).
LEMMA RecordSweepKept ==
  ASSUME TypeOK, InFlight, RecordSweep
  PROVE  /\ JobsTypeOK' /\ RowsKept
         /\ \A c \in admin.list :
              \E i \in JobIds : jobs'[i].state = "queued" /\ jobs'[i].msg.claim = c
<1>1. admin \in AdminState BY DEF TypeOK
<1>2. admin.list \subseteq Claims BY <1>1 DEF AdminState
<1>3. PICK S \in SUBSET FreeIds : \E of \in [S -> admin.list] :
        /\ \A c \in admin.list : \E i \in S : of[i] = c
        /\ Publish([i \in S |-> Message(of[i], claims[of[i]].version, "sweep")])
  BY DEF RecordSweep
<1>4. PICK of \in [S -> admin.list] :
        /\ \A c \in admin.list : \E i \in S : of[i] = c
        /\ Publish([i \in S |-> Message(of[i], claims[of[i]].version, "sweep")])
  BY <1>3
<1> DEFINE batch == [i \in S |-> Message(of[i], claims[of[i]].version, "sweep")]
<1>5. \A i \in S : of[i] \in Claims BY <1>2, <1>4
<1>6. \A i \in S : batch[i] \in Messages BY <1>5, RequestTypes, MessagesType
<1>7. \A i \in S : batch[i].claim = of[i] BY DEF Message
<1>8. DOMAIN batch = S /\ DOMAIN batch \subseteq FreeIds /\ Publish(batch) BY <1>4
<1> HIDE DEF batch
<1>9. /\ JobsTypeOK' /\ RowsKept
      /\ \A i \in S : i \in JobIds /\ jobs'[i].state = "queued" /\ jobs'[i].msg = batch[i]
  BY <1>6, <1>8, PublishKept
<1> QED BY <1>4, <1>7, <1>9

\* What the evaluator's steps do to the queue (Process, deadLetter, drain).
LEMMA WorkerKept ==
  ASSUME TypeOK, InFlight, NEW w \in Workers, Consume(w) \/ Steps(w) \/ Crash(w)
  PROVE  JobsTypeOK' /\ RowsKept
<1>1. CASE Consume(w) BY <1>1, OtherKept DEF Consume
<1>2. worker[w].pc # "idle" => worker[w].job \in JobIds BY DEF InFlight
<1>3. CASE AckDone(w) BY <1>2, <1>3, AckKept DEF AckDone
<1>4. CASE AckParked(w)
  <2>1. CASE InQueue(worker[w].job) /\ AckRow(worker[w].job)
    BY <1>2, <1>4, <2>1, AckKept DEF AckParked
  <2> QED BY <1>4, <2>1, OtherKept DEF AckParked
<1>5. CASE Fail(w) BY <1>2, <1>5, OtherKept DEF Fail
<1>6. CASE Commit(w) BY <1>2, <1>6, AckKept DEF Commit
<1>7. CASE ReadClaim(w) \/ CheckDone(w) \/ Judge(w) \/ Refuse(w) \/ Crash(w)
  BY <1>7, OtherKept DEF ReadClaim, CheckDone, Judge, Refuse, Crash
<1> QED BY <1>1, <1>3, <1>4, <1>5, <1>6, <1>7 DEF Steps

\* Every step of the pipeline keeps the queue well typed and its rows in place.
LEMMA StepRows ==
  ASSUME TypeOK, InFlight, [Next]_vars PROVE JobsTypeOK' /\ RowsKept
<1>1. ASSUME NEW k \in Clients, Requests(k) PROVE JobsTypeOK' /\ RowsKept
  <2>1. CASE Enqueue(k) BY <2>1, EnqueueKept
  <2>2. CASE ~Enqueue(k)
    <3>1. UNCHANGED jobVars
      BY <1>1, <2>2 DEF Requests, EditPRs, EditSkills, EditAll, Patch, Submit, Withdraw,
         WriteEdit, Rewritten, RefuseEdit, MarkInvalid, RefuseTaken, Retire, Abandon
    <3> QED BY <3>1, OtherKept
  <2> QED BY <2>1, <2>2
<1>2. ASSUME NEW c \in Claims, Decisions(c) \/ LockExpires(c) PROVE JobsTypeOK' /\ RowsKept
  <2>1. CASE AcceptDispute(c) BY <2>1, AcceptDisputeKept
  <2>2. CASE ~AcceptDispute(c)
    <3>1. UNCHANGED jobVars
      BY <1>2, <2>2 DEF Decisions, AcceptSuggestion, DismissSuggestion, RequestDispute,
         RejectDispute, LockExpires
    <3> QED BY <3>1, OtherKept
  <2> QED BY <2>1, <2>2
<1>3. CASE RecordSweep BY <1>3, RecordSweepKept
<1>4. CASE AbandonSweep \/ \E to \in 1 .. Rubrics : BeginSweep(to)
  BY <1>4, OtherKept DEF AbandonSweep, BeginSweep
<1>5. CASE \E w \in Workers : Consume(w) \/ Steps(w) \/ Crash(w) BY <1>5, WorkerKept
<1>6. CASE \E i \in JobIds : Lapse(i) \/ Return(i) BY <1>6, OtherKept DEF Lapse, Return
<1>7. CASE UNCHANGED vars BY <1>7, OtherKept DEF vars, jobVars
<1> QED BY <1>1, <1>2, <1>3, <1>4, <1>5, <1>6, <1>7 DEF Next

-----------------------------------------------------------------------------
(* Type correctness                                                        *)

\* The pipeline starts well typed, with nothing in flight (drafts and no rows).
LEMMA InitType == Init => TypeOK /\ InFlight
<1> SUFFICES ASSUME Init PROVE TypeOK /\ InFlight OBVIOUS
<1>1. JobsTypeOK
  <2>1. MaxAttempts \in Nat BY JobConstants
  <2>2. FreeRow \in JobRow BY <2>1 DEF FreeRow, JobRow
  <2> QED BY <2>2 DEF Init, JobsInit, JobsTypeOK
<1>2. <<>> \in Sequenced(MaxPRs) BY ListsAreSequenced
<1>3. NoSkills \in [Skills -> OnClaim] BY DEF NoSkills, OnClaim
<1>4. 1 \in 1 .. MaxVersion /\ 1 \in 1 .. Rubrics BY PipelineConstants
<1>5. [status |-> "draft", version |-> 1, prs |-> <<>>, skills |-> NoSkills,
       judged |-> FALSE, locked |-> FALSE] \in ClaimRow
  BY <1>2, <1>3, <1>4 DEF ClaimRow
<1>6. Unlinked \in LinkRow BY DEF Unlinked, LinkRow
<1>7. <<>> \in Seq(EvaluationRow) OBVIOUS
<1>8. TypeOK BY <1>1, <1>4, <1>5, <1>6, <1>7, BlankRecords DEF Init, TypeOK
<1>9. InFlight BY DEF Init, InFlight, JobsInit, FreeRow, NoRequest, NoSweep, Waits
<1> QED BY <1>8, <1>9

\* What the contributor's requests do to claims, links and counts (claim.go).
LEMMA RequestType ==
  ASSUME TypeOK, InFlight, NEW k \in Clients, Requests(k) PROVE TypeOK'
<1>1. JobsTypeOK'
  <2>1. [Next]_vars BY DEF Next
  <2> QED BY <2>1, StepRows
<1>2. client[k] \in ClientState BY DEF TypeOK
<1>3. MaxVersion \in Nat \ {0} BY PipelineConstants
<1>4. ASSUME NEW c \in Claims, EditPRs(k, c) \/ EditSkills(k, c) PROVE TypeOK'
  <2>1. \E list \in Sequenced(MaxPRs), f \in [Skills -> OnClaim], edits \in {"prs", "skills"} :
          Patch(k, c, list, f, edits)
    <3>1. CASE EditPRs(k, c)
      <4>1. PICK list \in EvidenceLists : Patch(k, c, list, claims[c].skills, "prs")
        BY <3>1 DEF EditPRs
      <4>2. list \in Sequenced(MaxPRs) BY ListsAreSequenced
      <4> QED BY <4>1, <4>2, RequestTypes
    <3>2. CASE EditSkills(k, c)
      <4>1. PICK S \in SkillSets : Patch(k, c, claims[c].prs, Declaring(S), "skills")
        BY <3>2 DEF EditSkills
      <4> QED BY <4>1, RequestTypes
    <3> QED BY <1>4, <3>1, <3>2
  <2>2. PICK list \in Sequenced(MaxPRs), f \in [Skills -> OnClaim], edits \in {"prs", "skills"} :
          Patch(k, c, list, f, edits)
    BY <2>1
  <2>3. [pc |-> "write", claim |-> c, version |-> claims[c].version,
         versioned |-> ReportsJudged(c), prs |-> list, skills |-> Reinserted(f),
         edits |-> edits, asked |-> FALSE] \in ClientState
    <3>1. ReportsJudged(c) \in BOOLEAN BY RequestTypes DEF ReportsJudged, ClaimRow
    <3> QED BY <2>2, <3>1, RequestTypes DEF ClientState
  <2>4. client' \in [Clients -> ClientState] BY <2>2, <2>3 DEF Patch, TypeOK
  <2> QED BY <1>1, <2>2, <2>4 DEF Patch, TypeOK, claimVars, judgedVars
<1>5. ASSUME NEW c \in Claims, EditAll(k, c) PROVE TypeOK'
  <2>1. PICK list \in Sequenced(MaxPRs), S \in SkillSets :
          client' = [client EXCEPT ![k] =
            [pc |-> "write", claim |-> c, version |-> claims[c].version,
             versioned |-> TRUE, prs |-> list, skills |-> Declaring(S),
             edits |-> "all", asked |-> FALSE]]
    BY <1>5, ListsAreSequenced DEF EditAll
  <2>2. [pc |-> "write", claim |-> c, version |-> claims[c].version,
         versioned |-> TRUE, prs |-> list, skills |-> Declaring(S),
         edits |-> "all", asked |-> FALSE] \in ClientState
    BY RequestTypes DEF ClientState
  <2>3. client' \in [Clients -> ClientState] BY <2>1, <2>2 DEF TypeOK
  <2> QED BY <1>1, <1>5, <2>3 DEF EditAll, TypeOK, claimVars, judgedVars
<1>6. ASSUME NEW c \in Claims, Submit(k, c) PROVE TypeOK'
  <2>1. PICK verdict \in {"invalidate", "submit"} :
          client' = [client EXCEPT ![k] =
            [pc |-> verdict, claim |-> c, version |-> claims[c].version,
             versioned |-> FALSE, prs |-> claims[c].prs,
             skills |-> claims[c].skills, edits |-> "nothing", asked |-> FALSE]]
    BY <1>6 DEF Submit, Verdicts
  <2>2. [pc |-> verdict, claim |-> c, version |-> claims[c].version,
         versioned |-> FALSE, prs |-> claims[c].prs,
         skills |-> claims[c].skills, edits |-> "nothing", asked |-> FALSE] \in ClientState
    BY RequestTypes DEF ClientState
  <2>3. client' \in [Clients -> ClientState] BY <2>1, <2>2 DEF TypeOK
  <2> QED BY <1>1, <1>6, <2>3 DEF Submit, TypeOK, claimVars, judgedVars
<1>7. ASSUME NEW c \in Claims, Withdraw(k, c) PROVE TypeOK'
  <2>1. PICK confirm \in BOOLEAN :
          client' = [client EXCEPT ![k] =
            [pc |-> "withdraw", claim |-> c, version |-> claims[c].version,
             versioned |-> FALSE, prs |-> <<>>, skills |-> claims[c].skills,
             edits |-> "nothing", asked |-> confirm]]
    BY <1>7 DEF Withdraw
  <2>2. [pc |-> "withdraw", claim |-> c, version |-> claims[c].version,
         versioned |-> FALSE, prs |-> <<>>, skills |-> claims[c].skills,
         edits |-> "nothing", asked |-> confirm] \in ClientState
    BY RequestTypes, ListsAreSequenced DEF ClientState
  <2>3. client' \in [Clients -> ClientState] BY <2>1, <2>2 DEF TypeOK
  <2> QED BY <1>1, <1>7, <2>3 DEF Withdraw, TypeOK, claimVars, judgedVars
<1>8. client[k].pc # "idle" => client[k].claim \in Claims BY DEF InFlight
<1>9. CASE WriteEdit(k)
  <2> DEFINE c == client[k].claim
  <2>1. c \in Claims BY <1>8, <1>9 DEF WriteEdit
  <2> DEFINE v == IF client[k].versioned THEN claims[c].version + 1 ELSE claims[c].version
             row == [claims[c] EXCEPT !.status = "draft", !.version = v,
                       !.prs = client[k].prs, !.skills = client[k].skills]
  <2>2. client[k].versioned => claims[c].version < MaxVersion
    BY <1>9 DEF WriteEdit, Current, InFlight
  <2>3. v \in 1 .. MaxVersion BY <1>3, <2>1, <2>2, RequestTypes
  <2>4. row \in ClaimRow
    <3>1. claims[c] \in ClaimRow BY <2>1, RequestTypes
    <3>2. client[k].prs \in Sequenced(MaxPRs) /\ client[k].skills \in [Skills -> OnClaim]
      BY <1>2 DEF ClientState
    <3> HIDE DEF v, c
    <3> QED BY <2>3, <3>1, <3>2 DEF ClaimRow
  <2>5. claims' = [claims EXCEPT ![c] = row]
    BY <1>9, <2>1, RequestTypes DEF WriteEdit, Rewritten, TypeOK, ClaimRow
  <2> HIDE DEF row
  <2>6. claims' \in [Claims -> ClaimRow] BY <2>4, <2>5 DEF TypeOK
  <2>7. client' \in [Clients -> ClientState]
    BY <1>9, BlankRecords DEF WriteEdit, Rewritten, TypeOK
  <2> QED BY <1>1, <1>9, <2>6, <2>7 DEF WriteEdit, Rewritten, TypeOK, judgedVars
<1>10. CASE RefuseEdit(k) \/ RefuseTaken(k) \/ Abandon(k)
  <2>1. client' \in [Clients -> ClientState]
    BY <1>10, BlankRecords DEF RefuseEdit, RefuseTaken, Abandon, TypeOK
  <2> QED BY <1>1, <1>10, <2>1
          DEF RefuseEdit, RefuseTaken, Abandon, TypeOK, claimVars, judgedVars
<1>11. ASSUME NEW st \in {"invalid", "queued", "withdrawn"}, client[k].claim \in Claims,
              claims' = [claims EXCEPT ![client[k].claim].status = st]
       PROVE  claims' \in [Claims -> ClaimRow]
  <2>1. [claims[client[k].claim] EXCEPT !.status = st] \in ClaimRow
    BY <1>11, RequestTypes DEF ClaimRow
  <2> QED BY <1>11, <2>1 DEF TypeOK
<1>12. CASE MarkInvalid(k)
  <2>1. client' \in [Clients -> ClientState] BY <1>12, BlankRecords DEF MarkInvalid, TypeOK
  <2>2. claims' \in [Claims -> ClaimRow] BY <1>8, <1>11, <1>12 DEF MarkInvalid
  <2> QED BY <1>1, <1>12, <2>1, <2>2 DEF MarkInvalid, TypeOK, judgedVars
<1>13. CASE Enqueue(k)
  <2>1. client' \in [Clients -> ClientState] BY <1>13, BlankRecords DEF Enqueue, TypeOK
  <2>2. claims' \in [Claims -> ClaimRow] BY <1>8, <1>11, <1>13 DEF Enqueue
  <2>3. links' \in [Skills \X PRs -> LinkRow]
    <3>1. [claim |-> client[k].claim, status |-> "pending"] \in LinkRow
      BY <1>8, <1>13 DEF Enqueue, LinkRow
    <3>2. \A pair \in Skills \X PRs : links[pair] \in LinkRow BY DEF TypeOK
    <3> QED BY <1>13, <3>1, <3>2 DEF Enqueue
  <2> QED BY <1>1, <1>13, <2>1, <2>2, <2>3 DEF Enqueue, TypeOK, judgedVars
<1>14. CASE Retire(k)
  <2>1. client' \in [Clients -> ClientState] BY <1>14, BlankRecords DEF Retire, TypeOK
  <2>2. claims' \in [Claims -> ClaimRow] BY <1>8, <1>11, <1>14 DEF Retire
  <2>3. links' \in [Skills \X PRs -> LinkRow] BY <1>8, <1>14, LinksType DEF Retire
  <2>4. counts' \in [Skills -> Nat] BY <1>14, RecountIsNat DEF Retire
  <2> QED BY <1>1, <1>14, <2>1, <2>2, <2>3, <2>4 DEF Retire, TypeOK, judgedVars
<1> QED BY <1>4, <1>5, <1>6, <1>7, <1>9, <1>10, <1>12, <1>13, <1>14 DEF Requests

\* What decisions, the lock's end and a sweep do to the claims (DecideSuggestion,
\* DecideReevaluation, Sweep).
LEMMA DecisionType ==
  ASSUME TypeOK, InFlight, NEW c \in Claims, Decisions(c) \/ LockExpires(c) PROVE TypeOK'
<1>1. JobsTypeOK'
  <2>1. [Next]_vars BY DEF Next
  <2> QED BY <2>1, StepRows
<1>2. claims[c] \in ClaimRow BY DEF TypeOK
<1>3. ASSUME NEW s \in Skills, NEW o \in {"accepted", "dismissed"},
             claims' = [claims EXCEPT ![c].skills[s] = o]
      PROVE  claims' \in [Claims -> ClaimRow]
  <2>1. [claims[c].skills EXCEPT ![s] = o] \in [Skills -> OnClaim]
    BY RequestTypes DEF OnClaim
  <2>2. [claims[c] EXCEPT !.skills = [claims[c].skills EXCEPT ![s] = o]] \in ClaimRow
    BY <1>2, <2>1 DEF ClaimRow
  <2> QED BY <1>3, <2>2 DEF TypeOK
<1>4. ASSUME NEW s \in Skills, AcceptSuggestion(c, s) PROVE TypeOK'
  <2>1. claims' \in [Claims -> ClaimRow] BY <1>3, <1>4 DEF AcceptSuggestion
  <2>2. links' \in [Skills \X PRs -> LinkRow] BY <1>4, LinksType DEF AcceptSuggestion
  <2>3. counts' \in [Skills -> Nat] BY <1>4, RecountIsNat DEF AcceptSuggestion
  <2> QED BY <1>1, <1>4, <2>1, <2>2, <2>3 DEF AcceptSuggestion, TypeOK, judgedVars
<1>5. ASSUME NEW s \in Skills, DismissSuggestion(c, s) PROVE TypeOK'
  <2>1. claims' \in [Claims -> ClaimRow] BY <1>3, <1>5 DEF DismissSuggestion
  <2> QED BY <1>1, <1>5, <2>1 DEF DismissSuggestion, TypeOK, judgedVars
<1>6. CASE RequestDispute(c) \/ RejectDispute(c)
  BY <1>1, <1>6 DEF RequestDispute, RejectDispute, TypeOK, claimVars, judgedVars
<1>7. CASE AcceptDispute(c)
  <2>1. [claims[c] EXCEPT !.status = "queued"] \in ClaimRow BY <1>2 DEF ClaimRow
  <2>2. claims' \in [Claims -> ClaimRow] BY <1>7, <2>1 DEF AcceptDispute, TypeOK
  <2> QED BY <1>1, <1>7, <2>2 DEF AcceptDispute, TypeOK, judgedVars
<1>8. CASE LockExpires(c)
  <2>1. [claims[c] EXCEPT !.locked = FALSE] \in ClaimRow BY <1>2 DEF ClaimRow
  <2>2. claims' \in [Claims -> ClaimRow] BY <1>8, <2>1 DEF LockExpires, TypeOK
  <2> QED BY <1>1, <1>8, <2>2 DEF LockExpires, TypeOK, judgedVars
<1> QED BY <1>4, <1>5, <1>6, <1>7, <1>8 DEF Decisions

\* A sweep moves the rubric to a version the build knows and queues what it
\* collected (Sweep).
LEMMA SweepType ==
  ASSUME TypeOK, InFlight,
         RecordSweep \/ AbandonSweep \/ \E to \in 1 .. Rubrics : BeginSweep(to)
  PROVE  TypeOK'
<1>1. JobsTypeOK'
  <2>1. [Next]_vars BY DEF Next
  <2> QED BY <2>1, StepRows
<1>2. admin \in AdminState BY DEF TypeOK
<1>3. CASE RecordSweep
  <2>1. rubric' \in 1 .. Rubrics
    <3>1. admin.to \in 0 .. Rubrics BY <1>2 DEF AdminState
    <3>2. admin.to >= 1 BY <1>3 DEF RecordSweep, InFlight
    <3>3. rubric' = admin.to BY <1>3 DEF RecordSweep
    <3> QED BY <3>1, <3>2, <3>3, PipelineConstants
  <2>2. \A c \in Claims : [claims[c] EXCEPT !.status = "queued"] \in ClaimRow
    BY RequestTypes DEF ClaimRow
  <2>3. claims' \in [Claims -> ClaimRow] BY <1>3, <2>2, RequestTypes DEF RecordSweep
  <2>4. sweep' \in {"none", "open", "done"} BY <1>3 DEF RecordSweep
  <2> QED BY <1>1, <1>3, <2>1, <2>3, <2>4, BlankRecords DEF RecordSweep, TypeOK
<1>4. CASE AbandonSweep
  BY <1>1, <1>4, BlankRecords DEF AbandonSweep, TypeOK, claimVars, judgedVars
<1>5. ASSUME NEW to \in 1 .. Rubrics, BeginSweep(to) PROVE TypeOK'
  <2>1. to \in 0 .. Rubrics BY PipelineConstants
  <2>2. PendingSweep \in SUBSET Claims BY DEF PendingSweep
  <2>3. admin' \in AdminState BY <1>5, <2>1, <2>2 DEF BeginSweep, AdminState
  <2> QED BY <1>1, <1>5, <2>3 DEF BeginSweep, TypeOK, claimVars, judgedVars
<1> QED BY <1>3, <1>4, <1>5

\* What is recorded of a judgement: the rows are rows, there is at least one, and
\* each job is the one in hand (EvaluationRepository.Record).
LEMMA RecordedType ==
  ASSUME TypeOK, InFlight, NEW w \in Workers, worker[w].pc = "persisting"
  PROVE  /\ MessageOf(w).claim \in Claims
         /\ Recorded(w) \in Seq(EvaluationRow)
         /\ Recorded(w) # <<>>
         /\ Len(Recorded(w)) \in DOMAIN Recorded(w)
<1>1. /\ worker[w].job \in JobIds
      /\ jobs[worker[w].job].msg \in Messages
      /\ worker[w].version >= 1 /\ worker[w].rubric >= 1
  BY DEF InFlight
<1>2. MessageOf(w).claim \in Claims BY <1>1, PipelineConstants DEF MessageOf
<1>3. worker[w] \in WorkerState BY DEF TypeOK
<1> DEFINE c == MessageOf(w).claim
           row == [version |-> worker[w].version, rubric |-> worker[w].rubric,
                   fingerprint |-> worker[w].fingerprint, scores |-> {},
                   judged |-> PRsOf(worker[w].prs), job |-> worker[w].job]
<1>4. row \in EvaluationRow
  <2>1. worker[w].version \in 1 .. MaxVersion /\ worker[w].rubric \in 1 .. Rubrics
    BY <1>1, <1>3, PipelineConstants DEF WorkerState
  <2>2. worker[w].prs \in Sequenced(MaxPRs) /\ worker[w].fingerprint \in Fingerprints
    BY <1>3 DEF WorkerState
  <2>3. PRsOf(worker[w].prs) \in SUBSET PRs BY <2>2, EvidencePositions DEF PRsOf
  <2> QED BY <1>1, <2>1, <2>2, <2>3 DEF EvaluationRow
<1>5. evals[c] \in Seq(EvaluationRow) BY <1>2 DEF TypeOK
<1> DEFINE known == \E n \in DOMAIN evals[c] :
                 /\ evals[c][n].version = worker[w].version
                 /\ evals[c][n].fingerprint = worker[w].fingerprint
                 /\ evals[c][n].rubric = worker[w].rubric
<1>6. Recorded(w) = IF known THEN evals[c] ELSE Append(evals[c], row) BY DEF Recorded
<1>7. known => evals[c] # <<>> OBVIOUS
<1> HIDE DEF known, row, c
<1>8. Append(evals[c], row) \in Seq(EvaluationRow) /\ Append(evals[c], row) # <<>>
  BY <1>4, <1>5
<1>9. Recorded(w) \in Seq(EvaluationRow) /\ Recorded(w) # <<>> BY <1>5, <1>6, <1>7, <1>8
<1>10. Len(Recorded(w)) \in DOMAIN Recorded(w) BY <1>9
<1> QED BY <1>2, <1>9, <1>10

\* The score rows a commit writes are well typed, because a score whose position is
\* not in the evidence any more makes Persist fail.
LEMMA ScoresType ==
  ASSUME TypeOK, InFlight, NEW w \in Workers, worker[w].pc = "persisting", Persistable(w)
  PROVE  ScoreRows(w) \in SUBSET (PRs \X Positions \X Skills)
<1> DEFINE list == claims[MessageOf(w).claim].prs
<1>1. list \in Sequenced(MaxPRs) BY RecordedType, RequestTypes
<1>2. \A n \in DOMAIN list : list[n] \in PRs BY <1>1, EvidencePositions
<1>3. \A t \in worker[w].scored : t[1] \in Positions /\ t[2] \in Skills
  BY DEF TypeOK, WorkerState
<1>4. \A t \in worker[w].scored : t[1] \in DOMAIN list BY DEF Persistable
<1> QED BY <1>2, <1>3, <1>4 DEF ScoreRows

\* The transaction that persists a judgement keeps the types (Persist).
LEMMA CommitType ==
  ASSUME TypeOK, InFlight, NEW w \in Workers, Commit(w), JobsTypeOK' PROVE TypeOK'
<1> USE DEF Commit
<1> DEFINE c == MessageOf(w).claim
           rows == Recorded(w)
           last == Len(rows)
<1>1. c \in Claims /\ rows \in Seq(EvaluationRow) /\ last \in DOMAIN rows BY RecordedType
<1>2. evals' \in [Claims -> Seq(EvaluationRow)]
  <2>1. rows[last] \in EvaluationRow BY <1>1
  <2>2. rows[last].scores \cup ScoreRows(w) \in SUBSET (PRs \X Positions \X Skills)
    BY <2>1, ScoresType DEF EvaluationRow
  <2>3. [rows[last] EXCEPT !.scores = rows[last].scores \cup ScoreRows(w)] \in EvaluationRow
    BY <2>1, <2>2 DEF EvaluationRow
  <2>4. [rows EXCEPT ![last] = [rows[last] EXCEPT !.scores = rows[last].scores \cup ScoreRows(w)]]
          \in Seq(EvaluationRow)
    BY <1>1, <2>3
  <2>5. evals' = [evals EXCEPT ![c] =
          [rows EXCEPT ![last] = [rows[last] EXCEPT !.scores = rows[last].scores \cup ScoreRows(w)]]]
    BY DEF Persisted
  <2> HIDE DEF rows, last, c
  <2> QED BY <2>4, <2>5 DEF TypeOK
<1>3. links' \in [Skills \X PRs -> LinkRow] BY <1>1, LinksType DEF Persisted
<1>4. counts' \in [Skills -> Nat] BY RecountIsNat DEF Persisted
<1>5. claims' \in [Claims -> ClaimRow]
  <2>1. claims[c] \in ClaimRow BY <1>1 DEF TypeOK
  <2>2. SetEvaluated(claims[c]) \in ClaimRow BY <2>1 DEF SetEvaluated, ClaimRow
  <2>3. \A f \in [Skills -> OnClaim] :
          WithSuggestions(f, worker[w].suggests) \in [Skills -> OnClaim]
    BY DEF WithSuggestions, OnClaim
  <2> DEFINE skills == WithSuggestions(claims[c].skills, worker[w].suggests)
  <2>4. skills \in [Skills -> OnClaim] BY <1>1, <2>3, RequestTypes
  <2>5. [SetEvaluated(claims[c]) EXCEPT !.skills = skills] \in ClaimRow
    BY <2>2, <2>4 DEF ClaimRow
  <2>6. claims' = [claims EXCEPT ![c] = [SetEvaluated(claims[c]) EXCEPT !.skills = skills]]
    BY DEF Persisted
  <2> HIDE DEF c, skills
  <2> QED BY <2>5, <2>6 DEF TypeOK
<1>6. sweep' \in {"none", "open", "done"} BY DEF Persisted, TypeOK
<1>7. worker' \in [Workers -> WorkerState] BY BlankRecords DEF Persisted, TypeOK
<1> QED BY <1>2, <1>3, <1>4, <1>5, <1>6, <1>7 DEF Persisted, TypeOK

\* Every step of an evaluator keeps the types (Process, deadLetter, drain).
LEMMA WorkerType ==
  ASSUME TypeOK, InFlight, NEW w \in Workers, Consume(w) \/ Steps(w) \/ Crash(w)
  PROVE  TypeOK'
<1>1. JobsTypeOK' BY WorkerKept
<1>2. worker[w] \in WorkerState BY DEF TypeOK
<1>3. worker[w].pc # "idle" =>
        worker[w].job \in JobIds /\ jobs[worker[w].job].msg \in Messages
  BY DEF InFlight
<1>4. worker[w].pc # "idle" => MessageOf(w).claim \in Claims
  BY <1>3, PipelineConstants DEF MessageOf
<1>5. ASSUME NEW rec \in WorkerState, worker' = [worker EXCEPT ![w] = rec]
      PROVE  worker' \in [Workers -> WorkerState]
  BY <1>5 DEF TypeOK
<1>6. CASE Consume(w)
  <2>1. PICK i \in JobIds :
          worker' = [worker EXCEPT ![w] = [Waits EXCEPT !.pc = "reading", !.job = i]]
    BY <1>6 DEF Consume, Claimable
  <2>2. worker' \in [Workers -> WorkerState] BY <1>5, <2>1, BlankRecords
  <2> QED BY <1>1, <1>6, <2>2 DEF Consume, TypeOK, claimVars, judgedVars
<1>7. CASE ReadClaim(w)
  <2> DEFINE c == MessageOf(w).claim
             rec == [worker[w] EXCEPT !.pc = "checking", !.version = claims[c].version,
                       !.prs = claims[c].prs, !.skills = claims[c].skills]
  <2>1. c \in Claims BY <1>4, <1>7 DEF ReadClaim
  <2>2. rec \in WorkerState BY <1>2, <2>1, RequestTypes DEF WorkerState
  <2>3. worker' = [worker EXCEPT ![w] = rec] BY <1>2, <1>7 DEF ReadClaim, TypeOK, WorkerState
  <2>4. worker' \in [Workers -> WorkerState] BY <1>5, <2>2, <2>3
  <2> QED BY <1>1, <1>7, <2>4 DEF ReadClaim, TypeOK, claimVars, judgedVars
<1>8. CASE CheckDone(w)
  <2> DEFINE pc == IF AlreadyEvaluated(MessageOf(w)) THEN "acking" ELSE "judging"
             rec == [worker[w] EXCEPT !.pc = pc, !.rubric = rubric]
  <2>1. rubric \in 0 .. Rubrics BY PipelineConstants DEF TypeOK
  <2>2. pc \in {"acking", "judging"} OBVIOUS
  <2>3. rec \in WorkerState BY <1>2, <2>1, <2>2 DEF WorkerState
  <2>4. worker' = [worker EXCEPT ![w] = rec] BY <1>8 DEF CheckDone, TypeOK
  <2>5. worker' \in [Workers -> WorkerState] BY <1>5, <2>3, <2>4
  <2> QED BY <1>1, <1>8, <2>5 DEF CheckDone, TypeOK, claimVars, judgedVars
<1>9. CASE Judge(w)
  <2>1. PICK sug \in SUBSET Suggestible(w) : \E scored \in SUBSET Scorable(w, sug) :
          worker' = [worker EXCEPT ![w].pc = "persisting",
                                   ![w].fingerprint = Fingerprint(MessageOf(w).claim),
                                   ![w].scored = scored,
                                   ![w].suggests = sug]
    BY <1>9 DEF Judge
  <2>2. PICK scored \in SUBSET Scorable(w, sug) :
          worker' = [worker EXCEPT ![w].pc = "persisting",
                                   ![w].fingerprint = Fingerprint(MessageOf(w).claim),
                                   ![w].scored = scored,
                                   ![w].suggests = sug]
    BY <2>1
  <2> DEFINE rec == [worker[w] EXCEPT !.pc = "persisting",
               !.fingerprint = Fingerprint(MessageOf(w).claim),
               !.scored = scored, !.suggests = sug]
  <2>3. Fingerprint(MessageOf(w).claim) \in Fingerprints
    BY <1>4, <1>9, FingerprintType DEF Judge
  <2>4. sug \in SUBSET Skills BY DEF Suggestible
  <2>5. scored \in SUBSET (Positions \X Skills)
    <3>1. worker[w].prs \in Sequenced(MaxPRs) BY <1>2 DEF WorkerState
    <3>2. DOMAIN worker[w].prs \subseteq Positions BY <3>1, EvidencePositions
    <3> QED BY <2>4, <3>2 DEF Scorable, Active
  <2>6. rec \in WorkerState BY <1>2, <2>3, <2>4, <2>5 DEF WorkerState
  <2>7. worker' = [worker EXCEPT ![w] = rec] BY <2>2 DEF TypeOK
  <2>8. worker' \in [Workers -> WorkerState] BY <1>5, <2>6, <2>7
  <2> QED BY <1>1, <1>9, <2>8 DEF Judge, TypeOK, claimVars, judgedVars
<1>10. CASE Refuse(w)
  <2>1. [worker[w] EXCEPT !.pc = "parking"] \in WorkerState BY <1>2 DEF WorkerState
  <2>2. worker' \in [Workers -> WorkerState] BY <1>10, <2>1 DEF Refuse, TypeOK
  <2>3. dead' \in SUBSET JobIds BY <1>3, <1>10 DEF Refuse, TypeOK
  <2> QED BY <1>1, <1>10, <2>2, <2>3 DEF Refuse, TypeOK, claimVars
<1>11. CASE AckDone(w) \/ AckParked(w) \/ Fail(w) \/ Crash(w)
  <2>1. worker' \in [Workers -> WorkerState]
    BY <1>5, <1>11, BlankRecords DEF AckDone, AckParked, Fail, Crash
  <2> QED BY <1>1, <1>11, <2>1
          DEF AckDone, AckParked, Fail, Crash, TypeOK, claimVars, judgedVars
<1>12. CASE Commit(w) BY <1>1, <1>12, CommitType
<1> QED BY <1>6, <1>7, <1>8, <1>9, <1>10, <1>11, <1>12 DEF Steps

\* Every step of the pipeline keeps the types.
LEMMA StepType == ASSUME TypeOK, InFlight, [Next]_vars PROVE TypeOK'
<1>1. CASE \E i \in JobIds : Lapse(i) \/ Return(i)
  <2>1. JobsTypeOK' BY StepRows
  <2> QED BY <1>1, <2>1 DEF Lapse, Return, Others, TypeOK, claimVars, judgedVars
<1>2. CASE UNCHANGED vars BY <1>2 DEF vars, TypeOK, JobsTypeOK
<1> QED BY <1>1, <1>2, RequestType, DecisionType, SweepType, WorkerType DEF Next

-----------------------------------------------------------------------------
(* What each part of the system leaves alone                               *)

\* The contributor's requests write claims, links, standings and jobs only.
LEMMA RequestFrame ==
  ASSUME NEW k \in Clients, Requests(k)
  PROVE  UNCHANGED <<evals, dead, rubric, sweep, dispute, admin, worker>>
<1>1. CASE \E c \in Claims : EditPRs(k, c) \/ EditSkills(k, c)
  BY <1>1 DEF EditPRs, EditSkills, Patch, judgedVars
<1>2. CASE \E c \in Claims : EditAll(k, c) \/ Submit(k, c) \/ Withdraw(k, c)
  BY <1>2 DEF EditAll, Submit, Withdraw, judgedVars
<1>3. CASE WriteEdit(k) \/ RefuseEdit(k) BY <1>3 DEF WriteEdit, Rewritten, RefuseEdit, judgedVars
<1>4. CASE MarkInvalid(k) \/ Enqueue(k) \/ RefuseTaken(k)
  BY <1>4 DEF MarkInvalid, Enqueue, RefuseTaken, judgedVars
<1>5. CASE Retire(k) \/ Abandon(k) BY <1>5 DEF Retire, Abandon, judgedVars
<1> QED BY <1>1, <1>2, <1>3, <1>4, <1>5 DEF Requests

\* Decisions and the end of a lock write claims, links, standings, requests for
\* re-evaluation and jobs only.
LEMMA DecisionFrame ==
  ASSUME NEW c \in Claims, Decisions(c) \/ LockExpires(c)
  PROVE  UNCHANGED <<evals, dead, rubric, sweep, client, admin, worker>>
<1>1. CASE \E s \in Skills : AcceptSuggestion(c, s) \/ DismissSuggestion(c, s)
  BY <1>1 DEF AcceptSuggestion, DismissSuggestion, judgedVars
<1>2. CASE RequestDispute(c) \/ RejectDispute(c) \/ AcceptDispute(c) \/ LockExpires(c)
  BY <1>2 DEF RequestDispute, RejectDispute, AcceptDispute, LockExpires, judgedVars
<1> QED BY <1>1, <1>2 DEF Decisions

\* A sweep writes the rubric, its own row, the claims and jobs only.
LEMMA SweepFrame ==
  ASSUME RecordSweep \/ AbandonSweep \/ \E to \in 1 .. Rubrics : BeginSweep(to)
  PROVE  UNCHANGED <<links, counts, evals, dead, dispute, client, worker>>
BY DEF RecordSweep, AbandonSweep, BeginSweep, claimVars, judgedVars

\* An evaluator writes claims, links, standings and evaluations only in the
\* transaction that persists a judgement, and takes back no dead letter.
LEMMA WorkerFrame ==
  ASSUME NEW w \in Workers, Consume(w) \/ Steps(w) \/ Crash(w)
  PROVE  /\ UNCHANGED <<rubric, dispute, client, admin>>
         /\ dead \subseteq dead'
         /\ Commit(w) \/ UNCHANGED <<claims, links, counts, evals, sweep>>
<1>1. CASE Consume(w) \/ ReadClaim(w) \/ CheckDone(w)
  BY <1>1 DEF Consume, ReadClaim, CheckDone, claimVars, judgedVars
<1>2. CASE AckDone(w) \/ Judge(w) \/ Fail(w)
  BY <1>2 DEF AckDone, Judge, Fail, claimVars, judgedVars
<1>3. CASE Refuse(w) \/ AckParked(w) \/ Crash(w)
  BY <1>3 DEF Refuse, AckParked, Crash, claimVars, judgedVars
<1>4. CASE Commit(w) BY <1>4 DEF Commit, Persisted
<1> QED BY <1>1, <1>2, <1>3, <1>4 DEF Steps

\* The clock writes the queue only.
LEMMA ClockFrame ==
  ASSUME (\E i \in JobIds : Lapse(i) \/ Return(i)) \/ UNCHANGED vars
  PROVE  UNCHANGED <<claims, links, counts, evals, dead, rubric, sweep, dispute, client,
                     admin, worker>>
BY DEF Lapse, Return, Others, vars, claimVars, judgedVars

-----------------------------------------------------------------------------
(* What is in flight                                                       *)

\* The four parts of InFlight, each a fact about one variable and the queue.
RequestsInFlight ==
  \A k \in Clients : client[k].pc # "idle" =>
    /\ client[k].claim \in Claims
    /\ client[k].version >= 1
    /\ client[k].pc = "write" /\ client[k].versioned => client[k].version < MaxVersion
SweepInFlight == admin.pc = "sweeping" => admin.to >= 1
DeliveriesInFlight ==
  \A w \in Workers : worker[w].pc # "idle" =>
    /\ worker[w].job \in JobIds
    /\ jobs[worker[w].job].state # "free"
    /\ worker[w].pc \in {"checking", "acking", "judging", "persisting"} =>
         worker[w].version >= 1
    /\ worker[w].pc \in {"acking", "judging", "persisting"} => worker[w].rubric >= 1

\* A request that is started has read its claim, and one edit away from the version
\* bound if it will bump the version (patch, Replace, Submit, Withdraw).
LEMMA RequestsStay ==
  ASSUME TypeOK, InFlight, NEW k \in Clients, Requests(k) PROVE RequestsInFlight'
<1>1. RequestsInFlight BY DEF InFlight, RequestsInFlight
<1>2. \A c \in Claims : claims[c].version >= 1 BY RequestTypes, PipelineConstants
<1>3. CASE client' = [client EXCEPT ![k] = NoRequest]
  BY <1>1, <1>3 DEF RequestsInFlight, NoRequest, TypeOK
<1>4. CASE \E c \in Claims : Submit(k, c) \/ Withdraw(k, c)
  <2>1. PICK c \in Claims : Submit(k, c) \/ Withdraw(k, c) BY <1>4
  <2>2. client'[k].pc # "write" /\ client'[k].claim = c /\ client'[k].version = claims[c].version
    BY <2>1 DEF Submit, Verdicts, Withdraw, TypeOK
  <2>3. \A j \in Clients : j # k => client'[j] = client[j]
    BY <2>1 DEF Submit, Withdraw, TypeOK
  <2> QED BY <1>1, <1>2, <2>2, <2>3 DEF RequestsInFlight
<1>5. CASE \E c \in Claims : EditPRs(k, c) \/ EditSkills(k, c) \/ EditAll(k, c)
  <2>1. PICK c \in Claims : EditPRs(k, c) \/ EditSkills(k, c) \/ EditAll(k, c) BY <1>5
  <2>2. /\ client'[k].claim = c
        /\ client'[k].version = claims[c].version
        /\ client'[k].versioned => claims[c].version < MaxVersion
    BY <2>1 DEF EditPRs, EditSkills, EditAll, Patch, TypeOK
  <2>3. \A j \in Clients : j # k => client'[j] = client[j]
    BY <2>1 DEF EditPRs, EditSkills, EditAll, Patch, TypeOK
  <2> QED BY <1>1, <1>2, <2>2, <2>3 DEF RequestsInFlight
<1> QED BY <1>3, <1>4, <1>5 DEF Requests, WriteEdit, Rewritten, RefuseEdit, MarkInvalid,
        Enqueue, RefuseTaken, Retire, Abandon

\* A delivery names the row it was leased from, and holds what it has read
\* (Process).
LEMMA DeliveriesStay ==
  ASSUME TypeOK, InFlight, RowsKept, NEW w \in Workers, Consume(w) \/ Steps(w) \/ Crash(w)
  PROVE  DeliveriesInFlight'
<1>1. DeliveriesInFlight BY DEF InFlight, DeliveriesInFlight
<1>2. \A v \in Workers : v # w => worker'[v] = worker[v]
  BY DEF Consume, Steps, Crash, ReadClaim, CheckDone, AckDone, Judge, Refuse, AckParked,
         Fail, Commit, Persisted, TypeOK
<1>3. SUFFICES worker'[w].pc # "idle" =>
        /\ worker'[w].job \in JobIds
        /\ jobs'[worker'[w].job].state # "free"
        /\ worker'[w].pc \in {"checking", "acking", "judging", "persisting"} =>
             worker'[w].version >= 1
        /\ worker'[w].pc \in {"acking", "judging", "persisting"} => worker'[w].rubric >= 1
  BY <1>1, <1>2 DEF DeliveriesInFlight, RowsKept
<1>4. worker[w] \in WorkerState BY DEF TypeOK
<1>5. CASE Consume(w)
  <2>1. PICK i \in Claimable :
          worker' = [worker EXCEPT ![w] = [Waits EXCEPT !.pc = "reading", !.job = i]]
    BY <1>5 DEF Consume
  <2>2. i \in JobIds /\ jobs[i].state # "free" BY DEF Claimable, InQueue
  <2>3. worker'[w].pc = "reading" /\ worker'[w].job = i BY <2>1 DEF TypeOK, Waits
  <2> QED BY <2>2, <2>3 DEF RowsKept
<1>6. CASE AckDone(w) \/ AckParked(w) \/ Fail(w) \/ Commit(w) \/ Crash(w)
  <2>1. worker'[w] = Waits
    BY <1>6 DEF AckDone, AckParked, Fail, Commit, Persisted, Crash, TypeOK
  <2> QED BY <2>1 DEF Waits
<1>7. CASE ReadClaim(w)
  <2>1. MessageOf(w).claim \in Claims
    BY <1>7, PipelineConstants DEF ReadClaim, MessageOf, InFlight
  <2>2. /\ worker'[w].pc = "checking"
        /\ worker'[w].version = claims[MessageOf(w).claim].version
        /\ worker'[w].job = worker[w].job
    BY <1>4, <1>7 DEF ReadClaim, TypeOK, WorkerState
  <2>3. worker'[w].version >= 1 BY <2>1, <2>2, RequestTypes, PipelineConstants
  <2> QED BY <1>1, <1>7, <2>2, <2>3 DEF ReadClaim, DeliveriesInFlight, RowsKept
<1>8. CASE CheckDone(w)
  <2>1. /\ worker[w].pc = "checking"
        /\ worker'[w].pc \in {"acking", "judging"}
        /\ worker'[w].rubric = rubric
        /\ worker'[w].version = worker[w].version
        /\ worker'[w].job = worker[w].job
    BY <1>4, <1>8 DEF CheckDone, TypeOK, WorkerState
  <2>2. rubric >= 1 BY PipelineConstants DEF TypeOK
  <2> QED BY <1>1, <2>1, <2>2 DEF DeliveriesInFlight, RowsKept
<1>9. CASE Judge(w)
  <2>1. /\ worker[w].pc = "judging"
        /\ worker'[w].rubric = worker[w].rubric
        /\ worker'[w].version = worker[w].version
        /\ worker'[w].job = worker[w].job
    BY <1>4, <1>9 DEF Judge, TypeOK, WorkerState
  <2> QED BY <1>1, <2>1 DEF DeliveriesInFlight, RowsKept
<1>10. CASE Refuse(w)
  <2>1. worker'[w].pc = "parking" /\ worker'[w].job = worker[w].job
    BY <1>4, <1>10 DEF Refuse, TypeOK, WorkerState
  <2> QED BY <1>1, <1>10, <2>1 DEF Refuse, DeliveriesInFlight, RowsKept
<1> QED BY <1>5, <1>6, <1>7, <1>8, <1>9, <1>10 DEF Steps

\* Every step of the pipeline keeps what is in flight about something.
LEMMA StepInFlight ==
  ASSUME TypeOK, InFlight, [Next]_vars PROVE InFlight'
<1>1. RowsKept BY StepRows
<1>2. RequestsInFlight /\ SweepInFlight /\ DeliveriesInFlight
  BY DEF InFlight, RequestsInFlight, SweepInFlight, DeliveriesInFlight
<1>3. RequestsInFlight'
  <2>1. CASE UNCHANGED client BY <1>2, <2>1 DEF RequestsInFlight
  <2>2. CASE \E k \in Clients : Requests(k) BY <2>2, RequestsStay
  <2>3. \/ UNCHANGED client
        \/ \E k \in Clients : Requests(k)
    BY DecisionFrame, SweepFrame, WorkerFrame, ClockFrame DEF Next
  <2> QED BY <2>1, <2>2, <2>3
<1>4. SweepInFlight'
  <2>1. CASE UNCHANGED admin BY <1>2, <2>1 DEF SweepInFlight
  <2>2. CASE RecordSweep \/ AbandonSweep
    BY <2>2 DEF RecordSweep, AbandonSweep, NoSweep, SweepInFlight
  <2>3. CASE \E to \in 1 .. Rubrics : BeginSweep(to)
    BY <2>3, PipelineConstants DEF BeginSweep, SweepInFlight
  <2>4. \/ UNCHANGED admin \/ RecordSweep \/ AbandonSweep
        \/ \E to \in 1 .. Rubrics : BeginSweep(to)
    BY RequestFrame, DecisionFrame, WorkerFrame, ClockFrame DEF Next
  <2> QED BY <2>1, <2>2, <2>3, <2>4
<1>5. DeliveriesInFlight'
  <2>1. CASE UNCHANGED worker BY <1>1, <1>2, <2>1 DEF DeliveriesInFlight, RowsKept
  <2>2. CASE \E w \in Workers : Consume(w) \/ Steps(w) \/ Crash(w)
    BY <1>1, <2>2, DeliveriesStay
  <2>3. \/ UNCHANGED worker
        \/ \E w \in Workers : Consume(w) \/ Steps(w) \/ Crash(w)
    BY RequestFrame, DecisionFrame, SweepFrame, ClockFrame DEF Next
  <2> QED BY <2>1, <2>2, <2>3
<1> QED BY <1>1, <1>3, <1>4, <1>5
        DEF InFlight, RequestsInFlight, SweepInFlight, DeliveriesInFlight, RowsKept

\* Claims, links, standings, evaluations and everything in flight keep their types
\* in every run: no version passes the bound unseen, no score row names a position
\* that is gone, no message is published half made (the columns ClaimRepository and
\* EvaluationRepository write).
THEOREM PipelineTypes == Spec => []TypeOK
<1>1. TypeOK /\ InFlight /\ [Next]_vars => TypeOK' /\ InFlight' BY StepType, StepInFlight
<1> QED BY <1>1, InitType, PTL DEF Spec

-----------------------------------------------------------------------------
(* What is judged once                                                     *)

\* A commit is of a queued row, so of a job no evaluation records yet; it adds at
\* most the row of its own job, acks it, and changes no other row's job (Persist).
LEMMA CommitRecordsOnce ==
  ASSUME TypeOK, InFlight, OneEvaluationPerJob, NEW w \in Workers, Commit(w)
  PROVE  /\ OneEvaluationPerJob'
         /\ \A c \in Claims : c # MessageOf(w).claim => evals'[c] = evals[c]
<1> DEFINE c == MessageOf(w).claim
           job == worker[w].job
           rows == Recorded(w)
           last == Len(rows)
<1> USE DEF Commit
<1>1. c \in Claims /\ rows \in Seq(EvaluationRow) /\ last \in DOMAIN rows BY RecordedType
<1>2. job \in JobIds /\ InQueue(job) BY DEF InFlight
<1>3. /\ jobs'[job].state = "acked" /\ jobs'[job].msg.claim = c
      /\ \A j \in JobIds : j # job => jobs'[j] = jobs[j]
      /\ \A j \in JobIds : jobs'[j].msg = jobs[j].msg
  <2>1. JobsTypeOK BY DEF TypeOK
  <2>2. jobs'[job].msg = jobs[job].msg BY <1>2, <2>1, AckKept
  <2>3. jobs'[job].state = "acked" /\ \A j \in JobIds : j # job => jobs'[j] = jobs[j]
    BY <1>2, AckKept
  <2> QED BY <2>2, <2>3 DEF MessageOf
<1>4. \A d \in Claims : \A n \in DOMAIN evals[d] : evals[d][n].job # job
  BY <1>2 DEF OneEvaluationPerJob, InQueue
<1>5. \A d \in Claims : \A n \in DOMAIN evals[d] : evals[d][n].job \in JobIds
  <2>1. \A d \in Claims : evals[d] \in Seq(EvaluationRow) BY DEF TypeOK
  <2>2. \A d \in Claims : \A n \in DOMAIN evals[d] : evals[d][n] \in EvaluationRow BY <2>1
  <2> QED BY <2>2 DEF EvaluationRow
<1>6. /\ evals' = [evals EXCEPT ![c] = [rows EXCEPT ![last].scores = @ \cup ScoreRows(w)]]
  BY DEF Persisted
<1>7. /\ DOMAIN evals'[c] = DOMAIN rows
      /\ \A n \in DOMAIN rows : evals'[c][n].job = rows[n].job
      /\ \A d \in Claims : d # c => evals'[d] = evals[d]
  <2>1. evals \in [Claims -> Seq(EvaluationRow)] BY DEF TypeOK
  <2>2. \A n \in DOMAIN rows : rows[n] \in EvaluationRow BY <1>1
  <2>3. \A n \in DOMAIN rows : rows[n].job =
          [rows EXCEPT ![last].scores = @ \cup ScoreRows(w)][n].job
    BY <1>1, <2>2 DEF EvaluationRow
  <2> HIDE DEF rows, last, c
  <2> QED BY <1>1, <1>6, <2>1, <2>3
<1>8. \/ rows = evals[c]
      \/ \E row \in EvaluationRow : rows = Append(evals[c], row) /\ row.job = job
  <2> DEFINE row == [version |-> worker[w].version, rubric |-> worker[w].rubric,
                     fingerprint |-> worker[w].fingerprint, scores |-> {},
                     judged |-> PRsOf(worker[w].prs), job |-> worker[w].job]
  <2>1. rows = evals[c] \/ rows = Append(evals[c], row) BY DEF Recorded
  <2>2. CASE rows = Append(evals[c], row)
    <3>1. evals[c] \in Seq(EvaluationRow) BY <1>1 DEF TypeOK
    <3>2. row = rows[Len(evals[c]) + 1] /\ Len(evals[c]) + 1 \in DOMAIN rows
      <4> HIDE DEF row, rows
      <4> QED BY <2>2, <3>1
    <3>3. row \in EvaluationRow
      <4> HIDE DEF row, rows
      <4> QED BY <1>1, <3>2
    <3> QED BY <2>2, <3>3
  <2> QED BY <2>1, <2>2
<1>9. /\ \A n \in DOMAIN rows :
           \/ rows[n].job = job
           \/ n \in DOMAIN evals[c] /\ rows[n].job = evals[c][n].job
      /\ \A m, n \in DOMAIN rows : rows[m].job = job /\ rows[n].job = job => m = n
      /\ \A m, n \in DOMAIN rows : rows[m].job = rows[n].job => m = n
  <2>1. evals[c] \in Seq(EvaluationRow) BY <1>1 DEF TypeOK
  <2>2. \A m, n \in DOMAIN evals[c] : evals[c][m].job = evals[c][n].job => m = n
    BY <1>1 DEF OneEvaluationPerJob
  <2>3. \A n \in DOMAIN evals[c] : evals[c][n].job # job BY <1>1, <1>4
  <2> HIDE DEF rows, c, job
  <2>4. CASE rows = evals[c] BY <2>2, <2>3, <2>4
  <2>5. ASSUME NEW row \in EvaluationRow, rows = Append(evals[c], row), row.job = job
        PROVE  /\ \A n \in DOMAIN rows :
                    \/ rows[n].job = job
                    \/ n \in DOMAIN evals[c] /\ rows[n].job = evals[c][n].job
               /\ \A m, n \in DOMAIN rows : rows[m].job = job /\ rows[n].job = job => m = n
               /\ \A m, n \in DOMAIN rows : rows[m].job = rows[n].job => m = n
    <3>1. DOMAIN rows = 1 .. Len(evals[c]) + 1 /\ DOMAIN evals[c] = 1 .. Len(evals[c])
      BY <2>1, <2>5
    <3>2. \A n \in 1 .. Len(evals[c]) : rows[n] = evals[c][n] BY <2>1, <2>5
    <3>3. rows[Len(evals[c]) + 1].job = job BY <2>1, <2>5
    <3>4. Len(evals[c]) \in Nat BY <2>1
    <3>5. \A n \in DOMAIN rows : n \in DOMAIN evals[c] \/ n = Len(evals[c]) + 1
      BY <3>1, <3>4
    <3> QED BY <2>2, <2>3, <3>1, <3>2, <3>3, <3>5
  <2> QED BY <1>8, <2>4, <2>5
<1> HIDE DEF rows, last, c, job
<1>10. \A d \in Claims : \A n \in DOMAIN evals'[d] :
         /\ jobs'[evals'[d][n].job].state = "acked"
         /\ jobs'[evals'[d][n].job].msg.claim = d
  <2>1. ASSUME NEW d \in Claims, NEW n \in DOMAIN evals[d]
        PROVE  /\ jobs'[evals[d][n].job].state = "acked"
               /\ jobs'[evals[d][n].job].msg.claim = d
    BY <1>3, <1>4, <1>5 DEF OneEvaluationPerJob
  <2>2. ASSUME NEW n \in DOMAIN evals'[c]
        PROVE  /\ jobs'[evals'[c][n].job].state = "acked"
               /\ jobs'[evals'[c][n].job].msg.claim = c
    BY <1>1, <1>3, <1>7, <1>9, <2>1
  <2>3. \A d \in Claims : d # c => evals'[d] = evals[d] BY <1>7
  <2> HIDE DEF rows
  <2>4. ASSUME NEW d \in Claims, NEW n \in DOMAIN evals'[d], d # c
        PROVE  /\ jobs'[evals'[d][n].job].state = "acked"
               /\ jobs'[evals'[d][n].job].msg.claim = d
    BY <2>1, <2>3, <2>4
  <2> QED BY <2>2, <2>4
<1>11. \A d \in Claims : \A m, n \in DOMAIN evals'[d] :
         evals'[d][m].job = evals'[d][n].job => m = n
  BY <1>7, <1>9 DEF OneEvaluationPerJob
<1> QED BY <1>7, <1>10, <1>11 DEF OneEvaluationPerJob, c

\* Only a commit writes evaluations (Record and Persist have one caller each).
LEMMA OnlyCommitRecords ==
  ASSUME [Next]_vars PROVE UNCHANGED evals \/ \E w \in Workers : Commit(w)
BY RequestFrame, DecisionFrame, SweepFrame, WorkerFrame, ClockFrame DEF Next

\* Every step records a job at most once.
LEMMA StepOnce ==
  ASSUME TypeOK, InFlight, OneEvaluationPerJob, [Next]_vars PROVE OneEvaluationPerJob'
<1>1. CASE UNCHANGED evals
  <2>1. RowsKept BY StepRows
  <2>2. ASSUME NEW c \in Claims, NEW n \in DOMAIN evals[c]
        PROVE  /\ jobs'[evals[c][n].job].state = "acked"
               /\ jobs'[evals[c][n].job].msg.claim = c
    <3>1. evals[c] \in Seq(EvaluationRow) BY DEF TypeOK
    <3>2. evals[c][n] \in EvaluationRow BY <3>1
    <3>3. evals[c][n].job \in JobIds BY <3>2 DEF EvaluationRow
    <3> QED BY <2>1, <3>3 DEF OneEvaluationPerJob, RowsKept
  <2> QED BY <1>1, <2>2 DEF OneEvaluationPerJob
<1> QED BY <1>1, OnlyCommitRecords, CommitRecordsOnce

\* However often a job is delivered, whatever holds it besides, and whatever becomes
\* of the claim meanwhile, it is judged into the record at most once, for its own
\* claim, and is then off the queue (Process).
THEOREM JudgedOnce == Spec => []OneEvaluationPerJob
<1>1. Init => OneEvaluationPerJob BY DEF Init, OneEvaluationPerJob
<1>2. TypeOK /\ InFlight /\ OneEvaluationPerJob /\ [Next]_vars
        => TypeOK' /\ InFlight' /\ OneEvaluationPerJob'
  BY StepType, StepInFlight, StepOnce
<1> QED BY <1>1, <1>2, InitType, PTL DEF Spec

-----------------------------------------------------------------------------
(* What is not lost                                                        *)

\* A judgement is in the record of its claim and marks it judged (Persist,
\* SetEvaluated).
LEMMA CommitJudges ==
  ASSUME TypeOK, InFlight, NEW w \in Workers, Commit(w)
  PROVE  /\ MessageOf(w).claim \in Claims
         /\ claims'[MessageOf(w).claim].judged
         /\ \A c \in Claims : c # MessageOf(w).claim =>
              claims'[c] = claims[c] /\ evals'[c] = evals[c]
         /\ evals'[MessageOf(w).claim] # <<>>
<1> DEFINE c == MessageOf(w).claim
           rows == Recorded(w)
<1>1. c \in Claims /\ rows \in Seq(EvaluationRow) /\ Len(rows) \in DOMAIN rows
  BY RecordedType DEF Commit
<1>2. claims[c] \in ClaimRow BY <1>1 DEF TypeOK
<1>3. SetEvaluated(claims[c]).judged /\ SetEvaluated(claims[c]) \in ClaimRow
  BY <1>2 DEF SetEvaluated, ClaimRow
<1>4. claims'[c].judged /\ \A d \in Claims : d # c => claims'[d] = claims[d]
  BY <1>1, <1>3 DEF Commit, Persisted, TypeOK, ClaimRow
<1>5. evals' = [evals EXCEPT ![c] = [rows EXCEPT ![Len(rows)].scores = @ \cup ScoreRows(w)]]
  BY DEF Commit, Persisted
<1> HIDE DEF c, rows
<1>6. evals'[c] = [rows EXCEPT ![Len(rows)].scores = @ \cup ScoreRows(w)]
      /\ \A d \in Claims : d # c => evals'[d] = evals[d]
  BY <1>1, <1>5 DEF TypeOK
<1>7. DOMAIN evals'[c] # {} BY <1>1, <1>6
<1>8. evals'[c] # <<>> BY <1>7
<1> QED BY <1>1, <1>4, <1>6, <1>8 DEF c

\* A claim judged once stays judged: no statement clears evaluated_at.
LEMMA JudgedStays ==
  ASSUME TypeOK, InFlight, [Next]_vars
  PROVE  \A c \in Claims : claims[c].judged => claims'[c].judged
<1>1. \A c \in Claims : claims[c] \in ClaimRow BY DEF TypeOK
<1>2. ASSUME NEW k \in Clients, Requests(k)
      PROVE  \A c \in Claims : claims[c].judged => claims'[c].judged
  <2>1. CASE WriteEdit(k)
    <3> DEFINE d == client[k].claim
    <3>1. \A c \in Claims : c # d => claims'[c] = claims[c]
      BY <2>1 DEF WriteEdit, Rewritten, TypeOK
    <3>2. ASSUME d \in Claims
          PROVE  claims'[d].judged = claims[d].judged
      <4>1. claims'[d] =
              [claims[d] EXCEPT
                 !.status = "draft",
                 !.version = IF client[k].versioned THEN claims[d].version + 1
                             ELSE claims[d].version,
                 !.prs = client[k].prs,
                 !.skills = client[k].skills]
        BY <2>1, <3>2 DEF WriteEdit, Rewritten, TypeOK
      <4>2. claims[d] \in ClaimRow BY <1>1, <3>2
      <4> HIDE DEF d
      <4> QED BY <4>1, <4>2 DEF ClaimRow
    <3> QED BY <3>1, <3>2
  <2>2. CASE MarkInvalid(k) BY <1>1, <2>2 DEF MarkInvalid, TypeOK, ClaimRow
  <2>3. CASE Enqueue(k) BY <1>1, <2>3 DEF Enqueue, TypeOK, ClaimRow
  <2>4. CASE Retire(k) BY <1>1, <2>4 DEF Retire, TypeOK, ClaimRow
  <2>5. CASE ~WriteEdit(k) /\ ~MarkInvalid(k) /\ ~Enqueue(k) /\ ~Retire(k)
    <3>1. UNCHANGED claims
      BY <1>2, <2>5 DEF Requests, EditPRs, EditSkills, EditAll, Patch, Submit, Withdraw,
         RefuseEdit, RefuseTaken, Abandon, claimVars
    <3> QED BY <3>1
  <2> QED BY <2>1, <2>2, <2>3, <2>4, <2>5
<1>3. ASSUME NEW d \in Claims, Decisions(d) \/ LockExpires(d)
      PROVE  \A c \in Claims : claims[c].judged => claims'[c].judged
  <2>1. CASE RequestDispute(d) \/ RejectDispute(d)
    BY <2>1 DEF RequestDispute, RejectDispute, claimVars
  <2>2. CASE AcceptDispute(d) BY <1>1, <2>2 DEF AcceptDispute, TypeOK, ClaimRow
  <2>3. CASE LockExpires(d) BY <1>1, <2>3 DEF LockExpires, TypeOK, ClaimRow
  <2>4. ASSUME NEW s \in Skills, AcceptSuggestion(d, s)
        PROVE  \A c \in Claims : claims[c].judged => claims'[c].judged
    BY <1>1, <2>4 DEF AcceptSuggestion, TypeOK, ClaimRow
  <2>5. ASSUME NEW s \in Skills, DismissSuggestion(d, s)
        PROVE  \A c \in Claims : claims[c].judged => claims'[c].judged
    BY <1>1, <2>5 DEF DismissSuggestion, TypeOK, ClaimRow
  <2> QED BY <1>3, <2>1, <2>2, <2>3, <2>4, <2>5 DEF Decisions
<1>4. CASE RecordSweep BY <1>1, <1>4 DEF RecordSweep, ClaimRow
<1>5. ASSUME NEW w \in Workers, Consume(w) \/ Steps(w) \/ Crash(w)
      PROVE  \A c \in Claims : claims[c].judged => claims'[c].judged
  BY <1>5, WorkerFrame, CommitJudges
<1>6. CASE AbandonSweep \/ \E to \in 1 .. Rubrics : BeginSweep(to)
  BY <1>6 DEF AbandonSweep, BeginSweep, claimVars
<1> QED BY <1>2, <1>3, <1>4, <1>5, <1>6, ClockFrame DEF Next

\* The deliveries about to be acked unjudged keep their excuse (Process,
\* deadLetter).
LEMMA StepExcused ==
  ASSUME TypeOK, InFlight, AcksAreExcused, [Next]_vars PROVE AcksAreExcused'
<1>1. RowsKept BY StepRows
<1>2. \A c \in Claims : evals[c] # <<>> => evals'[c] # <<>>
  BY OnlyCommitRecords, CommitJudges
<1>3. \A c \in Claims : evals'[c] # <<>> => claims'[c].judged
  BY OnlyCommitRecords, CommitJudges, JudgedStays DEF AcksAreExcused
<1>4. dead \subseteq dead'
  BY RequestFrame, DecisionFrame, SweepFrame, WorkerFrame, ClockFrame DEF Next
<1>5. \A w \in Workers : worker[w].pc # "idle" =>
        /\ worker[w].job \in JobIds
        /\ MessageOf(w) = jobs'[worker[w].job].msg
        /\ MessageOf(w).claim \in Claims
  BY <1>1, PipelineConstants DEF InFlight, RowsKept, MessageOf
<1>6. ASSUME NEW w \in Workers, worker'[w] = worker[w]
      PROVE  /\ worker'[w].pc = "acking" => evals'[MessageOf(w)'.claim] # <<>>
             /\ worker'[w].pc = "parking" => worker'[w].job \in dead'
  BY <1>2, <1>4, <1>5, <1>6 DEF AcksAreExcused, MessageOf
<1>7. ASSUME NEW w \in Workers, Consume(w) \/ Steps(w) \/ Crash(w)
      PROVE  /\ worker'[w].pc = "acking" => evals'[MessageOf(w)'.claim] # <<>>
             /\ worker'[w].pc = "parking" => worker'[w].job \in dead'
             /\ \A v \in Workers : v # w => worker'[v] = worker[v]
  <2>1. \A v \in Workers : v # w => worker'[v] = worker[v]
    BY <1>7 DEF Consume, Steps, Crash, ReadClaim, CheckDone, AckDone, Judge, Refuse,
       AckParked, Fail, Commit, Persisted, TypeOK
  <2>2. worker[w] \in WorkerState BY DEF TypeOK
  <2>3. CASE CheckDone(w)
    <3>1. /\ worker'[w].job = worker[w].job /\ worker'[w].pc # "parking"
          /\ worker'[w].pc = "acking" => AlreadyEvaluated(MessageOf(w))
          /\ UNCHANGED <<evals, jobs>>
      BY <2>2, <2>3 DEF CheckDone, TypeOK, WorkerState, judgedVars, jobVars
    <3>2. AlreadyEvaluated(MessageOf(w)) => evals[MessageOf(w).claim] # <<>>
      BY DEF AlreadyEvaluated
    <3> QED BY <2>1, <3>1, <3>2 DEF MessageOf
  <2>4. CASE Refuse(w)
    BY <2>1, <2>2, <2>4 DEF Refuse, TypeOK, WorkerState
  <2>5. CASE Consume(w)
    <3>1. worker'[w].pc = "reading" BY <2>5 DEF Consume, TypeOK, Waits
    <3> QED BY <2>1, <3>1
  <2>6. CASE AckDone(w) \/ AckParked(w) \/ Fail(w) \/ Commit(w) \/ Crash(w)
    <3>1. worker'[w] = Waits
      BY <2>6 DEF AckDone, AckParked, Fail, Commit, Persisted, Crash, TypeOK
    <3> QED BY <2>1, <3>1 DEF Waits
  <2>7. CASE ReadClaim(w)
    <3>1. worker'[w].pc = "checking" BY <2>2, <2>7 DEF ReadClaim, TypeOK, WorkerState
    <3> QED BY <2>1, <3>1
  <2>8. CASE Judge(w)
    <3>1. worker'[w].pc = "persisting" BY <2>2, <2>8 DEF Judge, TypeOK, WorkerState
    <3> QED BY <2>1, <3>1
  <2> QED BY <1>7, <2>3, <2>4, <2>5, <2>6, <2>7, <2>8 DEF Steps
<1>8. UNCHANGED worker \/ \E w \in Workers : Consume(w) \/ Steps(w) \/ Crash(w)
  BY RequestFrame, DecisionFrame, SweepFrame, ClockFrame DEF Next
<1>9. \A w \in Workers :
        /\ worker'[w].pc = "acking" => evals'[MessageOf(w)'.claim] # <<>>
        /\ worker'[w].pc = "parking" => worker'[w].job \in dead'
  BY <1>6, <1>7, <1>8
<1> QED BY <1>3, <1>9 DEF AcksAreExcused

\* A claim waits for a first judgement after a step only if it waited before it, or
\* the step published its job (Submit, DecideReevaluation and Sweep publish in the
\* transaction that queues the claim).
LEMMA WaitsWithJob ==
  ASSUME TypeOK, InFlight, [Next]_vars, NEW c \in Claims,
         claims'[c].status = "queued", ~claims'[c].judged
  PROVE  \/ claims[c].status = "queued" /\ ~claims[c].judged
         \/ \E i \in JobIds : jobs'[i].state = "queued" /\ jobs'[i].msg.claim = c
<1>1. \A d \in Claims : claims[d] \in ClaimRow BY DEF TypeOK
<1>2. ~claims[c].judged BY JudgedStays
<1>3. SUFFICES \/ claims[c].status = "queued"
               \/ \E i \in JobIds : jobs'[i].state = "queued" /\ jobs'[i].msg.claim = c
  BY <1>2
<1>4. ASSUME NEW k \in Clients, Requests(k)
      PROVE  \/ claims[c].status = "queued"
             \/ \E i \in JobIds : jobs'[i].state = "queued" /\ jobs'[i].msg.claim = c
  <2>1. CASE Enqueue(k)
    <3>1. c # client[k].claim => claims'[c] = claims[c] BY <2>1 DEF Enqueue, TypeOK
    <3> QED BY <2>1, <3>1, EnqueueKept
  <2>2. CASE WriteEdit(k)
    <3>1. c = client[k].claim => claims'[c].status = "draft"
      BY <1>1, <2>2 DEF WriteEdit, Rewritten, TypeOK, ClaimRow
    <3>2. c # client[k].claim => claims'[c] = claims[c]
      BY <2>2 DEF WriteEdit, Rewritten, TypeOK
    <3> QED BY <3>1, <3>2
  <2>3. CASE MarkInvalid(k)
    <3>1. c = client[k].claim => claims'[c].status = "invalid"
      BY <1>1, <2>3 DEF MarkInvalid, TypeOK, ClaimRow
    <3>2. c # client[k].claim => claims'[c] = claims[c] BY <2>3 DEF MarkInvalid, TypeOK
    <3> QED BY <3>1, <3>2
  <2>4. CASE Retire(k)
    <3>1. c = client[k].claim => claims'[c].status = "withdrawn"
      BY <1>1, <2>4 DEF Retire, TypeOK, ClaimRow
    <3>2. c # client[k].claim => claims'[c] = claims[c] BY <2>4 DEF Retire, TypeOK
    <3> QED BY <3>1, <3>2
  <2>5. CASE ~WriteEdit(k) /\ ~MarkInvalid(k) /\ ~Enqueue(k) /\ ~Retire(k)
    <3>1. UNCHANGED claims
      BY <1>4, <2>5 DEF Requests, EditPRs, EditSkills, EditAll, Patch, Submit, Withdraw,
         RefuseEdit, RefuseTaken, Abandon, claimVars
    <3> QED BY <3>1
  <2> QED BY <2>1, <2>2, <2>3, <2>4, <2>5
<1>5. ASSUME NEW d \in Claims, Decisions(d) \/ LockExpires(d)
      PROVE  \/ claims[c].status = "queued"
             \/ \E i \in JobIds : jobs'[i].state = "queued" /\ jobs'[i].msg.claim = c
  <2>1. CASE AcceptDispute(d)
    <3>1. c # d => claims'[c] = claims[c] BY <2>1 DEF AcceptDispute, TypeOK
    <3> QED BY <2>1, <3>1, AcceptDisputeKept
  <2>2. CASE ~AcceptDispute(d)
    <3>1. claims'[c].status = claims[c].status
      <4>1. CASE RequestDispute(d) \/ RejectDispute(d)
        BY <4>1 DEF RequestDispute, RejectDispute, claimVars
      <4>2. CASE LockExpires(d) BY <1>1, <4>2 DEF LockExpires, TypeOK, ClaimRow
      <4>3. ASSUME NEW s \in Skills, AcceptSuggestion(d, s)
            PROVE  claims'[c].status = claims[c].status
        BY <1>1, <4>3 DEF AcceptSuggestion, TypeOK, ClaimRow
      <4>4. ASSUME NEW s \in Skills, DismissSuggestion(d, s)
            PROVE  claims'[c].status = claims[c].status
        BY <1>1, <4>4 DEF DismissSuggestion, TypeOK, ClaimRow
      <4> QED BY <1>5, <2>2, <4>1, <4>2, <4>3, <4>4 DEF Decisions
    <3> QED BY <3>1
  <2> QED BY <2>1, <2>2
<1>6. CASE RecordSweep
  <2>1. c \notin admin.list => claims'[c] = claims[c] BY <1>6 DEF RecordSweep
  <2> QED BY <1>6, <2>1, RecordSweepKept
<1>7. ASSUME NEW w \in Workers, Consume(w) \/ Steps(w) \/ Crash(w)
      PROVE  claims[c].status = "queued"
  <2>1. CASE Commit(w)
    <3>1. c # MessageOf(w).claim BY <2>1, CommitJudges
    <3> QED BY <2>1, <3>1, CommitJudges
  <2> QED BY <1>7, <2>1, WorkerFrame
<1>8. CASE AbandonSweep \/ \E to \in 1 .. Rubrics : BeginSweep(to)
  BY <1>8 DEF AbandonSweep, BeginSweep, claimVars
<1> QED BY <1>4, <1>5, <1>6, <1>7, <1>8, ClockFrame DEF Next

\* A row leaves the queue only by an ack, and the three acks are those of a worker
\* that judged its claim, found it judged, or left a dead letter.
LEMMA RowLeaves ==
  ASSUME TypeOK, InFlight, AcksAreExcused, [Next]_vars, NEW i \in JobIds,
         jobs[i].state = "queued", jobs'[i].state # "queued"
  PROVE  i \in dead' \/ claims'[jobs[i].msg.claim].judged
<1>1. ASSUME NEW k \in Clients, Requests(k) PROVE UNCHANGED jobVars \/ Enqueue(k)
  <2>1. CASE \E c \in Claims : EditPRs(k, c) \/ EditSkills(k, c) \/ EditAll(k, c)
    BY <2>1 DEF EditPRs, EditSkills, EditAll, Patch
  <2>2. CASE \E c \in Claims : Submit(k, c) \/ Withdraw(k, c) BY <2>2 DEF Submit, Withdraw
  <2>3. CASE WriteEdit(k) \/ RefuseEdit(k) \/ MarkInvalid(k)
    BY <2>3 DEF WriteEdit, Rewritten, RefuseEdit, MarkInvalid
  <2>4. CASE RefuseTaken(k) \/ Retire(k) \/ Abandon(k)
    BY <2>4 DEF RefuseTaken, Retire, Abandon
  <2> QED BY <1>1, <2>1, <2>2, <2>3, <2>4 DEF Requests
<1>2. \A c \in Claims : Decisions(c) \/ LockExpires(c) => UNCHANGED jobVars \/ AcceptDispute(c)
  BY DEF Decisions, AcceptSuggestion, DismissSuggestion, RequestDispute, RejectDispute,
         LockExpires
<1>3. ASSUME NEW batch, Publish(batch), DOMAIN batch \subseteq FreeIds PROVE FALSE
  <2>1. i \notin DOMAIN batch BY <1>3 DEF FreeIds
  <2>2. jobs'[i] = jobs[i] BY <1>3, <2>1 DEF Publish
  <2> QED BY <2>2
<1>4. ASSUME NEW k \in Clients, Enqueue(k) PROVE FALSE
  <2> DEFINE m == Message(client[k].claim, client[k].version, "submit")
  <2>1. PICK j \in FreeIds : Publish([x \in {j} |-> m]) BY <1>4 DEF Enqueue
  <2> HIDE DEF m
  <2> QED BY <1>3, <2>1
<1>5. ASSUME NEW c \in Claims, AcceptDispute(c) PROVE FALSE
  <2> DEFINE m == Message(c, claims[c].version, "dispute")
  <2>1. PICK j \in FreeIds : Publish([x \in {j} |-> m]) BY <1>5 DEF AcceptDispute
  <2> HIDE DEF m
  <2> QED BY <1>3, <2>1
<1>6. ASSUME RecordSweep PROVE FALSE
  <2>1. PICK S \in SUBSET FreeIds : \E of \in [S -> admin.list] :
          Publish([x \in S |-> Message(of[x], claims[of[x]].version, "sweep")])
    BY <1>6 DEF RecordSweep
  <2>2. PICK of \in [S -> admin.list] :
          Publish([x \in S |-> Message(of[x], claims[of[x]].version, "sweep")])
    BY <2>1
  <2> DEFINE batch == [x \in S |-> Message(of[x], claims[of[x]].version, "sweep")]
  <2>3. DOMAIN batch = S /\ Publish(batch) BY <2>2
  <2> HIDE DEF batch
  <2> QED BY <1>3, <2>3
<1>7. ASSUME NEW w \in Workers, Consume(w) \/ Steps(w) \/ Crash(w)
      PROVE  i \in dead' \/ claims'[jobs[i].msg.claim].judged
  <2>1. worker[w].pc # "idle" =>
          worker[w].job \in JobIds /\ MessageOf(w).claim \in Claims
    BY PipelineConstants DEF InFlight, MessageOf
  <2>2. CASE AckDone(w)
    <3>1. i = worker[w].job BY <2>1, <2>2, AckKept DEF AckDone
    <3>2. claims[MessageOf(w).claim].judged BY <2>1, <2>2 DEF AckDone, AcksAreExcused
    <3>3. UNCHANGED claims BY <2>2 DEF AckDone, claimVars
    <3> QED BY <3>1, <3>2, <3>3 DEF MessageOf
  <2>3. CASE AckParked(w)
    <3>1. jobs'[i] # jobs[i] OBVIOUS
    <3>2. InQueue(worker[w].job) /\ AckRow(worker[w].job)
      BY <2>3, <3>1 DEF AckParked, jobVars
    <3>3. i = worker[w].job BY <2>1, <2>3, <3>1, <3>2, AckKept DEF AckParked
    <3>4. worker[w].job \in dead BY <2>3 DEF AckParked, AcksAreExcused
    <3>5. dead \subseteq dead' BY <1>7, WorkerFrame
    <3> QED BY <3>3, <3>4, <3>5
  <2>4. CASE Commit(w)
    <3>1. i = worker[w].job BY <2>1, <2>4, AckKept DEF Commit
    <3> QED BY <2>4, <3>1, CommitJudges DEF MessageOf
  <2>5. CASE Consume(w)
    <3>1. jobs'[i].state = jobs[i].state BY <2>5, OtherKept DEF Consume
    <3> QED BY <3>1
  <2>6. CASE Fail(w)
    <3>1. jobs'[i].state = jobs[i].state BY <2>1, <2>6, OtherKept DEF Fail
    <3> QED BY <3>1
  <2>7. CASE ReadClaim(w) \/ CheckDone(w) \/ Judge(w) \/ Refuse(w) \/ Crash(w)
    BY <2>7 DEF ReadClaim, CheckDone, Judge, Refuse, Crash, jobVars
  <2> QED BY <1>7, <2>2, <2>3, <2>4, <2>5, <2>6, <2>7 DEF Steps
<1>8. ASSUME NEW j \in JobIds, Lapse(j) \/ Return(j) PROVE FALSE
  <2>1. jobs'[i].state = jobs[i].state BY <1>8, OtherKept DEF Lapse, Return
  <2> QED BY <2>1
<1>9. UNCHANGED jobVars => FALSE BY DEF jobVars
<1>10. AbandonSweep \/ (\E to \in 1 .. Rubrics : BeginSweep(to)) \/ UNCHANGED vars
        => UNCHANGED jobVars
  BY DEF AbandonSweep, BeginSweep, vars, jobVars
<1> QED BY <1>1, <1>2, <1>4, <1>5, <1>6, <1>7, <1>8, <1>9, <1>10 DEF Next

\* Every step leaves each first submission its job or its dead letter.
LEMMA StepNotLost ==
  ASSUME TypeOK, InFlight, AcksAreExcused, FirstSubmissionNotLost, [Next]_vars
  PROVE  FirstSubmissionNotLost'
<1> SUFFICES ASSUME NEW c \in Claims, claims'[c].status = "queued", ~claims'[c].judged
             PROVE  \E i \in JobIds : /\ jobs'[i].state # "free"
                                      /\ jobs'[i].msg.claim = c
                                      /\ jobs'[i].state = "queued" \/ i \in dead'
  BY DEF FirstSubmissionNotLost, InQueue
<1>1. CASE \E i \in JobIds : jobs'[i].state = "queued" /\ jobs'[i].msg.claim = c BY <1>1
<1>2. CASE claims[c].status = "queued" /\ ~claims[c].judged
  <2>1. PICK i \in JobIds : /\ jobs[i].state # "free"
                            /\ jobs[i].msg.claim = c
                            /\ jobs[i].state = "queued" \/ i \in dead
    BY <1>2 DEF FirstSubmissionNotLost, InQueue
  <2>2. jobs'[i].state # "free" /\ jobs'[i].msg.claim = c BY <2>1, StepRows DEF RowsKept
  <2>3. dead \subseteq dead'
    BY RequestFrame, DecisionFrame, SweepFrame, WorkerFrame, ClockFrame DEF Next
  <2>4. jobs'[i].state = "queued" \/ i \in dead' BY <2>1, <2>3, RowLeaves
  <2> QED BY <2>2, <2>4
<1> QED BY <1>1, <1>2, WaitsWithJob

\* The inductive invariant of the pipeline: types, what is in flight, what excuses an
\* ack, one evaluation for a job, and no first submission lost (Submit, Process,
\* Sweep, DecideReevaluation and the repositories they write through).
THEOREM PipelineIsSound == Spec => []PipelineInvariant
<1>1. Init => PipelineInvariant
  <2> SUFFICES ASSUME Init PROVE PipelineInvariant OBVIOUS
  <2>1. AcksAreExcused BY DEF Init, AcksAreExcused, Waits
  <2>2. OneEvaluationPerJob BY DEF Init, OneEvaluationPerJob
  <2>3. FirstSubmissionNotLost BY DEF Init, FirstSubmissionNotLost
  <2> QED BY <2>1, <2>2, <2>3, InitType DEF PipelineInvariant
<1>2. PipelineInvariant /\ [Next]_vars => PipelineInvariant'
  BY StepType, StepInFlight, StepExcused, StepOnce, StepNotLost DEF PipelineInvariant
<1> QED BY <1>1, <1>2, PTL DEF Spec

\* However requests, evaluators, crashes and the clock interleave, a claim waiting
\* for its first judgement has a row in the queue or a dead letter on record (Submit,
\* Process, deadLetter).
THEOREM SubmissionsKept == Spec => []FirstSubmissionNotLost
<1>1. PipelineInvariant => FirstSubmissionNotLost BY DEF PipelineInvariant
<1> QED BY <1>1, PipelineIsSound, PTL

-----------------------------------------------------------------------------
(* What no step may do                                                     *)

\* What the contributor has declared is untouched by the suggestions of a judgement
\* (Persist's insert of suggestions).
LEMMA DeclaredKept ==
  ASSUME NEW f \in [Skills -> OnClaim], NEW S
  PROVE  Declared(WithSuggestions(f, S)) = Declared(f)
BY DEF Declared, WithSuggestions

\* No step of any part of the system changes what a locked claim offers.
LEMMA StepFrozen ==
  ASSUME TypeOK, InFlight, Next, NEW c \in Claims, claims[c].locked, claims'[c].locked
  PROVE  /\ claims'[c].prs = claims[c].prs
         /\ Declared(claims'[c].skills) = Declared(claims[c].skills)
         /\ claims'[c].version = claims[c].version
<1> DEFINE Same == /\ claims'[c].prs = claims[c].prs
                   /\ Declared(claims'[c].skills) = Declared(claims[c].skills)
                   /\ claims'[c].version = claims[c].version
<1>1. \A d \in Claims : claims[d] \in ClaimRow BY DEF TypeOK
<1>2. claims[c].skills \in [Skills -> OnClaim] BY RequestTypes
<1>3. UNCHANGED claims => Same OBVIOUS
<1>4. ASSUME NEW k \in Clients, Requests(k) PROVE Same
  <2>1. CASE WriteEdit(k)
    <3>1. c # client[k].claim BY <2>1 DEF WriteEdit
    <3>2. claims'[c] = claims[c] BY <2>1, <3>1 DEF WriteEdit, Rewritten, TypeOK
    <3> QED BY <3>2
  <2>2. CASE MarkInvalid(k) BY <1>1, <2>2 DEF MarkInvalid, TypeOK, ClaimRow
  <2>3. CASE Enqueue(k) BY <1>1, <2>3 DEF Enqueue, TypeOK, ClaimRow
  <2>4. CASE Retire(k) BY <1>1, <2>4 DEF Retire, TypeOK, ClaimRow
  <2>5. CASE ~WriteEdit(k) /\ ~MarkInvalid(k) /\ ~Enqueue(k) /\ ~Retire(k)
    <3>1. UNCHANGED claims
      BY <1>4, <2>5 DEF Requests, EditPRs, EditSkills, EditAll, Patch, Submit, Withdraw,
         RefuseEdit, RefuseTaken, Abandon, claimVars
    <3> QED BY <1>3, <3>1
  <2> QED BY <2>1, <2>2, <2>3, <2>4, <2>5
<1>5. ASSUME NEW d \in Claims, Decisions(d) \/ LockExpires(d) PROVE Same
  <2>1. CASE RequestDispute(d) \/ RejectDispute(d)
    BY <1>3, <2>1 DEF RequestDispute, RejectDispute, claimVars
  <2>2. CASE AcceptDispute(d) BY <1>1, <2>2 DEF AcceptDispute, TypeOK, ClaimRow
  <2>3. CASE LockExpires(d) BY <1>1, <2>3 DEF LockExpires, TypeOK, ClaimRow
  <2>4. ASSUME NEW s \in Skills, NEW o \in {"accepted", "dismissed"},
               claims[d].skills[s] = "suggested",
               claims' = [claims EXCEPT ![d].skills[s] = o]
        PROVE  Same
    <3>1. c # d => claims'[c] = claims[c] BY <2>4 DEF TypeOK
    <3>2. c = d => /\ claims'[c].prs = claims[c].prs
                   /\ claims'[c].version = claims[c].version
                   /\ claims'[c].skills = [claims[c].skills EXCEPT ![s] = o]
      BY <1>1, <2>4 DEF TypeOK, ClaimRow
    <3>3. c = d => Declared(claims'[c].skills) = Declared(claims[c].skills)
      <4> SUFFICES ASSUME c = d PROVE Declared(claims'[c].skills) = Declared(claims[c].skills)
        OBVIOUS
      <4> DEFINE f == claims[c].skills
      <4>1. f \in [Skills -> OnClaim] /\ f[s] = "suggested" BY <1>2, <2>4
      <4>2. claims'[c].skills = [f EXCEPT ![s] = o] BY <3>2
      <4> HIDE DEF f
      <4>3. Declared([f EXCEPT ![s] = o]) = Declared(f)
        BY <2>4, <4>1 DEF Declared
      <4> QED BY <4>2, <4>3 DEF f
    <3> QED BY <3>1, <3>2, <3>3
  <2>5. ASSUME NEW s \in Skills, AcceptSuggestion(d, s) PROVE Same
    BY <2>4, <2>5 DEF AcceptSuggestion
  <2>6. ASSUME NEW s \in Skills, DismissSuggestion(d, s) PROVE Same
    BY <2>4, <2>6 DEF DismissSuggestion
  <2> QED BY <1>5, <2>1, <2>2, <2>3, <2>5, <2>6 DEF Decisions
<1>6. CASE RecordSweep BY <1>1, <1>6 DEF RecordSweep, ClaimRow
<1>7. ASSUME NEW w \in Workers, Commit(w) PROVE Same
  <2>1. c # MessageOf(w).claim => claims'[c] = claims[c] BY <1>7, CommitJudges
  <2>2. CASE c = MessageOf(w).claim
    <3>1. claims'[c] = [SetEvaluated(claims[c]) EXCEPT
                          !.skills = WithSuggestions(claims[c].skills, worker[w].suggests)]
      BY <1>7, <2>2 DEF Commit, Persisted, TypeOK
    <3>2. SetEvaluated(claims[c]) \in ClaimRow
          /\ SetEvaluated(claims[c]).prs = claims[c].prs
          /\ SetEvaluated(claims[c]).version = claims[c].version
      BY <1>1 DEF SetEvaluated, ClaimRow
    <3>3. /\ claims'[c].prs = claims[c].prs
          /\ claims'[c].version = claims[c].version
          /\ claims'[c].skills = WithSuggestions(claims[c].skills, worker[w].suggests)
      BY <3>1, <3>2 DEF ClaimRow
    <3> QED BY <1>2, <3>3, DeclaredKept
  <2> QED BY <2>1, <2>2
<1>8. ASSUME NEW w \in Workers, Consume(w) \/ Steps(w) \/ Crash(w) PROVE Same
  BY <1>3, <1>7, <1>8, WorkerFrame
<1>9. CASE AbandonSweep \/ \E to \in 1 .. Rubrics : BeginSweep(to)
  BY <1>3, <1>9 DEF AbandonSweep, BeginSweep, claimVars
<1>10. CASE \E i \in JobIds : Lapse(i) \/ Return(i) BY <1>3, <1>10, ClockFrame
<1> QED BY <1>4, <1>5, <1>6, <1>8, <1>9, <1>10 DEF Next

\* However an edit, a judgement and the lock's end interleave, evidence the platform
\* has judged does not change under its lock: an edit read before the lock fell is
\* refused in the transaction that would write it (write).
THEOREM LockIsHonoured == Spec => LockedEvidenceFrozen
<1>1. PipelineInvariant /\ [Next]_vars =>
        [\A c \in Claims : claims[c].locked /\ claims'[c].locked =>
           /\ claims'[c].prs = claims[c].prs
           /\ Declared(claims'[c].skills) = Declared(claims[c].skills)
           /\ claims'[c].version = claims[c].version]_vars
  BY StepFrozen DEF PipelineInvariant
<1> QED BY <1>1, PipelineIsSound, PTL DEF Spec, LockedEvidenceFrozen

\* No step gives a held pair to anyone else.
LEMMA StepNotStolen ==
  ASSUME TypeOK, InFlight, Next, NEW pair \in Skills \X PRs,
         links[pair].claim # NoClaim, links'[pair].claim # links[pair].claim
  PROVE  links'[pair] = Unlinked /\ claims'[links[pair].claim].status = "withdrawn"
<1> DEFINE holder == links[pair].claim
           Freed == links'[pair] = Unlinked /\ claims'[holder].status = "withdrawn"
<1>1. links[pair] \in LinkRow /\ holder \in Claims BY DEF TypeOK, LinkRow
<1>2. links[pair] # Unlinked BY DEF Unlinked
<1>3. links'[pair] # links[pair] OBVIOUS
<1>4. ASSUME NEW k \in Clients, Requests(k) PROVE Freed
  <2>1. CASE Enqueue(k)
    <3>1. pair \notin PairsOf(client[k].prs, client[k].skills)
      BY <1>2, <2>1 DEF Enqueue, Taken
    <3>2. links'[pair] = links[pair] BY <2>1, <3>1 DEF Enqueue
    <3> QED BY <1>3, <3>2
  <2>2. CASE Retire(k)
    <3>1. links'[pair] = IF holder = client[k].claim THEN Unlinked ELSE links[pair]
      BY <2>2 DEF Retire, Released
    <3>2. holder = client[k].claim /\ links'[pair] = Unlinked BY <1>3, <3>1
    <3>3. claims[holder] \in ClaimRow BY <1>1 DEF TypeOK
    <3>4. claims'[holder].status = "withdrawn"
      BY <1>1, <2>2, <3>2, <3>3 DEF Retire, TypeOK, ClaimRow
    <3> QED BY <3>2, <3>4
  <2>3. CASE ~Enqueue(k) /\ ~Retire(k)
    <3>1. UNCHANGED links
      BY <1>4, <2>3 DEF Requests, EditPRs, EditSkills, EditAll, Patch, Submit, Withdraw,
         WriteEdit, Rewritten, MarkInvalid, RefuseEdit, RefuseTaken, Abandon, claimVars
    <3> QED BY <1>3, <3>1
  <2> QED BY <2>1, <2>2, <2>3
<1>5. ASSUME NEW d \in Claims, Decisions(d) \/ LockExpires(d) PROVE Freed
  <2>1. ASSUME NEW s \in Skills, AcceptSuggestion(d, s) PROVE FALSE
    <3>1. links'[pair] = links[pair] BY <1>2, <2>1 DEF AcceptSuggestion, AcceptedLinks
    <3> QED BY <1>3, <3>1
  <2>2. UNCHANGED links \/ \E s \in Skills : AcceptSuggestion(d, s)
    BY <1>5 DEF Decisions, DismissSuggestion, RequestDispute, RejectDispute, AcceptDispute,
       LockExpires, claimVars
  <2> QED BY <1>3, <2>1, <2>2
<1>6. ASSUME NEW w \in Workers, Commit(w) PROVE FALSE
  <2>1. links' = Settled(w) BY <1>6 DEF Commit, Persisted
  <2>2. Settled(w)[pair].claim = links[pair].claim
    <3> DEFINE scored == \E n \in DOMAIN worker[w].prs :
                 worker[w].prs[n] = pair[2] /\ <<n, pair[1]>> \in worker[w].scored
    <3>1. \A st : [links[pair] EXCEPT !.status = st].claim = links[pair].claim
      BY <1>1 DEF LinkRow
    <3>2. \/ Settled(w)[pair] = links[pair]
          \/ Settled(w)[pair] =
               [links[pair] EXCEPT !.status = IF scored THEN "scored" ELSE "rejected"]
      BY DEF Settled
    <3> HIDE DEF scored
    <3> QED BY <3>1, <3>2
  <2> QED BY <2>1, <2>2
<1>7. ASSUME NEW w \in Workers, Consume(w) \/ Steps(w) \/ Crash(w) PROVE FALSE
  BY <1>3, <1>6, <1>7, WorkerFrame
<1>8. UNCHANGED links => FALSE BY <1>3
<1> QED BY <1>4, <1>5, <1>7, <1>8, SweepFrame, ClockFrame DEF Next

\* However many submissions, acceptances and workers race for it, a pair one claim
\* holds goes to no other: it is first released by the holder's own withdrawal
\* (LinkPairs, LinkJudgedEvidence, SetLinkStatus, UnlinkClaim).
THEOREM PairsStay == Spec => PairsNotStolen
<1>1. PipelineInvariant /\ [Next]_vars =>
        [\A pair \in Skills \X PRs :
           LET holder == links[pair].claim IN
           holder # NoClaim /\ links'[pair].claim # holder =>
             links'[pair] = Unlinked /\ claims'[holder].status = "withdrawn"]_vars
  BY StepNotStolen DEF PipelineInvariant
<1> QED BY <1>1, PipelineIsSound, PTL DEF Spec, PairsNotStolen
=============================================================================
