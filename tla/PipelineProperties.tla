------------------------- MODULE PipelineProperties -------------------------
(***************************************************************************)
(* What the claim pipeline is for, and what its documents say of it that   *)
(* the code does not do.                                                   *)
(***************************************************************************)
EXTENDS ClaimPipeline

\* A job is judged into the record at most once, however often it is delivered
\* and whoever else holds it: the rows of evaluations come from distinct jobs, each
\* of the row's own claim and gone from the queue (Process: "IDEMPOTENT, because it
\* has to be").
OneEvaluationPerJob ==
  /\ \A c \in Claims : \A n \in DOMAIN evals[c] :
       /\ jobs[evals[c][n].job].state = "acked"
       /\ jobs[evals[c][n].job].msg.claim = c
  /\ \A c \in Claims : \A m, n \in DOMAIN evals[c] :
       evals[c][m].job = evals[c][n].job => m = n

\* A claim waiting for its first judgement has something that will bring it or
\* someone told: its job is in the queue, or a dead letter of one is (Submit: "A
\* claim submitted with no job would never be judged").
FirstSubmissionNotLost ==
  \A c \in Claims :
    claims[c].status = "queued" /\ ~claims[c].judged =>
      \E i \in JobIds : jobs[i].state # "free" /\ jobs[i].msg.claim = c /\ (InQueue(i) \/ i \in dead)

\* While the seven-day lock holds, nothing the contributor does changes what the
\* claim offers as evidence, not even an edit that was read before the lock fell
\* (write: "The lock is checked first").
LockedEvidenceFrozen ==
  [][\A c \in Claims : claims[c].locked /\ claims'[c].locked =>
       /\ claims'[c].prs = claims[c].prs
       /\ Declared(claims'[c].skills) = Declared(claims[c].skills)
       /\ claims'[c].version = claims[c].version]_vars

\* A pair a claim holds changes hands only by that claim's own withdrawal,
\* whatever another submission, an accepted suggestion or a worker does between
\* looking for conflicts and writing the links (LinkPairs: the primary key "is what
\* stops the same PR evidencing the same skill twice").
PairsNotStolen ==
  [][\A pair \in Skills \X PRs :
       LET holder == links[pair].claim IN
       holder # NoClaim /\ links'[pair].claim # holder =>
         links'[pair] = Unlinked /\ claims'[holder].status = "withdrawn"]_vars

\* A submitted claim does not wait for ever: it is judged, it leaves `queued', or
\* what was to bring the judgement is out of attempts or on record for a human,
\* however often the evaluator crashes (RFC-0004: a submission waits on the live
\* topic and on nothing else).
EverySubmissionEnds ==
  \A c \in Claims :
    claims[c].status = "queued" /\ ~claims[c].judged
      ~> \/ claims[c].status # "queued" \/ claims[c].judged
         \/ \E i \in JobIds : (Exhausted(i) \/ i \in dead) /\ jobs[i].msg.claim = c

-----------------------------------------------------------------------------
(* What the proofs rest on                                                 *)

\* What is in flight is about something: a row carries a message, a request and a
\* delivery name a claim and a row, and each local variable has been read by the
\* time it is used.
InFlight ==
  /\ \A i \in JobIds : jobs[i].state # "free" => jobs[i].msg \in Messages
  /\ \A k \in Clients : client[k].pc # "idle" =>
       /\ client[k].claim \in Claims
       /\ client[k].version >= 1
       /\ client[k].pc = "write" /\ client[k].versioned => client[k].version < MaxVersion
  /\ admin.pc = "sweeping" => admin.to >= 1
  /\ \A w \in Workers : worker[w].pc # "idle" =>
       /\ worker[w].job \in JobIds
       /\ jobs[worker[w].job].state # "free"
       /\ worker[w].pc \in {"checking", "acking", "judging", "persisting"} =>
            worker[w].version >= 1
       /\ worker[w].pc \in {"acking", "judging", "persisting"} => worker[w].rubric >= 1

\* A delivery about to be acked unjudged has what excuses it: an evaluation of its
\* claim, which has marked the claim judged, or a dead letter of its own.
AcksAreExcused ==
  /\ \A c \in Claims : evals[c] # <<>> => claims[c].judged
  /\ \A w \in Workers : worker[w].pc = "acking" => evals[MessageOf(w).claim] # <<>>
  /\ \A w \in Workers : worker[w].pc = "parking" => worker[w].job \in dead

\* The inductive invariant.  OneEvaluationPerJob carries its own strengthening: a
\* recorded job is off the queue, so a commit, which needs its row, is of a job not
\* yet recorded.  FirstSubmissionNotLost needs AcksAreExcused, since two of the
\* three acks write no evaluation.
PipelineInvariant ==
  TypeOK /\ InFlight /\ AcksAreExcused /\ OneEvaluationPerJob /\ FirstSubmissionNotLost

-----------------------------------------------------------------------------
(* What documents and comments say                                         *)

\* RFC-0003, the status table: `queued' means "Evidence frozen".
QueuedEvidenceFrozen ==
  [][\A c \in Claims :
       claims[c].status = "queued" => claims'[c].prs = claims[c].prs]_vars

\* DecideReevaluation: "a dispute marked accepted with no job would leave the
\* contributor told they were right and nothing happening".  The job of an
\* accepted dispute is not done without a judgement of its own.
AcceptedDisputeIsJudged ==
  \A i \in JobIds :
    jobs[i].state = "acked" /\ jobs[i].msg.cause = "dispute" =>
      \/ i \in dead
      \/ \E n \in DOMAIN evals[jobs[i].msg.claim] : evals[jobs[i].msg.claim][n].job = i

\* Withdraw: "a count left stale is a count that will disagree with the links
\* table".
StandingMatchesLinks ==
  \A s \in Skills : counts[s] = Cardinality(ScoredFor(links, s))

\* RFC-0003, the status table: a withdrawn claim's "(PR, skill) pairs are
\* released".
WithdrawnHoldsNothing ==
  \A c \in Claims : claims[c].status = "withdrawn" =>
    \A pair \in Skills \X PRs : links[pair].claim # c

\* ClaimRepository.DecideSuggestion: "A decision is final in both directions".
DecisionIsFinal ==
  [][\A c \in Claims, s \in Skills :
       claims[c].skills[s] \in {"accepted", "dismissed"} =>
         claims'[c].skills[s] # "suggested"]_vars

\* scoresApply: showing old scores beside new evidence "would attribute a number
\* to a PR nobody scored".  No score row names a pull request its judgement was
\* not shown.
ScoresOnlyJudgedPRs ==
  \A c \in Claims : \A n \in DOMAIN evals[c] : \A t \in evals[c][n].scores :
    t[1] \in evals[c][n].judged

\* Submit, on the conflict its transaction meets: "another claim took the pair
\* between the check and the write".
TakenByAnotherClaim ==
  [][\A k \in Clients :
       RefuseTaken(k) =>
         \E pair \in PairsOf(client[k].prs, client[k].skills) :
           links[pair].claim \notin {client[k].claim, NoClaim}]_vars

\* RFC-0003: once scored, a claim "cannot be edited or resubmitted for 7 days".
LockedNotResubmitted ==
  [][\A k \in Clients : Enqueue(k) => ~claims[client[k].claim].locked]_vars

\* closeDrainedSweep: the platform is only out of the split-version state "once the
\* queue is empty, and the worker that emptied it is what knows".
OpenSweepHasWork ==
  sweep = "open" => \E i \in JobIds : IsSweepJob(i)

\* SetPREvidence "replaces the PR evidence, leaving projects and skills alone".
PREditLeavesSkills ==
  [][\A k \in Clients : WriteEdit(k) /\ client[k].edits = "prs" =>
       LET c == client[k].claim
       IN Declared(claims'[c].skills) = Declared(claims[c].skills)]_vars

\* ClaimSkill: an ai_suggested row "is INERT until accepted: invisible, unscored,
\* and excluded from every total".  No judgement raises the standing of a skill
\* whose suggestion is undecided.
InertUntilAccepted ==
  [][\A w \in Workers, s \in Skills :
       Commit(w) /\ claims[MessageOf(w).claim].skills[s] = "suggested" =>
         counts'[s] <= counts[s]]_vars

\* RFC-0004, on a job out of attempts: "Exhaustion dead-letters the job and moves
\* the claim to `failed'".
ExhaustionIsRecorded ==
  \A i \in JobIds :
    Exhausted(i) /\ ~jobs[i].leased /\ (\A w \in Workers : worker[w].job # i) => i \in dead

\* A standing loses the rank of primary in this step.
Demoted(s) == counts[s] >= PrimaryThreshold /\ counts'[s] < PrimaryThreshold

\* RFC-0003: "nobody loses a ranking without having been asked".
WithdrawalAsksFirst ==
  [][\A k \in Clients, s \in Skills :
       Retire(k) /\ Demoted(s) => client[k].asked]_vars
=============================================================================
