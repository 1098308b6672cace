---------------------------- MODULE ClaimPipeline ----------------------------
(***************************************************************************)
(* One contributor's claims on their way through the platform: the edits,  *)
(* submissions and withdrawals of ClaimService, the suggestions and the    *)
(* disputes, a rubric sweep, and the evaluator's Process, all meeting in   *)
(* the tables claims, claim_skills, claim_pr_evidence,                     *)
(* user_skill_pr_links, user_skills, evaluations, pr_skill_scores and      *)
(* evaluation_jobs.                                                        *)
(*                                                                         *)
(* A request that reads through the pool and writes in a transaction later *)
(* is two actions, so that anything can happen between them; a transaction *)
(* is one action.  A number a judgement awards is not kept, only which     *)
(* (position, skill) pairs scored above zero.  Supporting projects are not *)
(* kept either: writing them rewrites the claim as EditPRs does.           *)
(***************************************************************************)
EXTENDS EvaluationJobs, Sequences

CONSTANTS
  Claims, Skills, PRs,
  NoClaim,        \* the holder of a pair nobody holds
  NoJob,          \* no message in hand
  Workers,        \* evaluator processes
  Clients,        \* requests of the contributor that can be in flight at once
  EvidenceLists,  \* the lists of pull requests the contributor can put up
  SkillSets,      \* the sets of skills the contributor can declare
  MaxPRs,         \* the constant of the same name
  PrimaryThreshold, \* scored pull requests that make a skill primary
  MaxVersion,     \* bound: a claim is not edited past this version
  Rubrics         \* how many rubric versions the build knows: 1 .. Rubrics

Sequenced(n) == UNION {[1 .. m -> PRs] : m \in 0 .. n}

ASSUME PipelineConstants ==
  /\ NoClaim \notin Claims
  /\ NoJob \notin JobIds
  /\ IsFiniteSet(PRs)
  /\ MaxPRs \in Nat
  /\ PrimaryThreshold \in Nat \ {0}
  /\ MaxVersion \in Nat \ {0}
  /\ Rubrics \in Nat \ {0}
  /\ EvidenceLists \in SUBSET Sequenced(MaxPRs)
  /\ SkillSets \in SUBSET (SUBSET Skills)
  /\ Messages = [claim : Claims, version : 1 .. MaxVersion,
                 cause : {"submit", "dispute", "sweep"}]

VARIABLES
  claims,         \* the rows of claims with their evidence and skills
  links,          \* user_skill_pr_links, by (skill, pull request)
  counts,         \* user_skills.distinct_pr_count; 0 is no row
  evals,          \* each claim's rows of evaluations, oldest first
  dead,           \* the jobs with a row in evaluation_dead_letters
  dispute,        \* each claim's re-evaluation request
  rubric,         \* the active rubric version
  sweep,          \* the last sweep: "none", "open" or "done"
  client,         \* the contributor's requests in flight
  admin,          \* the administrator's sweep request in flight
  worker          \* the evaluator processes

claimVars == <<claims, links, counts>>
judgedVars == <<evals, dead, rubric, sweep>>
vars == <<jobs, ahead, claims, links, counts, evals, dead, dispute, rubric,
          sweep, client, admin, worker>>

-----------------------------------------------------------------------------
(* Rows                                                                    *)

\* How a skill is on a claim: its origin, and for a suggestion its two stamps.
OnClaim == {"none", "declared", "suggested", "accepted", "dismissed"}

ClaimRow == [status  : {"draft", "invalid", "queued", "evaluated", "withdrawn"},
             version : 1 .. MaxVersion,
             prs     : Sequenced(MaxPRs),
             skills  : [Skills -> OnClaim],
             judged  : BOOLEAN,          \* evaluated_at is set
             locked  : BOOLEAN]          \* locked_until is in the future

LinkRow == [claim  : Claims \cup {NoClaim},
            status : {"none", "pending", "scored", "rejected"}]
Unlinked == [claim |-> NoClaim, status |-> "none"]

Positions == 1 .. MaxPRs
Fingerprints == [prs : SUBSET PRs, skills : SUBSET Skills]

\* `judged' and `job' are not columns: what the model was shown, and by which job.
EvaluationRow == [version : 1 .. MaxVersion,
                  rubric  : 1 .. Rubrics,
                  fingerprint : Fingerprints,
                  scores  : SUBSET (PRs \X Positions \X Skills),
                  judged  : SUBSET PRs,
                  job     : JobIds]

\* A skill that is neither undecided nor absent (ClaimSkill.IsInert): one the
\* contributor dismissed is not inert.
Active(skills) == {s \in Skills : skills[s] \in {"declared", "accepted", "dismissed"}}
Known(skills) == {s \in Skills : skills[s] # "none"}
Declared(skills) == {s \in Skills : skills[s] = "declared"}

PRsOf(list) == {list[n] : n \in DOMAIN list}

\* The evidence a fingerprint is taken over.
Fingerprint(c) == [prs    |-> PRsOf(claims[c].prs),
                   skills |-> Declared(claims[c].skills)]

\* A draft reports neither its judgement nor its lock (byID).
ReportsJudged(c) == claims[c].judged /\ claims[c].status # "draft"
ReportsLocked(c) == claims[c].locked /\ claims[c].status # "draft"

ScoredFor(lnk, s) == {p \in PRs : lnk[<<s, p>>].status = "scored"}

\* RecomputeStanding for the skills in S, over the links as they now are.
Recount(S, lnk) == [s \in Skills |->
  IF s \in S THEN Cardinality(ScoredFor(lnk, s)) ELSE counts[s]]


-----------------------------------------------------------------------------
(* Requests and workers                                                    *)

NoSkills == [s \in Skills |-> "none"]

\* What a request read and what it is about to write.
ClientState == [pc       : {"idle", "write", "submit", "invalidate", "withdraw"},
                claim    : Claims \cup {NoClaim},
                version  : 0 .. MaxVersion,
                versioned: BOOLEAN,
                prs      : Sequenced(MaxPRs),
                skills   : [Skills -> OnClaim],
                edits    : {"nothing", "prs", "skills", "all"},
                asked    : BOOLEAN]      \* the contributor confirmed a demotion
NoRequest == [pc |-> "idle", claim |-> NoClaim, version |-> 0, versioned |-> FALSE,
              prs |-> <<>>, skills |-> NoSkills, edits |-> "nothing",
              asked |-> FALSE]

AdminState == [pc : {"idle", "sweeping"}, list : SUBSET Claims, to : 0 .. Rubrics]
NoSweep == [pc |-> "idle", list |-> {}, to |-> 0]

WorkerState == [pc      : {"idle", "reading", "checking", "acking", "judging",
                           "persisting", "parking"},
                job     : JobIds \cup {NoJob},
                version : 0 .. MaxVersion,
                prs     : Sequenced(MaxPRs),
                skills  : [Skills -> OnClaim],
                rubric  : 0 .. Rubrics,
                fingerprint : Fingerprints,
                scored  : SUBSET (Positions \X Skills),
                suggests: SUBSET Skills]
NoFingerprint == [prs |-> {}, skills |-> {}]
Waits == [pc |-> "idle", job |-> NoJob, version |-> 0, prs |-> <<>>,
          skills |-> NoSkills, rubric |-> 0, fingerprint |-> NoFingerprint,
          scored |-> {}, suggests |-> {}]

TypeOK ==
  /\ JobsTypeOK
  /\ claims \in [Claims -> ClaimRow]
  /\ links \in [Skills \X PRs -> LinkRow]
  /\ counts \in [Skills -> Nat]
  /\ evals \in [Claims -> Seq(EvaluationRow)]
  /\ dead \in SUBSET JobIds
  /\ dispute \in [Claims -> {"none", "pending", "decided"}]
  /\ rubric \in 1 .. Rubrics
  /\ sweep \in {"none", "open", "done"}
  /\ client \in [Clients -> ClientState]
  /\ admin \in AdminState
  /\ worker \in [Workers -> WorkerState]

\* Every claim is the draft Create opens.
Init ==
  /\ JobsInit
  /\ claims = [c \in Claims |->
       [status |-> "draft", version |-> 1, prs |-> <<>>, skills |-> NoSkills,
        judged |-> FALSE, locked |-> FALSE]]
  /\ links = [pair \in Skills \X PRs |-> Unlinked]
  /\ counts = [s \in Skills |-> 0]
  /\ evals = [c \in Claims |-> <<>>]
  /\ dead = {}
  /\ dispute = [c \in Claims |-> "none"]
  /\ rubric = 1
  /\ sweep = "none"
  /\ client = [k \in Clients |-> NoRequest]
  /\ admin = NoSweep
  /\ worker = [w \in Workers |-> Waits]

-----------------------------------------------------------------------------
(* Editing                                                                 *)

\* What a skill on a claim becomes when its row is deleted and inserted again:
\* the origin is kept and the stamps of a decision are not.
Reinserted(skills) == [s \in Skills |->
  IF skills[s] \in {"accepted", "dismissed"} THEN "suggested" ELSE skills[s]]

Declaring(S) == [s \in Skills |-> IF s \in S THEN "declared" ELSE "none"]

\* The read half of patch: the claim is read, refused if its lock is reported,
\* changed in memory, and written back whole.
Patch(k, c, list, skills, edits) ==
  /\ client[k].pc = "idle"
  /\ ~ReportsLocked(c)
  /\ ReportsJudged(c) => claims[c].version < MaxVersion   \* bound
  /\ client' = [client EXCEPT ![k] =
       [pc |-> "write", claim |-> c, version |-> claims[c].version,
        versioned |-> ReportsJudged(c), prs |-> list,
        skills |-> Reinserted(skills), edits |-> edits, asked |-> FALSE]]
  /\ UNCHANGED <<jobVars, claimVars, judgedVars, dispute, admin, worker>>

EditPRs(k, c) == \E list \in EvidenceLists : Patch(k, c, list, claims[c].skills, "prs")
EditSkills(k, c) == \E S \in SkillSets : Patch(k, c, claims[c].prs, Declaring(S), "skills")

\* The read half of Replace, by a client that holds the current version.
EditAll(k, c) ==
  /\ client[k].pc = "idle"
  /\ ~ReportsLocked(c)
  /\ claims[c].version < MaxVersion                       \* bound
  /\ \E list \in EvidenceLists, S \in SkillSets :
       /\ list # <<>> /\ S # {}
       /\ client' = [client EXCEPT ![k] =
            [pc |-> "write", claim |-> c, version |-> claims[c].version,
             versioned |-> TRUE, prs |-> list, skills |-> Declaring(S),
             edits |-> "all", asked |-> FALSE]]
  /\ UNCHANGED <<jobVars, claimVars, judgedVars, dispute, admin, worker>>

Current(k) == client[k].versioned => claims[client[k].claim].version = client[k].version

Rewritten(k) ==
  /\ claims' = [claims EXCEPT
       ![client[k].claim].status = "draft",
       ![client[k].claim].version = IF client[k].versioned THEN @ + 1 ELSE @,
       ![client[k].claim].prs = client[k].prs,
       ![client[k].claim].skills = client[k].skills]
  /\ client' = [client EXCEPT ![k] = NoRequest]
  /\ UNCHANGED <<jobVars, links, counts, judgedVars, dispute, admin, worker>>

\* (A fault: the lock is not read again.)
WriteEditUnlocked(k) == client[k].pc = "write" /\ Current(k) /\ Rewritten(k)

\* The transaction: the row is locked, and its lock and version are read again.
WriteEdit(k) ==
  /\ client[k].pc = "write"
  /\ ~claims[client[k].claim].locked
  /\ Current(k)
  /\ Rewritten(k)

RefuseEdit(k) ==
  /\ client[k].pc = "write"
  /\ claims[client[k].claim].locked \/ ~Current(k)
  /\ client' = [client EXCEPT ![k] = NoRequest]
  /\ UNCHANGED <<jobVars, claimVars, judgedVars, dispute, admin, worker>>

-----------------------------------------------------------------------------
(* Submitting                                                              *)

\* The pairs a submission links (buildLinks).
PairsOf(list, skills) == Active(skills) \X PRsOf(list)

Latest(c) == evals[c][Len(evals[c])]
Unchanged(c) == evals[c] # <<>> /\ Latest(c).fingerprint = Fingerprint(c)

\* What validateStructure asks of a claim, as far as the model keeps it.
WellFormed(c) == claims[c].prs # <<>> /\ Declared(claims[c].skills) # {}

\* ConflictingPairs: the claim's own links are not conflicts.
SpentElsewhere(c) == \E pair \in PairsOf(claims[c].prs, claims[c].skills) :
                       links[pair].claim \notin {c, NoClaim}

\* GitHub is asked only when every local check has passed, and may say anything.
Verdicts(c) == {"invalidate"} \cup
               (IF WellFormed(c) /\ ~SpentElsewhere(c) THEN {"submit"} ELSE {})

\* The reads and the checks.
Submit(k, c) ==
  /\ client[k].pc = "idle"
  /\ ~ReportsLocked(c)
  /\ ~Unchanged(c)
  /\ \E verdict \in Verdicts(c) :
       client' = [client EXCEPT ![k] =
         [pc |-> verdict, claim |-> c, version |-> claims[c].version,
          versioned |-> FALSE, prs |-> claims[c].prs,
          skills |-> claims[c].skills, edits |-> "nothing", asked |-> FALSE]]
  /\ UNCHANGED <<jobVars, claimVars, judgedVars, dispute, admin, worker>>

MarkInvalid(k) ==
  /\ client[k].pc = "invalidate"
  /\ claims' = [claims EXCEPT ![client[k].claim].status = "invalid"]
  /\ client' = [client EXCEPT ![k] = NoRequest]
  /\ UNCHANGED <<jobVars, links, counts, judgedVars, dispute, admin, worker>>

\* (A fault: an INSERT that takes over the row it conflicts with.)
TakenNever(pairs) == FALSE

\* LinkPairs is a plain INSERT: any row already there, whoever holds it, fails it.
Taken(pairs) == \E pair \in pairs : links[pair] # Unlinked

Message(c, version, cause) == [claim |-> c, version |-> version, cause |-> cause]

\* The transaction: links, status and job together.  (Bound: a free identifier.)
Enqueue(k) ==
  LET c == client[k].claim
      pairs == PairsOf(client[k].prs, client[k].skills)
  IN
  /\ client[k].pc = "submit"
  /\ ~Taken(pairs)
  /\ links' = [pair \in Skills \X PRs |->
       IF pair \in pairs THEN [claim |-> c, status |-> "pending"] ELSE links[pair]]
  /\ claims' = [claims EXCEPT ![c].status = "queued"]
  /\ \E i \in FreeIds :
       Publish([j \in {i} |-> Message(c, client[k].version, "submit")])
  /\ client' = [client EXCEPT ![k] = NoRequest]
  /\ UNCHANGED <<counts, judgedVars, dispute, admin, worker>>

RefuseTaken(k) ==
  /\ client[k].pc = "submit"
  /\ Taken(PairsOf(client[k].prs, client[k].skills))
  /\ client' = [client EXCEPT ![k] = NoRequest]
  /\ UNCHANGED <<jobVars, claimVars, judgedVars, dispute, admin, worker>>

-----------------------------------------------------------------------------
(* Withdrawing                                                             *)

\* The skills WithdrawPreview says would demote: it takes every pull request of
\* the claim's evidence off the count of every skill active on it.
Demoting(c) ==
  {s \in Active(claims[c].skills) :
     /\ counts[s] >= PrimaryThreshold
     /\ counts[s] - Len(claims[c].prs) < PrimaryThreshold}

Withdraw(k, c) ==
  /\ client[k].pc = "idle"
  /\ \E confirm \in BOOLEAN :
       /\ Demoting(c) # {} => confirm
       /\ client' = [client EXCEPT ![k] =
            [pc |-> "withdraw", claim |-> c, version |-> claims[c].version,
             versioned |-> FALSE, prs |-> <<>>, skills |-> claims[c].skills,
             edits |-> "nothing", asked |-> confirm]]
  /\ UNCHANGED <<jobVars, claimVars, judgedVars, dispute, admin, worker>>

Released(c) == [pair \in Skills \X PRs |->
  IF links[pair].claim = c THEN Unlinked ELSE links[pair]]

\* The transaction: the standings recomputed are those of the skills read.
Retire(k) ==
  LET c == client[k].claim IN
  /\ client[k].pc = "withdraw"
  /\ claims' = [claims EXCEPT ![c].status = "withdrawn"]
  /\ links' = Released(c)
  /\ counts' = Recount(Active(client[k].skills), Released(c))
  /\ client' = [client EXCEPT ![k] = NoRequest]
  /\ UNCHANGED <<jobVars, judgedVars, dispute, admin, worker>>

\* The caller goes away, or the API process ends, before the transaction.
Abandon(k) ==
  /\ client[k].pc # "idle"
  /\ client' = [client EXCEPT ![k] = NoRequest]
  /\ UNCHANGED <<jobVars, claimVars, judgedVars, dispute, admin, worker>>

-----------------------------------------------------------------------------
(* Suggestions, disputes, the lock                                         *)

ScoredPRs(c, s) ==
  {p \in PRs : \E n \in DOMAIN evals[c] :
     \E t \in evals[c][n].scores : t[1] = p /\ t[3] = s}

\* LinkJudgedEvidence: ON CONFLICT DO NOTHING.
AcceptedLinks(c, s) == [pair \in Skills \X PRs |->
  IF pair[1] = s /\ pair[2] \in ScoredPRs(c, s) /\ links[pair] = Unlinked
  THEN [claim |-> c, status |-> "scored"] ELSE links[pair]]

AcceptSuggestion(c, s) ==
  /\ claims[c].skills[s] = "suggested"
  /\ claims' = [claims EXCEPT ![c].skills[s] = "accepted"]
  /\ links' = AcceptedLinks(c, s)
  /\ counts' = Recount({s}, AcceptedLinks(c, s))
  /\ UNCHANGED <<jobVars, judgedVars, dispute, client, admin, worker>>

DismissSuggestion(c, s) ==
  /\ claims[c].skills[s] = "suggested"
  /\ claims' = [claims EXCEPT ![c].skills[s] = "dismissed"]
  /\ UNCHANGED <<jobVars, links, counts, judgedVars, dispute, client, admin, worker>>

\* The cooldown between disputes is not kept: a dispute can always be its turn.
RequestDispute(c) ==
  /\ ReportsJudged(c)
  /\ dispute[c] # "pending"
  /\ dispute' = [dispute EXCEPT ![c] = "pending"]
  /\ UNCHANGED <<jobVars, claimVars, judgedVars, client, admin, worker>>

RejectDispute(c) ==
  /\ dispute[c] = "pending"
  /\ dispute' = [dispute EXCEPT ![c] = "decided"]
  /\ UNCHANGED <<jobVars, claimVars, judgedVars, client, admin, worker>>

AcceptDispute(c) ==
  /\ dispute[c] = "pending"
  /\ dispute' = [dispute EXCEPT ![c] = "decided"]
  /\ claims' = [claims EXCEPT ![c].status = "queued"]
  /\ \E i \in FreeIds :
       Publish([j \in {i} |-> Message(c, claims[c].version, "dispute")])
  /\ UNCHANGED <<links, counts, judgedVars, client, admin, worker>>

\* locked_until passes.
LockExpires(c) ==
  /\ claims[c].locked
  /\ claims' = [claims EXCEPT ![c].locked = FALSE]
  /\ UNCHANGED <<jobVars, links, counts, judgedVars, dispute, client, admin, worker>>

-----------------------------------------------------------------------------
(* A rubric sweep                                                          *)

IsSweepJob(i) == InQueue(i) /\ jobs[i].msg.cause = "sweep"

PendingSweep == {c \in Claims : /\ claims[c].status = "evaluated"
                                /\ \E n \in DOMAIN evals[c] : evals[c][n].rubric = rubric}

\* The reads.  Any version the build knows but the active one can be the target.
BeginSweep(to) ==
  /\ admin.pc = "idle"
  /\ sweep # "open" /\ to # rubric
  /\ admin' = [pc |-> "sweeping", to |-> to, list |-> PendingSweep]
  /\ UNCHANGED <<jobVars, claimVars, judgedVars, dispute, client, worker>>

\* The transaction.
RecordSweep ==
  /\ admin.pc = "sweeping"
  /\ rubric' = admin.to
  /\ sweep' = IF admin.list = {} THEN "done" ELSE "open"
  /\ claims' = [c \in Claims |-> IF c \in admin.list
                                 THEN [claims[c] EXCEPT !.status = "queued"]
                                 ELSE claims[c]]
  /\ \E S \in SUBSET FreeIds : \E of \in [S -> admin.list] :
       /\ \A c \in admin.list : \E i \in S : of[i] = c
       /\ Cardinality(S) = Cardinality(admin.list)
       /\ Publish([i \in S |-> Message(of[i], claims[of[i]].version, "sweep")])
  /\ admin' = NoSweep
  /\ UNCHANGED <<links, counts, evals, dead, dispute, client, worker>>

AbandonSweep ==
  /\ admin.pc = "sweeping"
  /\ admin' = NoSweep
  /\ UNCHANGED <<jobVars, claimVars, judgedVars, dispute, client, worker>>

-----------------------------------------------------------------------------
(* An evaluator process                                                    *)

Consume(w) ==
  /\ worker[w].pc = "idle"
  /\ \E i \in Claimable :
       /\ {i} \in NextBatch(1)
       /\ LeaseRows({i})
       /\ worker' = [worker EXCEPT ![w] = [Waits EXCEPT !.pc = "reading", !.job = i]]
  /\ UNCHANGED <<claimVars, judgedVars, dispute, client, admin>>

MessageOf(w) == jobs[worker[w].job].msg

ReadClaim(w) ==
  LET c == MessageOf(w).claim IN
  /\ worker[w].pc = "reading"
  /\ worker' = [worker EXCEPT ![w].pc = "checking",
                              ![w].version = claims[c].version,
                              ![w].prs = claims[c].prs,
                              ![w].skills = claims[c].skills]
  /\ UNCHANGED <<jobVars, claimVars, judgedVars, dispute, client, admin>>

\* Keyed on the MESSAGE's version and the rubric active now.
AlreadyEvaluated(m) ==
  \E n \in DOMAIN evals[m.claim] :
    /\ evals[m.claim][n].version = m.version
    /\ evals[m.claim][n].rubric = rubric

CheckDone(w) ==
  /\ worker[w].pc = "checking"
  /\ worker' = [worker EXCEPT
       ![w].pc = IF AlreadyEvaluated(MessageOf(w)) THEN "acking" ELSE "judging",
       ![w].rubric = rubric]
  /\ UNCHANGED <<jobVars, claimVars, judgedVars, dispute, client, admin>>

AckDone(w) ==
  /\ worker[w].pc = "acking"
  /\ InQueue(worker[w].job)
  /\ AckRow(worker[w].job)
  /\ worker' = [worker EXCEPT ![w] = Waits]
  /\ UNCHANGED <<claimVars, judgedVars, dispute, client, admin>>

\* One call for the whole claim: the active skills are judged on every pull
\* request, and skills that are not active can be suggested.
Suggestible(w) == Skills \ Active(worker[w].skills)

\* The (position, skill) pairs a judgement can score above zero: a suggested skill
\* is scored with the others.
Scorable(w, sug) == (DOMAIN worker[w].prs) \X (Active(worker[w].skills) \cup sug)

\* The fingerprint is read after the model has answered.
Judge(w) ==
  /\ worker[w].pc = "judging"
  /\ \E sug \in SUBSET Suggestible(w) : \E scored \in SUBSET Scorable(w, sug) :
       worker' = [worker EXCEPT ![w].pc = "persisting",
                                ![w].fingerprint = Fingerprint(MessageOf(w).claim),
                                ![w].scored = scored,
                                ![w].suggests = sug]
  /\ UNCHANGED <<jobVars, claimVars, judgedVars, dispute, client, admin>>

\* (A fault: the message is dropped with no dead letter.)
RefuseSilently(w) ==
  /\ worker[w].pc \in {"reading", "judging"}
  /\ worker' = [worker EXCEPT ![w].pc = "parking"]
  /\ UNCHANGED <<jobVars, claimVars, judgedVars, dispute, client, admin>>

\* The model refuses, or the claim could not be read: the dead letter is written,
\* and acked in a transaction of its own that does not mind a missing row.
Refuse(w) ==
  /\ worker[w].pc \in {"reading", "judging"}
  /\ dead' = dead \cup {worker[w].job}
  /\ worker' = [worker EXCEPT ![w].pc = "parking"]
  /\ UNCHANGED <<jobVars, claimVars, evals, rubric, sweep, dispute, client, admin>>

AckParked(w) ==
  /\ worker[w].pc = "parking"
  /\ \/ InQueue(worker[w].job) /\ AckRow(worker[w].job)
     \/ ~InQueue(worker[w].job) /\ UNCHANGED jobVars
  /\ worker' = [worker EXCEPT ![w] = Waits]
  /\ UNCHANGED <<claimVars, judgedVars, dispute, client, admin>>

\* Process fails for a reason of its own (GitHub, the model, the database).
Fail(w) ==
  /\ worker[w].pc \in {"checking", "acking", "judging", "persisting"}
  /\ InQueue(worker[w].job)
  /\ NackRow(worker[w].job)
  /\ worker' = [worker EXCEPT ![w] = Waits]
  /\ UNCHANGED <<claimVars, judgedVars, dispute, client, admin>>

\* The process ends, by a crash or because its row is gone (Broker's FindGone),
\* and another takes its place; what it held is redelivered when the lease lapses.
Crash(w) ==
  /\ worker[w].pc # "idle"
  /\ worker' = [worker EXCEPT ![w] = Waits]
  /\ UNCHANGED <<jobVars, claimVars, judgedVars, dispute, client, admin>>

-----------------------------------------------------------------------------
(* The transaction that persists a judgement                               *)

\* Record inserts nothing when this claim version, evidence and rubric have
\* a row; Persist then writes to the claim's latest row, whichever that is.
Recorded(w) ==
  LET c == MessageOf(w).claim
      known == \E n \in DOMAIN evals[c] :
                 /\ evals[c][n].version = worker[w].version
                 /\ evals[c][n].fingerprint = worker[w].fingerprint
                 /\ evals[c][n].rubric = worker[w].rubric
  IN IF known THEN evals[c]
     ELSE Append(evals[c],
            [version |-> worker[w].version, rubric |-> worker[w].rubric,
             fingerprint |-> worker[w].fingerprint, scores |-> {},
             judged |-> PRsOf(worker[w].prs), job |-> worker[w].job])

\* A score's pull request is looked up by position in the evidence as it is now.
ScoreRows(w) ==
  LET list == claims[MessageOf(w).claim].prs
  IN {<<list[t[1]], t[1], t[2]>> : t \in worker[w].scored}

\* The two errors Persist can meet: a position that no longer exists, and a
\* (row, position, skill) that already has a score.
Persistable(w) ==
  LET rows == Recorded(w)
  IN \A t \in worker[w].scored :
       /\ t[1] \in DOMAIN claims[MessageOf(w).claim].prs
       /\ \A u \in rows[Len(rows)].scores : ~(u[2] = t[1] /\ u[3] = t[2])

\* A judged pair is inert when its skill was not on the claim that was read.
JudgedSkills(w) == Active(worker[w].skills) \cup worker[w].suggests
Touched(w) == JudgedSkills(w) \cap Known(worker[w].skills)

\* SetLinkStatus: by (skill, pull request), whoever holds the link.
Settled(w) == [pair \in Skills \X PRs |->
  IF /\ links[pair] # Unlinked /\ pair[1] \in Touched(w)
     /\ pair[2] \in PRsOf(worker[w].prs)
  THEN [links[pair] EXCEPT !.status =
          IF \E n \in DOMAIN worker[w].prs :
               worker[w].prs[n] = pair[2] /\ <<n, pair[1]>> \in worker[w].scored
          THEN "scored" ELSE "rejected"]
  ELSE links[pair]]

WithSuggestions(skills, S) == [s \in Skills |->
  IF s \in S /\ skills[s] = "none" THEN "suggested" ELSE skills[s]]

SetEvaluated(row) ==
  [row EXCEPT !.status = "evaluated", !.judged = TRUE, !.locked = TRUE]

\* closeDrainedSweep, after the ack: no sweep job is left in the queue.
Drained(w) == sweep = "open" /\ \A i \in JobIds \ {worker[w].job} : ~IsSweepJob(i)

\* What the transaction writes beside the ack.
Persisted(w) ==
  LET c == MessageOf(w).claim
      rows == Recorded(w)
  IN
  /\ evals' = [evals EXCEPT ![c] =
       [rows EXCEPT ![Len(rows)].scores = @ \cup ScoreRows(w)]]
  /\ links' = Settled(w)
  /\ counts' = Recount(IF worker[w].prs = <<>> THEN {} ELSE Touched(w), Settled(w))
  /\ claims' = [claims EXCEPT
       ![c] = [SetEvaluated(claims[c]) EXCEPT
                !.skills = WithSuggestions(claims[c].skills, worker[w].suggests)]]
  /\ sweep' = IF Drained(w) THEN "done" ELSE sweep
  /\ worker' = [worker EXCEPT ![w] = Waits]
  /\ UNCHANGED <<dead, rubric, dispute, client, admin>>

\* (A fault: the ack does not mind a missing row.)
CommitUnchecked(w) ==
  /\ worker[w].pc = "persisting"
  /\ Persistable(w)
  /\ Persisted(w)
  /\ \/ InQueue(worker[w].job) /\ AckRow(worker[w].job)
     \/ ~InQueue(worker[w].job) /\ UNCHANGED jobVars

Commit(w) ==
  /\ worker[w].pc = "persisting"
  /\ InQueue(worker[w].job)
  /\ Persistable(w)
  /\ Persisted(w)
  /\ AckRow(worker[w].job)

-----------------------------------------------------------------------------

Others == <<claimVars, judgedVars, dispute, client, admin, worker>>
Lapse(i) == LeaseLapses(i) /\ UNCHANGED Others
Return(i) == BackoffEnds(i) /\ UNCHANGED Others

Requests(k) ==
  \/ \E c \in Claims : \/ EditPRs(k, c) \/ EditSkills(k, c) \/ EditAll(k, c)
                       \/ Submit(k, c) \/ Withdraw(k, c)
  \/ WriteEdit(k) \/ RefuseEdit(k)
  \/ MarkInvalid(k) \/ Enqueue(k) \/ RefuseTaken(k)
  \/ Retire(k)
  \/ Abandon(k)

Decisions(c) ==
  \/ \E s \in Skills : AcceptSuggestion(c, s) \/ DismissSuggestion(c, s)
  \/ RequestDispute(c) \/ RejectDispute(c) \/ AcceptDispute(c)

Steps(w) ==
  \/ ReadClaim(w) \/ CheckDone(w) \/ AckDone(w)
  \/ Judge(w) \/ Refuse(w) \/ AckParked(w) \/ Fail(w) \/ Commit(w)

Next ==
  \/ \E k \in Clients : Requests(k)
  \/ \E c \in Claims : Decisions(c) \/ LockExpires(c)
  \/ RecordSweep \/ AbandonSweep \/ \E to \in 1 .. Rubrics : BeginSweep(to)
  \/ \E w \in Workers : Consume(w) \/ Steps(w) \/ Crash(w)
  \/ \E i \in JobIds : Lapse(i) \/ Return(i)

\* The clock moves and the evaluator gets on with its loop (the fairness of
\* Broker).  Nothing is assumed of the contributor or of an administrator.
Fairness ==
  /\ \A w \in Workers : WF_vars(Consume(w)) /\ WF_vars(Steps(w))
  /\ \A i \in JobIds : WF_vars(Lapse(i)) /\ WF_vars(Return(i))

Spec == Init /\ [][Next]_vars
FairSpec == Spec /\ Fairness
=============================================================================
