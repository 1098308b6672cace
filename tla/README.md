# gitcherrypick: TLA+ models and proofs

Contributors put up merged pull requests as evidence of skills (*claims*); an evaluator process
has a language model judge them; the judgements turn into standings and scores by which hirers find
people, stage them on roles and ask them for contact. This directory models the part of that whose
correctness depends on what happens at the same time as what, or on several answers that must agree:
the job queue and its evaluators, claims, sessions, the people and places of organisations, roles and
the people on them, profiles, discovery, and the skill catalogue. All paths below are relative to
`src/backend/internal` unless they start with `cmd/` (`src/backend/cmd`) or `rfc/`.

## The system

| Part | State | Operations | Hard behaviour | What makes it correct | Modules |
| --- | --- | --- | --- | --- | --- |
| Job queue (`repository/postgres/broker.go`, `port/adapters.go`) | `evaluation_jobs`: topic, payload, attempt, `leased_until`, `available_at` | Publish, Consume, Ack, Nack, ExtendLease (never called) | leases lapse under a live worker, redelivery, backoff, attempts limit | work takes effect once; a row leaves with effect, with a record, or because its version was judged already; deliveries bounded | `EvaluationJobs`, `Broker`, `AtLeastOnceQueue` |
| Evaluator (`cmd/evaluator/main.go`) | the batch in hand | drain | crashes, a row gone by the time it is acked or nacked | every job ends | `Broker` |
| Evaluation pipeline (`service/evaluation.go`, `repository/postgres/evaluation.go`) | `evaluations`, `pr_skill_scores`, `evaluation_dead_letters`, `rubric_sweeps` | Process, deadLetter, Sweep, closeDrainedSweep | minutes between reading a claim and writing its judgement; the rubric moves meanwhile | a job is judged into the record once | `ClaimPipeline` |
| Claims (`service/claim.go`, `repository/postgres/claim.go`, `domain/claim.go`) | `claims`, `claim_skills`, `claim_pr_evidence` | Create, Replace, Set*, Submit, Withdraw(Preview), DecideSuggestion | every request reads through the pool and writes in a later transaction | the seven-day lock; submissions not lost | `ClaimPipeline` |
| Standings and pair links (`repository/postgres/skill.go`) | `user_skill_pr_links`, `user_skills` | LinkPairs, SetLinkStatus, LinkJudgedEvidence, UnlinkClaim, ConflictingPairs, RecomputeStanding | check then insert; counts kept beside the links | a pull request evidences a skill for one claim | `ClaimPipeline` |
| Disputes (`service/reevaluation.go`, `service/admin.go`) | `reevaluation_requests`, cooldowns | Request, Decide | an acceptance publishes a job in its transaction | an accepted dispute is judged again | `ClaimPipeline`, `Scoring` (cooldown) |
| Scoring, rubric and cooldown rules (`scoring/scoring.go`, `domain/scoring.go`) | none | pure functions | missing measures, best five, two boards | more and better evidence never costs | `Scoring` |
| Sessions (`service/auth.go`, `service/access.go`, `repository/postgres/session.go`) | families of refresh tokens | issue, Refresh, DetectReuse, Logout, revoke | concurrent refreshes; revocation against rotation; deadlock | a token is spent once; a revoked family stays dead | `Sessions`, `TokenFamilies` |
| Rosters and redemption (`service/organization.go`, `service/redemption.go`) | roster entries, proofs, usernames, seats | Add, Remove, Start/CompleteRedemption, Resend | removal against redemption, several live proofs | a name has one bearer; a removed person holds no seat | `Organisations`, `Usernames` |
| Onboarding (`service/onboarding.go`) | one form per company and address | submit, verify, revise, decide, expire | decision against expiry and against another form | a company comes to be once and keeps an owner | `Organisations` |
| Workplaces (`service/workplace.go`, `service/location.go`) | kind of workplace, addresses, office requests | add, remove, go remote, ask, decide | addresses removed under roles that are onsite there | a role's place exists; one main office | `Workplaces` |
| Roles and openings (`service/role.go`) | roles with their status, adverts | create, update, open, revise, close, advertise | checks before the transaction | an opened role is frozen; a closed one final | `Hiring` (and `Openings` for what contributors read) |
| Candidates and contact (`service/candidates.go`, `service/contact.go`) | stagings, contact requests | stage, contact, answer, expire | answer against expiry and closing | consent: asked, answered and hired in that order | `Hiring`, `Consent` |
| Profile (`service/profile.go`, `repository/postgres/profile.go`) | the row of work preferences with the dates of two pull requests | save, the verification job | GitHub is asked between the read and the write | a date is of one's own pull request; the first is permanent | `Profiles` |
| Search, boards, sharing, saved searches (`service/discovery.go`, `repository/postgres/search.go`) | availability, share links, saved searches | search, boards, ranks, dossiers, mint and revoke, save and replay | one population, gated in one query and repeated in others | ranks agree; who opted out is nowhere; counts are true | `Discovery`, `Openings`, `DiscoveryRequests` |
| Skill catalogue and its queue (`service/skill.go`, `service/admin.go`) | skills, aliases, proposals | propose, decide | count then insert; two deciders | one entry for one approval; a window that holds | `Catalogue` |
| Scheduled jobs (`service/job.go`, `cmd/jobs`) | the rows of others | verify, expire, remind, delete | overlap with what they expire | | with the rows they change |
| Adapters, controllers, frontend, doubles | none | — | — | what a caller may ask (`controller/`) | `DiscoveryRequests` for discovery |

They meet in Postgres and nowhere else. `ClaimService.Submit`, `AdminService.DecideReevaluation` and
`EvaluationService.Sweep` publish a job in the transaction that makes it necessary; the evaluator
leases it, reads the claim, asks the model, and writes the judgement, the links, the standings, the
claim's status and the ack in one transaction. The contributor edits, submits and withdraws
meanwhile. Discovery reads what the pipeline scored, what the profile says and whom hiring has
staged. Removing somebody from a roster disables their seat and revokes their sessions. The jobs of
`cmd/jobs` run beside the requests on the same rows.

## Modules

| Module | What it is |
| --- | --- |
| `EvaluationJobs` | the table `evaluation_jobs`; one operator per statement on it, and the two ways time changes a row |
| `Broker` | evaluators draining the table: batches, failures, nacks, dead letters, acks of what was judged before, crashes, restarts |
| `AtLeastOnceQueue` | what `port.Broker` promises: the abstract specification of `Broker` |
| `ClaimPipeline` | claims, links, standings, judgements, suggestions, disputes and a sweep, on the same table |
| `Sessions` | sign-in, rotation and revocation, a statement of a transaction at a time |
| `TokenFamilies` | what rotation promises of a family: the abstract specification of `Sessions` |
| `Organisations` | rosters, onboarding forms, independent registration, proofs of an address, seats |
| `Usernames` | what the namespace they share promises: the abstract specification of `Organisations` |
| `Workplaces` | the kind of a workplace, addresses, office requests |
| `Hiring` | roles, adverts, candidates and contact requests, over `Workplaces` |
| `Consent` | what a contributor is promised: the abstract specification of `Hiring` |
| `Profiles` | saves of the work preferences and the verification job |
| `Scoring` | the arithmetic of scores, and of cooldowns, as operators |
| `Discovery` | availability, scores, rubric and staging, and every query over them as an operator; uses `Scoring` |
| `Openings` | the contributor's reading of adverts |
| `DiscoveryRequests` | the handlers: who may ask what; the next-state relation of the three |
| `Catalogue` | skills, their aliases and the queue of proposals |
| `*Properties` | the properties of each, with the inductive invariants and refinement mappings |
| `MC*` | the finite sets and symmetries the runs use |
| `BrokerProofs`, `ClaimPipelineProofs`, `ProfileProofs`, `SessionProofs`, `CatalogueProofs`, `HiringProofs`, `OrganisationProofs`, `DiscoveryProofs` | the theorems |

`Broker` and `ClaimPipeline` both extend `EvaluationJobs`; they are two views of its users. `Broker`
keeps the queue's detail (batches, topics, an evaluator that exits) and forgets what a message does.
`ClaimPipeline` keeps what a message does, takes batches of one, and merges the ways an evaluator
can end. `Hiring` extends `Workplaces`: a role points at addresses, and an address may only go when
no role that is not closed does. `Discovery` extends `Scoring`; `Openings` extends `Discovery`, and
`DiscoveryRequests` both. Scheduled jobs are actions of the module whose rows they change.

### How state and actions correspond to the code

*A transaction is one action* unless the text below says otherwise, and what a request reads
before its transaction is an earlier action that keeps what was read in the request's record.
Where the transaction reads everything again under a lock, the request is one action. Operators
have the names of the functions, repository methods or service methods they stand for.

*Queue.* The queue's statements compare `leased_until` and `available_at` with `now()` and order by
`available_at`. The model keeps the two comparisons (`leased`, `due`) and the order (`ahead`).
`LeaseLapses` and `BackoffEnds` are the clock passing; rows inserted by one transaction share one
`now()` and are unordered. The seven-day lock is a Boolean that `LockExpires` lowers.

*Evaluators.* A message asks for a claim in the version it was published for (`Subject`); `Batches` are
those one transaction may publish. The rubric is left to `ClaimPipeline`: here a version that is judged
may be judged again or be acked. `Work` is a delivery in hand: `Complete` commits its work and the ack,
stamped with the version the claim has by then (`RecordEvaluation`, any); `AckJudged` acks a version
that is judged already with no work and no record (`service/evaluation.go:78`), as the job of every
accepted dispute is; `Park` and the ack that follows are `deadLetter`; the rest is nacks and exits.

*Claims.* `Patch`, `EditAll`, `Submit` and `Withdraw` are the reads of a request, through the pool;
`WriteEdit`/`RefuseEdit`, `Enqueue`/`RefuseTaken`/`MarkInvalid` and `Retire` are its transaction.
`client[k]` holds what was read. `Abandon` is the caller or the API process going away between them.
`Sweep` is split in the same way (`BeginSweep`, `RecordSweep`, `AbandonSweep`). Deciding a suggestion
or a dispute is one transaction and one action.

*Process.* `ReadClaim` reads the claim; `CheckDone` the active rubric and the idempotence check;
`Judge` is enrichment, the model's answer (any) and the fingerprint; `Commit` the transaction.
`AckDone` answers a redelivery, `Refuse` and `AckParked` are the two halves of `deadLetter`, `Fail` a
nack. `MessageOf` is the payload, which carries the version the claim had when it was published: the
check uses it, and the record uses the version that was read. Scores are looked up by position in
the evidence as it is at commit, as the code does; `judged`, what the model was really shown, and
`job` are kept beside them so that properties can speak of them. Neither is a column.

*Sessions.* A request is a process and a step is a *statement*, as READ COMMITTED shows it to the
others. The row lock a statement takes is kept until the transaction ends (`Locked`, `Holding`). The
UPDATEs that revoke range over the rows their snapshot showed (`seen`) and lock them one by one, in
any order (`LockRow`), keeping those they have (`held`) while another transaction has the next: a
replay, a sign-out or a removal can each be one side of a cycle. An INSERT is visible once it is
committed. `Revoke`, `Close` and `Removal` are the ends of the three transactions, when every row is
locked (`Granted`); `Deadlock` is Postgres aborting a transaction of a ring of them that wait for
each other, of any length. `upTo` remembers how many sessions there were when the UPDATE began.
`Expire` is a session running out.

*Organisations.* A username is in `usernames` while it is reserved or carried. A seat, a roster entry,
a form and a proof are rows; the code that was mailed is a proof's identifier. `RemoveFromRoster`
and `ResendVerification` are transactions of requests that read before; a revision spends its code in
one transaction (`Revise`) and is submitted, or lost, in another (`SubmitRevision`, `RevisionLost`);
all other requests read again inside their transaction. `ReleaseUsername` is the guarded release of
`postgres/organization.go`, `Lapse` the end of a code's validity, `ExpireUnproven` the nightly
deletion of the unproven forms whose first code has run out.

*Workplaces and roles.* Every transaction that depends on the kind of workplace locks the
organisation's row before anything else, so it is one action. `ReadDraft`, `ReadToOpen`,
`ReadToPublish` and `ReadToClose` are what an update, an opening, the publication of an advert and a
close read; `Update`, `Open`, `Publish` and `Close` are their writes, under the conditions the UPDATE
statements repeat and no others; `Refused` is any other end of them. `ReadToClose` resolves whom the
close will name (`resolveHires`), and the request keeps the names while candidates answer, are unstaged
or expire; `AskToClose` is the write of a seat that may only ask. A contact request has a status and
whether the address was released; `Lapse` is its thirty days passing and `ExpireStale` the nightly job.
Settings decide who may commit to what (`Permits`, `Commits`); an owner-approval setting turns a close
into a request to close.

*Profiles.* `SaveProfile` reads the stored row and asks GitHub (`verifyPRs`: any pull request's date,
or an outage); `SaveWrites` is the transaction; `SaveFails` any end without it. The job reads its
batch (`VerifyPendingPRs`, oldest row first), and for each row confirms, records or skips; a date is
modelled by the pull request it is of, so that "the date of somebody else's" is a value.

*Scoring.* Hundredths of a point, rounded down where the code divides. Lists are the code's slices.

*Discovery.* Every answer is an operator over one snapshot, and every answer to every caller is
evaluated in every state: there is no state between a question and its answer. In the code the page,
its counts and its ranks are one statement, while `Search` reads the active rubric and the version of
unversioned scores before it, and afterwards the skills of the people on it and, for an empty page,
the counts again, each as a statement of its own through the pool; what commits between them is not
modelled. Where `ORDER BY` leaves ties, the answer is any of those `LIMIT` and `OFFSET` may give
(`Pages`): an advert list orders by the moment of opening alone, and a board is cut to one page
(`Boards`), so `Leaderboard` and `Matching` are sets of answers. `rankedPopulation`,
`visible` and `counts` are the common table expressions of `search.go`; `readiness` and `ClearsBar`
are the parts of them that `service/discovery.go`, `service/profile.go` and `opening.go` repeat.
Free-text criteria are sets of what people state; ages are `window` states of availability.
`DiscoveryRequests` is the handlers' checks (`require`, `MayAsk`, the forms refused) before them.

*Catalogue.* `RequestSkill`, `CountRequests` and `RecordRequest` are the three statements of a
proposal, each of which may be the last; `DecideSkillRequest`, `ApproveRequest`, `RejectRequest` and
`DecisionConflicts` those of a decision. `Norm` and `Fold` say which terms are one name to the
matching of proposals, and to the alias index.

*Idealised.* Outside `Sessions` a transaction is one step. Postgres runs READ COMMITTED, so two
statements of one transaction can see different states; where that matters and is not modelled
(`RecomputeStanding`, `closeDrainedSweep`, two sweeps at once) it is listed as a hazard and planned.
Publishing orders rows by commit rather than by the transaction's start. The model answers every
active skill for every pull request (score above zero or not); an answer that leaves pairs out is one
that scores them not at all, except that the code then leaves the link pending. Supporting projects,
nominations, cooldowns and the other contributors are not kept in `ClaimPipeline`.

## Runs

All bounds are CONSTANTS of the `.cfg` files.

| Run | Instance | Shows |
| --- | --- | --- |
| `broker` | 2 workers, batch 2, 2 jobs of 1 claim in 2 versions, 2 attempts, fair | `TypeOK`, `CommittedOnce`, `NothingDiscarded`, `SpendIsCounted`; `Broker` implements `AtLeastOnceQueue`; `EveryJobEnds` |
| `pipeline_edits` | 1 claim, 1 skill, 2 pull requests, 2 jobs, 1 attempt, versions to 2 | `TypeOK`, `FirstSubmissionNotLost`, `LockedEvidenceFrozen` |
| `pipeline_work` | 2 workers, 1 job, 2 attempts, 2 rubrics, fair | `OneEvaluationPerJob`, `EverySubmissionEnds` |
| `pipeline_rivals` | 2 claims, 2 skills, 2 requests in flight, 1 worker | `PairsNotStolen` |
| `sessions` | a contributor and a seat, 2 requests at a time, 3 sessions, fair | `TypeOK`, `OneUnspentToken`, `SurvivorsAreNew`; `Sessions` implements `TokenFamilies`; `RequestsEnd`: transactions that hold some of their rows and wait for others end all the same |
| `organisations` | 3 usernames, 1 company, 1 address, 2 entries, 2 forms, 3 codes, 2 requests | `TypeOK`, `NameHeldOnce`, `RemovedEndsSeat`, `OrganisationsStand`; the three doors implement `Usernames` |
| `workplaces` | 3 addresses, 2 office requests, 2 roles, 2 requests | `OfficeHasMain`, `RolesHaveAPlace`, `OpenRoleImmutable` |
| `hiring` | 1 role with its advert, closed twice, a close's read apart from its commit, an owner who is a contributor herself and a member, all settings, 2 requests, fair | `TypeOK`, `HiresRecorded`; `Hiring` implements `Consent`; `ContactsEnd` |
| `profiles` | 2 contributors, 3 pull requests, 2 saves at once of 3, a batch of 2, fair | `DatesAreTheirs`, `FirstPRIsPermanent`, `PendingIsVerified`; and, as an assumption TLC evaluates at the start, the four statements of `ScoringProperties` |
| `discovery` | 3 contributors, 3 hirers (one shares an account with a contributor, one may not hire yet), 7 search forms, 4 adverts that are well formed and 2 that are refused, two opened at one moment, pages and boards of 2, 2 links, 2 rubrics | `RanksAgree`, `OptedOutIsNowhere`, `FindableIsFound`, `CountsAreKept`, `MoreNeverCosts` |
| `catalogue` | 2 contributors with 3 pages, 2 administrators, 4 spellings, 4 proposals, a window of 2 | `DecisionsStand`, `WindowHolds` |
| `closed_role` | 1 owner, 2 requests | `ClosedIsFinal` is violated, see below |

### Bounds

Two workers and two attempts are the least with which a job is in two hands at once and with which a
lease lapses, is taken again and the attempts run out; two jobs with a batch of two are the least with
which a lease lapses on a message that still waits in its batch, and two versions of one claim with
which the job of one can find it judged or stamped with the other. One claim with two jobs can be judged,
edited and judged again, or disputed. Two lists of one pull request each are the least edit that
changes what was judged. Two claims on one pair are the least conflict. The CONSTRAINT of
`pipeline_rivals` (`RivalsThenEvaluates`) does not follow a path on which a claim is disputed, invalid
or withdrawn any further, and keeps the worker at rest while both requests are in progress; the
accepted suggestion that takes a pair from a rival is rather in the theorem `PairsStay`, which holds
for every number of everything.

Three sessions are the least with which a family of two can be replayed while another family of the
same account is signed out, and two requests the least with which each can hold a row the other waits
for: two replays of one family with a spent and an unspent session, or a replay and the removal of its
seat. Three names and two entries, two forms and three codes let one name be offered, released, wanted
by another door and taken; one company is enough, because nothing but its name relates two. Three
addresses make a main office and two to remove, one of them the last a role stands at. Two closings let
a role be closed, reopened by the race of `closed_role`, and closed again, which is why `HiresRecorded`
and `RolesHaveAPlace` speak of the first closing. Two contributors with one batch of two let a row that
can never be verified be read ahead of another: `PendingIsVerified` needs the batch to be larger than
the number of such rows, and here it is. Three contributors are the least with a tie and somebody below
it, and pages and boards of two (`MaxPerPage`, `DefaultPerPage`; 50 and 20 in `search.go:33`) the
longest that leave one of three out; the search forms are one for each criterion and ordering, and
those that are refused. `Bounded` of `DiscoveryRequests` explores one aspect at a time (a second
rubric, staging, saved searches, links, reminders) besides what contributors say and score; each is a
separate part of the state, and no query reads two of the last three. Four proposals of a window of two
reach both the limit and, with two pages of one contributor, the one beyond it.

Identifiers are never given out twice, so the number of them bounds how often something can be done in
a behaviour. Where that makes the model stop (`sessions`, `organisations`, `workplaces`, `hiring`,
`catalogue`, `closed_role`) the `.cfg` says `CHECK_DEADLOCK FALSE`: the system would go on with new
rows. Elsewhere deadlock is checked. Symmetry is declared where no liveness is checked and nothing in
the `.cfg` tells the permuted values apart.

### Fairness

Only of what the code itself repeats or finishes. `broker` and `pipeline_work`: weak fairness of a
live evaluator's loop (`for` in `drain`: it polls, and works what it leased) and of the clock. No
publisher, contributor, administrator or restart is assumed to do anything, and a crash may happen at
any time. In the pipeline a crashed evaluator is replaced at once, so the attempts limit is what makes
`EverySubmissionEnds` true; in the broker the process stays down until restarted and the property
assumes that one of the evaluators stays up. `sessions`: a handler runs its next statement
(`Continues`: weak fairness, whichever statement or row lock that is), and Postgres' deadlock detector
is part of that; nobody is assumed to begin a request. The mutant of `RequestsEnd` has a request wait
for the rows it locked itself, as it would if a revocation ran outside the transaction that found the
token spent.
`hiring`: the expiry job runs ("the same invocation is what a cron entry uses", `cmd/jobs/main.go`)
and thirty days pass. `profiles`: the job runs and works through its batch; strong fairness of
`Confirm` and `Record` says that GitHub answers sometimes when it is asked again and again about one
contributor, not that an outage ends at a given time.

### Where the documents and the code part

One disagreement is a run of the project:

| Run | The sentence | What the code does |
| --- | --- | --- |
| `closed_role` | "A CLOSED ROLE IS FINAL. Only a draft opens." (`service/role.go:252`) | `Open` checks that before its transaction; the UPDATE (`repository/postgres/role.go:311`) takes every role that is not open, so an opening that read the draft reopens a role that was opened and closed meanwhile, and clears its reason |

The others met while modelling are kept as definitions in the `*Properties` modules. They are in no
run; TLC refutes each of them as an INVARIANT or PROPERTY added to the `.cfg` named here, some with
its bounds raised.

| Property (module) | The sentence | What the code does |
| --- | --- | --- |
| `LiveBeforeSweep` (broker) | live before sweep (`cmd/evaluator/main.go:9`) | one queue, ordered by `available_at` |
| `FailureStopsNoWorker` (broker) | a failure does not stop the queue (`main.go:183`) | a row another worker acked makes the nack fail and the process return |
| `AcceptedDisputeIsJudged` (pipeline) | an accepted dispute has its job (`service/admin.go:213`) | the job finds its version already evaluated and is acked unjudged |
| `ScoresOnlyJudgedPRs` (pipeline) | no number for a PR nobody scored (`repository/postgres/claim.go:565`) | scores are matched by position at commit |
| `StandingMatchesLinks` (pipeline) | counts agree with links (`service/claim.go:478`) | only the claim's present skills are recomputed |
| `LockedNotResubmitted` (pipeline) | no resubmission for seven days (RFC-0003:253) | the lock is not read again in the transaction |
| `QueuedEvidenceFrozen` (pipeline) | queued evidence is frozen (RFC-0003:227) | only the lock refuses edits |
| `WithdrawnHoldsNothing` (pipeline) | a withdrawn claim's pairs are released (RFC-0003:231) | a suggestion accepted afterwards links them again |
| `DecisionIsFinal` (pipeline) | a decision is final (`repository/postgres/claim.go:357`) | an evidence edit reinserts the skill undecided |
| `TakenByAnotherClaim` (pipeline) | a conflict means another claim (`service/claim.go:365`) | a resubmission collides with its own links |
| `OpenSweepHasWork` (pipeline) | the worker that empties the queue closes the sweep (`service/evaluation.go:535`) | not when it acks without a judgement |
| `PREditLeavesSkills` (pipeline) | an edit of the PRs leaves the skills (`service/claim.go:153`) | it writes back the skills it read |
| `WithdrawalAsksFirst` (pipeline) | nobody is demoted unasked (RFC-0003:239) | the preview counts other evidence than is released |
| `InertUntilAccepted` (pipeline) | a suggestion is inert until accepted (`domain/claim.go:259`) | suggested twice, it is scored as declared |
| `ExhaustionIsRecorded` (pipeline) | exhaustion dead-letters (RFC-0004:197) | the row stays, unclaimable, and the claim stays queued |
| `RevocationReachesFamily` (sessions) | "the whole family dies" (`service/auth.go`) | the successor a refresh is inserting is not in the UPDATE's snapshot; `SurvivorsAreNew` says exactly what survives |
| `SignOutEndsItsFamily` (sessions) | "a signed-out family ends its access tokens with it" | `Logout` closes a live family of the principal, with two devices perhaps the other one |
| `DetectionRevokes` (sessions) | returning the error "would roll back the revocation … the one outcome detecting reuse exists to prevent" (`service/auth.go:351`) | a replay aborted in a deadlock revokes nothing either, and nobody tries again |
| `DeletedWasUnreachable` (organisations) | "its code is gone … it is unreachable" (`service/job.go:73`) | the form's age decides; a resend gave it a code that works |
| `AdvertisedIsVisible` (closed_role) | an advertised role is one a contributor can see (`controller/roles.go`) | closing leaves the advert published |
| `BoardShowsEveryone` (discovery) | "Boards show EVERYONE" (`service/discovery.go:163`, `repository/postgres/search.go:489`) | the service passes no limit, which the repository turns into `MaxPerPage`: a board is 50 people and has no second page |
| `FindableMeansFound` (discovery) | somebody unscored "appears in no result anywhere", for search's `WHERE overall_score IS NOT NULL` (`service/profile.go:332`) | the query has no such clause (`search.go:45-62`): they are told they are not findable and are found; and during a sweep somebody told they are findable is not found |
| `DatesFollowUrls` (profiles) | the dates follow their URLs | two first saves that overlap leave the link of one beside the date of the other |

Three more are no property of a state. The comment on `Quality` (`scoring/scoring.go`) says that absent
dimensions count as zero; `meanDimension` averages those that are present, so a judgement that omits a
low dimension scores higher, and `BetterWorkNeverCosts` compares judgements with the same dimensions.
The comment at `service/admin.go:139` says that a conflict can only be a request somebody already
decided, the collisions having been ruled out: they were ruled out before the transaction, and an entry
created since collides as well, so an administrator may be told "already decided" of a request that is
pending; `DecisionsStand` states both readings. And the adverts' page
(`repository/postgres/opening.go:330`) orders by `opened_at` alone under `LIMIT` and `OFFSET`: of two
roles opened at one moment one may be on two pages and the other on none, which is why `CountsAreKept`
promises a page to each advert only where the moments differ.

## Proofs

`BrokerProofs` begins with a lemma for each statement on the job table: that it keeps the table's
type, and what it does to `state`, `attempt` and the other rows. It proves, for any sets of jobs and
workers (workers finite), any batch size and any number of attempts:

1. `BrokerTypes`: `Spec => []TypeOK`. That `attempt` stays within `0 .. MaxAttempts` is the content.
2. `QueueIsSound`: `Spec => []QueueInvariant`. `CommittedOnce` is not inductive alone: a commit needs
   its row, so a second commit is excluded by committed work having left no row, for which an unused
   identifier must have no history (`UnusedIsBlank`). `NothingDiscarded` needs to know that a worker
   about to ack a dead letter has written it (`HandsAreFull`), since that ack looks at no record; and
   that a judged version stays judged.
3. `WorkCommittedOnce`, `NoMessageDiscarded`: its two conjuncts that matter.
4. `DeliveriesBoundSpend`: `Spec => []SpendIsCounted`. Leasing adds at most one hand and exactly one
   attempt; dead-lettering turns a hand into a record. It uses finiteness of the set of workers.
5. `BrokerImplementsQueue`: `Spec => DeliversAtLeastOnce`. Publishing maps to `Accept`, leasing to
   `Deliver`, `Complete` to `TakeEffect`, `Park` to `PutOnRecord`, the ack of a dead letter to `GiveUp`
   or a stutter, `AckJudged` to `Dismiss`, which the abstract queue allows of what is done already,
   under whatever message; nacks, crashes and the clock are stutters. It uses `QueueInvariant`.

`ClaimPipelineProofs` proves, for any claims, skills, jobs, workers and requests in flight (the pull
requests are finitely many, so that a standing is a number), and any bounds:

6. `PipelineTypes`: `Spec => []TypeOK`. Types alone are not inductive: a request writes what it read,
   so `InFlight` says that what each request, sweep and delivery holds was read before it is used.
   `RowsKept` is what every step does to the queue (`PublishKept`, `AckKept`, `OtherKept`), and the
   frame lemmas (`RequestFrame`, `DecisionFrame`, `SweepFrame`, `WorkerFrame`, `ClockFrame`) what each
   part of the system leaves alone; later proofs use them instead of the actions.
7. `JudgedOnce`: `Spec => []OneEvaluationPerJob`. Recorded jobs are off the queue, a commit needs its
   row, so a commit is of a job not yet recorded. That the check before judging (`AlreadyEvaluated`)
   is not what makes it true shows in the proof, which never uses it.
8. `SubmissionsKept`: `Spec => []FirstSubmissionNotLost`. A row leaves the queue by one of three acks;
   `AcksAreExcused` says that an ack that writes no evaluation is of a claim judged already or of a
   job with a dead letter (`RowLeaves`), and `WaitsWithJob` that a claim comes to wait only in a
   transaction that publishes.
9. `LockIsHonoured` and `PairsStay`: the action properties `LockedEvidenceFrozen` and `PairsNotStolen`,
   from the invariant, one case for each transaction that writes claims or links.

`PipelineIsSound` is the inductive invariant (`PipelineInvariant`) under 7 to 9.

`ProfileProofs` proves, for any contributors, pull requests and forms, any number of saves in flight
and any batch:

10. `ProfilesAreSound`: `Spec => []ProfileInvariant`. `DatesAreTheirs` is not inductive: a save writes
    dates it read earlier. `EvidenceInFlight` says of every save, and of the job, that what it carries
    is of the pull requests of the one it will be written for, and of the links it is written with.
    `UpsertKeeps` and `DatesKeep` are the two statements on a row; the actions use only them.
11. `DatesAreOwn` and `FirstPRStays`: the run's `DatesAreTheirs` and `FirstPRIsPermanent`.

`SessionProofs` proves, for any accounts and any finite set of requests, each a statement at a time:

12. `TokensAreSpentOnce`: `Spec => []OneUnspentToken`. A cardinality is not inductive to reason with;
    `OneOfTwoSpent` is: of two sessions of one family one is spent. `Rotate` keeps it because it spends
    the row it locked before it inserts the successor, a new family because its name is its own row's
    (`FamiliesAreRooted`: no row is older than the row its family is named by).
13. `RevocationsReach`: the action property `SurvivorsAreNew`. It needs to know of the request that
    ends, across the statements of others, that the rows it collected are all of the family its
    snapshot showed, less those revoked since (`RequestsAreSound`); every statement of another request
    keeps that because rows are only added and only lose rights (`Kept`), and every row lock of its own
    because it takes a row of `seen` and nothing else. The proof uses no lock: locks order the writes,
    they are not what bounds the survivors.
14. `FamiliesAreKept`: `Spec => FamiliesPromise`. `Issue` and `FirstCallback` map to `Open`, `Rotate`
    to `Advance`, `Revoke`, `Close` and `Removal` to `Close` of the families that lose their last live
    session, and everything else to a stutter. `SessionTypes` needs `RoomIsKept`, and that the requests
    are finitely many.

`CatalogueProofs` proves, for any terms, normal forms, users, pages and administrators:

15. `CatalogueDecisionsStand`: `Spec => []DecisionsStand`. The approval's entry is in the catalogue and
    the request approved in one transaction, so `EntriesExplained` is kept; an answer already given
    survives the decisions of others because no decision is taken back and no entry removed.
16. `CatalogueWindowHolds`: `Spec => []WindowHolds`. What is inductive counts the pages that passed the
    check and have not written yet as well (`PlacesAreHeld`): each holds a place already.

`HiringProofs` proves, for any owners, seats, contributors, requests in progress and bounds:

17. `OfficesKeepTheirMain`, `RolesKeepTheirPlace`. A main office is the only one, and a request for an
    office waits alone and only while there is none (`OfficesAreKept`): an approval then makes the
    first main office and leaves no second request to approve. An address goes, and the organisation
    goes remote, under the lock that roles are written under, looking at every role not closed.
18. `HiresStand`: `RowsAreSound` relates the status, the reason, the closings and the people of a role,
    and `HiresAccepted` the people and their answers. A close names people it read earlier:
    `RequestsStand` says of the request in flight that they could be named still, which every other
    action keeps (`ReadsKeepStanding`) because an answer never changes once it is a yes.
19. `OpenedRolesStand`: the action property `OpenRoleImmutable`: an update that read a draft writes only
    where the row still is one. The read proves nothing and is not used.
20. `ConsentIsKept`: `Spec => ConsentPromise`, action by action, the nightly expiry answering any number
    of requests at once. A lapse that only marks a request as old is a stutter.

`OrganisationProofs` proves, for any names, slugs, addresses, requests in progress and bounds:

21. `NamesAreHeldOnce`: `Spec => []NameHeldOnce`. Inductive is the equivalence `NamesAreHeld`: a name
    is in the table exactly when one offer, one form or one seat has a claim to it. One direction makes
    the next reservation safe, the other the guarded release (`ReleaseUsername`).
22. `SeatsEndWithEntries`: `Spec => []RemovedEndsSeat`. A removal acts on what it read of the entry, so
    the invariant says of it that the entry is there still and, if it was redeemed, by the same seat
    (`RequestsAreSound`), and that an entry and its seat name each other (`RosterIsKept`,
    `SeatsAreSound`).
23. `OrganisationsDoStand`: one company per name, an owner who can sign in, and nobody told they may
    hire who may not. `CompaniesAreKept` names the owner no roster entry is of; that a form's owner is
    no other form's (`FormsAreSound`) is what an approval rests on.
24. `NamesAreKept`: `Spec => NamesPromise`. The bearer of a name is the singleton of the entry, the form
    or the seat it was reserved for, and the empty set before, so that the mapping chooses nothing;
    that a reservation makes it a singleton is part of each step's lemma (`AddReserves`,
    `VerifyReserves`, `RegistrationSeats`), and not assumed.

`DiscoveryProofs` proves, for any contributors, hirers, dossiers, adverts, searches and pages:

25. `WhoLeftIsNowhere`: `Spec => []OptedOutIsNowhere`. Every query reads `rankedPopulation` or one of its
    three fields, and a link shows what the dossier does. That two links do not both show somebody is
    `OneLiveLink`: minting revokes the one before it in the same transaction.
26. `WhoIsFindableIsFound`: `Spec => []FindableIsFound`. A search without filters asks for the window
    and the rubric; of the four things readiness reports, three are asked for by it and the fourth, the
    missing score, is not (`FindableMeansFound` above), which the theorem states as it is. To be
    eligible is not to be on a page: the proof counts how many come before somebody in the order, that
    it is fewer than there are people, and that the pages up to the number of people hold all these
    places. For an advert, its bar is the conjunction of the minimums of the searches in `PartsOf`.
27. `EveryCountIsKept`: `Spec => []CountsAreKept`. Ordered by rank and then by name, the people
    found take the places from 0 up to their number, one each (`PlacesAreTaken`), so the pages
    partition what was counted. Two people of one rank and one name have no order between them
    (search.go:286), and different pages may then show one of them twice and the other never: the
    part about pages supposes names that differ (`NamesDiffer`); the part about the toggles does
    not. Of adverts it proves, for every page `Pages` allows, the counts and how many are shown, and
    that each is on a page of its own where no two were opened at one moment (`MomentsDiffer`).
28. `RanksAgreeEverywhere`: `Spec => []RanksAgree`. A board's field is those of the ranked population
    with a score, and whoever has none is above nobody; a place on the board differs from a rank by
    ties. The board is the first page of its field: whoever it leaves out has a full page of others at
    least as good, and whoever ranks within a page has everybody above them on it, so that the rank can
    be read off the board. The three fields of a skill contain each other, and so do the sets above
    somebody in them.

`SessionsAreSound`, `CatalogueIsSound`, `HiringIsSound`, `OrganisationsAreSound` and `DiscoveryIsSound`
are the inductive invariants (`SessionInvariant`, `CatalogueInvariant`, `HiringInvariant`,
`OrganisationInvariant`, `DiscoveryInvariant`), each the type invariant with the parts named above;
`HiringTypes`, `OrganisationTypes` and `SessionTypes` are their first conjuncts, which hold only with
the rest.

The assumptions are `JobConstants`, `BrokerConstants`, `PipelineConstants`, `ProfilesAssumption`,
`SessionsAssumption`, `CatalogueAssumption`, `WorkplacesAssumption`, `HiringAssumption`,
`OrganisationsAssumption`, `DiscoveryAssumption`, `OpeningsAssumption`, `RequestsAssumption` and
`ScoresAssumption`, each declared with its constants and evaluated by TLC in the runs. They say
which constants are numbers, which names are nobody's, and that requests, pages, workers, pull
requests, contributors and adverts are finitely many; nothing about the state. `ScoresAssumption`
differs: it says that the two figures of each dossier are integers or missing, which is what
`Scoring` computes, but by sums over lists of any length, and so by induction over data. TLC
evaluates it for the dossiers of the run.

Only model-checked: all liveness (`EveryJobEnds`, `EverySubmissionEnds`, `RequestsEnd`, `ContactsEnd`,
`PendingIsVerified`), since fairness and ENABLED are out of the prover's reach; `MoreNeverCosts` and the
arithmetic of `Scoring`, which sort and sum lists of any length, and would take induction over data.
The refuted sentences are refuted by counterexample and need no proof.

## Plan

Modelled in this order, each as soon as what it stands on was there: the queue and its evaluators;
the claim pipeline; sessions; organisations; workplaces and hiring; profiles and scoring; discovery;
the catalogue. What is left, in order:

1. `Standings`: `RecomputeStanding`, `SetLinkStatus` and `UnlinkClaim` a statement at a time, two
   transactions on one skill; abstract specification: a standing is the number of links.
2. `RubricSweep`: two administrators, `OpenSweep` and `closeDrainedSweep` at statement granularity.

## Not modelled

*Vendors' APIs* (`adapter/`): any answer, an outage included, is taken where one is asked for.
*HTTP, rendering and the frontend*, doubles, seeds and development data: no state of their own.
*`ExtendLease`*, which has no caller outside tests. *The statuses `validating`, `evaluating` and
`failed`*, declared in `domain/claim.go` and assigned nowhere. *Supporting projects* of a claim, rewritten
as its pull requests are. *Compensation*, one row saved whole. *Norms*: the maxima that popularity is
measured against are the constants of `Scoring`'s inputs. *The rubric's gate on openings* and the
*flagging of overdue roles*, which only sends mail. *Signing of tokens and hashing*, primitives.
*Salaries, texts and processes of roles*; of a role its places, status, people and advert are kept.
*What commits between the statements of one search*: its page with the counts and ranks is one
statement and each write of discovery one row, but the active rubric is read before that statement,
and the skills of the people found, or the counts of an empty page, after it; the model answers from
one snapshot.
