------------------------------- MODULE Hiring -------------------------------
(***************************************************************************)
(* The jobs of one organisation (service/role.go), the advert on a job     *)
(* (postgres/opening.go) and the people on it (service/candidates.go,      *)
(* service/contact.go).  A request reads a role, and changes it in a later *)
(* transaction: between the two it is in progress.  Where the transaction  *)
(* checks again all that was read, the request is one action.              *)
(***************************************************************************)
EXTENDS Workplaces

CONSTANTS
  Users,         \* contributors
  Seats,         \* hirers of the organisation
  Owners,        \* those who own it
  Shares,        \* pairs of a hirer and a contributor with one GitHub identity
  Authorities,   \* settings the organisation may choose
  Requests,      \* requests in progress at one time
  MaxRoles,      \* bound on roles
  MaxAdverts,    \* bound on adverts
  MaxClosings    \* bound on how often one role closes

ASSUME HiringAssumption ==
  /\ Owners \subseteq Seats /\ Shares \subseteq Seats \X Users
  /\ MaxRoles \in Nat /\ MaxClosings \in Nat /\ MaxAdverts \in Nat
  /\ Authorities \subseteq {"any_hirer", "draft_and_approve", "owners_only"}

VARIABLES
  settings,   \* organization_settings
  advert,     \* role_openings by role
  staged,     \* role_candidates that nobody has told
  contact,    \* contact_requests by role and contributor
  request     \* what each request in progress has read

vars == <<workplace, addresses, officeRequests, roles, settings, advert, staged, contact, request>>

\* How often a role has closed is not stored: it is what a finding counts.
RoleRow == [status : {"draft", "open", "closed"}, places : SUBSET RoleLocation,
            supersedes : 0 .. MaxRoles, reason : {"none", "superseded", "hired", "other"},
            asked : BOOLEAN, hires : SUBSET Users, closings : 0 .. MaxClosings]

\* A contributor with no request is staged, or not on the role at all.
ContactRow == [status : {"none", "pending", "accepted", "declined", "expired"},
               released : BOOLEAN, lapsed : BOOLEAN]
NoContact == [status |-> "none", released |-> FALSE, lapsed |-> FALSE]

OrgSettings == [create : Authorities, update : Authorities, close : Authorities]

Request == [pc : {"idle", "updating", "opening", "publishing", "closing", "asking"},
            role : 0 .. MaxRoles, places : SUBSET RoleLocation,
            why : {"none", "hired", "other"}, who : SUBSET Users]
Idle == [pc |-> "idle", role |-> 0, places |-> {}, why |-> "none", who |-> {}]

Roles == DOMAIN roles
AllRoles == 1 .. MaxRoles

Init ==
  /\ Founded /\ roles = <<>>
  /\ settings \in OrgSettings
  /\ advert = [d \in AllRoles |-> "none"]
  /\ staged = [d \in AllRoles |-> {}]
  /\ contact = [d \in AllRoles |-> [u \in Users |-> NoContact]]
  /\ request = [r \in Requests |-> Idle]

-----------------------------------------------------------------------------
(* Who may do what with a role                                             *)

Permits(authority, h) == authority = "owners_only" => h \in Owners
Commits(authority, h) == authority # "any_hirer" => h \in Owners

SaveSettings(h, s) ==
  /\ h \in Owners
  /\ settings' = s
  /\ UNCHANGED <<workplace, addresses, officeRequests, roles, advert, staged, contact, request>>

-----------------------------------------------------------------------------
(* Reading the role                                                        *)

Begin(r, pc, d, why, who) ==
  /\ request[r].pc = "idle" /\ d \in Roles
  /\ request' = [request EXCEPT ![r] =
       [pc |-> pc, role |-> d, places |-> roles[d].places, why |-> why, who |-> who]]
  /\ UNCHANGED <<workplace, addresses, officeRequests, roles, settings, advert, staged, contact>>

ReadDraft(r, h, d) ==
  Permits(settings.update, h) /\ roles[d].status = "draft" /\ Begin(r, "updating", d, "none", {})

ReadToOpen(r, h, d) ==
  /\ Commits(settings.create, h) /\ roles[d].status # "closed"
  /\ Begin(r, "opening", d, "none", {})

\* Where nothing is written there is nothing to publish.
ReadToPublish(r, h, d) ==
  /\ Commits(settings.create, h) /\ advert[d] # "none" /\ roles[d].status = "open"
  /\ Begin(r, "publishing", d, "none", {})

Accepted(d) == {u \in Users : contact[d][u].status = "accepted"}

\* (A fault: anybody asked may be named.)
HiresAsked(d, why, who) ==
  /\ who \subseteq {u \in Users : contact[d][u].status # "none"}
  /\ why = "hired" <=> who # {}
resolveHires(d, why, who) ==
  /\ who \subseteq Accepted(d)
  /\ why = "hired" <=> who # {}

\* Whom a close may name is read before its transaction.  Who may stage but
\* not commit has only the request recorded, which names nobody.
ReadToClose(r, h, d, why, who) ==
  /\ roles[d].status = "open" /\ Permits(settings.close, h)
  /\ resolveHires(d, why, who)
  /\ IF Commits(settings.close, h)
     THEN Begin(r, "closing", d, why, who)
     ELSE Begin(r, "asking", d, "none", {})

-----------------------------------------------------------------------------
(* Writing it                                                              *)

Answers(r) == request' = [request EXCEPT ![r] = Idle]

Draft(in, previous) ==
  [status |-> "draft", places |-> in, supersedes |-> previous, reason |-> "none",
   asked |-> FALSE, hires |-> {}, closings |-> 0]

CreateRole(h, in) ==
  /\ Permits(settings.create, h) /\ resolveLocations(in) /\ Len(roles) < MaxRoles
  /\ roles' = Append(roles, Draft(in, 0))
  /\ UNCHANGED <<workplace, addresses, officeRequests, settings, advert, staged, contact, request>>

\* (A fault: only what was read said it was a draft.)
UpdateRead(d, in) == roles' = [roles EXCEPT ![d].places = in]
UpdateDraft(d, in) ==
  roles[d].status = "draft" /\ roles' = [roles EXCEPT ![d].places = in]

Update(r, in) ==
  LET d == request[r].role IN
  /\ request[r].pc = "updating" /\ resolveLocations(in)
  /\ UpdateDraft(d, in) /\ Answers(r)
  /\ UNCHANGED <<workplace, addresses, officeRequests, settings, advert, staged, contact>>

\* What a close writes.  Its request, if somebody asked, stays as it was.
Closed(row, why, who) ==
  [row EXCEPT !.status = "closed", !.reason = why, !.hires = @ \cup who,
              !.closings = @ + 1]

\* A second successor of one role breaks a unique index.
ReviseRole(d, in) ==
  /\ roles[d].status = "open" /\ Len(roles) < MaxRoles /\ roles[d].closings < MaxClosings
  /\ \A e \in Roles : roles[e].supersedes # d
  /\ roles' = Append([roles EXCEPT ![d] = Closed(roles[d], "superseded", {})], Draft(in, d))

Revise(h, d, in) ==
  /\ Permits(settings.update, h) /\ resolveLocations(in) /\ ReviseRole(d, in)
  /\ UNCHANGED <<workplace, addresses, officeRequests, settings, advert, staged, contact, request>>

\* (A fault: what a close wrote stays.)
OpenStatus(d) ==
  roles[d].status # "open" /\ roles' = [roles EXCEPT ![d].status = "open", ![d].asked = FALSE]

\* Whatever was read, the statement opens what is not open.
OpenRole(d) ==
  /\ roles[d].status # "open"
  /\ roles' = [roles EXCEPT ![d].status = "open", ![d].reason = "none", ![d].asked = FALSE]

\* The entries are checked again as they were read.
Open(r) ==
  LET d == request[r].role IN
  /\ request[r].pc = "opening" /\ resolveLocations(request[r].places)
  /\ OpenRole(d) /\ Answers(r)
  /\ UNCHANGED <<workplace, addresses, officeRequests, settings, advert, staged, contact>>

RequestClose(d) == roles[d].status = "open" /\ roles' = [roles EXCEPT ![d].asked = TRUE]

AskToClose(r) ==
  /\ request[r].pc = "asking" /\ RequestClose(request[r].role) /\ Answers(r)
  /\ UNCHANGED <<workplace, addresses, officeRequests, settings, advert, staged, contact>>

\* (A fault: only what was read said it was open; one close overwrites another.)
CloseRead(d, why, who) ==
  LET row == Closed(roles[d], why, who)
      again == roles[d].status = "closed"
  IN
  /\ again \/ roles[d].closings < MaxClosings
  /\ roles' = [roles EXCEPT ![d] = IF again THEN [row EXCEPT !.closings = roles[d].closings] ELSE row]

\* Of what was read, only that the role is open is read again.
CloseRole(d, why, who) ==
  /\ roles[d].status = "open" /\ roles[d].closings < MaxClosings
  /\ roles' = [roles EXCEPT ![d] = Closed(roles[d], why, who)]

Close(r) ==
  /\ request[r].pc = "closing"
  /\ CloseRole(request[r].role, request[r].why, request[r].who) /\ Answers(r)
  /\ UNCHANGED <<workplace, addresses, officeRequests, settings, advert, staged, contact>>

-----------------------------------------------------------------------------
(* The advert                                                              *)

\* Writing the bar publishes nothing, and takes nothing down.
WithBar(d) == advert[d] = "none" /\ advert' = [advert EXCEPT ![d] = "written"]

SaveOpening(h, d) ==
  /\ Permits(settings.create, h)
  /\ WithBar(d) /\ Cardinality({e \in Roles : advert[e] # "none"}) < MaxAdverts
  /\ UNCHANGED <<workplace, addresses, officeRequests, roles, settings, staged, contact, request>>

PublishBar(d) == advert[d] # "none" /\ advert' = [advert EXCEPT ![d] = "published"]

Publish(r) ==
  LET d == request[r].role IN
  /\ request[r].pc = "publishing" /\ PublishBar(d) /\ Answers(r)
  /\ UNCHANGED <<workplace, addresses, officeRequests, roles, settings, staged, contact>>

Withdraw(d) == advert[d] = "published" /\ advert' = [advert EXCEPT ![d] = "withdrawn"]

WithdrawOpening(h, d) ==
  /\ Permits(settings.close, h) /\ Withdraw(d)
  /\ UNCHANGED <<workplace, addresses, officeRequests, roles, settings, staged, contact, request>>

liveOpenings == {d \in Roles : advert[d] = "published" /\ roles[d].status = "open"}

Advertised(d) == advert[d] = "published"

-----------------------------------------------------------------------------
(* The people on it                                                        *)

OnRole(d, u) == u \in staged[d] \/ contact[d][u].status # "none"

AssertNotSelf(h, u) == <<h, u>> \notin Shares

StageCandidate(d, u) ==
  /\ roles[d].status # "closed" /\ ~OnRole(d, u)
  /\ staged' = [staged EXCEPT ![d] = @ \cup {u}]

Stage(h, d, u) ==
  /\ AssertNotSelf(h, u) /\ StageCandidate(d, u)
  /\ UNCHANGED <<workplace, addresses, officeRequests, roles, settings, advert, contact, request>>

\* Who has been told stays.
RemoveCandidate(d, u) == u \in staged[d] /\ staged' = [staged EXCEPT ![d] = @ \ {u}]

Unstage(d, u) ==
  /\ RemoveCandidate(d, u)
  /\ UNCHANGED <<workplace, addresses, officeRequests, roles, settings, advert, contact, request>>

ContactRole(d) ==
  /\ roles[d].status = "open"
  /\ contact' = [contact EXCEPT ![d] = [u \in Users |->
       IF u \in staged[d] THEN [NoContact EXCEPT !.status = "pending"] ELSE @[u]]]
  /\ staged' = [staged EXCEPT ![d] = {}]

Contact(d) ==
  /\ ContactRole(d)
  /\ UNCHANGED <<workplace, addresses, officeRequests, roles, settings, advert, request>>

\* What was asked is answered once: whether it is past its date, or the role
\* has closed, is not looked at.
AnswerOnce(d, u, accept) ==
  /\ contact[d][u].status = "pending"
  /\ contact' = [contact EXCEPT
       ![d][u].status = IF accept THEN "accepted" ELSE "declined", ![d][u].released = accept]

Respond(d, u, accept) ==
  /\ AnswerOnce(d, u, accept)
  /\ UNCHANGED <<workplace, addresses, officeRequests, roles, settings, advert, staged, request>>

\* (A fault: nothing expires.)
StaleNever(d, u) == contact[d][u].status = "pending" /\ FALSE
Stale(d, u) == contact[d][u].lapsed /\ contact[d][u].status = "pending"

\* The job, over every role at once.
ExpireStale ==
  /\ \E d \in Roles, u \in Users : Stale(d, u)
  /\ contact' = [d \in AllRoles |-> [u \in Users |->
       IF Stale(d, u) THEN [contact[d][u] EXCEPT !.status = "expired"] ELSE contact[d][u]]]
  /\ UNCHANGED <<workplace, addresses, officeRequests, roles, settings, advert, staged, request>>

\* Thirty days pass before it is answered.
Lapse(d, u) ==
  /\ contact[d][u].status = "pending" /\ ~contact[d][u].lapsed
  /\ contact' = [contact EXCEPT ![d][u].lapsed = TRUE]
  /\ UNCHANGED <<workplace, addresses, officeRequests, roles, settings, advert, staged, request>>

\* The role has moved on under a request, which is refused.
Refused(r) ==
  /\ request[r].pc # "idle" /\ Answers(r)
  /\ UNCHANGED <<workplace, addresses, officeRequests, roles, settings, advert, staged, contact>>

-----------------------------------------------------------------------------
Sensible == {in \in SUBSET RoleLocation : Cardinality(in) <= MaxPlaces}

Role(h, d) ==
  \/ \E in \in Sensible : Revise(h, d, in)
  \/ SaveOpening(h, d) \/ WithdrawOpening(h, d)
  \/ \E r \in Requests :
       \/ ReadDraft(r, h, d) \/ ReadToOpen(r, h, d) \/ ReadToPublish(r, h, d)
       \/ \E why \in {"hired", "other"}, who \in SUBSET Users : ReadToClose(r, h, d, why, who)

Writes(r) ==
  \/ \E in \in Sensible : Update(r, in)
  \/ Open(r) \/ Publish(r) \/ Close(r) \/ AskToClose(r) \/ Refused(r)

Candidacy(d, u) ==
  \/ \E h \in Seats : Stage(h, d, u)
  \/ Unstage(d, u) \/ Lapse(d, u)
  \/ \E accept \in BOOLEAN : Respond(d, u, accept)

Next ==
  \/ WorkplaceStep /\ UNCHANGED <<roles, settings, advert, staged, contact, request>>
  \/ \E h \in Seats :
       \/ \E s \in OrgSettings : SaveSettings(h, s)
       \/ \E in \in Sensible : CreateRole(h, in)
       \/ \E d \in Roles : Role(h, d)
  \/ \E r \in Requests : Writes(r)
  \/ \E d \in Roles : Contact(d) \/ \E u \in Users : Candidacy(d, u)
  \/ ExpireStale

\* The job runs on a schedule, and thirty days pass.
Fairness ==
  /\ WF_vars(ExpireStale)
  /\ \A d \in AllRoles, u \in Users : WF_vars(Lapse(d, u))

Spec == Init /\ [][Next]_vars /\ Fairness
=============================================================================
