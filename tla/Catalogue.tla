----------------------------- MODULE Catalogue -----------------------------
(***************************************************************************)
(* The skill catalogue and the queue that feeds it (service/skill.go,      *)
(* service/admin.go, postgres/skill.go): contributors propose skills, a    *)
(* proposal that only spells an existing one differently is refused and    *)
(* not counted, the rest are limited by a rolling window, and an           *)
(* administrator turns a proposal into an entry of their own wording or    *)
(* rejects it.  A request and a decision both read before they write, in   *)
(* separate statements.                                                    *)
(***************************************************************************)
EXTENDS Integers, FiniteSets, Sequences

CONSTANTS
  Users, Clients, Owner,   \* contributors, and who is behind each open page
  Admins,
  Terms,             \* spellings, of names and of aliases
  Proposals,         \* those contributors propose
  NoTerm,
  Norm,              \* of each spelling, what is left without case and punctuation
  Fold,              \* of each spelling, the one a case-insensitive index keeps
  Seeds,             \* entries the catalogue starts with
  Entries,           \* entries administrators may type
  SkillRequestLimit,
  MaxRequests,       \* bounds on proposals and on decisions
  MaxDecisions

ASSUME CatalogueAssumption ==
  /\ Owner \in [Clients -> Users] /\ IsFiniteSet(Clients)
  /\ Proposals \subseteq Terms /\ NoTerm \notin Terms
  /\ DOMAIN Norm = Terms /\ DOMAIN Fold = Terms
  /\ Seeds \subseteq [slug : Terms, aliases : SUBSET Terms]
  /\ Entries \subseteq [slug : Terms \cup {NoTerm}, aliases : SUBSET Terms]
  /\ SkillRequestLimit \in Nat \ {0} /\ MaxRequests \in Nat /\ MaxDecisions \in Nat

VARIABLES
  skills,      \* skills and skill_aliases: an entry, and the request it came from
  requests,    \* skill_requests, in the order they were created
  asking,      \* of each page, the proposal in flight
  deciding,    \* of each administrator, the decision in flight or the last answer
  decisions

vars == <<skills, requests, asking, deciding, decisions>>

Seeded == 0     \* the request of an entry that came from none

Nobody == [pc |-> "idle", request |-> Seeded, entry |-> {}, told |-> "nothing"]

ByStatus(status) == {i \in DOMAIN requests : requests[i].status = status}

NamesOf(s) == {s.slug} \cup s.aliases

-----------------------------------------------------------------------------
(* The catalogue                                                           *)

\* (fuzzy matches are left out)
Search(term) == {s \in skills : \E t \in NamesOf(s) : Fold[t] = Fold[term]}

MatchSkill(term) == \E s \in skills : \E t \in NamesOf(s) : Norm[t] = Norm[term]

Has(term) == \E s \in skills : term \in NamesOf(s)

\* The slug is looked up first; spelling by spelling.
CollidesWith(e) ==
  IF Has(e.slug) THEN "slug_taken"
  ELSE IF \E t \in e.aliases : Has(t) THEN "alias_taken" ELSE "free"

\* uq_skills_slug and uq_skill_alias: each its own table, the second by Fold.
Insertable(e) ==
  \A s \in skills :
    /\ s.slug # e.slug
    /\ \A t \in s.aliases, n \in e.aliases : Fold[t] # Fold[n]

CreateSkill(e, i) == skills' = skills \cup {[slug |-> e.slug, aliases |-> e.aliases, request |-> i]}

-----------------------------------------------------------------------------
(* A proposal                                                              *)

RequestsSince(u) == {i \in DOMAIN requests : requests[i].by = u /\ requests[i].recent}

\* (Fault: the request that fills the window is not counted.)
WithinOneMore(u) == Cardinality(RequestsSince(u)) <= SkillRequestLimit

withinRequestLimit(u) == Cardinality(RequestsSince(u)) < SkillRequestLimit

CreateRequest(u, term) ==
  requests' = Append(requests, [by |-> u, term |-> term, status |-> "pending", recent |-> TRUE])

Ask(c, pc, term) == asking' = [asking EXCEPT ![c] = [pc |-> pc, term |-> term]]

Idle == [pc |-> "idle", term |-> NoTerm]

Done(c) == asking' = [asking EXCEPT ![c] = Idle]

\* A duplicate is refused before it is counted.
RequestSkill(c, term) ==
  /\ asking[c].pc = "idle"
  /\ IF MatchSkill(term) THEN Done(c) ELSE Ask(c, "matched", term)
  /\ UNCHANGED <<skills, requests, deciding, decisions>>

CountRequests(c) ==
  /\ asking[c].pc = "matched"
  /\ IF withinRequestLimit(Owner[c]) THEN Ask(c, "counted", asking[c].term) ELSE Done(c)
  /\ UNCHANGED <<skills, requests, deciding, decisions>>

RecordRequest(c) ==
  /\ asking[c].pc = "counted" /\ Len(requests) < MaxRequests
  /\ CreateRequest(Owner[c], asking[c].term)
  /\ Done(c)
  /\ UNCHANGED <<skills, deciding, decisions>>

\* The oldest request leaves the rolling window first.
RequestAges ==
  \E i \in DOMAIN requests :
    /\ requests[i].recent /\ \A j \in 1 .. (i - 1) : ~requests[j].recent
    /\ requests' = [requests EXCEPT ![i].recent = FALSE]
    /\ UNCHANGED <<skills, asking, deciding, decisions>>

-----------------------------------------------------------------------------
(* A decision                                                              *)

Tell(a, answer) == deciding' = [deciding EXCEPT ![a].pc = "idle", ![a].told = answer]

catalogueCollision(a, e) == Tell(a, CollidesWith(e))

alreadyDecided(a) == Tell(a, "request_already_decided")

Begin(a, pc, i, e, told) ==
  deciding' = [deciding EXCEPT ![a] = [pc |-> pc, request |-> i, entry |-> e, told |-> told]]

\* An entry is checked against the catalogue before the transaction.
ApproveAs(a, i, e) ==
  IF CollidesWith(e) = "free"
  THEN Begin(a, "approving", i, {e}, "nothing")
  ELSE Begin(a, "idle", i, {e}, CollidesWith(e))

\* The handler: an approval says what the entry is called.  The queue an
\* administrator decides from may be an old one.
DecideSkillRequest(a, i) ==
  /\ deciding[a].pc = "idle" /\ decisions < MaxDecisions
  /\ \/ \E e \in Entries :
          IF e.slug = NoTerm THEN Tell(a, "unknown_skill") ELSE ApproveAs(a, i, e)
     \/ Begin(a, "rejecting", i, {}, "nothing")
  /\ decisions' = decisions + 1
  /\ UNCHANGED <<skills, requests, asking>>

\* (Fault: a decision overwrites the one before it.)
DecideAgain(i, status) == requests' = [requests EXCEPT ![i].status = status]

DecideRequest(i, status) ==
  /\ requests[i].status = "pending"
  /\ requests' = [requests EXCEPT ![i].status = status]

\* The entry and the decision commit together.
ApproveRequest(a) ==
  /\ deciding[a].pc = "approving"
  /\ \E e \in deciding[a].entry :
       /\ Insertable(e)
       /\ CreateSkill(e, deciding[a].request)
       /\ DecideRequest(deciding[a].request, "approved")
  /\ Tell(a, "approved")
  /\ UNCHANGED <<asking, decisions>>

RejectRequest(a) ==
  /\ deciding[a].pc = "rejecting"
  /\ DecideRequest(deciding[a].request, "rejected")
  /\ Tell(a, "rejected")
  /\ UNCHANGED <<skills, asking, decisions>>

\* Any conflict in the transaction is reported as a decision made before.
DecisionConflicts(a) ==
  /\ deciding[a].pc \in {"approving", "rejecting"}
  /\ \/ requests[deciding[a].request].status # "pending"
     \/ \E e \in deciding[a].entry : ~Insertable(e)
  /\ alreadyDecided(a)
  /\ UNCHANGED <<skills, requests, asking, decisions>>

-----------------------------------------------------------------------------
Init ==
  /\ skills = {[slug |-> e.slug, aliases |-> e.aliases, request |-> Seeded] : e \in Seeds}
  /\ requests = <<>>
  /\ asking = [c \in Clients |-> Idle]
  /\ deciding = [a \in Admins |-> Nobody]
  /\ decisions = 0

ClientStep(c) ==
  \/ \E t \in Proposals : RequestSkill(c, t)
  \/ CountRequests(c) \/ RecordRequest(c)

AdminStep(a) ==
  \/ \E i \in DOMAIN requests : DecideSkillRequest(a, i)
  \/ ApproveRequest(a) \/ RejectRequest(a) \/ DecisionConflicts(a)

Next ==
  \/ \E c \in Clients : ClientStep(c)
  \/ \E a \in Admins : AdminStep(a)
  \/ RequestAges

Spec == Init /\ [][Next]_vars
=============================================================================
