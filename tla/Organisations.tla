---------------------------- MODULE Organisations ----------------------------
(***************************************************************************)
(* How a hirer's account comes to be: a form an administrator approves     *)
(* (service/onboarding.go), a roster entry somebody redeems                *)
(* (service/organization.go, service/redemption.go) and an independent     *)
(* registration.  They share the namespace of usernames and the proofs of  *)
(* an address.  A request that reads, and writes in a later transaction,   *)
(* is in progress between the two.                                         *)
(***************************************************************************)
EXTENDS Naturals, Sequences, FiniteSets

CONSTANTS
  Names,         \* usernames
  Slugs,         \* what the name of a company slugifies to
  Emails,        \* addresses
  Nobody,        \* no username
  Independent,   \* the organisation of a hirer who has none
  Requests,      \* requests in progress at one time
  MaxEntries,    \* bound on roster entries
  MaxProofs,     \* bound on proofs
  MaxForms       \* bound on onboarding forms

ASSUME OrganisationsAssumption ==
  /\ MaxEntries \in Nat /\ MaxProofs \in Nat /\ MaxForms \in Nat
  /\ Nobody \notin Names /\ Independent \notin Slugs

VARIABLES
  usernames,      \* hirer_usernames
  organizations,  \* the slugs of the organisations that exist, verified
  seats,          \* hirer_accounts by username, which is unique
  roster,         \* organization_hirer_roster, in creation order
  proofs,         \* email_verifications, in creation order
  forms,          \* organization_onboarding, in creation order
  request         \* what each request in progress has read

vars == <<usernames, organizations, seats, roster, proofs, forms, request>>

NoSeat == [exists |-> FALSE]
SeatRow == [exists : {TRUE}, org : Slugs \cup {Independent}, role : {"owner", "member", "none"},
            entry : 0 .. MaxEntries, disabled : BOOLEAN,
            review : {"none", "pending", "approved", "rejected"}, verified : BOOLEAN]

RosterRow == [org : Slugs, email : Emails, username : Names, role : {"owner", "member"},
              redeemedBy : Names \cup {Nobody}, removed : BOOLEAN]

\* A proof is deleted with its subject; one that is consumed stays.
ProofRow == [email : Emails, purpose : {"roster", "onboarding"},
             subject : Nat, state : {"outstanding", "consumed", "deleted"},
             expired : BOOLEAN]

FormRow == [slug : Slugs, email : Emails, owner : Names \cup {Nobody}, proven : BOOLEAN,
            decided : {"no", "approved", "rejected"}, supersedes : 0 .. MaxForms,
            firstProof : 1 .. MaxProofs, deleted : BOOLEAN]

Request == [pc : {"idle", "removing", "resending", "revising"},
            id : Nat, seat : Names \cup {Nobody}]
Idle == [pc |-> "idle", id |-> 0, seat |-> Nobody]

Entries == DOMAIN roster
Proofs == DOMAIN proofs
Forms == DOMAIN forms
SeatsHeld == {n \in Names : seats[n].exists}

Seat(o, role, entry, review) ==
  [exists |-> TRUE, org |-> o, role |-> role, entry |-> entry, disabled |-> FALSE,
   review |-> review, verified |-> FALSE]
Owner(o) == Seat(o, "owner", 0, "none")

\* With no organisation, or with one that has been on the platform for a while.
Init ==
  /\ \/ /\ organizations = {} /\ usernames = {}
        /\ seats = [n \in Names |-> NoSeat]
     \/ \E n \in Names, o \in Slugs :
          /\ organizations = {o} /\ usernames = {n}
          /\ seats = [m \in Names |-> IF m = n THEN Owner(o) ELSE NoSeat]
  /\ roster = <<>> /\ proofs = <<>> /\ forms = <<>>
  /\ request = [r \in Requests |-> Idle]

-----------------------------------------------------------------------------
(* Repositories                                                            *)

\* The primary key: an insert of a name that is held is refused.
ClaimUsername(n) == n \notin usernames

\* The foreign keys to hirer_usernames keep a name that a row still carries,
\* but for the entry that is going.
Carried(n, leaving) ==
  \/ seats[n].exists
  \/ \E e \in Entries \ {leaving} : roster[e].username = n /\ ~roster[e].removed
  \/ \E f \in Forms : forms[f].owner = n /\ ~forms[f].deleted

\* (A fault: nothing refers to the name.)
ReleaseUnguarded(n, leaving) == usernames' = usernames \ {n}
ReleaseUsername(n, leaving) == ~Carried(n, leaving) /\ usernames' = usernames \ {n}

\* One entry per address and organisation, redeemed or not.
OnRoster(o, email) ==
  \E e \in Entries : roster[e].org = o /\ roster[e].email = email /\ ~roster[e].removed

AddRosterEntry(o, email, n, role) ==
  /\ ~OnRoster(o, email)
  /\ roster' = Append(roster, [org |-> o, email |-> email, username |-> n, role |-> role,
                               redeemedBy |-> Nobody, removed |-> FALSE])

RosterEntryByEmail(o, email) ==
  {e \in Entries : /\ roster[e].org = o /\ roster[e].email = email
                   /\ roster[e].redeemedBy = Nobody /\ ~roster[e].removed}

\* The delete takes the entry's proofs with it.
WithoutProofs(purpose, gone) ==
  [p \in Proofs |-> IF proofs[p].purpose = purpose /\ proofs[p].subject \in gone
                    THEN [proofs[p] EXCEPT !.state = "deleted"] ELSE proofs[p]]

RemoveRosterEntry(e) ==
  /\ roster' = [roster EXCEPT ![e].removed = TRUE]
  /\ proofs' = WithoutProofs("roster", {e})

Redeemable(e) == roster[e].redeemedBy = Nobody /\ ~roster[e].removed

RedeemRosterEntry(e) ==
  LET n == roster[e].username IN
  /\ Redeemable(e) /\ ~seats[n].exists
  /\ seats' = [seats EXCEPT ![n] = Seat(roster[e].org, roster[e].role, e, "none")]
  /\ roster' = [roster EXCEPT ![e].redeemedBy = n]

Disable(n) == seats' = [seats EXCEPT ![n].disabled = TRUE]

\* Independent hirers are reviewed as themselves.
Independently(n) == [seats EXCEPT ![n] = Seat(Independent, "none", 0, "pending")]

Proof(email, purpose, subject) ==
  [email |-> email, purpose |-> purpose, subject |-> subject,
   state |-> "outstanding", expired |-> FALSE]

Live(p) == proofs[p].state = "outstanding" /\ ~proofs[p].expired

\* The newest live proof of an address, whatever it is for.
Outstanding(email) ==
  {p \in Proofs : /\ proofs[p].email = email /\ Live(p)
                  /\ \A q \in Proofs : proofs[q].email = email /\ Live(q) => q <= p}

Consumed(p) == [proofs EXCEPT ![p].state = "consumed"]

\* A form supersedes at most one other, which nothing else supersedes.
SubmitForm(slug, email, previous) ==
  /\ previous = 0 \/ \A f \in Forms : forms[f].deleted \/ forms[f].supersedes # previous
  /\ forms' = Append(forms, [slug |-> slug, email |-> email, owner |-> Nobody,
                             proven |-> FALSE, decided |-> "no", supersedes |-> previous,
                             firstProof |-> Len(proofs) + 1, deleted |-> FALSE])
  /\ proofs' = Append(proofs, Proof(email, "onboarding", Len(forms) + 1))

\* (A fault: who the owner will be is not written down.)
ProveAlone(f, n) ==
  /\ ~forms[f].proven /\ forms[f].decided = "no"
  /\ forms' = [forms EXCEPT ![f].proven = TRUE]

Prove(f, n) ==
  /\ ~forms[f].proven /\ forms[f].decided = "no"
  /\ forms' = [forms EXCEPT ![f].proven = TRUE, ![f].owner = n]

Queue == {f \in Forms : forms[f].proven /\ forms[f].decided = "no" /\ ~forms[f].deleted}

\* (A fault: the seat is not the owner's.)
PromoteMember(f) ==
  LET n == forms[f].owner IN
  /\ f \in Queue /\ forms[f].slug \notin organizations /\ ~seats[n].exists
  /\ organizations' = organizations \cup {forms[f].slug}
  /\ usernames' = usernames \cup {n}
  /\ seats' = [seats EXCEPT ![n] = Seat(forms[f].slug, "member", 0, "none")]
  /\ forms' = [forms EXCEPT ![f].decided = "approved"]
Promote(f) ==
  LET n == forms[f].owner IN
  /\ f \in Queue /\ forms[f].slug \notin organizations /\ ~seats[n].exists
  /\ organizations' = organizations \cup {forms[f].slug}
  /\ usernames' = usernames \cup {n}
  /\ seats' = [seats EXCEPT ![n] = Owner(forms[f].slug)]
  /\ forms' = [forms EXCEPT ![f].decided = "approved"]

Reject(f) == f \in Queue /\ forms' = [forms EXCEPT ![f].decided = "rejected"]

\* Unproven, undecided, and older than the window its first proof had.
Stale(f) ==
  /\ ~forms[f].proven /\ forms[f].decided = "no" /\ ~forms[f].deleted
  /\ proofs[forms[f].firstProof].expired

-----------------------------------------------------------------------------
(* Services                                                                *)

Begin(r, pc, id, seat) ==
  /\ request[r].pc = "idle"
  /\ request' = [request EXCEPT ![r] = [pc |-> pc, id |-> id, seat |-> seat]]
  /\ UNCHANGED <<usernames, organizations, seats, roster, proofs, forms>>

End(r) == request' = [request EXCEPT ![r] = Idle]

RoomForProof == Len(proofs) < MaxProofs

requireOwnerOf(n, o) ==
  seats[n].exists /\ ~seats[n].disabled /\ seats[n].org = o /\ seats[n].role = "owner"

AddToRoster(owner, o, email, n, role) ==
  /\ Len(roster) < MaxEntries
  /\ requireOwnerOf(owner, o)
  /\ ClaimUsername(n)
  /\ usernames' = usernames \cup {n}
  /\ AddRosterEntry(o, email, n, role)
  /\ UNCHANGED <<organizations, seats, proofs, forms, request>>

\* The entry is read without its lock.
RosterEntryByID(r, owner, e) ==
  /\ requireOwnerOf(owner, roster[e].org) /\ ~roster[e].removed
  /\ Begin(r, "removing", e, roster[e].redeemedBy)

\* What was read then decides what is undone now; a refused release takes the
\* deletion back with it.
RemoveFromRoster(r) ==
  LET e == request[r].id
      n == roster[e].username IN
  /\ request[r].pc = "removing"
  /\ IF request[r].seat = Nobody
     THEN \/ /\ ReleaseUsername(n, e)
             /\ RemoveRosterEntry(e)
             /\ UNCHANGED seats
          \/ /\ Carried(n, e)
             /\ UNCHANGED <<usernames, roster, proofs, seats>>
     ELSE /\ RemoveRosterEntry(e)
          /\ Disable(request[r].seat)
          /\ UNCHANGED usernames
  /\ End(r)
  /\ UNCHANGED <<organizations, forms>>

StartRedemption(o, email) ==
  /\ RoomForProof /\ o \in organizations
  /\ \E e \in RosterEntryByEmail(o, email) :
       proofs' = Append(proofs, Proof(email, "roster", e))
  /\ UNCHANGED <<usernames, organizations, seats, roster, forms, request>>

CompleteRedemption(p) ==
  /\ proofs[p].purpose = "roster" /\ Live(p)
  /\ proofs' = Consumed(p)
  /\ RedeemRosterEntry(proofs[p].subject)
  /\ UNCHANGED <<usernames, organizations, forms, request>>

\* The outstanding proof is read before the transaction that replaces it.
ReadOutstanding(r, email) ==
  /\ RoomForProof
  /\ \E p \in Outstanding(email) : Begin(r, "resending", p, Nobody)

ResendVerification(r) ==
  LET p == request[r].id IN
  /\ request[r].pc = "resending"
  /\ IF proofs[p].state = "outstanding" /\ RoomForProof
     THEN proofs' = Append(Consumed(p), Proof(proofs[p].email, proofs[p].purpose, proofs[p].subject))
     ELSE UNCHANGED proofs
  /\ End(r)
  /\ UNCHANGED <<usernames, organizations, seats, roster, forms>>

Submit(slug, email) ==
  /\ Len(forms) < MaxForms /\ RoomForProof
  /\ SubmitForm(slug, email, 0)
  /\ UNCHANGED <<usernames, organizations, seats, roster, request>>

Spend(p) ==
  /\ proofs[p].purpose = "onboarding" /\ Live(p)
  /\ proofs' = Consumed(p)

Verify(p, n) ==
  /\ Spend(p)
  /\ ClaimUsername(n)
  /\ usernames' = usernames \cup {n}
  /\ Prove(proofs[p].subject, n)
  /\ UNCHANGED <<organizations, seats, roster, request>>

\* The code is spent in a transaction of its own, and the revision is
\* submitted in another, which may fail or never come.
Revise(r, p) ==
  /\ request[r].pc = "idle"
  /\ Spend(p)
  /\ forms[proofs[p].subject].decided = "rejected"
  /\ request' = [request EXCEPT ![r] = [pc |-> "revising", id |-> proofs[p].subject, seat |-> Nobody]]
  /\ UNCHANGED <<usernames, organizations, seats, roster, forms>>

SubmitRevision(r, slug, email) ==
  /\ request[r].pc = "revising"
  /\ Len(forms) < MaxForms /\ RoomForProof
  /\ SubmitForm(slug, email, request[r].id)
  /\ End(r)
  /\ UNCHANGED <<usernames, organizations, seats, roster>>

RevisionLost(r) ==
  /\ request[r].pc = "revising"
  /\ End(r)
  /\ UNCHANGED <<usernames, organizations, seats, roster, proofs, forms>>

\* A rejection mints the code its revision will spend.
Decide(f, approve) ==
  /\ IF approve
     THEN Promote(f) /\ UNCHANGED proofs
     ELSE /\ RoomForProof /\ Reject(f)
          /\ proofs' = Append(proofs, Proof(forms[f].email, "onboarding", f))
          /\ UNCHANGED <<usernames, organizations, seats>>
  /\ UNCHANGED <<roster, request>>

ExpireUnproven ==
  LET stale == {f \in Forms : Stale(f)} IN
  /\ stale # {}
  /\ forms' = [f \in Forms |-> IF f \in stale THEN [forms[f] EXCEPT !.deleted = TRUE] ELSE forms[f]]
  /\ proofs' = WithoutProofs("onboarding", stale)
  /\ UNCHANGED <<usernames, organizations, seats, roster, request>>

Register(n) ==
  /\ ClaimUsername(n)
  /\ usernames' = usernames \cup {n}
  /\ seats' = Independently(n)
  /\ UNCHANGED <<organizations, roster, proofs, forms, request>>

DecideVerification(n, approve) ==
  /\ seats[n].exists /\ seats[n].review = "pending"
  /\ seats' = [seats EXCEPT ![n].review = IF approve THEN "approved" ELSE "rejected",
                            ![n].verified = approve]
  /\ UNCHANGED <<usernames, organizations, roster, proofs, forms, request>>

\* The clock: every proof has the same window, so they expire in their order.
Lapse ==
  \E p \in Proofs :
    /\ ~proofs[p].expired
    /\ \A q \in Proofs : q < p => proofs[q].expired
    /\ proofs' = [proofs EXCEPT ![p].expired = TRUE]
    /\ UNCHANGED <<usernames, organizations, seats, roster, forms, request>>

-----------------------------------------------------------------------------
(* What a seat may do, and what it is told                                 *)

RequireHiringCapability(n) ==
  IF seats[n].org = Independent THEN seats[n].verified ELSE seats[n].org \in organizations

\* The status follows the organisation when no review was ever asked for.
Verification(n) ==
  IF seats[n].review # "none" THEN seats[n].review
  ELSE IF seats[n].org \in organizations THEN "approved" ELSE "not_requested"

Next ==
  \/ \E o \in Slugs, email \in Emails :
       StartRedemption(o, email) \/ Submit(o, email)
  \/ \E owner, n \in Names, o \in Slugs, email \in Emails, role \in {"owner", "member"} :
       AddToRoster(owner, o, email, n, role)
  \/ \E p \in Proofs : CompleteRedemption(p) \/ \E n \in Names : Verify(p, n)
  \/ \E f \in Forms, approve \in BOOLEAN : Decide(f, approve)
  \/ \E n \in Names : Register(n) \/ \E approve \in BOOLEAN : DecideVerification(n, approve)
  \/ \E r \in Requests :
       \/ \E owner \in Names, e \in Entries : RosterEntryByID(r, owner, e)
       \/ \E email \in Emails : ReadOutstanding(r, email)
       \/ \E p \in Proofs : Revise(r, p)
       \/ \E o \in Slugs, email \in Emails : SubmitRevision(r, o, email)
       \/ RemoveFromRoster(r) \/ ResendVerification(r) \/ RevisionLost(r)
  \/ ExpireUnproven \/ Lapse

Spec == Init /\ [][Next]_vars
=============================================================================
