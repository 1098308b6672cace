----------------------- MODULE OrganisationProperties -----------------------
(***************************************************************************)
(* What the requests of Organisations must never do.                       *)
(***************************************************************************)
EXTENDS Organisations, FiniteSetsExt

(* Every row is one the schema takes; in particular a form has an owner
   exactly when its address was confirmed. *)
TypeOK ==
  /\ usernames \subseteq Names
  /\ organizations \subseteq Slugs
  /\ seats \in [Names -> SeatRow \cup {NoSeat}]
  /\ roster \in Seq(RosterRow) /\ Len(roster) <= MaxEntries
  /\ proofs \in Seq(ProofRow) /\ Len(proofs) <= MaxProofs
  /\ forms \in Seq(FormRow) /\ Len(forms) <= MaxForms
  /\ \A f \in Forms : forms[f].proven <=> forms[f].owner # Nobody
  /\ request \in [Requests -> Request]

Offers(n) == {e \in Entries : roster[e].username = n /\ Redeemable(e)}
Waiting(n) == {f \in Forms : forms[f].owner = n /\ ~forms[f].deleted /\ forms[f].decided # "approved"}
SeatOf(n) == IF seats[n].exists THEN {<<"seat", n>>} ELSE {}

\* Whom a name is reserved for, or carried by.
Claimants(n) ==
  {<<"entry", e>> : e \in Offers(n)} \cup {<<"form", f>> : f \in Waiting(n)} \cup SeatOf(n)

(* Two offers of one name never stand together, and no name is offered that a
   seat, live or revoked, has: the clash would surface at redemption "to the
   wrong person, after the offer has already been made" (organization.go). *)
NameHeldOnce ==
  \A n \in Names : /\ Cardinality(Claimants(n)) <= 1
                   /\ Claimants(n) # {} => n \in usernames

(* What keeps it: a name is held exactly when one offer, one form or one seat
   has a claim to it. *)
NameSound(n) ==
  /\ \A d, e \in Offers(n) : d = e
  /\ Offers(n) # {} => Waiting(n) = {} /\ ~seats[n].exists
  /\ Waiting(n) # {} => ~seats[n].exists
  /\ n \in usernames <=> Offers(n) # {} \/ Waiting(n) # {} \/ seats[n].exists

NamesAreHeld == \A n \in Names : NameSound(n)

(* A redeemed entry and its seat name each other, and an entry is of a company
   there is: only an owner adds to the roster. *)
RosterIsKept ==
  \A e \in Entries :
    /\ roster[e].org \in organizations
    /\ roster[e].redeemedBy # Nobody =>
         /\ roster[e].redeemedBy = roster[e].username
         /\ seats[roster[e].username].exists /\ seats[roster[e].username].entry = e

(* Nobody is reviewed in a company, and an independent hirer may hire when the
   review says so. *)
SeatSound(n) ==
  /\ seats[n].entry # 0 =>
       seats[n].entry \in Entries /\ roster[seats[n].entry].redeemedBy = n
  /\ IF seats[n].org = Independent
     THEN seats[n].review # "none" /\ (seats[n].verified <=> seats[n].review = "approved")
     ELSE seats[n].review = "none" /\ seats[n].org \in organizations

SeatsAreSound == \A n \in SeatsHeld : SeatSound(n)

(* A form is decided once it is proven, deleted only before that, owned by
   nobody else's owner, and an owner's seat is what an approval makes. *)
FormsAreSound ==
  /\ \A f \in Forms :
       /\ forms[f].deleted \/ ~forms[f].proven => forms[f].decided = "no"
       /\ forms[f].deleted => ~forms[f].proven
       /\ forms[f].decided = "approved" =>
            seats[forms[f].owner].exists /\ forms[f].slug \in organizations
  /\ \A f, g \in Forms : forms[f].owner = forms[g].owner /\ forms[f].owner # Nobody => f = g

(* A code is for an entry or a form there is, and works only while the form
   is. *)
ProofSound(p) ==
  IF proofs[p].purpose = "roster" THEN proofs[p].subject \in Entries
  ELSE /\ proofs[p].subject \in Forms
       /\ proofs[p].state = "outstanding" => ~forms[proofs[p].subject].deleted

ProofsAreSound == \A p \in Proofs : ProofSound(p)

(* What a request in progress has read is still there. *)
RequestSound(q) ==
  /\ q.pc = "removing" =>
       /\ q.id \in Entries
       /\ q.seat # Nobody => roster[q.id].redeemedBy = q.seat
  /\ q.pc = "resending" => q.id \in Proofs
  /\ q.pc = "revising" => q.id \in Forms

RequestsAreSound == \A r \in Requests : RequestSound(request[r])

(* A roster entry that is gone leaves no seat behind that can sign in, also
   when it was redeemed between the owner's read and the deletion. *)
RemovedEndsSeat ==
  \A n \in SeatsHeld : seats[n].entry # 0 /\ roster[seats[n].entry].removed => seats[n].disabled

(* A company always has an owner who can sign in, whoever its owners take off
   the roster. *)
OrganisationHasOwner ==
  \A o \in organizations : \E n \in SeatsHeld : requireOwnerOf(n, o)

\* The forms a company came by, and the owners it had before any form.
Approved(o) == {f \in Forms : forms[f].slug = o /\ forms[f].decided = "approved"}
Founders(o) == {n \in SeatsHeld : /\ seats[n].org = o /\ seats[n].role = "owner" /\ seats[n].entry = 0
                                  /\ ~\E f \in Forms : forms[f].owner = n}

(* Of the forms that name one company only one is ever approved, and none that
   names a company there was before. *)
OneCompanyPerName ==
  \A o \in Slugs : Cardinality(Approved(o)) + Cardinality(Founders(o)) <= 1

(* A seat is told it is approved exactly when it may hire. *)
StatusIsCapability ==
  \A n \in SeatsHeld : Verification(n) = "approved" <=> RequireHiringCapability(n)

(* What a company and its people may rely on: it came to be once, somebody can
   run it, and nobody is told they may hire who may not. *)
OrganisationsStand == OneCompanyPerName /\ OrganisationHasOwner /\ StatusIsCapability

(* What keeps them: one form, or one owner from before, stands for a company,
   and whoever came by the form or was there is owner, off every roster. *)
CompaniesAreKept ==
  /\ \A o \in organizations :
       \E n \in SeatsHeld : requireOwnerOf(n, o) /\ seats[n].entry = 0
  /\ \A o \in Slugs :
       /\ \A f, g \in Approved(o) : f = g
       /\ \A m, n \in Founders(o) : m = n
       /\ Approved(o) # {} => Founders(o) = {}

OrganisationInvariant ==
  /\ TypeOK /\ NamesAreHeld /\ RosterIsKept /\ SeatsAreSound /\ RemovedEndsSeat
  /\ FormsAreSound /\ ProofsAreSound /\ RequestsAreSound /\ CompaniesAreKept

\* Whose a name is: the entry or the form it was reserved for, before there is a
\* seat and after, or the seat that took it at once.
Entered(n) == {e \in Entries : roster[e].username = n /\ (roster[e].redeemedBy # Nobody \/ ~roster[e].removed)}
Formed(n) == {f \in Forms : forms[f].owner = n}
Bearer(n) ==
  {<<"entry", e>> : e \in Entered(n)} \cup {<<"form", f>> : f \in Formed(n)} \cup
  (IF seats[n].exists /\ seats[n].entry = 0 /\ Formed(n) = {} THEN SeatOf(n) ELSE {})

Standing(n) == IF n \notin usernames THEN "free" ELSE IF seats[n].exists THEN "seated" ELSE "reserved"

\* A name has one bearer, or none.
Bearers == {{h} : h \in ({"entry"} \X (1 .. MaxEntries)) \cup ({"form"} \X (1 .. MaxForms)) \cup
                        ({"seat"} \X Names)}

Namespace == INSTANCE Usernames WITH
  NoOne <- {}, Holders <- Bearers,
  standing <- [n \in Names |-> Standing(n)], bearer <- [n \in Names |-> Bearer(n)]

(* Rosters, forms and registrations together keep the promise of the namespace:
   a name is reserved for one seat, only that seat takes it, and a name a seat
   has had is never released. *)
NamesPromise == Namespace!NamesSpec

(* "its code is gone, so it can never be proven ... It is not stale, it is
   unreachable" (job.go): a form that is deleted had no code that worked. *)
DeletedWasUnreachable ==
  [][\A f \in Forms : ~forms[f].deleted /\ forms'[f].deleted =>
       ~\E p \in Proofs : proofs[p].purpose = "onboarding" /\ proofs[p].subject = f /\ Live(p)]_vars

=============================================================================
