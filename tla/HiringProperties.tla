-------------------------- MODULE HiringProperties --------------------------
EXTENDS Hiring

\* Every variable has its type, and every row passes the checks the schema
\* makes of it: closed is having a reason, and nobody is staged and asked.
TypeOK ==
  /\ workplace \in {"office", "fully_remote"}
  /\ addresses \in Seq(AddressRow) /\ Len(addresses) <= MaxAddresses
  /\ officeRequests \in Seq({"pending", "approved", "rejected"})
  /\ roles \in Seq(RoleRow) /\ Len(roles) <= MaxRoles
  /\ settings \in OrgSettings
  /\ advert \in [AllRoles -> {"none", "written", "published", "withdrawn"}]
  /\ staged \in [AllRoles -> SUBSET Users]
  /\ contact \in [AllRoles -> [Users -> ContactRow]]
  /\ request \in [Requests -> Request]
  /\ \A d \in Roles : roles[d].status = "closed" <=> roles[d].reason # "none"
  /\ \A d \in AllRoles : \A u \in staged[d] : contact[d][u] = NoContact

-----------------------------------------------------------------------------
(* Workplaces                                                              *)

\* An organisation with an office has one main office, a fully remote one has
\* no address, and only a fully remote one waits to be given an office,
\* whatever owners and administrators do in between.
OfficeHasMain ==
  /\ \A q \in Undecided : workplace = "fully_remote"
  /\ IF workplace = "office"
     THEN Cardinality({a \in LiveAddresses : addresses[a].main}) = 1
     ELSE LiveAddresses = {}

\* A draft, or a role that is out for the first time, is onsite only where the
\* organisation still is: an address goes, or the organisation goes remote,
\* only when no such role is left.
RolesHaveAPlace ==
  \A d \in Roles : roles[d].status # "closed" /\ roles[d].closings = 0 =>
    \A l \in roles[d].places : l.mode = "onsite" =>
      workplace = "office" /\ l.address \in LiveAddresses

\* What keeps them: a request for an office waits alone, and a main office is
\* the only one.
OfficesAreKept ==
  /\ \A p, q \in Undecided : p = q
  /\ \A q \in Undecided : workplace = "fully_remote"
  /\ workplace = "office" =>
       \E a \in LiveAddresses : \A b \in LiveAddresses : addresses[b].main <=> b = a
  /\ workplace = "fully_remote" => LiveAddresses = {}

-----------------------------------------------------------------------------
(* Roles                                                                   *)

\* What a role says of where the work is never changes once it has been
\* opened, even under an update that read it as a draft.
OpenRoleImmutable ==
  [][\A d \in Roles : roles[d].status # "draft" => roles'[d].places = roles[d].places]_vars

\* The people recorded as hired accepted on this role, a role closed as hired
\* names somebody, and one closed for good as anything else names nobody.
HiresRecorded ==
  \A d \in Roles :
    /\ \A u \in roles[d].hires : contact[d][u].status = "accepted"
    /\ roles[d].reason = "hired" => roles[d].hires # {}
    /\ roles[d].status = "closed" /\ roles[d].closings = 1 /\ roles[d].hires # {} =>
         roles[d].reason = "hired"

\* What keeps them: a role has closed once before anybody is hired on it, is a
\* draft until it is opened, and says why it closed as long as it is.
RowSound(row) ==
  /\ row.status = "closed" <=> row.reason # "none"
  /\ row.status = "draft" => row.closings = 0
  /\ row.status = "closed" => row.closings > 0
  /\ row.closings = 0 => row.hires = {}
  /\ row.reason = "hired" => row.hires # {}
  /\ row.status = "closed" /\ row.closings = 1 /\ row.hires # {} => row.reason = "hired"

RowsAreSound == \A d \in Roles : RowSound(roles[d])

HiresAccepted == \A d \in Roles : \A u \in roles[d].hires : contact[d][u].status = "accepted"

\* A request acts on a role that is there, for none is ever removed; a close
\* names whom it may still name, for a yes is never taken back.
ReadStands(read) ==
  /\ read.pc # "idle" => read.role \in Roles
  /\ read.pc = "closing" => read.why # "none" /\ resolveHires(read.role, read.why, read.who)

RequestsStand == \A r \in Requests : ReadStands(request[r])

\* The comment on service Open says of a closed role that it is final, and the
\* check is made on a read that a close may overtake.
ClosedIsFinal ==
  [][\A d \in Roles : roles[d].status = "closed" => roles'[d].status = "closed"]_vars

\* The controller's role body says that an advertised role is one a contributor
\* can see; closing a role leaves its advert up.
AdvertisedIsVisible == \A d \in Roles : Advertised(d) => d \in liveOpenings

-----------------------------------------------------------------------------
(* People                                                                  *)

Answer(c) ==
  [none |-> "silent", pending |-> "asked", accepted |-> "yes", declined |-> "no",
   expired |-> "late"][c.status]

\* What keeps the promise: a request that was not made says nothing, and an
\* address is out after a yes only.
AnswersAreSound ==
  \A d \in AllRoles, u \in Users :
    /\ contact[d][u].status = "none" => contact[d][u] = NoContact
    /\ contact[d][u].released => contact[d][u].status = "accepted"

HiringInvariant ==
  /\ TypeOK /\ OfficesAreKept /\ RolesHaveAPlace
  /\ RowsAreSound /\ HiresAccepted /\ RequestsStand /\ AnswersAreSound

Promise == INSTANCE Consent WITH
  Jobs <- AllRoles, People <- Users,
  open <- {d \in Roles : roles[d].status = "open"},
  answer <- [d \in AllRoles |-> [u \in Users |-> Answer(contact[d][u])]],
  address <- [d \in AllRoles |-> {u \in Users : contact[d][u].released}],
  hired <- [d \in AllRoles |-> IF d \in Roles THEN roles[d].hires ELSE {}]

\* Requests, answers, the nightly expiry and every change to the role keep the
\* contributor's promise: asked about an open job only, answered once, the
\* address released by a yes alone, and hired only after one.
ConsentPromise == Promise!Spec

\* Nobody is left waiting: a request somebody got is answered or expires, once
\* its thirty days pass and the job runs.
ContactsEnd ==
  \A d \in AllRoles, u \in Users :
    contact[d][u].status = "pending" ~> contact[d][u].status # "pending"
=============================================================================
