----------------------------- MODULE Workplaces -----------------------------
(***************************************************************************)
(* Where an organisation works (service/workplace.go): its kind, its       *)
(* addresses and the requests for an office that administrators decide.    *)
(* Every transaction that depends on the kind locks the organisation's row *)
(* before it reads anything else, so each is one action.  `roles' is here  *)
(* because an address that a draft or an open role points at stays.        *)
(***************************************************************************)
EXTENDS Naturals, Sequences, FiniteSets

CONSTANTS
  Countries,      \* countries a remote entry may name
  Anywhere,       \* no country
  MaxAddresses,   \* bound on addresses, removed ones included
  MaxAsked,       \* bound on office requests
  MaxPlaces       \* bound on the entries of one role

ASSUME WorkplacesAssumption ==
  /\ MaxAddresses \in Nat /\ MaxAsked \in Nat /\ MaxPlaces \in Nat \ {0}
  /\ Anywhere \notin Countries

VARIABLES
  workplace,        \* the kind of the organisation
  addresses,        \* organization_addresses, in creation order
  officeRequests,   \* organization_office_requests, in creation order
  roles             \* roles, in creation order

AddressRow == [main : BOOLEAN, removed : BOOLEAN]

\* What an entry of a request may say, sensible or not.
RoleLocation == [mode : {"remote", "onsite"}, country : Countries \cup {Anywhere},
                 address : 0 .. MaxAddresses]

LiveAddresses == {a \in DOMAIN addresses : ~addresses[a].removed}

Undecided == {q \in DOMAIN officeRequests : officeRequests[q] = "pending"}

ActiveOnsiteRoles(at) ==
  {d \in DOMAIN roles : /\ roles[d].status \in {"draft", "open"}
                        /\ \E l \in roles[d].places : l.mode = "onsite" /\ l.address \in at}

-----------------------------------------------------------------------------
(* What a role may say of where its work is                                *)

RemoteEntry(l) == l.mode = "remote" /\ l.address = 0

OnsiteEntry(l) ==
  /\ l.mode = "onsite" /\ l.country = Anywhere
  /\ workplace = "office" /\ l.address \in LiveAddresses

\* Remote from anywhere, and remote within a country, contradict each other.
Contradict(in) ==
  \E l, m \in in : /\ l.mode = "remote" /\ m.mode = "remote"
                   /\ l.country = Anywhere /\ m.country # Anywhere

resolveLocations(in) ==
  in # {} /\ (\A l \in in : RemoteEntry(l) \/ OnsiteEntry(l)) /\ ~Contradict(in)

-----------------------------------------------------------------------------
(* Owners                                                                  *)

WithAddress(main) == Append(addresses, [main |-> main, removed |-> FALSE])

AddAddress ==
  /\ workplace = "office" /\ Len(addresses) < MaxAddresses
  /\ addresses' = WithAddress(FALSE)
  /\ UNCHANGED <<workplace, officeRequests>>

Stamped(gone) ==
  [a \in DOMAIN addresses |->
     IF a \in gone THEN [addresses[a] EXCEPT !.removed = TRUE] ELSE addresses[a]]

\* (Faults: a draft does not hold its address; the main office goes too.)
RemoveAddressOfDraft(a) ==
  /\ a \in LiveAddresses /\ ~addresses[a].main
  /\ \A d \in ActiveOnsiteRoles({a}) : roles[d].status = "draft"
  /\ addresses' = Stamped({a})
  /\ UNCHANGED <<workplace, officeRequests>>
RemoveAnyAddress(a) ==
  /\ a \in LiveAddresses /\ ActiveOnsiteRoles({a}) = {}
  /\ addresses' = Stamped({a})
  /\ UNCHANGED <<workplace, officeRequests>>

RemoveAddress(a) ==
  /\ a \in LiveAddresses /\ ~addresses[a].main
  /\ ActiveOnsiteRoles({a}) = {}
  /\ addresses' = Stamped({a})
  /\ UNCHANGED <<workplace, officeRequests>>

LeaveEveryAddress ==
  addresses' = Stamped(LiveAddresses) /\ workplace' = "fully_remote"

GoFullyRemote ==
  /\ workplace = "office"
  /\ ActiveOnsiteRoles(1 .. MaxAddresses) = {}
  /\ LeaveEveryAddress
  /\ UNCHANGED officeRequests

\* A second undecided request breaks a unique index.
SubmitRequest ==
  Undecided = {} /\ officeRequests' = Append(officeRequests, "pending")

RequestOffice ==
  /\ workplace = "fully_remote" /\ Len(officeRequests) < MaxAsked
  /\ SubmitRequest
  /\ UNCHANGED <<workplace, addresses>>

-----------------------------------------------------------------------------
(* Administrators                                                          *)

Approve(q) ==
  /\ addresses' = WithAddress(TRUE)
  /\ workplace' = "office"
  /\ officeRequests' = [officeRequests EXCEPT ![q] = "approved"]

RejectOffice(q) ==
  /\ officeRequests' = [officeRequests EXCEPT ![q] = "rejected"]
  /\ UNCHANGED <<workplace, addresses>>

DecideOfficeRequest(q) ==
  /\ q \in Undecided
  /\ \/ RejectOffice(q)
     \/ workplace = "fully_remote" /\ Len(addresses) < MaxAddresses /\ Approve(q)

\* Approved as one or the other, when it was onboarded.
Founded ==
  /\ officeRequests = <<>>
  /\ \/ workplace = "fully_remote" /\ addresses = <<>>
     \/ /\ MaxAddresses > 0 /\ workplace = "office"
        /\ addresses = <<[main |-> TRUE, removed |-> FALSE]>>

WorkplaceStep ==
  \/ AddAddress \/ GoFullyRemote \/ RequestOffice
  \/ \E a \in DOMAIN addresses : RemoveAddress(a)
  \/ \E q \in DOMAIN officeRequests : DecideOfficeRequest(q)
=============================================================================
