---------------------------- MODULE HiringProofs ----------------------------
(***************************************************************************)
(* That an organisation's offices, its roles and the people hired on them  *)
(* stay sound, and that a contributor's promise is kept, for any hirers    *)
(* and contributors, any settings and any number of addresses, roles,      *)
(* adverts, closings and requests in progress.                             *)
(***************************************************************************)
EXTENDS HiringProperties, FiniteSetTheorems, SequenceTheorems, TLAPS

-----------------------------------------------------------------------------
(* The tables                                                              *)

\* The three tables as functions of their rows.
LEMMA Tables ==
  ASSUME TypeOK
  PROVE  /\ addresses \in Seq(AddressRow) /\ roles \in Seq(RoleRow)
         /\ Len(addresses) \in Nat /\ DOMAIN addresses = 1 .. Len(addresses)
         /\ Len(roles) \in Nat /\ Roles = 1 .. Len(roles) /\ DOMAIN roles = Roles
         /\ Len(officeRequests) \in Nat /\ DOMAIN officeRequests = 1 .. Len(officeRequests)
         /\ \A a \in DOMAIN addresses : addresses[a] \in AddressRow
         /\ \A d \in Roles : roles[d] \in RoleRow
         /\ Roles \subseteq AllRoles
         /\ LiveAddresses \subseteq 1 .. MaxAddresses
<1>1. addresses \in Seq(AddressRow) /\ Len(addresses) <= MaxAddresses BY DEF TypeOK
<1>2. roles \in Seq(RoleRow) /\ Len(roles) <= MaxRoles BY DEF TypeOK
<1>3. officeRequests \in Seq({"pending", "approved", "rejected"}) BY DEF TypeOK
<1>4. Len(addresses) \in Nat /\ DOMAIN addresses = 1 .. Len(addresses) BY <1>1, LenProperties
<1>5. Len(roles) \in Nat /\ DOMAIN roles = 1 .. Len(roles) BY <1>2, LenProperties
<1>6. Len(officeRequests) \in Nat /\ DOMAIN officeRequests = 1 .. Len(officeRequests)
  BY <1>3, LenProperties
<1>7. \A a \in DOMAIN addresses : addresses[a] \in AddressRow BY <1>1, <1>4, ElementOfSeq
<1>8. \A d \in DOMAIN roles : roles[d] \in RoleRow BY <1>2, <1>5, ElementOfSeq
<1>9. DOMAIN roles \subseteq AllRoles BY <1>2, <1>5, HiringAssumption DEF AllRoles
<1>10. LiveAddresses \subseteq 1 .. MaxAddresses
  BY <1>1, <1>4, WorkplacesAssumption DEF LiveAddresses
<1> QED BY <1>1, <1>2, <1>4, <1>5, <1>6, <1>7, <1>8, <1>9, <1>10 DEF Roles

\* An address is added at the end (WithAddress).
LEMMA AddressAdded ==
  ASSUME TypeOK, NEW main \in BOOLEAN, Len(addresses) < MaxAddresses,
         addresses' = WithAddress(main)
  PROVE  /\ addresses' \in Seq(AddressRow) /\ Len(addresses') <= MaxAddresses
         /\ LiveAddresses' = LiveAddresses \cup {Len(addresses) + 1}
         /\ Len(addresses) + 1 \notin LiveAddresses
         /\ \A a \in LiveAddresses : addresses'[a].main <=> addresses[a].main
         /\ addresses'[Len(addresses) + 1].main <=> main
<1> DEFINE row == [main |-> main, removed |-> FALSE]
<1>1. PICK n : n = Len(addresses) + 1 OBVIOUS
<1>2. row \in AddressRow /\ ~row.removed /\ row.main = main BY DEF AddressRow
<1>3. addresses' = Append(addresses, row) BY DEF WithAddress
<1> HIDE DEF row
<1>4. addresses \in Seq(AddressRow) /\ Len(addresses) \in Nat /\ DOMAIN addresses = 1 .. Len(addresses)
  BY Tables
<1>5. /\ addresses' \in Seq(AddressRow) /\ Len(addresses') = n
      /\ \A a \in 1 .. Len(addresses) : addresses'[a] = addresses[a]
      /\ addresses'[n] = row
  BY <1>1, <1>2, <1>3, <1>4, AppendProperties
<1>6. DOMAIN addresses' = 1 .. n BY <1>5, LenProperties
<1>7. LiveAddresses' = LiveAddresses \cup {n} /\ n \notin LiveAddresses
  BY <1>1, <1>2, <1>4, <1>5, <1>6 DEF LiveAddresses
<1>8. Len(addresses') <= MaxAddresses BY <1>1, <1>4, <1>5, WorkplacesAssumption
<1>9. \A a \in LiveAddresses : addresses'[a].main <=> addresses[a].main
  BY <1>4, <1>5 DEF LiveAddresses
<1> QED BY <1>1, <1>2, <1>5, <1>7, <1>8, <1>9

\* An address that goes stays in the table, with the time it went (Stamped).
LEMMA AddressesGo ==
  ASSUME TypeOK, NEW gone, addresses' = Stamped(gone)
  PROVE  /\ addresses' \in Seq(AddressRow) /\ Len(addresses') <= MaxAddresses
         /\ LiveAddresses' = LiveAddresses \ gone
         /\ \A a \in LiveAddresses' : addresses'[a].main <=> addresses[a].main
<1>1. /\ Len(addresses) \in Nat /\ DOMAIN addresses = 1 .. Len(addresses)
      /\ \A a \in DOMAIN addresses : addresses[a] \in AddressRow
  BY Tables
<1>2. \A a \in DOMAIN addresses :
        LET row == [addresses[a] EXCEPT !.removed = TRUE] IN
        row \in AddressRow /\ row.removed
  BY <1>1 DEF AddressRow
<1>3. \A a \in DOMAIN addresses :
        /\ addresses'[a] \in AddressRow
        /\ a \in gone => addresses'[a].removed
        /\ a \notin gone => addresses'[a] = addresses[a]
  BY <1>1, <1>2 DEF Stamped
<1>4. DOMAIN addresses' = DOMAIN addresses BY DEF Stamped
<1>5. addresses' = [a \in 1 .. Len(addresses) |-> addresses'[a]] BY <1>1 DEF Stamped
<1>6. \A a \in 1 .. Len(addresses) : addresses'[a] \in AddressRow BY <1>1, <1>3
<1>7. PICK n : n = Len(addresses) OBVIOUS
<1>8. PICK f : f = addresses' OBVIOUS
<1>9. f = [a \in 1 .. n |-> f[a]] /\ \A a \in 1 .. n : f[a] \in AddressRow
  BY <1>5, <1>6, <1>7, <1>8
<1>10. f \in Seq(AddressRow) /\ n \in Nat BY <1>1, <1>7, <1>9, IsASeq
<1>11. Len(f) \in Nat /\ DOMAIN f = 1 .. Len(f) BY <1>10, LenProperties
<1>12. Len(f) = n BY <1>9, <1>10, <1>11
<1>13. addresses' \in Seq(AddressRow) /\ Len(addresses') <= MaxAddresses
  BY <1>7, <1>8, <1>10, <1>12 DEF TypeOK
<1>14. LiveAddresses' = LiveAddresses \ gone BY <1>3, <1>4 DEF LiveAddresses
<1>15. \A a \in LiveAddresses' : addresses'[a].main <=> addresses[a].main
  BY <1>3, <1>14 DEF LiveAddresses
<1> QED BY <1>13, <1>14, <1>15

\* A request for an office waits at the end of the table (SubmitRequest).
LEMMA RequestWaits ==
  ASSUME TypeOK, officeRequests' = Append(officeRequests, "pending")
  PROVE  /\ officeRequests' \in Seq({"pending", "approved", "rejected"})
         /\ Undecided' = Undecided \cup {Len(officeRequests) + 1}
<1>1. PICK n : n = Len(officeRequests) + 1 OBVIOUS
<1>2. /\ officeRequests \in Seq({"pending", "approved", "rejected"})
      /\ Len(officeRequests) \in Nat /\ DOMAIN officeRequests = 1 .. Len(officeRequests)
  BY Tables DEF TypeOK
<1>3. PICK p : p = "pending" OBVIOUS
<1>4. p \in {"pending", "approved", "rejected"} BY <1>3
<1>5. officeRequests' = Append(officeRequests, p) BY <1>3
<1>6. /\ officeRequests' \in Seq({"pending", "approved", "rejected"}) /\ Len(officeRequests') = n
      /\ \A q \in 1 .. Len(officeRequests) : officeRequests'[q] = officeRequests[q]
      /\ officeRequests'[n] = p
  BY <1>1, <1>2, <1>4, <1>5, AppendProperties
<1>7. DOMAIN officeRequests' = 1 .. n BY <1>6, LenProperties
<1>8. Undecided' = Undecided \cup {n} BY <1>1, <1>2, <1>3, <1>6, <1>7 DEF Undecided
<1> QED BY <1>1, <1>6, <1>8

\* A request for an office is decided (Approve, RejectOffice).
LEMMA RequestDecided ==
  ASSUME TypeOK, NEW q \in Undecided, NEW as \in {"approved", "rejected"},
         officeRequests' = [officeRequests EXCEPT ![q] = as]
  PROVE  /\ officeRequests' \in Seq({"pending", "approved", "rejected"})
         /\ Undecided' = Undecided \ {q}
<1>1. /\ officeRequests \in Seq({"pending", "approved", "rejected"})
      /\ DOMAIN officeRequests = 1 .. Len(officeRequests)
  BY Tables DEF TypeOK
<1>2. q \in DOMAIN officeRequests /\ q \in 1 .. Len(officeRequests) BY <1>1 DEF Undecided
<1>3. officeRequests' \in Seq({"pending", "approved", "rejected"})
  BY <1>1, <1>2, ExceptSeq
<1>4. Undecided' = Undecided \ {q} BY <1>2 DEF Undecided
<1> QED BY <1>3, <1>4

-----------------------------------------------------------------------------
(* The workplace                                                           *)

\* What a change of the workplace leaves alone stays sound.
LEMMA WorkplaceMoves ==
  ASSUME HiringInvariant, UNCHANGED <<roles, settings, advert, staged, contact, request>>,
         workplace' \in {"office", "fully_remote"},
         addresses' \in Seq(AddressRow), Len(addresses') <= MaxAddresses,
         officeRequests' \in Seq({"pending", "approved", "rejected"}),
         OfficesAreKept', RolesHaveAPlace'
  PROVE  HiringInvariant'
<1>1. TypeOK' BY DEF HiringInvariant, TypeOK, Roles
<1>2. RowsAreSound' /\ HiresAccepted' /\ RequestsStand' /\ AnswersAreSound'
  BY DEF HiringInvariant, RowsAreSound, HiresAccepted, RequestsStand, ReadStands, resolveHires,
         Accepted, AnswersAreSound, Roles
<1> QED BY <1>1, <1>2 DEF HiringInvariant

\* Roles keep their places while the office stays and no address of theirs goes.
LEMMA PlacesStay ==
  ASSUME HiringInvariant, UNCHANGED <<roles, workplace>>,
         \A a \in LiveAddresses : a \in LiveAddresses' \/ ActiveOnsiteRoles({a}) = {}
  PROVE  RolesHaveAPlace'
<1> SUFFICES ASSUME NEW d \in Roles, roles[d].status # "closed", roles[d].closings = 0,
                    NEW l \in roles[d].places, l.mode = "onsite"
             PROVE  workplace = "office" /\ l.address \in LiveAddresses'
  BY DEF RolesHaveAPlace, Roles
<1>1. workplace = "office" /\ l.address \in LiveAddresses
  BY DEF HiringInvariant, RolesHaveAPlace
<1>2. roles[d] \in RoleRow BY Tables DEF HiringInvariant
<1>3. roles[d].status \in {"draft", "open"} BY <1>2 DEF RoleRow
<1>4. d \in ActiveOnsiteRoles({l.address}) BY <1>3 DEF ActiveOnsiteRoles, Roles
<1> QED BY <1>1, <1>4

\* Where no draft or open role is onsite, none needs the office.
LEMMA NobodyNeedsIt ==
  ASSUME HiringInvariant, UNCHANGED roles, ActiveOnsiteRoles(1 .. MaxAddresses) = {}
  PROVE  RolesHaveAPlace'
<1> SUFFICES ASSUME NEW d \in Roles, roles[d].status # "closed", roles[d].closings = 0,
                    NEW l \in roles[d].places, l.mode = "onsite"
             PROVE  FALSE
  BY DEF RolesHaveAPlace, Roles
<1>1. l.address \in LiveAddresses BY DEF HiringInvariant, RolesHaveAPlace
<1>2. roles[d] \in RoleRow /\ l.address \in 1 .. MaxAddresses BY <1>1, Tables DEF HiringInvariant
<1>3. roles[d].status \in {"draft", "open"} BY <1>2 DEF RoleRow
<1>4. d \in ActiveOnsiteRoles(1 .. MaxAddresses) BY <1>2, <1>3 DEF ActiveOnsiteRoles, Roles
<1> QED BY <1>4

\* Every step of owners and administrators on the workplace.
LEMMA WorkplaceSteps ==
  ASSUME HiringInvariant, WorkplaceStep,
         UNCHANGED <<roles, settings, advert, staged, contact, request>>
  PROVE  HiringInvariant'
<1>1. TypeOK /\ OfficesAreKept /\ RolesHaveAPlace BY DEF HiringInvariant
<1>2. CASE AddAddress
  <2>1. /\ addresses' \in Seq(AddressRow) /\ Len(addresses') <= MaxAddresses
        /\ LiveAddresses' = LiveAddresses \cup {Len(addresses) + 1}
        /\ Len(addresses) + 1 \notin LiveAddresses
        /\ \A a \in LiveAddresses : addresses'[a].main <=> addresses[a].main
        /\ ~addresses'[Len(addresses) + 1].main
    <3>1. PICK main \in BOOLEAN : main = FALSE OBVIOUS
    <3>2. Len(addresses) < MaxAddresses /\ addresses' = WithAddress(main)
      BY <1>2, <3>1 DEF AddAddress
    <3> QED BY <1>1, <3>1, <3>2, AddressAdded
  <2>2. workplace = "office" /\ UNCHANGED <<workplace, officeRequests>> BY <1>2 DEF AddAddress
  <2>3. Undecided' = Undecided BY <2>2 DEF Undecided
  <2>4. PICK a \in LiveAddresses : \A b \in LiveAddresses : addresses[b].main <=> b = a
    BY <1>1, <2>2 DEF OfficesAreKept
  <2>5. a \in LiveAddresses' /\ \A b \in LiveAddresses' : addresses'[b].main <=> b = a
    BY <2>1, <2>4
  <2>6. OfficesAreKept' BY <1>1, <2>2, <2>3, <2>5 DEF OfficesAreKept
  <2>7. RolesHaveAPlace' BY <2>1, <2>2, PlacesStay
  <2> QED BY <1>1, <2>1, <2>2, <2>6, <2>7, WorkplaceMoves DEF TypeOK
<1>3. ASSUME NEW a \in DOMAIN addresses, RemoveAddress(a) PROVE HiringInvariant'
  <2>1. /\ a \in LiveAddresses /\ ~addresses[a].main /\ ActiveOnsiteRoles({a}) = {}
        /\ addresses' = Stamped({a}) /\ UNCHANGED <<workplace, officeRequests>>
    BY <1>3 DEF RemoveAddress
  <2>2. /\ addresses' \in Seq(AddressRow) /\ Len(addresses') <= MaxAddresses
        /\ LiveAddresses' = LiveAddresses \ {a}
        /\ \A b \in LiveAddresses' : addresses'[b].main <=> addresses[b].main
    BY <1>1, <2>1, AddressesGo
  <2>3. Undecided' = Undecided BY <2>1 DEF Undecided
  <2>4. ASSUME workplace = "office"
        PROVE  \E m \in LiveAddresses' : \A b \in LiveAddresses' : addresses'[b].main <=> b = m
    <3>1. PICK m \in LiveAddresses : \A b \in LiveAddresses : addresses[b].main <=> b = m
      BY <1>1, <2>4 DEF OfficesAreKept
    <3>2. m # a /\ m \in LiveAddresses' BY <2>1, <2>2, <3>1
    <3> QED BY <2>2, <3>1, <3>2
  <2>5. OfficesAreKept' BY <1>1, <2>1, <2>2, <2>3, <2>4 DEF OfficesAreKept
  <2>6. RolesHaveAPlace' BY <2>1, <2>2, PlacesStay
  <2> QED BY <1>1, <2>1, <2>2, <2>5, <2>6, WorkplaceMoves DEF TypeOK
<1>4. CASE GoFullyRemote
  <2>1. /\ ActiveOnsiteRoles(1 .. MaxAddresses) = {} /\ UNCHANGED officeRequests
        /\ addresses' = Stamped(LiveAddresses) /\ workplace' = "fully_remote"
    BY <1>4 DEF GoFullyRemote, LeaveEveryAddress
  <2>2. /\ addresses' \in Seq(AddressRow) /\ Len(addresses') <= MaxAddresses
        /\ LiveAddresses' = LiveAddresses \ LiveAddresses
    <3>1. PICK gone : gone = LiveAddresses OBVIOUS
    <3>2. addresses' = Stamped(gone) BY <2>1, <3>1
    <3> QED BY <1>1, <3>1, <3>2, AddressesGo
  <2>3. Undecided' = Undecided BY <2>1 DEF Undecided
  <2>4. OfficesAreKept' BY <1>1, <2>1, <2>2, <2>3 DEF OfficesAreKept
  <2>5. RolesHaveAPlace' BY <2>1, NobodyNeedsIt
  <2> QED BY <1>1, <2>1, <2>2, <2>4, <2>5, WorkplaceMoves DEF TypeOK
<1>5. CASE RequestOffice
  <2>1. /\ workplace = "fully_remote" /\ Undecided = {} /\ UNCHANGED <<workplace, addresses>>
        /\ officeRequests' = Append(officeRequests, "pending")
    BY <1>5 DEF RequestOffice, SubmitRequest
  <2>2. /\ officeRequests' \in Seq({"pending", "approved", "rejected"})
        /\ Undecided' = {Len(officeRequests) + 1}
    BY <1>1, <2>1, RequestWaits
  <2>3. LiveAddresses' = LiveAddresses BY <2>1 DEF LiveAddresses
  <2>4. OfficesAreKept' BY <1>1, <2>1, <2>2, <2>3 DEF OfficesAreKept
  <2>5. RolesHaveAPlace' BY <2>1, <2>3, PlacesStay
  <2> QED BY <1>1, <2>1, <2>2, <2>4, <2>5, WorkplaceMoves DEF TypeOK
<1>6. ASSUME NEW q \in DOMAIN officeRequests, DecideOfficeRequest(q) PROVE HiringInvariant'
  <2>1. q \in Undecided BY <1>6 DEF DecideOfficeRequest
  <2>2. Undecided = {q} /\ workplace = "fully_remote" /\ LiveAddresses = {}
    BY <1>1, <2>1 DEF OfficesAreKept
  <2>3. CASE RejectOffice(q)
    <3>1. /\ officeRequests' = [officeRequests EXCEPT ![q] = "rejected"]
          /\ UNCHANGED <<workplace, addresses>>
      BY <2>3 DEF RejectOffice
    <3>2. officeRequests' \in Seq({"pending", "approved", "rejected"}) /\ Undecided' = {}
      BY <1>1, <2>1, <2>2, <3>1, RequestDecided
    <3>3. LiveAddresses' = LiveAddresses BY <3>1 DEF LiveAddresses
    <3>4. OfficesAreKept' BY <2>2, <3>1, <3>2, <3>3 DEF OfficesAreKept
    <3>5. RolesHaveAPlace' BY <3>1, <3>3, PlacesStay
    <3> QED BY <1>1, <3>1, <3>2, <3>4, <3>5, WorkplaceMoves DEF TypeOK
  <2>4. CASE Len(addresses) < MaxAddresses /\ Approve(q)
    <3>1. /\ officeRequests' = [officeRequests EXCEPT ![q] = "approved"]
          /\ addresses' = WithAddress(TRUE) /\ workplace' = "office"
      BY <2>4 DEF Approve
    <3>2. officeRequests' \in Seq({"pending", "approved", "rejected"}) /\ Undecided' = {}
      BY <1>1, <2>1, <2>2, <3>1, RequestDecided
    <3>3. /\ addresses' \in Seq(AddressRow) /\ Len(addresses') <= MaxAddresses
          /\ LiveAddresses' = LiveAddresses \cup {Len(addresses) + 1}
          /\ addresses'[Len(addresses) + 1].main
      <4>1. PICK main \in BOOLEAN : main = TRUE OBVIOUS
      <4>2. addresses' = WithAddress(main) BY <3>1, <4>1
      <4> QED BY <1>1, <2>4, <4>1, <4>2, AddressAdded
    <3>4. LiveAddresses' = {Len(addresses) + 1} BY <2>2, <3>3
    <3>5. OfficesAreKept' BY <3>1, <3>2, <3>3, <3>4 DEF OfficesAreKept
    <3>6. \A d \in Roles : roles[d].status # "closed" /\ roles[d].closings = 0 =>
            \A l \in roles[d].places : l.mode # "onsite"
      BY <1>1, <2>2 DEF RolesHaveAPlace
    <3>7. RolesHaveAPlace' BY <3>6 DEF RolesHaveAPlace, Roles
    <3> QED BY <1>1, <3>1, <3>2, <3>3, <3>5, <3>7, WorkplaceMoves DEF TypeOK
  <2> QED BY <1>6, <2>3, <2>4 DEF DecideOfficeRequest
<1> QED BY <1>2, <1>3, <1>4, <1>5, <1>6 DEF WorkplaceStep

-----------------------------------------------------------------------------
(* The requests in progress                                                *)

\* What a read says of its role and of whom it names holds as long as the roles
\* are there and whoever accepted has.
LEMMA ReadsKeepStanding ==
  ASSUME HiringInvariant, Roles \subseteq Roles', NEW read \in Request, ReadStands(read),
         \A d \in Roles, u \in Users :
           contact[d][u].status = "accepted" => contact'[d][u].status = "accepted"
  PROVE  ReadStands(read)'
<1>1. read.pc = "closing" => read.role \in Roles /\ read.who \subseteq Accepted(read.role)
  BY DEF ReadStands, resolveHires
<1>2. read.pc = "closing" => read.who \subseteq Accepted(read.role)'
  BY <1>1 DEF Accepted
<1> QED BY <1>2 DEF ReadStands, resolveHires

\* One request reads a role that is there, or is answered (Begin, Answers).
LEMMA RequestMoves ==
  ASSUME HiringInvariant, NEW r \in Requests, NEW read \in Request, ReadStands(read),
         request' = [request EXCEPT ![r] = read]
  PROVE  /\ request' \in [Requests -> Request]
         /\ \A q \in Requests : ReadStands(request'[q])
<1>1. request \in [Requests -> Request] BY DEF HiringInvariant, TypeOK
<1>2. RequestsStand BY DEF HiringInvariant
<1> QED BY <1>1, <1>2 DEF RequestsStand

\* A request that is answered holds no role any more.
LEMMA RequestAnswered ==
  ASSUME HiringInvariant, NEW r \in Requests, Answers(r)
  PROVE  /\ request' \in [Requests -> Request]
         /\ \A q \in Requests : ReadStands(request'[q])
<1>1. Idle \in Request /\ Idle.pc = "idle" BY HiringAssumption DEF Idle, Request
<1>2. ReadStands(Idle) BY <1>1 DEF ReadStands, Idle
<1> QED BY <1>1, <1>2, RequestMoves DEF Answers

\* What a step leaves alone stays sound when neither the workplace nor a role
\* changes.
LEMMA RolesStay ==
  ASSUME HiringInvariant, UNCHANGED <<workplace, addresses, officeRequests, roles>>,
         settings' \in OrgSettings,
         advert' \in [AllRoles -> {"none", "written", "published", "withdrawn"}],
         staged' \in [AllRoles -> SUBSET Users],
         contact' \in [AllRoles -> [Users -> ContactRow]],
         request' \in [Requests -> Request],
         \A r \in Requests : ReadStands(request'[r]),
         \A d \in AllRoles : \A u \in staged'[d] : contact'[d][u] = NoContact,
         \A d \in AllRoles, u \in Users :
           /\ contact'[d][u].status = "none" => contact'[d][u] = NoContact
           /\ contact'[d][u].released => contact'[d][u].status = "accepted"
           /\ contact[d][u].status = "accepted" => contact'[d][u].status = "accepted"
  PROVE  HiringInvariant'
<1>1. TypeOK' BY DEF HiringInvariant, TypeOK, Roles
<1>2. OfficesAreKept' BY DEF HiringInvariant, OfficesAreKept, Undecided, LiveAddresses
<1>3. RolesHaveAPlace' BY DEF HiringInvariant, RolesHaveAPlace, Roles, LiveAddresses
<1>4. RowsAreSound' BY DEF HiringInvariant, RowsAreSound, RowSound, Roles
<1>5. HiresAccepted'
  <2> SUFFICES ASSUME NEW d \in Roles, NEW u \in roles[d].hires
               PROVE  contact'[d][u].status = "accepted"
    BY DEF HiresAccepted, Roles
  <2>1. d \in AllRoles /\ roles[d] \in RoleRow BY Tables DEF HiringInvariant
  <2>2. u \in Users BY <2>1 DEF RoleRow
  <2>3. contact[d][u].status = "accepted" BY DEF HiringInvariant, HiresAccepted
  <2> QED BY <2>1, <2>2, <2>3
<1>6. RequestsStand'
  <2>1. Roles = Roles' /\ Roles \subseteq AllRoles BY Tables DEF HiringInvariant, Roles
  <2>2. \A d \in Roles, u \in Users :
          contact[d][u].status = "accepted" => contact'[d][u].status = "accepted"
    BY <2>1
  <2> SUFFICES ASSUME NEW r \in Requests PROVE ReadStands(request[r])'
    BY DEF RequestsStand
  <2>3. PICK read \in Request : read = request'[r] OBVIOUS
  <2>4. ReadStands(read)' BY <2>1, <2>2, <2>3, ReadsKeepStanding
  <2> QED BY <2>3, <2>4 DEF ReadStands, resolveHires, Accepted
<1>7. AnswersAreSound' BY DEF AnswersAreSound
<1> QED BY <1>1, <1>2, <1>3, <1>4, <1>5, <1>6, <1>7 DEF HiringInvariant

\* The same where nobody on a role is concerned.
LEMMA PeopleStay ==
  ASSUME HiringInvariant, UNCHANGED <<workplace, addresses, officeRequests, roles, staged, contact>>,
         settings' \in OrgSettings,
         advert' \in [AllRoles -> {"none", "written", "published", "withdrawn"}],
         request' \in [Requests -> Request],
         \A r \in Requests : ReadStands(request'[r])
  PROVE  HiringInvariant'
<1>1. TypeOK /\ AnswersAreSound BY DEF HiringInvariant
<1>2. staged' \in [AllRoles -> SUBSET Users] /\ contact' \in [AllRoles -> [Users -> ContactRow]]
  BY <1>1 DEF TypeOK
<1>3. \A d \in AllRoles : \A u \in staged'[d] : contact'[d][u] = NoContact BY <1>1 DEF TypeOK
<1>4. \A d \in AllRoles, u \in Users :
        /\ contact'[d][u].status = "none" => contact'[d][u] = NoContact
        /\ contact'[d][u].released => contact'[d][u].status = "accepted"
        /\ contact[d][u].status = "accepted" => contact'[d][u].status = "accepted"
  BY <1>1 DEF AnswersAreSound
<1> QED BY <1>2, <1>3, <1>4, RolesStay

\* What a request may read of a role.
Reads(r, h, d) ==
  \/ ReadDraft(r, h, d) \/ ReadToOpen(r, h, d) \/ ReadToPublish(r, h, d)
  \/ \E why \in {"hired", "other"}, who \in SUBSET Users : ReadToClose(r, h, d, why, who)

\* Settings, what a request reads, and what is written of the advert.
LEMMA OfficeWork ==
  ASSUME HiringInvariant, NEW h \in Seats
  PROVE  /\ \A s \in OrgSettings : SaveSettings(h, s) => HiringInvariant'
         /\ \A d \in Roles : SaveOpening(h, d) \/ WithdrawOpening(h, d) => HiringInvariant'
         /\ \A d \in Roles, r \in Requests : Reads(r, h, d) => HiringInvariant'
<1>1. TypeOK BY DEF HiringInvariant
<1>2. /\ settings \in OrgSettings /\ request \in [Requests -> Request]
      /\ advert \in [AllRoles -> {"none", "written", "published", "withdrawn"}]
  BY <1>1 DEF TypeOK
<1>3. \A r \in Requests : ReadStands(request[r]) BY DEF HiringInvariant, RequestsStand
<1>4. Roles \subseteq AllRoles /\ \A d \in Roles : roles[d] \in RoleRow BY <1>1, Tables
<1>5. ASSUME NEW s \in OrgSettings, SaveSettings(h, s) PROVE HiringInvariant'
  <2>1. /\ settings' = s
        /\ UNCHANGED <<workplace, addresses, officeRequests, roles, advert, staged, contact, request>>
    BY <1>5 DEF SaveSettings
  <2>2. \A r \in Requests : ReadStands(request'[r]) BY <1>3, <2>1
  <2> QED BY <1>2, <2>1, <2>2, PeopleStay
<1>6. ASSUME NEW d \in Roles, SaveOpening(h, d) \/ WithdrawOpening(h, d) PROVE HiringInvariant'
  <2>1. UNCHANGED <<workplace, addresses, officeRequests, roles, settings, staged, contact, request>>
    BY <1>6 DEF SaveOpening, WithdrawOpening
  <2>2. \E to \in {"written", "withdrawn"} : advert' = [advert EXCEPT ![d] = to]
    BY <1>6 DEF SaveOpening, WithdrawOpening, WithBar, Withdraw
  <2>3. advert' \in [AllRoles -> {"none", "written", "published", "withdrawn"}]
    BY <1>2, <1>4, <2>2
  <2>4. \A r \in Requests : ReadStands(request'[r]) BY <1>3, <2>1
  <2> QED BY <1>2, <2>1, <2>3, <2>4, PeopleStay
<1>7. ASSUME NEW d \in Roles, NEW r \in Requests, Reads(r, h, d) PROVE HiringInvariant'
  <2>1. \E pc \in {"updating", "opening", "publishing", "closing", "asking"},
           why \in {"none", "hired", "other"}, who \in SUBSET Users :
          /\ Begin(r, pc, d, why, who)
          /\ pc = "closing" => why # "none" /\ resolveHires(d, why, who)
    <3>1. CASE ReadDraft(r, h, d) \/ ReadToOpen(r, h, d) \/ ReadToPublish(r, h, d)
      <4>1. \E pc \in {"updating", "opening", "publishing"} : Begin(r, pc, d, "none", {})
        BY <3>1 DEF ReadDraft, ReadToOpen, ReadToPublish
      <4> QED BY <4>1
    <3>2. ASSUME NEW why \in {"hired", "other"}, NEW who \in SUBSET Users,
                 ReadToClose(r, h, d, why, who)
          PROVE  \/ Begin(r, "closing", d, why, who) /\ resolveHires(d, why, who)
                 \/ Begin(r, "asking", d, "none", {})
      BY <3>2 DEF ReadToClose
    <3>3. CASE \E why \in {"hired", "other"}, who \in SUBSET Users : ReadToClose(r, h, d, why, who)
      BY <3>2, <3>3
    <3> QED BY <1>7, <3>1, <3>3 DEF Reads
  <2> PICK pc \in {"updating", "opening", "publishing", "closing", "asking"},
           why \in {"none", "hired", "other"}, who \in SUBSET Users :
          /\ Begin(r, pc, d, why, who)
          /\ pc = "closing" => why # "none" /\ resolveHires(d, why, who)
    BY <2>1
  <2>2. PICK read : read = [pc |-> pc, role |-> d, places |-> roles[d].places,
                            why |-> why, who |-> who]
    OBVIOUS
  <2>3. /\ request' = [request EXCEPT ![r] = read]
        /\ UNCHANGED <<workplace, addresses, officeRequests, roles, settings, advert, staged, contact>>
    BY <2>2 DEF Begin
  <2>4. roles[d].places \in SUBSET RoleLocation /\ d \in 0 .. MaxRoles
    BY <1>4, HiringAssumption DEF RoleRow, AllRoles
  <2>5. read \in Request /\ ReadStands(read)
    <3>1. read \in Request BY <2>2, <2>4 DEF Request
    <3>2. read.role = d /\ read.pc = pc /\ read.why = why /\ read.who = who BY <2>2
    <3> QED BY <3>1, <3>2 DEF ReadStands
  <2>6. /\ request' \in [Requests -> Request]
        /\ \A q \in Requests : ReadStands(request'[q])
    BY <2>3, <2>5, RequestMoves
  <2> QED BY <1>2, <2>3, <2>6, PeopleStay
<1> QED BY <1>5, <1>6, <1>7

\* The advert goes out, or the request is refused, and the request ends.
LEMMA RequestEnds ==
  ASSUME HiringInvariant, NEW r \in Requests, Publish(r) \/ Refused(r)
  PROVE  HiringInvariant'
<1>1. /\ Answers(r)
      /\ UNCHANGED <<workplace, addresses, officeRequests, roles, settings, staged, contact>>
  BY DEF Publish, Refused
<1>2. /\ request' \in [Requests -> Request]
      /\ \A q \in Requests : ReadStands(request'[q])
  BY <1>1, RequestAnswered
<1>3. advert' = [advert EXCEPT ![request[r].role] = "published"] \/ UNCHANGED advert
  BY DEF Publish, Refused, PublishBar
<1>4. /\ settings \in OrgSettings
      /\ advert' \in [AllRoles -> {"none", "written", "published", "withdrawn"}]
  BY <1>3 DEF HiringInvariant, TypeOK
<1> QED BY <1>1, <1>2, <1>4, PeopleStay

-----------------------------------------------------------------------------
(* The roles                                                               *)

\* A role as it may be written: its row is sound, whom it names as hired
\* accepted, and where it may still be onsite the office is there.
RoleStands(d, row) ==
  /\ RowSound(row)
  /\ \A u \in row.hires : contact[d][u].status = "accepted"
  /\ row.status # "closed" /\ row.closings = 0 =>
       \A l \in row.places : l.mode = "onsite" =>
         workplace = "office" /\ l.address \in LiveAddresses

\* Every role stands.
LEMMA RolesStand == ASSUME HiringInvariant PROVE \A d \in Roles : RoleStands(d, roles[d])
BY DEF HiringInvariant, RowsAreSound, HiresAccepted, RolesHaveAPlace, RoleStands

\* What a step leaves alone stays sound when only roles and requests change.
LEMMA RolesMove ==
  ASSUME HiringInvariant,
         UNCHANGED <<workplace, addresses, officeRequests, settings, advert, staged, contact>>,
         roles' \in Seq(RoleRow), Len(roles') <= MaxRoles, Roles \subseteq Roles',
         \A d \in Roles' : RoleStands(d, roles'[d]),
         request' \in [Requests -> Request],
         \A r \in Requests : ReadStands(request'[r])
  PROVE  HiringInvariant'
<1>1. RowsAreSound' BY DEF RowsAreSound, RoleStands
<1>2. HiresAccepted' BY DEF HiresAccepted, RoleStands
<1>3. RolesHaveAPlace' BY DEF RolesHaveAPlace, RoleStands, LiveAddresses
<1>4. OfficesAreKept' BY DEF HiringInvariant, OfficesAreKept, Undecided, LiveAddresses
<1>5. RequestsStand'
  <2> SUFFICES ASSUME NEW r \in Requests PROVE ReadStands(request[r])' BY DEF RequestsStand
  <2>1. PICK read \in Request : read = request'[r] OBVIOUS
  <2>2. ReadStands(read)' BY <2>1, ReadsKeepStanding
  <2> QED BY <2>1, <2>2 DEF ReadStands, resolveHires, Accepted
<1>6. AnswersAreSound' BY DEF HiringInvariant, AnswersAreSound
<1>7. TypeOK' BY <1>1 DEF HiringInvariant, TypeOK, RowsAreSound, RowSound
<1> QED BY <1>1, <1>2, <1>3, <1>4, <1>5, <1>6, <1>7 DEF HiringInvariant

\* One role is written again, and the request that wrote it, if one did, ends.
LEMMA RoleWritten ==
  ASSUME HiringInvariant, NEW d \in Roles, NEW row \in RoleRow, RoleStands(d, row),
         roles' = [roles EXCEPT ![d] = row],
         UNCHANGED <<workplace, addresses, officeRequests, settings, advert, staged, contact>>,
         request' \in [Requests -> Request],
         \A r \in Requests : ReadStands(request'[r])
  PROVE  /\ HiringInvariant'
         /\ Roles' = Roles /\ roles'[d] = row
         /\ \A e \in Roles : e # d => roles'[e] = roles[e]
<1>1. TypeOK BY DEF HiringInvariant
<1>2. roles \in Seq(RoleRow) /\ d \in 1 .. Len(roles) BY <1>1, Tables
<1>3. roles' \in Seq(RoleRow) /\ Len(roles') = Len(roles) BY <1>2, ExceptSeq
<1>4. Roles' = Roles BY DEF Roles
<1>5. roles'[d] = row /\ \A e \in Roles : e # d => roles'[e] = roles[e] BY <1>2 DEF Roles
<1>6. \A e \in Roles' : RoleStands(e, roles'[e])
  <2> SUFFICES ASSUME NEW e \in Roles PROVE RoleStands(e, roles'[e]) BY <1>4
  <2>1. CASE e = d BY <1>5, <2>1
  <2>2. CASE e # d
    <3>1. roles'[e] = roles[e] BY <1>5, <2>2
    <3> QED BY <3>1, RolesStand
  <2> QED BY <2>1, <2>2
<1>7. HiringInvariant' BY <1>1, <1>3, <1>4, <1>6, RolesMove DEF TypeOK
<1> QED BY <1>4, <1>5, <1>7

\* A role is added at the end of the table, where each of the others stands.
LEMMA RoleAdded ==
  ASSUME HiringInvariant, NEW rows \in Seq(RoleRow), Len(rows) = Len(roles),
         Len(roles) < MaxRoles, \A d \in Roles : RoleStands(d, rows[d]),
         NEW in \in SUBSET RoleLocation, resolveLocations(in),
         NEW previous \in 0 .. MaxRoles,
         roles' = Append(rows, Draft(in, previous)),
         UNCHANGED <<workplace, addresses, officeRequests, settings, advert, staged, contact, request>>
  PROVE  /\ HiringInvariant'
         /\ Roles' = Roles \cup {Len(roles) + 1} /\ Len(roles) + 1 \notin Roles
         /\ \A d \in Roles : roles'[d] = rows[d]
         /\ roles'[Len(roles) + 1] = Draft(in, previous)
<1>1. TypeOK BY DEF HiringInvariant
<1>2. PICK n : n = Len(roles) + 1 OBVIOUS
<1>3. PICK row : row = Draft(in, previous) OBVIOUS
<1>4. row \in RoleRow BY <1>3, HiringAssumption DEF Draft, RoleRow
<1>5. Len(roles) \in Nat /\ Roles = 1 .. Len(roles) BY <1>1, Tables
<1>6. roles' = Append(rows, row) BY <1>3
<1>7. /\ roles' \in Seq(RoleRow) /\ Len(roles') = n
      /\ \A d \in 1 .. Len(rows) : roles'[d] = rows[d]
      /\ roles'[n] = row
  BY <1>2, <1>4, <1>5, <1>6, AppendProperties
<1>8. DOMAIN roles' = 1 .. n BY <1>7, LenProperties
<1>9. Roles' = Roles \cup {n} /\ n \notin Roles BY <1>2, <1>5, <1>8 DEF Roles
<1>10. Len(roles') <= MaxRoles BY <1>2, <1>5, <1>7, HiringAssumption
<1>11. /\ row.status = "draft" /\ row.places = in /\ row.reason = "none"
       /\ row.hires = {} /\ row.closings = 0
  BY <1>3 DEF Draft
<1>12. RoleStands(n, row)
  <2>1. RowSound(row) BY <1>11 DEF RowSound
  <2>2. \A l \in in : l.mode = "onsite" => workplace = "office" /\ l.address \in LiveAddresses
    BY DEF resolveLocations, RemoteEntry, OnsiteEntry
  <2> QED BY <1>11, <2>1, <2>2 DEF RoleStands
<1>13. \A d \in Roles : roles'[d] = rows[d] BY <1>5, <1>7
<1>14. \A d \in Roles' : RoleStands(d, roles'[d])
  <2> SUFFICES ASSUME NEW d \in Roles' PROVE RoleStands(d, roles'[d]) OBVIOUS
  <2>1. CASE d = n BY <1>7, <1>12, <2>1
  <2>2. CASE d # n
    <3>1. d \in Roles BY <1>9, <2>2
    <3>2. roles'[d] = rows[d] BY <1>13, <3>1
    <3> QED BY <3>1, <3>2
  <2> QED BY <2>1, <2>2
<1>15. /\ request' \in [Requests -> Request]
       /\ \A r \in Requests : ReadStands(request'[r])
  BY <1>1 DEF TypeOK, HiringInvariant, RequestsStand
<1>16. Roles \subseteq Roles' BY <1>9
<1>17. HiringInvariant' BY <1>7, <1>10, <1>14, <1>15, <1>16, RolesMove
<1> QED BY <1>2, <1>3, <1>7, <1>9, <1>13, <1>17

\* What a close writes of an open role, and of whom it was filled with.
LEMMA RowCloses ==
  ASSUME TypeOK, NEW d \in Roles, RoleStands(d, roles[d]), roles[d].status = "open",
         roles[d].closings < MaxClosings, NEW why \in {"superseded", "hired", "other"},
         NEW who, resolveHires(d, why, who),
         NEW row, row = Closed(roles[d], why, who)
  PROVE  /\ row \in RoleRow /\ RoleStands(d, row)
         /\ row.status = "closed" /\ row.places = roles[d].places
         /\ row.hires = roles[d].hires \cup who
<1>1. roles[d] \in RoleRow BY Tables
<1>2. PICK old : old = roles[d] OBVIOUS
<1>3. row = Closed(old, why, who) BY <1>2
<1>4. /\ row.status = "closed" /\ row.reason = why /\ row.hires = old.hires \cup who
      /\ row.closings = old.closings + 1 /\ row.places = old.places
      /\ row.supersedes = old.supersedes /\ row.asked = old.asked
  BY <1>1, <1>2, <1>3 DEF Closed, RoleRow
<1>5. old.closings \in Nat /\ old.closings < MaxClosings /\ MaxClosings \in Nat
  BY <1>1, <1>2, HiringAssumption DEF RoleRow
<1>6. who \in SUBSET Users /\ who \subseteq Accepted(d) /\ (why = "hired" <=> who # {})
  BY DEF Accepted, resolveHires
<1>7. row \in RoleRow
  <2> DEFINE a == [old EXCEPT !.status = "closed"]
             b == [a EXCEPT !.reason = why]
             c == [b EXCEPT !.hires = old.hires \cup who]
             e == [c EXCEPT !.closings = old.closings + 1]
  <2>1. row = e BY <1>1, <1>2, <1>3 DEF Closed, RoleRow
  <2>2. a \in RoleRow BY <1>1, <1>2 DEF RoleRow
  <2> HIDE DEF a
  <2>3. b \in RoleRow BY <2>2 DEF RoleRow
  <2> HIDE DEF b
  <2>4. old.hires \cup who \in SUBSET Users BY <1>1, <1>2, <1>6 DEF RoleRow
  <2>5. c \in RoleRow BY <2>3, <2>4 DEF RoleRow
  <2> HIDE DEF c
  <2>6. old.closings + 1 \in 0 .. MaxClosings BY <1>5
  <2>7. e \in RoleRow BY <2>5, <2>6 DEF RoleRow
  <2> QED BY <2>1, <2>7
<1>8. RowSound(old) /\ old.status = "open" BY <1>2 DEF RoleStands
<1>9. RowSound(row)
  <2>1. old.closings = 0 => old.hires = {} BY <1>8 DEF RowSound
  <2>2. row.closings > 0 BY <1>4, <1>5
  <2>3. row.closings = 1 => old.closings = 0 BY <1>4, <1>5
  <2>4. row.closings = 1 /\ row.hires # {} => who # {} BY <1>4, <2>1, <2>3
  <2>5. why = "hired" => row.hires # {} BY <1>4, <1>6
  <2> QED BY <1>4, <1>5, <1>6, <2>2, <2>4, <2>5 DEF RowSound
<1>10. \A u \in row.hires : contact[d][u].status = "accepted"
  BY <1>2, <1>4, <1>6 DEF RoleStands, Accepted
<1> QED BY <1>2, <1>3, <1>4, <1>7, <1>9, <1>10 DEF RoleStands

\* The role that is there, where a request in progress names it.
LEMMA RoleRead ==
  ASSUME HiringInvariant, NEW r \in Requests, request[r].pc # "idle"
  PROVE  /\ request[r].role \in Roles /\ roles[request[r].role] \in RoleRow
         /\ RoleStands(request[r].role, roles[request[r].role])
<1>1. request[r].role \in Roles BY DEF HiringInvariant, RequestsStand, ReadStands
<1> QED BY <1>1, RolesStand, Tables DEF HiringInvariant

\* A new role is a draft, and no other changes (CreateRole).
LEMMA CreateStep ==
  ASSUME HiringInvariant, NEW h \in Seats, NEW in \in Sensible, CreateRole(h, in)
  PROVE  /\ HiringInvariant' /\ Roles \subseteq Roles'
         /\ \A d \in Roles : roles'[d] = roles[d]
         /\ \A d \in Roles' \ Roles : roles'[d].status = "draft" /\ roles'[d].hires = {}
<1>1. /\ resolveLocations(in) /\ Len(roles) < MaxRoles /\ roles' = Append(roles, Draft(in, 0))
      /\ UNCHANGED <<workplace, addresses, officeRequests, settings, advert, staged, contact, request>>
  BY DEF CreateRole
<1>2. roles \in Seq(RoleRow) BY Tables DEF HiringInvariant
<1>3. in \in SUBSET RoleLocation BY DEF Sensible
<1>4. PICK previous \in 0 .. MaxRoles : previous = 0 BY HiringAssumption
<1>5. roles' = Append(roles, Draft(in, previous)) BY <1>1, <1>4
<1>6. /\ HiringInvariant'
      /\ Roles' = Roles \cup {Len(roles) + 1}
      /\ \A d \in Roles : roles'[d] = roles[d]
      /\ roles'[Len(roles) + 1] = Draft(in, previous)
  BY <1>1, <1>2, <1>3, <1>5, RolesStand, RoleAdded
<1>7. roles'[Len(roles) + 1].status = "draft" /\ roles'[Len(roles) + 1].hires = {}
  BY <1>6 DEF Draft
<1> QED BY <1>6, <1>7

\* Only a draft's places are written, to places the organisation has (Update).
LEMMA UpdateStep ==
  ASSUME HiringInvariant, NEW r \in Requests, NEW in \in Sensible, Update(r, in)
  PROVE  /\ HiringInvariant' /\ Roles' = Roles
         /\ \A d \in Roles :
              /\ roles'[d].status = roles[d].status /\ roles'[d].hires = roles[d].hires
              /\ roles[d].status # "draft" => roles'[d].places = roles[d].places
<1>1. PICK d : d = request[r].role OBVIOUS
<1>2. /\ request[r].pc = "updating" /\ resolveLocations(in) /\ roles[d].status = "draft"
      /\ roles' = [roles EXCEPT ![d].places = in] /\ Answers(r)
      /\ UNCHANGED <<workplace, addresses, officeRequests, settings, advert, staged, contact>>
  BY <1>1 DEF Update, UpdateDraft
<1>3. d \in Roles /\ roles[d] \in RoleRow /\ RoleStands(d, roles[d]) BY <1>1, <1>2, RoleRead
<1>4. PICK row : row = [roles[d] EXCEPT !.places = in] OBVIOUS
<1>5. in \in SUBSET RoleLocation BY DEF Sensible
<1>6. row \in RoleRow BY <1>3, <1>4, <1>5 DEF RoleRow
<1>7. /\ row.status = roles[d].status /\ row.reason = roles[d].reason /\ row.places = in
      /\ row.hires = roles[d].hires /\ row.closings = roles[d].closings
  BY <1>3, <1>4 DEF RoleRow
<1>8. \A l \in in : l.mode = "onsite" => workplace = "office" /\ l.address \in LiveAddresses
  BY <1>2 DEF resolveLocations, RemoteEntry, OnsiteEntry
<1>9. RoleStands(d, row) BY <1>3, <1>7, <1>8 DEF RoleStands, RowSound
<1>10. roles' = [roles EXCEPT ![d] = row] BY <1>2, <1>4
<1>11. /\ request' \in [Requests -> Request]
       /\ \A q \in Requests : ReadStands(request'[q])
  BY <1>2, RequestAnswered
<1>12. /\ HiringInvariant' /\ Roles' = Roles /\ roles'[d] = row
       /\ \A e \in Roles : e # d => roles'[e] = roles[e]
  BY <1>2, <1>3, <1>6, <1>9, <1>10, <1>11, RoleWritten
<1>13. ASSUME NEW e \in Roles
       PROVE  /\ roles'[e].status = roles[e].status /\ roles'[e].hires = roles[e].hires
              /\ roles[e].status # "draft" => roles'[e].places = roles[e].places
  <2>1. CASE e = d BY <1>2, <1>7, <1>12, <2>1
  <2>2. CASE e # d BY <1>12, <2>2
  <2> QED BY <2>1, <2>2
<1> QED BY <1>12, <1>13

\* An open role makes way for a draft, and nobody is hired by that (Revise).
LEMMA ReviseStep ==
  ASSUME HiringInvariant, NEW h \in Seats, NEW d \in Roles, NEW in \in Sensible, Revise(h, d, in)
  PROVE  /\ HiringInvariant' /\ Roles \subseteq Roles'
         /\ roles'[d].status = "closed" /\ roles'[d].hires = roles[d].hires
         /\ roles'[d].places = roles[d].places
         /\ \A e \in Roles : e # d => roles'[e] = roles[e]
         /\ \A e \in Roles' \ Roles : roles'[e].status = "draft" /\ roles'[e].hires = {}
<1>1. /\ resolveLocations(in) /\ roles[d].status = "open" /\ Len(roles) < MaxRoles
      /\ roles[d].closings < MaxClosings
      /\ roles' = Append([roles EXCEPT ![d] = Closed(roles[d], "superseded", {})], Draft(in, d))
      /\ UNCHANGED <<workplace, addresses, officeRequests, settings, advert, staged, contact, request>>
  BY DEF Revise, ReviseRole
<1>2. TypeOK /\ roles[d] \in RoleRow /\ RoleStands(d, roles[d])
  BY RolesStand, Tables DEF HiringInvariant
<1>3. PICK row : row = Closed(roles[d], "superseded", {}) OBVIOUS
<1>4. /\ row \in RoleRow /\ RoleStands(d, row) /\ row.status = "closed"
      /\ row.places = roles[d].places /\ row.hires = roles[d].hires
  <2>1. PICK why \in {"superseded", "hired", "other"} : why = "superseded" OBVIOUS
  <2>2. PICK who : who = {} OBVIOUS
  <2>3. row = Closed(roles[d], why, who) BY <1>3, <2>1, <2>2
  <2>4. resolveHires(d, why, who) BY <2>1, <2>2 DEF resolveHires
  <2>5. roles[d].status = "open" /\ roles[d].closings < MaxClosings BY <1>1
  <2>6. TypeOK /\ RoleStands(d, roles[d]) BY <1>2
  <2>7. /\ row \in RoleRow /\ RoleStands(d, row) /\ row.status = "closed"
        /\ row.places = roles[d].places /\ row.hires = roles[d].hires \cup who
    BY <2>1, <2>3, <2>4, <2>5, <2>6, RowCloses
  <2> QED BY <2>2, <2>7
<1>5. PICK rows : rows = [roles EXCEPT ![d] = row] OBVIOUS
<1>6. roles \in Seq(RoleRow) /\ d \in 1 .. Len(roles) /\ Roles = DOMAIN roles
  BY <1>2, Tables
<1>7. rows \in Seq(RoleRow) /\ Len(rows) = Len(roles) BY <1>4, <1>5, <1>6, ExceptSeq
<1>8. rows[d] = row /\ \A e \in Roles : e # d => rows[e] = roles[e] BY <1>5, <1>6
<1>9. ASSUME NEW e \in Roles PROVE RoleStands(e, rows[e])
  <2>1. CASE e = d BY <1>4, <1>8, <2>1
  <2>2. CASE e # d
    <3>1. rows[e] = roles[e] BY <1>8, <2>2
    <3> QED BY <3>1, RolesStand
  <2> QED BY <2>1, <2>2
<1>10. d \in 0 .. MaxRoles BY <1>2, Tables, HiringAssumption DEF AllRoles
<1>11. in \in SUBSET RoleLocation BY DEF Sensible
<1>12. roles' = Append(rows, Draft(in, d)) BY <1>1, <1>3, <1>5
<1>13. /\ HiringInvariant'
       /\ Roles' = Roles \cup {Len(roles) + 1}
       /\ \A e \in Roles : roles'[e] = rows[e]
       /\ roles'[Len(roles) + 1] = Draft(in, d)
  BY <1>1, <1>7, <1>9, <1>10, <1>11, <1>12, RoleAdded
<1>14. roles'[Len(roles) + 1].status = "draft" /\ roles'[Len(roles) + 1].hires = {}
  BY <1>13 DEF Draft
<1> QED BY <1>4, <1>8, <1>13, <1>14

\* Opening changes no place, and hires nobody; a role that had closed before
\* needs no place (Open).
LEMMA OpenStep ==
  ASSUME HiringInvariant, NEW r \in Requests, Open(r)
  PROVE  /\ HiringInvariant' /\ Roles' = Roles /\ request[r].role \in Roles
         /\ roles'[request[r].role].status = "open"
         /\ \A d \in Roles :
              /\ roles'[d].places = roles[d].places /\ roles'[d].hires = roles[d].hires
              /\ d # request[r].role => roles'[d] = roles[d]
<1>1. PICK d : d = request[r].role OBVIOUS
<1>2. /\ request[r].pc = "opening" /\ roles[d].status # "open" /\ Answers(r)
      /\ roles' = [roles EXCEPT ![d].status = "open", ![d].reason = "none", ![d].asked = FALSE]
      /\ UNCHANGED <<workplace, addresses, officeRequests, settings, advert, staged, contact>>
  BY <1>1 DEF Open, OpenRole
<1>3. d \in Roles /\ roles[d] \in RoleRow /\ RoleStands(d, roles[d]) BY <1>1, <1>2, RoleRead
<1>4. PICK a : a = [roles[d] EXCEPT !.status = "open"] OBVIOUS
<1>5. PICK b : b = [a EXCEPT !.reason = "none"] OBVIOUS
<1>6. PICK row : row = [b EXCEPT !.asked = FALSE] OBVIOUS
<1>7. a \in RoleRow BY <1>3, <1>4 DEF RoleRow
<1>8. b \in RoleRow BY <1>5, <1>7 DEF RoleRow
<1>9. row \in RoleRow BY <1>6, <1>8 DEF RoleRow
<1>10. /\ row.status = "open" /\ row.reason = "none" /\ row.places = roles[d].places
       /\ row.hires = roles[d].hires /\ row.closings = roles[d].closings
  BY <1>3, <1>4, <1>5, <1>6 DEF RoleRow
<1>11. roles' = [roles EXCEPT ![d] = row] BY <1>2, <1>3, <1>4, <1>5, <1>6 DEF Roles
<1>12. roles[d].status \in {"draft", "closed"} BY <1>2, <1>3 DEF RoleRow
<1>13. RoleStands(d, row)
  <2>1. RowSound(roles[d]) BY <1>3 DEF RoleStands
  <2>2. RowSound(row) BY <1>10, <2>1 DEF RowSound
  <2>3. roles[d].closings = 0 => roles[d].status # "closed" BY <2>1 DEF RowSound
  <2> QED BY <1>3, <1>10, <2>2, <2>3 DEF RoleStands
<1>14. /\ request' \in [Requests -> Request]
       /\ \A q \in Requests : ReadStands(request'[q])
  BY <1>2, RequestAnswered
<1>15. /\ HiringInvariant' /\ Roles' = Roles /\ roles'[d] = row
       /\ \A e \in Roles : e # d => roles'[e] = roles[e]
  BY <1>2, <1>3, <1>9, <1>11, <1>13, <1>14, RoleWritten
<1> QED BY <1>1, <1>3, <1>10, <1>15

\* A close names people who had accepted when it was read (Close).
LEMMA CloseStep ==
  ASSUME HiringInvariant, NEW r \in Requests, Close(r)
  PROVE  /\ HiringInvariant' /\ Roles' = Roles /\ request[r].role \in Roles
         /\ request[r].who \subseteq Accepted(request[r].role)
         /\ roles'[request[r].role].status = "closed"
         /\ roles'[request[r].role].hires = roles[request[r].role].hires \cup request[r].who
         /\ roles'[request[r].role].places = roles[request[r].role].places
         /\ \A d \in Roles : d # request[r].role => roles'[d] = roles[d]
<1>1. PICK d : d = request[r].role OBVIOUS
<1>2. PICK who : who = request[r].who OBVIOUS
<1>3. request[r].pc = "closing" BY DEF Close
<1>4. request[r] \in Request BY DEF HiringInvariant, TypeOK
<1>5. /\ request[r].why # "none"
      /\ resolveHires(d, request[r].why, who)
  BY <1>1, <1>2, <1>3 DEF HiringInvariant, RequestsStand, ReadStands
<1>6. PICK why \in {"superseded", "hired", "other"} : why = request[r].why
  BY <1>4, <1>5 DEF Request
<1>7. PICK row : row = Closed(roles[d], why, who) OBVIOUS
<1>8. /\ roles[d].status = "open" /\ roles[d].closings < MaxClosings /\ Answers(r)
      /\ roles' = [roles EXCEPT ![d] = row]
      /\ UNCHANGED <<workplace, addresses, officeRequests, settings, advert, staged, contact>>
  BY <1>1, <1>2, <1>6, <1>7 DEF Close, CloseRole
<1>9. TypeOK /\ d \in Roles /\ RoleStands(d, roles[d])
  BY <1>1, <1>3, RoleRead DEF HiringInvariant
<1>10. resolveHires(d, why, who) BY <1>5, <1>6
<1>11. /\ row \in RoleRow /\ RoleStands(d, row) /\ row.status = "closed"
       /\ row.places = roles[d].places /\ row.hires = roles[d].hires \cup who
  BY <1>7, <1>8, <1>9, <1>10, RowCloses
<1>12. /\ request' \in [Requests -> Request]
       /\ \A q \in Requests : ReadStands(request'[q])
  BY <1>8, RequestAnswered
<1>13. /\ HiringInvariant' /\ Roles' = Roles /\ roles'[d] = row
       /\ \A e \in Roles : e # d => roles'[e] = roles[e]
  BY <1>8, <1>9, <1>11, <1>12, RoleWritten
<1>14. who \subseteq Accepted(d) BY <1>10 DEF resolveHires
<1> QED BY <1>1, <1>2, <1>9, <1>11, <1>13, <1>14

\* That somebody asked for a close is all that is written (AskToClose).
LEMMA AskStep ==
  ASSUME HiringInvariant, NEW r \in Requests, AskToClose(r)
  PROVE  /\ HiringInvariant' /\ Roles' = Roles
         /\ \A d \in Roles :
              /\ roles'[d].status = roles[d].status /\ roles'[d].hires = roles[d].hires
              /\ roles'[d].places = roles[d].places
<1>1. PICK d : d = request[r].role OBVIOUS
<1>2. /\ request[r].pc = "asking" /\ Answers(r)
      /\ roles' = [roles EXCEPT ![d].asked = TRUE]
      /\ UNCHANGED <<workplace, addresses, officeRequests, settings, advert, staged, contact>>
  BY <1>1 DEF AskToClose, RequestClose
<1>3. d \in Roles /\ roles[d] \in RoleRow /\ RoleStands(d, roles[d]) BY <1>1, <1>2, RoleRead
<1>4. PICK row : row = [roles[d] EXCEPT !.asked = TRUE] OBVIOUS
<1>5. roles' = [roles EXCEPT ![d] = row] BY <1>2, <1>4
<1>6. row \in RoleRow BY <1>3, <1>4 DEF RoleRow
<1>7. /\ row.status = roles[d].status /\ row.reason = roles[d].reason
      /\ row.places = roles[d].places /\ row.hires = roles[d].hires
      /\ row.closings = roles[d].closings
  BY <1>3, <1>4 DEF RoleRow
<1>8. RoleStands(d, row) BY <1>3, <1>7 DEF RoleStands, RowSound
<1>9. /\ request' \in [Requests -> Request]
      /\ \A q \in Requests : ReadStands(request'[q])
  BY <1>2, RequestAnswered
<1>10. /\ HiringInvariant' /\ Roles' = Roles /\ roles'[d] = row
       /\ \A e \in Roles : e # d => roles'[e] = roles[e]
  BY <1>2, <1>3, <1>5, <1>6, <1>8, <1>9, RoleWritten
<1> QED BY <1>7, <1>10

-----------------------------------------------------------------------------
(* The people                                                              *)

\* The tables of people as functions.
LEMMA People ==
  ASSUME HiringInvariant
  PROVE  /\ staged \in [AllRoles -> SUBSET Users]
         /\ contact \in [AllRoles -> [Users -> ContactRow]]
         /\ \A d \in AllRoles, u \in Users : contact[d][u] \in ContactRow
         /\ \A d \in AllRoles : \A u \in staged[d] : contact[d][u] = NoContact
         /\ NoContact \in ContactRow /\ NoContact.status = "none" /\ ~NoContact.released
         /\ Roles \subseteq AllRoles
<1>1. TypeOK BY DEF HiringInvariant
<1>2. NoContact \in ContactRow /\ NoContact.status = "none" /\ ~NoContact.released
  BY DEF NoContact, ContactRow
<1>3. contact \in [AllRoles -> [Users -> ContactRow]] BY <1>1 DEF TypeOK
<1>4. \A d \in AllRoles, u \in Users : contact[d][u] \in ContactRow BY <1>3
<1> QED BY <1>1, <1>2, <1>3, <1>4, Tables DEF TypeOK

\* What a step leaves alone stays sound when only the people on roles change.
LEMMA OnlyPeopleMove ==
  ASSUME HiringInvariant,
         UNCHANGED <<workplace, addresses, officeRequests, roles, settings, advert, request>>,
         staged' \in [AllRoles -> SUBSET Users],
         contact' \in [AllRoles -> [Users -> ContactRow]],
         \A d \in AllRoles : \A u \in staged'[d] : contact'[d][u] = NoContact,
         \A d \in AllRoles, u \in Users :
           /\ contact'[d][u].status = "none" => contact'[d][u] = NoContact
           /\ contact'[d][u].released => contact'[d][u].status = "accepted"
           /\ contact[d][u].status = "accepted" => contact'[d][u].status = "accepted"
  PROVE  HiringInvariant'
<1>1. /\ settings \in OrgSettings /\ request \in [Requests -> Request]
      /\ advert \in [AllRoles -> {"none", "written", "published", "withdrawn"}]
  BY DEF HiringInvariant, TypeOK
<1>2. \A r \in Requests : ReadStands(request[r]) BY DEF HiringInvariant, RequestsStand
<1>3. \A r \in Requests : ReadStands(request'[r]) BY <1>2
<1> QED BY <1>1, <1>3, RolesStay

\* Staging, and taking off what was staged (Stage, Unstage).
LEMMA StageSteps ==
  ASSUME HiringInvariant, NEW d \in Roles, NEW u \in Users,
         (\E h \in Seats : Stage(h, d, u)) \/ Unstage(d, u)
  PROVE  HiringInvariant'
<1>1. UNCHANGED <<workplace, addresses, officeRequests, roles, settings, advert, contact, request>>
  BY DEF Stage, Unstage
<1>2. \/ staged' = [staged EXCEPT ![d] = staged[d] \ {u}]
      \/ contact[d][u].status = "none" /\ staged' = [staged EXCEPT ![d] = staged[d] \cup {u}]
  BY DEF Stage, StageCandidate, OnRole, Unstage, RemoveCandidate
<1>3. staged' \in [AllRoles -> SUBSET Users] BY <1>2, People
<1>4. \A e \in AllRoles : \A v \in staged'[e] :
        v \in staged[e] \/ (e = d /\ v = u /\ contact[d][u].status = "none")
  BY <1>2, People
<1>5. AnswersAreSound BY DEF HiringInvariant
<1>6. \A e \in AllRoles : \A v \in staged'[e] : contact'[e][v] = NoContact
  <2> SUFFICES ASSUME NEW e \in AllRoles, NEW v \in staged'[e] PROVE contact[e][v] = NoContact
    BY <1>1
  <2>1. CASE v \in staged[e] BY <2>1, People
  <2>2. CASE e = d /\ v = u /\ contact[d][u].status = "none"
    BY <1>5, <2>2 DEF AnswersAreSound
  <2> QED BY <1>4, <2>1, <2>2
<1>7. \A e \in AllRoles, v \in Users :
        /\ contact'[e][v].status = "none" => contact'[e][v] = NoContact
        /\ contact'[e][v].released => contact'[e][v].status = "accepted"
        /\ contact[e][v].status = "accepted" => contact'[e][v].status = "accepted"
  BY <1>1, <1>5 DEF AnswersAreSound
<1> QED BY <1>1, <1>3, <1>6, <1>7, People, OnlyPeopleMove

\* Everybody staged on an open role is asked (Contact).
LEMMA ContactStep ==
  ASSUME HiringInvariant, NEW d \in Roles, Contact(d)
  PROVE  /\ HiringInvariant' /\ roles[d].status = "open"
         /\ \A e \in AllRoles, u \in Users :
              IF e = d /\ u \in staged[d]
              THEN /\ contact[e][u].status = "none" /\ contact'[e][u].status = "pending"
                   /\ ~contact[e][u].released /\ ~contact'[e][u].released
              ELSE contact'[e][u] = contact[e][u]
<1>1. PICK asked : asked = [NoContact EXCEPT !.status = "pending"] OBVIOUS
<1>2. asked \in ContactRow /\ asked.status = "pending" /\ ~asked.released
  BY <1>1 DEF NoContact, ContactRow
<1>3. /\ roles[d].status = "open" /\ staged' = [staged EXCEPT ![d] = {}]
      /\ contact' = [contact EXCEPT ![d] =
           [u \in Users |-> IF u \in staged[d] THEN asked ELSE contact[d][u]]]
      /\ UNCHANGED <<workplace, addresses, officeRequests, roles, settings, advert, request>>
  BY <1>1 DEF Contact, ContactRole
<1>4. PICK row : row = [u \in Users |-> IF u \in staged[d] THEN asked ELSE contact[d][u]] OBVIOUS
<1>5. d \in AllRoles /\ row \in [Users -> ContactRow] BY <1>2, <1>4, People
<1>6. contact' = [contact EXCEPT ![d] = row] BY <1>3, <1>4
<1>7. /\ contact' \in [AllRoles -> [Users -> ContactRow]]
      /\ staged' \in [AllRoles -> SUBSET Users]
  BY <1>3, <1>5, <1>6, People
<1>8. \A e \in AllRoles, u \in Users :
        IF e = d /\ u \in staged[d] THEN contact'[e][u] = asked ELSE contact'[e][u] = contact[e][u]
  BY <1>4, <1>5, <1>6, People
<1>9. \A e \in AllRoles, u \in Users :
        e = d /\ u \in staged[d] => contact[e][u].status = "none" /\ ~contact[e][u].released
  BY People
<1>10. \A e \in AllRoles : \A u \in staged'[e] : e # d /\ u \in staged[e]
  BY <1>3, <1>5, People
<1>11. \A e \in AllRoles : \A u \in staged'[e] : contact'[e][u] = NoContact
  BY <1>7, <1>8, <1>10, People
<1>12. \A e \in AllRoles, u \in Users :
        /\ contact'[e][u].status = "none" => contact'[e][u] = NoContact
        /\ contact'[e][u].released => contact'[e][u].status = "accepted"
        /\ contact[e][u].status = "accepted" => contact'[e][u].status = "accepted"
  <2> SUFFICES ASSUME NEW e \in AllRoles, NEW u \in Users
               PROVE  /\ contact'[e][u].status = "none" => contact'[e][u] = NoContact
                      /\ contact'[e][u].released => contact'[e][u].status = "accepted"
                      /\ contact[e][u].status = "accepted" => contact'[e][u].status = "accepted"
    OBVIOUS
  <2>1. CASE e = d /\ u \in staged[d]
    <3>1. contact'[e][u] = asked BY <1>8, <2>1
    <3> QED BY <1>2, <1>9, <2>1, <3>1
  <2>2. CASE ~(e = d /\ u \in staged[d])
    <3>1. contact'[e][u] = contact[e][u] BY <1>8, <2>2
    <3> QED BY <3>1 DEF HiringInvariant, AnswersAreSound
  <2> QED BY <2>1, <2>2
<1>13. HiringInvariant' BY <1>3, <1>7, <1>11, <1>12, OnlyPeopleMove
<1> QED BY <1>2, <1>3, <1>8, <1>9, <1>13

\* What one person was asked changes, nobody else's answer does, and what is
\* not theirs to answer stays staged.
LEMMA OneAnswer ==
  ASSUME HiringInvariant, NEW d \in Roles, NEW u \in Users, NEW row \in ContactRow,
         contact[d][u].status = "pending", row.status # "none",
         row.released => row.status = "accepted",
         contact' = [contact EXCEPT ![d][u] = row],
         UNCHANGED <<workplace, addresses, officeRequests, roles, settings, advert, staged, request>>
  PROVE  /\ HiringInvariant' /\ contact'[d][u] = row
         /\ \A e \in AllRoles, v \in Users :
              ~(e = d /\ v = u) => contact'[e][v] = contact[e][v]
<1>1. d \in AllRoles /\ AnswersAreSound BY People DEF HiringInvariant
<1>2. PICK rows : rows = [contact[d] EXCEPT ![u] = row] OBVIOUS
<1>3. contact[d] \in [Users -> ContactRow] BY <1>1, People
<1>4. rows \in [Users -> ContactRow] BY <1>2, <1>3
<1>5. contact' = [contact EXCEPT ![d] = rows] BY <1>2
<1>6. contact' \in [AllRoles -> [Users -> ContactRow]] BY <1>1, <1>4, <1>5, People
<1>7. contact'[d][u] = row BY <1>1, <1>2, <1>3, <1>5, People
<1>8. \A e \in AllRoles, v \in Users : ~(e = d /\ v = u) => contact'[e][v] = contact[e][v]
  BY <1>1, <1>2, <1>3, <1>5, People
<1>9. u \notin staged[d] BY <1>1, People
<1>10. \A e \in AllRoles : \A v \in staged'[e] : contact'[e][v] = NoContact
  BY <1>8, <1>9, People
<1>11. \A e \in AllRoles, v \in Users :
        /\ contact'[e][v].status = "none" => contact'[e][v] = NoContact
        /\ contact'[e][v].released => contact'[e][v].status = "accepted"
        /\ contact[e][v].status = "accepted" => contact'[e][v].status = "accepted"
  <2> SUFFICES ASSUME NEW e \in AllRoles, NEW v \in Users
               PROVE  /\ contact'[e][v].status = "none" => contact'[e][v] = NoContact
                      /\ contact'[e][v].released => contact'[e][v].status = "accepted"
                      /\ contact[e][v].status = "accepted" => contact'[e][v].status = "accepted"
    OBVIOUS
  <2>1. CASE e = d /\ v = u BY <1>7, <2>1
  <2>2. CASE ~(e = d /\ v = u)
    <3>1. contact'[e][v] = contact[e][v] BY <1>8, <2>2
    <3> QED BY <1>1, <3>1 DEF AnswersAreSound
  <2> QED BY <2>1, <2>2
<1>12. HiringInvariant' BY <1>6, <1>10, <1>11, People, OnlyPeopleMove
<1> QED BY <1>7, <1>8, <1>12

\* An answer releases the address exactly when it is a yes (Respond).
LEMMA RespondStep ==
  ASSUME HiringInvariant, NEW d \in Roles, NEW u \in Users, NEW accept \in BOOLEAN,
         Respond(d, u, accept)
  PROVE  /\ HiringInvariant' /\ contact[d][u].status = "pending" /\ ~contact[d][u].released
         /\ \/ contact'[d][u].status = "accepted" /\ contact'[d][u].released
            \/ contact'[d][u].status = "declined" /\ ~contact'[d][u].released
         /\ \A e \in AllRoles, v \in Users :
              ~(e = d /\ v = u) => contact'[e][v] = contact[e][v]
<1>1. PICK said : said = IF accept THEN "accepted" ELSE "declined" OBVIOUS
<1>2. /\ contact[d][u].status = "pending"
      /\ contact' = [contact EXCEPT ![d][u].status = said, ![d][u].released = accept]
      /\ UNCHANGED <<workplace, addresses, officeRequests, roles, settings, advert, staged, request>>
  BY <1>1 DEF Respond, AnswerOnce
<1>3. PICK old : old = contact[d][u] OBVIOUS
<1>4. d \in AllRoles /\ old \in ContactRow /\ contact \in [AllRoles -> [Users -> ContactRow]]
  BY <1>3, People
<1>5. PICK half : half = [old EXCEPT !.status = said] OBVIOUS
<1>6. PICK row : row = [half EXCEPT !.released = accept] OBVIOUS
<1>7. half \in ContactRow BY <1>1, <1>4, <1>5 DEF ContactRow
<1>8. row \in ContactRow BY <1>6, <1>7 DEF ContactRow
<1>9. row.status = said /\ row.released = accept BY <1>4, <1>5, <1>6 DEF ContactRow
<1>10. contact' = [contact EXCEPT ![d][u] = row] BY <1>2, <1>3, <1>4, <1>5, <1>6
<1>11. /\ row.status # "none" /\ (row.released => row.status = "accepted")
       /\ \/ row.status = "accepted" /\ row.released
          \/ row.status = "declined" /\ ~row.released
  <2>1. CASE accept
    <3>1. said = "accepted" BY <1>1, <2>1
    <3>2. row.released BY <1>9, <2>1
    <3> QED BY <1>9, <3>1, <3>2
  <2>2. CASE ~accept
    <3>1. said = "declined" BY <1>1, <2>2
    <3>2. ~row.released BY <1>9, <2>2
    <3> QED BY <1>9, <3>1, <3>2
  <2> QED BY <2>1, <2>2
<1>12. ~contact[d][u].released BY <1>2, <1>4 DEF HiringInvariant, AnswersAreSound
<1>13. /\ HiringInvariant' /\ contact'[d][u] = row
       /\ \A e \in AllRoles, v \in Users : ~(e = d /\ v = u) => contact'[e][v] = contact[e][v]
  BY <1>2, <1>8, <1>10, <1>11, OneAnswer
<1> QED BY <1>2, <1>11, <1>12, <1>13

\* That its days have passed changes no answer (Lapse).
LEMMA LapseStep ==
  ASSUME HiringInvariant, NEW d \in Roles, NEW u \in Users, Lapse(d, u)
  PROVE  /\ HiringInvariant'
         /\ \A e \in AllRoles, v \in Users :
              /\ contact'[e][v].status = contact[e][v].status
              /\ contact'[e][v].released = contact[e][v].released
<1>1. /\ contact[d][u].status = "pending"
      /\ contact' = [contact EXCEPT ![d][u].lapsed = TRUE]
      /\ UNCHANGED <<workplace, addresses, officeRequests, roles, settings, advert, staged, request>>
  BY DEF Lapse
<1>2. PICK old : old = contact[d][u] OBVIOUS
<1>3. d \in AllRoles /\ old \in ContactRow /\ contact \in [AllRoles -> [Users -> ContactRow]]
  BY <1>2, People
<1>4. PICK row : row = [old EXCEPT !.lapsed = TRUE] OBVIOUS
<1>5. row \in ContactRow /\ row.status = old.status /\ row.released = old.released
  BY <1>3, <1>4 DEF ContactRow
<1>6. contact' = [contact EXCEPT ![d][u] = row] BY <1>1, <1>2, <1>3, <1>4
<1>7. old.released => old.status = "accepted"
  BY <1>2, <1>3 DEF HiringInvariant, AnswersAreSound
<1>8. row.status # "none" /\ (row.released => row.status = "accepted") BY <1>1, <1>2, <1>5, <1>7
<1>9. /\ HiringInvariant' /\ contact'[d][u] = row
      /\ \A e \in AllRoles, v \in Users : ~(e = d /\ v = u) => contact'[e][v] = contact[e][v]
  BY <1>1, <1>5, <1>6, <1>8, OneAnswer
<1>10. ASSUME NEW e \in AllRoles, NEW v \in Users
       PROVE  /\ contact'[e][v].status = contact[e][v].status
              /\ contact'[e][v].released = contact[e][v].released
  <2>1. CASE e = d /\ v = u BY <1>2, <1>5, <1>9, <2>1
  <2>2. CASE ~(e = d /\ v = u) BY <1>9, <2>2
  <2> QED BY <2>1, <2>2
<1> QED BY <1>9, <1>10

\* The nightly job ends what nobody answered in time, and nothing else.
LEMMA ExpireStep ==
  ASSUME HiringInvariant, ExpireStale
  PROVE  /\ HiringInvariant'
         /\ \A d \in AllRoles, u \in Users :
              IF Stale(d, u)
              THEN /\ contact[d][u].status = "pending" /\ contact'[d][u].status = "expired"
                   /\ contact'[d][u].released = contact[d][u].released
              ELSE contact'[d][u] = contact[d][u]
<1>1. /\ contact' = [d \in AllRoles |-> [u \in Users |->
            IF Stale(d, u) THEN [contact[d][u] EXCEPT !.status = "expired"] ELSE contact[d][u]]]
      /\ UNCHANGED <<workplace, addresses, officeRequests, roles, settings, advert, staged, request>>
  BY DEF ExpireStale
<1>2. ASSUME NEW d \in AllRoles, NEW u \in Users
      PROVE  LET row == [contact[d][u] EXCEPT !.status = "expired"] IN
             /\ row \in ContactRow /\ row.status = "expired"
             /\ row.released = contact[d][u].released
  <2>1. PICK old : old = contact[d][u] OBVIOUS
  <2>2. old \in ContactRow BY <2>1, People
  <2> QED BY <2>1, <2>2 DEF ContactRow
<1>3. \A d \in AllRoles, u \in Users :
        /\ contact'[d][u] \in ContactRow
        /\ IF Stale(d, u)
           THEN /\ contact[d][u].status = "pending" /\ contact'[d][u].status = "expired"
                /\ contact'[d][u].released = contact[d][u].released
           ELSE contact'[d][u] = contact[d][u]
  BY <1>1, <1>2, People DEF Stale
<1>4. contact' \in [AllRoles -> [Users -> ContactRow]]
  <2>1. contact' = [d \in AllRoles |-> [u \in Users |-> contact'[d][u]]] BY <1>1
  <2> QED BY <1>3, <2>1
<1>5. \A d \in AllRoles : \A u \in staged[d] : u \in Users /\ ~Stale(d, u)
  BY People DEF Stale
<1>6. \A d \in AllRoles : \A u \in staged'[d] : contact'[d][u] = NoContact
  BY <1>1, <1>3, <1>5, People
<1>7. \A d \in AllRoles, u \in Users :
        /\ contact'[d][u].status = "none" => contact'[d][u] = NoContact
        /\ contact'[d][u].released => contact'[d][u].status = "accepted"
        /\ contact[d][u].status = "accepted" => contact'[d][u].status = "accepted"
  <2> SUFFICES ASSUME NEW d \in AllRoles, NEW u \in Users
               PROVE  /\ contact'[d][u].status = "none" => contact'[d][u] = NoContact
                      /\ contact'[d][u].released => contact'[d][u].status = "accepted"
                      /\ contact[d][u].status = "accepted" => contact'[d][u].status = "accepted"
    OBVIOUS
  <2>1. AnswersAreSound BY DEF HiringInvariant
  <2>2. CASE Stale(d, u)
    <3>1. contact[d][u].status = "pending" /\ ~contact[d][u].released
      BY <2>1, <2>2 DEF Stale, AnswersAreSound
    <3>2. contact'[d][u].status = "expired" /\ ~contact'[d][u].released
      BY <1>3, <2>2, <3>1
    <3> QED BY <3>1, <3>2
  <2>3. CASE ~Stale(d, u)
    <3>1. contact'[d][u] = contact[d][u] BY <1>3, <2>3
    <3> QED BY <2>1, <3>1 DEF AnswersAreSound
  <2> QED BY <2>2, <2>3
<1>8. HiringInvariant' BY <1>1, <1>4, <1>6, <1>7, People, OnlyPeopleMove
<1> QED BY <1>3, <1>8

-----------------------------------------------------------------------------
(* The specification                                                       *)

\* The steps, one by one.
LEMMA Steps ==
  ASSUME Next
  PROVE  \/ WorkplaceStep /\ UNCHANGED <<roles, settings, advert, staged, contact, request>>
         \/ \E h \in Seats, s \in OrgSettings : SaveSettings(h, s)
         \/ \E h \in Seats, in \in Sensible : CreateRole(h, in)
         \/ \E h \in Seats, d \in Roles, in \in Sensible : Revise(h, d, in)
         \/ \E h \in Seats, d \in Roles : SaveOpening(h, d) \/ WithdrawOpening(h, d)
         \/ \E h \in Seats, d \in Roles, r \in Requests : Reads(r, h, d)
         \/ \E r \in Requests, in \in Sensible : Update(r, in)
         \/ \E r \in Requests : Open(r)
         \/ \E r \in Requests : Close(r)
         \/ \E r \in Requests : AskToClose(r)
         \/ \E r \in Requests : Publish(r) \/ Refused(r)
         \/ \E d \in Roles : Contact(d)
         \/ \E d \in Roles, u \in Users : (\E h \in Seats : Stage(h, d, u)) \/ Unstage(d, u)
         \/ \E d \in Roles, u \in Users : Lapse(d, u)
         \/ \E d \in Roles, u \in Users, accept \in BOOLEAN : Respond(d, u, accept)
         \/ ExpireStale
BY DEF Next, Role, Writes, Candidacy, Reads

\* A new organisation has no role, and an office only if it was founded with one.
LEMMA InitHiring == Init => HiringInvariant
<1> SUFFICES ASSUME Init PROVE HiringInvariant OBVIOUS
<1>1. /\ roles = <<>> /\ officeRequests = <<>> /\ settings \in OrgSettings
      /\ advert = [d \in AllRoles |-> "none"] /\ staged = [d \in AllRoles |-> {}]
      /\ contact = [d \in AllRoles |-> [u \in Users |-> NoContact]]
      /\ request = [r \in Requests |-> Idle]
  BY DEF Init, Founded
<1>2. roles \in Seq(RoleRow) /\ Len(roles) = 0 /\ Roles = {} BY <1>1, EmptySeq DEF Roles
<1>3. officeRequests \in Seq({"pending", "approved", "rejected"}) /\ Undecided = {}
  BY <1>1, EmptySeq DEF Undecided
<1>4. /\ workplace \in {"office", "fully_remote"}
      /\ addresses \in Seq(AddressRow) /\ Len(addresses) <= MaxAddresses
      /\ workplace = "office" =>
           \E a \in LiveAddresses : \A b \in LiveAddresses : addresses[b].main <=> b = a
      /\ workplace = "fully_remote" => LiveAddresses = {}
  <2>1. CASE workplace = "fully_remote" /\ addresses = <<>>
    BY <2>1, EmptySeq, WorkplacesAssumption DEF LiveAddresses
  <2>2. CASE MaxAddresses > 0 /\ workplace = "office"
             /\ addresses = <<[main |-> TRUE, removed |-> FALSE]>>
    <3>1. [main |-> TRUE, removed |-> FALSE] \in AddressRow BY DEF AddressRow
    <3>2. PICK row \in AddressRow : row = [main |-> TRUE, removed |-> FALSE] BY <3>1
    <3>3. addresses = <<row>> BY <2>2, <3>2
    <3>4. /\ addresses \in Seq(AddressRow) /\ Len(addresses) = 1 /\ DOMAIN addresses = {1}
          /\ addresses[1] = row
      BY <3>3
    <3>5. LiveAddresses = {1} BY <3>2, <3>4 DEF LiveAddresses
    <3>6. Len(addresses) <= MaxAddresses BY <2>2, <3>4, WorkplacesAssumption
    <3>7. addresses[1].main BY <3>2, <3>4
    <3> QED BY <2>2, <3>4, <3>5, <3>6, <3>7
  <2> QED BY <2>1, <2>2 DEF Init, Founded
<1>5. Idle \in Request /\ Idle.pc = "idle" BY HiringAssumption DEF Idle, Request
<1>6. NoContact \in ContactRow /\ NoContact.status = "none" /\ ~NoContact.released
  BY DEF NoContact, ContactRow
<1>7. TypeOK BY <1>1, <1>2, <1>3, <1>4, <1>5, <1>6, HiringAssumption DEF TypeOK
<1>8. OfficesAreKept BY <1>3, <1>4 DEF OfficesAreKept
<1>9. AnswersAreSound BY <1>1, <1>6 DEF AnswersAreSound
<1>10. RolesHaveAPlace /\ RowsAreSound /\ HiresAccepted
  BY <1>2 DEF RolesHaveAPlace, RowsAreSound, HiresAccepted
<1>11. RequestsStand BY <1>1, <1>5 DEF RequestsStand, ReadStands, Idle
<1> QED BY <1>7, <1>8, <1>9, <1>10, <1>11 DEF HiringInvariant

\* Every step keeps the invariant.
LEMMA NextHiring == HiringInvariant /\ [Next]_vars => HiringInvariant'
<1> SUFFICES ASSUME HiringInvariant, [Next]_vars PROVE HiringInvariant' OBVIOUS
<1>1. CASE UNCHANGED vars
  <2>1. UNCHANGED <<workplace, addresses, officeRequests, roles, settings, advert, staged, contact,
                    request>>
    BY <1>1 DEF vars
  <2>2. /\ settings \in OrgSettings /\ request \in [Requests -> Request]
        /\ advert \in [AllRoles -> {"none", "written", "published", "withdrawn"}]
    BY DEF HiringInvariant, TypeOK
  <2>3. \A r \in Requests : ReadStands(request'[r])
    BY <2>1 DEF HiringInvariant, RequestsStand
  <2> QED BY <2>1, <2>2, <2>3, PeopleStay
<1>2. CASE Next
  <2>1. CASE WorkplaceStep /\ UNCHANGED <<roles, settings, advert, staged, contact, request>>
    BY <2>1, WorkplaceSteps
  <2>2. ASSUME NEW h \in Seats, NEW s \in OrgSettings, SaveSettings(h, s) PROVE HiringInvariant'
    BY <2>2, OfficeWork
  <2>3. ASSUME NEW h \in Seats, NEW in \in Sensible, CreateRole(h, in) PROVE HiringInvariant'
    BY <2>3, CreateStep
  <2>4. ASSUME NEW h \in Seats, NEW d \in Roles, NEW in \in Sensible, Revise(h, d, in)
        PROVE  HiringInvariant'
    BY <2>4, ReviseStep
  <2>5. ASSUME NEW r \in Requests, Close(r) \/ AskToClose(r) PROVE HiringInvariant'
    BY <2>5, CloseStep, AskStep
  <2>6. ASSUME NEW h \in Seats, NEW d \in Roles, SaveOpening(h, d) \/ WithdrawOpening(h, d)
        PROVE  HiringInvariant'
    BY <2>6, OfficeWork
  <2>7. ASSUME NEW h \in Seats, NEW d \in Roles, NEW r \in Requests, Reads(r, h, d)
        PROVE  HiringInvariant'
    BY <2>7, OfficeWork
  <2>8. ASSUME NEW r \in Requests, NEW in \in Sensible, Update(r, in) PROVE HiringInvariant'
    BY <2>8, UpdateStep
  <2>9. ASSUME NEW r \in Requests, Open(r) PROVE HiringInvariant' BY <2>9, OpenStep
  <2>10. ASSUME NEW r \in Requests, Publish(r) \/ Refused(r) PROVE HiringInvariant'
    BY <2>10, RequestEnds
  <2>11. ASSUME NEW d \in Roles, Contact(d) PROVE HiringInvariant' BY <2>11, ContactStep
  <2>12. ASSUME NEW d \in Roles, NEW u \in Users,
                (\E h \in Seats : Stage(h, d, u)) \/ Unstage(d, u)
         PROVE  HiringInvariant'
    BY <2>12, StageSteps
  <2>13. ASSUME NEW d \in Roles, NEW u \in Users, Lapse(d, u) PROVE HiringInvariant'
    BY <2>13, LapseStep
  <2>14. ASSUME NEW d \in Roles, NEW u \in Users, NEW accept \in BOOLEAN, Respond(d, u, accept)
         PROVE  HiringInvariant'
    BY <2>14, RespondStep
  <2>15. CASE ExpireStale BY <2>15, ExpireStep
  <2> HIDE DEF HiringInvariant
  <2> QED BY <1>2, <2>1, <2>2, <2>3, <2>4, <2>5, <2>6, <2>7, <2>8, <2>9, <2>10, <2>11, <2>12,
             <2>13, <2>14, <2>15, Steps
<1> QED BY <1>1, <1>2

\* Offices, roles, requests in progress and answers stay sound, whatever
\* owners, hirers, administrators and contributors do, in any order.
THEOREM HiringIsSound == Spec => []HiringInvariant
BY InitHiring, NextHiring, PTL DEF Spec

\* Every table holds rows of its type, and nobody is staged and asked at once.
THEOREM HiringTypes == Spec => []TypeOK
<1>1. HiringInvariant => TypeOK BY DEF HiringInvariant
<1> QED BY <1>1, HiringIsSound, PTL

\* A main office is the only one an invariant office has.
LEMMA MainIsOne == HiringInvariant => OfficeHasMain
<1> SUFFICES ASSUME HiringInvariant PROVE OfficeHasMain OBVIOUS
<1>1. OfficesAreKept /\ workplace \in {"office", "fully_remote"} BY DEF HiringInvariant, TypeOK
<1>2. ASSUME workplace = "office" PROVE Cardinality({a \in LiveAddresses : addresses[a].main}) = 1
  <2>1. PICK a \in LiveAddresses : \A b \in LiveAddresses : addresses[b].main <=> b = a
    BY <1>1, <1>2 DEF OfficesAreKept
  <2>2. {b \in LiveAddresses : addresses[b].main} = {a} BY <2>1
  <2>3. Cardinality({a}) = 1 BY FS_Singleton
  <2> QED BY <2>2, <2>3
<1> QED BY <1>1, <1>2 DEF OfficesAreKept, OfficeHasMain

\* An organisation with an office has one main office, a remote one has no
\* address, and only a remote one waits to be given an office.
THEOREM OfficesKeepTheirMain == Spec => []OfficeHasMain
BY MainIsOne, HiringIsSound, PTL

\* A role that is out for the first time is onsite where the organisation is.
THEOREM RolesKeepTheirPlace == Spec => []RolesHaveAPlace
<1>1. HiringInvariant => RolesHaveAPlace BY DEF HiringInvariant
<1> QED BY <1>1, HiringIsSound, PTL

\* Whoever is recorded as hired accepted, and what a close says agrees with
\* whom it names.
THEOREM HiresStand == Spec => []HiresRecorded
<1>1. ASSUME HiringInvariant PROVE HiresRecorded
  <2>1. RowsAreSound /\ HiresAccepted BY <1>1 DEF HiringInvariant
  <2> QED BY <2>1 DEF RowsAreSound, RowSound, HiresAccepted, HiresRecorded
<1> QED BY <1>1, HiringIsSound, PTL

-----------------------------------------------------------------------------
(* What a step may never do                                                *)

\* A step that leaves the roles alone, or only adds to them, moves no place.
LEMMA PlacesAreKept ==
  HiringInvariant /\ [Next]_vars =>
    \A d \in Roles : roles[d].status # "draft" => roles'[d].places = roles[d].places
<1> SUFFICES ASSUME HiringInvariant, [Next]_vars, NEW d \in Roles, roles[d].status # "draft"
             PROVE  roles'[d].places = roles[d].places
  OBVIOUS
<1>1. CASE UNCHANGED roles BY <1>1
<1>2. ASSUME NEW h \in Seats, NEW in \in Sensible, CreateRole(h, in)
      PROVE  roles'[d].places = roles[d].places
  BY <1>2, CreateStep
<1>3. ASSUME NEW h \in Seats, NEW e \in Roles, NEW in \in Sensible, Revise(h, e, in)
      PROVE  roles'[d].places = roles[d].places
  BY <1>3, ReviseStep
<1>4. ASSUME NEW r \in Requests, Close(r) \/ AskToClose(r)
      PROVE  roles'[d].places = roles[d].places
  BY <1>4, CloseStep, AskStep
<1>5. ASSUME NEW r \in Requests, NEW in \in Sensible, Update(r, in)
      PROVE  roles'[d].places = roles[d].places
  BY <1>5, UpdateStep
<1>6. ASSUME NEW r \in Requests, Open(r) PROVE roles'[d].places = roles[d].places
  BY <1>6, OpenStep
<1>7. CASE Next
  <2>1. \A h \in Seats, s \in OrgSettings : SaveSettings(h, s) => UNCHANGED roles BY DEF SaveSettings
  <2>2. \A h \in Seats, e \in Roles : SaveOpening(h, e) \/ WithdrawOpening(h, e) => UNCHANGED roles
    BY DEF SaveOpening, WithdrawOpening
  <2>3. \A h \in Seats, e \in Roles, r \in Requests : Reads(r, h, e) => UNCHANGED roles
    BY DEF Reads, ReadDraft, ReadToOpen, ReadToPublish, ReadToClose, Begin
  <2>4. \A r \in Requests : Publish(r) \/ Refused(r) => UNCHANGED roles BY DEF Publish, Refused
  <2>5. \A e \in Roles : Contact(e) => UNCHANGED roles BY DEF Contact
  <2>6. \A e \in Roles, u \in Users :
          ((\E h \in Seats : Stage(h, e, u)) \/ Unstage(e, u) => UNCHANGED roles)
          /\ (Lapse(e, u) => UNCHANGED roles)
          /\ \A accept \in BOOLEAN : Respond(e, u, accept) => UNCHANGED roles
    BY DEF Stage, Unstage, Lapse, Respond
  <2>7. ExpireStale => UNCHANGED roles BY DEF ExpireStale
  <2> QED BY <1>1, <1>2, <1>3, <1>4, <1>5, <1>6, <1>7, <2>1, <2>2, <2>3, <2>4, <2>5, <2>6, <2>7, Steps
<1> QED BY <1>1, <1>7 DEF vars

\* What a role that was opened says of its places never changes, even under an
\* update that read it as a draft (Update, Revise).
THEOREM OpenedRolesStand == Spec => OpenRoleImmutable
<1> DEFINE Kept == \A d \in Roles : roles[d].status # "draft" => roles'[d].places = roles[d].places
<1>1. HiringInvariant /\ [Next]_vars => [Kept]_vars BY PlacesAreKept
<1>2. OpenRoleImmutable <=> [][Kept]_vars BY DEF OpenRoleImmutable
<1> HIDE DEF Kept
<1> QED BY <1>1, <1>2, HiringIsSound, PTL DEF Spec

-----------------------------------------------------------------------------
(* The promise                                                             *)

\* What the promise sees of an organisation's roles, and of its people.
OpenRoles == {d \in Roles : roles[d].status = "open"}
Said == [d \in AllRoles |-> [u \in Users |-> Answer(contact[d][u])]]
Released == [d \in AllRoles |-> {u \in Users : contact[d][u].released}]
Hired == [d \in AllRoles |-> IF d \in Roles THEN roles[d].hires ELSE {}]

\* What each status says.
LEMMA AnswersMean ==
  ASSUME NEW c \in ContactRow
  PROVE  /\ c.status = "none" => Answer(c) = "silent"
         /\ c.status = "pending" => Answer(c) = "asked"
         /\ c.status = "accepted" => Answer(c) = "yes"
         /\ c.status = "declined" => Answer(c) = "no"
         /\ c.status = "expired" => Answer(c) = "late"
BY DEF Answer, ContactRow

\* Answers that stay say the same, and release the same addresses.
LEMMA PeopleSayTheSame ==
  ASSUME HiringInvariant, HiringInvariant',
         \A d \in AllRoles, u \in Users :
           /\ contact'[d][u].status = contact[d][u].status
           /\ contact'[d][u].released = contact[d][u].released
  PROVE  UNCHANGED <<Said, Released>>
<1>1. \A d \in AllRoles, u \in Users : Answer(contact'[d][u]) = Answer(contact[d][u]) BY DEF Answer
<1> QED BY <1>1 DEF Said, Released, Answer

\* The promise as it reads here, action by action.
LEMMA PromiseSteps ==
  /\ UNCHANGED <<OpenRoles, Said, Released, Hired>> => UNCHANGED Promise!consentVars
  /\ \A d \in AllRoles :
       OpenRoles' = OpenRoles \cup {d} /\ UNCHANGED <<Said, Released, Hired>> => Promise!Open(d)
  /\ \A d \in AllRoles : \A who \in SUBSET {u \in Users : Said[d][u] = "yes"} :
       /\ OpenRoles' = OpenRoles \ {d} /\ Hired' = [Hired EXCEPT ![d] = Hired[d] \cup who]
       /\ UNCHANGED <<Said, Released>>
       => Promise!Close(d)
  /\ \A d \in OpenRoles \cap AllRoles : \A who \in SUBSET {u \in Users : Said[d][u] = "silent"} :
       /\ Said' = [Said EXCEPT ![d] =
                     [u \in Users |-> IF u \in who THEN "asked" ELSE Said[d][u]]]
       /\ UNCHANGED <<OpenRoles, Released, Hired>>
       => Promise!Ask(d)
  /\ \A d \in AllRoles, u \in Users :
       /\ Said[d][u] = "asked" /\ UNCHANGED <<OpenRoles, Hired>>
       /\ \/ /\ Said' = [Said EXCEPT ![d][u] = "yes"]
             /\ Released' = [Released EXCEPT ![d] = Released[d] \cup {u}]
          \/ Said' = [Said EXCEPT ![d][u] = "no"] /\ UNCHANGED Released
       => Promise!Say(d, u)
  /\ \A late \in [AllRoles -> SUBSET Users] :
       /\ \A d \in AllRoles : \A u \in late[d] : Said[d][u] = "asked"
       /\ Said' = [d \in AllRoles |-> [u \in Users |->
                     IF u \in late[d] THEN "late" ELSE Said[d][u]]]
       /\ UNCHANGED <<OpenRoles, Released, Hired>>
       => Promise!GiveUp
<1>1. UNCHANGED <<OpenRoles, Said, Released, Hired>> => UNCHANGED Promise!consentVars
  BY DEF OpenRoles, Said, Released, Hired, Promise!consentVars
<1>2. ASSUME NEW d \in AllRoles,
             OpenRoles' = OpenRoles \cup {d} /\ UNCHANGED <<Said, Released, Hired>>
      PROVE  Promise!Open(d)
  BY <1>2 DEF OpenRoles, Said, Released, Hired, Promise!Open
<1>3. ASSUME NEW d \in AllRoles, NEW who \in SUBSET {u \in Users : Said[d][u] = "yes"},
             OpenRoles' = OpenRoles \ {d}, Hired' = [Hired EXCEPT ![d] = Hired[d] \cup who],
             UNCHANGED <<Said, Released>>
      PROVE  Promise!Close(d)
  BY <1>3 DEF OpenRoles, Said, Released, Hired, Promise!Close
<1>4. ASSUME NEW d \in OpenRoles \cap AllRoles,
             NEW who \in SUBSET {u \in Users : Said[d][u] = "silent"},
             Said' = [Said EXCEPT ![d] =
                        [u \in Users |-> IF u \in who THEN "asked" ELSE Said[d][u]]],
             UNCHANGED <<OpenRoles, Released, Hired>>
      PROVE  Promise!Ask(d)
  BY <1>4 DEF OpenRoles, Said, Released, Hired, Promise!Ask
<1>5. ASSUME NEW d \in AllRoles, NEW u \in Users, Said[d][u] = "asked",
             UNCHANGED <<OpenRoles, Hired>>,
             \/ /\ Said' = [Said EXCEPT ![d][u] = "yes"]
                /\ Released' = [Released EXCEPT ![d] = Released[d] \cup {u}]
             \/ Said' = [Said EXCEPT ![d][u] = "no"] /\ UNCHANGED Released
      PROVE  Promise!Say(d, u)
  BY <1>5 DEF OpenRoles, Said, Released, Hired, Promise!Say
<1>6. ASSUME NEW late \in [AllRoles -> SUBSET Users],
             \A d \in AllRoles : \A u \in late[d] : Said[d][u] = "asked",
             Said' = [d \in AllRoles |-> [u \in Users |->
                        IF u \in late[d] THEN "late" ELSE Said[d][u]]],
             UNCHANGED <<OpenRoles, Released, Hired>>
      PROVE  Promise!GiveUp
  BY <1>6 DEF OpenRoles, Said, Released, Hired, Promise!GiveUp
<1> QED BY <1>1, <1>2, <1>3, <1>4, <1>5, <1>6

\* A role's status, whom it names and the drafts that are added.
LEMMA RolesSeen ==
  ASSUME HiringInvariant, HiringInvariant', Roles \subseteq Roles',
         \A d \in Roles' \ Roles : roles'[d].status = "draft" /\ roles'[d].hires = {},
         NEW d \in Roles, \A e \in Roles : e # d =>
           roles'[e].status = roles[e].status /\ roles'[e].hires = roles[e].hires,
         NEW who, roles'[d].hires = roles[d].hires \cup who
  PROVE  /\ roles'[d].status = "open" => OpenRoles' = OpenRoles \cup {d}
         /\ roles'[d].status # "open" => OpenRoles' = OpenRoles \ {d}
         /\ Hired' = [Hired EXCEPT ![d] = Hired[d] \cup who]
         /\ who = {} => Hired' = Hired
<1>1. Roles \subseteq AllRoles BY Tables DEF HiringInvariant
<1>2. \A e \in AllRoles : Hired'[e] = IF e = d THEN Hired[e] \cup who ELSE Hired[e]
  BY <1>1 DEF Hired
<1>3. Hired' = [Hired EXCEPT ![d] = Hired[d] \cup who] BY <1>1, <1>2 DEF Hired
<1>4. who = {} => Hired' = Hired BY <1>2 DEF Hired
<1>5. \A e \in Roles' : e # d => (e \in OpenRoles' <=> e \in OpenRoles)
  BY DEF OpenRoles
<1>6. OpenRoles' \subseteq Roles' /\ OpenRoles \subseteq Roles' BY DEF OpenRoles
<1>7. \A e : e # d => (e \in OpenRoles' <=> e \in OpenRoles) BY <1>5, <1>6
<1>8. d \in OpenRoles' <=> roles'[d].status = "open" BY DEF OpenRoles
<1>9. roles'[d].status = "open" => OpenRoles' = OpenRoles \cup {d} BY <1>7, <1>8
<1>10. roles'[d].status # "open" => OpenRoles' = OpenRoles \ {d} BY <1>7, <1>8
<1> QED BY <1>3, <1>4, <1>9, <1>10

\* The same where no role changes to what the promise sees.
LEMMA RolesSeenTheSame ==
  ASSUME HiringInvariant, HiringInvariant', Roles \subseteq Roles',
         \A d \in Roles' \ Roles : roles'[d].status = "draft" /\ roles'[d].hires = {},
         \A d \in Roles : roles'[d].status = roles[d].status /\ roles'[d].hires = roles[d].hires
  PROVE  UNCHANGED <<OpenRoles, Hired>>
<1>1. OpenRoles' = OpenRoles BY DEF OpenRoles
<1>2. Hired' = Hired BY DEF Hired
<1> QED BY <1>1, <1>2

\* A step that touches no role.
LEMMA NoRoleMoves == ASSUME UNCHANGED roles PROVE UNCHANGED <<OpenRoles, Hired>>
BY DEF OpenRoles, Hired, Roles

\* A step that touches nobody's request.
LEMMA NobodySpeaks == ASSUME UNCHANGED contact PROVE UNCHANGED <<Said, Released>>
BY DEF Said, Released, Answer

\* The organisation begins as the promise does.
LEMMA InitPromise == Init => Promise!Init
<1> SUFFICES ASSUME Init PROVE Promise!Init OBVIOUS
<1>1. roles = <<>> /\ contact = [d \in AllRoles |-> [u \in Users |-> NoContact]] BY DEF Init
<1>2. Roles = {} BY <1>1 DEF Roles
<1>3. Answer(NoContact) = "silent" /\ ~NoContact.released
  BY AnswersMean DEF NoContact, ContactRow
<1> QED BY <1>1, <1>2, <1>3 DEF Promise!Init

\* Every step on a role opens it, closes it on people who said yes, or is none
\* the promise sees.
LEMMA RolesPromise ==
  ASSUME HiringInvariant, HiringInvariant'
  PROVE  /\ \A h \in Seats, in \in Sensible : CreateRole(h, in) => UNCHANGED Promise!consentVars
         /\ \A r \in Requests, in \in Sensible : Update(r, in) => UNCHANGED Promise!consentVars
         /\ \A h \in Seats, d \in Roles, in \in Sensible : Revise(h, d, in) => Promise!Close(d)
         /\ \A r \in Requests : Open(r) => \E d \in AllRoles : Promise!Open(d)
         /\ \A r \in Requests : Close(r) => \E d \in AllRoles : Promise!Close(d)
         /\ \A r \in Requests : AskToClose(r) => UNCHANGED Promise!consentVars
<1>1. Roles \subseteq AllRoles /\ \A d \in Roles : roles[d] \in RoleRow
  BY Tables DEF HiringInvariant
<1>2. ASSUME NEW h \in Seats, NEW in \in Sensible, CreateRole(h, in)
      PROVE  UNCHANGED Promise!consentVars
  <2>1. UNCHANGED contact BY <1>2 DEF CreateRole
  <2>2. UNCHANGED <<OpenRoles, Hired>> BY <1>2, CreateStep, RolesSeenTheSame
  <2> QED BY <2>1, <2>2, NobodySpeaks, PromiseSteps
<1>3. ASSUME NEW r \in Requests, NEW in \in Sensible, Update(r, in)
      PROVE  UNCHANGED Promise!consentVars
  <2>1. UNCHANGED contact BY <1>3 DEF Update
  <2>2. UNCHANGED <<OpenRoles, Hired>> BY <1>3, UpdateStep, RolesSeenTheSame
  <2> QED BY <2>1, <2>2, NobodySpeaks, PromiseSteps
<1>4. ASSUME NEW h \in Seats, NEW d \in Roles, NEW in \in Sensible, Revise(h, d, in)
      PROVE  Promise!Close(d)
  <2>1. UNCHANGED <<Said, Released>>
    <3>1. UNCHANGED contact BY <1>4 DEF Revise
    <3> QED BY <3>1, NobodySpeaks
  <2>2. PICK who \in SUBSET {u \in Users : Said[d][u] = "yes"} : who = {} OBVIOUS
  <2>3. /\ Roles \subseteq Roles'
        /\ roles'[d].status # "open" /\ roles'[d].hires = roles[d].hires \cup who
        /\ \A e \in Roles : e # d =>
             roles'[e].status = roles[e].status /\ roles'[e].hires = roles[e].hires
        /\ \A e \in Roles' \ Roles : roles'[e].status = "draft" /\ roles'[e].hires = {}
    BY <1>4, <2>2, ReviseStep
  <2>4. OpenRoles' = OpenRoles \ {d} /\ Hired' = [Hired EXCEPT ![d] = Hired[d] \cup who]
    BY <2>3, RolesSeen
  <2> QED BY <1>1, <2>1, <2>4, PromiseSteps
<1>5. ASSUME NEW r \in Requests, Open(r) PROVE \E d \in AllRoles : Promise!Open(d)
  <2>1. PICK d : d = request[r].role OBVIOUS
  <2>2. UNCHANGED <<Said, Released>>
    <3>1. UNCHANGED contact BY <1>5 DEF Open
    <3> QED BY <3>1, NobodySpeaks
  <2>3. PICK who : who = {} OBVIOUS
  <2>4. /\ Roles \subseteq Roles' /\ d \in Roles /\ Roles' \ Roles = {}
        /\ roles'[d].status = "open" /\ roles'[d].hires = roles[d].hires \cup who
        /\ \A e \in Roles : e # d =>
             roles'[e].status = roles[e].status /\ roles'[e].hires = roles[e].hires
    BY <1>5, <2>1, <2>3, OpenStep
  <2>5. OpenRoles' = OpenRoles \cup {d} /\ Hired' = Hired BY <2>3, <2>4, RolesSeen
  <2> QED BY <1>1, <2>2, <2>4, <2>5, PromiseSteps
<1>6. ASSUME NEW r \in Requests, Close(r) PROVE \E d \in AllRoles : Promise!Close(d)
  <2>1. PICK d : d = request[r].role OBVIOUS
  <2>2. PICK who : who = request[r].who OBVIOUS
  <2>3. UNCHANGED <<Said, Released>>
    <3>1. UNCHANGED contact BY <1>6 DEF Close
    <3> QED BY <3>1, NobodySpeaks
  <2>4. /\ Roles \subseteq Roles' /\ d \in Roles /\ Roles' \ Roles = {} /\ who \subseteq Accepted(d)
        /\ roles'[d].status # "open" /\ roles'[d].hires = roles[d].hires \cup who
        /\ \A e \in Roles : e # d =>
             roles'[e].status = roles[e].status /\ roles'[e].hires = roles[e].hires
    BY <1>6, <2>1, <2>2, CloseStep
  <2>5. OpenRoles' = OpenRoles \ {d} /\ Hired' = [Hired EXCEPT ![d] = Hired[d] \cup who]
    BY <2>4, RolesSeen
  <2>6. \A u \in who : u \in Users /\ Said[d][u] = "yes"
    BY <1>1, <2>4, People, AnswersMean DEF Said, Accepted
  <2>7. who \in SUBSET {u \in Users : Said[d][u] = "yes"} BY <2>6
  <2> QED BY <1>1, <2>3, <2>4, <2>5, <2>7, PromiseSteps
<1>7. ASSUME NEW r \in Requests, AskToClose(r) PROVE UNCHANGED Promise!consentVars
  <2>1. UNCHANGED contact BY <1>7 DEF AskToClose
  <2>2. UNCHANGED <<OpenRoles, Hired>> BY <1>7, AskStep, RolesSeenTheSame
  <2> QED BY <2>1, <2>2, NobodySpeaks, PromiseSteps
<1> QED BY <1>2, <1>3, <1>4, <1>5, <1>6, <1>7

\* Every step on a person asks those nobody asked, takes an answer to what was
\* asked, ends what was asked, or is none the promise sees.
LEMMA PeoplePromise ==
  ASSUME HiringInvariant, HiringInvariant'
  PROVE  /\ \A d \in Roles : Contact(d) => Promise!Ask(d)
         /\ \A d \in Roles, u \in Users, accept \in BOOLEAN :
              Respond(d, u, accept) => Promise!Say(d, u)
         /\ \A d \in Roles, u \in Users : Lapse(d, u) => UNCHANGED Promise!consentVars
         /\ ExpireStale => Promise!GiveUp
<1>1. /\ Roles \subseteq AllRoles
      /\ \A d \in AllRoles, u \in Users : contact[d][u] \in ContactRow
      /\ staged \in [AllRoles -> SUBSET Users]
  BY People
<1>2. \A d \in AllRoles, u \in Users : contact'[d][u] \in ContactRow
  BY DEF HiringInvariant, TypeOK
<1>3. \A d \in AllRoles, u \in Users : Said[d][u] = Answer(contact[d][u]) BY DEF Said
<1>4. \A d \in AllRoles, u \in Users : Said'[d][u] = Answer(contact'[d][u]) BY DEF Said, Answer
<1>5. \A d \in AllRoles, u \in Users :
        contact'[d][u] = contact[d][u] => Said'[d][u] = Said[d][u]
  BY <1>3, <1>4
<1>6. ASSUME NEW d \in Roles, Contact(d) PROVE Promise!Ask(d)
  <2>1. /\ roles[d].status = "open" /\ UNCHANGED roles
        /\ \A e \in AllRoles, u \in Users :
             IF e = d /\ u \in staged[d]
             THEN /\ contact[e][u].status = "none" /\ contact'[e][u].status = "pending"
                  /\ ~contact[e][u].released /\ ~contact'[e][u].released
             ELSE contact'[e][u] = contact[e][u]
    BY <1>6, ContactStep DEF Contact
  <2>2. \A u \in staged[d] : u \in Users /\ Said[d][u] = "silent" /\ Said'[d][u] = "asked"
    BY <1>1, <1>2, <1>3, <1>4, <2>1, AnswersMean
  <2>3. PICK who \in SUBSET {u \in Users : Said[d][u] = "silent"} : who = staged[d] BY <2>2
  <2>4. \A e \in AllRoles, u \in Users : ~(e = d /\ u \in who) => Said'[e][u] = Said[e][u]
    BY <1>5, <2>1, <2>3
  <2>5. Said' = [Said EXCEPT ![d] = [u \in Users |-> IF u \in who THEN "asked" ELSE Said[d][u]]]
    <3>1. PICK row : row = [u \in Users |-> IF u \in who THEN "asked" ELSE Said[d][u]] OBVIOUS
    <3>2. Said'[d] = row
      <4>1. Said'[d] = [u \in Users |-> Said'[d][u]] BY <1>1 DEF Said
      <4>2. \A u \in Users : Said'[d][u] = IF u \in who THEN "asked" ELSE Said[d][u]
        BY <1>1, <2>2, <2>3, <2>4
      <4> QED BY <3>1, <4>1, <4>2
    <3>3. \A e \in AllRoles : e # d => Said'[e] = Said[e]
      <4> SUFFICES ASSUME NEW e \in AllRoles, e # d PROVE Said'[e] = Said[e] OBVIOUS
      <4>1. Said'[e] = [u \in Users |-> Said'[e][u]] /\ Said[e] = [u \in Users |-> Said[e][u]]
        BY DEF Said
      <4>2. \A u \in Users : Said'[e][u] = Said[e][u] BY <2>4
      <4> QED BY <4>1, <4>2
    <3> QED BY <1>1, <3>1, <3>2, <3>3 DEF Said
  <2>6. Released' = Released
    <3>1. \A e \in AllRoles, u \in Users : contact'[e][u].released <=> contact[e][u].released
      BY <2>1
    <3> QED BY <3>1 DEF Released
  <2>7. d \in OpenRoles /\ UNCHANGED <<OpenRoles, Hired>> BY <2>1, NoRoleMoves DEF OpenRoles
  <2> QED BY <1>1, <2>5, <2>6, <2>7, PromiseSteps
<1>7. ASSUME NEW d \in Roles, NEW u \in Users, NEW accept \in BOOLEAN, Respond(d, u, accept)
      PROVE  Promise!Say(d, u)
  <2>1. /\ contact[d][u].status = "pending" /\ ~contact[d][u].released /\ UNCHANGED roles
        /\ \/ contact'[d][u].status = "accepted" /\ contact'[d][u].released
           \/ contact'[d][u].status = "declined" /\ ~contact'[d][u].released
        /\ \A e \in AllRoles, v \in Users : ~(e = d /\ v = u) => contact'[e][v] = contact[e][v]
    BY <1>7, RespondStep DEF Respond
  <2>2. Said[d][u] = "asked" BY <1>1, <1>3, <2>1, AnswersMean
  <2>3. \A e \in AllRoles, v \in Users : ~(e = d /\ v = u) => Said'[e][v] = Said[e][v]
    BY <1>5, <2>1
  <2>4. PICK now : now = Said'[d][u] OBVIOUS
  <2>5. Said' = [Said EXCEPT ![d][u] = now]
    <3>1. PICK row : row = [Said[d] EXCEPT ![u] = now] OBVIOUS
    <3>2. Said'[d] = row
      <4>1. Said'[d] = [v \in Users |-> Said'[d][v]] /\ Said[d] = [v \in Users |-> Said[d][v]]
        BY <1>1 DEF Said
      <4>2. row = [v \in Users |-> row[v]] BY <3>1, <4>1
      <4>3. \A v \in Users : row[v] = IF v = u THEN now ELSE Said[d][v] BY <3>1, <4>1
      <4>4. \A v \in Users : Said'[d][v] = row[v] BY <1>1, <2>3, <2>4, <4>3
      <4> QED BY <4>1, <4>2, <4>4
    <3>3. \A e \in AllRoles : e # d => Said'[e] = Said[e]
      <4> SUFFICES ASSUME NEW e \in AllRoles, e # d PROVE Said'[e] = Said[e] OBVIOUS
      <4>1. Said'[e] = [v \in Users |-> Said'[e][v]] /\ Said[e] = [v \in Users |-> Said[e][v]]
        BY DEF Said
      <4>2. \A v \in Users : Said'[e][v] = Said[e][v] BY <2>3
      <4> QED BY <4>1, <4>2
    <3>4. Said' = [Said EXCEPT ![d] = row] BY <1>1, <3>2, <3>3 DEF Said
    <3> QED BY <3>1, <3>4
  <2>6. UNCHANGED <<OpenRoles, Hired>> BY <2>1, NoRoleMoves
  <2>7. CASE contact'[d][u].status = "accepted" /\ contact'[d][u].released
    <3>1. now = "yes" BY <1>1, <1>2, <1>4, <2>4, <2>7, AnswersMean
    <3>2. \A e \in AllRoles : Released'[e] = IF e = d THEN Released[e] \cup {u} ELSE Released[e]
      BY <2>1, <2>7 DEF Released
    <3>3. Released' = [Released EXCEPT ![d] = Released[d] \cup {u}] BY <1>1, <3>2 DEF Released
    <3> QED BY <1>1, <2>2, <2>5, <2>6, <3>1, <3>3, PromiseSteps
  <2>8. CASE contact'[d][u].status = "declined" /\ ~contact'[d][u].released
    <3>1. now = "no" BY <1>1, <1>2, <1>4, <2>4, <2>8, AnswersMean
    <3>2. \A e \in AllRoles, v \in Users : contact'[e][v].released <=> contact[e][v].released
      BY <2>1, <2>8
    <3>3. Released' = Released BY <3>2 DEF Released
    <3> QED BY <1>1, <2>2, <2>5, <2>6, <3>1, <3>3, PromiseSteps
  <2> QED BY <2>1, <2>7, <2>8
<1>8. ASSUME NEW d \in Roles, NEW u \in Users, Lapse(d, u) PROVE UNCHANGED Promise!consentVars
  <2>1. UNCHANGED <<Said, Released>> BY <1>8, LapseStep, PeopleSayTheSame
  <2>2. UNCHANGED roles BY <1>8 DEF Lapse
  <2> QED BY <2>1, <2>2, NoRoleMoves, PromiseSteps
<1>9. ASSUME ExpireStale PROVE Promise!GiveUp
  <2>1. \A d \in AllRoles, u \in Users :
          IF Stale(d, u)
          THEN /\ contact[d][u].status = "pending" /\ contact'[d][u].status = "expired"
               /\ contact'[d][u].released = contact[d][u].released
          ELSE contact'[d][u] = contact[d][u]
    BY <1>9, ExpireStep
  <2>2. PICK late \in [AllRoles -> SUBSET Users] :
          late = [d \in AllRoles |-> {u \in Users : Stale(d, u)}]
    OBVIOUS
  <2>3. \A d \in AllRoles, u \in Users : u \in late[d] <=> Stale(d, u) BY <2>2
  <2>4. \A d \in AllRoles : \A u \in late[d] : u \in Users /\ Said[d][u] = "asked"
    BY <1>1, <1>3, <2>1, <2>2, <2>3, AnswersMean
  <2>5. \A d \in AllRoles, u \in Users :
          Said'[d][u] = IF u \in late[d] THEN "late" ELSE Said[d][u]
    BY <1>2, <1>4, <1>5, <2>1, <2>3, AnswersMean
  <2>6. Said' = [d \in AllRoles |-> [u \in Users |-> Said'[d][u]]] BY DEF Said
  <2>7. Said' = [d \in AllRoles |-> [u \in Users |-> IF u \in late[d] THEN "late" ELSE Said[d][u]]]
    BY <2>5, <2>6
  <2>8. Released' = Released
    <3>1. \A d \in AllRoles, u \in Users : contact'[d][u].released = contact[d][u].released
      BY <2>1
    <3> QED BY <3>1 DEF Released
  <2>9. UNCHANGED <<OpenRoles, Hired>>
    <3>1. UNCHANGED roles BY <1>9 DEF ExpireStale
    <3> QED BY <3>1, NoRoleMoves
  <2> QED BY <2>4, <2>7, <2>8, <2>9, PromiseSteps
<1> QED BY <1>6, <1>7, <1>8, <1>9

\* Every step is one of the promise's, or none it sees.
LEMMA NextPromise ==
  HiringInvariant /\ HiringInvariant' /\ [Next]_vars => [Promise!Next]_(Promise!consentVars)
<1> SUFFICES ASSUME HiringInvariant, HiringInvariant', [Next]_vars
             PROVE  [Promise!Next]_(Promise!consentVars)
  OBVIOUS
<1>1. ASSUME UNCHANGED <<roles, contact>> PROVE UNCHANGED Promise!consentVars
  BY <1>1, NoRoleMoves, NobodySpeaks, PromiseSteps
<1>2. Roles \subseteq AllRoles BY Tables DEF HiringInvariant
<1>3. CASE UNCHANGED vars BY <1>1, <1>3 DEF vars
<1>4. CASE Next
  <2>1. CASE WorkplaceStep /\ UNCHANGED <<roles, settings, advert, staged, contact, request>>
    BY <1>1, <2>1
  <2>2. ASSUME NEW h \in Seats, NEW s \in OrgSettings, SaveSettings(h, s)
        PROVE  UNCHANGED Promise!consentVars
    BY <1>1, <2>2 DEF SaveSettings
  <2>3. ASSUME NEW h \in Seats, NEW in \in Sensible, CreateRole(h, in)
        PROVE  UNCHANGED Promise!consentVars
    BY <2>3, RolesPromise
  <2>4. ASSUME NEW h \in Seats, NEW d \in Roles, NEW in \in Sensible, Revise(h, d, in)
        PROVE  Promise!Next
    BY <1>2, <2>4, RolesPromise DEF Promise!Next
  <2>5. ASSUME NEW r \in Requests, Close(r) \/ AskToClose(r)
        PROVE  [Promise!Next]_(Promise!consentVars)
    BY <2>5, RolesPromise DEF Promise!Next
  <2>6. ASSUME NEW h \in Seats, NEW d \in Roles, SaveOpening(h, d) \/ WithdrawOpening(h, d)
        PROVE  UNCHANGED Promise!consentVars
    BY <1>1, <2>6 DEF SaveOpening, WithdrawOpening
  <2>7. ASSUME NEW h \in Seats, NEW d \in Roles, NEW r \in Requests, Reads(r, h, d)
        PROVE  UNCHANGED Promise!consentVars
    BY <1>1, <2>7 DEF Reads, ReadDraft, ReadToOpen, ReadToPublish, ReadToClose, Begin
  <2>8. ASSUME NEW r \in Requests, NEW in \in Sensible, Update(r, in)
        PROVE  UNCHANGED Promise!consentVars
    BY <2>8, RolesPromise
  <2>9. ASSUME NEW r \in Requests, Open(r) PROVE Promise!Next
    BY <2>9, RolesPromise DEF Promise!Next
  <2>10. ASSUME NEW r \in Requests, Publish(r) \/ Refused(r) PROVE UNCHANGED Promise!consentVars
    BY <1>1, <2>10 DEF Publish, Refused
  <2>11. ASSUME NEW d \in Roles, Contact(d) PROVE Promise!Next
    BY <1>2, <2>11, PeoplePromise DEF Promise!Next
  <2>12. ASSUME NEW d \in Roles, NEW u \in Users,
                (\E h \in Seats : Stage(h, d, u)) \/ Unstage(d, u)
         PROVE  UNCHANGED Promise!consentVars
    BY <1>1, <2>12 DEF Stage, Unstage
  <2>13. ASSUME NEW d \in Roles, NEW u \in Users, Lapse(d, u)
         PROVE  UNCHANGED Promise!consentVars
    BY <2>13, PeoplePromise
  <2>14. ASSUME NEW d \in Roles, NEW u \in Users, NEW accept \in BOOLEAN, Respond(d, u, accept)
         PROVE  Promise!Next
    BY <1>2, <2>14, PeoplePromise DEF Promise!Next
  <2>15. CASE ExpireStale BY <2>15, PeoplePromise DEF Promise!Next
  <2> QED BY <1>4, <2>1, <2>2, <2>3, <2>4, <2>5, <2>6, <2>7, <2>8, <2>9, <2>10, <2>11, <2>12,
             <2>13, <2>14, <2>15, Steps
<1> QED BY <1>3, <1>4

\* Roles, requests, answers and the nightly expiry keep a contributor's promise:
\* asked about an open job only, answered once, the address handed over by a
\* yes alone, and hired only after one.
THEOREM ConsentIsKept == Spec => ConsentPromise
BY InitPromise, NextPromise, HiringIsSound, PTL DEF Spec, ConsentPromise, Promise!Spec
=============================================================================
