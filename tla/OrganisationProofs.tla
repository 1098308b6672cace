------------------------- MODULE OrganisationProofs -------------------------
(***************************************************************************)
(* That a username is held once, that a seat ends with its roster entry,   *)
(* that companies stand, and that the promise of the namespace is kept,    *)
(* for any names, addresses and companies, and any number of entries,      *)
(* codes, forms and requests in progress.                                  *)
(***************************************************************************)
EXTENDS OrganisationProperties, FiniteSetTheorems, SequenceTheorems, TLAPS

-----------------------------------------------------------------------------
(* Tables                                                                  *)

\* A row is added at the end of a table.
LEMMA RowAdded ==
  ASSUME NEW S, NEW s \in Seq(S), NEW x \in S, NEW t, t = Append(s, x)
  PROVE  /\ t \in Seq(S) /\ Len(t) = Len(s) + 1 /\ Len(s) \in Nat
         /\ DOMAIN t = DOMAIN s \cup {Len(s) + 1} /\ Len(s) + 1 \notin DOMAIN s
         /\ \A i \in DOMAIN s : t[i] = s[i]
         /\ t[Len(s) + 1] = x
<1>1. Len(s) \in Nat /\ DOMAIN s = 1 .. Len(s) BY LenProperties
<1>2. /\ t \in Seq(S) /\ Len(t) = Len(s) + 1
      /\ \A i \in 1 .. Len(s) : t[i] = s[i]
      /\ t[Len(s) + 1] = x
  BY AppendProperties
<1>3. DOMAIN t = 1 .. Len(s) + 1 BY <1>2, LenProperties
<1> QED BY <1>1, <1>2, <1>3

\* A row of a table is written again.
LEMMA RowReplaced ==
  ASSUME NEW S, NEW s \in Seq(S), NEW i \in DOMAIN s, NEW x \in S, NEW t, t = [s EXCEPT ![i] = x]
  PROVE  /\ t \in Seq(S) /\ Len(t) = Len(s) /\ DOMAIN t = DOMAIN s
         /\ t[i] = x /\ \A j \in DOMAIN s : j # i => t[j] = s[j]
<1>1. i \in 1 .. Len(s) BY LenProperties
<1> QED BY <1>1, ExceptSeq

\* Every row of a table is written again.
LEMMA RowsMapped ==
  ASSUME NEW S, NEW s \in Seq(S), NEW t, t = [i \in DOMAIN s |-> t[i]],
         \A i \in DOMAIN s : t[i] \in S
  PROVE  t \in Seq(S) /\ Len(t) = Len(s) /\ DOMAIN t = DOMAIN s
<1>1. Len(s) \in Nat /\ DOMAIN s = 1 .. Len(s) BY LenProperties
<1>2. PICK n : n = Len(s) OBVIOUS
<1>3. t = [i \in 1 .. n |-> t[i]] /\ n \in Nat /\ \A i \in 1 .. n : t[i] \in S BY <1>1, <1>2
<1>4. t \in Seq(S) BY <1>3, IsASeq
<1>5. DOMAIN t = 1 .. n BY <1>3
<1>6. Len(t) = n BY <1>3, <1>4, <1>5, LenProperties
<1> QED BY <1>1, <1>2, <1>4, <1>5, <1>6

\* The tables as functions of their rows.
LEMMA Tables ==
  ASSUME TypeOK
  PROVE  /\ roster \in Seq(RosterRow) /\ Entries = 1 .. Len(roster) /\ Len(roster) \in Nat
         /\ proofs \in Seq(ProofRow) /\ Proofs = 1 .. Len(proofs) /\ Len(proofs) \in Nat
         /\ forms \in Seq(FormRow) /\ Forms = 1 .. Len(forms) /\ Len(forms) \in Nat
         /\ Entries \subseteq 1 .. MaxEntries /\ Forms \subseteq 1 .. MaxForms
         /\ Proofs \subseteq 1 .. MaxProofs
         /\ \A e \in Entries : roster[e] \in RosterRow
         /\ \A p \in Proofs : proofs[p] \in ProofRow
         /\ \A f \in Forms : forms[f] \in FormRow
         /\ seats \in [Names -> SeatRow \cup {NoSeat}]
         /\ \A n \in Names : seats[n] \in SeatRow \cup {NoSeat}
         /\ \A n \in Names : seats[n].exists => seats[n] \in SeatRow
<1>1. roster \in Seq(RosterRow) /\ Len(roster) <= MaxEntries BY DEF TypeOK
<1>2. proofs \in Seq(ProofRow) /\ Len(proofs) <= MaxProofs BY DEF TypeOK
<1>3. forms \in Seq(FormRow) /\ Len(forms) <= MaxForms BY DEF TypeOK
<1>4. Len(roster) \in Nat /\ Entries = 1 .. Len(roster) BY <1>1, LenProperties DEF Entries
<1>5. Len(proofs) \in Nat /\ Proofs = 1 .. Len(proofs) BY <1>2, LenProperties DEF Proofs
<1>6. Len(forms) \in Nat /\ Forms = 1 .. Len(forms) BY <1>3, LenProperties DEF Forms
<1>7. \A e \in Entries : roster[e] \in RosterRow BY <1>1, <1>4, ElementOfSeq
<1>8. \A p \in Proofs : proofs[p] \in ProofRow BY <1>2, <1>5, ElementOfSeq
<1>9. \A f \in Forms : forms[f] \in FormRow BY <1>3, <1>6, ElementOfSeq
<1>10. seats \in [Names -> SeatRow \cup {NoSeat}] BY DEF TypeOK
<1>11. ~NoSeat.exists BY DEF NoSeat
<1>12. \A n \in Names : seats[n].exists => seats[n] \in SeatRow BY <1>10, <1>11
<1>13. /\ Entries \subseteq 1 .. MaxEntries /\ Forms \subseteq 1 .. MaxForms
       /\ Proofs \subseteq 1 .. MaxProofs
  BY <1>1, <1>2, <1>3, <1>4, <1>5, <1>6, OrganisationsAssumption
<1> QED BY <1>1, <1>2, <1>3, <1>4, <1>5, <1>6, <1>7, <1>8, <1>9, <1>10, <1>12, <1>13

\* A seat that exists is a whole row.
LEMMA SeatFields ==
  ASSUME TypeOK, NEW n \in Names, seats[n].exists
  PROVE  /\ seats[n].org \in Slugs \cup {Independent} /\ seats[n].role \in {"owner", "member", "none"}
         /\ seats[n].entry \in 0 .. MaxEntries /\ seats[n].disabled \in BOOLEAN
         /\ seats[n].review \in {"none", "pending", "approved", "rejected"}
         /\ seats[n].verified \in BOOLEAN
<1>1. seats[n] \in SeatRow BY Tables
<1> QED BY <1>1 DEF SeatRow

-----------------------------------------------------------------------------
(* Codes and requests                                                      *)

\* What a step leaves alone stays sound when only codes and requests change.
LEMMA OnlyCodesMove ==
  ASSUME OrganisationInvariant, UNCHANGED <<usernames, organizations, seats, roster, forms>>,
         proofs' \in Seq(ProofRow), Len(proofs') <= MaxProofs, ProofsAreSound',
         request' \in [Requests -> Request], RequestsAreSound'
  PROVE  OrganisationInvariant'
<1>1. TypeOK' BY DEF OrganisationInvariant, TypeOK, Forms
<1>2. NamesAreHeld'
  <2>1. \A n \in Names : Offers(n)' = Offers(n) /\ Waiting(n)' = Waiting(n)
    BY DEF Offers, Waiting, Redeemable, Entries, Forms
  <2> QED BY <2>1 DEF OrganisationInvariant, NamesAreHeld, NameSound
<1>3. RosterIsKept' BY DEF OrganisationInvariant, RosterIsKept, Entries
<1>4. SeatsAreSound' BY DEF OrganisationInvariant, SeatsAreSound, SeatSound, SeatsHeld, Entries
<1>5. RemovedEndsSeat' BY DEF OrganisationInvariant, RemovedEndsSeat, SeatsHeld
<1>6. FormsAreSound' BY DEF OrganisationInvariant, FormsAreSound, Forms
<1>7. CompaniesAreKept'
  BY DEF OrganisationInvariant, CompaniesAreKept, SeatsHeld, requireOwnerOf, Approved, Founders, Forms
<1> QED BY <1>1, <1>2, <1>3, <1>4, <1>5, <1>6, <1>7 DEF OrganisationInvariant

\* A code that is written again keeps what it is for, and never works again.
LEMMA CodeWritten ==
  ASSUME OrganisationInvariant, NEW p \in Proofs, NEW row \in ProofRow,
         row.purpose = proofs[p].purpose, row.subject = proofs[p].subject,
         row.state = "outstanding" => proofs[p].state = "outstanding",
         NEW codes, codes = [proofs EXCEPT ![p] = row]
  PROVE  /\ codes \in Seq(ProofRow) /\ Len(codes) = Len(proofs) /\ DOMAIN codes = Proofs
         /\ \A q \in Proofs :
              /\ codes[q].purpose = proofs[q].purpose /\ codes[q].subject = proofs[q].subject
              /\ codes[q].state = "outstanding" => proofs[q].state = "outstanding"
<1>1. proofs \in Seq(ProofRow) /\ p \in DOMAIN proofs
  BY Tables DEF OrganisationInvariant, Proofs
<1>2. /\ codes \in Seq(ProofRow) /\ Len(codes) = Len(proofs) /\ DOMAIN codes = DOMAIN proofs
      /\ codes[p] = row /\ \A q \in DOMAIN proofs : q # p => codes[q] = proofs[q]
  BY <1>1, RowReplaced
<1>3. \A q \in Proofs :
        /\ codes[q].purpose = proofs[q].purpose /\ codes[q].subject = proofs[q].subject
        /\ codes[q].state = "outstanding" => proofs[q].state = "outstanding"
  <2> SUFFICES ASSUME NEW q \in Proofs
               PROVE  /\ codes[q].purpose = proofs[q].purpose /\ codes[q].subject = proofs[q].subject
                      /\ codes[q].state = "outstanding" => proofs[q].state = "outstanding"
    OBVIOUS
  <2>1. CASE q = p BY <1>2, <2>1
  <2>2. CASE q # p BY <1>2, <2>2 DEF Proofs
  <2> QED BY <2>1, <2>2
<1> QED BY <1>2, <1>3 DEF Proofs

\* A code that is spent.
LEMMA CodeSpent ==
  ASSUME OrganisationInvariant, NEW p \in Proofs, NEW codes, codes = Consumed(p)
  PROVE  /\ codes \in Seq(ProofRow) /\ Len(codes) = Len(proofs) /\ DOMAIN codes = Proofs
         /\ \A q \in Proofs :
              /\ codes[q].purpose = proofs[q].purpose /\ codes[q].subject = proofs[q].subject
              /\ codes[q].state = "outstanding" => proofs[q].state = "outstanding"
<1>1. PICK row : row = [proofs[p] EXCEPT !.state = "consumed"] OBVIOUS
<1>2. proofs[p] \in ProofRow BY Tables DEF OrganisationInvariant
<1>3. /\ row \in ProofRow /\ row.purpose = proofs[p].purpose /\ row.subject = proofs[p].subject
      /\ row.state # "outstanding"
  BY <1>1, <1>2 DEF ProofRow
<1>4. codes = [proofs EXCEPT ![p] = row] BY <1>1 DEF Consumed
<1> QED BY <1>3, <1>4, CodeWritten

\* A code for an entry or a form there is may be added.
LEMMA CodeAdded ==
  ASSUME OrganisationInvariant, NEW codes \in Seq(ProofRow), Len(codes) = Len(proofs),
         DOMAIN codes = Proofs, Len(proofs) < MaxProofs,
         \A q \in Proofs :
           /\ codes[q].purpose = proofs[q].purpose /\ codes[q].subject = proofs[q].subject
           /\ codes[q].state = "outstanding" => proofs[q].state = "outstanding",
         NEW email \in Emails, NEW purpose \in {"roster", "onboarding"}, NEW subject \in Nat,
         proofs' = Append(codes, Proof(email, purpose, subject))
  PROVE  /\ proofs' \in Seq(ProofRow) /\ Len(proofs') <= MaxProofs
         /\ Proofs' = Proofs \cup {Len(proofs) + 1}
         /\ \A q \in Proofs :
              /\ proofs'[q].purpose = proofs[q].purpose /\ proofs'[q].subject = proofs[q].subject
              /\ proofs'[q].state = "outstanding" => proofs[q].state = "outstanding"
         /\ Len(proofs) + 1 \notin Proofs
         /\ proofs'[Len(proofs) + 1].purpose = purpose
         /\ proofs'[Len(proofs) + 1].subject = subject
<1>1. PICK row : row = Proof(email, purpose, subject) OBVIOUS
<1>2. row \in ProofRow /\ row.purpose = purpose /\ row.subject = subject
  BY <1>1 DEF Proof, ProofRow
<1>3. proofs' = Append(codes, row) BY <1>1
<1>4. PICK t : t = proofs' OBVIOUS
<1>5. /\ t \in Seq(ProofRow) /\ Len(t) = Len(codes) + 1 /\ Len(codes) \in Nat
      /\ DOMAIN t = DOMAIN codes \cup {Len(codes) + 1} /\ Len(codes) + 1 \notin DOMAIN codes
      /\ \A i \in DOMAIN codes : t[i] = codes[i]
      /\ t[Len(codes) + 1] = row
  BY <1>2, <1>3, <1>4, RowAdded
<1>6. Len(proofs') <= MaxProofs BY <1>4, <1>5, OrganisationsAssumption
<1> QED BY <1>2, <1>4, <1>5, <1>6 DEF Proofs

\* A code stays sound while what it is for stays, and no form it works for goes.
LEMMA CodeStays ==
  ASSUME OrganisationInvariant, NEW p \in Proofs,
         proofs'[p].purpose = proofs[p].purpose, proofs'[p].subject = proofs[p].subject,
         proofs'[p].state = "outstanding" => proofs[p].state = "outstanding",
         Entries \subseteq Entries', Forms \subseteq Forms',
         proofs'[p].purpose = "onboarding" /\ proofs'[p].state = "outstanding" =>
           (forms'[proofs[p].subject].deleted => forms[proofs[p].subject].deleted)
  PROVE  ProofSound(p)'
<1>1. ProofSound(p) BY DEF OrganisationInvariant, ProofsAreSound
<1>2. proofs[p].purpose \in {"roster", "onboarding"}
  BY Tables DEF OrganisationInvariant, ProofRow
<1> QED BY <1>1, <1>2 DEF ProofSound

\* What a request has read stays sound while no row goes and a redemption
\* stands.
LEMMA ReadStays ==
  ASSUME OrganisationInvariant, Entries \subseteq Entries', Forms \subseteq Forms', Proofs \subseteq Proofs',
         \A e \in Entries :
           roster[e].redeemedBy # Nobody => roster'[e].redeemedBy = roster[e].redeemedBy,
         NEW q, RequestSound(q)
  PROVE  /\ q.pc = "removing" =>
              /\ q.id \in Entries'
              /\ q.seat # Nobody => roster'[q.id].redeemedBy = q.seat
         /\ q.pc = "resending" => q.id \in Proofs'
         /\ q.pc = "revising" => q.id \in Forms'
BY DEF RequestSound

\* One request moves, and the others wait with what they have read.
LEMMA RequestMoves ==
  ASSUME OrganisationInvariant, Entries \subseteq Entries', Forms \subseteq Forms', Proofs \subseteq Proofs',
         \A e \in Entries :
           roster[e].redeemedBy # Nobody => roster'[e].redeemedBy = roster[e].redeemedBy,
         NEW r \in Requests, NEW q \in Request, RequestSound(q),
         request' = [request EXCEPT ![r] = q]
  PROVE  request' \in [Requests -> Request] /\ RequestsAreSound'
<1>1. request \in [Requests -> Request] BY DEF OrganisationInvariant, TypeOK
<1>2. ASSUME NEW s \in Requests PROVE RequestSound(request[s])'
  <2>1. PICK read : read = request'[s] OBVIOUS
  <2>2. RequestSound(read)
    <3>1. CASE s = r BY <1>1, <2>1, <3>1
    <3>2. CASE s # r BY <1>1, <2>1, <3>2 DEF OrganisationInvariant, RequestsAreSound
    <3> QED BY <3>1, <3>2
  <2>3. /\ read.pc = "removing" =>
             /\ read.id \in Entries'
             /\ read.seat # Nobody => roster'[read.id].redeemedBy = read.seat
        /\ read.pc = "resending" => read.id \in Proofs'
        /\ read.pc = "revising" => read.id \in Forms'
    BY <2>2, ReadStays
  <2> QED BY <2>1, <2>3 DEF RequestSound
<1> QED BY <1>1, <1>2 DEF RequestsAreSound

\* No request moves.
LEMMA RequestsWait ==
  ASSUME OrganisationInvariant, Entries \subseteq Entries', Forms \subseteq Forms', Proofs \subseteq Proofs',
         \A e \in Entries :
           roster[e].redeemedBy # Nobody => roster'[e].redeemedBy = roster[e].redeemedBy,
         UNCHANGED request
  PROVE  request' \in [Requests -> Request] /\ RequestsAreSound'
<1>1. request \in [Requests -> Request] BY DEF OrganisationInvariant, TypeOK
<1>2. ASSUME NEW s \in Requests PROVE RequestSound(request[s])'
  <2>1. PICK read : read = request[s] OBVIOUS
  <2>2. RequestSound(read) BY <2>1 DEF OrganisationInvariant, RequestsAreSound
  <2>3. /\ read.pc = "removing" =>
             /\ read.id \in Entries'
             /\ read.seat # Nobody => roster'[read.id].redeemedBy = read.seat
        /\ read.pc = "resending" => read.id \in Proofs'
        /\ read.pc = "revising" => read.id \in Forms'
    BY <2>2, ReadStays
  <2> QED BY <2>1, <2>3 DEF RequestSound
<1> QED BY <1>1, <1>2 DEF RequestsAreSound

\* A request that is answered has read nothing.
LEMMA NothingIsRead == Idle \in Request /\ RequestSound(Idle)
BY DEF Idle, Request, RequestSound

\* A request begins with what it reads, and changes nothing else (RosterEntryByID,
\* ReadOutstanding).
LEMMA BeginStep ==
  ASSUME OrganisationInvariant, NEW r \in Requests, NEW pc \in {"removing", "resending"},
         NEW id \in Nat, NEW seat \in Names \cup {Nobody}, Begin(r, pc, id, seat),
         pc = "removing" => id \in Entries /\ (seat # Nobody => roster[id].redeemedBy = seat),
         pc = "resending" => id \in Proofs
  PROVE  OrganisationInvariant'
<1>1. PICK q : q = [pc |-> pc, id |-> id, seat |-> seat] OBVIOUS
<1>2. q \in Request /\ RequestSound(q) BY <1>1 DEF Request, RequestSound
<1>3. /\ request' = [request EXCEPT ![r] = q]
      /\ UNCHANGED <<usernames, organizations, seats, roster, proofs, forms>>
  BY <1>1 DEF Begin
<1>4. UNCHANGED <<Entries, Forms, Proofs>> BY <1>3 DEF Entries, Forms, Proofs
<1>5. request' \in [Requests -> Request] /\ RequestsAreSound' BY <1>2, <1>3, <1>4, RequestMoves
<1>6. ProofsAreSound' /\ proofs' \in Seq(ProofRow) /\ Len(proofs') <= MaxProofs
  BY <1>3, <1>4 DEF OrganisationInvariant, TypeOK, ProofsAreSound, ProofSound
<1> QED BY <1>3, <1>5, <1>6, OnlyCodesMove

\* What was read of an entry or a code is there.
LEMMA ReadSteps ==
  ASSUME OrganisationInvariant, NEW r \in Requests
  PROVE  /\ \A owner \in Names, e \in Entries : RosterEntryByID(r, owner, e) => OrganisationInvariant'
         /\ \A email \in Emails : ReadOutstanding(r, email) => OrganisationInvariant'
<1>1. TypeOK BY DEF OrganisationInvariant
<1>2. ASSUME NEW owner \in Names, NEW e \in Entries, RosterEntryByID(r, owner, e)
      PROVE  OrganisationInvariant'
  <2>1. PICK seat : seat = roster[e].redeemedBy OBVIOUS
  <2>2. seat \in Names \cup {Nobody} BY <1>1, <2>1, Tables DEF RosterRow
  <2>3. e \in Nat BY <1>1, Tables
  <2>4. Begin(r, "removing", e, seat) BY <1>2, <2>1 DEF RosterEntryByID
  <2> QED BY <2>1, <2>2, <2>3, <2>4, BeginStep
<1>3. ASSUME NEW email \in Emails, ReadOutstanding(r, email) PROVE OrganisationInvariant'
  <2>1. PICK p \in Outstanding(email) : Begin(r, "resending", p, Nobody) BY <1>3 DEF ReadOutstanding
  <2>2. p \in Proofs /\ p \in Nat BY <1>1, Tables DEF Outstanding
  <2> QED BY <2>1, <2>2, BeginStep
<1> QED BY <1>2, <1>3

\* What follows from a change of the codes alone, entry and form being there.
LEMMA CodesMove ==
  ASSUME OrganisationInvariant, UNCHANGED <<usernames, organizations, seats, roster, forms>>,
         proofs' \in Seq(ProofRow), Len(proofs') <= MaxProofs, Proofs \subseteq Proofs',
         \A q \in Proofs :
           /\ proofs'[q].purpose = proofs[q].purpose /\ proofs'[q].subject = proofs[q].subject
           /\ proofs'[q].state = "outstanding" => proofs[q].state = "outstanding",
         \A q \in Proofs' \ Proofs : ProofSound(q)',
         request' \in [Requests -> Request], RequestsAreSound'
  PROVE  OrganisationInvariant'
<1>1. UNCHANGED <<Entries, Forms>> BY DEF Entries, Forms
<1>2. \A q \in Proofs : ProofSound(q)' BY <1>1, CodeStays
<1>3. ProofsAreSound' BY <1>2 DEF ProofsAreSound
<1> QED BY <1>3, OnlyCodesMove

\* A proof sent to the address of an entry or a form there is.
LEMMA CodeMinted ==
  ASSUME OrganisationInvariant, UNCHANGED <<usernames, organizations, seats, roster, forms>>,
         NEW codes \in Seq(ProofRow), Len(codes) = Len(proofs),
         DOMAIN codes = Proofs, RoomForProof,
         \A q \in Proofs :
           /\ codes[q].purpose = proofs[q].purpose /\ codes[q].subject = proofs[q].subject
           /\ codes[q].state = "outstanding" => proofs[q].state = "outstanding",
         NEW email \in Emails, NEW purpose \in {"roster", "onboarding"}, NEW subject \in Nat,
         proofs' = Append(codes, Proof(email, purpose, subject)),
         purpose = "roster" => subject \in Entries,
         purpose = "onboarding" => subject \in Forms /\ ~forms[subject].deleted,
         request' \in [Requests -> Request], RequestsAreSound'
  PROVE  OrganisationInvariant'
<1>1. Len(proofs) < MaxProofs BY DEF RoomForProof
<1>2. /\ proofs' \in Seq(ProofRow) /\ Len(proofs') <= MaxProofs
      /\ Proofs' = Proofs \cup {Len(proofs) + 1}
      /\ \A q \in Proofs :
           /\ proofs'[q].purpose = proofs[q].purpose /\ proofs'[q].subject = proofs[q].subject
           /\ proofs'[q].state = "outstanding" => proofs[q].state = "outstanding"
      /\ Len(proofs) + 1 \notin Proofs
      /\ proofs'[Len(proofs) + 1].purpose = purpose
      /\ proofs'[Len(proofs) + 1].subject = subject
  BY <1>1, CodeAdded
<1>3. PICK k : k = Len(proofs) + 1 OBVIOUS
<1>4. UNCHANGED <<Entries, Forms>> BY DEF Entries, Forms
<1>5. \A q \in Proofs' \ Proofs : ProofSound(q)' BY <1>2, <1>3, <1>4 DEF ProofSound
<1> QED BY <1>2, <1>5, CodesMove

\* Sign-up by the roster sends a code for an entry nobody redeemed (StartRedemption).
LEMMA StartStep ==
  ASSUME OrganisationInvariant, NEW o \in Slugs, NEW email \in Emails, StartRedemption(o, email)
  PROVE  OrganisationInvariant'
<1>1. TypeOK BY DEF OrganisationInvariant
<1>2. /\ RoomForProof /\ UNCHANGED <<usernames, organizations, seats, roster, forms, request>>
      /\ \E e \in RosterEntryByEmail(o, email) :
           proofs' = Append(proofs, Proof(email, "roster", e))
  BY DEF StartRedemption
<1>3. PICK e \in RosterEntryByEmail(o, email) : proofs' = Append(proofs, Proof(email, "roster", e))
  BY <1>2
<1>4. e \in Entries /\ e \in Nat BY <1>1, Tables DEF RosterEntryByEmail
<1>5. proofs \in Seq(ProofRow) /\ DOMAIN proofs = Proofs BY <1>1, Tables DEF Proofs
<1>6. Proofs \subseteq Proofs'
  <2>1. Len(proofs) < MaxProofs BY <1>2 DEF RoomForProof
  <2> QED BY <1>3, <1>4, <1>5, <2>1, CodeAdded
<1>7. request' \in [Requests -> Request] /\ RequestsAreSound'
  BY <1>2, <1>6, RequestsWait DEF Entries, Forms
<1> QED BY <1>2, <1>3, <1>4, <1>5, <1>7, CodeMinted

\* A code is sent again, in the place of the one that was read; one that was
\* spent meanwhile is left (ResendVerification).
LEMMA ResendStep ==
  ASSUME OrganisationInvariant, NEW r \in Requests, ResendVerification(r)
  PROVE  OrganisationInvariant'
<1>1. TypeOK BY DEF OrganisationInvariant
<1>2. PICK p : p = request[r].id OBVIOUS
<1>3. /\ request[r].pc = "resending" /\ request' = [request EXCEPT ![r] = Idle]
      /\ UNCHANGED <<usernames, organizations, seats, roster, forms>>
  BY DEF ResendVerification, End
<1>4. p \in Proofs BY <1>2, <1>3 DEF OrganisationInvariant, RequestsAreSound, RequestSound
<1>5. proofs \in Seq(ProofRow) /\ DOMAIN proofs = Proofs /\ proofs[p] \in ProofRow
  BY <1>1, <1>4, Tables DEF Proofs
<1>6. UNCHANGED <<Entries, Forms>> BY <1>3 DEF Entries, Forms
<1>7. CASE proofs[p].state = "outstanding" /\ RoomForProof
  <2>1. PICK codes : codes = Consumed(p) OBVIOUS
  <2>2. /\ codes \in Seq(ProofRow) /\ Len(codes) = Len(proofs) /\ DOMAIN codes = Proofs
        /\ \A q \in Proofs :
             /\ codes[q].purpose = proofs[q].purpose /\ codes[q].subject = proofs[q].subject
             /\ codes[q].state = "outstanding" => proofs[q].state = "outstanding"
    BY <1>4, <2>1, CodeSpent
  <2>3. PICK email, purpose, subject :
          email = proofs[p].email /\ purpose = proofs[p].purpose /\ subject = proofs[p].subject
    OBVIOUS
  <2>4. email \in Emails /\ purpose \in {"roster", "onboarding"} /\ subject \in Nat
    BY <1>5, <2>3 DEF ProofRow
  <2>5. proofs' = Append(codes, Proof(email, purpose, subject))
    BY <1>2, <1>7, <2>1, <2>3 DEF ResendVerification
  <2>6. ProofSound(p) BY <1>4 DEF OrganisationInvariant, ProofsAreSound
  <2>7. /\ purpose = "roster" => subject \in Entries
        /\ purpose = "onboarding" => subject \in Forms /\ ~forms[subject].deleted
    BY <1>7, <2>3, <2>6 DEF ProofSound
  <2>8. Proofs \subseteq Proofs'
    <3>1. Len(proofs) < MaxProofs BY <1>7 DEF RoomForProof
    <3> QED BY <2>2, <2>4, <2>5, <3>1, CodeAdded
  <2>9. request' \in [Requests -> Request] /\ RequestsAreSound'
    BY <1>3, <1>6, <2>8, RequestMoves, NothingIsRead
  <2> QED BY <1>3, <1>7, <2>2, <2>4, <2>5, <2>7, <2>9, CodeMinted
<1>8. CASE ~(proofs[p].state = "outstanding" /\ RoomForProof)
  <2>1. UNCHANGED proofs BY <1>2, <1>8 DEF ResendVerification
  <2>2. Proofs' = Proofs BY <2>1 DEF Proofs
  <2>3. request' \in [Requests -> Request] /\ RequestsAreSound'
    BY <1>3, <1>6, <2>2, RequestMoves, NothingIsRead
  <2>4. proofs' \in Seq(ProofRow) /\ Len(proofs') <= MaxProofs BY <1>1, <2>1 DEF TypeOK
  <2> QED BY <1>3, <2>1, <2>2, <2>3, <2>4, CodesMove
<1> QED BY <1>7, <1>8

\* The code of a rejected form is spent before its revision comes, and the
\* revision may not come (Revise, RevisionLost).
LEMMA RevisionSteps ==
  ASSUME OrganisationInvariant, NEW r \in Requests
  PROVE  /\ \A p \in Proofs : Revise(r, p) => OrganisationInvariant'
         /\ RevisionLost(r) => OrganisationInvariant'
<1>1. TypeOK BY DEF OrganisationInvariant
<1>2. ASSUME NEW p \in Proofs, Revise(r, p) PROVE OrganisationInvariant'
  <2>1. /\ proofs[p].purpose = "onboarding" /\ proofs' = Consumed(p)
        /\ request' = [request EXCEPT
                         ![r] = [pc |-> "revising", id |-> proofs[p].subject, seat |-> Nobody]]
        /\ UNCHANGED <<usernames, organizations, seats, roster, forms>>
    BY <1>2 DEF Revise, Spend
  <2>2. PICK f : f = proofs[p].subject OBVIOUS
  <2>3. f \in Forms BY <2>1, <2>2 DEF OrganisationInvariant, ProofsAreSound, ProofSound
  <2>4. f \in Nat BY <1>1, <2>3, Tables
  <2>5. PICK q : q = [pc |-> "revising", id |-> f, seat |-> Nobody] OBVIOUS
  <2>6. q \in Request /\ RequestSound(q) BY <2>3, <2>4, <2>5 DEF Request, RequestSound
  <2>7. PICK codes : codes = Consumed(p) OBVIOUS
  <2>8. /\ codes \in Seq(ProofRow) /\ Len(codes) = Len(proofs) /\ DOMAIN codes = Proofs
        /\ \A c \in Proofs :
             /\ codes[c].purpose = proofs[c].purpose /\ codes[c].subject = proofs[c].subject
             /\ codes[c].state = "outstanding" => proofs[c].state = "outstanding"
    BY <2>7, CodeSpent
  <2>9. /\ Proofs' = Proofs /\ proofs' \in Seq(ProofRow) /\ Len(proofs') <= MaxProofs
        /\ \A c \in Proofs :
             /\ proofs'[c].purpose = proofs[c].purpose /\ proofs'[c].subject = proofs[c].subject
             /\ proofs'[c].state = "outstanding" => proofs[c].state = "outstanding"
    BY <1>1, <2>1, <2>7, <2>8 DEF Proofs, TypeOK
  <2>10. UNCHANGED <<Entries, Forms>> BY <2>1 DEF Entries, Forms
  <2>11. request' = [request EXCEPT ![r] = q] BY <2>1, <2>2, <2>5
  <2>12. request' \in [Requests -> Request] /\ RequestsAreSound'
    BY <2>1, <2>6, <2>9, <2>10, <2>11, RequestMoves
  <2> QED BY <2>1, <2>9, <2>12, CodesMove
<1>3. ASSUME RevisionLost(r) PROVE OrganisationInvariant'
  <2>1. /\ request' = [request EXCEPT ![r] = Idle]
        /\ UNCHANGED <<usernames, organizations, seats, roster, proofs, forms>>
    BY <1>3 DEF RevisionLost, End
  <2>2. UNCHANGED <<Entries, Forms, Proofs>> BY <2>1 DEF Entries, Forms, Proofs
  <2>3. request' \in [Requests -> Request] /\ RequestsAreSound'
    BY <2>1, <2>2, RequestMoves, NothingIsRead
  <2>4. proofs' \in Seq(ProofRow) /\ Len(proofs') <= MaxProofs BY <1>1, <2>1 DEF TypeOK
  <2> QED BY <2>1, <2>2, <2>3, <2>4, CodesMove
<1> QED BY <1>2, <1>3

\* The clock runs out for a code (Lapse).
LEMMA LapseStep ==
  ASSUME OrganisationInvariant, Lapse
  PROVE  OrganisationInvariant'
<1>1. TypeOK BY DEF OrganisationInvariant
<1>2. PICK p \in Proofs :
        /\ proofs' = [proofs EXCEPT ![p].expired = TRUE]
        /\ UNCHANGED <<usernames, organizations, seats, roster, forms, request>>
  BY DEF Lapse
<1>3. PICK row : row = [proofs[p] EXCEPT !.expired = TRUE] OBVIOUS
<1>4. proofs[p] \in ProofRow BY <1>1, Tables
<1>5. /\ row \in ProofRow /\ row.purpose = proofs[p].purpose /\ row.subject = proofs[p].subject
      /\ row.state = "outstanding" => proofs[p].state = "outstanding"
  BY <1>3, <1>4 DEF ProofRow
<1>6. PICK codes : codes = proofs' OBVIOUS
<1>7. codes = [proofs EXCEPT ![p] = row] BY <1>2, <1>3, <1>6
<1>8. /\ codes \in Seq(ProofRow) /\ Len(codes) = Len(proofs) /\ DOMAIN codes = Proofs
      /\ \A q \in Proofs :
           /\ codes[q].purpose = proofs[q].purpose /\ codes[q].subject = proofs[q].subject
           /\ codes[q].state = "outstanding" => proofs[q].state = "outstanding"
  <2>1. proofs \in Seq(ProofRow) /\ p \in DOMAIN proofs /\ DOMAIN proofs = Proofs
    BY <1>1, Tables DEF Proofs
  <2>2. /\ codes \in Seq(ProofRow) /\ Len(codes) = Len(proofs) /\ DOMAIN codes = DOMAIN proofs
        /\ codes[p] = row /\ \A q \in DOMAIN proofs : q # p => codes[q] = proofs[q]
    BY <1>5, <1>7, <2>1, RowReplaced
  <2> QED BY <1>5, <2>1, <2>2
<1>9. /\ Proofs' = Proofs /\ proofs' \in Seq(ProofRow) /\ Len(proofs') <= MaxProofs
      /\ \A q \in Proofs :
           /\ proofs'[q].purpose = proofs[q].purpose /\ proofs'[q].subject = proofs[q].subject
           /\ proofs'[q].state = "outstanding" => proofs[q].state = "outstanding"
  BY <1>1, <1>6, <1>8 DEF Proofs, TypeOK
<1>10. request' \in [Requests -> Request] /\ RequestsAreSound'
  BY <1>2, <1>9, RequestsWait DEF Entries, Forms
<1> QED BY <1>2, <1>9, <1>10, CodesMove

-----------------------------------------------------------------------------
(* What stays while other tables change                                    *)

\* A name stays held while its claims do.
LEMMA NameStays ==
  ASSUME OrganisationInvariant, NEW n \in Names, Offers(n)' = Offers(n), Waiting(n)' = Waiting(n),
         seats'[n].exists <=> seats[n].exists, n \in usernames' <=> n \in usernames
  PROVE  NameSound(n)'
<1>1. NameSound(n) BY DEF OrganisationInvariant, NamesAreHeld
<1> QED BY <1>1 DEF NameSound

\* A name that is free has no claim, and no form was ever proven for it.
LEMMA FreeName ==
  ASSUME OrganisationInvariant, NEW n \in Names, ClaimUsername(n)
  PROVE  /\ Offers(n) = {} /\ Waiting(n) = {} /\ ~seats[n].exists
         /\ \A f \in Forms : forms[f].owner # n
<1>1. Offers(n) = {} /\ Waiting(n) = {} /\ ~seats[n].exists
  BY DEF OrganisationInvariant, NamesAreHeld, NameSound, ClaimUsername
<1>2. ASSUME NEW f \in Forms, forms[f].owner = n PROVE FALSE
  <2>1. n # Nobody BY OrganisationsAssumption
  <2>2. forms[f].proven BY <1>2, <2>1 DEF OrganisationInvariant, TypeOK
  <2>3. ~forms[f].deleted BY <2>2 DEF OrganisationInvariant, FormsAreSound
  <2>4. forms[f].decided # "approved" BY <1>1, <1>2 DEF OrganisationInvariant, FormsAreSound
  <2> QED BY <1>1, <1>2, <2>3, <2>4 DEF Waiting
<1> QED BY <1>1, <1>2

\* Companies stand while forms come, are proven, rejected or deleted.
LEMMA CompaniesStayWithForms ==
  ASSUME OrganisationInvariant, UNCHANGED <<organizations, seats>>, Forms \subseteq Forms',
         \A f \in Forms :
           /\ forms'[f].slug = forms[f].slug
           /\ forms'[f].decided = "approved" <=> forms[f].decided = "approved"
           /\ forms[f].owner # Nobody => forms'[f].owner = forms[f].owner,
         \A f \in Forms' \ Forms : forms'[f].decided # "approved"
  PROVE  CompaniesAreKept'
<1>1. CompaniesAreKept BY DEF OrganisationInvariant
<1>2. ASSUME NEW o PROVE Approved(o)' = Approved(o) BY DEF Approved
<1>3. ASSUME NEW o PROVE Founders(o)' \subseteq Founders(o)
  <2> SUFFICES ASSUME NEW n \in Founders(o)' PROVE n \in Founders(o) OBVIOUS
  <2>1. /\ n \in SeatsHeld /\ seats[n].org = o /\ seats[n].role = "owner" /\ seats[n].entry = 0
        /\ ~\E f \in Forms' : forms'[f].owner = n
    BY DEF Founders, SeatsHeld
  <2>2. n # Nobody BY <2>1, OrganisationsAssumption DEF SeatsHeld
  <2>3. ~\E f \in Forms : forms[f].owner = n BY <2>1, <2>2
  <2> QED BY <2>1, <2>3 DEF Founders
<1>4. \A o \in organizations' :
        \E n \in SeatsHeld' : requireOwnerOf(n, o)' /\ seats'[n].entry = 0
  BY <1>1 DEF CompaniesAreKept, SeatsHeld, requireOwnerOf
<1>5. \A o \in Slugs :
        /\ \A f, g \in Approved(o)' : f = g
        /\ \A m, n \in Founders(o)' : m = n
        /\ Approved(o)' # {} => Founders(o)' = {}
  BY <1>1, <1>2, <1>3 DEF CompaniesAreKept
<1> QED BY <1>4, <1>5 DEF CompaniesAreKept

\* Companies stand while the seats that change are of a roster or of nobody's
\* company.
LEMMA CompaniesStayWithSeats ==
  ASSUME OrganisationInvariant, UNCHANGED <<organizations, forms>>,
         \A n \in SeatsHeld : seats[n].entry = 0 =>
           /\ n \in SeatsHeld' /\ seats'[n].org = seats[n].org /\ seats'[n].role = seats[n].role
           /\ seats'[n].entry = 0 /\ (seats'[n].disabled => seats[n].disabled),
         \A n \in SeatsHeld' : seats'[n].org \in Slugs /\ seats'[n].entry = 0 =>
           /\ n \in SeatsHeld /\ seats[n].entry = 0
           /\ seats'[n].org = seats[n].org /\ seats'[n].role = seats[n].role
  PROVE  CompaniesAreKept'
<1>1. CompaniesAreKept BY DEF OrganisationInvariant
<1>2. \A o : Approved(o)' = Approved(o) BY DEF Approved, Forms
<1>3. ASSUME NEW o \in Slugs PROVE Founders(o)' \subseteq Founders(o)
  BY DEF Founders, Forms
<1>4. \A o \in organizations' :
        \E n \in SeatsHeld' : requireOwnerOf(n, o)' /\ seats'[n].entry = 0
  <2> SUFFICES ASSUME NEW o \in organizations'
               PROVE  \E n \in SeatsHeld' : requireOwnerOf(n, o)' /\ seats'[n].entry = 0
    OBVIOUS
  <2>1. PICK n \in SeatsHeld : requireOwnerOf(n, o) /\ seats[n].entry = 0
    BY <1>1 DEF CompaniesAreKept
  <2>2. /\ n \in SeatsHeld' /\ seats'[n].org = seats[n].org /\ seats'[n].role = seats[n].role
        /\ seats'[n].entry = 0 /\ (seats'[n].disabled => seats[n].disabled)
    BY <2>1
  <2> QED BY <2>1, <2>2 DEF requireOwnerOf, SeatsHeld
<1>5. \A o \in Slugs :
        /\ \A f, g \in Approved(o)' : f = g
        /\ \A m, n \in Founders(o)' : m = n
        /\ Approved(o)' # {} => Founders(o)' = {}
  BY <1>1, <1>2, <1>3 DEF CompaniesAreKept
<1> QED BY <1>4, <1>5 DEF CompaniesAreKept

-----------------------------------------------------------------------------
(* Forms                                                                   *)

\* What follows from a change of the forms, their codes and one name.
LEMMA FormsMove ==
  ASSUME OrganisationInvariant, UNCHANGED <<organizations, seats, roster>>,
         forms' \in Seq(FormRow), Len(forms') <= MaxForms, Forms \subseteq Forms',
         \A f \in Forms :
           /\ forms'[f].slug = forms[f].slug
           /\ forms'[f].decided = "approved" <=> forms[f].decided = "approved"
           /\ forms[f].owner # Nobody => forms'[f].owner = forms[f].owner,
         \A f \in Forms' \ Forms : forms'[f].decided # "approved",
         \A f \in Forms' : forms'[f].proven <=> forms'[f].owner # Nobody,
         usernames' \subseteq Names, NamesAreHeld', FormsAreSound',
         proofs' \in Seq(ProofRow), Len(proofs') <= MaxProofs, ProofsAreSound',
         request' \in [Requests -> Request], RequestsAreSound'
  PROVE  OrganisationInvariant'
<1>1. TypeOK' BY DEF OrganisationInvariant, TypeOK
<1>2. RosterIsKept' BY DEF OrganisationInvariant, RosterIsKept, Entries
<1>3. SeatsAreSound' BY DEF OrganisationInvariant, SeatsAreSound, SeatSound, SeatsHeld, Entries
<1>4. RemovedEndsSeat' BY DEF OrganisationInvariant, RemovedEndsSeat, SeatsHeld
<1>5. CompaniesAreKept' BY CompaniesStayWithForms
<1> QED BY <1>1, <1>2, <1>3, <1>4, <1>5 DEF OrganisationInvariant

\* The row of a form that is new.
LEMMA FormAdded ==
  ASSUME OrganisationInvariant, NEW slug \in Slugs, NEW email \in Emails,
         NEW previous \in 0 .. MaxForms, SubmitForm(slug, email, previous),
         Len(forms) < MaxForms, RoomForProof
  PROVE  /\ forms' \in Seq(FormRow) /\ Len(forms') <= MaxForms
         /\ Forms' = Forms \cup {Len(forms) + 1} /\ Len(forms) + 1 \notin Forms
         /\ Len(forms) + 1 \in Nat
         /\ \A f \in Forms : forms'[f] = forms[f]
         /\ forms'[Len(forms) + 1].owner = Nobody /\ ~forms'[Len(forms) + 1].proven
         /\ forms'[Len(forms) + 1].decided = "no" /\ ~forms'[Len(forms) + 1].deleted
<1>1. TypeOK BY DEF OrganisationInvariant
<1>2. PICK k : k = Len(proofs) + 1 OBVIOUS
<1>3. k \in 1 .. MaxProofs
  BY <1>1, <1>2, Tables, OrganisationsAssumption DEF RoomForProof
<1>4. PICK row : row = [slug |-> slug, email |-> email, owner |-> Nobody,
                        proven |-> FALSE, decided |-> "no", supersedes |-> previous,
                        firstProof |-> k, deleted |-> FALSE]
  OBVIOUS
<1>5. /\ row \in FormRow /\ row.owner = Nobody /\ ~row.proven
      /\ row.decided = "no" /\ ~row.deleted
  BY <1>3, <1>4 DEF FormRow
<1>6. forms' = Append(forms, row) BY <1>2, <1>4 DEF SubmitForm
<1>7. PICK t : t = forms' OBVIOUS
<1>8. forms \in Seq(FormRow) BY <1>1, Tables
<1>9. /\ t \in Seq(FormRow) /\ Len(t) = Len(forms) + 1 /\ Len(forms) \in Nat
      /\ DOMAIN t = DOMAIN forms \cup {Len(forms) + 1} /\ Len(forms) + 1 \notin DOMAIN forms
      /\ \A i \in DOMAIN forms : t[i] = forms[i]
      /\ t[Len(forms) + 1] = row
  BY <1>5, <1>6, <1>7, <1>8, RowAdded
<1>10. Len(forms') <= MaxForms BY <1>7, <1>9, OrganisationsAssumption
<1> QED BY <1>5, <1>7, <1>9, <1>10 DEF Forms

\* A form is submitted with a code for its address, and waits for nobody's name
\* (Submit, SubmitRevision).
LEMMA SubmitForms ==
  ASSUME OrganisationInvariant, NEW slug \in Slugs, NEW email \in Emails,
         NEW previous \in 0 .. MaxForms, SubmitForm(slug, email, previous),
         Len(forms) < MaxForms, RoomForProof,
         UNCHANGED <<usernames, organizations, seats, roster>>,
         NEW r, request' = request \/ (r \in Requests /\ request' = [request EXCEPT ![r] = Idle])
  PROVE  OrganisationInvariant'
<1>1. TypeOK BY DEF OrganisationInvariant
<1>2. PICK k : k = Len(forms) + 1 OBVIOUS
<1>3. /\ forms' \in Seq(FormRow) /\ Len(forms') <= MaxForms
      /\ Forms' = Forms \cup {k} /\ k \notin Forms /\ k \in Nat
      /\ \A f \in Forms : forms'[f] = forms[f]
      /\ forms'[k].owner = Nobody /\ ~forms'[k].proven
      /\ forms'[k].decided = "no" /\ ~forms'[k].deleted
  BY <1>2, FormAdded
<1>4. Entries' = Entries BY DEF Entries
<1>5. proofs' = Append(proofs, Proof(email, "onboarding", k)) BY <1>2 DEF SubmitForm
<1>6. proofs \in Seq(ProofRow) /\ DOMAIN proofs = Proofs BY <1>1, Tables DEF Proofs
<1>7. PICK c : c = Len(proofs) + 1 OBVIOUS
<1>8. /\ proofs' \in Seq(ProofRow) /\ Len(proofs') <= MaxProofs
      /\ Proofs' = Proofs \cup {c}
      /\ \A q \in Proofs :
           /\ proofs'[q].purpose = proofs[q].purpose /\ proofs'[q].subject = proofs[q].subject
           /\ proofs'[q].state = "outstanding" => proofs[q].state = "outstanding"
      /\ proofs'[c].purpose = "onboarding" /\ proofs'[c].subject = k
  <2>1. Len(proofs) < MaxProofs BY DEF RoomForProof
  <2> QED BY <1>3, <1>5, <1>6, <1>7, <2>1, CodeAdded
<1>9. ASSUME NEW q \in Proofs PROVE ProofSound(q)'
  <2>1. ProofSound(q) BY DEF OrganisationInvariant, ProofsAreSound
  <2>2. proofs'[q].purpose = "onboarding" /\ proofs'[q].state = "outstanding" =>
          (forms'[proofs[q].subject].deleted => forms[proofs[q].subject].deleted)
    BY <1>3, <1>8, <2>1 DEF ProofSound
  <2> QED BY <1>3, <1>4, <1>8, <2>2, CodeStays
<1>10. ProofSound(c)' BY <1>3, <1>8 DEF ProofSound
<1>11. ProofsAreSound' BY <1>8, <1>9, <1>10 DEF ProofsAreSound
<1>12. request' \in [Requests -> Request] /\ RequestsAreSound'
  <2>1. Proofs \subseteq Proofs' /\ Forms \subseteq Forms' BY <1>3, <1>8
  <2>2. CASE request' = request BY <1>4, <2>1, <2>2, RequestsWait
  <2>3. CASE r \in Requests /\ request' = [request EXCEPT ![r] = Idle]
    BY <1>4, <2>1, <2>3, RequestMoves, NothingIsRead
  <2> QED BY <2>2, <2>3
<1>13. NamesAreHeld'
  <2> SUFFICES ASSUME NEW n \in Names PROVE NameSound(n)' BY DEF NamesAreHeld
  <2>1. n # Nobody BY OrganisationsAssumption
  <2>2. Offers(n)' = Offers(n) BY DEF Offers, Redeemable, Entries
  <2>3. Waiting(n)' = Waiting(n) BY <1>3, <2>1 DEF Waiting
  <2> QED BY <2>2, <2>3, NameStays
<1>14. FormsAreSound'
  <2>1. FormsAreSound BY DEF OrganisationInvariant
  <2>2. \A f \in Forms' :
          /\ forms'[f].deleted \/ ~forms'[f].proven => forms'[f].decided = "no"
          /\ forms'[f].deleted => ~forms'[f].proven
          /\ forms'[f].decided = "approved" =>
               seats'[forms'[f].owner].exists /\ forms'[f].slug \in organizations'
    BY <1>3, <2>1 DEF FormsAreSound
  <2>3. \A f, g \in Forms' : forms'[f].owner = forms'[g].owner /\ forms'[f].owner # Nobody => f = g
    BY <1>3, <2>1 DEF FormsAreSound
  <2> QED BY <2>2, <2>3 DEF FormsAreSound
<1>15. \A f \in Forms' : forms'[f].proven <=> forms'[f].owner # Nobody
  BY <1>1, <1>3 DEF TypeOK
<1>16. usernames' \subseteq Names BY <1>1 DEF TypeOK
<1> QED BY <1>3, <1>8, <1>11, <1>12, <1>13, <1>14, <1>15, <1>16, FormsMove

\* A form is submitted, or revises a rejected one (Submit, SubmitRevision).
LEMMA SubmitSteps ==
  ASSUME OrganisationInvariant, NEW slug \in Slugs, NEW email \in Emails
  PROVE  /\ Submit(slug, email) => OrganisationInvariant'
         /\ \A r \in Requests : SubmitRevision(r, slug, email) => OrganisationInvariant'
<1>1. ASSUME Submit(slug, email) PROVE OrganisationInvariant'
  <2>1. /\ Len(forms) < MaxForms /\ RoomForProof /\ SubmitForm(slug, email, 0)
        /\ UNCHANGED <<usernames, organizations, seats, roster, request>>
    BY <1>1 DEF Submit
  <2>2. 0 \in 0 .. MaxForms BY OrganisationsAssumption
  <2>3. request' = request BY <2>1
  <2> QED BY <2>1, <2>2, <2>3, SubmitForms
<1>2. ASSUME NEW r \in Requests, SubmitRevision(r, slug, email) PROVE OrganisationInvariant'
  <2>1. PICK previous : previous = request[r].id OBVIOUS
  <2>2. /\ request[r].pc = "revising" /\ Len(forms) < MaxForms /\ RoomForProof
        /\ SubmitForm(slug, email, previous) /\ request' = [request EXCEPT ![r] = Idle]
        /\ UNCHANGED <<usernames, organizations, seats, roster>>
    BY <1>2, <2>1 DEF SubmitRevision, End
  <2>3. previous \in Forms
    BY <2>1, <2>2 DEF OrganisationInvariant, RequestsAreSound, RequestSound
  <2>4. previous \in 0 .. MaxForms BY <2>3, Tables, OrganisationsAssumption DEF OrganisationInvariant
  <2> QED BY <2>2, <2>4, SubmitForms
<1> QED BY <1>1, <1>2

\* A form that is written again.
LEMMA FormWritten ==
  ASSUME OrganisationInvariant, NEW f \in Forms, NEW row \in FormRow,
         forms' = [forms EXCEPT ![f] = row]
  PROVE  /\ forms' \in Seq(FormRow) /\ Len(forms') <= MaxForms /\ Forms' = Forms
         /\ forms'[f] = row /\ \A g \in Forms : g # f => forms'[g] = forms[g]
<1>1. TypeOK BY DEF OrganisationInvariant
<1>2. PICK t : t = forms' OBVIOUS
<1>3. forms \in Seq(FormRow) /\ f \in DOMAIN forms BY <1>1, Tables DEF Forms
<1>4. t = [forms EXCEPT ![f] = row] BY <1>2
<1>5. /\ t \in Seq(FormRow) /\ Len(t) = Len(forms) /\ DOMAIN t = DOMAIN forms
      /\ t[f] = row /\ \A g \in DOMAIN forms : g # f => t[g] = forms[g]
  BY <1>3, <1>4, RowReplaced
<1> QED BY <1>1, <1>2, <1>5 DEF Forms, TypeOK

\* A proven form is rejected, and its code goes out (Decide).
LEMMA RejectStep ==
  ASSUME OrganisationInvariant, NEW f \in Forms, Decide(f, FALSE)
  PROVE  OrganisationInvariant'
<1>1. TypeOK BY DEF OrganisationInvariant
<1>2. /\ RoomForProof /\ Reject(f)
      /\ proofs' = Append(proofs, Proof(forms[f].email, "onboarding", f))
      /\ UNCHANGED <<usernames, organizations, seats, roster, request>>
  BY DEF Decide
<1>3. /\ forms[f].proven /\ forms[f].decided = "no" /\ ~forms[f].deleted
      /\ forms' = [forms EXCEPT ![f].decided = "rejected"]
  BY <1>2 DEF Reject, Queue
<1>4. PICK row : row = [forms[f] EXCEPT !.decided = "rejected"] OBVIOUS
<1>5. forms[f] \in FormRow BY <1>1, Tables
<1>6. /\ row \in FormRow /\ row.decided = "rejected" /\ row.slug = forms[f].slug
      /\ row.owner = forms[f].owner /\ (row.proven <=> forms[f].proven)
      /\ (row.deleted <=> forms[f].deleted)
  BY <1>4, <1>5 DEF FormRow
<1>7. forms' = [forms EXCEPT ![f] = row] BY <1>3, <1>4
<1>8. /\ forms' \in Seq(FormRow) /\ Len(forms') <= MaxForms /\ Forms' = Forms
      /\ forms'[f] = row /\ \A g \in Forms : g # f => forms'[g] = forms[g]
  BY <1>6, <1>7, FormWritten
<1>9. \A g \in Forms :
        /\ forms'[g].slug = forms[g].slug /\ forms'[g].owner = forms[g].owner
        /\ (forms'[g].decided = "approved" <=> forms[g].decided = "approved")
        /\ (forms'[g].proven <=> forms[g].proven) /\ (forms'[g].deleted <=> forms[g].deleted)
        /\ forms'[g].decided # forms[g].decided => forms[g].proven
  BY <1>3, <1>6, <1>8
<1>10. UNCHANGED Entries BY <1>2 DEF Entries
<1>11. PICK email : email = forms[f].email OBVIOUS
<1>12. email \in Emails BY <1>5, <1>11 DEF FormRow
<1>13. f \in Nat BY <1>1, Tables
<1>14. proofs \in Seq(ProofRow) /\ DOMAIN proofs = Proofs BY <1>1, Tables DEF Proofs
<1>15. PICK c : c = Len(proofs) + 1 OBVIOUS
<1>16. /\ proofs' \in Seq(ProofRow) /\ Len(proofs') <= MaxProofs
       /\ Proofs' = Proofs \cup {c}
       /\ \A q \in Proofs :
            /\ proofs'[q].purpose = proofs[q].purpose /\ proofs'[q].subject = proofs[q].subject
            /\ proofs'[q].state = "outstanding" => proofs[q].state = "outstanding"
       /\ proofs'[c].purpose = "onboarding" /\ proofs'[c].subject = f
  <2>1. Len(proofs) < MaxProofs BY <1>2 DEF RoomForProof
  <2> QED BY <1>2, <1>11, <1>12, <1>13, <1>14, <1>15, <2>1, CodeAdded
<1>17. ASSUME NEW q \in Proofs PROVE ProofSound(q)'
  <2>1. ProofSound(q) BY DEF OrganisationInvariant, ProofsAreSound
  <2>2. proofs'[q].purpose = "onboarding" /\ proofs'[q].state = "outstanding" =>
          (forms'[proofs[q].subject].deleted => forms[proofs[q].subject].deleted)
    BY <1>9, <1>16, <2>1 DEF ProofSound
  <2> QED BY <1>8, <1>10, <1>16, <2>2, CodeStays
<1>18. ProofSound(c)' BY <1>3, <1>8, <1>9, <1>16 DEF ProofSound
<1>19. ProofsAreSound' BY <1>16, <1>17, <1>18 DEF ProofsAreSound
<1>20. request' \in [Requests -> Request] /\ RequestsAreSound'
  BY <1>2, <1>8, <1>10, <1>16, RequestsWait
<1>21. NamesAreHeld'
  <2> SUFFICES ASSUME NEW n \in Names PROVE NameSound(n)' BY DEF NamesAreHeld
  <2>1. Offers(n)' = Offers(n) BY <1>2 DEF Offers, Redeemable, Entries
  <2>2. Waiting(n)' = Waiting(n) BY <1>8, <1>9 DEF Waiting
  <2> QED BY <1>2, <2>1, <2>2, NameStays
<1>22. FormsAreSound'
  BY <1>2, <1>8, <1>9 DEF OrganisationInvariant, FormsAreSound
<1>23. \A g \in Forms' : forms'[g].proven <=> forms'[g].owner # Nobody
  BY <1>1, <1>8, <1>9 DEF TypeOK
<1>24. usernames' \subseteq Names BY <1>1, <1>2 DEF TypeOK
<1> QED BY <1>2, <1>8, <1>9, <1>16, <1>19, <1>20, <1>21, <1>22, <1>23, <1>24, FormsMove

\* The codes of what is gone are deleted with it.
LEMMA CodesDeleted ==
  ASSUME OrganisationInvariant, NEW purpose, NEW gone, proofs' = WithoutProofs(purpose, gone)
  PROVE  /\ proofs' \in Seq(ProofRow) /\ Len(proofs') <= MaxProofs /\ Proofs' = Proofs
         /\ \A q \in Proofs :
              /\ proofs'[q].purpose = proofs[q].purpose /\ proofs'[q].subject = proofs[q].subject
              /\ proofs'[q].state = "outstanding" =>
                   /\ proofs[q].state = "outstanding"
                   /\ ~(proofs[q].purpose = purpose /\ proofs[q].subject \in gone)
<1>1. TypeOK BY DEF OrganisationInvariant
<1>2. proofs \in Seq(ProofRow) /\ DOMAIN proofs = Proofs BY <1>1, Tables DEF Proofs
<1>3. PICK t : t = proofs' OBVIOUS
<1>4. t = [p \in Proofs |-> IF proofs[p].purpose = purpose /\ proofs[p].subject \in gone
                            THEN [proofs[p] EXCEPT !.state = "deleted"] ELSE proofs[p]]
  BY <1>3 DEF WithoutProofs
<1>5. ASSUME NEW q \in Proofs
      PROVE  /\ t[q] \in ProofRow
             /\ t[q].purpose = proofs[q].purpose /\ t[q].subject = proofs[q].subject
             /\ t[q].state = "outstanding" =>
                  /\ proofs[q].state = "outstanding"
                  /\ ~(proofs[q].purpose = purpose /\ proofs[q].subject \in gone)
  <2>1. proofs[q] \in ProofRow BY <1>1, Tables
  <2>2. CASE proofs[q].purpose = purpose /\ proofs[q].subject \in gone
    <3>1. t[q] = [proofs[q] EXCEPT !.state = "deleted"] BY <1>4, <2>2
    <3> QED BY <2>1, <3>1 DEF ProofRow
  <2>3. CASE ~(proofs[q].purpose = purpose /\ proofs[q].subject \in gone)
    <3>1. t[q] = proofs[q] BY <1>4, <2>3
    <3> QED BY <2>1, <2>3, <3>1
  <2> QED BY <2>2, <2>3
<1>6. t = [p \in DOMAIN proofs |-> t[p]] BY <1>2, <1>4
<1>7. \A p \in DOMAIN proofs : t[p] \in ProofRow BY <1>2, <1>5
<1>8. t \in Seq(ProofRow) /\ Len(t) = Len(proofs) /\ DOMAIN t = DOMAIN proofs
  BY <1>2, <1>6, <1>7, RowsMapped
<1> QED BY <1>1, <1>2, <1>3, <1>5, <1>8 DEF Proofs, TypeOK

\* Forms nobody proved are deleted, and their codes with them (ExpireUnproven).
LEMMA ExpireStep ==
  ASSUME OrganisationInvariant, ExpireUnproven
  PROVE  OrganisationInvariant'
<1>1. TypeOK BY DEF OrganisationInvariant
<1>2. PICK stale : stale = {f \in Forms : Stale(f)} OBVIOUS
<1>3. /\ forms' = [f \in Forms |-> IF f \in stale THEN [forms[f] EXCEPT !.deleted = TRUE] ELSE forms[f]]
      /\ proofs' = WithoutProofs("onboarding", stale)
      /\ UNCHANGED <<usernames, organizations, seats, roster, request>>
  BY <1>2 DEF ExpireUnproven
<1>4. \A f \in stale : /\ f \in Forms /\ ~forms[f].proven /\ forms[f].decided = "no"
                       /\ forms[f].owner = Nobody
  BY <1>1, <1>2 DEF Stale, TypeOK
<1>5. forms \in Seq(FormRow) /\ DOMAIN forms = Forms BY <1>1, Tables DEF Forms
<1>6. PICK t : t = forms' OBVIOUS
<1>7. ASSUME NEW f \in Forms
      PROVE  /\ t[f] \in FormRow /\ t[f].slug = forms[f].slug /\ t[f].owner = forms[f].owner
             /\ t[f].decided = forms[f].decided /\ (t[f].proven <=> forms[f].proven)
             /\ (t[f].deleted <=> (forms[f].deleted \/ f \in stale))
  <2>1. forms[f] \in FormRow BY <1>1, Tables
  <2>2. CASE f \in stale
    <3>1. t[f] = [forms[f] EXCEPT !.deleted = TRUE] BY <1>3, <1>6, <2>2
    <3> QED BY <2>1, <2>2, <3>1 DEF FormRow
  <2>3. CASE f \notin stale
    <3>1. t[f] = forms[f] BY <1>3, <1>6, <2>3
    <3> QED BY <2>1, <2>3, <3>1
  <2> QED BY <2>2, <2>3
<1>8. t = [f \in DOMAIN forms |-> t[f]] BY <1>3, <1>5, <1>6
<1>9. \A f \in DOMAIN forms : t[f] \in FormRow BY <1>5, <1>7
<1>10. t \in Seq(FormRow) /\ Len(t) = Len(forms) /\ DOMAIN t = DOMAIN forms
  BY <1>5, <1>8, <1>9, RowsMapped
<1>11. forms' \in Seq(FormRow) /\ Len(forms') <= MaxForms /\ Forms' = Forms
  BY <1>1, <1>5, <1>6, <1>10 DEF Forms, TypeOK
<1>12. \A f \in Forms :
         /\ forms'[f].slug = forms[f].slug /\ forms'[f].owner = forms[f].owner
         /\ forms'[f].decided = forms[f].decided /\ (forms'[f].proven <=> forms[f].proven)
         /\ (forms'[f].deleted <=> (forms[f].deleted \/ f \in stale))
  BY <1>6, <1>7
<1>13. /\ proofs' \in Seq(ProofRow) /\ Len(proofs') <= MaxProofs /\ Proofs' = Proofs
       /\ \A q \in Proofs :
            /\ proofs'[q].purpose = proofs[q].purpose /\ proofs'[q].subject = proofs[q].subject
            /\ proofs'[q].state = "outstanding" =>
                 /\ proofs[q].state = "outstanding"
                 /\ ~(proofs[q].purpose = "onboarding" /\ proofs[q].subject \in stale)
  BY <1>3, CodesDeleted
<1>14. UNCHANGED Entries BY <1>3 DEF Entries
<1>15. ASSUME NEW q \in Proofs PROVE ProofSound(q)'
  <2>1. ProofSound(q) BY DEF OrganisationInvariant, ProofsAreSound
  <2>2. proofs'[q].purpose = "onboarding" /\ proofs'[q].state = "outstanding" =>
          (forms'[proofs[q].subject].deleted => forms[proofs[q].subject].deleted)
    BY <1>12, <1>13, <2>1 DEF ProofSound
  <2> QED BY <1>11, <1>13, <1>14, <2>2, CodeStays
<1>16. ProofsAreSound' BY <1>13, <1>15 DEF ProofsAreSound
<1>17. request' \in [Requests -> Request] /\ RequestsAreSound'
  BY <1>3, <1>11, <1>13, <1>14, RequestsWait
<1>18. NamesAreHeld'
  <2> SUFFICES ASSUME NEW n \in Names PROVE NameSound(n)' BY DEF NamesAreHeld
  <2>1. Offers(n)' = Offers(n) BY <1>3 DEF Offers, Redeemable, Entries
  <2>2. n # Nobody BY OrganisationsAssumption
  <2>3. Waiting(n)' = Waiting(n) BY <1>4, <1>11, <1>12, <2>2 DEF Waiting
  <2> QED BY <1>3, <2>1, <2>3, NameStays
<1>19. FormsAreSound'
  <2>1. FormsAreSound BY DEF OrganisationInvariant
  <2>2. \A f \in Forms' :
          /\ forms'[f].deleted \/ ~forms'[f].proven => forms'[f].decided = "no"
          /\ forms'[f].deleted => ~forms'[f].proven
          /\ forms'[f].decided = "approved" =>
               seats'[forms'[f].owner].exists /\ forms'[f].slug \in organizations'
    BY <1>3, <1>4, <1>11, <1>12, <2>1 DEF FormsAreSound
  <2>3. \A f, g \in Forms' : forms'[f].owner = forms'[g].owner /\ forms'[f].owner # Nobody => f = g
    BY <1>11, <1>12, <2>1 DEF FormsAreSound
  <2> QED BY <2>2, <2>3 DEF FormsAreSound
<1>20. \A f \in Forms' : forms'[f].proven <=> forms'[f].owner # Nobody
  BY <1>1, <1>11, <1>12 DEF TypeOK
<1>21. usernames' \subseteq Names BY <1>1, <1>3 DEF TypeOK
<1> QED BY <1>3, <1>11, <1>12, <1>13, <1>16, <1>17, <1>18, <1>19, <1>20, <1>21, FormsMove

\* The form a code proves, and the name its owner asks for (Verify).
LEMMA VerifyReads ==
  ASSUME OrganisationInvariant, NEW p \in Proofs, NEW n \in Names, Verify(p, n),
         NEW f, f = proofs[p].subject
  PROVE  /\ f \in Forms /\ ~forms[f].deleted /\ ~forms[f].proven /\ forms[f].decided = "no"
         /\ forms[f].owner = Nobody
         /\ forms' \in Seq(FormRow) /\ Len(forms') <= MaxForms /\ Forms' = Forms
         /\ forms'[f].slug = forms[f].slug /\ forms'[f].owner = n /\ forms'[f].proven
         /\ forms'[f].decided = "no" /\ ~forms'[f].deleted
         /\ \A g \in Forms : g # f => forms'[g] = forms[g]
<1>1. TypeOK BY DEF OrganisationInvariant
<1>2. /\ proofs[p].purpose = "onboarding" /\ proofs[p].state = "outstanding"
      /\ ~forms[f].proven /\ forms[f].decided = "no"
      /\ forms' = [forms EXCEPT ![f].proven = TRUE, ![f].owner = n]
  BY DEF Verify, Spend, Live, Prove
<1>3. f \in Forms /\ ~forms[f].deleted
  BY <1>2 DEF OrganisationInvariant, ProofsAreSound, ProofSound
<1>4. forms[f].owner = Nobody BY <1>1, <1>2, <1>3 DEF TypeOK
<1>5. forms[f] \in FormRow BY <1>1, <1>3, Tables
<1>6. PICK a : a = [forms[f] EXCEPT !.proven = TRUE] OBVIOUS
<1>7. /\ a \in FormRow /\ a.proven /\ a.slug = forms[f].slug /\ a.decided = forms[f].decided
      /\ (a.deleted <=> forms[f].deleted)
  BY <1>5, <1>6 DEF FormRow
<1>8. PICK row : row = [a EXCEPT !.owner = n] OBVIOUS
<1>9. /\ row \in FormRow /\ row.proven /\ row.owner = n /\ row.slug = a.slug /\ row.decided = a.decided
      /\ (row.deleted <=> a.deleted)
  BY <1>7, <1>8 DEF FormRow
<1>10. forms' = [forms EXCEPT ![f] = row] BY <1>1, <1>2, <1>3, <1>6, <1>8, Tables
<1>11. /\ forms' \in Seq(FormRow) /\ Len(forms') <= MaxForms /\ Forms' = Forms
       /\ forms'[f] = row /\ \A g \in Forms : g # f => forms'[g] = forms[g]
  BY <1>3, <1>9, <1>10, FormWritten
<1> QED BY <1>2, <1>3, <1>4, <1>7, <1>9, <1>11

\* An address is confirmed, and the form holds the name it asked for (Verify).
LEMMA VerifyStep ==
  ASSUME OrganisationInvariant, NEW p \in Proofs, NEW n \in Names, Verify(p, n)
  PROVE  OrganisationInvariant'
<1>1. TypeOK BY DEF OrganisationInvariant
<1>2. /\ ClaimUsername(n) /\ usernames' = usernames \cup {n} /\ proofs' = Consumed(p)
      /\ UNCHANGED <<organizations, seats, roster, request>>
  BY DEF Verify, Spend
<1>3. PICK f : f = proofs[p].subject OBVIOUS
<1>4. /\ f \in Forms /\ ~forms[f].deleted /\ ~forms[f].proven /\ forms[f].decided = "no"
      /\ forms[f].owner = Nobody
      /\ forms' \in Seq(FormRow) /\ Len(forms') <= MaxForms /\ Forms' = Forms
      /\ forms'[f].slug = forms[f].slug /\ forms'[f].owner = n /\ forms'[f].proven
      /\ forms'[f].decided = "no" /\ ~forms'[f].deleted
      /\ \A g \in Forms : g # f => forms'[g] = forms[g]
  BY <1>3, VerifyReads
<1>5. n # Nobody BY OrganisationsAssumption
<1>6. /\ Offers(n) = {} /\ Waiting(n) = {} /\ ~seats[n].exists
      /\ \A g \in Forms : forms[g].owner # n
  BY <1>2, FreeName
<1>7. UNCHANGED Entries BY <1>2 DEF Entries
<1>8. PICK codes : codes = Consumed(p) OBVIOUS
<1>9. /\ codes \in Seq(ProofRow) /\ Len(codes) = Len(proofs) /\ DOMAIN codes = Proofs
      /\ \A q \in Proofs :
           /\ codes[q].purpose = proofs[q].purpose /\ codes[q].subject = proofs[q].subject
           /\ codes[q].state = "outstanding" => proofs[q].state = "outstanding"
  BY <1>8, CodeSpent
<1>10. /\ proofs' \in Seq(ProofRow) /\ Len(proofs') <= MaxProofs /\ Proofs' = Proofs
       /\ \A q \in Proofs :
            /\ proofs'[q].purpose = proofs[q].purpose /\ proofs'[q].subject = proofs[q].subject
            /\ proofs'[q].state = "outstanding" => proofs[q].state = "outstanding"
  BY <1>1, <1>2, <1>8, <1>9 DEF Proofs, TypeOK
<1>11. ASSUME NEW q \in Proofs PROVE ProofSound(q)'
  <2>1. ProofSound(q) BY DEF OrganisationInvariant, ProofsAreSound
  <2>2. proofs'[q].purpose = "onboarding" /\ proofs'[q].state = "outstanding" =>
          (forms'[proofs[q].subject].deleted => forms[proofs[q].subject].deleted)
    BY <1>4, <1>10, <2>1 DEF ProofSound
  <2> QED BY <1>4, <1>7, <1>10, <2>2, CodeStays
<1>12. ProofsAreSound' BY <1>10, <1>11 DEF ProofsAreSound
<1>13. request' \in [Requests -> Request] /\ RequestsAreSound'
  BY <1>2, <1>4, <1>7, <1>10, RequestsWait
<1>14. NamesAreHeld'
  <2> SUFFICES ASSUME NEW m \in Names PROVE NameSound(m)' BY DEF NamesAreHeld
  <2>1. Offers(m)' = Offers(m) BY <1>2 DEF Offers, Redeemable, Entries
  <2>2. CASE m = n
    <3>1. f \in Waiting(n)' BY <1>4 DEF Waiting
    <3>2. n \in usernames' /\ ~seats'[n].exists /\ Offers(n)' = {} BY <1>2, <1>6, <2>1, <2>2
    <3>3. NameSound(n)' BY <3>1, <3>2 DEF NameSound
    <3> QED BY <2>2, <3>3
  <2>3. CASE m # n
    <3>1. m # Nobody BY OrganisationsAssumption
    <3>2. Waiting(m)' = Waiting(m) BY <1>4, <2>3, <3>1 DEF Waiting
    <3> QED BY <1>2, <2>1, <2>3, <3>2, NameStays
  <2> QED BY <2>2, <2>3
<1>15. FormsAreSound'
  <2>1. FormsAreSound BY DEF OrganisationInvariant
  <2>2. \A g \in Forms' :
          /\ forms'[g].deleted \/ ~forms'[g].proven => forms'[g].decided = "no"
          /\ forms'[g].deleted => ~forms'[g].proven
          /\ forms'[g].decided = "approved" =>
               seats'[forms'[g].owner].exists /\ forms'[g].slug \in organizations'
    BY <1>2, <1>4, <2>1 DEF FormsAreSound
  <2>3. \A g, h \in Forms' : forms'[g].owner = forms'[h].owner /\ forms'[g].owner # Nobody => g = h
    BY <1>4, <1>6, <2>1 DEF FormsAreSound
  <2> QED BY <2>2, <2>3 DEF FormsAreSound
<1>16. \A g \in Forms' : forms'[g].proven <=> forms'[g].owner # Nobody
  BY <1>1, <1>4, <1>5 DEF TypeOK
<1>17. usernames' \subseteq Names BY <1>1, <1>2 DEF TypeOK
<1>18. \A g \in Forms :
         /\ forms'[g].slug = forms[g].slug
         /\ forms'[g].decided = "approved" <=> forms[g].decided = "approved"
         /\ forms[g].owner # Nobody => forms'[g].owner = forms[g].owner
  BY <1>4
<1> QED BY <1>2, <1>4, <1>10, <1>12, <1>13, <1>14, <1>15, <1>16, <1>17, <1>18, FormsMove

-----------------------------------------------------------------------------
(* The roster                                                              *)

\* An entry is added for a name that is free (AddToRoster).
LEMMA EntryAdded ==
  ASSUME OrganisationInvariant, NEW owner \in Names, NEW n \in Names, NEW o \in Slugs,
         NEW email \in Emails, NEW role \in {"owner", "member"}, AddToRoster(owner, o, email, n, role)
  PROVE  /\ roster' \in Seq(RosterRow) /\ Len(roster') <= MaxEntries
         /\ Entries' = Entries \cup {Len(roster) + 1} /\ Len(roster) + 1 \notin Entries
         /\ \A e \in Entries : roster'[e] = roster[e]
         /\ roster'[Len(roster) + 1].org = o /\ roster'[Len(roster) + 1].username = n
         /\ roster'[Len(roster) + 1].redeemedBy = Nobody /\ ~roster'[Len(roster) + 1].removed
<1>1. TypeOK BY DEF OrganisationInvariant
<1>2. PICK row : row = [org |-> o, email |-> email, username |-> n, role |-> role,
                        redeemedBy |-> Nobody, removed |-> FALSE]
  OBVIOUS
<1>3. /\ row \in RosterRow /\ row.org = o /\ row.username = n /\ row.redeemedBy = Nobody
      /\ ~row.removed
  BY <1>2 DEF RosterRow
<1>4. roster' = Append(roster, row) /\ Len(roster) < MaxEntries
  BY <1>2 DEF AddToRoster, AddRosterEntry
<1>5. PICK t : t = roster' OBVIOUS
<1>6. roster \in Seq(RosterRow) BY <1>1, Tables
<1>7. /\ t \in Seq(RosterRow) /\ Len(t) = Len(roster) + 1 /\ Len(roster) \in Nat
      /\ DOMAIN t = DOMAIN roster \cup {Len(roster) + 1} /\ Len(roster) + 1 \notin DOMAIN roster
      /\ \A i \in DOMAIN roster : t[i] = roster[i]
      /\ t[Len(roster) + 1] = row
  BY <1>3, <1>4, <1>5, <1>6, RowAdded
<1>8. Len(roster') <= MaxEntries BY <1>4, <1>5, <1>7, OrganisationsAssumption
<1> QED BY <1>3, <1>5, <1>7, <1>8 DEF Entries

\* The name of a new entry is held for it, and nobody else's changes hands.
LEMMA AddStep ==
  ASSUME OrganisationInvariant, NEW owner \in Names, NEW n \in Names, NEW o \in Slugs,
         NEW email \in Emails, NEW role \in {"owner", "member"}, AddToRoster(owner, o, email, n, role)
  PROVE  OrganisationInvariant'
<1>1. TypeOK BY DEF OrganisationInvariant
<1>2. /\ requireOwnerOf(owner, o) /\ ClaimUsername(n) /\ usernames' = usernames \cup {n}
      /\ UNCHANGED <<organizations, seats, proofs, forms, request>>
  BY DEF AddToRoster
<1>3. PICK k : k = Len(roster) + 1 OBVIOUS
<1>4. /\ roster' \in Seq(RosterRow) /\ Len(roster') <= MaxEntries
      /\ Entries' = Entries \cup {k} /\ k \notin Entries
      /\ \A e \in Entries : roster'[e] = roster[e]
      /\ roster'[k].org = o /\ roster'[k].username = n
      /\ roster'[k].redeemedBy = Nobody /\ ~roster'[k].removed
  BY <1>3, EntryAdded
<1>5. /\ Offers(n) = {} /\ Waiting(n) = {} /\ ~seats[n].exists
  BY <1>2, FreeName
<1>6. o \in organizations
  BY <1>2, OrganisationsAssumption
  DEF requireOwnerOf, OrganisationInvariant, SeatsAreSound, SeatSound, SeatsHeld
<1>7. UNCHANGED <<Forms, Proofs, SeatsHeld>> BY <1>2 DEF Forms, Proofs, SeatsHeld
<1>8. TypeOK' BY <1>1, <1>2, <1>4 DEF TypeOK, Forms
<1>9. NamesAreHeld'
  <2> SUFFICES ASSUME NEW m \in Names PROVE NameSound(m)' BY DEF NamesAreHeld
  <2>1. Waiting(m)' = Waiting(m) BY <1>2 DEF Waiting, Forms
  <2>2. CASE m = n
    <3>1. Offers(n)' = {k} BY <1>4, <1>5 DEF Offers, Redeemable
    <3>2. n \in usernames' /\ ~seats'[n].exists /\ Waiting(n)' = {} BY <1>2, <1>5, <2>1, <2>2
    <3>3. NameSound(n)' BY <3>1, <3>2 DEF NameSound
    <3> QED BY <2>2, <3>3
  <2>3. CASE m # n
    <3>1. Offers(m)' = Offers(m) BY <1>4, <2>3 DEF Offers, Redeemable
    <3> QED BY <1>2, <2>1, <2>3, <3>1, NameStays
  <2> QED BY <2>2, <2>3
<1>10. RosterIsKept'
  BY <1>2, <1>4, <1>6 DEF OrganisationInvariant, RosterIsKept
<1>11. SeatsAreSound'
  BY <1>2, <1>4, <1>7 DEF OrganisationInvariant, SeatsAreSound, SeatSound
<1>12. RemovedEndsSeat'
  BY <1>2, <1>4, <1>7 DEF OrganisationInvariant, RemovedEndsSeat, SeatsAreSound, SeatSound
<1>13. FormsAreSound' BY <1>2, <1>7 DEF OrganisationInvariant, FormsAreSound
<1>14. ProofsAreSound'
  BY <1>2, <1>4, <1>7 DEF OrganisationInvariant, ProofsAreSound, ProofSound
<1>15. RequestsAreSound' BY <1>2, <1>4, <1>7, RequestsWait
<1>16. CompaniesAreKept' BY <1>2, <1>7, CompaniesStayWithForms
<1> QED BY <1>8, <1>9, <1>10, <1>11, <1>12, <1>13, <1>14, <1>15, <1>16 DEF OrganisationInvariant

\* An entry that is deleted, with its codes (RemoveRosterEntry).
LEMMA EntryDeleted ==
  ASSUME OrganisationInvariant, NEW e \in Entries, RemoveRosterEntry(e)
  PROVE  /\ roster' \in Seq(RosterRow) /\ Len(roster') <= MaxEntries /\ Entries' = Entries
         /\ \A d \in Entries :
              /\ roster'[d].org = roster[d].org /\ roster'[d].username = roster[d].username
              /\ roster'[d].redeemedBy = roster[d].redeemedBy
              /\ (roster'[d].removed <=> (roster[d].removed \/ d = e))
         /\ proofs' \in Seq(ProofRow) /\ Len(proofs') <= MaxProofs /\ Proofs' = Proofs
         /\ \A q \in Proofs :
              /\ proofs'[q].purpose = proofs[q].purpose /\ proofs'[q].subject = proofs[q].subject
              /\ proofs'[q].state = "outstanding" => proofs[q].state = "outstanding"
<1>1. TypeOK BY DEF OrganisationInvariant
<1>2. roster' = [roster EXCEPT ![e].removed = TRUE] /\ proofs' = WithoutProofs("roster", {e})
  BY DEF RemoveRosterEntry
<1>3. PICK row : row = [roster[e] EXCEPT !.removed = TRUE] OBVIOUS
<1>4. roster[e] \in RosterRow BY <1>1, Tables
<1>5. /\ row \in RosterRow /\ row.org = roster[e].org /\ row.username = roster[e].username
      /\ row.redeemedBy = roster[e].redeemedBy /\ row.removed
  BY <1>3, <1>4 DEF RosterRow
<1>6. PICK t : t = roster' OBVIOUS
<1>7. roster \in Seq(RosterRow) /\ e \in DOMAIN roster BY <1>1, Tables DEF Entries
<1>8. t = [roster EXCEPT ![e] = row] BY <1>2, <1>3, <1>6
<1>9. /\ t \in Seq(RosterRow) /\ Len(t) = Len(roster) /\ DOMAIN t = DOMAIN roster
      /\ t[e] = row /\ \A d \in DOMAIN roster : d # e => t[d] = roster[d]
  BY <1>5, <1>7, <1>8, RowReplaced
<1>10. Len(roster') <= MaxEntries BY <1>1, <1>6, <1>9 DEF TypeOK
<1>11. ASSUME NEW d \in Entries
       PROVE  /\ t[d].org = roster[d].org /\ t[d].username = roster[d].username
              /\ t[d].redeemedBy = roster[d].redeemedBy
              /\ (t[d].removed <=> (roster[d].removed \/ d = e))
  <2>1. CASE d = e BY <1>5, <1>9, <2>1
  <2>2. CASE d # e
    <3>1. t[d] = roster[d] BY <1>9, <2>2 DEF Entries
    <3> QED BY <2>2, <3>1
  <2> QED BY <2>1, <2>2
<1>12. /\ proofs' \in Seq(ProofRow) /\ Len(proofs') <= MaxProofs /\ Proofs' = Proofs
       /\ \A q \in Proofs :
            /\ proofs'[q].purpose = proofs[q].purpose /\ proofs'[q].subject = proofs[q].subject
            /\ proofs'[q].state = "outstanding" => proofs[q].state = "outstanding"
  BY <1>2, CodesDeleted
<1> QED BY <1>6, <1>9, <1>10, <1>11, <1>12 DEF Entries

\* What an entry's removal must leave, whoever's name or seat goes with it.
LEMMA EntryLeaves ==
  ASSUME OrganisationInvariant, NEW e \in Entries, RemoveRosterEntry(e),
         NEW r \in Requests, request' = [request EXCEPT ![r] = Idle],
         UNCHANGED <<organizations, forms>>,
         usernames' \subseteq Names, NamesAreHeld',
         seats' \in [Names -> SeatRow \cup {NoSeat}],
         \A n \in Names : /\ seats'[n].exists <=> seats[n].exists
                          /\ seats[n].exists =>
                               /\ seats'[n].org = seats[n].org /\ seats'[n].role = seats[n].role
                               /\ seats'[n].entry = seats[n].entry
                               /\ seats'[n].review = seats[n].review
                               /\ (seats'[n].verified <=> seats[n].verified)
                               /\ (seats[n].disabled => seats'[n].disabled)
                               /\ (seats'[n].disabled => seats[n].disabled \/ seats[n].entry # 0)
                               /\ (seats[n].entry = e => seats'[n].disabled)
  PROVE  OrganisationInvariant'
<1>1. TypeOK BY DEF OrganisationInvariant
<1>2. /\ roster' \in Seq(RosterRow) /\ Len(roster') <= MaxEntries /\ Entries' = Entries
      /\ \A d \in Entries :
           /\ roster'[d].org = roster[d].org /\ roster'[d].username = roster[d].username
           /\ roster'[d].redeemedBy = roster[d].redeemedBy
           /\ (roster'[d].removed <=> (roster[d].removed \/ d = e))
      /\ proofs' \in Seq(ProofRow) /\ Len(proofs') <= MaxProofs /\ Proofs' = Proofs
      /\ \A q \in Proofs :
           /\ proofs'[q].purpose = proofs[q].purpose /\ proofs'[q].subject = proofs[q].subject
           /\ proofs'[q].state = "outstanding" => proofs[q].state = "outstanding"
  BY EntryDeleted
<1>3. UNCHANGED <<Forms, SeatsHeld>> BY DEF Forms, SeatsHeld
<1>4. request' \in [Requests -> Request] /\ RequestsAreSound'
  BY <1>2, <1>3, RequestMoves, NothingIsRead
<1>5. TypeOK' BY <1>1, <1>2, <1>4 DEF TypeOK, Forms
<1>6. RosterIsKept'
  <2>1. RosterIsKept BY DEF OrganisationInvariant
  <2>2. \A d \in Entries : roster[d].username \in Names BY <1>1, Tables DEF RosterRow
  <2> QED BY <1>2, <2>1, <2>2 DEF RosterIsKept
<1>7. SeatsAreSound'
  <2> SUFFICES ASSUME NEW n \in SeatsHeld PROVE SeatSound(n)' BY <1>3 DEF SeatsAreSound
  <2>1. SeatSound(n) BY DEF OrganisationInvariant, SeatsAreSound
  <2>2. /\ seats'[n].org = seats[n].org /\ seats'[n].entry = seats[n].entry
        /\ seats'[n].review = seats[n].review /\ (seats'[n].verified <=> seats[n].verified)
    BY DEF SeatsHeld
  <2>3. seats'[n].entry # 0 =>
          seats'[n].entry \in Entries' /\ roster'[seats'[n].entry].redeemedBy = n
    BY <1>2, <2>1, <2>2 DEF SeatSound
  <2>4. IF seats'[n].org = Independent
        THEN seats'[n].review # "none" /\ (seats'[n].verified <=> seats'[n].review = "approved")
        ELSE seats'[n].review = "none" /\ seats'[n].org \in organizations'
    BY <2>1, <2>2 DEF SeatSound
  <2> QED BY <2>3, <2>4 DEF SeatSound
<1>8. RemovedEndsSeat'
  <2> SUFFICES ASSUME NEW n \in SeatsHeld, seats'[n].entry # 0, roster'[seats'[n].entry].removed
               PROVE  seats'[n].disabled
    BY <1>3 DEF RemovedEndsSeat
  <2>1. /\ seats'[n].entry = seats[n].entry /\ (seats[n].disabled => seats'[n].disabled)
        /\ (seats[n].entry = e => seats'[n].disabled)
    BY DEF SeatsHeld
  <2>2. seats[n].entry \in Entries BY <2>1 DEF OrganisationInvariant, SeatsAreSound, SeatSound
  <2>3. CASE seats[n].entry = e BY <2>1, <2>3
  <2>4. CASE seats[n].entry # e
    <3>1. roster[seats[n].entry].removed BY <1>2, <2>1, <2>2, <2>4
    <3> QED BY <2>1, <3>1 DEF OrganisationInvariant, RemovedEndsSeat
  <2> QED BY <2>3, <2>4
<1>9. FormsAreSound'
  <2>1. FormsAreSound BY DEF OrganisationInvariant
  <2>2. \A f \in Forms : forms[f].decided = "approved" => forms[f].owner \in Names
    <3> SUFFICES ASSUME NEW f \in Forms, forms[f].decided = "approved"
                 PROVE  forms[f].owner \in Names
      OBVIOUS
    <3>1. forms[f].proven BY <2>1 DEF FormsAreSound
    <3>2. forms[f].owner # Nobody BY <1>1, <3>1 DEF TypeOK
    <3> QED BY <1>1, <3>2, Tables DEF FormRow
  <2> QED BY <1>3, <2>1, <2>2 DEF FormsAreSound
<1>10. ProofsAreSound'
  <2>1. \A q \in Proofs : ProofSound(q)' BY <1>2, <1>3, CodeStays
  <2> QED BY <1>2, <2>1 DEF ProofsAreSound
<1>11. CompaniesAreKept'
  <2>1. \A n \in SeatsHeld : seats[n].entry = 0 =>
          /\ n \in SeatsHeld' /\ seats'[n].org = seats[n].org /\ seats'[n].role = seats[n].role
          /\ seats'[n].entry = 0 /\ (seats'[n].disabled => seats[n].disabled)
    BY <1>3 DEF SeatsHeld
  <2>2. \A n \in SeatsHeld' : seats'[n].org \in Slugs /\ seats'[n].entry = 0 =>
          /\ n \in SeatsHeld /\ seats[n].entry = 0
          /\ seats'[n].org = seats[n].org /\ seats'[n].role = seats[n].role
    BY <1>3 DEF SeatsHeld
  <2> QED BY <2>1, <2>2, CompaniesStayWithSeats
<1> QED BY <1>4, <1>5, <1>6, <1>7, <1>8, <1>9, <1>10, <1>11 DEF OrganisationInvariant

\* The name of an entry nobody redeemed is released with it, when nothing else
\* carries it (RemoveFromRoster).
LEMMA ReleaseStep ==
  ASSUME OrganisationInvariant, NEW e \in Entries, NEW n, n = roster[e].username,
         NEW r \in Requests, request' = [request EXCEPT ![r] = Idle],
         ReleaseUsername(n, e), RemoveRosterEntry(e),
         UNCHANGED <<organizations, seats, forms>>
  PROVE  OrganisationInvariant'
<1>1. TypeOK BY DEF OrganisationInvariant
<1>2. n \in Names BY <1>1, Tables DEF RosterRow
<1>3. /\ usernames' = usernames \ {n} /\ ~seats[n].exists
      /\ \A d \in Entries : d # e => roster[d].username # n \/ roster[d].removed
      /\ \A f \in Forms : forms[f].owner # n \/ forms[f].deleted
  BY DEF ReleaseUsername, Carried
<1>4. /\ Entries' = Entries
      /\ \A d \in Entries :
           /\ roster'[d].username = roster[d].username
           /\ roster'[d].redeemedBy = roster[d].redeemedBy
           /\ (roster'[d].removed <=> (roster[d].removed \/ d = e))
  BY EntryDeleted
<1>5. NamesAreHeld'
  <2> SUFFICES ASSUME NEW m \in Names PROVE NameSound(m)' BY DEF NamesAreHeld
  <2>1. Waiting(m)' = Waiting(m) BY DEF Waiting, Forms
  <2>2. CASE m = n
    <3>1. Offers(n)' = {} BY <1>3, <1>4 DEF Offers, Redeemable
    <3>2. Waiting(n)' = {} BY <1>3, <2>1, <2>2 DEF Waiting
    <3>3. n \notin usernames' /\ ~seats'[n].exists BY <1>3
    <3>4. NameSound(n)' BY <3>1, <3>2, <3>3 DEF NameSound
    <3> QED BY <2>2, <3>4
  <2>3. CASE m # n
    <3>1. Offers(m)' = Offers(m) BY <1>4, <2>3 DEF Offers, Redeemable
    <3>2. m \in usernames' <=> m \in usernames BY <1>3, <2>3
    <3> QED BY <2>1, <3>1, <3>2, NameStays
  <2> QED BY <2>2, <2>3
<1>6. \A m \in Names : seats[m].exists => seats[m].entry # e
  <2> SUFFICES ASSUME NEW m \in Names, seats[m].exists, seats[m].entry = e PROVE FALSE OBVIOUS
  <2>1. e # 0 BY <1>1, Tables
  <2>2. roster[e].redeemedBy = m
    BY <2>1 DEF OrganisationInvariant, SeatsAreSound, SeatSound, SeatsHeld
  <2>3. m # Nobody BY OrganisationsAssumption
  <2>4. seats[n].exists BY <2>2, <2>3 DEF OrganisationInvariant, RosterIsKept
  <2> QED BY <1>3, <2>4
<1>7. usernames' \subseteq Names BY <1>1, <1>3 DEF TypeOK
<1>8. seats' \in [Names -> SeatRow \cup {NoSeat}] BY <1>1, Tables
<1> QED BY <1>5, <1>6, <1>7, <1>8, EntryLeaves

\* The seat of an entry somebody redeemed is closed with it (RemoveFromRoster).
LEMMA DisableStep ==
  ASSUME OrganisationInvariant, NEW e \in Entries, NEW n \in Names, roster[e].redeemedBy = n,
         NEW r \in Requests, request' = [request EXCEPT ![r] = Idle],
         RemoveRosterEntry(e), Disable(n), UNCHANGED <<usernames, organizations, forms>>
  PROVE  OrganisationInvariant'
<1>1. TypeOK BY DEF OrganisationInvariant
<1>2. n # Nobody BY OrganisationsAssumption
<1>3. e # 0 BY <1>1, Tables
<1>4. n = roster[e].username /\ seats[n].exists /\ seats[n].entry = e
  BY <1>2 DEF OrganisationInvariant, RosterIsKept
<1>5. PICK row : row = [seats[n] EXCEPT !.disabled = TRUE] OBVIOUS
<1>6. seats[n] \in SeatRow BY <1>1, <1>4, Tables
<1>7. /\ row \in SeatRow /\ row.exists /\ row.org = seats[n].org /\ row.role = seats[n].role
      /\ row.entry = seats[n].entry /\ row.disabled /\ row.review = seats[n].review
      /\ (row.verified <=> seats[n].verified)
  BY <1>5, <1>6 DEF SeatRow
<1>8. seats \in [Names -> SeatRow \cup {NoSeat}] BY <1>1, Tables
<1>9. seats' = [seats EXCEPT ![n] = row] BY <1>5 DEF Disable
<1>10. seats' \in [Names -> SeatRow \cup {NoSeat}] BY <1>7, <1>8, <1>9
<1>11. seats'[n] = row /\ \A m \in Names : m # n => seats'[m] = seats[m] BY <1>8, <1>9
<1>12. ASSUME NEW m \in Names
       PROVE  /\ seats'[m].exists <=> seats[m].exists
              /\ seats[m].exists =>
                   /\ seats'[m].org = seats[m].org /\ seats'[m].role = seats[m].role
                   /\ seats'[m].entry = seats[m].entry
                   /\ seats'[m].review = seats[m].review
                   /\ (seats'[m].verified <=> seats[m].verified)
                   /\ (seats[m].disabled => seats'[m].disabled)
                   /\ (seats'[m].disabled => seats[m].disabled \/ seats[m].entry # 0)
                   /\ (seats[m].entry = e => seats'[m].disabled)
  <2>1. CASE m = n BY <1>3, <1>4, <1>7, <1>11, <2>1
  <2>2. CASE m # n
    <3>1. seats'[m] = seats[m] BY <1>11, <2>2
    <3>2. seats[m].exists => seats[m].entry # e
      BY <1>3, <2>2 DEF OrganisationInvariant, SeatsAreSound, SeatSound, SeatsHeld
    <3> QED BY <3>1, <3>2
  <2> QED BY <2>1, <2>2
<1>13. /\ Entries' = Entries
       /\ \A d \in Entries :
            /\ roster'[d].username = roster[d].username
            /\ roster'[d].redeemedBy = roster[d].redeemedBy
            /\ (roster'[d].removed <=> (roster[d].removed \/ d = e))
  BY EntryDeleted
<1>14. NamesAreHeld'
  <2> SUFFICES ASSUME NEW m \in Names PROVE NameSound(m)' BY DEF NamesAreHeld
  <2>1. Waiting(m)' = Waiting(m) BY DEF Waiting, Forms
  <2>2. Offers(m)' = Offers(m) BY <1>2, <1>13 DEF Offers, Redeemable
  <2>3. (seats'[m].exists <=> seats[m].exists) /\ (m \in usernames' <=> m \in usernames)
    BY <1>12
  <2> QED BY <2>1, <2>2, <2>3, NameStays
<1>15. usernames' \subseteq Names BY <1>1 DEF TypeOK
<1> QED BY <1>10, <1>12, <1>14, <1>15, EntryLeaves

\* What an owner read of an entry decides what goes with it; a name somebody
\* else carries stays, and the entry with it (RemoveFromRoster).
LEMMA RemoveStep ==
  ASSUME OrganisationInvariant, NEW r \in Requests, RemoveFromRoster(r)
  PROVE  OrganisationInvariant'
<1>1. TypeOK BY DEF OrganisationInvariant
<1>2. PICK e, n, seat : /\ e = request[r].id /\ n = roster[e].username /\ seat = request[r].seat
  OBVIOUS
<1>3. /\ request[r].pc = "removing" /\ request' = [request EXCEPT ![r] = Idle]
      /\ UNCHANGED <<organizations, forms>>
      /\ IF seat = Nobody
         THEN \/ ReleaseUsername(n, e) /\ RemoveRosterEntry(e) /\ UNCHANGED seats
              \/ UNCHANGED <<usernames, roster, proofs, seats>>
         ELSE RemoveRosterEntry(e) /\ Disable(seat) /\ UNCHANGED usernames
  BY <1>2 DEF RemoveFromRoster, End
<1>4. e \in Entries /\ (seat # Nobody => roster[e].redeemedBy = seat)
  BY <1>2, <1>3 DEF OrganisationInvariant, RequestsAreSound, RequestSound
<1>5. CASE seat = Nobody /\ ReleaseUsername(n, e) /\ RemoveRosterEntry(e) /\ UNCHANGED seats
  BY <1>2, <1>3, <1>4, <1>5, ReleaseStep
<1>6. CASE UNCHANGED <<usernames, roster, proofs, seats>>
  <2>1. UNCHANGED <<Entries, Forms, Proofs>> BY <1>3, <1>6 DEF Entries, Forms, Proofs
  <2>2. request' \in [Requests -> Request] /\ RequestsAreSound'
    BY <1>3, <1>6, <2>1, RequestMoves, NothingIsRead
  <2>3. proofs' \in Seq(ProofRow) /\ Len(proofs') <= MaxProofs BY <1>1, <1>6 DEF TypeOK
  <2> QED BY <1>3, <1>6, <2>1, <2>2, <2>3, CodesMove
<1>7. CASE seat # Nobody /\ RemoveRosterEntry(e) /\ Disable(seat) /\ UNCHANGED usernames
  <2>1. seat \in Names BY <1>1, <1>4, <1>7, Tables DEF RosterRow
  <2> QED BY <1>3, <1>4, <1>7, <2>1, DisableStep
<1> QED BY <1>3, <1>5, <1>6, <1>7

-----------------------------------------------------------------------------
(* Seats                                                                   *)

\* A seat that is made, or written again, is one row of the accounts.
LEMMA SeatWritten ==
  ASSUME OrganisationInvariant, NEW n \in Names, NEW row \in SeatRow,
         seats' = [seats EXCEPT ![n] = row]
  PROVE  /\ seats' \in [Names -> SeatRow \cup {NoSeat}] /\ seats'[n] = row
         /\ \A m \in Names : m # n => seats'[m] = seats[m]
<1>1. seats \in [Names -> SeatRow \cup {NoSeat}] BY Tables DEF OrganisationInvariant
<1> QED BY <1>1

\* What every step that makes a seat shares: no form or code changes, and the
\* seats there are stay.
LEMMA SeatMade ==
  ASSUME OrganisationInvariant, NEW n \in Names, NEW row \in SeatRow, row.exists,
         seats' = [seats EXCEPT ![n] = row], ~seats[n].exists,
         organizations \subseteq organizations', organizations' \subseteq Slugs,
         row.entry # 0 =>
           /\ row.entry \in Entries /\ roster[row.entry].redeemedBy = Nobody
           /\ roster[row.entry].username = n
           /\ roster'[row.entry].redeemedBy = n /\ ~roster[row.entry].removed,
         roster' \in Seq(RosterRow), Len(roster') <= MaxEntries, Entries' = Entries,
         \A d \in Entries :
           /\ roster'[d].org = roster[d].org /\ roster'[d].username = roster[d].username
           /\ d # row.entry => roster'[d].redeemedBy = roster[d].redeemedBy
           /\ roster'[d].removed <=> roster[d].removed,
         row.org = Independent => row.review # "none" /\ (row.verified <=> row.review = "approved"),
         row.org # Independent => row.review = "none" /\ row.org \in organizations'
  PROVE  /\ seats' \in [Names -> SeatRow \cup {NoSeat}] /\ SeatsHeld' = SeatsHeld \cup {n}
         /\ seats'[n] = row /\ \A m \in Names : m # n => seats'[m] = seats[m]
         /\ RosterIsKept' /\ SeatsAreSound' /\ RemovedEndsSeat'
<1>1. TypeOK BY DEF OrganisationInvariant
<1> DEFINE e == row.entry
<1>2. /\ seats' \in [Names -> SeatRow \cup {NoSeat}] /\ seats'[n] = row
      /\ \A m \in Names : m # n => seats'[m] = seats[m]
  BY SeatWritten
<1>3. SeatsHeld' = SeatsHeld \cup {n} BY <1>2 DEF SeatsHeld
<1>4. RosterIsKept'
  <2> SUFFICES ASSUME NEW d \in Entries
               PROVE  /\ roster'[d].org \in organizations'
                      /\ roster'[d].redeemedBy # Nobody =>
                           /\ roster'[d].redeemedBy = roster'[d].username
                           /\ seats'[roster'[d].username].exists
                           /\ seats'[roster'[d].username].entry = d
    BY DEF RosterIsKept
  <2>1. /\ roster[d].org \in organizations
        /\ roster[d].redeemedBy # Nobody =>
             /\ roster[d].redeemedBy = roster[d].username
             /\ seats[roster[d].username].exists /\ seats[roster[d].username].entry = d
    BY DEF OrganisationInvariant, RosterIsKept
  <2>2. roster'[d].org \in organizations' BY <2>1
  <2>3. CASE d = e
    <3>1. e # 0 BY <1>1, <2>3, Tables
    <3> QED BY <1>2, <2>2, <2>3, <3>1
  <2>4. CASE d # e
    <3>1. roster[d].username \in Names BY <1>1, Tables DEF RosterRow
    <3>2. roster[d].redeemedBy # Nobody => roster[d].username # n BY <2>1
    <3> QED BY <1>2, <2>1, <2>2, <2>4, <3>1, <3>2
  <2> QED BY <2>3, <2>4
<1>5. SeatsAreSound'
  <2> SUFFICES ASSUME NEW m \in SeatsHeld' PROVE SeatSound(m)' BY DEF SeatsAreSound
  <2>1. CASE m = n
    <3>1. SeatSound(n)' BY <1>2 DEF SeatSound
    <3> QED BY <2>1, <3>1
  <2>2. CASE m # n
    <3>1. m \in SeatsHeld /\ m \in Names /\ seats'[m] = seats[m]
      BY <1>2, <1>3, <2>2 DEF SeatsHeld
    <3>2. SeatSound(m) BY <3>1 DEF OrganisationInvariant, SeatsAreSound
    <3>3. m # Nobody BY <3>1, OrganisationsAssumption
    <3>4. seats'[m].entry # 0 =>
            seats'[m].entry \in Entries' /\ roster'[seats'[m].entry].redeemedBy = m
      BY <3>1, <3>2, <3>3 DEF SeatSound
    <3>5. IF seats'[m].org = Independent
          THEN seats'[m].review # "none" /\ (seats'[m].verified <=> seats'[m].review = "approved")
          ELSE seats'[m].review = "none" /\ seats'[m].org \in organizations'
      BY <3>1, <3>2 DEF SeatSound
    <3> QED BY <3>4, <3>5 DEF SeatSound
  <2> QED BY <2>1, <2>2
<1>6. RemovedEndsSeat'
  <2> SUFFICES ASSUME NEW m \in SeatsHeld', seats'[m].entry # 0, roster'[seats'[m].entry].removed
               PROVE  seats'[m].disabled
    BY DEF RemovedEndsSeat
  <2>1. CASE m = n BY <1>2, <2>1
  <2>2. CASE m # n
    <3>1. m \in SeatsHeld /\ seats'[m] = seats[m] BY <1>2, <1>3, <2>2 DEF SeatsHeld
    <3>2. seats[m].entry \in Entries
      BY <3>1 DEF OrganisationInvariant, SeatsAreSound, SeatSound
    <3> QED BY <3>1, <3>2 DEF OrganisationInvariant, RemovedEndsSeat
  <2> QED BY <2>1, <2>2
<1> QED BY <1>2, <1>3, <1>4, <1>5, <1>6

\* The seat a roster or a form gives.
LEMMA SeatShape ==
  ASSUME NEW o \in Slugs, NEW role \in {"owner", "member"}, NEW e \in 0 .. MaxEntries,
         NEW row, row = [exists |-> TRUE, org |-> o, role |-> role, entry |-> e, disabled |-> FALSE,
                         review |-> "none", verified |-> FALSE]
  PROVE  row \in SeatRow
BY DEF SeatRow

\* The seat of a redeemed entry (RedeemRosterEntry).
LEMMA EntryRedeemed ==
  ASSUME OrganisationInvariant, NEW e \in Entries, RedeemRosterEntry(e),
         NEW n, n = roster[e].username
  PROVE  /\ n \in Names /\ roster[e].redeemedBy = Nobody /\ ~roster[e].removed /\ ~seats[n].exists
         /\ \E row \in SeatRow :
              /\ row.exists /\ row.org = roster[e].org /\ row.entry = e
              /\ row.review = "none" /\ row.org \in Slugs
              /\ seats' = [seats EXCEPT ![n] = row]
         /\ roster' \in Seq(RosterRow) /\ Len(roster') <= MaxEntries /\ Entries' = Entries
         /\ roster'[e].redeemedBy = n
         /\ \A d \in Entries :
              /\ roster'[d].org = roster[d].org /\ roster'[d].username = roster[d].username
              /\ d # e => roster'[d].redeemedBy = roster[d].redeemedBy
              /\ (roster'[d].removed <=> roster[d].removed)
<1>1. TypeOK BY DEF OrganisationInvariant
<1>2. /\ roster[e].redeemedBy = Nobody /\ ~roster[e].removed /\ ~seats[n].exists
      /\ roster' = [roster EXCEPT ![e].redeemedBy = n]
  BY DEF RedeemRosterEntry, Redeemable
<1>3. roster[e] \in RosterRow BY <1>1, Tables
<1>4. /\ roster[e].org \in Slugs /\ n \in Names /\ roster[e].role \in {"owner", "member"}
  BY <1>3 DEF RosterRow
<1>5. e \in 0 .. MaxEntries BY <1>1, Tables, OrganisationsAssumption
<1>6. PICK o, role : o = roster[e].org /\ role = roster[e].role OBVIOUS
<1>7. PICK row : row = [exists |-> TRUE, org |-> o, role |-> role, entry |-> e, disabled |-> FALSE,
                        review |-> "none", verified |-> FALSE]
  OBVIOUS
<1>8. /\ row \in SeatRow /\ row.exists /\ row.org = roster[e].org /\ row.entry = e
      /\ row.review = "none" /\ row.org \in Slugs
      /\ seats' = [seats EXCEPT ![n] = row]
  <2>1. o \in Slugs /\ role \in {"owner", "member"} BY <1>4, <1>6
  <2>2. row \in SeatRow BY <1>5, <1>7, <2>1, SeatShape
  <2>3. row.exists /\ row.org = o /\ row.entry = e /\ row.review = "none" BY <1>7
  <2>4. seats' = [seats EXCEPT ![n] = row] BY <1>6, <1>7 DEF RedeemRosterEntry, Seat
  <2> QED BY <1>6, <2>1, <2>2, <2>3, <2>4
<1>9. PICK new : new = [roster[e] EXCEPT !.redeemedBy = n] OBVIOUS
<1>10. /\ new \in RosterRow /\ new.org = roster[e].org /\ new.username = roster[e].username
       /\ new.redeemedBy = n /\ (new.removed <=> roster[e].removed)
  BY <1>3, <1>4, <1>9 DEF RosterRow
<1>11. PICK t : t = roster' OBVIOUS
<1>12. roster \in Seq(RosterRow) /\ e \in DOMAIN roster BY <1>1, Tables DEF Entries
<1>13. t = [roster EXCEPT ![e] = new] BY <1>2, <1>9, <1>11
<1>14. /\ t \in Seq(RosterRow) /\ Len(t) = Len(roster) /\ DOMAIN t = DOMAIN roster
       /\ t[e] = new /\ \A d \in DOMAIN roster : d # e => t[d] = roster[d]
  BY <1>10, <1>12, <1>13, RowReplaced
<1>15. Len(roster') <= MaxEntries BY <1>1, <1>11, <1>14 DEF TypeOK
<1>16. ASSUME NEW d \in Entries
       PROVE  /\ t[d].org = roster[d].org /\ t[d].username = roster[d].username
              /\ d # e => t[d].redeemedBy = roster[d].redeemedBy
              /\ (t[d].removed <=> roster[d].removed)
  <2>1. CASE d = e BY <1>10, <1>14, <2>1
  <2>2. CASE d # e
    <3>1. t[d] = roster[d] BY <1>14, <2>2 DEF Entries
    <3> QED BY <3>1
  <2> QED BY <2>1, <2>2
<1> QED BY <1>2, <1>4, <1>6, <1>8, <1>10, <1>11, <1>14, <1>15, <1>16 DEF Entries

\* An entry is redeemed, and its seat carries the name that was held for it
\* (CompleteRedemption).
LEMMA RedeemStep ==
  ASSUME OrganisationInvariant, NEW p \in Proofs, CompleteRedemption(p)
  PROVE  OrganisationInvariant'
<1>1. TypeOK BY DEF OrganisationInvariant
<1>2. PICK e : e = proofs[p].subject OBVIOUS
<1>3. /\ proofs[p].purpose = "roster" /\ proofs' = Consumed(p) /\ RedeemRosterEntry(e)
      /\ UNCHANGED <<usernames, organizations, forms, request>>
  BY <1>2 DEF CompleteRedemption
<1>4. e \in Entries BY <1>2, <1>3 DEF OrganisationInvariant, ProofsAreSound, ProofSound
<1>5. PICK n : n = roster[e].username OBVIOUS
<1>6. /\ n \in Names /\ roster[e].redeemedBy = Nobody /\ ~roster[e].removed /\ ~seats[n].exists
      /\ \E row \in SeatRow :
           /\ row.exists /\ row.org = roster[e].org /\ row.entry = e
           /\ row.review = "none" /\ row.org \in Slugs
           /\ seats' = [seats EXCEPT ![n] = row]
      /\ roster' \in Seq(RosterRow) /\ Len(roster') <= MaxEntries /\ Entries' = Entries
      /\ roster'[e].redeemedBy = n
      /\ \A d \in Entries :
           /\ roster'[d].org = roster[d].org /\ roster'[d].username = roster[d].username
           /\ d # e => roster'[d].redeemedBy = roster[d].redeemedBy
           /\ (roster'[d].removed <=> roster[d].removed)
  BY <1>3, <1>4, <1>5, EntryRedeemed
<1>7. PICK row \in SeatRow :
        /\ row.exists /\ row.org = roster[e].org /\ row.entry = e
        /\ row.review = "none" /\ row.org \in Slugs
        /\ seats' = [seats EXCEPT ![n] = row]
  BY <1>6
<1>8. organizations \subseteq organizations' /\ organizations' \subseteq Slugs
  BY <1>1, <1>3 DEF TypeOK
<1>9. e # 0 /\ e \in 0 .. MaxEntries BY <1>1, <1>4, Tables, OrganisationsAssumption
<1>10. row.org # Independent /\ row.org \in organizations'
  BY <1>3, <1>4, <1>6, <1>7, OrganisationsAssumption DEF OrganisationInvariant, RosterIsKept
<1>11. /\ seats' \in [Names -> SeatRow \cup {NoSeat}] /\ SeatsHeld' = SeatsHeld \cup {n}
       /\ seats'[n] = row /\ \A m \in Names : m # n => seats'[m] = seats[m]
       /\ RosterIsKept' /\ SeatsAreSound' /\ RemovedEndsSeat'
  <2>1. row.entry # 0 =>
          /\ row.entry \in Entries /\ roster[row.entry].redeemedBy = Nobody
          /\ roster[row.entry].username = n
          /\ roster'[row.entry].redeemedBy = n /\ ~roster[row.entry].removed
    BY <1>4, <1>5, <1>6, <1>7
  <2>2. /\ row.org = Independent =>
             row.review # "none" /\ (row.verified <=> row.review = "approved")
        /\ row.org # Independent => row.review = "none" /\ row.org \in organizations'
    BY <1>6, <1>7, <1>10
  <2>3. \A d \in Entries :
          /\ roster'[d].org = roster[d].org /\ roster'[d].username = roster[d].username
          /\ d # row.entry => roster'[d].redeemedBy = roster[d].redeemedBy
          /\ roster'[d].removed <=> roster[d].removed
    BY <1>6, <1>7
  <2>4. /\ n \in Names /\ row \in SeatRow /\ row.exists /\ seats' = [seats EXCEPT ![n] = row]
        /\ ~seats[n].exists /\ roster' \in Seq(RosterRow) /\ Len(roster') <= MaxEntries
        /\ Entries' = Entries
    BY <1>6, <1>7
  <2> QED BY <1>8, <2>1, <2>2, <2>3, <2>4, SeatMade
<1>12. UNCHANGED Forms BY <1>3 DEF Forms
<1>13. PICK codes : codes = Consumed(p) OBVIOUS
<1>14. /\ codes \in Seq(ProofRow) /\ Len(codes) = Len(proofs) /\ DOMAIN codes = Proofs
       /\ \A q \in Proofs :
            /\ codes[q].purpose = proofs[q].purpose /\ codes[q].subject = proofs[q].subject
            /\ codes[q].state = "outstanding" => proofs[q].state = "outstanding"
  BY <1>13, CodeSpent
<1>15. /\ proofs' \in Seq(ProofRow) /\ Len(proofs') <= MaxProofs /\ Proofs' = Proofs
       /\ \A q \in Proofs :
            /\ proofs'[q].purpose = proofs[q].purpose /\ proofs'[q].subject = proofs[q].subject
            /\ proofs'[q].state = "outstanding" => proofs[q].state = "outstanding"
  BY <1>1, <1>3, <1>13, <1>14 DEF Proofs, TypeOK
<1>16. \A d \in Entries : roster[d].redeemedBy # Nobody => roster'[d].redeemedBy = roster[d].redeemedBy
  BY <1>6, <1>7
<1>17. request' \in [Requests -> Request] /\ RequestsAreSound'
  BY <1>3, <1>6, <1>7, <1>12, <1>15, <1>16, RequestsWait
<1>18. TypeOK' BY <1>1, <1>3, <1>6, <1>7, <1>11, <1>15, <1>17 DEF TypeOK, Forms
<1>19. NamesAreHeld'
  <2> SUFFICES ASSUME NEW m \in Names PROVE NameSound(m)' BY DEF NamesAreHeld
  <2>1. Waiting(m)' = Waiting(m) BY <1>3 DEF Waiting, Forms
  <2>2. CASE m = n
    <3>1. e \in Offers(n) BY <1>4, <1>5, <1>6, <1>7 DEF Offers, Redeemable
    <3>2. Offers(n) = {e} /\ Waiting(n) = {} /\ n \in usernames
      BY <1>6, <1>7, <3>1 DEF OrganisationInvariant, NamesAreHeld, NameSound
    <3>3. n # Nobody BY <1>6, <1>7, OrganisationsAssumption
    <3>4. Offers(n)' = {}
      <4> SUFFICES ASSUME NEW d \in Offers(n)' PROVE FALSE OBVIOUS
      <4>1. d \in Entries /\ roster'[d].username = n /\ roster'[d].redeemedBy = Nobody /\ ~roster'[d].removed
        BY <1>6, <1>7 DEF Offers, Redeemable
      <4>2. d # e BY <1>6, <1>7, <3>3, <4>1
      <4>3. d \in Offers(n) BY <1>6, <1>7, <4>1, <4>2 DEF Offers, Redeemable
      <4> QED BY <3>2, <4>2, <4>3
    <3>5. seats'[n].exists /\ Waiting(n)' = {} /\ n \in usernames' BY <1>3, <1>6, <1>7, <1>11, <2>1, <2>2, <3>2
    <3>6. NameSound(n)' BY <3>4, <3>5 DEF NameSound
    <3> QED BY <2>2, <3>6
  <2>3. CASE m # n
    <3>1. Offers(m)' = Offers(m) BY <1>5, <1>6, <1>7, <2>3 DEF Offers, Redeemable
    <3>2. seats'[m].exists <=> seats[m].exists BY <1>11, <2>3
    <3> QED BY <1>3, <2>1, <3>1, <3>2, NameStays
  <2> QED BY <2>2, <2>3
<1>20. FormsAreSound'
  <2>1. FormsAreSound BY DEF OrganisationInvariant
  <2>2. \A f \in Forms : forms[f].decided = "approved" => seats'[forms[f].owner].exists
    <3> SUFFICES ASSUME NEW f \in Forms, forms[f].decided = "approved"
                 PROVE  seats'[forms[f].owner].exists
      OBVIOUS
    <3>1. forms[f].proven BY <2>1 DEF FormsAreSound
    <3>2. forms[f].owner # Nobody BY <1>1, <3>1 DEF TypeOK
    <3>3. forms[f].owner \in Names BY <1>1, <3>2, Tables DEF FormRow
    <3> QED BY <1>6, <1>7, <1>11, <2>1, <3>3 DEF FormsAreSound
  <2> QED BY <1>3, <1>12, <2>1, <2>2 DEF FormsAreSound
<1>21. ProofsAreSound'
  <2>1. \A q \in Proofs : ProofSound(q)' BY <1>3, <1>6, <1>7, <1>12, <1>15, CodeStays
  <2> QED BY <1>15, <2>1 DEF ProofsAreSound
<1>22. CompaniesAreKept'
  <2>1. \A m \in SeatsHeld : seats[m].entry = 0 =>
          /\ m \in SeatsHeld' /\ seats'[m].org = seats[m].org /\ seats'[m].role = seats[m].role
          /\ seats'[m].entry = 0 /\ (seats'[m].disabled => seats[m].disabled)
    BY <1>6, <1>7, <1>11 DEF SeatsHeld
  <2>2. \A m \in SeatsHeld' : seats'[m].org \in Slugs /\ seats'[m].entry = 0 =>
          /\ m \in SeatsHeld /\ seats[m].entry = 0
          /\ seats'[m].org = seats[m].org /\ seats'[m].role = seats[m].role
    BY <1>6, <1>7, <1>9, <1>11 DEF SeatsHeld
  <2> QED BY <1>3, <2>1, <2>2, CompaniesStayWithSeats
<1> QED BY <1>11, <1>17, <1>18, <1>19, <1>20, <1>21, <1>22 DEF OrganisationInvariant

\* A form is approved: the company comes to be, and its owner's seat with it
\* (Decide).
LEMMA PromoteStep ==
  ASSUME OrganisationInvariant, NEW f \in Forms, Decide(f, TRUE)
  PROVE  OrganisationInvariant'
<1>1. TypeOK BY DEF OrganisationInvariant
<1>2. Promote(f) /\ UNCHANGED <<proofs, roster, request>> BY DEF Decide
<1>3. PICK n, o : n = forms[f].owner /\ o = forms[f].slug OBVIOUS
<1>4. /\ forms[f].proven /\ forms[f].decided = "no" /\ ~forms[f].deleted
      /\ o \notin organizations /\ ~seats[n].exists
      /\ organizations' = organizations \cup {o} /\ usernames' = usernames \cup {n}
      /\ seats' = [seats EXCEPT ![n] = Seat(o, "owner", 0, "none")]
      /\ forms' = [forms EXCEPT ![f].decided = "approved"]
  BY <1>2, <1>3 DEF Promote, Queue, Owner
<1>5. forms[f] \in FormRow BY <1>1, Tables
<1>6. n \in Names /\ n # Nobody /\ o \in Slugs /\ o # Independent
  BY <1>1, <1>3, <1>4, <1>5, OrganisationsAssumption DEF TypeOK, FormRow
<1>7. f \in Waiting(n) BY <1>3, <1>4 DEF Waiting
<1>8. Offers(n) = {} /\ n \in usernames
  BY <1>6, <1>7 DEF OrganisationInvariant, NamesAreHeld, NameSound
<1>9. PICK row : row = [exists |-> TRUE, org |-> o, role |-> "owner", entry |-> 0, disabled |-> FALSE,
                        review |-> "none", verified |-> FALSE]
  OBVIOUS
<1>10. row \in SeatRow BY <1>6, <1>9, SeatShape, OrganisationsAssumption
<1>11. /\ row.exists /\ row.org = o /\ row.role = "owner" /\ row.entry = 0 /\ ~row.disabled
       /\ row.review = "none"
  BY <1>9
<1>12. seats' = [seats EXCEPT ![n] = row] BY <1>4, <1>9 DEF Seat
<1>13. UNCHANGED <<Entries, Proofs>> BY <1>2 DEF Entries, Proofs
<1>14. organizations \subseteq organizations' /\ organizations' \subseteq Slugs
  BY <1>1, <1>4, <1>6 DEF TypeOK
<1>15. /\ seats' \in [Names -> SeatRow \cup {NoSeat}] /\ SeatsHeld' = SeatsHeld \cup {n}
       /\ seats'[n] = row /\ \A m \in Names : m # n => seats'[m] = seats[m]
       /\ RosterIsKept' /\ SeatsAreSound' /\ RemovedEndsSeat'
  <2>1. row.entry # 0 =>
          /\ row.entry \in Entries /\ roster[row.entry].redeemedBy = Nobody
          /\ roster[row.entry].username = n
          /\ roster'[row.entry].redeemedBy = n /\ ~roster[row.entry].removed
    BY <1>11
  <2>2. /\ row.org = Independent =>
             row.review # "none" /\ (row.verified <=> row.review = "approved")
        /\ row.org # Independent => row.review = "none" /\ row.org \in organizations'
    BY <1>4, <1>6, <1>11
  <2>3. \A d \in Entries :
          /\ roster'[d].org = roster[d].org /\ roster'[d].username = roster[d].username
          /\ d # row.entry => roster'[d].redeemedBy = roster[d].redeemedBy
          /\ roster'[d].removed <=> roster[d].removed
    BY <1>2
  <2>4. roster' \in Seq(RosterRow) /\ Len(roster') <= MaxEntries /\ Entries' = Entries
    BY <1>1, <1>2, <1>13 DEF TypeOK
  <2>5. n \in Names /\ row \in SeatRow /\ row.exists /\ ~seats[n].exists
    BY <1>4, <1>6, <1>10, <1>11
  <2> QED BY <1>12, <1>14, <2>1, <2>2, <2>3, <2>4, <2>5, SeatMade
<1>16. PICK new : new = [forms[f] EXCEPT !.decided = "approved"] OBVIOUS
<1>17. /\ new \in FormRow /\ new.decided = "approved" /\ new.slug = o /\ new.owner = n
       /\ (new.proven <=> forms[f].proven) /\ (new.deleted <=> forms[f].deleted)
  BY <1>3, <1>5, <1>16 DEF FormRow
<1>18. forms' = [forms EXCEPT ![f] = new] BY <1>4, <1>16
<1>19. /\ forms' \in Seq(FormRow) /\ Len(forms') <= MaxForms /\ Forms' = Forms
       /\ forms'[f] = new /\ \A g \in Forms : g # f => forms'[g] = forms[g]
  BY <1>17, <1>18, FormWritten
<1>20. \A g \in Forms :
         /\ forms'[g].slug = forms[g].slug /\ forms'[g].owner = forms[g].owner
         /\ (forms'[g].decided = "approved" <=> forms[g].decided = "approved" \/ g = f)
         /\ (g # f => forms'[g].decided = forms[g].decided)
         /\ (forms'[g].proven <=> forms[g].proven) /\ (forms'[g].deleted <=> forms[g].deleted)
  BY <1>3, <1>17, <1>19
<1>21. \A g \in Forms : forms[g].owner = n => g = f
  BY <1>3, <1>6 DEF OrganisationInvariant, FormsAreSound
<1>22. request' \in [Requests -> Request] /\ RequestsAreSound'
  BY <1>2, <1>13, <1>19, RequestsWait
<1>23. \A g \in Forms' : forms'[g].proven <=> forms'[g].owner # Nobody
  BY <1>1, <1>19, <1>20 DEF TypeOK
<1>24. TypeOK' BY <1>1, <1>2, <1>4, <1>6, <1>14, <1>15, <1>19, <1>22, <1>23 DEF TypeOK
<1>25. NamesAreHeld'
  <2> SUFFICES ASSUME NEW m \in Names PROVE NameSound(m)' BY DEF NamesAreHeld
  <2>1. Offers(m)' = Offers(m) BY <1>2 DEF Offers, Redeemable, Entries
  <2>2. CASE m = n
    <3>1. Waiting(n)' = {}
      BY <1>17, <1>19, <1>20, <1>21 DEF Waiting
    <3>2. seats'[n].exists /\ Offers(n)' = {} /\ n \in usernames'
      BY <1>4, <1>8, <1>11, <1>15, <2>1, <2>2
    <3>3. NameSound(n)' BY <3>1, <3>2 DEF NameSound
    <3> QED BY <2>2, <3>3
  <2>3. CASE m # n
    <3>1. Waiting(m)' = Waiting(m) BY <1>3, <1>19, <1>20, <2>3 DEF Waiting
    <3>2. seats'[m].exists <=> seats[m].exists BY <1>15, <2>3
    <3>3. m \in usernames' <=> m \in usernames BY <1>4, <2>3
    <3> QED BY <2>1, <3>1, <3>2, <3>3, NameStays
  <2> QED BY <2>2, <2>3
<1>26. FormsAreSound'
  <2>1. FormsAreSound BY DEF OrganisationInvariant
  <2>2. ASSUME NEW g \in Forms, forms'[g].decided = "approved"
        PROVE  seats'[forms'[g].owner].exists /\ forms'[g].slug \in organizations'
    <3>1. CASE g = f
      <4>1. forms'[g].owner = n /\ forms'[g].slug = o BY <1>17, <1>19, <3>1
      <4>2. seats'[n].exists BY <1>11, <1>15
      <4>3. o \in organizations' BY <1>4
      <4> QED BY <4>1, <4>2, <4>3
    <3>2. CASE g # f
      <4>1. forms'[g] = forms[g] BY <1>19, <3>2
      <4>2. forms[g].proven /\ seats[forms[g].owner].exists /\ forms[g].slug \in organizations
        BY <2>1, <2>2, <4>1 DEF FormsAreSound
      <4>3. forms[g].owner \in Names
        BY <1>1, <4>2, Tables DEF FormRow, TypeOK
      <4>4. forms[g].owner # n BY <1>21, <3>2
      <4> QED BY <1>4, <1>15, <4>1, <4>2, <4>3, <4>4
    <3> QED BY <3>1, <3>2
  <2>3. \A g \in Forms' :
          /\ forms'[g].deleted \/ ~forms'[g].proven => forms'[g].decided = "no"
          /\ forms'[g].deleted => ~forms'[g].proven
    BY <1>4, <1>19, <1>20, <2>1 DEF FormsAreSound
  <2>4. \A g, h \in Forms' : forms'[g].owner = forms'[h].owner /\ forms'[g].owner # Nobody => g = h
    BY <1>19, <1>20, <2>1 DEF FormsAreSound
  <2> QED BY <1>19, <2>2, <2>3, <2>4 DEF FormsAreSound
<1>27. ProofsAreSound'
  <2> SUFFICES ASSUME NEW q \in Proofs PROVE ProofSound(q)' BY <1>13 DEF ProofsAreSound
  <2>1. ProofSound(q) BY DEF OrganisationInvariant, ProofsAreSound
  <2> QED BY <1>2, <1>13, <1>19, <1>20, <2>1 DEF ProofSound
<1>28. CompaniesAreKept'
  <2>1. CompaniesAreKept BY DEF OrganisationInvariant
  <2>2. /\ Approved(o) = {} /\ Founders(o) = {}
    <3>1. Approved(o) = {} BY <1>4 DEF Approved, OrganisationInvariant, FormsAreSound
    <3>2. Founders(o) = {}
      BY <1>4, <1>6 DEF Founders, OrganisationInvariant, SeatsAreSound, SeatSound
    <3> QED BY <3>1, <3>2
  <2>3. \A c \in organizations' :
          \E m \in SeatsHeld' : requireOwnerOf(m, c)' /\ seats'[m].entry = 0
    <3> SUFFICES ASSUME NEW c \in organizations'
                 PROVE  \E m \in SeatsHeld' : requireOwnerOf(m, c)' /\ seats'[m].entry = 0
      OBVIOUS
    <3>1. CASE c = o
      <4>1. requireOwnerOf(n, c)' /\ seats'[n].entry = 0
        BY <1>11, <1>15, <3>1 DEF requireOwnerOf
      <4> QED BY <1>15, <4>1
    <3>2. CASE c # o
      <4>1. PICK m \in SeatsHeld : requireOwnerOf(m, c) /\ seats[m].entry = 0
        BY <1>4, <2>1, <3>2 DEF CompaniesAreKept
      <4>2. m \in SeatsHeld' /\ seats'[m] = seats[m] BY <1>4, <1>15, <4>1 DEF SeatsHeld
      <4> QED BY <4>1, <4>2 DEF requireOwnerOf
    <3> QED BY <3>1, <3>2
  <2>4. ASSUME NEW c \in Slugs
        PROVE  /\ \A g, h \in Approved(c)' : g = h
               /\ \A l, m \in Founders(c)' : l = m
               /\ Approved(c)' # {} => Founders(c)' = {}
    <3>1. n \notin Founders(c)' BY <1>19, <1>20, <1>3 DEF Founders
    <3>2. \A m \in Founders(c)' : m \in Founders(c)
      <4> SUFFICES ASSUME NEW m \in Founders(c)' PROVE m \in Founders(c) OBVIOUS
      <4>1. m \in SeatsHeld /\ m \in Names /\ seats'[m] = seats[m]
        BY <1>15, <3>1 DEF Founders, SeatsHeld
      <4> QED BY <1>19, <1>20, <4>1 DEF Founders
    <3>3. CASE c = o
      <4>1. \A g \in Approved(c)' : g = f BY <1>19, <1>20, <2>2, <3>3 DEF Approved
      <4> QED BY <2>2, <3>2, <3>3, <4>1
    <3>4. CASE c # o
      <4>1. \A g \in Approved(c)' : g \in Approved(c)
        BY <1>3, <1>19, <1>20, <3>4 DEF Approved
      <4> QED BY <2>1, <3>2, <4>1 DEF CompaniesAreKept
    <3> QED BY <3>3, <3>4
  <2> QED BY <2>3, <2>4 DEF CompaniesAreKept
<1> QED BY <1>15, <1>22, <1>24, <1>25, <1>26, <1>27, <1>28 DEF OrganisationInvariant

\* An independent hirer takes a free name at once (Register).
LEMMA RegisterStep ==
  ASSUME OrganisationInvariant, NEW n \in Names, Register(n)
  PROVE  OrganisationInvariant'
<1>1. TypeOK BY DEF OrganisationInvariant
<1>2. /\ ClaimUsername(n) /\ usernames' = usernames \cup {n} /\ seats' = Independently(n)
      /\ UNCHANGED <<organizations, roster, proofs, forms, request>>
  BY DEF Register
<1>3. /\ Offers(n) = {} /\ Waiting(n) = {} /\ ~seats[n].exists
      /\ \A f \in Forms : forms[f].owner # n
  BY <1>2, FreeName
<1>4. PICK row : row = [exists |-> TRUE, org |-> Independent, role |-> "none", entry |-> 0,
                        disabled |-> FALSE, review |-> "pending", verified |-> FALSE]
  OBVIOUS
<1>5. /\ row \in SeatRow /\ row.exists /\ row.org = Independent /\ row.entry = 0
      /\ row.review = "pending" /\ ~row.verified
  BY <1>4, OrganisationsAssumption DEF SeatRow
<1>6. seats' = [seats EXCEPT ![n] = row] BY <1>2, <1>4 DEF Independently, Seat
<1>7. UNCHANGED <<Entries, Proofs, Forms>> BY <1>2 DEF Entries, Proofs, Forms
<1>8. organizations \subseteq organizations' /\ organizations' \subseteq Slugs
  BY <1>1, <1>2 DEF TypeOK
<1>9. /\ seats' \in [Names -> SeatRow \cup {NoSeat}] /\ SeatsHeld' = SeatsHeld \cup {n}
      /\ seats'[n] = row /\ \A m \in Names : m # n => seats'[m] = seats[m]
      /\ RosterIsKept' /\ SeatsAreSound' /\ RemovedEndsSeat'
  <2>1. row.entry # 0 =>
          /\ row.entry \in Entries /\ roster[row.entry].redeemedBy = Nobody
          /\ roster[row.entry].username = n
          /\ roster'[row.entry].redeemedBy = n /\ ~roster[row.entry].removed
    BY <1>5
  <2>2. /\ row.org = Independent =>
             row.review # "none" /\ (row.verified <=> row.review = "approved")
        /\ row.org # Independent => row.review = "none" /\ row.org \in organizations'
    BY <1>5
  <2>3. \A d \in Entries :
          /\ roster'[d].org = roster[d].org /\ roster'[d].username = roster[d].username
          /\ d # row.entry => roster'[d].redeemedBy = roster[d].redeemedBy
          /\ roster'[d].removed <=> roster[d].removed
    BY <1>2
  <2>4. roster' \in Seq(RosterRow) /\ Len(roster') <= MaxEntries /\ Entries' = Entries
    BY <1>1, <1>2, <1>7 DEF TypeOK
  <2>5. row \in SeatRow /\ row.exists /\ ~seats[n].exists BY <1>3, <1>5
  <2> QED BY <1>6, <1>8, <2>1, <2>2, <2>3, <2>4, <2>5, SeatMade
<1>10. request' \in [Requests -> Request] /\ RequestsAreSound'
  BY <1>2, <1>7, RequestsWait
<1>11. TypeOK' BY <1>1, <1>2, <1>8, <1>9, <1>10 DEF TypeOK, Forms
<1>12. NamesAreHeld'
  <2> SUFFICES ASSUME NEW m \in Names PROVE NameSound(m)' BY DEF NamesAreHeld
  <2>1. Offers(m)' = Offers(m) BY <1>2 DEF Offers, Redeemable, Entries
  <2>2. Waiting(m)' = Waiting(m) BY <1>2 DEF Waiting, Forms
  <2>3. CASE m = n
    <3>1. seats'[n].exists /\ Offers(n)' = {} /\ Waiting(n)' = {} /\ n \in usernames'
      BY <1>2, <1>3, <1>5, <1>9, <2>1, <2>2, <2>3
    <3>2. NameSound(n)' BY <3>1 DEF NameSound
    <3> QED BY <2>3, <3>2
  <2>4. CASE m # n
    <3>1. seats'[m].exists <=> seats[m].exists BY <1>9, <2>4
    <3>2. m \in usernames' <=> m \in usernames BY <1>2, <2>4
    <3> QED BY <2>1, <2>2, <3>1, <3>2, NameStays
  <2> QED BY <2>3, <2>4
<1>13. FormsAreSound'
  <2>1. FormsAreSound BY DEF OrganisationInvariant
  <2>2. ASSUME NEW f \in Forms, forms[f].decided = "approved" PROVE seats'[forms[f].owner].exists
    <3>1. forms[f].proven /\ seats[forms[f].owner].exists BY <2>1, <2>2 DEF FormsAreSound
    <3>2. forms[f].owner \in Names BY <1>1, <3>1, Tables DEF FormRow, TypeOK
    <3> QED BY <1>3, <1>9, <3>1, <3>2
  <2> QED BY <1>2, <1>7, <2>1, <2>2 DEF FormsAreSound
<1>14. ProofsAreSound'
  BY <1>2, <1>7 DEF OrganisationInvariant, ProofsAreSound, ProofSound
<1>15. CompaniesAreKept'
  <2>1. \A m \in SeatsHeld : seats[m].entry = 0 =>
          /\ m \in SeatsHeld' /\ seats'[m].org = seats[m].org /\ seats'[m].role = seats[m].role
          /\ seats'[m].entry = 0 /\ (seats'[m].disabled => seats[m].disabled)
    BY <1>3, <1>9 DEF SeatsHeld
  <2>2. \A m \in SeatsHeld' : seats'[m].org \in Slugs /\ seats'[m].entry = 0 =>
          /\ m \in SeatsHeld /\ seats[m].entry = 0
          /\ seats'[m].org = seats[m].org /\ seats'[m].role = seats[m].role
    BY <1>5, <1>9, OrganisationsAssumption DEF SeatsHeld
  <2> QED BY <1>2, <2>1, <2>2, CompaniesStayWithSeats
<1> QED BY <1>9, <1>10, <1>11, <1>12, <1>13, <1>14, <1>15 DEF OrganisationInvariant

\* An independent hirer is reviewed once (DecideVerification).
LEMMA ReviewStep ==
  ASSUME OrganisationInvariant, NEW n \in Names, NEW approve \in BOOLEAN,
         DecideVerification(n, approve)
  PROVE  OrganisationInvariant'
<1>1. TypeOK BY DEF OrganisationInvariant
<1>2. PICK review : review = IF approve THEN "approved" ELSE "rejected" OBVIOUS
<1>3. /\ seats[n].exists /\ seats[n].review = "pending"
      /\ seats' = [seats EXCEPT ![n].review = review, ![n].verified = approve]
      /\ UNCHANGED <<usernames, organizations, roster, proofs, forms, request>>
  BY <1>2 DEF DecideVerification
<1>4. /\ review \in {"approved", "rejected"} /\ (review = "approved" <=> approve) BY <1>2
<1>5. seats[n] \in SeatRow BY <1>1, <1>3, Tables
<1>6. SeatSound(n) BY <1>3 DEF OrganisationInvariant, SeatsAreSound, SeatsHeld
<1>7. seats[n].org = Independent BY <1>3, <1>6 DEF SeatSound
<1>8. PICK a : a = [seats[n] EXCEPT !.review = review] OBVIOUS
<1>9. /\ a \in SeatRow /\ a.exists /\ a.org = Independent /\ a.role = seats[n].role
      /\ a.entry = seats[n].entry /\ (a.disabled <=> seats[n].disabled) /\ a.review = review
  BY <1>3, <1>4, <1>5, <1>7, <1>8 DEF SeatRow
<1>10. PICK row : row = [a EXCEPT !.verified = approve] OBVIOUS
<1>11. /\ row \in SeatRow /\ row.exists /\ row.org = Independent /\ row.role = a.role
       /\ row.entry = a.entry /\ (row.disabled <=> a.disabled) /\ row.review = review
       /\ (row.verified <=> approve)
  BY <1>9, <1>10 DEF SeatRow
<1>12. seats \in [Names -> SeatRow \cup {NoSeat}] BY <1>1, Tables
<1>13. seats' = [seats EXCEPT ![n] = row] BY <1>3, <1>8, <1>10, <1>12
<1>14. /\ seats' \in [Names -> SeatRow \cup {NoSeat}] /\ seats'[n] = row
       /\ \A m \in Names : m # n => seats'[m] = seats[m]
  BY <1>11, <1>13, SeatWritten
<1>15. SeatsHeld' = SeatsHeld BY <1>3, <1>11, <1>14 DEF SeatsHeld
<1>16. \A m \in SeatsHeld :
         /\ seats'[m].org = seats[m].org /\ seats'[m].role = seats[m].role
         /\ seats'[m].entry = seats[m].entry /\ (seats'[m].disabled <=> seats[m].disabled)
  BY <1>7, <1>9, <1>11, <1>14 DEF SeatsHeld
<1>17. UNCHANGED <<Entries, Proofs, Forms>> BY <1>3 DEF Entries, Proofs, Forms
<1>18. request' \in [Requests -> Request] /\ RequestsAreSound'
  BY <1>3, <1>17, RequestsWait
<1>19. TypeOK' BY <1>1, <1>3, <1>14, <1>18 DEF TypeOK, Forms
<1>20. NamesAreHeld'
  <2> SUFFICES ASSUME NEW m \in Names PROVE NameSound(m)' BY DEF NamesAreHeld
  <2>1. Offers(m)' = Offers(m) BY <1>3 DEF Offers, Redeemable, Entries
  <2>2. Waiting(m)' = Waiting(m) BY <1>3 DEF Waiting, Forms
  <2>3. seats'[m].exists <=> seats[m].exists BY <1>3, <1>11, <1>14
  <2> QED BY <1>3, <2>1, <2>2, <2>3, NameStays
<1>21. RosterIsKept'
  <2> SUFFICES ASSUME NEW d \in Entries
               PROVE  /\ roster[d].org \in organizations
                      /\ roster[d].redeemedBy # Nobody =>
                           /\ roster[d].redeemedBy = roster[d].username
                           /\ seats'[roster[d].username].exists
                           /\ seats'[roster[d].username].entry = d
    BY <1>3, <1>17 DEF RosterIsKept
  <2>1. /\ roster[d].org \in organizations
        /\ roster[d].redeemedBy # Nobody =>
             /\ roster[d].redeemedBy = roster[d].username
             /\ seats[roster[d].username].exists /\ seats[roster[d].username].entry = d
    BY DEF OrganisationInvariant, RosterIsKept
  <2>2. roster[d].username \in Names BY <1>1, Tables DEF RosterRow
  <2>3. roster[d].redeemedBy # Nobody => roster[d].username \in SeatsHeld
    BY <2>1, <2>2 DEF SeatsHeld
  <2> QED BY <1>15, <1>16, <2>1, <2>2, <2>3 DEF SeatsHeld
<1>22. SeatsAreSound'
  <2> SUFFICES ASSUME NEW m \in SeatsHeld PROVE SeatSound(m)' BY <1>15 DEF SeatsAreSound
  <2>1. SeatSound(m) BY DEF OrganisationInvariant, SeatsAreSound
  <2>2. seats'[m].entry # 0 =>
          seats'[m].entry \in Entries' /\ roster'[seats'[m].entry].redeemedBy = m
    <3>1. UNCHANGED <<roster, Entries>> BY <1>3, <1>17
    <3>2. seats'[m].entry = seats[m].entry BY <1>16
    <3>3. seats[m].entry # 0 =>
            seats[m].entry \in Entries /\ roster[seats[m].entry].redeemedBy = m
      BY <2>1 DEF SeatSound
    <3> QED BY <3>1, <3>2, <3>3
  <2>3. IF seats'[m].org = Independent
        THEN seats'[m].review # "none" /\ (seats'[m].verified <=> seats'[m].review = "approved")
        ELSE seats'[m].review = "none" /\ seats'[m].org \in organizations'
    <3>1. CASE m = n
      <4>1. /\ seats'[m].org = Independent /\ seats'[m].review = review
            /\ (seats'[m].verified <=> approve)
        BY <1>11, <1>14, <3>1
      <4> QED BY <1>4, <4>1
    <3>2. CASE m # n
      <4>1. seats'[m] = seats[m] BY <1>14, <3>2 DEF SeatsHeld
      <4>2. IF seats[m].org = Independent
            THEN seats[m].review # "none" /\ (seats[m].verified <=> seats[m].review = "approved")
            ELSE seats[m].review = "none" /\ seats[m].org \in organizations
        BY <2>1 DEF SeatSound
      <4>3. UNCHANGED organizations BY <1>3
      <4> QED BY <4>1, <4>2, <4>3
    <3> QED BY <3>1, <3>2
  <2> QED BY <2>2, <2>3 DEF SeatSound
<1>23. RemovedEndsSeat'
  BY <1>3, <1>15, <1>16 DEF OrganisationInvariant, RemovedEndsSeat
<1>24. FormsAreSound'
  <2>1. FormsAreSound BY DEF OrganisationInvariant
  <2>2. ASSUME NEW f \in Forms, forms[f].decided = "approved" PROVE seats'[forms[f].owner].exists
    <3>1. forms[f].proven /\ seats[forms[f].owner].exists BY <2>1, <2>2 DEF FormsAreSound
    <3>2. forms[f].owner \in Names BY <1>1, <3>1, Tables DEF FormRow, TypeOK
    <3> QED BY <1>11, <1>14, <3>1, <3>2
  <2> QED BY <1>3, <1>17, <2>1, <2>2 DEF FormsAreSound
<1>25. ProofsAreSound'
  BY <1>3, <1>17 DEF OrganisationInvariant, ProofsAreSound, ProofSound
<1>26. CompaniesAreKept'
  <2>1. \A m \in SeatsHeld : seats[m].entry = 0 =>
          /\ m \in SeatsHeld' /\ seats'[m].org = seats[m].org /\ seats'[m].role = seats[m].role
          /\ seats'[m].entry = 0 /\ (seats'[m].disabled => seats[m].disabled)
    BY <1>15, <1>16
  <2>2. \A m \in SeatsHeld' : seats'[m].org \in Slugs /\ seats'[m].entry = 0 =>
          /\ m \in SeatsHeld /\ seats[m].entry = 0
          /\ seats'[m].org = seats[m].org /\ seats'[m].role = seats[m].role
    BY <1>15, <1>16
  <2> QED BY <1>3, <2>1, <2>2, CompaniesStayWithSeats
<1> QED BY <1>18, <1>19, <1>20, <1>21, <1>22, <1>23, <1>24, <1>25, <1>26 DEF OrganisationInvariant

-----------------------------------------------------------------------------
(* Every step                                                              *)

\* A step is one of these, or changes nothing.
LEMMA Steps ==
  ASSUME [Next]_vars
  PROVE  \/ \E o \in Slugs, email \in Emails : StartRedemption(o, email) \/ Submit(o, email)
         \/ \E owner, n \in Names, o \in Slugs, email \in Emails, role \in {"owner", "member"} :
              AddToRoster(owner, o, email, n, role)
         \/ \E p \in Proofs : CompleteRedemption(p)
         \/ \E p \in Proofs, n \in Names : Verify(p, n)
         \/ \E f \in Forms : Decide(f, TRUE) \/ Decide(f, FALSE)
         \/ \E n \in Names : Register(n)
         \/ \E n \in Names, approve \in BOOLEAN : DecideVerification(n, approve)
         \/ \E r \in Requests, owner \in Names, e \in Entries : RosterEntryByID(r, owner, e)
         \/ \E r \in Requests, email \in Emails : ReadOutstanding(r, email)
         \/ \E r \in Requests, p \in Proofs : Revise(r, p)
         \/ \E r \in Requests, o \in Slugs, email \in Emails : SubmitRevision(r, o, email)
         \/ \E r \in Requests : RemoveFromRoster(r) \/ ResendVerification(r) \/ RevisionLost(r)
         \/ ExpireUnproven \/ Lapse
         \/ UNCHANGED vars
<1>1. CASE Next
  <2>1. ASSUME NEW f \in Forms, NEW approve \in BOOLEAN, Decide(f, approve)
        PROVE  Decide(f, TRUE) \/ Decide(f, FALSE)
    <3>1. CASE approve = TRUE BY <2>1, <3>1
    <3>2. CASE approve = FALSE BY <2>1, <3>2
    <3> QED BY <3>1, <3>2
  <2> QED BY <1>1, <2>1 DEF Next
<1>2. CASE UNCHANGED vars BY <1>2
<1> QED BY <1>1, <1>2

\* The tables stay sound, whatever happens next.
LEMMA InvariantIsInductive ==
  ASSUME OrganisationInvariant, [Next]_vars
  PROVE  OrganisationInvariant'
<1>1. CASE UNCHANGED vars
  <2>1. UNCHANGED <<usernames, organizations, seats, roster, proofs, forms, request>>
    BY <1>1 DEF vars
  <2>2. UNCHANGED <<Entries, Forms, Proofs>> BY <2>1 DEF Entries, Forms, Proofs
  <2>3. request' \in [Requests -> Request] /\ RequestsAreSound' BY <2>1, <2>2, RequestsWait
  <2>4. proofs' \in Seq(ProofRow) /\ Len(proofs') <= MaxProofs
    BY <2>1 DEF OrganisationInvariant, TypeOK
  <2> QED BY <2>1, <2>2, <2>3, <2>4, CodesMove
<1>2. CASE \E o \in Slugs, email \in Emails : StartRedemption(o, email) \/ Submit(o, email)
  BY <1>2, StartStep, SubmitSteps
<1>3. CASE \E owner, n \in Names, o \in Slugs, email \in Emails, role \in {"owner", "member"} :
             AddToRoster(owner, o, email, n, role)
  BY <1>3, AddStep
<1>4. CASE \E p \in Proofs : CompleteRedemption(p) BY <1>4, RedeemStep
<1>5. CASE \E p \in Proofs, n \in Names : Verify(p, n) BY <1>5, VerifyStep
<1>6. CASE \E f \in Forms : Decide(f, TRUE) \/ Decide(f, FALSE) BY <1>6, PromoteStep, RejectStep
<1>7. CASE \E n \in Names : Register(n) BY <1>7, RegisterStep
<1>8. CASE \E n \in Names, approve \in BOOLEAN : DecideVerification(n, approve)
  BY <1>8, ReviewStep
<1>9. CASE \E r \in Requests, owner \in Names, e \in Entries : RosterEntryByID(r, owner, e)
  BY <1>9, ReadSteps
<1>10. CASE \E r \in Requests, email \in Emails : ReadOutstanding(r, email) BY <1>10, ReadSteps
<1>11. CASE \E r \in Requests, p \in Proofs : Revise(r, p) BY <1>11, RevisionSteps
<1>12. CASE \E r \in Requests, o \in Slugs, email \in Emails : SubmitRevision(r, o, email)
  BY <1>12, SubmitSteps
<1>13. CASE \E r \in Requests : RemoveFromRoster(r) \/ ResendVerification(r) \/ RevisionLost(r)
  BY <1>13, RemoveStep, ResendStep, RevisionSteps
<1>14. CASE ExpireUnproven \/ Lapse BY <1>14, ExpireStep, LapseStep
<1> QED
  BY <1>1, <1>2, <1>3, <1>4, <1>5, <1>6, <1>7, <1>8, <1>9, <1>10, <1>11, <1>12, <1>13, <1>14, Steps

\* Nothing is claimed at first, but for the seat and the company of a platform
\* that has been running.
LEMMA InvariantHoldsFirst ==
  ASSUME Init PROVE OrganisationInvariant
<1>1. roster = <<>> /\ proofs = <<>> /\ forms = <<>> /\ request = [r \in Requests |-> Idle]
  BY DEF Init
<1>2. Entries = {} /\ Proofs = {} /\ Forms = {} BY <1>1 DEF Entries, Proofs, Forms
<1>3. \A n : Offers(n) = {} /\ Waiting(n) = {} BY <1>2 DEF Offers, Waiting
<1>4. /\ roster \in Seq(RosterRow) /\ Len(roster) <= MaxEntries
      /\ proofs \in Seq(ProofRow) /\ Len(proofs) <= MaxProofs
      /\ forms \in Seq(FormRow) /\ Len(forms) <= MaxForms
  BY <1>1, EmptySeq, OrganisationsAssumption
<1>5. Idle \in Request /\ RequestSound(Idle) BY NothingIsRead
<1>6. request \in [Requests -> Request] /\ RequestsAreSound
  BY <1>1, <1>5 DEF RequestsAreSound
<1>7. RosterIsKept /\ FormsAreSound /\ ProofsAreSound
  BY <1>2 DEF RosterIsKept, FormsAreSound, ProofsAreSound
<1>8. \A o : Approved(o) = {} BY <1>2 DEF Approved
<1>9. CASE /\ organizations = {} /\ usernames = {} /\ seats = [n \in Names |-> NoSeat]
  <2>1. SeatsHeld = {} /\ \A n \in Names : ~seats[n].exists BY <1>9 DEF SeatsHeld, NoSeat
  <2>2. TypeOK BY <1>2, <1>4, <1>6, <1>9 DEF TypeOK
  <2>3. NamesAreHeld BY <1>3, <1>9, <2>1 DEF NamesAreHeld, NameSound
  <2>4. SeatsAreSound /\ RemovedEndsSeat BY <2>1 DEF SeatsAreSound, RemovedEndsSeat
  <2>5. CompaniesAreKept BY <1>8, <1>9, <2>1 DEF CompaniesAreKept, Founders
  <2> QED BY <1>6, <1>7, <2>2, <2>3, <2>4, <2>5 DEF OrganisationInvariant
<1>10. CASE \E n \in Names, o \in Slugs :
              /\ organizations = {o} /\ usernames = {n}
              /\ seats = [m \in Names |-> IF m = n THEN Owner(o) ELSE NoSeat]
  <2>1. PICK n \in Names, o \in Slugs :
          /\ organizations = {o} /\ usernames = {n}
          /\ seats = [m \in Names |-> IF m = n THEN Owner(o) ELSE NoSeat]
    BY <1>10
  <2>2. PICK row : row = [exists |-> TRUE, org |-> o, role |-> "owner", entry |-> 0, disabled |-> FALSE,
                          review |-> "none", verified |-> FALSE]
    OBVIOUS
  <2>3. row \in SeatRow BY <2>2, SeatShape, OrganisationsAssumption
  <2>4. /\ row.exists /\ row.org = o /\ row.role = "owner" /\ row.entry = 0 /\ ~row.disabled
        /\ row.review = "none"
    BY <2>2
  <2>5. Owner(o) = row BY <2>2 DEF Owner, Seat
  <2>6. seats[n] = row /\ \A m \in Names : m # n => seats[m] = NoSeat BY <2>1, <2>5
  <2>7. ~NoSeat.exists BY DEF NoSeat
  <2>8. SeatsHeld = {n} BY <2>4, <2>6, <2>7 DEF SeatsHeld
  <2>9. seats \in [Names -> SeatRow \cup {NoSeat}] BY <2>1, <2>3, <2>5
  <2>10. TypeOK BY <1>2, <1>4, <1>6, <2>1, <2>9 DEF TypeOK
  <2>11. NamesAreHeld
    <3> SUFFICES ASSUME NEW m \in Names PROVE NameSound(m) BY DEF NamesAreHeld
    <3>1. seats[m].exists <=> m = n BY <2>4, <2>6, <2>7
    <3>2. m \in usernames <=> m = n BY <2>1
    <3> QED BY <1>3, <3>1, <3>2 DEF NameSound
  <2>12. SeatSound(n) BY <2>1, <2>4, <2>6, OrganisationsAssumption DEF SeatSound
  <2>13. SeatsAreSound /\ RemovedEndsSeat
    BY <2>4, <2>6, <2>8, <2>12 DEF SeatsAreSound, RemovedEndsSeat
  <2>14. CompaniesAreKept
    <3>1. \A c : Founders(c) \subseteq {n} BY <2>8 DEF Founders
    <3>2. requireOwnerOf(n, o) /\ seats[n].entry = 0 BY <2>4, <2>6 DEF requireOwnerOf
    <3> QED BY <1>8, <2>1, <2>8, <3>1, <3>2 DEF CompaniesAreKept
  <2> QED BY <1>6, <1>7, <2>10, <2>11, <2>13, <2>14 DEF OrganisationInvariant
<1> QED BY <1>9, <1>10 DEF Init

(* The tables of the onboarding stay sound: a name is held exactly when one
   offer, form or seat has a claim to it, an entry and its seat name each
   other, and a company has an owner no roster can take away. *)
THEOREM OrganisationsAreSound == Spec => []OrganisationInvariant
<1>1. Init => OrganisationInvariant BY InvariantHoldsFirst
<1>2. OrganisationInvariant /\ [Next]_vars => OrganisationInvariant' BY InvariantIsInductive
<1> QED BY <1>1, <1>2, PTL DEF Spec

-----------------------------------------------------------------------------
(* What follows of names and companies                                     *)

\* A set whose elements are one has one, or none.
LEMMA AtMostOne ==
  ASSUME NEW S, \A x, y \in S : x = y
  PROVE  (S = {} => Cardinality(S) = 0) /\ (S # {} => Cardinality(S) = 1)
<1>1. CASE S = {}
  <2>1. Cardinality({}) = 0 BY FS_EmptySet
  <2> QED BY <1>1, <2>1
<1>2. CASE S # {}
  <2>1. PICK x : x \in S BY <1>2
  <2>2. S = {x} BY <2>1
  <2>3. Cardinality({x}) = 1 BY FS_Singleton
  <2> QED BY <1>2, <2>2, <2>3
<1> QED BY <1>1, <1>2

\* A name that is held is held for one, and a claim holds it.
LEMMA HeldForOne ==
  ASSUME OrganisationInvariant PROVE NameHeldOnce
<1> SUFFICES ASSUME NEW n \in Names
             PROVE  Cardinality(Claimants(n)) <= 1 /\ (Claimants(n) # {} => n \in usernames)
  BY DEF NameHeldOnce
<1>1. NameSound(n) BY DEF OrganisationInvariant, NamesAreHeld
<1>2. n # Nobody BY OrganisationsAssumption
<1>3. \A f, g \in Waiting(n) : f = g BY <1>2 DEF Waiting, OrganisationInvariant, FormsAreSound
<1>4. \A x \in Claimants(n) :
        \/ \E e \in Offers(n) : x = <<"entry", e>>
        \/ \E f \in Waiting(n) : x = <<"form", f>>
        \/ x = <<"seat", n>> /\ seats[n].exists
  BY DEF Claimants, SeatOf
<1>5. \A x, y \in Claimants(n) : x = y BY <1>1, <1>3, <1>4 DEF NameSound
<1>6. Cardinality(Claimants(n)) = 0 \/ Cardinality(Claimants(n)) = 1 BY <1>5, AtMostOne
<1>7. Claimants(n) # {} => n \in usernames BY <1>1, <1>4 DEF NameSound
<1> QED BY <1>6, <1>7

\* A company came to be once, has an owner who can sign in, and tells its people
\* what they may do.
LEMMA CompaniesStand ==
  ASSUME OrganisationInvariant PROVE OrganisationsStand
<1>1. CompaniesAreKept BY DEF OrganisationInvariant
<1>2. OneCompanyPerName
  <2> SUFFICES ASSUME NEW o \in Slugs
               PROVE  Cardinality(Approved(o)) + Cardinality(Founders(o)) <= 1
    BY DEF OneCompanyPerName
  <2>1. PICK a, b : a = Cardinality(Approved(o)) /\ b = Cardinality(Founders(o)) OBVIOUS
  <2>2. a = 0 \/ (a = 1 /\ Approved(o) # {})
    BY <1>1, <2>1, AtMostOne DEF CompaniesAreKept
  <2>3. (b = 0 \/ b = 1) /\ (Founders(o) = {} => b = 0)
    BY <1>1, <2>1, AtMostOne DEF CompaniesAreKept
  <2>4. Approved(o) # {} => Founders(o) = {} BY <1>1 DEF CompaniesAreKept
  <2>5. a + b <= 1 BY <2>2, <2>3, <2>4
  <2> QED BY <2>1, <2>5
<1>3. OrganisationHasOwner BY <1>1 DEF CompaniesAreKept, OrganisationHasOwner
<1>4. StatusIsCapability
  <2> SUFFICES ASSUME NEW n \in SeatsHeld
               PROVE  Verification(n) = "approved" <=> RequireHiringCapability(n)
    BY DEF StatusIsCapability
  <2>1. SeatSound(n) BY DEF OrganisationInvariant, SeatsAreSound
  <2>2. CASE seats[n].org = Independent
    BY <2>1, <2>2 DEF SeatSound, Verification, RequireHiringCapability
  <2>3. CASE seats[n].org # Independent
    BY <2>1, <2>3 DEF SeatSound, Verification, RequireHiringCapability
  <2> QED BY <2>2, <2>3
<1> QED BY <1>2, <1>3, <1>4 DEF OrganisationsStand

(* Every row of the onboarding is one the schema takes. *)
THEOREM OrganisationTypes == Spec => []TypeOK
<1>1. OrganisationInvariant => TypeOK BY DEF OrganisationInvariant
<1> QED BY <1>1, OrganisationsAreSound, PTL

(* No name is offered twice, nor while a seat, live or closed, has it, however
   rosters, forms and registrations race for it. *)
THEOREM NamesAreHeldOnce == Spec => []NameHeldOnce
<1>1. OrganisationInvariant => NameHeldOnce BY HeldForOne
<1> QED BY <1>1, OrganisationsAreSound, PTL

(* A roster entry that is gone leaves no seat that can sign in, also when it was
   redeemed between the owner's read and the deletion. *)
THEOREM SeatsEndWithEntries == Spec => []RemovedEndsSeat
<1>1. OrganisationInvariant => RemovedEndsSeat BY DEF OrganisationInvariant
<1> QED BY <1>1, OrganisationsAreSound, PTL

(* A company comes to be once, always has an owner who can sign in, and nobody
   is told they may hire who may not. *)
THEOREM OrganisationsDoStand == Spec => []OrganisationsStand
<1>1. OrganisationInvariant => OrganisationsStand BY CompaniesStand
<1> QED BY <1>1, OrganisationsAreSound, PTL

-----------------------------------------------------------------------------
(* The promise of the namespace                                            *)

\* A step of the namespace: one name changes, to what its bearer is then.
LEMMA PromiseSteps ==
  ASSUME NEW n \in Names, Standing(n)' # Standing(n),
         \A m \in Names : m # n => Standing(m)' = Standing(m) /\ Bearer(m)' = Bearer(m),
         \/ Standing(n) = "reserved" /\ Standing(n)' = "free" /\ Bearer(n)' = {}
         \/ Standing(n) = "free" /\ Standing(n)' = "reserved" /\ Bearer(n)' \in Bearers
         \/ /\ Standing(n) = "free" \/ (Standing(n) = "reserved" /\ Bearer(n)' = Bearer(n))
            /\ Standing(n)' = "seated" /\ Bearer(n)' \in Bearers
  PROVE  Namespace!NamesNext
<1>1. PICK st, be : st = [m \in Names |-> Standing(m)] /\ be = [m \in Names |-> Bearer(m)] OBVIOUS
<1>2. PICK st2, be2 : st2 = [m \in Names |-> Standing(m)'] /\ be2 = [m \in Names |-> Bearer(m)'] OBVIOUS
<1>3. st2 = [st EXCEPT ![n] = Standing(n)'] BY <1>1, <1>2
<1>4. be2 = [be EXCEPT ![n] = Bearer(n)'] BY <1>1, <1>2
<1>5. n \in {m \in Names : st2[m] # st[m]} BY <1>1, <1>2
<1> QED
  BY <1>1, <1>2, <1>3, <1>4, <1>5
  DEF Namespace!NamesNext, Namespace!Release, Namespace!Reserve, Namespace!Seat, Namespace!Become

\* A name keeps its standing and its bearer.
LEMMA BearerStays ==
  ASSUME NEW n \in Names, Entered(n)' = Entered(n), Formed(n)' = Formed(n),
         seats'[n].exists <=> seats[n].exists, seats[n].exists => seats'[n].entry = seats[n].entry,
         n \in usernames' <=> n \in usernames
  PROVE  Standing(n)' = Standing(n) /\ Bearer(n)' = Bearer(n)
BY DEF Standing, Bearer, SeatOf

\* What keeps every name as it was is a step of the namespace that changes
\* nothing.
LEMMA NamesStay ==
  ASSUME \A n \in Names : Standing(n)' = Standing(n) /\ Bearer(n)' = Bearer(n)
  PROVE  [Namespace!NamesNext]_(Namespace!namesVars)
<1>1. [n \in Names |-> Standing(n)'] = [n \in Names |-> Standing(n)] OBVIOUS
<1>2. [n \in Names |-> Bearer(n)'] = [n \in Names |-> Bearer(n)] OBVIOUS
<1> QED BY <1>1, <1>2 DEF Namespace!namesVars

\* No name moves while rosters and seats rest and no form gets an owner.
LEMMA OwnersStay ==
  ASSUME UNCHANGED <<usernames, seats, roster>>,
         \A n \in Names : Formed(n)' = Formed(n)
  PROVE  [Namespace!NamesNext]_(Namespace!namesVars)
<1>1. \A n \in Names : Entered(n)' = Entered(n) BY DEF Entered, Entries
<1>2. \A n \in Names : Standing(n)' = Standing(n) /\ Bearer(n)' = Bearer(n) BY <1>1, BearerStays
<1> QED BY <1>2, NamesStay

\* No name moves with a code, a form that is submitted, rejected or deleted, or a
\* read.
LEMMA QuietSteps ==
  ASSUME OrganisationInvariant
  PROVE  /\ \A o \in Slugs, email \in Emails :
              StartRedemption(o, email) \/ Submit(o, email) =>
                [Namespace!NamesNext]_(Namespace!namesVars)
         /\ \A f \in Forms : Decide(f, FALSE) => [Namespace!NamesNext]_(Namespace!namesVars)
         /\ \A r \in Requests :
              /\ \A owner \in Names, e \in Entries :
                   RosterEntryByID(r, owner, e) => [Namespace!NamesNext]_(Namespace!namesVars)
              /\ \A email \in Emails :
                   ReadOutstanding(r, email) => [Namespace!NamesNext]_(Namespace!namesVars)
              /\ \A p \in Proofs : Revise(r, p) => [Namespace!NamesNext]_(Namespace!namesVars)
              /\ \A o \in Slugs, email \in Emails :
                   SubmitRevision(r, o, email) => [Namespace!NamesNext]_(Namespace!namesVars)
              /\ ResendVerification(r) \/ RevisionLost(r) =>
                   [Namespace!NamesNext]_(Namespace!namesVars)
         /\ ExpireUnproven \/ Lapse \/ UNCHANGED vars =>
              [Namespace!NamesNext]_(Namespace!namesVars)
<1>1. TypeOK BY DEF OrganisationInvariant
<1>2. \A n \in Names : n # Nobody BY OrganisationsAssumption
<1>3. ASSUME UNCHANGED <<usernames, seats, roster, forms>>
      PROVE  [Namespace!NamesNext]_(Namespace!namesVars)
  BY <1>3, OwnersStay DEF Formed, Forms
<1>4. ASSUME NEW o \in Slugs, NEW email \in Emails, NEW previous \in 0 .. MaxForms,
             SubmitForm(o, email, previous), Len(forms) < MaxForms, RoomForProof,
             UNCHANGED <<usernames, seats, roster>>
      PROVE  [Namespace!NamesNext]_(Namespace!namesVars)
  <2>1. PICK k : k = Len(forms) + 1 OBVIOUS
  <2>2. /\ Forms' = Forms \cup {k} /\ \A f \in Forms : forms'[f] = forms[f]
        /\ forms'[k].owner = Nobody
    BY <1>4, <2>1, FormAdded
  <2>3. \A n \in Names : Formed(n)' = Formed(n) BY <1>2, <2>2 DEF Formed
  <2> QED BY <1>4, <2>3, OwnersStay
<1>5. ASSUME NEW o \in Slugs, NEW email \in Emails, StartRedemption(o, email) \/ Submit(o, email)
      PROVE  [Namespace!NamesNext]_(Namespace!namesVars)
  <2>1. CASE StartRedemption(o, email) BY <1>3, <2>1 DEF StartRedemption
  <2>2. CASE Submit(o, email)
    <3>1. 0 \in 0 .. MaxForms BY OrganisationsAssumption
    <3> QED BY <1>4, <2>2, <3>1 DEF Submit
  <2> QED BY <1>5, <2>1, <2>2
<1>6. ASSUME NEW f \in Forms, Decide(f, FALSE)
      PROVE  [Namespace!NamesNext]_(Namespace!namesVars)
  <2>1. /\ UNCHANGED <<usernames, seats, roster>>
        /\ forms' = [forms EXCEPT ![f].decided = "rejected"]
    BY <1>6 DEF Decide, Reject
  <2>2. forms \in Seq(FormRow) /\ DOMAIN forms = Forms /\ forms[f] \in FormRow
    BY <1>1, Tables DEF Forms
  <2>3. PICK row : row = [forms[f] EXCEPT !.decided = "rejected"] OBVIOUS
  <2>4. row.owner = forms[f].owner /\ row \in FormRow BY <2>2, <2>3 DEF FormRow
  <2>5. forms' = [forms EXCEPT ![f] = row] BY <2>1, <2>3
  <2>6. Forms' = Forms /\ forms'[f] = row /\ \A g \in Forms : g # f => forms'[g] = forms[g]
    BY <2>4, <2>5, FormWritten
  <2>7. \A g \in Forms : forms'[g].owner = forms[g].owner BY <2>4, <2>6
  <2>8. \A n \in Names : Formed(n)' = Formed(n) BY <2>6, <2>7 DEF Formed
  <2> QED BY <2>1, <2>8, OwnersStay
<1>7. ASSUME NEW r \in Requests
      PROVE  /\ \A owner \in Names, e \in Entries :
                  RosterEntryByID(r, owner, e) => [Namespace!NamesNext]_(Namespace!namesVars)
             /\ \A email \in Emails :
                  ReadOutstanding(r, email) => [Namespace!NamesNext]_(Namespace!namesVars)
             /\ \A p \in Proofs : Revise(r, p) => [Namespace!NamesNext]_(Namespace!namesVars)
             /\ \A o \in Slugs, email \in Emails :
                  SubmitRevision(r, o, email) => [Namespace!NamesNext]_(Namespace!namesVars)
             /\ ResendVerification(r) \/ RevisionLost(r) =>
                  [Namespace!NamesNext]_(Namespace!namesVars)
  <2>1. \A owner \in Names, e \in Entries :
          RosterEntryByID(r, owner, e) => UNCHANGED <<usernames, seats, roster, forms>>
    BY DEF RosterEntryByID, Begin
  <2>2. \A email \in Emails : ReadOutstanding(r, email) => UNCHANGED <<usernames, seats, roster, forms>>
    BY DEF ReadOutstanding, Begin
  <2>3. \A p \in Proofs : Revise(r, p) => UNCHANGED <<usernames, seats, roster, forms>>
    BY DEF Revise
  <2>4. ResendVerification(r) \/ RevisionLost(r) => UNCHANGED <<usernames, seats, roster, forms>>
    BY DEF ResendVerification, RevisionLost
  <2>5. ASSUME NEW o \in Slugs, NEW email \in Emails, SubmitRevision(r, o, email)
        PROVE  [Namespace!NamesNext]_(Namespace!namesVars)
    <3>1. PICK previous : previous = request[r].id OBVIOUS
    <3>2. /\ request[r].pc = "revising" /\ Len(forms) < MaxForms /\ RoomForProof
          /\ SubmitForm(o, email, previous) /\ UNCHANGED <<usernames, seats, roster>>
      BY <2>5, <3>1 DEF SubmitRevision
    <3>3. previous \in Forms
      BY <3>1, <3>2 DEF OrganisationInvariant, RequestsAreSound, RequestSound
    <3>4. previous \in 0 .. MaxForms BY <1>1, <3>3, Tables, OrganisationsAssumption
    <3> QED BY <1>4, <3>2, <3>4
  <2> QED BY <1>3, <2>1, <2>2, <2>3, <2>4, <2>5
<1>8. ASSUME ExpireUnproven \/ Lapse \/ UNCHANGED vars
      PROVE  [Namespace!NamesNext]_(Namespace!namesVars)
  <2>1. CASE Lapse \/ UNCHANGED vars BY <1>3, <2>1 DEF Lapse, vars
  <2>2. CASE ExpireUnproven
    <3>1. PICK stale : stale = {f \in Forms : Stale(f)} OBVIOUS
    <3>2. /\ UNCHANGED <<usernames, seats, roster>>
          /\ forms' = [f \in Forms |-> IF f \in stale THEN [forms[f] EXCEPT !.deleted = TRUE] ELSE forms[f]]
      BY <2>2, <3>1 DEF ExpireUnproven
    <3>3. Forms' = Forms BY <3>2 DEF Forms
    <3>4. ASSUME NEW f \in Forms PROVE forms'[f].owner = forms[f].owner
      <4>1. forms[f] \in FormRow BY <1>1, Tables
      <4>2. CASE f \in stale
        <5>1. forms'[f] = [forms[f] EXCEPT !.deleted = TRUE] BY <3>2, <4>2
        <5> QED BY <4>1, <5>1 DEF FormRow
      <4>3. CASE f \notin stale BY <3>2, <4>3
      <4> QED BY <4>2, <4>3
    <3>5. \A n \in Names : Formed(n)' = Formed(n) BY <3>3, <3>4 DEF Formed
    <3> QED BY <3>2, <3>5, OwnersStay
  <2> QED BY <1>8, <2>1, <2>2
<1> QED BY <1>5, <1>6, <1>7, <1>8

\* A name is reserved for an entry an owner adds (AddToRoster).
LEMMA AddReserves ==
  ASSUME OrganisationInvariant, NEW owner \in Names, NEW n \in Names, NEW o \in Slugs,
         NEW email \in Emails, NEW role \in {"owner", "member"}, AddToRoster(owner, o, email, n, role)
  PROVE  [Namespace!NamesNext]_(Namespace!namesVars)
<1>1. TypeOK BY DEF OrganisationInvariant
<1>2. /\ ClaimUsername(n) /\ usernames' = usernames \cup {n} /\ UNCHANGED <<seats, forms>>
  BY DEF AddToRoster
<1>3. PICK k : k = Len(roster) + 1 OBVIOUS
<1>4. /\ roster' \in Seq(RosterRow) /\ Len(roster') <= MaxEntries
      /\ Entries' = Entries \cup {k} /\ k \notin Entries
      /\ \A e \in Entries : roster'[e] = roster[e]
      /\ roster'[k].username = n /\ roster'[k].redeemedBy = Nobody /\ ~roster'[k].removed
  BY <1>3, EntryAdded
<1>5. /\ Offers(n) = {} /\ ~seats[n].exists /\ \A f \in Forms : forms[f].owner # n
  BY <1>2, FreeName
<1>6. k \in 1 .. MaxEntries
  <2>1. Len(roster) \in Nat /\ Len(roster) < MaxEntries BY <1>1, Tables DEF AddToRoster
  <2> QED BY <1>3, <2>1, OrganisationsAssumption
<1>7. \A m \in Names : Formed(m)' = Formed(m) BY <1>2 DEF Formed, Forms
<1>8. \A m \in Names : m # n => Standing(m)' = Standing(m) /\ Bearer(m)' = Bearer(m)
  <2> SUFFICES ASSUME NEW m \in Names, m # n
               PROVE  Standing(m)' = Standing(m) /\ Bearer(m)' = Bearer(m)
    OBVIOUS
  <2>1. Entered(m)' = Entered(m) BY <1>4 DEF Entered
  <2> QED BY <1>2, <1>7, <2>1, BearerStays
<1>9. Standing(n) = "free" /\ Standing(n)' = "reserved"
  BY <1>2, <1>5 DEF Standing, ClaimUsername
<1>10. Entered(n) = {}
  <2> SUFFICES ASSUME NEW e \in Entered(n) PROVE FALSE OBVIOUS
  <2>1. /\ e \in Entries /\ roster[e].username = n
        /\ roster[e].redeemedBy # Nobody \/ ~roster[e].removed
    BY DEF Entered
  <2>2. roster[e].redeemedBy = Nobody
    BY <1>5, <2>1 DEF OrganisationInvariant, RosterIsKept
  <2>3. e \in Offers(n) BY <2>1, <2>2 DEF Offers, Redeemable
  <2> QED BY <1>5, <2>3
<1>11. Entered(n)' = {k} BY <1>4, <1>10 DEF Entered
<1>12. Formed(n)' = {} BY <1>5, <1>7 DEF Formed
<1>13. Bearer(n)' = {<<"entry", k>>} BY <1>2, <1>5, <1>11, <1>12 DEF Bearer
<1>14. {<<"entry", k>>} \in Bearers BY <1>6 DEF Bearers
<1>15. Namespace!NamesNext BY <1>8, <1>9, <1>13, <1>14, PromiseSteps
<1> QED BY <1>15

\* A name is reserved for the owner of a form that is proven (Verify).
LEMMA VerifyReserves ==
  ASSUME OrganisationInvariant, NEW p \in Proofs, NEW n \in Names, Verify(p, n)
  PROVE  [Namespace!NamesNext]_(Namespace!namesVars)
<1>1. TypeOK BY DEF OrganisationInvariant
<1>2. /\ ClaimUsername(n) /\ usernames' = usernames \cup {n} /\ UNCHANGED <<seats, roster>>
  BY DEF Verify
<1>3. PICK f : f = proofs[p].subject OBVIOUS
<1>4. /\ f \in Forms /\ forms[f].owner = Nobody
      /\ Forms' = Forms /\ forms'[f].owner = n
      /\ \A g \in Forms : g # f => forms'[g] = forms[g]
  BY <1>3, VerifyReads
<1>5. /\ Offers(n) = {} /\ ~seats[n].exists /\ \A g \in Forms : forms[g].owner # n
  BY <1>2, FreeName
<1>6. f \in 1 .. MaxForms BY <1>1, <1>4, Tables
<1>7. \A m \in Names : Entered(m)' = Entered(m) BY <1>2 DEF Entered, Entries
<1>8. \A m \in Names : m # n => Standing(m)' = Standing(m) /\ Bearer(m)' = Bearer(m)
  <2> SUFFICES ASSUME NEW m \in Names, m # n
               PROVE  Standing(m)' = Standing(m) /\ Bearer(m)' = Bearer(m)
    OBVIOUS
  <2>1. m # Nobody BY OrganisationsAssumption
  <2>2. Formed(m)' = Formed(m) BY <1>4, <2>1 DEF Formed
  <2> QED BY <1>2, <1>7, <2>2, BearerStays
<1>9. Standing(n) = "free" /\ Standing(n)' = "reserved"
  BY <1>2, <1>5 DEF Standing, ClaimUsername
<1>10. Entered(n) = {}
  <2> SUFFICES ASSUME NEW e \in Entered(n) PROVE FALSE OBVIOUS
  <2>1. /\ e \in Entries /\ roster[e].username = n
        /\ roster[e].redeemedBy # Nobody \/ ~roster[e].removed
    BY DEF Entered
  <2>2. roster[e].redeemedBy = Nobody
    BY <1>5, <2>1 DEF OrganisationInvariant, RosterIsKept
  <2>3. e \in Offers(n) BY <2>1, <2>2 DEF Offers, Redeemable
  <2> QED BY <1>5, <2>3
<1>11. Formed(n)' = {f} BY <1>4, <1>5 DEF Formed
<1>12. Entered(n)' = {} BY <1>7, <1>10
<1>13. Bearer(n)' = {<<"form", f>>} BY <1>11, <1>12 DEF Bearer
<1>14. {<<"form", f>>} \in Bearers BY <1>6 DEF Bearers
<1>15. Namespace!NamesNext BY <1>8, <1>9, <1>13, <1>14, PromiseSteps
<1> QED BY <1>15

\* A removal releases a reserved name, and leaves one a seat has
\* (RemoveFromRoster).
LEMMA RemovalReleases ==
  ASSUME OrganisationInvariant, NEW r \in Requests, RemoveFromRoster(r)
  PROVE  [Namespace!NamesNext]_(Namespace!namesVars)
<1>1. TypeOK BY DEF OrganisationInvariant
<1>2. PICK e, n, seat : /\ e = request[r].id /\ n = roster[e].username /\ seat = request[r].seat
  OBVIOUS
<1>3. /\ request[r].pc = "removing" /\ UNCHANGED forms
      /\ IF seat = Nobody
         THEN \/ ReleaseUsername(n, e) /\ RemoveRosterEntry(e) /\ UNCHANGED seats
              \/ UNCHANGED <<usernames, roster, proofs, seats>>
         ELSE RemoveRosterEntry(e) /\ Disable(seat) /\ UNCHANGED usernames
  BY <1>2 DEF RemoveFromRoster
<1>4. e \in Entries /\ (seat # Nobody => roster[e].redeemedBy = seat)
  BY <1>2, <1>3 DEF OrganisationInvariant, RequestsAreSound, RequestSound
<1>5. n \in Names BY <1>1, <1>2, <1>4, Tables DEF RosterRow
<1>6. \A m \in Names : Formed(m)' = Formed(m) BY <1>3 DEF Formed, Forms
<1>7. CASE UNCHANGED <<usernames, roster, proofs, seats>>
  BY <1>6, <1>7, OwnersStay
<1>8. CASE seat # Nobody /\ RemoveRosterEntry(e) /\ Disable(seat) /\ UNCHANGED usernames
  <2>1. seat \in Names BY <1>1, <1>4, <1>8, Tables DEF RosterRow
  <2>2. /\ Entries' = Entries
        /\ \A d \in Entries :
             /\ roster'[d].username = roster[d].username
             /\ roster'[d].redeemedBy = roster[d].redeemedBy
             /\ (roster'[d].removed <=> (roster[d].removed \/ d = e))
    BY <1>4, <1>8, EntryDeleted
  <2>3. \A m \in Names : Entered(m)' = Entered(m) BY <1>4, <1>8, <2>2 DEF Entered
  <2>4. seats[seat].exists
    BY <1>4, <1>8 DEF OrganisationInvariant, RosterIsKept
  <2>5. seats \in [Names -> SeatRow \cup {NoSeat}] /\ seats[seat] \in SeatRow
    BY <1>1, <2>1, <2>4, Tables
  <2>6. PICK row : row = [seats[seat] EXCEPT !.disabled = TRUE] OBVIOUS
  <2>7. row.exists /\ row.entry = seats[seat].entry BY <2>4, <2>5, <2>6 DEF SeatRow
  <2>8. seats' = [seats EXCEPT ![seat] = row] BY <1>8, <2>6 DEF Disable
  <2>9. \A m \in Names : /\ seats'[m].exists <=> seats[m].exists
                         /\ seats[m].exists => seats'[m].entry = seats[m].entry
    BY <2>1, <2>4, <2>5, <2>7, <2>8
  <2>10. \A m \in Names : Standing(m)' = Standing(m) /\ Bearer(m)' = Bearer(m)
    BY <1>6, <1>8, <2>3, <2>9, BearerStays
  <2> QED BY <2>10, NamesStay
<1>9. CASE seat = Nobody /\ ReleaseUsername(n, e) /\ RemoveRosterEntry(e) /\ UNCHANGED seats
  <2>1. /\ usernames' = usernames \ {n} /\ ~seats[n].exists
        /\ \A d \in Entries : d # e => roster[d].username # n \/ roster[d].removed
        /\ \A f \in Forms : forms[f].owner # n \/ forms[f].deleted
    BY <1>9 DEF ReleaseUsername, Carried
  <2>2. /\ Entries' = Entries
        /\ \A d \in Entries :
             /\ roster'[d].username = roster[d].username
             /\ roster'[d].redeemedBy = roster[d].redeemedBy
             /\ (roster'[d].removed <=> (roster[d].removed \/ d = e))
    BY <1>4, <1>9, EntryDeleted
  <2>3. n # Nobody BY <1>5, OrganisationsAssumption
  <2>4. Formed(n) = {}
    <3> SUFFICES ASSUME NEW f \in Forms, forms[f].owner = n PROVE FALSE BY DEF Formed
    <3>1. forms[f].proven BY <1>1, <2>3 DEF TypeOK
    <3>2. ~forms[f].deleted BY <3>1 DEF OrganisationInvariant, FormsAreSound
    <3> QED BY <2>1, <3>2
  <2>5. Entered(n)' = {}
    <3> SUFFICES ASSUME NEW d \in Entries, roster[d].username = n
                 PROVE  roster[d].redeemedBy = Nobody /\ roster'[d].removed
      BY <2>2 DEF Entered
    <3>1. roster[d].redeemedBy = Nobody BY <2>1 DEF OrganisationInvariant, RosterIsKept
    <3> QED BY <2>1, <2>2, <3>1
  <2>6. ASSUME NEW m \in Names, m # n
        PROVE  Standing(m)' = Standing(m) /\ Bearer(m)' = Bearer(m)
    <3>1. Entered(m)' = Entered(m) BY <1>2, <2>2, <2>6 DEF Entered
    <3>2. m \in usernames' <=> m \in usernames BY <2>1, <2>6
    <3> QED BY <1>6, <1>9, <3>1, <3>2, BearerStays
  <2>7. Formed(n)' = {} BY <1>5, <1>6, <2>4
  <2>8. Standing(n)' = "free" BY <2>1 DEF Standing
  <2>9. Bearer(n)' = {} BY <1>9, <2>1, <2>5, <2>7 DEF Bearer
  <2>10. CASE n \in usernames
    <3>1. Standing(n) = "reserved" BY <2>1, <2>10 DEF Standing
    <3>2. Namespace!NamesNext BY <1>5, <2>6, <2>8, <2>9, <3>1, PromiseSteps
    <3> QED BY <3>2
  <2>11. CASE n \notin usernames
    <3>1. Offers(n) = {} BY <1>5, <2>11, FreeName DEF ClaimUsername
    <3>2. Entered(n) = {}
      <4> SUFFICES ASSUME NEW d \in Entered(n) PROVE FALSE OBVIOUS
      <4>1. d \in Entries /\ roster[d].username = n BY DEF Entered
      <4>2. roster[d].redeemedBy = Nobody BY <2>1, <4>1 DEF OrganisationInvariant, RosterIsKept
      <4>3. d \in Offers(n) BY <4>1, <4>2 DEF Entered, Offers, Redeemable
      <4> QED BY <3>1, <4>3
    <3>3. n \in usernames' <=> n \in usernames BY <2>1, <2>11
    <3>4. Entered(n)' = Entered(n) /\ Formed(n)' = Formed(n) BY <2>4, <2>5, <2>7, <3>2
    <3>5. Standing(n)' = Standing(n) /\ Bearer(n)' = Bearer(n)
      BY <1>5, <1>9, <3>3, <3>4, BearerStays
    <3>6. \A m \in Names : Standing(m)' = Standing(m) /\ Bearer(m)' = Bearer(m)
      BY <2>6, <3>5
    <3> QED BY <3>6, NamesStay
  <2> QED BY <2>10, <2>11
<1> QED BY <1>3, <1>7, <1>8, <1>9

\* A redeemed entry, an approved form and a registration seat a name
\* (CompleteRedemption, Decide, Register).
LEMMA RedemptionSeats ==
  ASSUME OrganisationInvariant, NEW p \in Proofs, CompleteRedemption(p)
  PROVE  [Namespace!NamesNext]_(Namespace!namesVars)
<1>1. TypeOK BY DEF OrganisationInvariant
<1>2. PICK e : e = proofs[p].subject OBVIOUS
<1>3. proofs[p].purpose = "roster" /\ RedeemRosterEntry(e) /\ UNCHANGED <<usernames, forms>>
  BY <1>2 DEF CompleteRedemption
<1>4. e \in Entries BY <1>2, <1>3 DEF OrganisationInvariant, ProofsAreSound, ProofSound
<1>5. PICK n : n = roster[e].username OBVIOUS
<1>6. /\ n \in Names /\ roster[e].redeemedBy = Nobody /\ ~roster[e].removed /\ ~seats[n].exists
      /\ \E row \in SeatRow :
           /\ row.exists /\ row.entry = e
           /\ seats' = [seats EXCEPT ![n] = row]
      /\ Entries' = Entries /\ roster'[e].redeemedBy = n
      /\ \A d \in Entries :
           /\ roster'[d].username = roster[d].username
           /\ d # e => roster'[d].redeemedBy = roster[d].redeemedBy
           /\ (roster'[d].removed <=> roster[d].removed)
  BY <1>3, <1>4, <1>5, EntryRedeemed
<1>7. PICK row \in SeatRow : row.exists /\ row.entry = e /\ seats' = [seats EXCEPT ![n] = row]
  BY <1>6
<1>8. seats'[n] = row /\ \A m \in Names : m # n => seats'[m] = seats[m]
  BY <1>6, <1>7, SeatWritten
<1>9. e \in 1 .. MaxEntries /\ e # 0 BY <1>1, <1>4, Tables
<1>10. n # Nobody BY <1>6, OrganisationsAssumption
<1>11. e \in Offers(n) BY <1>4, <1>5, <1>6 DEF Offers, Redeemable
<1>12. Offers(n) = {e} /\ Waiting(n) = {} /\ n \in usernames
  BY <1>6, <1>11 DEF OrganisationInvariant, NamesAreHeld, NameSound
<1>13. \A m \in Names : Entered(m)' = Entered(m)
  <2> SUFFICES ASSUME NEW m \in Names, NEW d \in Entries, roster[d].username = m
               PROVE  (roster'[d].redeemedBy # Nobody \/ ~roster'[d].removed) <=>
                      (roster[d].redeemedBy # Nobody \/ ~roster[d].removed)
    BY <1>6 DEF Entered
  <2>1. CASE d = e BY <1>6, <1>10, <2>1
  <2>2. CASE d # e BY <1>6, <2>2
  <2> QED BY <2>1, <2>2
<1>14. \A m \in Names : Formed(m)' = Formed(m) BY <1>3 DEF Formed, Forms
<1>15. Entered(n) = {e}
  <2>1. e \in Entered(n) BY <1>4, <1>5, <1>6 DEF Entered
  <2>2. ASSUME NEW d \in Entered(n) PROVE d = e
    <3>1. d \in Entries /\ roster[d].username = n BY DEF Entered
    <3>2. roster[d].redeemedBy = Nobody BY <1>6, <3>1 DEF OrganisationInvariant, RosterIsKept
    <3>3. d \in Offers(n) BY <3>1, <3>2 DEF Entered, Offers, Redeemable
    <3> QED BY <1>12, <3>3
  <2> QED BY <2>1, <2>2
<1>16. Formed(n) = {}
  <2> SUFFICES ASSUME NEW f \in Forms, forms[f].owner = n PROVE FALSE BY DEF Formed
  <2>1. forms[f].proven BY <1>1, <1>10 DEF TypeOK
  <2>2. ~forms[f].deleted BY <2>1 DEF OrganisationInvariant, FormsAreSound
  <2>3. forms[f].decided # "approved" BY <1>6 DEF OrganisationInvariant, FormsAreSound
  <2> QED BY <1>12, <2>2, <2>3 DEF Waiting
<1>17. Bearer(n) = {<<"entry", e>>} BY <1>6, <1>15, <1>16 DEF Bearer
<1>18. Bearer(n)' = {<<"entry", e>>}
  <2>1. Entered(n)' = {e} /\ Formed(n)' = {} BY <1>6, <1>13, <1>14, <1>15, <1>16
  <2>2. seats'[n].entry # 0 BY <1>7, <1>8, <1>9
  <2> QED BY <2>1, <2>2 DEF Bearer
<1>19. {<<"entry", e>>} \in Bearers BY <1>9 DEF Bearers
<1>20. Standing(n) = "reserved" /\ Standing(n)' = "seated"
  BY <1>3, <1>6, <1>7, <1>8, <1>12 DEF Standing
<1>21. ASSUME NEW m \in Names, m # n
       PROVE  Standing(m)' = Standing(m) /\ Bearer(m)' = Bearer(m)
  <2>1. seats'[m] = seats[m] BY <1>8, <1>21
  <2> QED BY <1>3, <1>13, <1>14, <2>1, BearerStays
<1>22. Namespace!NamesNext BY <1>6, <1>17, <1>18, <1>19, <1>20, <1>21, PromiseSteps
<1> QED BY <1>22

\* An approved form's owner carries the name it reserved (Decide).
LEMMA ApprovalSeats ==
  ASSUME OrganisationInvariant, NEW f \in Forms, Decide(f, TRUE)
  PROVE  [Namespace!NamesNext]_(Namespace!namesVars)
<1>1. TypeOK BY DEF OrganisationInvariant
<1>2. Promote(f) /\ UNCHANGED <<roster>> BY DEF Decide
<1>3. PICK n, o : n = forms[f].owner /\ o = forms[f].slug OBVIOUS
<1>4. /\ forms[f].proven /\ forms[f].decided = "no" /\ ~forms[f].deleted /\ ~seats[n].exists
      /\ usernames' = usernames \cup {n}
      /\ seats' = [seats EXCEPT ![n] = Seat(o, "owner", 0, "none")]
      /\ forms' = [forms EXCEPT ![f].decided = "approved"]
  BY <1>2, <1>3 DEF Promote, Queue, Owner
<1>5. forms[f] \in FormRow BY <1>1, Tables
<1>6. n \in Names /\ n # Nobody /\ o \in Slugs
  BY <1>1, <1>3, <1>4, <1>5, OrganisationsAssumption DEF TypeOK, FormRow
<1>7. f \in Waiting(n) BY <1>3, <1>4 DEF Waiting
<1>8. Offers(n) = {} /\ n \in usernames
  BY <1>6, <1>7 DEF OrganisationInvariant, NamesAreHeld, NameSound
<1>9. PICK row : row = [exists |-> TRUE, org |-> o, role |-> "owner", entry |-> 0, disabled |-> FALSE,
                        review |-> "none", verified |-> FALSE]
  OBVIOUS
<1>10. row \in SeatRow BY <1>6, <1>9, SeatShape, OrganisationsAssumption
<1>11. row.exists /\ row.entry = 0 BY <1>9
<1>12. seats' = [seats EXCEPT ![n] = row] BY <1>4, <1>9 DEF Seat
<1>13. seats'[n] = row /\ \A m \in Names : m # n => seats'[m] = seats[m]
  BY <1>6, <1>10, <1>12, SeatWritten
<1>14. PICK new : new = [forms[f] EXCEPT !.decided = "approved"] OBVIOUS
<1>15. new \in FormRow /\ new.owner = n BY <1>3, <1>5, <1>14 DEF FormRow
<1>16. forms' = [forms EXCEPT ![f] = new] BY <1>4, <1>14
<1>17. Forms' = Forms /\ forms'[f] = new /\ \A g \in Forms : g # f => forms'[g] = forms[g]
  BY <1>15, <1>16, FormWritten
<1>18. \A g \in Forms : forms'[g].owner = forms[g].owner BY <1>3, <1>15, <1>17
<1>19. \A m \in Names : Formed(m)' = Formed(m) BY <1>17, <1>18 DEF Formed
<1>20. \A m \in Names : Entered(m)' = Entered(m) BY <1>2 DEF Entered, Entries
<1>21. Formed(n) = {f}
  BY <1>3, <1>6 DEF Formed, OrganisationInvariant, FormsAreSound
<1>22. Entered(n) = {}
  <2> SUFFICES ASSUME NEW d \in Entered(n) PROVE FALSE OBVIOUS
  <2>1. d \in Entries /\ roster[d].username = n BY DEF Entered
  <2>2. roster[d].redeemedBy = Nobody BY <1>4, <2>1 DEF OrganisationInvariant, RosterIsKept
  <2>3. d \in Offers(n) BY <2>1, <2>2 DEF Entered, Offers, Redeemable
  <2> QED BY <1>8, <2>3
<1>23. Bearer(n) = {<<"form", f>>} BY <1>4, <1>21, <1>22 DEF Bearer
<1>24. Bearer(n)' = {<<"form", f>>}
  <2>1. Entered(n)' = {} /\ Formed(n)' = {f} BY <1>6, <1>19, <1>20, <1>21, <1>22
  <2> QED BY <2>1 DEF Bearer
<1>25. {<<"form", f>>} \in Bearers
  <2>1. f \in 1 .. MaxForms BY <1>1, Tables
  <2> QED BY <2>1 DEF Bearers
<1>26. Standing(n) = "reserved" /\ Standing(n)' = "seated"
  BY <1>4, <1>8, <1>11, <1>13 DEF Standing
<1>27. ASSUME NEW m \in Names, m # n
       PROVE  Standing(m)' = Standing(m) /\ Bearer(m)' = Bearer(m)
  <2>1. seats'[m] = seats[m] BY <1>13, <1>27
  <2>2. m \in usernames' <=> m \in usernames BY <1>4, <1>27
  <2> QED BY <1>19, <1>20, <2>1, <2>2, BearerStays
<1>28. Namespace!NamesNext BY <1>6, <1>23, <1>24, <1>25, <1>26, <1>27, PromiseSteps
<1> QED BY <1>28

\* A registration takes a free name for its own seat (Register).
LEMMA RegistrationSeats ==
  ASSUME OrganisationInvariant, NEW n \in Names, Register(n)
  PROVE  [Namespace!NamesNext]_(Namespace!namesVars)
<1>1. TypeOK BY DEF OrganisationInvariant
<1>2. /\ ClaimUsername(n) /\ usernames' = usernames \cup {n} /\ seats' = Independently(n)
      /\ UNCHANGED <<roster, forms>>
  BY DEF Register
<1>3. Offers(n) = {} /\ ~seats[n].exists /\ \A f \in Forms : forms[f].owner # n
  BY <1>2, FreeName
<1>4. PICK row : row = [exists |-> TRUE, org |-> Independent, role |-> "none", entry |-> 0,
                        disabled |-> FALSE, review |-> "pending", verified |-> FALSE]
  OBVIOUS
<1>5. row \in SeatRow /\ row.exists /\ row.entry = 0 BY <1>4, OrganisationsAssumption DEF SeatRow
<1>6. seats' = [seats EXCEPT ![n] = row] BY <1>2, <1>4 DEF Independently, Seat
<1>7. seats'[n] = row /\ \A m \in Names : m # n => seats'[m] = seats[m]
  BY <1>5, <1>6, SeatWritten
<1>8. \A m \in Names : Formed(m)' = Formed(m) /\ Entered(m)' = Entered(m)
  BY <1>2 DEF Formed, Forms, Entered, Entries
<1>9. Formed(n) = {} BY <1>3 DEF Formed
<1>10. Entered(n) = {}
  <2> SUFFICES ASSUME NEW d \in Entered(n) PROVE FALSE OBVIOUS
  <2>1. d \in Entries /\ roster[d].username = n BY DEF Entered
  <2>2. roster[d].redeemedBy = Nobody BY <1>3, <2>1 DEF OrganisationInvariant, RosterIsKept
  <2>3. d \in Offers(n) BY <2>1, <2>2 DEF Entered, Offers, Redeemable
  <2> QED BY <1>3, <2>3
<1>11. Bearer(n)' = {<<"seat", n>>}
  <2>1. Entered(n)' = {} /\ Formed(n)' = {} BY <1>8, <1>9, <1>10
  <2>2. seats'[n].exists /\ seats'[n].entry = 0 BY <1>5, <1>7
  <2> QED BY <2>1, <2>2 DEF Bearer, SeatOf
<1>12. {<<"seat", n>>} \in Bearers BY DEF Bearers
<1>13. Standing(n) = "free" /\ Standing(n)' = "seated"
  BY <1>2, <1>5, <1>7 DEF Standing, ClaimUsername
<1>14. ASSUME NEW m \in Names, m # n
       PROVE  Standing(m)' = Standing(m) /\ Bearer(m)' = Bearer(m)
  <2>1. seats'[m] = seats[m] BY <1>7, <1>14
  <2>2. m \in usernames' <=> m \in usernames BY <1>2, <1>14
  <2> QED BY <1>8, <2>1, <2>2, BearerStays
<1>15. Bearer(n)' \in Bearers /\ Standing(n)' # Standing(n) BY <1>11, <1>12, <1>13
<1>16. /\ Standing(n) = "free" \/ (Standing(n) = "reserved" /\ Bearer(n)' = Bearer(n))
       /\ Standing(n)' = "seated" /\ Bearer(n)' \in Bearers
  BY <1>13, <1>15
<1>17. \A m \in Names : m # n => Standing(m)' = Standing(m) /\ Bearer(m)' = Bearer(m)
  BY <1>14
<1>18. Namespace!NamesNext BY <1>15, <1>16, <1>17, PromiseSteps
<1> QED BY <1>18

\* A review leaves the name where it is (DecideVerification).
LEMMA ReviewSeatsNobody ==
  ASSUME OrganisationInvariant, NEW n \in Names, NEW approve \in BOOLEAN,
         DecideVerification(n, approve)
  PROVE  [Namespace!NamesNext]_(Namespace!namesVars)
<1>1. TypeOK BY DEF OrganisationInvariant
<1>2. PICK review : review = IF approve THEN "approved" ELSE "rejected" OBVIOUS
<1>3. /\ seats[n].exists
      /\ seats' = [seats EXCEPT ![n].review = review, ![n].verified = approve]
      /\ UNCHANGED <<usernames, roster, forms>>
  BY <1>2 DEF DecideVerification
<1>4. seats \in [Names -> SeatRow \cup {NoSeat}] /\ seats[n] \in SeatRow BY <1>1, <1>3, Tables
<1>5. PICK a : a = [seats[n] EXCEPT !.review = review] OBVIOUS
<1>6. /\ a.exists /\ a.entry = seats[n].entry
      /\ DOMAIN a = {"exists", "org", "role", "entry", "disabled", "review", "verified"}
  BY <1>3, <1>4, <1>5 DEF SeatRow
<1>7. PICK row : row = [a EXCEPT !.verified = approve] OBVIOUS
<1>8. row.exists /\ row.entry = seats[n].entry BY <1>6, <1>7
<1>9. seats' = [seats EXCEPT ![n] = row] BY <1>3, <1>4, <1>5, <1>7
<1>10. \A m \in Names : /\ seats'[m].exists <=> seats[m].exists
                        /\ seats[m].exists => seats'[m].entry = seats[m].entry
  BY <1>3, <1>4, <1>8, <1>9
<1>11. \A m \in Names : Formed(m)' = Formed(m) /\ Entered(m)' = Entered(m)
  BY <1>3 DEF Formed, Forms, Entered, Entries
<1>12. \A m \in Names : Standing(m)' = Standing(m) /\ Bearer(m)' = Bearer(m)
  BY <1>3, <1>10, <1>11, BearerStays
<1> QED BY <1>12, NamesStay

\* Every step is a step of the namespace, or leaves the names alone.
LEMMA PromiseIsKept ==
  ASSUME OrganisationInvariant, [Next]_vars
  PROVE  [Namespace!NamesNext]_(Namespace!namesVars)
<1>1. CASE \/ \E o \in Slugs, email \in Emails : StartRedemption(o, email) \/ Submit(o, email)
           \/ \E r \in Requests, owner \in Names, e \in Entries : RosterEntryByID(r, owner, e)
           \/ \E r \in Requests, email \in Emails : ReadOutstanding(r, email)
           \/ \E r \in Requests, p \in Proofs : Revise(r, p)
           \/ \E r \in Requests, o \in Slugs, email \in Emails : SubmitRevision(r, o, email)
           \/ \E r \in Requests : ResendVerification(r) \/ RevisionLost(r)
           \/ ExpireUnproven \/ Lapse \/ UNCHANGED vars
  BY <1>1, QuietSteps
<1>2. CASE \E owner, n \in Names, o \in Slugs, email \in Emails, role \in {"owner", "member"} :
             AddToRoster(owner, o, email, n, role)
  BY <1>2, AddReserves
<1>3. CASE \E p \in Proofs : CompleteRedemption(p) BY <1>3, RedemptionSeats
<1>4. CASE \E p \in Proofs, n \in Names : Verify(p, n) BY <1>4, VerifyReserves
<1>5. CASE \E f \in Forms : Decide(f, TRUE) \/ Decide(f, FALSE) BY <1>5, ApprovalSeats, QuietSteps
<1>6. CASE \E n \in Names : Register(n) BY <1>6, RegistrationSeats
<1>7. CASE \E n \in Names, approve \in BOOLEAN : DecideVerification(n, approve)
  BY <1>7, ReviewSeatsNobody
<1>8. CASE \E r \in Requests : RemoveFromRoster(r) BY <1>8, RemovalReleases
<1> QED BY <1>1, <1>2, <1>3, <1>4, <1>5, <1>6, <1>7, <1>8, Steps

\* At first every name is free, but for the one of a seat there was before.
LEMMA PromiseBegins ==
  ASSUME Init PROVE Namespace!NamesInit
<1>1. /\ roster = <<>> /\ forms = <<>> BY DEF Init
<1>2. \A n : Entered(n) = {} /\ Formed(n) = {} BY <1>1 DEF Entered, Entries, Formed, Forms
<1>3. \A n \in Names : seats[n].exists <=> n \in usernames
  BY InvariantHoldsFirst, <1>1
  DEF OrganisationInvariant, NamesAreHeld, NameSound, Offers, Waiting, Entries, Forms
<1>4. \A n \in Names : seats[n].exists => seats[n].entry = 0
  <2>1. OrganisationInvariant BY InvariantHoldsFirst
  <2>2. Entries = {} BY <1>1 DEF Entries
  <2> QED BY <2>1, <2>2 DEF OrganisationInvariant, SeatsAreSound, SeatSound, SeatsHeld
<1>5. ASSUME NEW n \in Names
      PROVE  /\ Standing(n) \in {"free", "seated"} /\ Bearer(n) \in Bearers \cup {{}}
             /\ Standing(n) = "free" <=> Bearer(n) = {}
  <2>1. CASE n \in usernames
    <3>1. Bearer(n) = {<<"seat", n>>} BY <1>2, <1>3, <1>4, <2>1 DEF Bearer, SeatOf
    <3>2. {<<"seat", n>>} \in Bearers BY DEF Bearers
    <3> QED BY <1>3, <2>1, <3>1, <3>2 DEF Standing
  <2>2. CASE n \notin usernames
    <3>1. Bearer(n) = {} BY <1>2, <1>3, <2>2 DEF Bearer
    <3> QED BY <2>2, <3>1 DEF Standing
  <2> QED BY <2>1, <2>2
<1> QED BY <1>5 DEF Namespace!NamesInit

(* The promise of the namespace: whatever rosters, forms and registrations do
   together, a name is reserved for one seat, only that seat takes it, and a
   name a seat has had is never released. *)
THEOREM NamesAreKept == Spec => NamesPromise
<1>1. Init => Namespace!NamesInit BY PromiseBegins
<1>2. OrganisationInvariant /\ [Next]_vars => [Namespace!NamesNext]_(Namespace!namesVars)
  BY PromiseIsKept
<1> QED BY <1>1, <1>2, OrganisationsAreSound, PTL DEF Spec, NamesPromise, Namespace!NamesSpec
=============================================================================
