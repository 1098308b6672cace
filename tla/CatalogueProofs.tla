--------------------------- MODULE CatalogueProofs ---------------------------
(***************************************************************************)
(* That the catalogue's decisions stand and its request window holds, for  *)
(* any contributors, any finite number of pages, any administrators, any   *)
(* spellings and any limit.                                                *)
(***************************************************************************)
EXTENDS CatalogueProperties, FiniteSetTheorems, SequenceTheorems, TLAPS

-----------------------------------------------------------------------------
(* The queue                                                               *)

\* The queue as a function of its requests.
LEMMA QueueRows ==
  ASSUME TypeOK
  PROVE  /\ Len(requests) \in Nat /\ DOMAIN requests = 1 .. Len(requests)
         /\ Len(requests) <= MaxRequests /\ MaxRequests \in Nat
         /\ \A i \in DOMAIN requests : requests[i] \in SkillRequest
<1>1. requests \in Seq(SkillRequest) BY DEF TypeOK
<1> QED BY <1>1, CatalogueAssumption, LenProperties, ElementOfSeq DEF TypeOK

\* A proposal is recorded at the end of the queue (CreateRequest).
LEMMA Recorded ==
  ASSUME TypeOK, Len(requests) < MaxRequests,
         NEW u \in Users, NEW term \in Terms, CreateRequest(u, term)
  PROVE  LET n == Len(requests) + 1 IN
         /\ requests' \in Seq(SkillRequest) /\ Len(requests') = n
         /\ DOMAIN requests' = DOMAIN requests \cup {n} /\ n \notin DOMAIN requests
         /\ \A i \in DOMAIN requests : requests'[i] = requests[i]
         /\ requests'[n] = [by |-> u, term |-> term, status |-> "pending", recent |-> TRUE]
<1> DEFINE row == [by |-> u, term |-> term, status |-> "pending", recent |-> TRUE]
           n == Len(requests) + 1
<1>1. row \in SkillRequest BY DEF SkillRequest
<1>2. requests \in Seq(SkillRequest) BY DEF TypeOK
<1>3. requests' = Append(requests, row) BY DEF CreateRequest
<1> HIDE DEF row
<1>4. /\ requests' \in Seq(SkillRequest) /\ Len(requests') = n
      /\ \A i \in 1 .. Len(requests) : requests'[i] = requests[i]
      /\ requests'[n] = row
  BY <1>1, <1>2, <1>3, AppendProperties
<1>5. DOMAIN requests' = 1 .. n BY <1>4, LenProperties
<1>6. DOMAIN requests = 1 .. Len(requests) /\ Len(requests) \in Nat BY QueueRows
<1> QED BY <1>4, <1>5, <1>6 DEF row

\* One request of the queue changes (RequestAges, DecideRequest).
LEMMA OneChanges ==
  ASSUME TypeOK, NEW i \in DOMAIN requests, NEW row \in SkillRequest,
         requests' = [requests EXCEPT ![i] = row]
  PROVE  /\ requests' \in Seq(SkillRequest) /\ Len(requests') = Len(requests)
         /\ DOMAIN requests' = DOMAIN requests
         /\ \A j \in DOMAIN requests : requests'[j] = IF j = i THEN row ELSE requests[j]
<1>1. requests \in Seq(SkillRequest) BY DEF TypeOK
<1>2. i \in 1 .. Len(requests) BY QueueRows
<1>3. requests' \in Seq(SkillRequest) /\ Len(requests') = Len(requests) BY <1>1, <1>2, ExceptSeq
<1> QED BY <1>1, <1>2, <1>3, LenProperties

-----------------------------------------------------------------------------
(* The window                                                              *)

\* What the window counts is finite.
LEMMA WindowIsFinite ==
  ASSUME TypeOK, NEW u \in Users
  PROVE  /\ IsFiniteSet(RequestsSince(u)) /\ Cardinality(RequestsSince(u)) \in Nat
         /\ IsFiniteSet(Pages(u)) /\ Cardinality(Pages(u)) \in Nat
         /\ IsFiniteSet(Counted(u)) /\ Cardinality(Counted(u)) \in Nat
         /\ Cardinality(Counted(u)) <= Cardinality(Pages(u))
<1>1. IsFiniteSet(DOMAIN requests) BY QueueRows, FS_Interval
<1>2. RequestsSince(u) \in SUBSET DOMAIN requests BY DEF RequestsSince
<1>3. Pages(u) \in SUBSET Clients /\ Counted(u) \in SUBSET Pages(u) BY DEF Pages, Counted
<1>4. IsFiniteSet(Pages(u)) BY <1>3, CatalogueAssumption, FS_Subset
<1>5. IsFiniteSet(RequestsSince(u)) BY <1>1, <1>2, FS_Subset
<1>6. IsFiniteSet(Counted(u)) /\ Cardinality(Counted(u)) <= Cardinality(Pages(u))
  BY <1>3, <1>4, FS_Subset
<1> QED BY <1>4, <1>5, <1>6, FS_CardinalityType

\* Places stay held when no page is counted and no proposal recorded.
LEMMA PlacesStay ==
  ASSUME CatalogueInvariant, TypeOK',
         \A u \in Users : RequestsSince(u)' \subseteq RequestsSince(u),
         \A u \in Users : Counted(u)' \subseteq Counted(u)
  PROVE  PlacesAreHeld'
<1> SUFFICES ASSUME NEW u \in Users
             PROVE  Cardinality(RequestsSince(u)') + Cardinality(Counted(u)')
                      <= SkillRequestLimit + Cardinality(Pages(u)) - 1
  BY DEF PlacesAreHeld, Pages
<1>1. TypeOK BY DEF CatalogueInvariant
<1>2. /\ IsFiniteSet(RequestsSince(u)) /\ Cardinality(RequestsSince(u)) \in Nat
      /\ IsFiniteSet(Counted(u)) /\ Cardinality(Counted(u)) \in Nat
      /\ Cardinality(Pages(u)) \in Nat /\ SkillRequestLimit \in Nat
  BY <1>1, WindowIsFinite, CatalogueAssumption
<1>3. /\ Cardinality(RequestsSince(u)') <= Cardinality(RequestsSince(u))
      /\ IsFiniteSet(RequestsSince(u)')
  BY <1>2, FS_Subset
<1>4. /\ Cardinality(Counted(u)') <= Cardinality(Counted(u))
      /\ IsFiniteSet(Counted(u)')
  BY <1>2, FS_Subset
<1>5. Cardinality(RequestsSince(u)') \in Nat /\ Cardinality(Counted(u)') \in Nat
  BY <1>3, <1>4, FS_CardinalityType
<1>6. Cardinality(RequestsSince(u)) + Cardinality(Counted(u))
        <= SkillRequestLimit + Cardinality(Pages(u)) - 1
  BY DEF CatalogueInvariant, PlacesAreHeld
<1> QED BY <1>2, <1>3, <1>4, <1>5, <1>6

-----------------------------------------------------------------------------
(* The decisions                                                           *)

\* What an administrator was told stands while the catalogue only grows and a
\* decision is final.
LEMMA AnswersStay ==
  ASSUME CatalogueInvariant, skills \subseteq skills',
         DOMAIN requests \subseteq DOMAIN requests',
         \A i \in DOMAIN requests :
           requests[i].status # "pending" => requests'[i].status = requests[i].status,
         NEW d, Stands(d)
  PROVE  /\ \A e, f \in d.entry : e = f
         /\ d.pc # "idle" => d.request \in DOMAIN requests'
         /\ d.pc = "approving" => d.entry # {}
         /\ d.told \in {"approved", "rejected"} => d.request \in ByStatus(d.told)'
         /\ d.told = "approved" =>
              \E s \in skills' : s.request = d.request /\ \A e \in d.entry : s.slug = e.slug
         /\ d.told = "request_already_decided" =>
              \/ d.request \in DOMAIN requests' /\ requests'[d.request].status # "pending"
              \/ \E e \in d.entry : ~Insertable(e)'
         /\ d.told \in {"slug_taken", "alias_taken"} =>
              \E e \in d.entry : \E t \in NamesOf(e) : Has(t)'
<1>1. d.told \in {"approved", "rejected"} => d.request \in ByStatus(d.told)'
  BY DEF Stands, ByStatus
<1>2. \A e \in d.entry : ~Insertable(e) => ~Insertable(e)' BY DEF Insertable
<1>3. \A t : Has(t) => Has(t)' BY DEF Has
<1>4. d.told = "request_already_decided" =>
        \/ d.request \in DOMAIN requests' /\ requests'[d.request].status # "pending"
        \/ \E e \in d.entry : ~Insertable(e)'
  BY <1>2 DEF Stands
<1>5. d.told \in {"slug_taken", "alias_taken"} =>
        \E e \in d.entry : \E t \in NamesOf(e) : Has(t)'
  BY <1>3 DEF Stands
<1> QED BY <1>1, <1>4, <1>5 DEF Stands

\* The answers to one administrator change; the others' stand (Begin, Tell).
LEMMA OneIsAnswered ==
  ASSUME CatalogueInvariant, skills \subseteq skills',
         DOMAIN requests \subseteq DOMAIN requests',
         \A i \in DOMAIN requests :
           requests[i].status # "pending" => requests'[i].status = requests[i].status,
         NEW a \in Admins, NEW d \in Decision, deciding' = [deciding EXCEPT ![a] = d], Stands(d)'
  PROVE  AnswersStand' /\ deciding' \in [Admins -> Decision]
<1>1. deciding \in [Admins -> Decision] BY DEF CatalogueInvariant, TypeOK
<1>2. ASSUME NEW b \in Admins PROVE Stands(deciding[b])'
  <2>1. CASE b = a
    <3>1. deciding'[b] = d BY <1>1, <2>1
    <3> QED BY <3>1 DEF Stands
  <2>2. CASE b # a
    <3>1. PICK e : e = deciding[b] OBVIOUS
    <3>2. deciding'[b] = e BY <1>1, <2>2, <3>1
    <3>3. Stands(e) BY <3>1 DEF CatalogueInvariant, AnswersStand
    <3>4. Stands(e)' BY <3>3, AnswersStay DEF Stands
    <3> QED BY <3>2, <3>4 DEF Stands
  <2> QED BY <2>1, <2>2
<1> QED BY <1>1, <1>2 DEF AnswersStand

\* Nobody is answered anything new by a step that decides nothing.
LEMMA NobodyIsAnswered ==
  ASSUME CatalogueInvariant, UNCHANGED <<skills, deciding>>,
         DOMAIN requests \subseteq DOMAIN requests',
         \A i \in DOMAIN requests : requests'[i].status = requests[i].status,
         \A i \in DOMAIN requests' \ DOMAIN requests : requests'[i].status = "pending"
  PROVE  EntriesExplained' /\ AnswersStand'
<1>1. ByStatus("approved")' = ByStatus("approved") BY DEF ByStatus
<1>2. EntriesExplained' BY <1>1 DEF CatalogueInvariant, EntriesExplained
<1>3. ASSUME NEW a \in Admins PROVE Stands(deciding[a])'
  <2>1. PICK e : e = deciding[a] OBVIOUS
  <2>2. Stands(e) BY <2>1 DEF CatalogueInvariant, AnswersStand
  <2>3. Stands(e)' BY <2>2, AnswersStay DEF Stands
  <2> QED BY <2>1, <2>3 DEF Stands
<1> QED BY <1>2, <1>3 DEF AnswersStand

-----------------------------------------------------------------------------
(* The steps                                                               *)

\* The catalogue starts with entries of no request, and the queue empty.
LEMMA InitCatalogue == Init => CatalogueInvariant
<1> SUFFICES ASSUME Init PROVE CatalogueInvariant OBVIOUS
<1>1. requests = <<>> /\ requests \in Seq(SkillRequest) /\ Len(requests) = 0 /\ DOMAIN requests = {}
  BY EmptySeq DEF Init
<1>2. \A s \in skills : s.request = Seeded /\ s \in Skill
  BY CatalogueAssumption DEF Init, Skill, Seeded
<1>3. Nobody \in Decision /\ Nobody.pc = "idle" /\ Nobody.told = "nothing" /\ Nobody.entry = {}
  BY CatalogueAssumption DEF Nobody, Decision, Seeded
<1>4. TypeOK
  <2>1. Idle \in [pc : {"idle", "matched", "counted"}, term : Terms \cup {NoTerm}] /\ Idle.pc = "idle"
    BY DEF Idle
  <2> QED BY <1>1, <1>2, <1>3, <2>1, CatalogueAssumption DEF Init, TypeOK
<1>5. EntriesExplained BY <1>1, <1>2 DEF EntriesExplained, ByStatus
<1>6. AnswersStand BY <1>3 DEF Init, AnswersStand, Stands
<1>7. PlacesAreHeld
  <2> SUFFICES ASSUME NEW u \in Users
               PROVE  Cardinality(RequestsSince(u)) + Cardinality(Counted(u))
                        <= SkillRequestLimit + Cardinality(Pages(u)) - 1
    BY DEF PlacesAreHeld
  <2>1. RequestsSince(u) = {} BY <1>1 DEF RequestsSince
  <2>2. Counted(u) = {} BY DEF Counted, Pages, Init, Idle
  <2>3. Cardinality(RequestsSince(u)) = 0 /\ Cardinality(Counted(u)) = 0
    BY <2>1, <2>2, FS_EmptySet
  <2>4. Cardinality(Pages(u)) \in Nat BY <1>4, WindowIsFinite
  <2> QED BY <2>3, <2>4, CatalogueAssumption
<1> QED BY <1>4, <1>5, <1>6, <1>7 DEF CatalogueInvariant

\* A page's state, and who owns it.
LEMMA PageMoves ==
  ASSUME TypeOK, NEW c \in Clients,
         NEW row \in [pc : {"idle", "matched", "counted"}, term : Terms \cup {NoTerm}],
         row.pc # "idle" => row.term \in Terms,
         asking' = [asking EXCEPT ![c] = row]
  PROVE  /\ asking' \in [Clients -> [pc : {"idle", "matched", "counted"}, term : Terms \cup {NoTerm}]]
         /\ \A b \in Clients : asking'[b].pc # "idle" => asking'[b].term \in Terms
         /\ \A b \in Clients : asking'[b] = IF b = c THEN row ELSE asking[b]
<1>1. asking \in [Clients -> [pc : {"idle", "matched", "counted"}, term : Terms \cup {NoTerm}]]
  BY DEF TypeOK
<1>2. \A b \in Clients : asking'[b] = IF b = c THEN row ELSE asking[b] BY <1>1
<1>3. asking' \in [Clients -> [pc : {"idle", "matched", "counted"}, term : Terms \cup {NoTerm}]]
  BY <1>1
<1> QED BY <1>2, <1>3 DEF TypeOK

\* A proposal is matched with the catalogue, and dropped if it only spells an
\* entry differently (RequestSkill).
LEMMA ProposalIsMatched ==
  ASSUME CatalogueInvariant, NEW c \in Clients, NEW term \in Proposals, RequestSkill(c, term)
  PROVE  CatalogueInvariant'
<1>1. PICK row \in {Idle, [pc |-> "matched", term |-> term]} : asking' = [asking EXCEPT ![c] = row]
  BY DEF RequestSkill, Done, Ask
<1>2. /\ row \in [pc : {"idle", "matched", "counted"}, term : Terms \cup {NoTerm}]
      /\ row.pc # "idle" => row.term \in Terms
      /\ row.pc # "counted"
  BY <1>1, CatalogueAssumption DEF Idle
<1>3. UNCHANGED <<skills, requests, deciding>> BY DEF RequestSkill
<1>4. TypeOK BY DEF CatalogueInvariant
<1>5. \A b \in Clients : asking'[b] = IF b = c THEN row ELSE asking[b]
  BY <1>1, <1>2, <1>4, PageMoves
<1>6. TypeOK' BY <1>1, <1>2, <1>3, <1>4, PageMoves DEF TypeOK
<1>7. EntriesExplained' /\ AnswersStand' BY <1>3, NobodyIsAnswered
<1>8. \A u \in Users : RequestsSince(u)' \subseteq RequestsSince(u) BY <1>3 DEF RequestsSince
<1>9. \A u \in Users : Counted(u)' \subseteq Counted(u) BY <1>2, <1>5 DEF Counted, Pages
<1>10. PlacesAreHeld' BY <1>6, <1>8, <1>9, PlacesStay
<1> QED BY <1>6, <1>7, <1>10 DEF CatalogueInvariant

\* A proposal is counted against the window, and dropped if it is full
\* (CountRequests): it holds a place from then on.
LEMMA ProposalIsCounted ==
  ASSUME CatalogueInvariant, NEW c \in Clients, CountRequests(c)
  PROVE  CatalogueInvariant'
<1> DEFINE v == Owner[c]
<1>1. PICK row \in {Idle, [pc |-> "counted", term |-> asking[c].term]} :
        /\ asking' = [asking EXCEPT ![c] = row]
        /\ row # Idle => withinRequestLimit(v)
  BY DEF CountRequests, Done, Ask
<1>2. TypeOK /\ asking[c].term \in Terms /\ v \in Users
  BY CatalogueAssumption DEF CatalogueInvariant, TypeOK, CountRequests
<1>3. /\ row \in [pc : {"idle", "matched", "counted"}, term : Terms \cup {NoTerm}]
      /\ row.pc # "idle" => row.term \in Terms
      /\ row.pc = "counted" => row # Idle
  BY <1>1, <1>2, CatalogueAssumption DEF Idle
<1>4. UNCHANGED <<skills, requests, deciding>> BY DEF CountRequests
<1>5. \A b \in Clients : asking'[b] = IF b = c THEN row ELSE asking[b]
  BY <1>1, <1>2, <1>3, PageMoves
<1>6. TypeOK' BY <1>1, <1>2, <1>3, <1>4, PageMoves DEF TypeOK
<1>7. EntriesExplained' /\ AnswersStand' BY <1>4, NobodyIsAnswered
<1>8. \A u \in Users : RequestsSince(u)' = RequestsSince(u) BY <1>4 DEF RequestsSince
<1>9. CASE row.pc # "counted"
  <2>1. \A u \in Users : Counted(u)' \subseteq Counted(u) BY <1>5, <1>9 DEF Counted, Pages
  <2>2. PlacesAreHeld' BY <1>6, <1>8, <2>1, PlacesStay
  <2> QED BY <1>6, <1>7, <2>2 DEF CatalogueInvariant
<1>10. CASE row.pc = "counted"
  <2>1. withinRequestLimit(v) BY <1>1, <1>3, <1>10
  <2> SUFFICES ASSUME NEW u \in Users
               PROVE  Cardinality(RequestsSince(u)) + Cardinality(Counted(u)')
                        <= SkillRequestLimit + Cardinality(Pages(u)) - 1
    BY <1>6, <1>7, <1>8 DEF CatalogueInvariant, PlacesAreHeld, Pages
  <2>2. CASE u # v
    <3>1. Counted(u)' = Counted(u) BY <1>5, <2>2 DEF Counted, Pages
    <3> QED BY <3>1 DEF CatalogueInvariant, PlacesAreHeld
  <2>3. CASE u = v
    <3>1. Cardinality(RequestsSince(u)) < SkillRequestLimit BY <2>1, <2>3 DEF withinRequestLimit
    <3>2. Counted(u)' \in SUBSET Pages(u) BY DEF Counted, Pages
    <3>3. /\ Cardinality(Pages(u)) \in Nat /\ IsFiniteSet(Pages(u))
          /\ Cardinality(RequestsSince(u)) \in Nat
      BY <1>2, WindowIsFinite
    <3>4. /\ Cardinality(Counted(u)') <= Cardinality(Pages(u)) /\ IsFiniteSet(Counted(u)')
      BY <3>2, <3>3, FS_Subset
    <3>5. Cardinality(Counted(u)') \in Nat BY <3>4, FS_CardinalityType
    <3> QED BY <3>1, <3>3, <3>4, <3>5, CatalogueAssumption
  <2> QED BY <2>2, <2>3
<1> QED BY <1>9, <1>10

\* A proposal is recorded in the place its page held (RecordRequest).
LEMMA ProposalIsRecorded ==
  ASSUME CatalogueInvariant, NEW c \in Clients, RecordRequest(c)
  PROVE  CatalogueInvariant'
<1>0. PICK v \in Users : v = Owner[c] BY CatalogueAssumption
<1>n. PICK n : n = Len(requests) + 1 OBVIOUS
<1>1. /\ TypeOK /\ asking[c].term \in Terms /\ Len(requests) < MaxRequests
      /\ asking[c].pc = "counted" /\ CreateRequest(v, asking[c].term)
      /\ asking' = [asking EXCEPT ![c] = Idle]
  BY <1>0 DEF CatalogueInvariant, TypeOK, RecordRequest, Done
<1>2. /\ requests' \in Seq(SkillRequest) /\ Len(requests') = n
      /\ DOMAIN requests' = DOMAIN requests \cup {n} /\ n \notin DOMAIN requests
      /\ \A i \in DOMAIN requests : requests'[i] = requests[i]
      /\ requests'[n] = [by |-> v, term |-> asking[c].term, status |-> "pending", recent |-> TRUE]
  BY <1>n, <1>1, Recorded
<1>3. /\ Idle \in [pc : {"idle", "matched", "counted"}, term : Terms \cup {NoTerm}]
      /\ Idle.pc = "idle"
  BY DEF Idle
<1>4. UNCHANGED <<skills, deciding>> BY DEF RecordRequest
<1>5. \A b \in Clients : asking'[b] = IF b = c THEN Idle ELSE asking[b]
  BY <1>1, <1>3, PageMoves
<1>6. Len(requests) \in Nat /\ n <= MaxRequests BY <1>n, <1>1, QueueRows
<1>7. TypeOK' BY <1>1, <1>2, <1>3, <1>4, <1>6, PageMoves DEF TypeOK
<1>8. EntriesExplained' /\ AnswersStand'
  <2>1. \A i \in DOMAIN requests' \ DOMAIN requests : requests'[i].status = "pending" BY <1>2
  <2> QED BY <1>2, <1>4, <2>1, NobodyIsAnswered
<1>9. PlacesAreHeld'
  <2> SUFFICES ASSUME NEW u \in Users
               PROVE  Cardinality(RequestsSince(u)') + Cardinality(Counted(u)')
                        <= SkillRequestLimit + Cardinality(Pages(u)) - 1
    BY DEF PlacesAreHeld, Pages
  <2>1. Cardinality(RequestsSince(u)) + Cardinality(Counted(u))
          <= SkillRequestLimit + Cardinality(Pages(u)) - 1
    BY DEF CatalogueInvariant, PlacesAreHeld
  <2>2. /\ Cardinality(RequestsSince(u)) \in Nat /\ IsFiniteSet(RequestsSince(u))
        /\ Cardinality(Counted(u)) \in Nat /\ IsFiniteSet(Counted(u))
        /\ Cardinality(Pages(u)) \in Nat /\ SkillRequestLimit \in Nat
    BY <1>1, WindowIsFinite, CatalogueAssumption
  <2>3. CASE u # v
    <3>1. RequestsSince(u)' = RequestsSince(u) BY <1>2, <2>3 DEF RequestsSince
    <3>2. Counted(u)' = Counted(u) BY <1>0, <1>5, <2>3 DEF Counted, Pages
    <3> QED BY <2>1, <3>1, <3>2
  <2>4. CASE u = v
    <3>1. RequestsSince(u)' = RequestsSince(u) \cup {n} BY <1>2, <2>4 DEF RequestsSince
    <3>2. n \notin RequestsSince(u) BY <1>2 DEF RequestsSince
    <3>3. Cardinality(RequestsSince(u)') = Cardinality(RequestsSince(u)) + 1
      BY <2>2, <3>1, <3>2, FS_AddElement
    <3>4. c \in Counted(u) BY <1>0, <1>1, <2>4 DEF Counted, Pages
    <3>5. Counted(u)' = Counted(u) \ {c} BY <1>3, <1>5 DEF Counted, Pages
    <3>6. Cardinality(Counted(u)') = Cardinality(Counted(u)) - 1
      BY <2>2, <3>4, <3>5, FS_RemoveElement
    <3> QED BY <2>1, <2>2, <3>3, <3>6
  <2> QED BY <2>3, <2>4
<1> QED BY <1>7, <1>8, <1>9 DEF CatalogueInvariant

\* A proposal leaves the window (RequestAges).
LEMMA ProposalAges ==
  ASSUME CatalogueInvariant, RequestAges
  PROVE  CatalogueInvariant'
<1>1. PICK i \in DOMAIN requests : requests' = [requests EXCEPT ![i].recent = FALSE]
  BY DEF RequestAges
<1>2. TypeOK /\ requests[i] \in SkillRequest BY QueueRows DEF CatalogueInvariant
<1>3. PICK row : row = [requests[i] EXCEPT !.recent = FALSE] OBVIOUS
<1>4. row \in SkillRequest /\ row.status = requests[i].status /\ row.by = requests[i].by /\ ~row.recent
  BY <1>2, <1>3 DEF SkillRequest
<1>5. requests' = [requests EXCEPT ![i] = row] BY <1>1, <1>3
<1>6. /\ requests' \in Seq(SkillRequest) /\ Len(requests') = Len(requests)
      /\ DOMAIN requests' = DOMAIN requests
      /\ \A j \in DOMAIN requests : requests'[j] = IF j = i THEN row ELSE requests[j]
  BY <1>2, <1>4, <1>5, OneChanges
<1>7. UNCHANGED <<skills, asking, deciding>> BY DEF RequestAges
<1>8. TypeOK' BY <1>2, <1>6, <1>7 DEF TypeOK
<1>9. \A j \in DOMAIN requests : requests'[j].status = requests[j].status BY <1>4, <1>6
<1>10. EntriesExplained' /\ AnswersStand' BY <1>6, <1>7, <1>9, NobodyIsAnswered
<1>11. \A u \in Users : RequestsSince(u)' \subseteq RequestsSince(u)
  BY <1>4, <1>6 DEF RequestsSince
<1>12. \A u \in Users : Counted(u)' \subseteq Counted(u) BY <1>7 DEF Counted, Pages
<1>13. PlacesAreHeld' BY <1>8, <1>11, <1>12, PlacesStay
<1> QED BY <1>8, <1>10, <1>13 DEF CatalogueInvariant

\* A decision, or an answer, takes no place in the window.
LEMMA DecidingTakesNoPlace ==
  ASSUME CatalogueInvariant, TypeOK', UNCHANGED asking,
         DOMAIN requests' = DOMAIN requests,
         \A i \in DOMAIN requests :
           requests'[i].by = requests[i].by /\ requests'[i].recent = requests[i].recent
  PROVE  PlacesAreHeld'
<1>1. \A u \in Users : RequestsSince(u)' \subseteq RequestsSince(u) BY DEF RequestsSince
<1>2. \A u \in Users : Counted(u)' \subseteq Counted(u) BY DEF Counted, Pages
<1> QED BY <1>1, <1>2, PlacesStay

\* The answer to a decision (Tell).
LEMMA Told ==
  ASSUME TypeOK, NEW a \in Admins, NEW answer, Tell(a, answer),
         answer \in {"nothing", "unknown_skill", "slug_taken", "alias_taken", "approved",
                     "rejected", "request_already_decided"}
  PROVE  \E d \in Decision :
           /\ d.pc = "idle" /\ d.told = answer
           /\ d.request = deciding[a].request /\ d.entry = deciding[a].entry
           /\ deciding' = [deciding EXCEPT ![a] = d]
<1> DEFINE d == [deciding[a] EXCEPT !.pc = "idle", !.told = answer]
<1>1. deciding[a] \in Decision /\ deciding \in [Admins -> Decision] BY DEF TypeOK
<1>2. d \in Decision BY <1>1 DEF Decision
<1>3. /\ d.pc = "idle" /\ d.told = answer
      /\ d.request = deciding[a].request /\ d.entry = deciding[a].entry
  BY <1>1 DEF Decision
<1>4. deciding' = [deciding EXCEPT ![a] = d] BY <1>1 DEF Tell, Decision
<1> HIDE DEF d
<1> QED BY <1>2, <1>3, <1>4

\* An administrator decides: what the entry would collide with is answered at
\* once, and stands (DecideSkillRequest).
LEMMA DecisionBegins ==
  ASSUME CatalogueInvariant, NEW a \in Admins, NEW i \in DOMAIN requests,
         DecideSkillRequest(a, i)
  PROVE  CatalogueInvariant'
<1>1. TypeOK /\ i \in 0 .. MaxRequests /\ UNCHANGED <<skills, requests, asking>>
  BY QueueRows DEF CatalogueInvariant, DecideSkillRequest
<1>2. \E d \in Decision : Stands(d) /\ deciding' = [deciding EXCEPT ![a] = d]
  <2>1. ASSUME NEW e \in Entries, e.slug = NoTerm, Tell(a, "unknown_skill")
        PROVE  \E d \in Decision : Stands(d) /\ deciding' = [deciding EXCEPT ![a] = d]
    <3>1. PICK d \in Decision :
            /\ d.pc = "idle" /\ d.told = "unknown_skill"
            /\ d.request = deciding[a].request /\ d.entry = deciding[a].entry
            /\ deciding' = [deciding EXCEPT ![a] = d]
      BY <1>1, <2>1, Told
    <3>2. Stands(deciding[a]) BY DEF CatalogueInvariant, AnswersStand
    <3>3. Stands(d) BY <3>1, <3>2 DEF Stands
    <3> QED BY <3>1, <3>3
  <2>2. ASSUME NEW e \in Entries, e.slug # NoTerm, ApproveAs(a, i, e)
        PROVE  \E d \in Decision : Stands(d) /\ deciding' = [deciding EXCEPT ![a] = d]
    <3>1. CASE CollidesWith(e) = "free"
      <4> DEFINE d == [pc |-> "approving", request |-> i, entry |-> {e}, told |-> "nothing"]
      <4>1. d \in Decision BY <1>1, <2>2 DEF Decision
      <4>2. deciding' = [deciding EXCEPT ![a] = d] BY <2>2, <3>1 DEF ApproveAs, Begin
      <4>3. Stands(d) BY DEF Stands
      <4> QED BY <4>1, <4>2, <4>3
    <3>2. CASE CollidesWith(e) # "free"
      <4> DEFINE d == [pc |-> "idle", request |-> i, entry |-> {e}, told |-> CollidesWith(e)]
      <4>1. CollidesWith(e) \in {"slug_taken", "alias_taken"} /\ \E t \in NamesOf(e) : Has(t)
        BY <3>2 DEF CollidesWith, NamesOf
      <4>2. d \in Decision BY <1>1, <2>2, <4>1 DEF Decision
      <4>3. deciding' = [deciding EXCEPT ![a] = d] BY <2>2, <3>2 DEF ApproveAs, Begin
      <4>4. Stands(d) BY <4>1 DEF Stands
      <4> QED BY <4>2, <4>3, <4>4
    <3> QED BY <3>1, <3>2
  <2>3. ASSUME Begin(a, "rejecting", i, {}, "nothing")
        PROVE  \E d \in Decision : Stands(d) /\ deciding' = [deciding EXCEPT ![a] = d]
    <3> DEFINE d == [pc |-> "rejecting", request |-> i, entry |-> {}, told |-> "nothing"]
    <3>1. d \in Decision BY <1>1 DEF Decision
    <3>2. deciding' = [deciding EXCEPT ![a] = d] BY <2>3 DEF Begin
    <3>3. Stands(d) BY DEF Stands
    <3> QED BY <3>1, <3>2, <3>3
  <2> QED BY <2>1, <2>2, <2>3 DEF DecideSkillRequest
<1>3. PICK d \in Decision : Stands(d) /\ deciding' = [deciding EXCEPT ![a] = d] BY <1>2
<1>4. Stands(d)' BY <1>1, <1>3 DEF Stands, ByStatus, Insertable, Has
<1>5. AnswersStand' /\ deciding' \in [Admins -> Decision] BY <1>1, <1>3, <1>4, OneIsAnswered
<1>6. TypeOK' BY <1>1, <1>5 DEF TypeOK
<1>7. EntriesExplained' BY <1>1 DEF CatalogueInvariant, EntriesExplained, ByStatus
<1>8. PlacesAreHeld' BY <1>1, <1>6, DecidingTakesNoPlace
<1> QED BY <1>5, <1>6, <1>7, <1>8 DEF CatalogueInvariant

\* A request that waited is decided, and no other changes (DecideRequest).
LEMMA Decided ==
  ASSUME CatalogueInvariant, NEW i \in DOMAIN requests, NEW status \in {"approved", "rejected"},
         DecideRequest(i, status)
  PROVE  /\ requests' \in Seq(SkillRequest) /\ Len(requests') = Len(requests)
         /\ DOMAIN requests' = DOMAIN requests
         /\ requests[i].status = "pending" /\ requests'[i].status = status
         /\ \A j \in DOMAIN requests \ {i} : requests'[j] = requests[j]
         /\ \A j \in DOMAIN requests :
              requests'[j].by = requests[j].by /\ requests'[j].recent = requests[j].recent
         /\ i # Seeded /\ i \in 0 .. MaxRequests
<1>1. TypeOK /\ requests[i] \in SkillRequest BY QueueRows DEF CatalogueInvariant
<1>2. PICK row : row = [requests[i] EXCEPT !.status = status] OBVIOUS
<1>3. /\ row \in SkillRequest /\ row.status = status
      /\ row.by = requests[i].by /\ row.recent = requests[i].recent
  BY <1>1, <1>2 DEF SkillRequest
<1>4. requests' = [requests EXCEPT ![i] = row] BY <1>2 DEF DecideRequest
<1>5. /\ requests' \in Seq(SkillRequest) /\ Len(requests') = Len(requests)
      /\ DOMAIN requests' = DOMAIN requests
      /\ \A j \in DOMAIN requests : requests'[j] = IF j = i THEN row ELSE requests[j]
  BY <1>1, <1>3, <1>4, OneChanges
<1>6. i # Seeded /\ i \in 0 .. MaxRequests BY <1>1, QueueRows DEF Seeded
<1> QED BY <1>3, <1>5, <1>6 DEF DecideRequest

\* A rejection decides its request, once (RejectRequest).
LEMMA RequestIsRejected ==
  ASSUME CatalogueInvariant, NEW a \in Admins, RejectRequest(a)
  PROVE  CatalogueInvariant'
<1>1. PICK i : i = deciding[a].request OBVIOUS
<1>2. /\ i \in DOMAIN requests /\ TypeOK /\ UNCHANGED <<skills, asking>>
      /\ DecideRequest(i, "rejected") /\ Tell(a, "rejected")
  BY <1>1 DEF CatalogueInvariant, AnswersStand, Stands, RejectRequest
<1>3. /\ requests' \in Seq(SkillRequest) /\ Len(requests') = Len(requests)
      /\ DOMAIN requests' = DOMAIN requests
      /\ requests[i].status = "pending" /\ requests'[i].status = "rejected"
      /\ \A j \in DOMAIN requests \ {i} : requests'[j] = requests[j]
      /\ \A j \in DOMAIN requests :
           requests'[j].by = requests[j].by /\ requests'[j].recent = requests[j].recent
  BY <1>2, Decided
<1>4. PICK d \in Decision :
        /\ d.pc = "idle" /\ d.told = "rejected" /\ d.request = i /\ d.entry = deciding[a].entry
        /\ deciding' = [deciding EXCEPT ![a] = d]
  BY <1>1, <1>2, Told
<1>5. \A e, f \in d.entry : e = f BY <1>4 DEF CatalogueInvariant, AnswersStand, Stands
<1>6. Stands(d)' BY <1>2, <1>3, <1>4, <1>5 DEF Stands, ByStatus
<1>7. \A j \in DOMAIN requests : requests[j].status # "pending" => requests'[j].status = requests[j].status
  BY <1>3
<1>8. AnswersStand' /\ deciding' \in [Admins -> Decision]
  BY <1>2, <1>3, <1>4, <1>6, <1>7, OneIsAnswered
<1>9. TypeOK' BY <1>2, <1>3, <1>8 DEF TypeOK
<1>10. EntriesExplained'
  <2>1. ByStatus("approved")' = ByStatus("approved") BY <1>2, <1>3 DEF ByStatus
  <2> QED BY <1>2, <2>1 DEF CatalogueInvariant, EntriesExplained
<1>11. PlacesAreHeld' BY <1>2, <1>3, <1>9, DecidingTakesNoPlace
<1> QED BY <1>8, <1>9, <1>10, <1>11 DEF CatalogueInvariant

\* An approval decides its request and adds its entry, together (ApproveRequest).
LEMMA RequestIsApproved ==
  ASSUME CatalogueInvariant, NEW a \in Admins, ApproveRequest(a)
  PROVE  CatalogueInvariant'
<1>1. PICK i : i = deciding[a].request OBVIOUS
<1>2. PICK e \in deciding[a].entry : CreateSkill(e, i) /\ DecideRequest(i, "approved")
  BY <1>1 DEF ApproveRequest
<1>3. PICK new : new = [slug |-> e.slug, aliases |-> e.aliases, request |-> i] OBVIOUS
<1>4. /\ i \in DOMAIN requests /\ TypeOK /\ UNCHANGED asking /\ Tell(a, "approved")
      /\ skills' = skills \cup {new}
  BY <1>1, <1>2, <1>3 DEF CatalogueInvariant, AnswersStand, Stands, ApproveRequest, CreateSkill
<1>5. /\ requests' \in Seq(SkillRequest) /\ Len(requests') = Len(requests)
      /\ DOMAIN requests' = DOMAIN requests
      /\ requests[i].status = "pending" /\ requests'[i].status = "approved"
      /\ \A j \in DOMAIN requests \ {i} : requests'[j] = requests[j]
      /\ \A j \in DOMAIN requests :
           requests'[j].by = requests[j].by /\ requests'[j].recent = requests[j].recent
      /\ i # Seeded /\ i \in 0 .. MaxRequests
  BY <1>2, <1>4, Decided
<1>6. PICK d \in Decision :
        /\ d.pc = "idle" /\ d.told = "approved" /\ d.request = i /\ d.entry = deciding[a].entry
        /\ deciding' = [deciding EXCEPT ![a] = d]
  BY <1>1, <1>4, Told
<1>7. \A f, g \in d.entry : f = g BY <1>6 DEF CatalogueInvariant, AnswersStand, Stands
<1>8. new.request = i /\ new.slug = e.slug /\ \A f \in d.entry : new.slug = f.slug
  BY <1>2, <1>3, <1>6, <1>7
<1>9. new \in Skill
  <2>1. e \in Entries /\ e.slug # NoTerm
    BY <1>2, <1>4 DEF TypeOK, Decision
  <2>2. e.slug \in Terms /\ e.aliases \in SUBSET Terms BY <2>1, CatalogueAssumption
  <2> QED BY <1>3, <1>5, <2>2 DEF Skill
<1>10. ByStatus("approved")' = ByStatus("approved") \cup {i} /\ i \notin ByStatus("approved")
  BY <1>4, <1>5 DEF ByStatus
<1>11. Stands(d)'
  <2>1. new \in skills' BY <1>4
  <2> QED BY <1>6, <1>7, <1>8, <1>10, <2>1 DEF Stands
<1>12. \A j \in DOMAIN requests : requests[j].status # "pending" => requests'[j].status = requests[j].status
  BY <1>5
<1>13. AnswersStand' /\ deciding' \in [Admins -> Decision]
  BY <1>4, <1>5, <1>6, <1>11, <1>12, OneIsAnswered
<1>14. TypeOK' BY <1>4, <1>5, <1>9, <1>13 DEF TypeOK
<1>15. EntriesExplained'
  <2>1. \A s \in skills : s.request # i
    BY <1>5, <1>10 DEF CatalogueInvariant, EntriesExplained
  <2>2. \A s \in skills' : s.request # Seeded => s.request \in ByStatus("approved")'
    BY <1>4, <1>8, <1>10 DEF CatalogueInvariant, EntriesExplained
  <2>3. \A s, t \in skills' : s.request = t.request /\ s.request # Seeded => s = t
    BY <1>4, <1>8, <2>1 DEF CatalogueInvariant, EntriesExplained
  <2>4. \A j \in ByStatus("approved")' : \E s \in skills' : s.request = j
    BY <1>4, <1>8, <1>10 DEF CatalogueInvariant, EntriesExplained
  <2> QED BY <2>2, <2>3, <2>4 DEF EntriesExplained
<1>16. PlacesAreHeld' BY <1>4, <1>5, <1>14, DecidingTakesNoPlace
<1> QED BY <1>13, <1>14, <1>15, <1>16 DEF CatalogueInvariant

\* A decision that lost the race is told so, and it is so (DecisionConflicts).
LEMMA DecisionIsRefused ==
  ASSUME CatalogueInvariant, NEW a \in Admins, DecisionConflicts(a)
  PROVE  CatalogueInvariant'
<1>1. PICK i : i = deciding[a].request OBVIOUS
<1>2. /\ i \in DOMAIN requests /\ TypeOK /\ UNCHANGED <<skills, requests, asking>>
      /\ requests[i].status # "pending" \/ \E e \in deciding[a].entry : ~Insertable(e)
      /\ Tell(a, "request_already_decided")
  BY <1>1 DEF CatalogueInvariant, AnswersStand, Stands, DecisionConflicts, alreadyDecided
<1>3. PICK d \in Decision :
        /\ d.pc = "idle" /\ d.told = "request_already_decided" /\ d.request = i
        /\ d.entry = deciding[a].entry /\ deciding' = [deciding EXCEPT ![a] = d]
  BY <1>1, <1>2, Told
<1>4. \A e, f \in d.entry : e = f BY <1>3 DEF CatalogueInvariant, AnswersStand, Stands
<1>5. Stands(d) BY <1>2, <1>3, <1>4 DEF Stands
<1>6. Stands(d)' BY <1>2, <1>5 DEF Stands, ByStatus, Insertable, Has
<1>7. AnswersStand' /\ deciding' \in [Admins -> Decision] BY <1>2, <1>3, <1>6, OneIsAnswered
<1>8. TypeOK' BY <1>2, <1>7 DEF TypeOK
<1>9. EntriesExplained' BY <1>2 DEF CatalogueInvariant, EntriesExplained, ByStatus
<1>10. PlacesAreHeld' BY <1>2, <1>8, DecidingTakesNoPlace
<1> QED BY <1>7, <1>8, <1>9, <1>10 DEF CatalogueInvariant

\* Every step keeps the invariant.
LEMMA StepCatalogue == CatalogueInvariant /\ [Next]_vars => CatalogueInvariant'
<1> SUFFICES ASSUME CatalogueInvariant, [Next]_vars PROVE CatalogueInvariant' OBVIOUS
<1>1. ASSUME NEW c \in Clients, ClientStep(c) PROVE CatalogueInvariant'
  BY <1>1, ProposalIsMatched, ProposalIsCounted, ProposalIsRecorded DEF ClientStep
<1>2. ASSUME NEW a \in Admins, AdminStep(a) PROVE CatalogueInvariant'
  BY <1>2, DecisionBegins, RequestIsApproved, RequestIsRejected, DecisionIsRefused DEF AdminStep
<1>3. CASE RequestAges BY <1>3, ProposalAges
<1>4. CASE UNCHANGED vars
  BY <1>4 DEF vars, CatalogueInvariant, TypeOK, EntriesExplained, AnswersStand, Stands, ByStatus,
              Insertable, Has, PlacesAreHeld, RequestsSince, Counted, Pages
<1> QED BY <1>1, <1>2, <1>3, <1>4 DEF Next

\* The catalogue and its queue satisfy the invariant in every state.
THEOREM CatalogueIsSound == Spec => []CatalogueInvariant
BY InitCatalogue, StepCatalogue, PTL DEF Spec

-----------------------------------------------------------------------------
(* What follows                                                            *)

\* Every entry is explained by the request approved for it, every approval by its
\* one entry, and what an administrator was told stays true (DecideSkillRequest).
THEOREM CatalogueDecisionsStand == Spec => []DecisionsStand
<1>1. CatalogueInvariant => DecisionsStand
  <2> SUFFICES ASSUME CatalogueInvariant PROVE DecisionsStand OBVIOUS
  <2>1. \A s \in skills : s.request # Seeded => requests[s.request].status = "approved"
    BY DEF CatalogueInvariant, EntriesExplained, ByStatus
  <2>2. ASSUME NEW i \in ByStatus("approved")
        PROVE  Cardinality({s \in skills : s.request = i}) = 1
    <3>1. i # Seeded BY QueueRows DEF CatalogueInvariant, ByStatus, Seeded
    <3>2. PICK s \in skills : s.request = i BY DEF CatalogueInvariant, EntriesExplained
    <3>3. {t \in skills : t.request = i} = {s}
      BY <3>1, <3>2 DEF CatalogueInvariant, EntriesExplained
    <3>4. Cardinality({s}) = 1 BY FS_Singleton
    <3> QED BY <3>3, <3>4
  <2>3. ASSUME NEW a \in Admins
        PROVE  LET d == deciding[a] IN
               /\ d.told \in {"approved", "rejected"} => requests[d.request].status = d.told
               /\ d.told = "approved" =>
                    \E s \in skills : s.request = d.request /\ \A e \in d.entry : s.slug = e.slug
               /\ d.told = "request_already_decided" =>
                    \/ requests[d.request].status # "pending"
                    \/ \E e \in d.entry : ~Insertable(e)
               /\ d.told \in {"slug_taken", "alias_taken"} =>
                    \E e \in d.entry : \E t \in NamesOf(e) : Has(t)
    BY DEF CatalogueInvariant, AnswersStand, Stands, ByStatus
  <2> QED BY <2>1, <2>2, <2>3 DEF DecisionsStand
<1> QED BY <1>1, CatalogueIsSound, PTL

\* The rolling window lets through its limit, and no more beyond it than the
\* proposals one contributor had in flight at once (withinRequestLimit).
THEOREM CatalogueWindowHolds == Spec => []WindowHolds
<1>1. CatalogueInvariant => WindowHolds
  <2> SUFFICES ASSUME CatalogueInvariant, NEW u \in Users
               PROVE  Cardinality(RequestsSince(u)) <= SkillRequestLimit + Cardinality(Pages(u)) - 1
    BY DEF WindowHolds
  <2>1. /\ Cardinality(RequestsSince(u)) \in Nat /\ Cardinality(Counted(u)) \in Nat
        /\ Cardinality(Pages(u)) \in Nat /\ SkillRequestLimit \in Nat
    BY WindowIsFinite, CatalogueAssumption DEF CatalogueInvariant
  <2> QED BY <2>1 DEF CatalogueInvariant, PlacesAreHeld
<1> QED BY <1>1, CatalogueIsSound, PTL
=============================================================================
