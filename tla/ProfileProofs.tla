---------------------------- MODULE ProfileProofs ----------------------------
(***************************************************************************)
(* That the dates on a profile are the contributor's own, and the first    *)
(* pull request is permanent, for any contributors and pull requests, any  *)
(* number of saves in flight and any batch.                                *)
(***************************************************************************)
EXTENDS ProfileProperties, TLAPS

-----------------------------------------------------------------------------
(* The two statements on a row                                             *)

\* The upsert keeps the first link, and a date of the latest one only while the
\* link stays (SaveWorkPreferences).
LEMMA UpsertKeeps ==
  ASSUME NEW row \in PrefsRow, NEW in \in Fields
  PROVE  LET new == SaveWorkPreferences(row, in) IN
         /\ new \in PrefsRow
         /\ row.first # NoLink => new.first = row.first
         /\ new.dated = row.dated
         /\ new.latest = in.latest
         /\ \/ new.latestDated = NoLink
            \/ new.latestDated = row.latestDated /\ row.latest = in.latest
<1>1. NoLink \in Blank BY DEF Blank
<1> QED BY <1>1 DEF SaveWorkPreferences, PrefsRow, Fields

\* Recording dates keeps the links, and loses no date (SaveVerifiedPRDates).
LEMMA DatesKeep ==
  ASSUME NEW row \in PrefsRow, NEW dates \in VerifiedPRDates
  PROVE  LET new == SaveVerifiedPRDates(row, dates) IN
         /\ new \in PrefsRow
         /\ new.first = row.first
         /\ new.latest = row.latest
         /\ new.dated = IF dates.first = NoLink THEN row.dated ELSE dates.first
         /\ new.latestDated = IF dates.latest = NoLink THEN row.latestDated ELSE dates.latest
BY DEF SaveVerifiedPRDates, PrefsRow, VerifiedPRDates

-----------------------------------------------------------------------------
(* The invariant                                                           *)

\* A profile nobody has saved satisfies it.
LEMMA InitProfiles == Init => ProfileInvariant
<1> SUFFICES ASSUME Init PROVE ProfileInvariant OBVIOUS
<1>1. EvidenceInFlight BY DEF Init, EvidenceInFlight, PrefsRow, Blank, Idle
<1>2. DatesAreTheirs BY DEF Init, DatesAreTheirs
<1> QED BY <1>1, <1>2 DEF ProfileInvariant

\* What a save reads is somebody's own (SaveProfile, verifyPRs).
LEMMA SaveReads ==
  ASSUME ProfileInvariant, NEW s \in Saves, NEW u \in Users, SaveProfile(s, u)
  PROVE  ProfileInvariant'
<1> USE DEF ProfileInvariant
<1>1. PICK sent \in Forms :
        LET in == CarriedForward(prefs[u], sent) IN
        \E dates \in verifyPRs(u, prefs[u], in) :
          saves' = [saves EXCEPT ![s] = [user |-> u, in |-> in, dates |-> dates]]
  BY DEF SaveProfile
<1> DEFINE in == CarriedForward(prefs[u], sent)
<1>2. PICK dates \in verifyPRs(u, prefs[u], in) :
        saves' = [saves EXCEPT ![s] = [user |-> u, in |-> in, dates |-> dates]]
  BY <1>1
<1>3. in \in Fields
  <2>1. sent \in Fields BY ProfilesAssumption DEF Fields, Blank
  <2>2. prefs[u].first \in Blank BY DEF EvidenceInFlight, PrefsRow
  <2> QED BY <2>1, <2>2 DEF CarriedForward, Fields
<1>4. /\ dates \in VerifiedPRDates
      /\ dates.first \in authoredAt(u, in.first) \cup {NoLink}
      /\ dates.latest \in authoredAt(u, in.latest) \cup {NoLink}
  BY <1>2 DEF verifyPRs
<1>5. Theirs(u, dates) /\ dates.latest \in {NoLink, in.latest}
  BY <1>4 DEF Theirs, authoredAt
<1> HIDE DEF in
<1>6. \A r \in Saves : saves'[r] = IF r = s THEN [user |-> u, in |-> in, dates |-> dates] ELSE saves[r]
  BY <1>2 DEF EvidenceInFlight
<1>7. DOMAIN saves' = Saves BY <1>2 DEF EvidenceInFlight
<1>8. UNCHANGED <<prefs, job>> BY DEF SaveProfile
<1>9. EvidenceInFlight' BY <1>3, <1>4, <1>5, <1>6, <1>7, <1>8 DEF EvidenceInFlight, Theirs
<1>10. DatesAreTheirs' BY <1>8 DEF DatesAreTheirs
<1> QED BY <1>9, <1>10

\* The transaction of a save writes nobody else's dates (SaveProfile).
LEMMA SaveKeeps ==
  ASSUME ProfileInvariant, NEW s \in Saves, SaveWrites(s)
  PROVE  /\ ProfileInvariant'
         /\ \A v \in Users : /\ prefs[v].first # NoLink => prefs'[v].first = prefs[v].first
                             /\ prefs[v].dated # NoLink => prefs'[v].dated # NoLink
<1> USE DEF ProfileInvariant
<1> DEFINE u == saves[s].user
           in == saves[s].in
           dates == saves[s].dates
           mid == SaveWorkPreferences(prefs[u], in)
           row == SaveVerifiedPRDates(mid, dates)
<1>1. /\ u \in Users /\ in \in Fields /\ dates \in VerifiedPRDates
      /\ Theirs(u, dates) /\ dates.latest \in {NoLink, in.latest}
  BY DEF SaveWrites, EvidenceInFlight
<1>2. prefs[u] \in PrefsRow /\ prefs \in [Users -> PrefsRow] BY <1>1 DEF EvidenceInFlight
<1>3. prefs' = [prefs EXCEPT ![u] = row] BY DEF SaveWrites
<1>4. /\ mid \in PrefsRow
      /\ prefs[u].first # NoLink => mid.first = prefs[u].first
      /\ mid.dated = prefs[u].dated /\ mid.latest = in.latest
      /\ \/ mid.latestDated = NoLink
         \/ mid.latestDated = prefs[u].latestDated /\ prefs[u].latest = in.latest
  BY <1>1, <1>2, UpsertKeeps
<1> HIDE DEF mid
<1>5. /\ row \in PrefsRow /\ row.first = mid.first /\ row.latest = mid.latest
      /\ row.dated = IF dates.first = NoLink THEN mid.dated ELSE dates.first
      /\ row.latestDated = IF dates.latest = NoLink THEN mid.latestDated ELSE dates.latest
  BY <1>1, <1>4, DatesKeep
<1> HIDE DEF row, u, in, dates
<1>6. \A v \in Users : prefs'[v] = IF v = u THEN row ELSE prefs[v] BY <1>2, <1>3
<1>7. prefs' \in [Users -> PrefsRow] BY <1>2, <1>3, <1>5
<1>8. \A v \in Users : /\ prefs[v].first # NoLink => prefs'[v].first = prefs[v].first
                       /\ prefs[v].dated # NoLink => prefs'[v].dated # NoLink
  BY <1>4, <1>5, <1>6
<1>9. /\ \A l \in {row.dated, row.latestDated} \ {NoLink} : Author[l] = u
      /\ row.latestDated \in {NoLink, row.latest}
  <2>1. /\ \A l \in {prefs[u].dated, prefs[u].latestDated} \ {NoLink} : Author[l] = u
        /\ prefs[u].latestDated \in {NoLink, prefs[u].latest}
    BY <1>1 DEF DatesAreTheirs
  <2>2. \A l \in {dates.first, dates.latest} \ {NoLink} : Author[l] = u BY <1>1 DEF Theirs
  <2> QED BY <1>1, <1>4, <1>5, <2>1, <2>2
<1>10. DatesAreTheirs' BY <1>6, <1>9 DEF DatesAreTheirs
<1>11. \A r \in Saves : saves'[r] = saves[r] \/ saves'[r] = NoSave
  BY DEF SaveWrites, EvidenceInFlight
<1>12. DOMAIN saves' = Saves BY DEF SaveWrites, EvidenceInFlight
<1>13. job' = job BY DEF SaveWrites
<1>14. EvidenceInFlight' BY <1>7, <1>11, <1>12, <1>13 DEF EvidenceInFlight, Theirs
<1> QED BY <1>8, <1>10, <1>14

\* Nothing but what was read for them is recorded by the job (VerifyPending).
LEMMA JobKeeps ==
  ASSUME ProfileInvariant, NEW u \in Users, Record(u)
  PROVE  /\ ProfileInvariant'
         /\ \A v \in Users : /\ prefs[v].first # NoLink => prefs'[v].first = prefs[v].first
                             /\ prefs[v].dated # NoLink => prefs'[v].dated # NoLink
<1> USE DEF ProfileInvariant
<1> DEFINE dates == [first |-> job.found, latest |-> NoLink]
           row == SaveVerifiedPRDates(prefs[u], dates)
<1>1. job.found \in Links /\ job.found # NoLink /\ Author[job.found] = u
  BY DEF Record, EvidenceInFlight
<1>2. dates \in VerifiedPRDates BY <1>1 DEF VerifiedPRDates, Blank
<1>3. prefs[u] \in PrefsRow /\ prefs \in [Users -> PrefsRow] BY DEF EvidenceInFlight
<1>4. prefs' = [prefs EXCEPT ![u] = row] BY DEF Record
<1>5. /\ row \in PrefsRow /\ row.first = prefs[u].first /\ row.latest = prefs[u].latest
      /\ row.dated = job.found /\ row.latestDated = prefs[u].latestDated
  BY <1>1, <1>2, <1>3, DatesKeep
<1> HIDE DEF row, dates
<1>6. \A v \in Users : prefs'[v] = IF v = u THEN row ELSE prefs[v] BY <1>3, <1>4
<1>7. prefs' \in [Users -> PrefsRow] BY <1>3, <1>4, <1>5
<1>8. DatesAreTheirs' BY <1>1, <1>5, <1>6 DEF DatesAreTheirs
<1>9. UNCHANGED saves /\ DOMAIN job' = {"ids", "found"} /\ job'.found = NoLink
  BY DEF Record, Idle
<1>10. EvidenceInFlight' BY <1>7, <1>9 DEF EvidenceInFlight, Theirs
<1> QED BY <1>1, <1>5, <1>6, <1>8, <1>10

\* Every other step leaves the rows alone.
LEMMA OtherSteps ==
  ASSUME ProfileInvariant, [Next]_vars,
         \A s \in Saves : ~SaveWrites(s), \A u \in Users : ~Record(u)
  PROVE  ProfileInvariant' /\ prefs' = prefs
<1> USE DEF ProfileInvariant
<1>1. ASSUME NEW s \in Saves, NEW u \in Users, SaveProfile(s, u)
      PROVE  ProfileInvariant' /\ prefs' = prefs
  BY <1>1, SaveReads DEF SaveProfile
<1>2. ASSUME NEW s \in Saves, SaveFails(s) PROVE ProfileInvariant' /\ prefs' = prefs
  <2>1. \A r \in Saves : saves'[r] = saves[r] \/ saves'[r] = NoSave
    BY <1>2 DEF SaveFails, EvidenceInFlight
  <2>2. DOMAIN saves' = Saves /\ UNCHANGED <<prefs, job>>
    BY <1>2 DEF SaveFails, EvidenceInFlight
  <2>3. EvidenceInFlight' BY <2>1, <2>2 DEF EvidenceInFlight, Theirs
  <2>4. DatesAreTheirs' BY <2>2 DEF DatesAreTheirs
  <2> QED BY <2>2, <2>3, <2>4
<1>3. ASSUME UNCHANGED <<prefs, saves>>, DOMAIN job' = {"ids", "found"},
             job'.found # NoLink => job'.found \in Links /\ Author[job'.found] = Head(job'.ids)
      PROVE  ProfileInvariant' /\ prefs' = prefs
  <2>1. EvidenceInFlight' BY <1>3 DEF EvidenceInFlight, Theirs
  <2>2. DatesAreTheirs' BY <1>3 DEF DatesAreTheirs
  <2> QED BY <1>3, <2>1, <2>2
<1>4. CASE VerifyPendingPRs
  <2>1. UNCHANGED <<prefs, saves>> BY <1>4 DEF VerifyPendingPRs
  <2>2. DOMAIN job' = {"ids", "found"} /\ job'.found = NoLink BY <1>4 DEF VerifyPendingPRs, Idle
  <2> QED BY <1>3, <2>1, <2>2
<1>5. CASE Skip
  <2>1. UNCHANGED <<prefs, saves>> BY <1>5 DEF Skip
  <2>2. DOMAIN job' = {"ids", "found"} /\ job'.found = NoLink BY <1>5 DEF Skip, EvidenceInFlight
  <2> QED BY <1>3, <2>1, <2>2
<1>6. CASE RunFails
  <2>1. UNCHANGED <<prefs, saves>> BY <1>6 DEF RunFails
  <2>2. DOMAIN job' = {"ids", "found"} /\ job'.found = NoLink BY <1>6 DEF RunFails, Idle
  <2> QED BY <1>3, <2>1, <2>2
<1>7. ASSUME NEW u \in Users, Confirm(u) PROVE ProfileInvariant' /\ prefs' = prefs
  <2>1. UNCHANGED <<prefs, saves>> BY <1>7 DEF Confirm
  <2>2. PICK l \in authoredAt(u, prefs[u].first) : job' = [job EXCEPT !.found = l]
    BY <1>7 DEF Confirm
  <2>3. /\ DOMAIN job' = {"ids", "found"}
        /\ job'.found = l /\ job'.ids = job.ids
    BY <2>2 DEF EvidenceInFlight
  <2>4. l = prefs[u].first /\ Author[l] = u BY <2>2 DEF authoredAt
  <2>5. l \in Blank BY <2>4 DEF EvidenceInFlight, PrefsRow
  <2>6. Head(job'.ids) = u BY <1>7, <2>3 DEF Confirm
  <2> QED BY <1>3, <2>1, <2>3, <2>4, <2>5, <2>6 DEF Blank
<1>8. CASE UNCHANGED vars
  BY <1>8, <1>3 DEF vars, EvidenceInFlight
<1> QED BY <1>1, <1>2, <1>4, <1>5, <1>6, <1>7, <1>8 DEF Next, SaveStep, JobStep

-----------------------------------------------------------------------------
(* The theorems                                                            *)

\* The inductive invariant of saves and of the verification job.
THEOREM ProfilesAreSound == Spec => []ProfileInvariant
<1>1. ProfileInvariant /\ [Next]_vars => ProfileInvariant'
  <2> SUFFICES ASSUME ProfileInvariant, [Next]_vars PROVE ProfileInvariant' OBVIOUS
  <2>1. CASE \E s \in Saves : SaveWrites(s) BY <2>1, SaveKeeps
  <2>2. CASE \E u \in Users : Record(u) BY <2>2, JobKeeps
  <2> QED BY <2>1, <2>2, OtherSteps
<1> QED BY InitProfiles, <1>1, PTL DEF Spec

\* DatesAreTheirs: a date on a profile is of a merged pull request its owner
\* wrote, whatever overlaps (authoredAt, SaveWorkPreferences).
THEOREM DatesAreOwn == Spec => []DatesAreTheirs
BY ProfilesAreSound, PTL DEF ProfileInvariant

\* FirstPRIsPermanent: no step replaces a first pull request or takes its date
\* back (SaveWorkPreferences, SaveVerifiedPRDates).
THEOREM FirstPRStays == Spec => FirstPRIsPermanent
<1> DEFINE Keeps == \A u \in Users :
       /\ prefs[u].first # NoLink => prefs'[u].first = prefs[u].first
       /\ prefs[u].dated # NoLink => prefs'[u].dated # NoLink
<1>1. ProfileInvariant /\ [Next]_vars => [Keeps]_vars
  <2> SUFFICES ASSUME ProfileInvariant, [Next]_vars PROVE Keeps OBVIOUS
  <2>1. CASE \E s \in Saves : SaveWrites(s) BY <2>1, SaveKeeps
  <2>2. CASE \E u \in Users : Record(u) BY <2>2, JobKeeps
  <2> QED BY <2>1, <2>2, OtherSteps
<1> QED BY ProfilesAreSound, <1>1, PTL DEF Spec, FirstPRIsPermanent
=============================================================================
