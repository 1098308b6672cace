------------------------------ MODULE Profiles ------------------------------
(***************************************************************************)
(* What a contributor says of themselves (service/profile.go) and the one  *)
(* part of it that is evidence: when their first pull request was written. *)
(* A save reads the stored row and asks GitHub before its transaction, so  *)
(* two saves, or a save and the verification job, interleave.  A stored    *)
(* date stands for first_pr_authored_at and first_pr_verified_at, which    *)
(* are always given together, and is named by the pull request it is of.   *)
(***************************************************************************)
EXTENDS Naturals, Sequences, FiniteSets, SequencesExt

CONSTANTS
  Users,      \* contributors
  Links,      \* pull requests a save may name
  NoLink,     \* a blank field, and a date not known
  Author,     \* who wrote each, for the merged ones; nobody for the others
  Forms,      \* what the two fields of a save may say
  Saves,      \* requests in flight
  NoUser,     \* the contributor of an idle request
  Batch,      \* VerificationBatch
  MaxSaves    \* bound on the saves started

ASSUME ProfilesAssumption ==
  /\ NoLink \notin Links /\ NoUser \notin Users
  /\ Forms \subseteq [first : Links \cup {NoLink}, latest : Links \cup {NoLink}]
  /\ Batch \in Nat \ {0} /\ MaxSaves \in Nat

VARIABLES
  prefs,      \* user_work_preferences, by contributor
  order,      \* the contributors with a row, by updated_at
  saves,      \* the saves between their reads and their transaction
  job,        \* the run of verify-pull-requests under way
  made        \* saves started

vars == <<prefs, order, saves, job, made>>

Blank == Links \cup {NoLink}

PrefsRow == [first : Blank, dated : Blank, latest : Blank, latestDated : Blank]

Fields == [first : Blank, latest : Blank]

VerifiedPRDates == [first : Blank, latest : Blank]

NoSave == [user |-> NoUser, in |-> [first |-> NoLink, latest |-> NoLink],
           dates |-> [first |-> NoLink, latest |-> NoLink]]

-----------------------------------------------------------------------------
(* The statements                                                          *)

\* The update trigger stamps the row, whatever was written to it.
Touched(u) == Append(SelectSeq(order, LAMBDA v : v # u), u)

\* (Fault: the upsert replaces the first pull request.)
ReplaceWorkPreferences(row, in) ==
  [row EXCEPT !.first = IF in.first = NoLink THEN @ ELSE in.first,
              !.latest = in.latest,
              !.latestDated = IF row.latest = in.latest THEN @ ELSE NoLink]

SaveWorkPreferences(row, in) ==
  [row EXCEPT !.first = IF @ = NoLink THEN in.first ELSE @,
              !.latest = in.latest,
              !.latestDated = IF row.latest = in.latest THEN @ ELSE NoLink]

SaveVerifiedPRDates(row, dates) ==
  [row EXCEPT !.dated = IF dates.first = NoLink THEN @ ELSE dates.first,
              !.latestDated = IF dates.latest = NoLink THEN @ ELSE dates.latest]

Unverified(u) == prefs[u].first # NoLink /\ prefs[u].dated = NoLink

PendingVerification ==
  LET pending == SelectSeq(order, Unverified)
  IN SubSeq(pending, 1, IF Len(pending) < Batch THEN Len(pending) ELSE Batch)

-----------------------------------------------------------------------------
(* Asking GitHub                                                           *)

\* (Fault: authorship is assumed.)
authoredByAnybody(u, link) == {link}

\* The date an answer gives, if the pull request is merged and theirs; any
\* other answer is a refusal.
authoredAt(u, link) == {l \in {link} : Author[l] = u}

\* A link that changed is read: refused, dated, or left undated because GitHub
\* did not answer.  An outage at the first one leaves the latest unread.
verifyPRs(u, existing, in) ==
  {d \in VerifiedPRDates :
     /\ d.first \in IF in.first = existing.first
                    THEN {NoLink} ELSE authoredAt(u, in.first) \cup {NoLink}
     /\ d.latest \in IF \/ in.latest \in {NoLink, existing.latest}
                        \/ in.first # existing.first /\ d.first = NoLink
                     THEN {NoLink} ELSE authoredAt(u, in.latest) \cup {NoLink}}

-----------------------------------------------------------------------------
(* Saving the form                                                         *)

\* A blank is an omission, not a change.
CarriedForward(existing, in) ==
  [in EXCEPT !.first = IF @ = NoLink THEN existing.first ELSE @]

FirstPRIsFixed(existing, in) == existing.first \notin {NoLink, in.first}

SaveProfile(s, u) ==
  /\ saves[s] = NoSave /\ made < MaxSaves
  /\ \E sent \in Forms :
       LET in == CarriedForward(prefs[u], sent)
       IN /\ ~FirstPRIsFixed(prefs[u], in)
          /\ \E dates \in verifyPRs(u, prefs[u], in) :
               saves' = [saves EXCEPT ![s] = [user |-> u, in |-> in, dates |-> dates]]
  /\ made' = made + 1
  /\ UNCHANGED <<prefs, order, job>>

SaveWrites(s) ==
  LET u == saves[s].user
  IN /\ saves[s] # NoSave
     /\ prefs' = [prefs EXCEPT
          ![u] = SaveVerifiedPRDates(SaveWorkPreferences(@, saves[s].in), saves[s].dates)]
     /\ order' = Touched(u)
     /\ saves' = [saves EXCEPT ![s] = NoSave]
     /\ UNCHANGED <<job, made>>

SaveFails(s) ==
  /\ saves[s] # NoSave
  /\ saves' = [saves EXCEPT ![s] = NoSave]
  /\ UNCHANGED <<prefs, order, job, made>>

-----------------------------------------------------------------------------
(* The scheduled job: one contributor after the other                      *)

Idle == [ids |-> <<>>, found |-> NoLink]

VerifyPendingPRs ==
  /\ job = Idle
  /\ job' = [Idle EXCEPT !.ids = PendingVerification]
  /\ UNCHANGED <<prefs, order, saves, made>>

\* (Fault: it abandons the rest of the queue.)
Abandon ==
  /\ job.ids # <<>> /\ job.found = NoLink
  /\ job' = Idle
  /\ UNCHANGED <<prefs, order, saves, made>>

\* GitHub is down, or answers that the pull request is not theirs.
Skip ==
  /\ job.ids # <<>> /\ job.found = NoLink
  /\ job' = [job EXCEPT !.ids = Tail(@)]
  /\ UNCHANGED <<prefs, order, saves, made>>

Confirm(u) ==
  /\ job.ids # <<>> /\ Head(job.ids) = u /\ job.found = NoLink
  /\ \E l \in authoredAt(u, prefs[u].first) : job' = [job EXCEPT !.found = l]
  /\ UNCHANGED <<prefs, order, saves, made>>

Record(u) ==
  /\ job.ids # <<>> /\ Head(job.ids) = u /\ job.found # NoLink
  /\ prefs' = [prefs EXCEPT
       ![u] = SaveVerifiedPRDates(@, [first |-> job.found, latest |-> NoLink])]
  /\ order' = Touched(u)
  /\ job' = [Idle EXCEPT !.ids = Tail(job.ids)]
  /\ UNCHANGED <<saves, made>>

\* The first transaction that fails ends the run.
RunFails ==
  /\ job.found # NoLink
  /\ job' = Idle
  /\ UNCHANGED <<prefs, order, saves, made>>

-----------------------------------------------------------------------------
Init ==
  /\ prefs = [u \in Users |-> [first |-> NoLink, dated |-> NoLink,
                               latest |-> NoLink, latestDated |-> NoLink]]
  /\ order = <<>>
  /\ saves = [s \in Saves |-> NoSave]
  /\ job = Idle
  /\ made = 0

SaveStep(s) == (\E u \in Users : SaveProfile(s, u)) \/ SaveWrites(s) \/ SaveFails(s)

JobStep(u) == Confirm(u) \/ Record(u)

Next ==
  \/ \E s \in Saves : SaveStep(s)
  \/ \E u \in Users : JobStep(u)
  \/ VerifyPendingPRs \/ Skip \/ RunFails

Spec == Init /\ [][Next]_vars

\* The job is run again and again and works through its batch; GitHub is not
\* down, and the database does not fail, for ever for one contributor.
FairSpec ==
  /\ Spec
  /\ WF_vars(VerifyPendingPRs) /\ WF_vars(Skip)
  /\ \A u \in Users : SF_vars(Confirm(u)) /\ SF_vars(Record(u))
=============================================================================
