-------------------------- MODULE ProfileProperties --------------------------
(* What the profile screen, and a hirer who filters by it, rely on.        *)
EXTENDS Profiles

TypeOK ==
  /\ prefs \in [Users -> PrefsRow]
  /\ order \in SeqOf(Users, Cardinality(Users))
  /\ saves \in [Saves -> [user : Users \cup {NoUser}, in : Fields, dates : VerifiedPRDates]]
  /\ job.ids \in SeqOf(Users, Batch) /\ job.found \in Blank
  /\ made \in 0 .. MaxSaves

(* Whatever overlaps, a date on a profile is that of a merged pull request *)
(* the contributor wrote themselves, and the latest one's date is not that *)
(* of a link the row no longer names (authoredAt, SaveWorkPreferences).    *)
DatesAreTheirs ==
  \A u \in Users :
    /\ \A l \in {prefs[u].dated, prefs[u].latestDated} \ {NoLink} : Author[l] = u
    /\ prefs[u].latestDated \in {NoLink, prefs[u].latest}

\* The dates of u that have been read are of pull requests u wrote.
Theirs(u, dates) == \A l \in {dates.first, dates.latest} \ {NoLink} : Author[l] = u

(* What is read stays what may be written: a save in flight is somebody's, *)
(* the dates it carries are theirs and of the links beside them, and so is *)
(* the date the job has found (verifyPRs, VerifyPending).                  *)
EvidenceInFlight ==
  /\ prefs \in [Users -> PrefsRow]
  /\ \A s \in Saves : saves[s] # NoSave =>
       /\ saves[s].user \in Users /\ saves[s].in \in Fields /\ saves[s].dates \in VerifiedPRDates
       /\ Theirs(saves[s].user, saves[s].dates)
       /\ saves[s].dates.latest \in {NoLink, saves[s].in.latest}
  /\ DOMAIN saves = Saves
  /\ DOMAIN job = {"ids", "found"}
  /\ job.found # NoLink => job.found \in Links /\ Author[job.found] = Head(job.ids)

ProfileInvariant == DatesAreTheirs /\ EvidenceInFlight

(* The first pull request is write-once against every overlap of saves: a  *)
(* link recorded is the link for good, and what was verified stays so.     *)
FirstPRIsPermanent ==
  [][\A u \in Users :
       /\ prefs[u].first # NoLink => prefs'[u].first = prefs[u].first
       /\ prefs[u].dated # NoLink => prefs'[u].dated # NoLink]_vars

(* An outage during the save costs nobody their years: a first pull        *)
(* request that is theirs is dated in the end, whoever waits before them   *)
(* with one that never can be (VerifyPending).  This needs a batch larger  *)
(* than the rows that can never be verified.                               *)
PendingIsVerified ==
  \A u \in Users :
    (Unverified(u) /\ Author[prefs[u].first] = u) ~> prefs[u].dated # NoLink

(* "The dates follow their URLs."  Two first saves that overlap leave the  *)
(* link of one beside the date of the other.                               *)
DatesFollowUrls == \A u \in Users : prefs[u].dated \in {NoLink, prefs[u].first}
=============================================================================
