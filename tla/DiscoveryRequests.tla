------------------------- MODULE DiscoveryRequests -------------------------
(***************************************************************************)
(* Who may ask discovery what: the handlers of controller/discovery.go,    *)
(* controller/me.go and controller/server.go between a caller of any kind, *)
(* or of none, and the services of Discovery.  A contributor's handlers    *)
(* pass the caller's own id and no other; a hirer's pass what was typed.   *)
(***************************************************************************)
EXTENDS Openings

CONSTANTS
  Visitor,      \* a request with no credentials
  MaxAspects    \* bound: how many of Aspects are explored together

Callers == Hirers \cup Users \cup {Visitor}

require(p, kind) == p \in kind

requireAny(p) == p # Visitor

-----------------------------------------------------------------------------
(* Reading a form                                                          *)

\* Of the fields of a query, those nobody gave.
Ungiven ==
  [skills |-> <<>>, minSkill |-> NoScore, minOverall |-> NoScore, minGeneralist |-> NoScore,
   name |-> Anybody, inactive |-> FALSE, says |-> {}, forRole |-> NoRole,
   page |-> 0, perPage |-> 0]

knownFilters == DOMAIN Ungiven

\* What is read as a number is one, and what is read as a list is one.
ASSUME RequestsAssumption ==
  /\ Visitor \notin Hirers \cup Users
  /\ \A form \in Forms :
       \A f \in {"minSkill", "minOverall", "minGeneralist", "page", "perPage"} \cap DOMAIN form :
         form[f] \in Int
  /\ \A form \in Forms : "skills" \in DOMAIN form => form.skills \in Seq(Range(form.skills))

\* The body of a saved search is taken as it is.
parseFilters(form) ==
  [f \in knownFilters \cup DOMAIN form |-> IF f \in DOMAIN form THEN form[f] ELSE Ungiven[f]]

atoiDefault(n, fallback) == IF n <= 0 THEN fallback ELSE n

parseSearchQuery(form) ==
  [parseFilters(form) EXCEPT !.page = atoiDefault(@, 1), !.perPage = atoiDefault(@, DefaultPerPage)]

scoreRangeProblems(q) == {f \in {"minSkill", "minOverall"} : q[f] > Top}

WellFormedQuery(form) ==
  /\ DOMAIN form \subseteq knownFilters
  /\ parseFilters(form).perPage <= MaxPerPage
  /\ scoreRangeProblems(parseFilters(form)) = {}

WellFormedFilters(form) ==
  DOMAIN form \subseteq knownFilters /\ scoreRangeProblems(parseFilters(form)) = {}

-----------------------------------------------------------------------------
(* Asking about others                                                     *)

search(p, form) ==
  IF requireAny(p) /\ WellFormedQuery(form) THEN Search(p, parseSearchQuery(form)) ELSE Refused

leaderboard(p, kind, k) ==
  IF require(p, Hirers) /\ kind \in leaderboardKinds THEN Leaderboard(p, kind, k) ELSE {Refused}

scorecard(p, u) == IF requireAny(p) THEN Scorecard(p, u) ELSE Refused

savedSearches(p) == IF require(p, Hirers) THEN SavedSearches(p) ELSE {}

replaySavedSearch(p, s) == IF require(p, Hirers) THEN ReplaySavedSearch(p, s) ELSE Refused

publicEvidenceLimit == 1

\* A link shows no position, and one pull request of each skill.
scorecardOf(card, identified) ==
  IF identified THEN card
  ELSE [k \in DOMAIN card |-> [rank |-> NoScore,
                               evidence |-> SubSeq(card[k].evidence, 1, publicEvidenceLimit)]]

publicScorecard(l) ==
  LET card == PublicScorecard(l) IN [u \in DOMAIN card |-> scorecardOf(card[u], FALSE)]

-----------------------------------------------------------------------------
(* Requests that change something                                          *)

setAvailability(p, status) == require(p, Users) /\ SetAvailability(p, status)

mintShareLink(p) == require(p, Users) /\ MintShareLink(p)

revokeShareLink(p, l) == require(p, Users) /\ RevokeShareLink(p, l)

saveSearch(p, form) ==
  require(p, Hirers) /\ WellFormedFilters(form) /\ SaveSearch(p, parseFilters(form))

deleteSavedSearch(p, s) == require(p, Hirers) /\ DeleteSavedSearch(p, s)

Request(p) ==
  \/ \E status \in {"looking", "not_looking"} : setAvailability(p, status)
  \/ mintShareLink(p)
  \/ \E l \in DOMAIN links : revokeShareLink(p, l)
  \/ \E form \in Forms : saveSearch(p, form)
  \/ \E s \in saved : deleteSavedSearch(p, s)
  \/ /\ require(p, Hirers)
     /\ \E r \in DOMAIN RoleOwners, u \in Users : Stage(p, r, u) \/ Unstage(p, r, u)

-----------------------------------------------------------------------------
Step ==
  \/ \E p \in Callers : Request(p)
  \/ \E u \in Users : Evaluate(u) \/ DaysPass(u)
  \/ Sweep \/ CompleteSweep \/ ExpireAvailability \/ MarkReminded

Reminding ==
  reminding # {} \/ \E u \in Users : availability[u].window = "closing" \/ availability[u].reminded

Aspects ==
  {a \in {"sweeps", "staging", "saving", "publishing", "reminding"} :
     CASE a = "sweeps" -> active > 1
       [] a = "staging" -> staged # {}
       [] a = "saving" -> saved # {}
       [] a = "publishing" -> links # <<>>
       [] a = "reminding" -> Reminding}

\* Each is explored against everything the contributors may have said, the
\* first two also against everything they may have scored.
Bounded ==
  /\ Cardinality(Aspects) <= MaxAspects
  /\ Aspects \subseteq {"sweeps", "staging"} \/ \A u \in Users : judged[u] = 0

Next == Step /\ Bounded'

Spec == Init /\ [][Next]_vars
=============================================================================
