----------------------------- MODULE Discovery -----------------------------
(***************************************************************************)
(* Who finds whom: the one ranked query behind search, the boards, the     *)
(* scorecard and a contributor's own rank (postgres/search.go,             *)
(* service/discovery.go), over the state they read: what each contributor  *)
(* said of being in the market and when, the scores their pull requests    *)
(* earned and under which rubric, who is staged on a role already, and     *)
(* what has been published or saved.  The queries are operators, each the  *)
(* answer to one request.                                                  *)
(***************************************************************************)
EXTENDS Scoring

CONSTANTS
  Users,         \* contributors
  Hirers,        \* hirer accounts
  Capable,       \* those who may hire
  Shares,        \* the pairs of a hirer and a contributor with one GitHub identity
  Orgs,          \* organisations
  Company,       \* of each hirer; NoCompany for one who is independent
  NoCompany,
  RoleOwners,    \* the organisation of each role: its domain is the roles
  NoRole,        \* a search that is for no role in particular
  Skills,        \* the catalogue
  Dossiers,      \* the scores a contributor's pull requests may have, by skill
  Unscored,      \* the dossier everybody starts with
  NameOrder,     \* where each display name comes in the alphabet
  Anybody,       \* a search that names nobody
  Stated,        \* what each profile says: a set of statements
  Forms,         \* what is typed into a search: a record of the filters given
  Judged,        \* bound on who is ever evaluated
  MaxLinks,      \* bounds on share links, and on what is staged and saved at once
  MaxKept,
  MaxRubric,     \* bound on sweeps
  MaxPerPage,    \* the longest page there is, which is the length of a board
  DefaultPerPage \* and of a page nobody gave a length

ASSUME DiscoveryAssumption ==
  /\ IsFiniteSet(Users) /\ Anybody \notin Users
  /\ NameOrder \in [Users -> Int]
  /\ NoRole \notin DOMAIN RoleOwners
  /\ Capable \subseteq Hirers
  /\ Shares \subseteq Hirers \X Users
  /\ Company \in [Hirers -> Orgs \cup {NoCompany}]
  /\ Unscored \in Dossiers
  /\ Judged \subseteq Users
  /\ MaxRubric \in KnownRubricVersions /\ MaxLinks \in Nat /\ MaxKept \in Nat
  /\ MaxPerPage \in Nat /\ DefaultPerPage \in 1 .. MaxPerPage

VARIABLES
  availability,  \* user_availability: what was said last, and its window
  dossiers,      \* the pull requests scored for each contributor
  judged,        \* rubric of the latest succeeded evaluation, 0 for none
  active,        \* target of the latest sweep
  sweeping,      \* a sweep is in flight
  staged,        \* role_candidates: pairs of a role and a contributor
  saved,         \* saved_searches: an organisation and its question
  links,         \* profile_share_links, in the order they were minted
  reminding      \* whom the reminder job read and has not marked

vars == <<availability, dossiers, judged, active, sweeping, staged, saved, links, reminding>>

\* A window closes, and a reminder is sent, or was sent for an earlier window.
Availability ==
  [status : {"none", "looking", "not_looking"},
   window : {"open", "closing", "lapsed"}, reminded : BOOLEAN]

NeverAsked == [status |-> "none", window |-> "lapsed", reminded |-> FALSE]

SearchQuery ==
  [skills : SeqOf(Skills, 2), minSkill : Int, minOverall : Int, minGeneralist : Int,
   name : Users \cup {Anybody}, inactive : BOOLEAN, says : SUBSET SUBSET UNION Range(Stated),
   forRole : DOMAIN RoleOwners \cup {NoRole}, page : Int, perPage : Int]

-----------------------------------------------------------------------------
(* What is known of one contributor                                        *)

StandingOf(prs) ==
  IF prs = <<>> THEN "none" ELSE IF Len(prs) < PrimaryThreshold THEN "secondary" ELSE "primary"

\* One pass over a dossier: the standings, then both user-level numbers of
\* one list of them.
Standings ==
  [d \in Dossiers |-> [k \in Skills |->
     [standing |-> StandingOf(d[k]), mode |-> "standard",
      score |-> SkillScore(PRComponent(d[k]), 0, "standard")]]]

Held(d) == SelectSeq(SetToSeq(Skills), LAMBDA k : d[k] # <<>>)

SkillStandings(d) == [i \in DOMAIN Held(d) |-> Standings[d][Held(d)[i]]]

UserScores ==
  [d \in Dossiers |-> [overall |-> Overall(SkillStandings(d)),
                       generalist |-> Generalist(SkillStandings(d))]]

\* A figure is null or no less than nothing.
ASSUME ScoresAssumption ==
  \A d \in Dossiers : /\ UserScores[d].overall \in Int /\ UserScores[d].overall >= NoScore
                      /\ UserScores[d].generalist \in Int /\ UserScores[d].generalist >= NoScore

Standing(u, k) == Standings[dossiers[u]][k].standing
SkillScoreOf(u, k) == Standings[dossiers[u]][k].score
OverallOf(u) == UserScores[dossiers[u]].overall
GeneralistOf(u) == UserScores[dossiers[u]].generalist

\* A score no evaluation produced is current, except while a sweep drains.
scoreRubricVersion(u) ==
  IF judged[u] # 0 THEN judged[u] ELSE IF sweeping THEN 0 ELSE active

OptedOut(u) == availability[u].status = "not_looking"

IsActive(u) == availability[u].status # "none" /\ availability[u].window # "lapsed"

Self(h, u) == <<h, u>> \in Shares

\* 1 + those who score higher; a null comes last.
RankAmong(P, score(_), u) == 1 + Cardinality({v \in P : score(v) > score(u)})

-----------------------------------------------------------------------------
(* The ranked query                                                        *)

InPool(u) == availability[u].status = "looking"

\* (Faults: people who opted out keep their rank; a lapsed window loses it.)
RankedWithOptedOut ==
  {u \in Users : availability[u].status # "none" /\ scoreRubricVersion(u) = active}
RankedWithoutLapsed == {u \in Users : InPool(u) /\ IsActive(u) /\ scoreRubricVersion(u) = active}

rankedPopulation == {u \in Users : InPool(u) /\ scoreRubricVersion(u) = active}

PrimaryHolders(k) == {u \in Users : Standing(u, k) = "primary"}

HoldsAll(u, q) ==
  \/ q.skills = <<>>
  \/ Cardinality({k \in Range(q.skills) :
       Standing(u, k) = "primary" /\ SkillScoreOf(u, k) >= q.minSkill}) = Len(q.skills)

\* A minimum is never cleared by a figure that is null.
Clears(score, min) == min = NoScore \/ score >= min

eligible(h, q) ==
  {u \in rankedPopulation :
     /\ ~Self(h, u)
     /\ HoldsAll(u, q)
     /\ Clears(OverallOf(u), q.minOverall)
     /\ Clears(GeneralistOf(u), q.minGeneralist)
     /\ q.name \in {Anybody, u}
     /\ \A answers \in q.says : answers \cap Stated[u] # {}}

alreadyShortlisted(q) == {u \in Users : <<q.forRole, u>> \in staged}

visible(h, q) ==
  {u \in eligible(h, q) \ alreadyShortlisted(q) : IsActive(u) \/ q.inactive \/ q.name # Anybody}

resolveOrdering(q) ==
  IF Len(q.skills) = 1 THEN "skill"
  ELSE IF q.minGeneralist # NoScore THEN "generalist" ELSE "overall"

RankIn(q, u) ==
  CASE resolveOrdering(q) = "skill" ->
         RankAmong(PrimaryHolders(q.skills[1]), LAMBDA v : SkillScoreOf(v, q.skills[1]), u)
    [] resolveOrdering(q) = "generalist" -> RankAmong(rankedPopulation, GeneralistOf, u)
    [] resolveOrdering(q) = "overall" -> RankAmong(rankedPopulation, OverallOf, u)

\* (Fault: those already on the role are counted as hidden for being quiet.)
CountedTogether(h, q) ==
  [total |-> Cardinality(visible(h, q)),
   inactiveHidden |-> Cardinality(eligible(h, q)) - Cardinality(visible(h, q)),
   alreadyShortlisted |-> Cardinality(eligible(h, q) \cap alreadyShortlisted(q))]

\* Counted apart, so that an empty page still says how many there are.
counts(h, q) ==
  [total |-> Cardinality(visible(h, q)),
   inactiveHidden |-> Cardinality(eligible(h, q) \ alreadyShortlisted(q))
                        - Cardinality(visible(h, q)),
   alreadyShortlisted |-> Cardinality(eligible(h, q) \cap alreadyShortlisted(q))]

-----------------------------------------------------------------------------
(* What a hirer asks.  An answer is a function of the people in it; a      *)
(* refusal has nobody in it.                                               *)

Refused == <<>>

requireHirer(p) == p \in Hirers

RequireHiringCapability(p) == p \in Capable

validateRanges(q) == q.minSkill <= Top /\ q.minOverall <= Top

ownsRole(h, q) == q.forRole = NoRole \/ RoleOwners[q.forRole] = Company[h]

MayAsk(p, q) ==
  /\ requireHirer(p) /\ RequireHiringCapability(p)
  /\ validateRanges(q) /\ ownsRole(p, q) /\ q.perPage <= MaxPerPage

\* In the order of their ranks and then of their names.
Before(rank, u) ==
  {v \in DOMAIN rank : \/ rank[v] < rank[u]
                       \/ rank[v] = rank[u] /\ NameOrder[v] < NameOrder[u]}

Rows(offset, limit) == offset .. offset + limit - 1

PageIn(rank, page, perPage) ==
  Restrict(rank, {u \in DOMAIN rank :
                    Cardinality(Before(rank, u)) \in Rows((page - 1) * perPage, perPage)})

PageOf(h, q) ==
  PageIn([u \in visible(h, q) |-> RankIn(q, u)],
         IF q.page <= 0 THEN 1 ELSE q.page,
         IF q.perPage <= 0 THEN DefaultPerPage ELSE q.perPage)

Search(p, q) == IF MayAsk(p, q) THEN PageOf(p, q) ELSE Refused

\* The pages that ORDER BY key LIMIT OFFSET may give: rows with one key come
\* in any order, another one each time they are asked for.
Pages(key, offset, limit) ==
  LET rows == DOMAIN key
      upTo(n, most) == IF n < most THEN n ELSE most
  IN {page \in SUBSET rows :
        \E earlier \in SUBSET (rows \ page) :
          /\ Cardinality(earlier) = upTo(offset, Cardinality(rows))
          /\ Cardinality(page) = upTo(limit, Cardinality(rows \ earlier))
          /\ \A u \in earlier, v \in rows \ earlier : key[u] <= key[v]
          /\ \A u \in page, v \in rows \ (earlier \cup page) : key[u] <= key[v]}

InField(scored(_)) == {u \in Users : InPool(u) /\ scored(u) /\ scoreRubricVersion(u) = active}

\* Ties are broken by name.
BoardRank(F, score(_), u) ==
  1 + Cardinality({v \in F : \/ score(v) > score(u)
                             \/ score(v) = score(u) /\ NameOrder[v] < NameOrder[u]})

\* Ranked among the whole field, and then cut: a board is one page.
Boards(F, score(_)) ==
  LET rank == [u \in F |-> BoardRank(F, score, u)]
  IN {Restrict(rank, shown) : shown \in Pages(rank, 0, MaxPerPage)}

OverallField == InField(LAMBDA u : OverallOf(u) # NoScore)
GeneralistField == InField(LAMBDA u : GeneralistOf(u) # NoScore)
SkillField(k) == InField(LAMBDA u : Standing(u, k) = "primary")

leaderboardKinds == {"overall", "generalist", "skill"}

\* The boards it may be answered.
Leaderboard(p, kind, k) ==
  IF ~requireHirer(p) \/ ~RequireHiringCapability(p) THEN {Refused}
  ELSE CASE kind = "skill" -> IF k \notin Skills THEN {Refused}
                              ELSE Boards(SkillField(k), LAMBDA u : SkillScoreOf(u, k))
         [] kind = "generalist" -> Boards(GeneralistField, GeneralistOf)
         [] kind = "overall" -> Boards(OverallField, OverallOf)

\* Among everybody who holds it, those who left the market included.
SkillRank(u, k) == RankAmong(PrimaryHolders(k), LAMBDA v : SkillScoreOf(v, k), u)

\* The skills a row is shown for: those asked about, or all of them.
attachResultSkills(u, q) ==
  [k \in {j \in Skills : Standing(u, j) = "primary" /\ (q.skills = <<>> \/ j \in Range(q.skills))} |->
     SkillRank(u, k)]

\* Secondary skills are shown too, without a rank.
Dossier(u) ==
  [k \in {j \in Skills : Standing(u, j) # "none"} |->
     [rank |-> IF Standing(u, k) = "primary" THEN SkillRank(u, k) ELSE NoScore,
      evidence |-> Descending(dossiers[u][k])]]

\* Anybody in the market but oneself; a lapsed window hides nothing here.
Scorecard(p, u) ==
  IF requireHirer(p) /\ RequireHiringCapability(p) /\ ~Self(p, u) /\ InPool(u)
  THEN [v \in {u} |-> Dossier(v)]
  ELSE Refused

\* By a live link, to anybody.
ResolveToken(l) == {u \in Users : links[l].live /\ links[l].user = u}

\* Their evidence, not their position.
PublicScorecard(l) ==
  [u \in {v \in ResolveToken(l) : InPool(v)} |->
     [k \in DOMAIN Dossier(u) |-> [Dossier(u)[k] EXCEPT !.rank = NoScore]]]

-----------------------------------------------------------------------------
(* What a contributor is told                                              *)

\* A position, and nobody else's.
Rank(u) ==
  IF OptedOut(u) \/ u \notin rankedPopulation \/ OverallOf(u) = NoScore
  THEN NoScore
  ELSE RankAmong(rankedPopulation, OverallOf, u)

\* In one skill the field is everybody in the market who holds it.
MySkillRank(u, k) ==
  IF OptedOut(u) \/ Standing(u, k) # "primary"
  THEN NoScore
  ELSE RankAmong({v \in PrimaryHolders(k) : InPool(v)}, LAMBDA v : SkillScoreOf(v, k), u)

\* (Fault: a window that ran out blocks nothing.)
ReadinessUntimed(u) ==
  (IF availability[u].status = "none" THEN {"never_answered"} ELSE {})
    \cup (IF OptedOut(u) THEN {"opted_out"} ELSE {})
    \cup (IF OverallOf(u) = NoScore THEN {"no_score"} ELSE {})

\* The blocking items; the others are advice.
readiness(u) ==
  (IF availability[u].status = "none" THEN {"never_answered"}
   ELSE IF OptedOut(u) THEN {"opted_out"}
   ELSE IF ~IsActive(u) THEN {"lapsed"} ELSE {})
    \cup (IF OverallOf(u) = NoScore THEN {"no_score"} ELSE {})

Findable(u) == readiness(u) = {}

\* The rubric a contributor's scores carry, and whether it was superseded.
MySkills(u) ==
  [standing |-> [k \in Skills |-> Standing(u, k)],
   rubric |-> IF judged[u] = 0 THEN active ELSE judged[u],
   stale |-> judged[u] \notin {0, active}]

-----------------------------------------------------------------------------
(* Contributors                                                            *)

SetAvailability(u, status) ==
  /\ availability' = [availability EXCEPT
       ![u] = [status |-> status, window |-> "open", reminded |-> FALSE]]
  /\ UNCHANGED <<dossiers, judged, active, sweeping, staged, saved, links, reminding>>

Mint(u) ==
  Append([l \in DOMAIN links |-> IF links[l].user = u THEN [links[l] EXCEPT !.live = FALSE]
                                 ELSE links[l]],
         [user |-> u, live |-> TRUE])

MintShareLink(u) ==
  /\ Len(links) < MaxLinks
  /\ links' = Mint(u)
  /\ UNCHANGED <<availability, dossiers, judged, active, sweeping, staged, saved, reminding>>

RevokeShareLink(u, l) ==
  /\ links[l].live /\ links[l].user = u
  /\ links' = [links EXCEPT ![l].live = FALSE]
  /\ UNCHANGED <<availability, dossiers, judged, active, sweeping, staged, saved, reminding>>

-----------------------------------------------------------------------------
(* Hirers                                                                  *)

\* An unknown skill and a range nobody meets are refused on the way in.
validateFilters(q) == validateRanges(q) /\ Range(q.skills) \subseteq Skills

SaveSearch(p, q) ==
  /\ requireHirer(p) /\ RequireHiringCapability(p) /\ Company[p] # NoCompany
  /\ validateFilters(q) /\ Cardinality(saved) < MaxKept
  /\ saved' = saved \cup {<<Company[p], q>>}
  /\ UNCHANGED <<availability, dossiers, judged, active, sweeping, staged, links, reminding>>

SavedSearches(p) ==
  IF requireHirer(p) /\ RequireHiringCapability(p) THEN {s \in saved : s[1] = Company[p]} ELSE {}

DeleteSavedSearch(p, s) ==
  /\ s \in SavedSearches(p)
  /\ saved' = saved \ {s}
  /\ UNCHANGED <<availability, dossiers, judged, active, sweeping, staged, links, reminding>>

\* A question, asked again by whoever replays it.
ReplaySavedSearch(p, s) == IF s \in SavedSearches(p) THEN Search(p, s[2]) ELSE Refused

\* Anybody but oneself, the ones no search would show included.
Stage(h, r, u) ==
  /\ RequireHiringCapability(h) /\ RoleOwners[r] = Company[h]
  /\ ~Self(h, u) /\ <<r, u>> \notin staged
  /\ Cardinality(staged) < MaxKept
  /\ staged' = staged \cup {<<r, u>>}
  /\ UNCHANGED <<availability, dossiers, judged, active, sweeping, saved, links, reminding>>

Unstage(h, r, u) ==
  /\ RequireHiringCapability(h) /\ RoleOwners[r] = Company[h] /\ <<r, u>> \in staged
  /\ staged' = staged \ {<<r, u>>}
  /\ UNCHANGED <<availability, dossiers, judged, active, sweeping, saved, links, reminding>>

-----------------------------------------------------------------------------
(* Evaluation, sweeps and time                                             *)

Evaluate(u) ==
  /\ u \in Judged
  /\ \E d \in Dossiers : dossiers' = [dossiers EXCEPT ![u] = d]
  /\ judged' = [judged EXCEPT ![u] = active]
  /\ UNCHANGED <<availability, active, sweeping, staged, saved, links, reminding>>

Sweep ==
  /\ ~sweeping /\ active < MaxRubric
  /\ active' = active + 1 /\ sweeping' = TRUE
  /\ UNCHANGED <<availability, dossiers, judged, staged, saved, links, reminding>>

CompleteSweep ==
  /\ sweeping /\ sweeping' = FALSE
  /\ UNCHANGED <<availability, dossiers, judged, active, staged, saved, links, reminding>>

\* The window of somebody who opted out changes no answer.
DaysPass(u) ==
  /\ InPool(u) /\ IsActive(u)
  /\ availability' = [availability EXCEPT
       ![u].window = IF @ = "open" THEN "closing" ELSE "lapsed",
       ![u].reminded = @ /\ availability[u].window = "open"]
  /\ UNCHANGED <<dossiers, judged, active, sweeping, staged, saved, links, reminding>>

LapsingSoon ==
  {u \in Users : InPool(u) /\ availability[u].window = "closing" /\ ~availability[u].reminded}

\* The job reads, mails each, and marks them all; a failure marks none.
ExpireAvailability ==
  /\ reminding = {} /\ LapsingSoon # {}
  /\ reminding' = LapsingSoon
  /\ UNCHANGED <<availability, dossiers, judged, active, sweeping, staged, saved, links>>

MarkReminded ==
  /\ reminding # {}
  /\ \/ availability' = [u \in Users |-> IF u \in reminding
                                         THEN [availability[u] EXCEPT !.reminded = TRUE]
                                         ELSE availability[u]]
     \/ UNCHANGED availability
  /\ reminding' = {}
  /\ UNCHANGED <<dossiers, judged, active, sweeping, staged, saved, links>>

-----------------------------------------------------------------------------
Init ==
  /\ availability = [u \in Users |-> NeverAsked]
  /\ dossiers = [u \in Users |-> Unscored]
  /\ judged = [u \in Users |-> 0]
  /\ active = 1 /\ sweeping = FALSE
  /\ staged = {} /\ saved = {} /\ links = <<>> /\ reminding = {}
=============================================================================
