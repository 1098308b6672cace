------------------------ MODULE DiscoveryProperties ------------------------
(* What hirers and contributors may conclude from the answers they get.    *)
EXTENDS DiscoveryRequests

TypeOK ==
  /\ availability \in [Users -> Availability]
  /\ dossiers \in [Users -> Dossiers] /\ judged \in [Users -> 0 .. MaxRubric]
  /\ active \in 1 .. MaxRubric /\ sweeping \in BOOLEAN
  /\ staged \subseteq (DOMAIN RoleOwners) \X Users
  /\ saved \subseteq Orgs \X {parseFilters(form) : form \in Forms}
  /\ links \in Seq([user : Users, live : BOOLEAN]) /\ Len(links) <= MaxLinks
  /\ reminding \subseteq Users

\* A contributor has one live link at most: minting ends the one before it.
OneLiveLink ==
  \A l, m \in DOMAIN links :
    links[l].live /\ links[m].live /\ links[l].user = links[m].user => l = m

DiscoveryInvariant == TypeOK /\ OneLiveLink

\* What hirers ask and are answered, as the services see it.
Queries == {parseSearchQuery(form) : form \in {f \in Forms : WellFormedQuery(f)}}

Asked == {a \in Hirers \X Queries : MayAsk(a[1], a[2])}

\* A page of everybody, and another page of one question.
Everybody(n) == [page |-> n]
Turned(q, n) == [q EXCEPT !.page = n]

Above(B, score(_), u) == 1 + Cardinality({v \in B : score(v) > score(u)})

(* One contributor has one rank, wherever it is read: search, the board    *)
(* and their own screen agree but for ties, through opt-outs, lapses and a *)
(* sweep that drains, and nobody is ranked on numbers their own screen     *)
(* calls stale (rankedPopulation, Leaderboard, Rank, MySkills).  A board   *)
(* is cut at MaxPerPage: whoever it leaves out comes after a full page of  *)
(* others, and up to that rank whoever fills a gap in a search is on it.   *)
(* In one skill there are three fields, the board's, the contributor's and *)
(* the hirer's, each wider than the one before: the position only gets     *)
(* worse, and a search says what the dossier says (MySkillRank, SkillRank).*)
RanksAgree ==
  LET boards == Boards(OverallField, OverallOf)
      cards == [u \in Users |-> Dossier(u)]
  IN
  /\ \A u \in Users : MySkills(u).stale => Rank(u) = NoScore
  /\ \A u \in OverallField : Rank(u) = Above(OverallField, OverallOf, u)
  /\ \A board \in boards :
       /\ \A u \in DOMAIN board :
            /\ board[u] >= Rank(u)
            /\ board[u] < Rank(u) + Cardinality({v \in OverallField : OverallOf(v) = OverallOf(u)})
       /\ \A u \in OverallField \ DOMAIN board :
            /\ Cardinality(DOMAIN board) = MaxPerPage
            /\ \A v \in DOMAIN board : OverallOf(v) >= OverallOf(u)
  /\ \A k \in Skills : \A u \in SkillField(k) :
       /\ Above(SkillField(k), LAMBDA v : SkillScoreOf(v, k), u) <= MySkillRank(u, k)
       /\ MySkillRank(u, k) <= cards[u][k].rank
  /\ \A a \in Asked :
       LET found == Search(a[1], a[2])  by == resolveOrdering(a[2]) IN
       \A u \in DOMAIN found :
         LET shown == attachResultSkills(u, a[2]) IN
         /\ by = "overall" =>
              /\ found[u] = Above(OverallField, OverallOf, u)
              /\ found[u] <= MaxPerPage =>
                   \A board \in boards : found[u] = Above(DOMAIN board, OverallOf, u)
         /\ by = "generalist" => found[u] = Above(GeneralistField, GeneralistOf, u)
         /\ \A k \in DOMAIN shown :
              /\ shown[k] = cards[u][k].rank
              /\ by = "skill" => found[u] = cards[u][k].rank

(* What service/discovery.go:163 and postgres/search.go:489 say, and the   *)
(* program does not do: "Boards show EVERYONE".  A board has the length of *)
(* one page and no second one, so that behind MaxPerPage others nobody     *)
(* fills a gap.  Stated for the record: no run checks it.                  *)
BoardShowsEveryone ==
  \A board \in Boards(OverallField, OverallOf) : DOMAIN board = OverallField

\* Everybody whom some answer to p is about, but for p's own screens.
SeenBy(p) ==
  UNION ({DOMAIN search(p, form) : form \in Forms}
           \cup {DOMAIN scorecard(p, u) : u \in Users}
           \cup {DOMAIN replaySavedSearch(p, s) : s \in savedSearches(p)})

OnABoardOf(p) ==
  UNION {DOMAIN board : board \in UNION {leaderboard(p, kind, k) :
                                            kind \in leaderboardKinds, k \in Skills}}

(* Somebody who opted out, or never came into the market, is in no answer  *)
(* to anybody: no search, saved or not, no board, no dossier by id or by   *)
(* a link they published before.  Nobody but a hirer who may hire is       *)
(* answered at all, and no hirer finds themselves, whatever is typed and   *)
(* whoever replays it (require, RequireHiringCapability, AssertNotSelf,    *)
(* rankedPopulation, Scorecard).                                           *)
OptedOutIsNowhere ==
  /\ \A p \in Callers :
       LET seen == SeenBy(p)  listed == OnABoardOf(p) IN
       /\ \A u \in seen \cup listed : InPool(u) /\ p \in Capable
       /\ \A u \in seen : ~Self(p, u)
  /\ \A l \in DOMAIN links : \A u \in DOMAIN publicScorecard(l) :
       /\ InPool(u)
       /\ \A m \in DOMAIN links : m > l => u \notin DOMAIN publicScorecard(m)

\* The searches that ask for one part of an advert's bar each.
PartsOf(o) ==
  {[minOverall |-> o.minOverall, minGeneralist |-> o.minGeneralist]}
    \cup {[skills |-> <<s.skill>>, minSkill |-> s.min] : s \in Range(o.skills)}

\* Two people of one rank and one name have no order between them.
NamesDiffer == \A u, v \in Users : NameOrder[u] = NameOrder[v] => u = v

FoundBy(h, u) == \E n \in 1 .. Cardinality(Users) : u \in DOMAIN search(h, Everybody(n))

(* What the profile screen says of being findable is true, and an advert   *)
(* asks what a search asks.  While the rubric that judged them is the      *)
(* active one, whom the screen calls findable is found by every hirer but  *)
(* themselves; whom it tells that they never answered, left or lapsed is   *)
(* found by none; the one blocker that blocks nothing is no_score.  And    *)
(* whoever is found clears an advert's bar exactly when searches of its    *)
(* company with the same minimums would find them (readiness, eligibleCTE, *)
(* clearedOpenings).                                                       *)
FindableIsFound ==
  \A h \in Capable, u \in Users :
    NamesDiffer /\ ~Self(h, u) /\ scoreRubricVersion(u) = active =>
      /\ Findable(u) => FoundBy(h, u)
      /\ readiness(u) \cap {"never_answered", "opted_out", "lapsed"} # {} => ~FoundBy(h, u)
      /\ readiness(u) = {"no_score"} => FoundBy(h, u)
      /\ FoundBy(h, u) =>
           \A o \in {a \in Adverts : RoleOwners[a.role] = Company[h]} :
             ClearsBar(u, o) <=> /\ Clears(Wants[u].years, o.minYears)
                                /\ \A form \in PartsOf(o) : u \in visible(h, parseSearchQuery(form))

(* What service/profile.go:332-338 says, and the program does not do:      *)
(* somebody unscored is told they "appear in no result anywhere", for a    *)
(* clause `WHERE u.overall_score IS NOT NULL` that search.go:45-62 does    *)
(* not have; and during a sweep somebody is told they are findable while   *)
(* their scores wait for the new rubric.  Stated for the record: no run    *)
(* checks it.                                                              *)
FindableMeansFound ==
  \A h \in Capable, u \in Users : ~Self(h, u) => (FoundBy(h, u) <=> Findable(u))

\* Nothing orders two roles opened at one moment.
MomentsDiffer(openings) == \A o, other \in openings : o.opened = other.opened => o = other

(* A hirer can act on each count: its pages hold each of the people it     *)
(* counts once, as far as rank and name order them, the toggle shows as    *)
(* many more as were said to be hidden for being quiet, and leaving the    *)
(* role out as many as were said to be on it already (counts, visibleCTE,  *)
(* Search).  A contributor reads as many pages as adverts were counted and *)
(* none that is out of reach; where no two were opened at one moment each  *)
(* is on a page of its own, whichever way the pages come out (Matching).   *)
CountsAreKept ==
  /\ \A u \in Users :
       LET reach == clearedOpenings(u, Adverts)
           Answers(n) == myOpenings(u, Adverts, [limit |-> 1, offset |-> n])
       IN /\ \A n \in 0 .. Cardinality(reach) : \A answer \in Answers(n) :
               /\ answer.counts.matched = Cardinality(reach)
               /\ answer.openings \subseteq reach
               /\ Cardinality(answer.openings) = IF n < Cardinality(reach) THEN 1 ELSE 0
          /\ MomentsDiffer(reach) =>
               \A o \in reach : \E n \in 0 .. Cardinality(reach) - 1 :
                 \A answer \in Answers(n) : answer.openings = {o}
  /\ \A a \in Asked :
    LET h == a[1]  q == a[2]  told == counts(h, q)
        OnPage(n) == DOMAIN Search(h, Turned(q, n))
    IN
    /\ NamesDiffer =>
         /\ Cardinality(UNION {OnPage(n) : n \in 1 .. Cardinality(Users)}) = told.total
         /\ \A n \in 1 .. Cardinality(Users) :
              /\ Cardinality(OnPage(n)) <= q.perPage
              /\ OnPage(n) = {} <=> told.total <= (n - 1) * q.perPage
    /\ counts(h, [q EXCEPT !.inactive = TRUE]).total = told.total + told.inactiveHidden
    /\ counts(h, [q EXCEPT !.inactive = TRUE, !.forRole = NoRole]).total
         = told.total + told.inactiveHidden + told.alreadyShortlisted

Extends(d, e) == \A k \in Skills : IsPrefix(d[k], e[k])

(* A judgement that adds pull requests to a skill and takes none away      *)
(* never lowers the skill: a weak sixth one is not averaged in             *)
(* (PRComponent).                                                          *)
MoreNeverCosts ==
  [][\A u \in Users :
       dossiers'[u] # dossiers[u] /\ Extends(dossiers[u], dossiers'[u]) =>
         \A k \in Skills : SkillScoreOf(u, k)' >= SkillScoreOf(u, k)]_vars
=============================================================================
