--------------------------- MODULE DiscoveryProofs ---------------------------
(***************************************************************************)
(* What hirers and contributors may conclude from an answer, for any       *)
(* contributors, hirers, skills, searches and adverts, however many: who   *)
(* is in none, that who is findable is found, that counts are kept by the  *)
(* pages under them, and that a rank is one wherever it is read.           *)
(***************************************************************************)
EXTENDS DiscoveryProperties, FiniteSetTheorems, SequenceTheorems, TLAPS

-----------------------------------------------------------------------------
(* The state                                                               *)

Link == [user : Users, live : BOOLEAN]

\* The links as rows.
LEMMA LinkRows ==
  ASSUME TypeOK
  PROVE  /\ links \in Seq(Link) /\ Len(links) \in Nat /\ DOMAIN links = 1 .. Len(links)
         /\ \A l \in DOMAIN links : links[l] \in Link
<1>1. links \in Seq(Link) BY DEF TypeOK, Link
<1> QED BY <1>1, LenProperties, ElementOfSeq

\* Rows that are changed in place stay rows.
LEMMA LinksMapped ==
  ASSUME TypeOK, NEW t, t = [l \in DOMAIN links |-> t[l]],
         \A l \in DOMAIN links : t[l] \in Link
  PROVE  t \in Seq(Link) /\ Len(t) = Len(links) /\ DOMAIN t = DOMAIN links
<1>1. PICK n : n = Len(links) OBVIOUS
<1>2. n \in Nat /\ DOMAIN links = 1 .. n BY <1>1, LinkRows
<1>3. t = [i \in 1 .. n |-> t[i]] /\ \A i \in 1 .. n : t[i] \in Link BY <1>2
<1>4. t \in Seq(Link) BY <1>2, <1>3, IsASeq
<1>5. DOMAIN t = 1 .. n BY <1>3
<1>6. Len(t) = n BY <1>2, <1>4, <1>5, LenProperties
<1> QED BY <1>1, <1>2, <1>4, <1>5, <1>6

\* A new link ends those its contributor had before (ShareLinkRepository.Mint).
LEMMA MintStep ==
  ASSUME DiscoveryInvariant, NEW u \in Users, MintShareLink(u)
  PROVE  DiscoveryInvariant'
<1> DEFINE t == [l \in DOMAIN links |-> IF links[l].user = u THEN [links[l] EXCEPT !.live = FALSE]
                                        ELSE links[l]]
           new == [user |-> u, live |-> TRUE]
<1>1. TypeOK /\ OneLiveLink BY DEF DiscoveryInvariant
<1>2. \A l \in DOMAIN links : links[l] \in Link BY <1>1, LinkRows
<1>3. \A l \in DOMAIN links : /\ t[l] \in Link /\ t[l].user = links[l].user
                              /\ t[l].live <=> links[l].live /\ links[l].user # u
  <2> SUFFICES ASSUME NEW l \in DOMAIN links
               PROVE  /\ t[l] \in Link /\ t[l].user = links[l].user
                      /\ t[l].live <=> links[l].live /\ links[l].user # u
    OBVIOUS
  <2>1. CASE links[l].user = u
    <3>1. t[l] = [user |-> u, live |-> FALSE] BY <1>2, <2>1 DEF Link
    <3> QED BY <1>2, <2>1, <3>1 DEF Link
  <2>2. CASE links[l].user # u
    <3>1. t[l] = links[l] BY <2>2
    <3> QED BY <1>2, <2>2, <3>1
  <2> QED BY <2>1, <2>2
<1>4. links' = Append(t, new) BY DEF MintShareLink, Mint
<1>5. t = [l \in DOMAIN links |-> t[l]] OBVIOUS
<1> HIDE DEF t, new
<1>6. t \in Seq(Link) /\ Len(t) = Len(links) /\ DOMAIN t = DOMAIN links
  BY <1>1, <1>3, <1>5, LinksMapped
<1>7. new \in Link /\ new.user = u BY DEF new, Link
<1>8. PICK n : n = Len(links) OBVIOUS
<1>9. n \in Nat /\ DOMAIN links = 1 .. n BY <1>1, <1>8, LinkRows
<1>10. /\ links' \in Seq(Link) /\ Len(links') = n + 1
       /\ \A l \in 1 .. n : links'[l] = t[l]
       /\ links'[n + 1] = new
  BY <1>4, <1>6, <1>7, <1>8, AppendProperties
<1>11. DOMAIN links' = 1 .. n + 1 BY <1>10, LenProperties
<1>12. OneLiveLink'
  <2> SUFFICES ASSUME NEW l \in 1 .. n + 1, NEW m \in 1 .. n + 1,
                      links'[l].live, links'[m].live, links'[l].user = links'[m].user
               PROVE  l = m
    BY <1>11 DEF OneLiveLink
  <2>1. l \in 1 .. n \/ l = n + 1 BY <1>9
  <2>2. m \in 1 .. n \/ m = n + 1 BY <1>9
  <2>3. CASE l \in 1 .. n /\ m \in 1 .. n
    <3>1. links'[l] = t[l] /\ links'[m] = t[m] BY <1>10, <2>3
    <3>2. links[l].live /\ links[m].live /\ links[l].user = links[m].user
      BY <1>3, <1>9, <2>3, <3>1
    <3> QED BY <1>1, <1>9, <2>3, <3>2 DEF OneLiveLink
  <2>4. CASE l \in 1 .. n /\ m = n + 1
    <3>1. links'[l] = t[l] /\ links'[m].user = u BY <1>7, <1>10, <2>4
    <3> QED BY <1>3, <1>9, <2>4, <3>1
  <2>5. CASE m \in 1 .. n /\ l = n + 1
    <3>1. links'[m] = t[m] /\ links'[l].user = u BY <1>7, <1>10, <2>5
    <3> QED BY <1>3, <1>9, <2>5, <3>1
  <2> QED BY <2>1, <2>2, <2>3, <2>4, <2>5
<1>13. Len(links') <= MaxLinks
  BY <1>8, <1>9, <1>10, DiscoveryAssumption DEF MintShareLink
<1>14. TypeOK' BY <1>1, <1>10, <1>13 DEF TypeOK, MintShareLink, Link
<1> QED BY <1>12, <1>14 DEF DiscoveryInvariant

\* A link that is revoked is live for nobody (ShareLinkRepository.Revoke).
LEMMA RevokeStep ==
  ASSUME DiscoveryInvariant, NEW u \in Users, NEW l \in DOMAIN links, RevokeShareLink(u, l)
  PROVE  DiscoveryInvariant'
<1>1. TypeOK /\ OneLiveLink BY DEF DiscoveryInvariant
<1>2. \A m \in DOMAIN links : links[m] \in Link BY <1>1, LinkRows
<1>3. links' = [links EXCEPT ![l].live = FALSE] BY DEF RevokeShareLink
<1>4. PICK a \in Link : a = links[l] BY <1>2
<1>5. /\ [a EXCEPT !.live = FALSE] \in Link
      /\ [a EXCEPT !.live = FALSE].user = a.user
      /\ ~[a EXCEPT !.live = FALSE].live
  BY DEF Link
<1>6. \A m \in DOMAIN links : /\ links'[m] \in Link /\ links'[m].user = links[m].user
                              /\ links'[m].live => links[m].live
  <2>1. links' = [links EXCEPT ![l] = [a EXCEPT !.live = FALSE]] BY <1>3, <1>4
  <2> QED BY <1>2, <1>4, <1>5, <2>1
<1>7. links' = [m \in DOMAIN links |-> links'[m]] BY <1>3
<1>8. PICK t : t = links' OBVIOUS
<1>9. t \in Seq(Link) /\ Len(t) = Len(links) /\ DOMAIN t = DOMAIN links
  BY <1>1, <1>6, <1>7, <1>8, LinksMapped
<1>10. OneLiveLink' BY <1>1, <1>6, <1>8, <1>9 DEF OneLiveLink
<1>11. TypeOK' BY <1>1, <1>8, <1>9 DEF TypeOK, RevokeShareLink, Link
<1> QED BY <1>10, <1>11 DEF DiscoveryInvariant

\* Saying where one stands opens a window that nobody was reminded of.
LEMMA AvailabilitySteps ==
  ASSUME DiscoveryInvariant, NEW u \in Users,
         DaysPass(u) \/ \E status \in {"looking", "not_looking"} : SetAvailability(u, status)
  PROVE  DiscoveryInvariant'
<1>1. TypeOK /\ OneLiveLink BY DEF DiscoveryInvariant
<1>2. availability[u] \in Availability BY <1>1 DEF TypeOK
<1>3. availability' \in [Users -> Availability]
  <2>1. CASE DaysPass(u)
    <3>1. PICK w \in {"closing", "lapsed"}, b \in BOOLEAN :
            availability' = [availability EXCEPT ![u].window = w, ![u].reminded = b]
      BY <1>2, <2>1 DEF DaysPass, Availability
    <3> QED BY <1>1, <1>2, <3>1 DEF TypeOK, Availability
  <2>2. ASSUME NEW status \in {"looking", "not_looking"}, SetAvailability(u, status)
        PROVE  availability' \in [Users -> Availability]
    BY <1>1, <2>2 DEF TypeOK, SetAvailability, Availability
  <2> QED BY <2>1, <2>2
<1>4. UNCHANGED <<dossiers, judged, active, sweeping, staged, saved, links, reminding>>
  BY DEF DaysPass, SetAvailability
<1> QED BY <1>1, <1>3, <1>4 DEF DiscoveryInvariant, TypeOK, OneLiveLink

\* Who is reminded is marked, or nobody is.
LEMMA ReminderSteps ==
  ASSUME DiscoveryInvariant, ExpireAvailability \/ MarkReminded
  PROVE  DiscoveryInvariant'
<1>1. TypeOK /\ OneLiveLink BY DEF DiscoveryInvariant
<1>2. \A v \in Users : /\ availability[v] \in Availability
                       /\ [availability[v] EXCEPT !.reminded = TRUE] \in Availability
  BY <1>1 DEF TypeOK, Availability
<1>3. availability' \in [Users -> Availability] /\ reminding' \subseteq Users
  BY <1>1, <1>2 DEF TypeOK, ExpireAvailability, MarkReminded, LapsingSoon
<1>4. UNCHANGED <<dossiers, judged, active, sweeping, staged, saved, links>>
  BY DEF ExpireAvailability, MarkReminded
<1> QED BY <1>1, <1>3, <1>4 DEF DiscoveryInvariant, TypeOK, OneLiveLink

\* Judgements carry the rubric in force, and sweeps move it on within its bound.
LEMMA JudgementSteps ==
  ASSUME DiscoveryInvariant, Sweep \/ CompleteSweep \/ \E u \in Users : Evaluate(u)
  PROVE  DiscoveryInvariant'
<1>1. TypeOK /\ OneLiveLink BY DEF DiscoveryInvariant
<1>2. MaxRubric \in Nat BY DiscoveryAssumption DEF KnownRubricVersions
<1>3. active \in 0 .. MaxRubric BY <1>1, <1>2 DEF TypeOK
<1>4. dossiers' \in [Users -> Dossiers] /\ judged' \in [Users -> 0 .. MaxRubric]
  BY <1>1, <1>3 DEF TypeOK, Sweep, CompleteSweep, Evaluate
<1>5. active' \in 1 .. MaxRubric /\ sweeping' \in BOOLEAN
  <2>1. active \in 1 .. MaxRubric /\ sweeping \in BOOLEAN BY <1>1 DEF TypeOK
  <2>2. Sweep => active' = active + 1 /\ active < MaxRubric /\ sweeping' = TRUE BY DEF Sweep
  <2>3. CompleteSweep => active' = active /\ sweeping' = FALSE BY DEF CompleteSweep
  <2>4. (\E u \in Users : Evaluate(u)) => active' = active /\ sweeping' = sweeping BY DEF Evaluate
  <2>5. active' \in 1 .. MaxRubric BY <1>2, <2>1, <2>2, <2>3, <2>4
  <2> QED BY <2>1, <2>2, <2>3, <2>4, <2>5
<1>6. UNCHANGED <<availability, staged, saved, links, reminding>>
  BY DEF Sweep, CompleteSweep, Evaluate
<1> QED BY <1>1, <1>4, <1>5, <1>6 DEF DiscoveryInvariant, TypeOK, OneLiveLink

\* What is kept is a company's question, and who is staged is on a role there is.
LEMMA HirerSteps ==
  ASSUME DiscoveryInvariant, NEW p \in Callers,
         \/ \E form \in Forms : saveSearch(p, form)
         \/ \E s \in saved : deleteSavedSearch(p, s)
         \/ \E r \in DOMAIN RoleOwners, u \in Users : Stage(p, r, u) \/ Unstage(p, r, u)
  PROVE  DiscoveryInvariant'
<1>1. TypeOK /\ OneLiveLink BY DEF DiscoveryInvariant
<1>2. saved' \subseteq Orgs \X {parseFilters(form) : form \in Forms}
  <2>1. ASSUME NEW form \in Forms, saveSearch(p, form)
        PROVE  saved' \subseteq Orgs \X {parseFilters(f) : f \in Forms}
    <3>1. Company[p] \in Orgs
      BY <2>1, DiscoveryAssumption DEF saveSearch, SaveSearch, require
    <3>2. saved' = saved \cup {<<Company[p], parseFilters(form)>>}
      BY <2>1 DEF saveSearch, SaveSearch
    <3> QED BY <1>1, <3>1, <3>2 DEF TypeOK
  <2>2. (\E s \in saved : deleteSavedSearch(p, s)) => saved' \subseteq saved
    BY DEF deleteSavedSearch, DeleteSavedSearch
  <2>3. (\E r \in DOMAIN RoleOwners, u \in Users : Stage(p, r, u) \/ Unstage(p, r, u))
          => saved' = saved
    BY DEF Stage, Unstage
  <2> QED BY <1>1, <2>1, <2>2, <2>3 DEF TypeOK
<1>3. staged' \subseteq (DOMAIN RoleOwners) \X Users
  <2>1. \/ staged' \subseteq staged
        \/ \E r \in DOMAIN RoleOwners, u \in Users : staged' = staged \cup {<<r, u>>}
    BY DEF saveSearch, SaveSearch, deleteSavedSearch, DeleteSavedSearch, Stage, Unstage
  <2> QED BY <1>1, <2>1 DEF TypeOK
<1>4. UNCHANGED <<availability, dossiers, judged, active, sweeping, links, reminding>>
  BY DEF saveSearch, SaveSearch, deleteSavedSearch, DeleteSavedSearch, Stage, Unstage
<1> QED BY <1>1, <1>2, <1>3, <1>4 DEF DiscoveryInvariant, TypeOK, OneLiveLink

\* Discovery starts with nothing said, scored, kept or published.
LEMMA InitDiscovery == Init => DiscoveryInvariant
<1> SUFFICES ASSUME Init PROVE DiscoveryInvariant OBVIOUS
<1>1. MaxRubric \in {1, 2} BY DiscoveryAssumption DEF KnownRubricVersions
<1>2. /\ links = <<>> /\ links \in Seq([user : Users, live : BOOLEAN])
      /\ Len(links) = 0 /\ DOMAIN links = {}
  BY EmptySeq DEF Init
<1>3. NeverAsked \in Availability BY DEF NeverAsked, Availability
<1>4. 0 \in 0 .. MaxRubric /\ 1 \in 1 .. MaxRubric BY <1>1
<1>5. Len(links) <= MaxLinks BY <1>2, DiscoveryAssumption
<1>6. judged \in [Users -> 0 .. MaxRubric] /\ active \in 1 .. MaxRubric BY <1>4 DEF Init
<1>7. availability \in [Users -> Availability] /\ dossiers \in [Users -> Dossiers]
  BY <1>3, DiscoveryAssumption DEF Init
<1>8. TypeOK BY <1>2, <1>5, <1>6, <1>7 DEF Init, TypeOK
<1> QED BY <1>2, <1>8 DEF DiscoveryInvariant, OneLiveLink

\* Every request and every step of the clock keeps the invariant.
LEMMA StepDiscovery == DiscoveryInvariant /\ [Next]_vars => DiscoveryInvariant'
<1> SUFFICES ASSUME DiscoveryInvariant, [Next]_vars PROVE DiscoveryInvariant' OBVIOUS
<1>1. ASSUME NEW p \in Callers, Request(p) PROVE DiscoveryInvariant'
  <2>1. CASE \E status \in {"looking", "not_looking"} : setAvailability(p, status)
    BY <2>1, AvailabilitySteps DEF setAvailability, require
  <2>2. CASE mintShareLink(p) BY <2>2, MintStep DEF mintShareLink, require
  <2>3. CASE \E l \in DOMAIN links : revokeShareLink(p, l)
    BY <2>3, RevokeStep DEF revokeShareLink, require
  <2> QED BY <1>1, <2>1, <2>2, <2>3, HirerSteps DEF Request
<1>2. CASE UNCHANGED vars
  BY <1>2 DEF vars, DiscoveryInvariant, TypeOK, OneLiveLink
<1>3. CASE Step
  BY <1>1, <1>3, AvailabilitySteps, ReminderSteps, JudgementSteps DEF Step
<1> QED BY <1>2, <1>3 DEF Next

\* Every request and every step of the clock keeps each table of its type, and a
\* contributor with one live link at most.
THEOREM DiscoveryIsSound == Spec => []DiscoveryInvariant
BY InitDiscovery, StepDiscovery, PTL DEF Spec

-----------------------------------------------------------------------------
(* Who is in an answer                                                     *)

\* A refusal has nobody in it.
LEMMA NobodyIsRefused == DOMAIN Refused = {}
BY EmptySeq DEF Refused

\* A search answers hirers who may hire, and with others in the market only
\* (SearchRepository.Search, AssertNotSelf).
LEMMA SearchFinds ==
  ASSUME NEW p, NEW q, NEW u \in DOMAIN Search(p, q)
  PROVE  p \in Capable /\ u \in Users /\ InPool(u) /\ ~Self(p, u)
<1>1. CASE MayAsk(p, q)
  <2>1. u \in DOMAIN PageOf(p, q) BY <1>1 DEF Search
  <2>2. u \in visible(p, q) BY <2>1 DEF PageOf, PageIn, Restrict
  <2>3. u \in eligible(p, q) BY <2>2 DEF visible
  <2>4. u \in rankedPopulation /\ ~Self(p, u) BY <2>3 DEF eligible
  <2> QED BY <1>1, <2>4 DEF rankedPopulation, MayAsk, RequireHiringCapability
<1>2. CASE ~MayAsk(p, q) BY <1>2, NobodyIsRefused DEF Search
<1> QED BY <1>1, <1>2

\* A page of some rows keeps what they are ranked by.
LEMMA PageOfRanking ==
  ASSUME NEW rank, NEW offset, NEW limit, NEW shown \in Pages(rank, offset, limit)
  PROVE  /\ shown \in SUBSET DOMAIN rank
         /\ DOMAIN Restrict(rank, shown) = shown
         /\ \A u \in shown : Restrict(rank, shown)[u] = rank[u]
BY DEF Pages, Restrict

\* A board shows people of its field, with their ranks in it (Leaderboard).
LEMMA BoardsOfFields ==
  /\ \A board \in Boards(OverallField, OverallOf) : DOMAIN board \subseteq OverallField
  /\ \A board \in Boards(GeneralistField, GeneralistOf) : DOMAIN board \subseteq GeneralistField
  /\ \A k : \A board \in Boards(SkillField(k), LAMBDA u : SkillScoreOf(u, k)) :
       DOMAIN board \subseteq SkillField(k)
<1>1. ASSUME NEW board \in Boards(OverallField, OverallOf) PROVE DOMAIN board \subseteq OverallField
  <2>1. PICK rank : rank = [u \in OverallField |-> BoardRank(OverallField, OverallOf, u)] OBVIOUS
  <2>2. PICK shown \in Pages(rank, 0, MaxPerPage) : board = Restrict(rank, shown)
    BY <2>1 DEF Boards
  <2> QED BY <2>1, <2>2, PageOfRanking
<1>2. ASSUME NEW board \in Boards(GeneralistField, GeneralistOf)
      PROVE  DOMAIN board \subseteq GeneralistField
  <2>1. PICK rank : rank = [u \in GeneralistField |-> BoardRank(GeneralistField, GeneralistOf, u)]
    OBVIOUS
  <2>2. PICK shown \in Pages(rank, 0, MaxPerPage) : board = Restrict(rank, shown)
    BY <2>1 DEF Boards
  <2> QED BY <2>1, <2>2, PageOfRanking
<1>3. ASSUME NEW k, NEW board \in Boards(SkillField(k), LAMBDA u : SkillScoreOf(u, k))
      PROVE  DOMAIN board \subseteq SkillField(k)
  <2>1. PICK rank : rank = [u \in SkillField(k) |->
                              BoardRank(SkillField(k), LAMBDA v : SkillScoreOf(v, k), u)]
    OBVIOUS
  <2>2. DOMAIN rank = SkillField(k) BY <2>1 DEF BoardRank
  <2>3. PICK shown \in Pages(rank, 0, MaxPerPage) : board = Restrict(rank, shown)
    BY <2>1 DEF Boards
  <2>4. shown \in SUBSET DOMAIN rank /\ DOMAIN board = shown BY <2>3, PageOfRanking
  <2> QED BY <2>2, <2>4
<1> QED BY <1>1, <1>2, <1>3

\* So do the boards (SearchRepository.Leaderboard).
LEMMA BoardShows ==
  ASSUME NEW p, NEW kind \in leaderboardKinds, NEW k \in Skills,
         NEW board \in leaderboard(p, kind, k), NEW u \in DOMAIN board
  PROVE  p \in Capable /\ InPool(u)
<1>1. requireHirer(p) /\ RequireHiringCapability(p) /\ board \in Leaderboard(p, kind, k)
  BY NobodyIsRefused DEF leaderboard, Leaderboard
<1>2. p \in Capable BY <1>1 DEF RequireHiringCapability
<1>3. CASE kind = "skill"
  <2>1. u \in SkillField(k) BY <1>1, <1>3, BoardsOfFields DEF Leaderboard
  <2> QED BY <1>2, <2>1 DEF SkillField, InField
<1>4. CASE kind = "generalist"
  <2>1. u \in GeneralistField BY <1>1, <1>4, BoardsOfFields DEF Leaderboard
  <2> QED BY <1>2, <2>1 DEF GeneralistField, InField
<1>5. CASE kind = "overall"
  <2>1. u \in OverallField BY <1>1, <1>5, BoardsOfFields DEF Leaderboard
  <2> QED BY <1>2, <2>1 DEF OverallField, InField
<1> QED BY <1>3, <1>4, <1>5 DEF leaderboardKinds

\* And the dossier of one person (DiscoveryService.Scorecard).
LEMMA ScorecardShows ==
  ASSUME NEW p, NEW v, NEW u \in DOMAIN scorecard(p, v)
  PROVE  p \in Capable /\ InPool(u) /\ ~Self(p, u)
<1>1. u \in DOMAIN Scorecard(p, v) BY NobodyIsRefused DEF scorecard
<1>2. requireHirer(p) /\ RequireHiringCapability(p) /\ ~Self(p, v) /\ InPool(v)
  BY <1>1, NobodyIsRefused DEF Scorecard
<1>3. u = v BY <1>1, <1>2 DEF Scorecard
<1> QED BY <1>2, <1>3 DEF RequireHiringCapability

\* A link shows the one who minted it, while they are in the market
\* (DiscoveryService.PublicScorecard).
LEMMA LinkShows ==
  ASSUME NEW l, NEW u \in DOMAIN publicScorecard(l)
  PROVE  links[l].live /\ links[l].user = u /\ InPool(u)
<1>1. u \in DOMAIN PublicScorecard(l) BY DEF publicScorecard
<1> QED BY <1>1 DEF PublicScorecard, ResolveToken

\* Somebody who is not in the market is in no answer to anybody, nobody but a
\* hirer who may hire is answered, and no hirer finds themselves.
THEOREM WhoLeftIsNowhere == Spec => []OptedOutIsNowhere
<1>1. DiscoveryInvariant => OptedOutIsNowhere
  <2> SUFFICES ASSUME DiscoveryInvariant PROVE OptedOutIsNowhere OBVIOUS
  <2>1. ASSUME NEW p \in Callers, NEW u \in SeenBy(p)
        PROVE  InPool(u) /\ p \in Capable /\ ~Self(p, u)
    <3>1. CASE \E form \in Forms : u \in DOMAIN search(p, form)
      <4>1. PICK form \in Forms : u \in DOMAIN search(p, form) BY <3>1
      <4>2. u \in DOMAIN Search(p, parseSearchQuery(form)) BY <4>1, NobodyIsRefused DEF search
      <4> QED BY <4>2, SearchFinds
    <3>2. CASE \E v \in Users : u \in DOMAIN scorecard(p, v) BY <3>2, ScorecardShows
    <3>3. CASE \E s \in savedSearches(p) : u \in DOMAIN replaySavedSearch(p, s)
      <4>1. PICK s \in savedSearches(p) : u \in DOMAIN replaySavedSearch(p, s) BY <3>3
      <4>2. u \in DOMAIN Search(p, s[2])
        BY <4>1, NobodyIsRefused DEF replaySavedSearch, ReplaySavedSearch
      <4> QED BY <4>2, SearchFinds
    <3> QED BY <2>1, <3>1, <3>2, <3>3 DEF SeenBy
  <2>2. ASSUME NEW p \in Callers, NEW u \in OnABoardOf(p) PROVE InPool(u) /\ p \in Capable
    BY <2>2, BoardShows DEF OnABoardOf
  <2>3. ASSUME NEW l \in DOMAIN links, NEW u \in DOMAIN publicScorecard(l),
               NEW m \in DOMAIN links, m > l, u \in DOMAIN publicScorecard(m)
        PROVE  FALSE
    <3>1. l \in Nat /\ m \in Nat BY LinkRows DEF DiscoveryInvariant
    <3>2. l = m BY <2>3, LinkShows DEF DiscoveryInvariant, OneLiveLink
    <3> QED BY <2>3, <3>1, <3>2
  <2>4. \A l \in DOMAIN links : \A u \in DOMAIN publicScorecard(l) : InPool(u) BY LinkShows
  <2> QED BY <2>1, <2>2, <2>3, <2>4 DEF OptedOutIsNowhere
<1> QED BY <1>1, DiscoveryIsSound, PTL

-----------------------------------------------------------------------------
(* Places in a ranking                                                     *)

\* Everybody ranked has a place in 0 .. Cardinality(DOMAIN rank) - 1.
LEMMA PlacesAreLow ==
  ASSUME NEW V \in SUBSET Users, NEW rank \in [V -> Int]
  PROVE  /\ IsFiniteSet(V) /\ Cardinality(V) \in Nat /\ Cardinality(V) <= Cardinality(Users)
         /\ \A u \in V : /\ Cardinality(Before(rank, u)) \in Nat
                         /\ Cardinality(Before(rank, u)) < Cardinality(V)
<1>1. IsFiniteSet(V) /\ Cardinality(V) \in Nat /\ Cardinality(V) <= Cardinality(Users)
  BY DiscoveryAssumption, FS_Subset, FS_CardinalityType
<1>2. ASSUME NEW u \in V
      PROVE  Cardinality(Before(rank, u)) \in Nat /\ Cardinality(Before(rank, u)) < Cardinality(V)
  <2>1. NameOrder[u] \in Int /\ rank[u] \in Int BY DiscoveryAssumption
  <2>2. Before(rank, u) \in SUBSET V /\ u \notin Before(rank, u) BY <2>1 DEF Before
  <2>3. IsFiniteSet(Before(rank, u)) /\ Cardinality(Before(rank, u)) <= Cardinality(V)
        /\ (Cardinality(V) = Cardinality(Before(rank, u)) => V = Before(rank, u))
    BY <1>1, <2>2, FS_Subset
  <2>4. Cardinality(Before(rank, u)) \in Nat BY <2>3, FS_CardinalityType
  <2> QED BY <1>1, <2>2, <2>3, <2>4
<1> QED BY <1>1, <1>2

\* Where names differ no two of them have the same place.
LEMMA PlacesDiffer ==
  ASSUME NamesDiffer, NEW V \in SUBSET Users, NEW rank \in [V -> Int],
         NEW u \in V, NEW v \in V,
         Cardinality(Before(rank, u)) = Cardinality(Before(rank, v))
  PROVE  u = v
<1>1. \A x \in V : NameOrder[x] \in Int /\ rank[x] \in Int BY DiscoveryAssumption
<1>2. ASSUME NEW x \in V, NEW y \in V, x \in Before(rank, y)
      PROVE  Cardinality(Before(rank, x)) < Cardinality(Before(rank, y))
  <2>1. Before(rank, x) \in SUBSET Before(rank, y) /\ x \notin Before(rank, x)
    BY <1>1, <1>2 DEF Before
  <2>2. Before(rank, y) \in SUBSET V BY DEF Before
  <2>3. IsFiniteSet(Before(rank, y)) /\ Cardinality(Before(rank, x)) \in Nat
        /\ Cardinality(Before(rank, y)) \in Nat
    BY <2>2, PlacesAreLow, FS_Subset
  <2>4. /\ Cardinality(Before(rank, x)) <= Cardinality(Before(rank, y))
        /\ Cardinality(Before(rank, y)) = Cardinality(Before(rank, x))
             => Before(rank, y) = Before(rank, x)
    BY <2>1, <2>3, FS_Subset
  <2> QED BY <1>2, <2>1, <2>3, <2>4
<1>3. \A x \in V : Cardinality(Before(rank, x)) \in Nat BY PlacesAreLow
<1>4. u \notin Before(rank, v) /\ v \notin Before(rank, u) BY <1>2, <1>3
<1>5. NameOrder[u] = NameOrder[v] BY <1>1, <1>4 DEF Before
<1> QED BY <1>5 DEF NamesDiffer

\* And every place up to the last is somebody's.
LEMMA PlacesAreTaken ==
  ASSUME NamesDiffer, NEW V \in SUBSET Users, NEW rank \in [V -> Int],
         NEW k \in Nat, k < Cardinality(V)
  PROVE  \E u \in V : Cardinality(Before(rank, u)) = k
<1> DEFINE place == [u \in V |-> Cardinality(Before(rank, u))]
           places == 0 .. Cardinality(V) - 1
<1>1. Cardinality(V) \in Nat BY PlacesAreLow
<1>2. place \in [V -> places] BY <1>1, PlacesAreLow
<1>3. \A u, v \in V : place[u] = place[v] => u = v BY PlacesDiffer
<1>4. place \in Injection(V, places) BY <1>2, <1>3 DEF Injection, IsInjective
<1>5. IsFiniteSet(places) /\ Cardinality(places) = Cardinality(V)
  <2>1. PICK m \in Int : m = Cardinality(V) - 1 BY <1>1
  <2>2. IsFiniteSet(0 .. m) /\ Cardinality(0 .. m) = IF 0 > m THEN 0 ELSE m - 0 + 1
    BY FS_Interval
  <2> QED BY <1>1, <2>1, <2>2
<1>6. place \in Surjection(V, places) BY <1>4, <1>5, FS_Injection
<1>7. k \in places BY <1>1
<1>8. \E u \in V : place[u] = k BY <1>6, <1>7 DEF Surjection
<1> QED BY <1>8

\* A page holds no more than its length.
LEMMA PlacesFit ==
  ASSUME NamesDiffer, NEW V \in SUBSET Users, NEW rank \in [V -> Int],
         NEW from \in Int, NEW size \in Nat
  PROVE  Cardinality({u \in V : Cardinality(Before(rank, u)) \in Rows(from, size)}) <= size
<1> DEFINE S == {u \in V : Cardinality(Before(rank, u)) \in Rows(from, size)}
           place == [u \in S |-> Cardinality(Before(rank, u))]
<1>1. place \in [S -> Rows(from, size)] OBVIOUS
<1>2. \A u, v \in S : place[u] = place[v] => u = v BY PlacesDiffer
<1>3. place \in Injection(S, Rows(from, size)) BY <1>1, <1>2 DEF Injection, IsInjective
<1>4. IsFiniteSet(Rows(from, size)) /\ Cardinality(Rows(from, size)) = size
  BY FS_Interval DEF Rows
<1>5. Cardinality(S) <= Cardinality(Rows(from, size)) BY <1>3, <1>4, FS_Injection
<1> QED BY <1>4, <1>5

\* A place is on one of the first pages.
LEMMA PlaceOnPage ==
  ASSUME NEW k \in Nat, NEW size \in Nat \ {0}, NEW last \in Nat, k < last
  PROVE  \E n \in 1 .. last : k \in Rows((n - 1) * size, size)
<1>1. \E m \in 0 .. k : m * size <= k /\ k < m * size + size
  <2>1. PICK m : m = k \div size OBVIOUS
  <2>2. m \in Nat /\ m <= k /\ m * size <= k /\ k < m * size + size BY <2>1
  <2> QED BY <2>2
<1>2. PICK m \in 0 .. k : m * size <= k /\ k < m * size + size BY <1>1
<1>3. m + 1 \in 1 .. last /\ (m + 1) - 1 = m /\ m * size \in Int BY <1>2
<1>4. k \in Rows(((m + 1) - 1) * size, size) BY <1>2, <1>3 DEF Rows
<1> QED BY <1>3, <1>4

-----------------------------------------------------------------------------
(* Questions and their pages                                               *)

\* A question with every filter in it, given or not.
Complete(q) == knownFilters \subseteq DOMAIN q

\* Every field of what is read of a form (parseSearchQuery).
LEMMA ParsedFields ==
  ASSUME NEW form
  PROVE  /\ Complete(parseFilters(form))
         /\ DOMAIN parseSearchQuery(form) = DOMAIN parseFilters(form)
         /\ \A f \in knownFilters : 
              /\ parseFilters(form)[f] = IF f \in DOMAIN form THEN form[f] ELSE Ungiven[f]
              /\ f \notin {"page", "perPage"} => parseSearchQuery(form)[f] = parseFilters(form)[f]
         /\ parseSearchQuery(form).page = atoiDefault(parseFilters(form).page, 1)
         /\ parseSearchQuery(form).perPage = atoiDefault(parseFilters(form).perPage, DefaultPerPage)
<1>1. {"page", "perPage"} \subseteq knownFilters BY DEF knownFilters, Ungiven
<1> DEFINE g == parseFilters(form)
<1>2. DOMAIN g = knownFilters \cup DOMAIN form
  BY DEF parseFilters
<1>3. \A f \in knownFilters : g[f] = IF f \in DOMAIN form THEN form[f] ELSE Ungiven[f]
  BY DEF parseFilters
<1> HIDE DEF g
<1>4. parseSearchQuery(form)
        = [g EXCEPT !.page = atoiDefault(@, 1), !.perPage = atoiDefault(@, DefaultPerPage)]
  BY DEF parseSearchQuery, g
<1>5. \A f \in knownFilters : f \notin {"page", "perPage"} => parseSearchQuery(form)[f] = g[f]
  BY <1>2, <1>4
<1>6. /\ parseSearchQuery(form).page = atoiDefault(g.page, 1)
      /\ parseSearchQuery(form).perPage = atoiDefault(g.perPage, DefaultPerPage)
  BY <1>1, <1>2, <1>4
<1> QED BY <1>2, <1>3, <1>4, <1>5, <1>6 DEF Complete, g

\* What a search asks besides the page decides whom it finds and where.
LEMMA PageAside ==
  ASSUME NEW q, Complete(q), NEW n, NEW h
  PROVE  /\ visible(h, Turned(q, n)) = visible(h, q)
         /\ eligible(h, Turned(q, n)) = eligible(h, q)
         /\ \A u : RankIn(Turned(q, n), u) = RankIn(q, u)
         /\ MayAsk(h, Turned(q, n)) <=> MayAsk(h, q)
         /\ Turned(q, n).page = n /\ Turned(q, n).perPage = q.perPage
<1>1. PICK r : r = [q EXCEPT !.page = n] OBVIOUS
<1>2. /\ r.page = n /\ r.perPage = q.perPage /\ r.skills = q.skills /\ r.minSkill = q.minSkill
      /\ r.minOverall = q.minOverall /\ r.minGeneralist = q.minGeneralist /\ r.name = q.name
      /\ r.inactive = q.inactive /\ r.says = q.says /\ r.forRole = q.forRole
  BY <1>1 DEF Complete, knownFilters, Ungiven
<1>3. \A u : HoldsAll(u, r) <=> HoldsAll(u, q) BY <1>2 DEF HoldsAll
<1>4. eligible(h, r) = eligible(h, q) BY <1>2, <1>3 DEF eligible
<1>5. visible(h, r) = visible(h, q) BY <1>2, <1>4 DEF visible, alreadyShortlisted
<1>6. \A u : RankIn(r, u) = RankIn(q, u) BY <1>2 DEF RankIn, resolveOrdering
<1>7. MayAsk(h, r) <=> MayAsk(h, q) BY <1>2 DEF MayAsk, validateRanges, ownsRole
<1> QED BY <1>1, <1>2, <1>4, <1>5, <1>6, <1>7 DEF Turned

\* A rank is a number.
LEMMA RanksAreNumbers == ASSUME NEW q, NEW u PROVE RankIn(q, u) \in Int
<1>1. ASSUME NEW S \in SUBSET Users PROVE 1 + Cardinality(S) \in Int
  <2>1. Cardinality(S) \in Nat BY DiscoveryAssumption, FS_Subset, FS_CardinalityType
  <2> QED BY <2>1
<1>2. CASE resolveOrdering(q) = "skill"
  <2>1. {v \in PrimaryHolders(q.skills[1]) :
           SkillScoreOf(v, q.skills[1]) > SkillScoreOf(u, q.skills[1])} \in SUBSET Users
    BY DEF PrimaryHolders
  <2>2. RankIn(q, u) = 1 + Cardinality({v \in PrimaryHolders(q.skills[1]) :
           SkillScoreOf(v, q.skills[1]) > SkillScoreOf(u, q.skills[1])})
    BY <1>2 DEF RankIn, RankAmong
  <2> QED BY <1>1, <2>1, <2>2
<1>3. CASE resolveOrdering(q) = "generalist"
  <2>1. {v \in rankedPopulation : GeneralistOf(v) > GeneralistOf(u)} \in SUBSET Users
    BY DEF rankedPopulation
  <2>2. RankIn(q, u) = 1 + Cardinality({v \in rankedPopulation : GeneralistOf(v) > GeneralistOf(u)})
    BY <1>3 DEF RankIn, RankAmong
  <2> QED BY <1>1, <2>1, <2>2
<1>4. CASE resolveOrdering(q) = "overall"
  <2>1. {v \in rankedPopulation : OverallOf(v) > OverallOf(u)} \in SUBSET Users
    BY DEF rankedPopulation
  <2>2. RankIn(q, u) = 1 + Cardinality({v \in rankedPopulation : OverallOf(v) > OverallOf(u)})
    BY <1>4 DEF RankIn, RankAmong
  <2> QED BY <1>1, <2>1, <2>2
<1> QED BY <1>2, <1>3, <1>4 DEF resolveOrdering

\* The people at some of the places of a ranking.
AtPlaces(rank, rows) == {u \in DOMAIN rank : Cardinality(Before(rank, u)) \in rows}

\* The people a search finds, page by page: those visible, at their places.
LEMMA PagesHold ==
  ASSUME NEW h, NEW q, Complete(q), MayAsk(h, q), q.perPage \in Nat \ {0}, NEW n \in Nat \ {0},
         NEW rank, rank = [u \in visible(h, q) |-> RankIn(q, u)]
  PROVE  DOMAIN Search(h, Turned(q, n)) = AtPlaces(rank, Rows((n - 1) * q.perPage, q.perPage))
<1>1. PICK r : r = Turned(q, n) OBVIOUS
<1>2. /\ visible(h, r) = visible(h, q) /\ MayAsk(h, r) /\ r.page = n /\ r.perPage = q.perPage
      /\ \A u : RankIn(r, u) = RankIn(q, u)
  BY <1>1, PageAside
<1>3. Search(h, r) = PageOf(h, r) BY <1>2 DEF Search
<1>4. ~(r.page <= 0) /\ ~(r.perPage <= 0) BY <1>2
<1>5. rank = [u \in visible(h, r) |-> RankIn(r, u)] BY <1>2
<1>6. PageOf(h, r) = PageIn(rank, n, q.perPage) BY <1>2, <1>4, <1>5 DEF PageOf
<1>7. DOMAIN PageIn(rank, n, q.perPage) = AtPlaces(rank, Rows((n - 1) * q.perPage, q.perPage))
  BY DEF PageIn, Restrict, AtPlaces
<1> QED BY <1>1, <1>3, <1>6, <1>7

\* The ranking of a search ranks people, by numbers.
LEMMA RankingType ==
  ASSUME NEW h, NEW q, NEW rank, rank = [u \in visible(h, q) |-> RankIn(q, u)]
  PROVE  visible(h, q) \in SUBSET Users /\ rank \in [visible(h, q) -> Int]
BY RanksAreNumbers DEF visible, eligible, rankedPopulation

\* Whoever is visible is on one of the first pages, and nobody else is.
LEMMA PagesUnite ==
  ASSUME NEW h, NEW q, Complete(q), MayAsk(h, q), q.perPage \in Nat \ {0}, NEW u
  PROVE  (\E n \in 1 .. Cardinality(Users) : u \in DOMAIN Search(h, Turned(q, n)))
           <=> u \in visible(h, q)
<1>1. PICK rank : rank = [v \in visible(h, q) |-> RankIn(q, v)] OBVIOUS
<1>2. visible(h, q) \in SUBSET Users /\ rank \in [visible(h, q) -> Int] BY <1>1, RankingType
<1>3. Cardinality(Users) \in Nat BY DiscoveryAssumption, FS_CardinalityType
<1>4. ASSUME NEW n \in 1 .. Cardinality(Users)
      PROVE  DOMAIN Search(h, Turned(q, n))
               = AtPlaces(rank, Rows((n - 1) * q.perPage, q.perPage))
  <2>1. n \in Nat \ {0} BY <1>3
  <2> QED BY <1>1, <2>1, PagesHold
<1>5. ASSUME u \in visible(h, q)
      PROVE  \E n \in 1 .. Cardinality(Users) :
               u \in AtPlaces(rank, Rows((n - 1) * q.perPage, q.perPage))
  <2>1. /\ Cardinality(Before(rank, u)) \in Nat
        /\ Cardinality(Before(rank, u)) < Cardinality(Users)
    <3>1. Cardinality(visible(h, q)) \in Nat /\ Cardinality(visible(h, q)) <= Cardinality(Users)
          /\ Cardinality(Before(rank, u)) \in Nat
          /\ Cardinality(Before(rank, u)) < Cardinality(visible(h, q))
      BY <1>2, <1>5, PlacesAreLow
    <3> QED BY <1>3, <3>1
  <2>2. \E n \in 1 .. Cardinality(Users) :
          Cardinality(Before(rank, u)) \in Rows((n - 1) * q.perPage, q.perPage)
    BY <1>3, <2>1, PlaceOnPage
  <2> QED BY <1>2, <1>5, <2>2 DEF AtPlaces
<1>6. \A rows : u \in AtPlaces(rank, rows) => u \in visible(h, q) BY <1>2 DEF AtPlaces
<1> QED BY <1>4, <1>5, <1>6

\* A page is as long as asked at most, and is empty only past the last of them.
LEMMA PagesFill ==
  ASSUME NamesDiffer, NEW h, NEW q, Complete(q), MayAsk(h, q), q.perPage \in Nat \ {0},
         NEW n \in Nat \ {0}
  PROVE  /\ Cardinality(DOMAIN Search(h, Turned(q, n))) <= q.perPage
         /\ DOMAIN Search(h, Turned(q, n)) = {}
              <=> Cardinality(visible(h, q)) <= (n - 1) * q.perPage
<1>1. PICK rank : rank = [v \in visible(h, q) |-> RankIn(q, v)] OBVIOUS
<1>2. visible(h, q) \in SUBSET Users /\ rank \in [visible(h, q) -> Int] BY <1>1, RankingType
<1>3. PICK from \in Nat : from = (n - 1) * q.perPage
  <2>1. n - 1 \in Nat /\ q.perPage \in Nat OBVIOUS
  <2> QED BY <2>1
<1>4. DOMAIN Search(h, Turned(q, n)) = AtPlaces(rank, Rows(from, q.perPage))
  BY <1>1, <1>3, PagesHold
<1>5. AtPlaces(rank, Rows(from, q.perPage))
        = {u \in visible(h, q) : Cardinality(Before(rank, u)) \in Rows(from, q.perPage)}
  BY <1>2 DEF AtPlaces
<1>6. Cardinality(AtPlaces(rank, Rows(from, q.perPage))) <= q.perPage BY <1>2, <1>5, PlacesFit
<1>7. Cardinality(visible(h, q)) \in Nat BY <1>2, PlacesAreLow
<1>8. ASSUME from < Cardinality(visible(h, q)) PROVE AtPlaces(rank, Rows(from, q.perPage)) # {}
  <2>1. PICK u \in visible(h, q) : Cardinality(Before(rank, u)) = from
    BY <1>2, <1>8, PlacesAreTaken
  <2>2. from \in Rows(from, q.perPage) BY DEF Rows
  <2> QED BY <1>5, <2>1, <2>2
<1>9. ASSUME Cardinality(visible(h, q)) <= from, NEW u \in AtPlaces(rank, Rows(from, q.perPage))
      PROVE  FALSE
  <2>1. u \in visible(h, q) /\ Cardinality(Before(rank, u)) >= from BY <1>5, <1>9 DEF Rows
  <2>2. /\ Cardinality(Before(rank, u)) \in Nat
        /\ Cardinality(Before(rank, u)) < Cardinality(visible(h, q))
    BY <1>2, <2>1, PlacesAreLow
  <2> QED BY <1>7, <1>9, <2>1, <2>2
<1>10. AtPlaces(rank, Rows(from, q.perPage)) = {} <=> Cardinality(visible(h, q)) <= from
  BY <1>7, <1>8, <1>9
<1> QED BY <1>3, <1>4, <1>6, <1>10

-----------------------------------------------------------------------------
(* Who is findable                                                         *)

\* A question that gives nothing but its page.
PlainQuestion(q, n) ==
  /\ q.skills = <<>> /\ q.minSkill = NoScore /\ q.minOverall = NoScore
  /\ q.minGeneralist = NoScore /\ q.name = Anybody /\ q.inactive = FALSE /\ q.says = {}
  /\ q.forRole = NoRole /\ q.page = n /\ q.perPage = DefaultPerPage
  /\ DOMAIN q = knownFilters /\ q = [f \in DOMAIN q |-> q[f]]

\* It is read with the other filters as nobody gave them (parseSearchQuery).
LEMMA PageOnly ==
  ASSUME NEW n \in Nat \ {0}, NEW form, form = Everybody(n),
         NEW q, q = parseSearchQuery(form)
  PROVE  PlainQuestion(q, n) /\ WellFormedQuery(form)
<1>1. DOMAIN form = {"page"} /\ form.page = n BY DEF Everybody
<1>2. PICK g : g = parseFilters(form) OBVIOUS
<1>3. g = [f \in knownFilters \cup {"page"} |-> IF f \in {"page"} THEN form[f] ELSE Ungiven[f]]
  BY <1>1, <1>2 DEF parseFilters
<1>4. knownFilters \cup {"page"} = knownFilters BY DEF knownFilters, Ungiven
<1>5. DOMAIN g = knownFilters BY <1>3, <1>4
<1>6. /\ g.skills = <<>> /\ g.minSkill = NoScore /\ g.minOverall = NoScore
      /\ g.minGeneralist = NoScore /\ g.name = Anybody /\ g.inactive = FALSE /\ g.says = {}
      /\ g.forRole = NoRole /\ g.page = n /\ g.perPage = 0
  BY <1>1, <1>3 DEF knownFilters, Ungiven
<1>7. q = [g EXCEPT !.page = atoiDefault(@, 1), !.perPage = atoiDefault(@, DefaultPerPage)]
  BY <1>2 DEF parseSearchQuery
<1>8. atoiDefault(g.page, 1) = n /\ atoiDefault(g.perPage, DefaultPerPage) = DefaultPerPage
  BY <1>6 DEF atoiDefault
<1>9. q = [g EXCEPT !.page = n, !.perPage = DefaultPerPage] BY <1>7, <1>8
<1>10. knownFilters = {"skills", "minSkill", "minOverall", "minGeneralist", "name", "inactive",
                       "says", "forRole", "page", "perPage"}
  BY DEF knownFilters, Ungiven
<1>11. /\ q.skills = <<>> /\ q.minSkill = NoScore /\ q.minOverall = NoScore
       /\ q.minGeneralist = NoScore /\ q.name = Anybody /\ q.inactive = FALSE /\ q.says = {}
       /\ q.forRole = NoRole /\ q.page = n /\ q.perPage = DefaultPerPage
       /\ DOMAIN q = knownFilters
  BY <1>5, <1>6, <1>9, <1>10
<1>12. q = [f \in DOMAIN q |-> q[f]] BY <1>9
<1>13. WellFormedQuery(form)
  BY <1>1, <1>2, <1>6, <1>10, DiscoveryAssumption
     DEF WellFormedQuery, scoreRangeProblems, NoScore, Top
<1> QED BY <1>11, <1>12, <1>13 DEF PlainQuestion

\* A question nobody else filled in finds everybody in the market with a live window
\* and a current score (eligibleCTE, visibleCTE).
LEMMA OpenSearch ==
  ASSUME TypeOK, NEW h \in Capable, NEW u \in Users, ~Self(h, u), scoreRubricVersion(u) = active,
         NEW q, q = parseSearchQuery(Everybody(1))
  PROVE  /\ Complete(q) /\ MayAsk(h, q) /\ q.perPage \in Nat \ {0}
         /\ u \in visible(h, q) <=> InPool(u) /\ IsActive(u)
         /\ \A n \in Nat \ {0} : search(h, Everybody(n)) = Search(h, Turned(q, n))
<1>1. PlainQuestion(q, 1)
  <2>1. PICK n \in Nat \ {0} : n = 1 OBVIOUS
  <2>2. PICK form : form = Everybody(n) OBVIOUS
  <2>3. q = parseSearchQuery(form) BY <2>1, <2>2
  <2> QED BY <2>1, <2>2, <2>3, PageOnly
<1>2. /\ q.skills = <<>> /\ q.minSkill = NoScore /\ q.minOverall = NoScore
      /\ q.minGeneralist = NoScore /\ q.name = Anybody /\ q.inactive = FALSE /\ q.says = {}
      /\ q.forRole = NoRole /\ q.page = 1 /\ q.perPage = DefaultPerPage
      /\ DOMAIN q = knownFilters
  BY <1>1 DEF PlainQuestion
<1>3. MayAsk(h, q)
  BY <1>2, DiscoveryAssumption DEF MayAsk, requireHirer, RequireHiringCapability, validateRanges,
     ownsRole, NoScore, Top
<1>4. <<NoRole, u>> \notin staged BY DiscoveryAssumption DEF TypeOK
<1>5. u \in eligible(h, q) <=> InPool(u)
  BY <1>2 DEF eligible, rankedPopulation, HoldsAll, Clears
<1>6. u \in visible(h, q) <=> InPool(u) /\ IsActive(u)
  BY <1>2, <1>4, <1>5 DEF visible, alreadyShortlisted
<1>7. ASSUME NEW n \in Nat \ {0}
      PROVE  search(h, Everybody(n)) = Search(h, Turned(q, n))
  <2>0. PICK form : form = Everybody(n) OBVIOUS
  <2>1. PICK r : r = parseSearchQuery(form) OBVIOUS
  <2>2. PlainQuestion(r, n) /\ WellFormedQuery(form)
    BY <2>0, <2>1, PageOnly
  <2>3. knownFilters = {"skills", "minSkill", "minOverall", "minGeneralist", "name", "inactive",
                        "says", "forRole", "page", "perPage"}
    BY DEF knownFilters, Ungiven
  <2>4. PICK s : s = [q EXCEPT !.page = n] OBVIOUS
  <2>5. r = s
    <3>1. DOMAIN s = knownFilters /\ s = [f \in DOMAIN s |-> s[f]] BY <1>2, <2>4
    <3>2. \A f \in knownFilters : r[f] = s[f] BY <1>2, <2>2, <2>3, <2>4 DEF PlainQuestion
    <3> QED BY <2>2, <3>1, <3>2 DEF PlainQuestion
  <2>6. requireAny(h) BY RequestsAssumption, DiscoveryAssumption DEF requireAny
  <2> QED BY <2>0, <2>1, <2>2, <2>4, <2>5, <2>6 DEF search, Turned
<1>8. Complete(q) BY <1>2 DEF Complete
<1>9. q.perPage \in Nat \ {0} BY <1>2, DiscoveryAssumption
<1> QED BY <1>3, <1>6, <1>7, <1>8, <1>9

\* To ask for one skill is to ask whether they hold that much of it.
LEMMA OneSkill ==
  ASSUME NEW u, NEW q, NEW k, q.skills = <<k>>
  PROVE  HoldsAll(u, q) <=> Standing(u, k) = "primary" /\ SkillScoreOf(u, k) >= q.minSkill
<1> DEFINE holds(j) == Standing(u, j) = "primary" /\ SkillScoreOf(u, j) >= q.minSkill
<1>1. Range(q.skills) = {k} /\ Len(q.skills) = 1 /\ q.skills # <<>> BY DEF Range
<1>2. HoldsAll(u, q) <=> Cardinality({j \in {k} : holds(j)}) = 1 BY <1>1 DEF HoldsAll
<1>3. CASE holds(k)
  <2>1. {j \in {k} : holds(j)} = {k} BY <1>3
  <2> QED BY <1>2, <1>3, <2>1, FS_Singleton
<1>4. CASE ~holds(k)
  <2>1. {j \in {k} : holds(j)} = {} BY <1>4
  <2>2. Cardinality({}) = 0 BY FS_EmptySet
  <2> QED BY <1>2, <1>4, <2>1, <2>2
<1> QED BY <1>3, <1>4

\* Somebody in the market is found by a search for skills and scores when they have them.
LEMMA FoundByScores ==
  ASSUME TypeOK, NEW h, NEW u \in Users, ~Self(h, u), scoreRubricVersion(u) = active,
         InPool(u), IsActive(u),
         NEW q, q.name = Anybody, q.says = {}, q.forRole = NoRole
  PROVE  u \in visible(h, q) <=> /\ HoldsAll(u, q) /\ Clears(OverallOf(u), q.minOverall)
                                /\ Clears(GeneralistOf(u), q.minGeneralist)
<1>1. <<NoRole, u>> \notin staged BY DiscoveryAssumption DEF TypeOK
<1>2. u \in rankedPopulation BY DEF rankedPopulation
<1>3. u \in eligible(h, q) <=> /\ HoldsAll(u, q) /\ Clears(OverallOf(u), q.minOverall)
                              /\ Clears(GeneralistOf(u), q.minGeneralist)
  BY <1>2 DEF eligible
<1> QED BY <1>1, <1>3 DEF visible, alreadyShortlisted

\* An advert's bar is what searches with its minimums ask (matchingCTE, eligibleCTE).
LEMMA BarIsSearched ==
  ASSUME TypeOK, NEW h, NEW u \in Users, ~Self(h, u), scoreRubricVersion(u) = active,
         InPool(u), IsActive(u), NEW o
  PROVE  ClearsBar(u, o) <=> /\ Clears(Wants[u].years, o.minYears)
                            /\ \A form \in PartsOf(o) : u \in visible(h, parseSearchQuery(form))
<1>1. ASSUME NEW form, form = [minOverall |-> o.minOverall, minGeneralist |-> o.minGeneralist]
      PROVE  u \in visible(h, parseSearchQuery(form)) <=>
               Clears(OverallOf(u), o.minOverall) /\ Clears(GeneralistOf(u), o.minGeneralist)
  <2>1. PICK q : q = parseSearchQuery(form) OBVIOUS
  <2>2. DOMAIN form = {"minOverall", "minGeneralist"} /\ form.minOverall = o.minOverall
        /\ form.minGeneralist = o.minGeneralist
    BY <1>1
  <2>3. \A f \in knownFilters : f \notin {"page", "perPage"} =>
          q[f] = IF f \in DOMAIN form THEN form[f] ELSE Ungiven[f]
    BY <2>1, ParsedFields
  <2>4. /\ q.skills = <<>> /\ q.minOverall = o.minOverall /\ q.minGeneralist = o.minGeneralist
        /\ q.name = Anybody /\ q.says = {} /\ q.forRole = NoRole
    BY <2>2, <2>3 DEF knownFilters, Ungiven
  <2>5. HoldsAll(u, q) BY <2>4 DEF HoldsAll
  <2> QED BY <2>1, <2>4, <2>5, FoundByScores
<1>2. ASSUME NEW i \in DOMAIN o.skills, NEW form,
             form = [skills |-> <<o.skills[i].skill>>, minSkill |-> o.skills[i].min]
      PROVE  u \in visible(h, parseSearchQuery(form)) <=>
               /\ Standing(u, o.skills[i].skill) = "primary"
               /\ SkillScoreOf(u, o.skills[i].skill) >= o.skills[i].min
  <2>1. PICK q : q = parseSearchQuery(form) OBVIOUS
  <2>2. DOMAIN form = {"skills", "minSkill"} /\ form.skills = <<o.skills[i].skill>>
        /\ form.minSkill = o.skills[i].min
    BY <1>2
  <2>3. \A f \in knownFilters : f \notin {"page", "perPage"} =>
          q[f] = IF f \in DOMAIN form THEN form[f] ELSE Ungiven[f]
    BY <2>1, ParsedFields
  <2>4. /\ q.skills = <<o.skills[i].skill>> /\ q.minSkill = o.skills[i].min
        /\ q.minOverall = NoScore /\ q.minGeneralist = NoScore
        /\ q.name = Anybody /\ q.says = {} /\ q.forRole = NoRole
    BY <2>2, <2>3 DEF knownFilters, Ungiven
  <2>5. Clears(OverallOf(u), q.minOverall) /\ Clears(GeneralistOf(u), q.minGeneralist)
    BY <2>4 DEF Clears
  <2>6. HoldsAll(u, q) <=> /\ Standing(u, o.skills[i].skill) = "primary"
                          /\ SkillScoreOf(u, o.skills[i].skill) >= o.skills[i].min
    BY <2>4, OneSkill
  <2> QED BY <2>1, <2>4, <2>5, <2>6, FoundByScores
<1>3. (\A form \in PartsOf(o) : u \in visible(h, parseSearchQuery(form))) <=>
        /\ Clears(OverallOf(u), o.minOverall) /\ Clears(GeneralistOf(u), o.minGeneralist)
        /\ \A i \in DOMAIN o.skills : /\ Standing(u, o.skills[i].skill) = "primary"
                                      /\ SkillScoreOf(u, o.skills[i].skill) >= o.skills[i].min
  BY <1>1, <1>2 DEF PartsOf, Range
<1> QED BY <1>3 DEF ClearsBar

\* Whom the screen calls findable is found, whom it tells something about the window is
\* not, whom it tells no_score alone is found too, and an advert asks whoever is found
\* what a search asks.
THEOREM WhoIsFindableIsFound == Spec => []FindableIsFound
<1>1. TypeOK => FindableIsFound
  <2> SUFFICES ASSUME TypeOK, NEW h \in Capable, NEW u \in Users, ~Self(h, u),
                      scoreRubricVersion(u) = active
               PROVE  /\ Findable(u) => FoundBy(h, u)
                      /\ readiness(u) \cap {"never_answered", "opted_out", "lapsed"} # {}
                           => ~FoundBy(h, u)
                      /\ readiness(u) = {"no_score"} => FoundBy(h, u)
                      /\ FoundBy(h, u) =>
                           \A o \in {a \in Adverts : RoleOwners[a.role] = Company[h]} :
                             ClearsBar(u, o) <=>
                               /\ Clears(Wants[u].years, o.minYears)
                               /\ \A form \in PartsOf(o) : u \in visible(h, parseSearchQuery(form))
    BY DEF FindableIsFound
  <2>1. PICK q : q = parseSearchQuery(Everybody(1)) OBVIOUS
  <2>2. /\ Complete(q) /\ MayAsk(h, q) /\ q.perPage \in Nat \ {0}
        /\ u \in visible(h, q) <=> InPool(u) /\ IsActive(u)
        /\ \A n \in Nat \ {0} : search(h, Everybody(n)) = Search(h, Turned(q, n))
    BY <2>1, OpenSearch
  <2>3. Cardinality(Users) \in Nat BY DiscoveryAssumption, FS_CardinalityType
  <2>4. \A n \in 1 .. Cardinality(Users) :
          search(h, Everybody(n)) = Search(h, Turned(q, n))
    BY <2>2, <2>3
  <2>5. FoundBy(h, u) <=> u \in visible(h, q) BY <2>2, <2>4, PagesUnite DEF FoundBy
  <2>6. availability[u].status \in {"none", "looking", "not_looking"}
    BY DEF TypeOK, Availability
  <2>7. /\ Findable(u) => InPool(u) /\ IsActive(u)
        /\ readiness(u) \cap {"never_answered", "opted_out", "lapsed"} # {}
             => ~(InPool(u) /\ IsActive(u))
        /\ readiness(u) = {"no_score"} => InPool(u) /\ IsActive(u)
    BY <2>6 DEF Findable, readiness, OptedOut, InPool, IsActive
  <2> QED BY <2>2, <2>5, <2>7, BarIsSearched
<1>2. DiscoveryInvariant => TypeOK BY DEF DiscoveryInvariant
<1> QED BY <1>1, <1>2, DiscoveryIsSound, PTL

-----------------------------------------------------------------------------
(* What is counted                                                         *)

\* What hirers ask has every filter, and pages of some length.
LEMMA AskedIsComplete ==
  ASSUME NEW q \in Queries PROVE Complete(q) /\ q.perPage \in Nat \ {0}
<1>1. PICK form \in Forms : WellFormedQuery(form) /\ q = parseSearchQuery(form) BY DEF Queries
<1>2. Complete(q) BY <1>1, ParsedFields DEF Complete
<1>3. PICK given : given = parseFilters(form).perPage OBVIOUS
<1>4. given \in Int BY <1>3, ParsedFields, RequestsAssumption DEF knownFilters, Ungiven
<1>5. q.perPage = atoiDefault(given, DefaultPerPage) BY <1>1, <1>3, ParsedFields
<1> QED BY <1>2, <1>4, <1>5, DiscoveryAssumption DEF atoiDefault

\* What is counted apart adds up (counts).
LEMMA CountsAdd ==
  ASSUME TypeOK, NEW h, NEW q, Complete(q)
  PROVE  /\ counts(h, q).total \in Nat /\ counts(h, q).total = Cardinality(visible(h, q))
         /\ counts(h, [q EXCEPT !.inactive = TRUE]).total
              = counts(h, q).total + counts(h, q).inactiveHidden
         /\ counts(h, [q EXCEPT !.inactive = TRUE, !.forRole = NoRole]).total
              = counts(h, q).total + counts(h, q).inactiveHidden + counts(h, q).alreadyShortlisted
<1>1. knownFilters \subseteq DOMAIN q BY DEF Complete
<1>2. PICK E : E = eligible(h, q) OBVIOUS
<1>3. PICK A : A = alreadyShortlisted(q) OBVIOUS
<1>4. E \in SUBSET Users BY <1>2 DEF eligible, rankedPopulation
<1>5. IsFiniteSet(E) BY <1>4, DiscoveryAssumption, FS_Subset
<1>6. /\ IsFiniteSet(E \ A) /\ Cardinality(E \ A) = Cardinality(E) - Cardinality(E \cap A)
      /\ IsFiniteSet(E \cap A)
  BY <1>5, FS_Difference, FS_Intersection
<1>7. visible(h, q) \in SUBSET (E \ A) BY <1>2, <1>3 DEF visible
<1>8. IsFiniteSet(visible(h, q)) BY <1>6, <1>7, FS_Subset
<1>9. /\ Cardinality(E) \in Nat /\ Cardinality(E \ A) \in Nat /\ Cardinality(E \cap A) \in Nat
      /\ Cardinality(visible(h, q)) \in Nat
  BY <1>5, <1>6, <1>8, FS_CardinalityType
<1>10. /\ counts(h, q).total = Cardinality(visible(h, q))
       /\ counts(h, q).inactiveHidden = Cardinality(E \ A) - Cardinality(visible(h, q))
       /\ counts(h, q).alreadyShortlisted = Cardinality(E \cap A)
  BY <1>2, <1>3 DEF counts
<1>11. counts(h, [q EXCEPT !.inactive = TRUE]).total = Cardinality(E \ A)
  <2>1. PICK r : r = [q EXCEPT !.inactive = TRUE] OBVIOUS
  <2>2. /\ r.skills = q.skills /\ r.minSkill = q.minSkill
        /\ r.minOverall = q.minOverall /\ r.minGeneralist = q.minGeneralist /\ r.name = q.name
        /\ r.inactive = TRUE /\ r.says = q.says /\ r.forRole = q.forRole
    BY <1>1, <2>1 DEF knownFilters, Ungiven
  <2>3. \A u : HoldsAll(u, r) <=> HoldsAll(u, q) BY <2>2 DEF HoldsAll
  <2>4. eligible(h, r) = E BY <1>2, <2>2, <2>3 DEF eligible
  <2>5. alreadyShortlisted(r) = A BY <1>3, <2>2 DEF alreadyShortlisted
  <2>6. visible(h, r) = E \ A BY <2>2, <2>4, <2>5 DEF visible
  <2> QED BY <2>1, <2>6 DEF counts
<1>12. counts(h, [q EXCEPT !.inactive = TRUE, !.forRole = NoRole]).total = Cardinality(E)
  <2>1. PICK r : r = [q EXCEPT !.inactive = TRUE, !.forRole = NoRole] OBVIOUS
  <2>2. /\ r.skills = q.skills /\ r.minSkill = q.minSkill
        /\ r.minOverall = q.minOverall /\ r.minGeneralist = q.minGeneralist /\ r.name = q.name
        /\ r.inactive = TRUE /\ r.says = q.says /\ r.forRole = NoRole
    BY <1>1, <2>1 DEF knownFilters, Ungiven
  <2>3. \A u : HoldsAll(u, r) <=> HoldsAll(u, q) BY <2>2 DEF HoldsAll
  <2>4. eligible(h, r) = E BY <1>2, <2>2, <2>3 DEF eligible
  <2>5. alreadyShortlisted(r) = {} BY <2>2, DiscoveryAssumption DEF alreadyShortlisted, TypeOK
  <2>6. visible(h, r) = E BY <2>2, <2>4, <2>5 DEF visible
  <2> QED BY <2>1, <2>6 DEF counts
<1> QED BY <1>6, <1>9, <1>10, <1>11, <1>12

\* A page of one is one row, while there is a row left.
LEMMA PageOfOne ==
  ASSUME NEW rows, IsFiniteSet(rows), NEW key \in [rows -> Int], NEW n \in 0 .. Cardinality(rows),
         NEW page \in Pages(key, n, 1)
  PROVE  /\ page \in SUBSET rows
         /\ Cardinality(page) = IF n < Cardinality(rows) THEN 1 ELSE 0
         /\ \E earlier \in SUBSET (rows \ page) :
              /\ Cardinality(earlier) = n
              /\ \A u \in earlier, v \in rows \ earlier : key[u] <= key[v]
              /\ \A u \in page, v \in rows \ (earlier \cup page) : key[u] <= key[v]
<1>1. Cardinality(rows) \in Nat BY FS_CardinalityType
<1>2. PICK earlier \in SUBSET (rows \ page) :
        /\ Cardinality(earlier) = IF n < Cardinality(rows) THEN n ELSE Cardinality(rows)
        /\ Cardinality(page) = IF 1 < Cardinality(rows \ earlier) THEN 1
                               ELSE Cardinality(rows \ earlier)
        /\ \A u \in earlier, v \in rows \ earlier : key[u] <= key[v]
        /\ \A u \in page, v \in rows \ (earlier \cup page) : key[u] <= key[v]
  BY DEF Pages
<1>3. page \in SUBSET rows BY DEF Pages
<1>4. Cardinality(earlier) = n BY <1>1, <1>2
<1>5. Cardinality(rows \ earlier) = Cardinality(rows) - n
  <2>1. rows \cap earlier = earlier OBVIOUS
  <2> QED BY <1>4, <2>1, FS_Difference
<1>6. Cardinality(page) = IF n < Cardinality(rows) THEN 1 ELSE 0 BY <1>1, <1>2, <1>5
<1> QED BY <1>2, <1>3, <1>4, <1>6

\* Where no two rows have one key, a row is on the page of its place, whichever way the
\* pages come out.
LEMMA OwnPage ==
  ASSUME NEW rows, IsFiniteSet(rows), NEW key \in [rows -> Int],
         \A v, w \in rows : key[v] = key[w] => v = w,
         NEW u \in rows
  PROVE  \E n \in 0 .. Cardinality(rows) - 1 : \A page \in Pages(key, n, 1) : page = {u}
<1> DEFINE before == {v \in rows : key[v] < key[u]}
<1>1. before \in SUBSET rows /\ u \notin before OBVIOUS
<1>2. /\ IsFiniteSet(before) /\ Cardinality(before) \in Nat /\ Cardinality(rows) \in Nat
      /\ Cardinality(before) < Cardinality(rows)
  <2>1. /\ IsFiniteSet(before) /\ Cardinality(before) <= Cardinality(rows)
        /\ Cardinality(rows) = Cardinality(before) => rows = before
    BY <1>1, FS_Subset
  <2>2. Cardinality(before) \in Nat /\ Cardinality(rows) \in Nat BY <2>1, FS_CardinalityType
  <2>3. rows # before BY <1>1
  <2> HIDE DEF before
  <2> QED BY <2>1, <2>2, <2>3
<1>3. PICK n : n = Cardinality(before) OBVIOUS
<1>4. n \in 0 .. Cardinality(rows) /\ n \in 0 .. Cardinality(rows) - 1 BY <1>2, <1>3
<1>5. ASSUME NEW page \in Pages(key, n, 1) PROVE page = {u}
  <2>1. PICK earlier \in SUBSET (rows \ page) :
          /\ Cardinality(earlier) = n
          /\ \A v \in earlier, w \in rows \ earlier : key[v] <= key[w]
          /\ \A v \in page, w \in rows \ (earlier \cup page) : key[v] <= key[w]
    BY <1>4, PageOfOne
  <2>2. page \in SUBSET rows /\ Cardinality(page) = 1 BY <1>2, <1>3, <1>4, PageOfOne
  <2>3. earlier \subseteq before \/ before \subseteq earlier
    <3>1. ASSUME NEW v \in earlier, v \notin before, NEW w \in before, w \notin earlier PROVE FALSE
      <4>1. key[v] <= key[w] BY <2>1, <3>1
      <4>2. key[w] < key[u] /\ ~(key[v] < key[u]) BY <3>1
      <4>3. key[u] \in Int /\ key[v] \in Int /\ key[w] \in Int BY <3>1
      <4> QED BY <4>1, <4>2, <4>3
    <3> QED BY <3>1
  <2>4. earlier = before
    <3>1. IsFiniteSet(earlier) BY FS_Subset
    <3> HIDE DEF before
    <3> QED BY <1>2, <1>3, <2>1, <2>3, <3>1, FS_Subset
  <2>5. ASSUME NEW v \in page PROVE v = u
    <3>1. v \in rows /\ v \notin before BY <2>1, <2>2, <2>4
    <3>2. CASE u \in page
      <4>1. PICK x : page = {x} BY <1>2, <2>2, FS_Singleton, FS_Subset
      <4> QED BY <2>5, <3>2, <4>1
    <3>3. CASE u \notin page
      <4>1. key[v] <= key[u] BY <1>1, <2>1, <2>4, <3>3
      <4>2. key[v] \in Int /\ key[u] \in Int /\ ~(key[v] < key[u]) BY <3>1
      <4> QED BY <3>1, <4>1, <4>2
    <3> QED BY <3>2, <3>3
  <2>6. page # {}
    <3>1. Cardinality({}) = 0 BY FS_EmptySet
    <3> QED BY <2>2, <3>1
  <2> QED BY <2>5, <2>6
<1> QED BY <1>4, <1>5

\* Pages of one advert are as many as were counted, and hold no other than those in reach;
\* where moments differ each advert has its own (Matching).
LEMMA OpeningsAreReached ==
  ASSUME NEW u \in Users, NEW reach, reach = clearedOpenings(u, Adverts)
  PROVE  /\ \A n \in 0 .. Cardinality(reach) :
              \A answer \in myOpenings(u, Adverts, [limit |-> 1, offset |-> n]) :
                /\ answer.counts.matched = Cardinality(reach)
                /\ answer.openings \subseteq reach
                /\ Cardinality(answer.openings) = IF n < Cardinality(reach) THEN 1 ELSE 0
         /\ MomentsDiffer(reach) =>
              \A o \in reach : \E n \in 0 .. Cardinality(reach) - 1 :
                \A answer \in myOpenings(u, Adverts, [limit |-> 1, offset |-> n]) :
                  answer.openings = {o}
<1>1. reach \in SUBSET Offers BY DEF clearedOpenings, Adverts
<1>2. IsFiniteSet(reach) /\ Cardinality(reach) \in Nat /\ \A o \in reach : o.opened \in Int
  BY <1>1, OpeningsAssumption, FS_Subset, FS_CardinalityType
<1>3. PICK newest : newest = [o \in reach |-> -o.opened] OBVIOUS
<1>4. newest \in [reach -> Int] BY <1>2, <1>3
<1>5. ASSUME NEW n \in Nat
      PROVE  myOpenings(u, Adverts, [limit |-> 1, offset |-> n])
               = {[counts |-> countsOnly(u, Adverts), openings |-> page] :
                    page \in Pages(newest, n, 1)}
  <2>1. PICK form : form = [limit |-> 1, offset |-> n] OBVIOUS
  <2>2. DOMAIN form = {"limit", "offset"} /\ form.limit = 1 /\ form.offset = n BY <2>1
  <2>3. 1 \in 1 .. MaxOpenings BY DEF MaxOpenings
  <2>4. myOpenings(u, Adverts, form) = Matching(u, Adverts, [limit |-> 1, offset |-> n])
    BY <2>2, <2>3 DEF myOpenings
  <2>5. PICK asked : asked = [limit |-> 1, offset |-> n] OBVIOUS
  <2>6. (IF asked.limit \in 1 .. MaxOpenings THEN asked.limit ELSE DefaultOpenings) = 1
        /\ (IF asked.offset < 0 THEN 0 ELSE asked.offset) = n
    BY <2>3, <2>5
  <2>7. Matching(u, Adverts, asked)
          = {[counts |-> countsOnly(u, Adverts), openings |-> page] : page \in Pages(newest, n, 1)}
    BY <1>3, <2>6 DEF Matching
  <2> QED BY <2>1, <2>4, <2>5, <2>7
<1>6. countsOnly(u, Adverts).matched = Cardinality(reach) BY DEF countsOnly
<1>7. ASSUME NEW n \in 0 .. Cardinality(reach),
             NEW answer \in myOpenings(u, Adverts, [limit |-> 1, offset |-> n])
      PROVE  /\ answer.counts.matched = Cardinality(reach)
             /\ answer.openings \subseteq reach
             /\ Cardinality(answer.openings) = IF n < Cardinality(reach) THEN 1 ELSE 0
  <2>1. n \in Nat BY <1>2
  <2>2. PICK page \in Pages(newest, n, 1) :
          answer = [counts |-> countsOnly(u, Adverts), openings |-> page]
    BY <1>5, <2>1
  <2>3. answer.counts = countsOnly(u, Adverts) /\ answer.openings = page BY <2>2
  <2> QED BY <1>2, <1>4, <1>6, <2>3, PageOfOne
<1>8. ASSUME MomentsDiffer(reach), NEW o \in reach
      PROVE  \E n \in 0 .. Cardinality(reach) - 1 :
               \A answer \in myOpenings(u, Adverts, [limit |-> 1, offset |-> n]) :
                 answer.openings = {o}
  <2>1. \A v, w \in reach : newest[v] = newest[w] => v = w
    BY <1>2, <1>3, <1>8 DEF MomentsDiffer
  <2>2. PICK n \in 0 .. Cardinality(reach) - 1 : \A page \in Pages(newest, n, 1) : page = {o}
    BY <1>2, <1>4, <2>1, OwnPage
  <2>3. n \in Nat BY <1>2
  <2>4. \A answer \in myOpenings(u, Adverts, [limit |-> 1, offset |-> n]) :
          answer.openings = {o}
    BY <1>5, <2>2, <2>3
  <2> QED BY <2>4
<1> QED BY <1>7, <1>8

\* What is counted is on the pages and what the toggles show.
THEOREM EveryCountIsKept == Spec => []CountsAreKept
<1>1. TypeOK => CountsAreKept
  <2> SUFFICES ASSUME TypeOK PROVE CountsAreKept OBVIOUS
  <2>1. ASSUME NEW a \in Asked, NamesDiffer, NEW n \in 1 .. Cardinality(Users)
        PROVE  /\ Cardinality(DOMAIN Search(a[1], Turned(a[2], n))) <= a[2].perPage
               /\ DOMAIN Search(a[1], Turned(a[2], n)) = {}
                    <=> counts(a[1], a[2]).total <= (n - 1) * a[2].perPage
    <3>1. a[2] \in Queries /\ MayAsk(a[1], a[2]) BY DEF Asked
    <3>2. n \in Nat \ {0} BY DiscoveryAssumption, FS_CardinalityType
    <3>3. Complete(a[2]) /\ a[2].perPage \in Nat \ {0} BY <3>1, AskedIsComplete
    <3>4. counts(a[1], a[2]).total = Cardinality(visible(a[1], a[2])) BY <3>3, CountsAdd
    <3> QED BY <2>1, <3>1, <3>2, <3>3, <3>4, PagesFill
  <2>2. ASSUME NEW a \in Asked
        PROVE  Cardinality(UNION {DOMAIN Search(a[1], Turned(a[2], n)) :
                                    n \in 1 .. Cardinality(Users)})
                 = counts(a[1], a[2]).total
    <3>1. a[2] \in Queries /\ MayAsk(a[1], a[2]) BY DEF Asked
    <3>2. Complete(a[2]) /\ a[2].perPage \in Nat \ {0} BY <3>1, AskedIsComplete
    <3>3. UNION {DOMAIN Search(a[1], Turned(a[2], n)) : n \in 1 .. Cardinality(Users)}
            = visible(a[1], a[2])
      BY <3>1, <3>2, PagesUnite
    <3>4. counts(a[1], a[2]).total = Cardinality(visible(a[1], a[2])) BY <3>2, CountsAdd
    <3> QED BY <3>3, <3>4
  <2>3. \A a \in Asked : Complete(a[2]) BY AskedIsComplete DEF Asked
  <2>4. ASSUME NEW u \in Users
        PROVE  LET reach == clearedOpenings(u, Adverts)
                   Answers(n) == myOpenings(u, Adverts, [limit |-> 1, offset |-> n])
               IN /\ \A n \in 0 .. Cardinality(reach) : \A answer \in Answers(n) :
                       /\ answer.counts.matched = Cardinality(reach)
                       /\ answer.openings \subseteq reach
                       /\ Cardinality(answer.openings) = IF n < Cardinality(reach) THEN 1 ELSE 0
                  /\ MomentsDiffer(reach) =>
                       \A o \in reach : \E n \in 0 .. Cardinality(reach) - 1 :
                         \A answer \in Answers(n) : answer.openings = {o}
    BY OpeningsAreReached
  <2>5. ASSUME NEW a \in Asked
        PROVE  /\ counts(a[1], [a[2] EXCEPT !.inactive = TRUE]).total
                    = counts(a[1], a[2]).total + counts(a[1], a[2]).inactiveHidden
               /\ counts(a[1], [a[2] EXCEPT !.inactive = TRUE, !.forRole = NoRole]).total
                    = counts(a[1], a[2]).total + counts(a[1], a[2]).inactiveHidden
                        + counts(a[1], a[2]).alreadyShortlisted
    BY <2>3, CountsAdd
  <2> QED BY <2>1, <2>2, <2>4, <2>5 DEF CountsAreKept
<1>2. DiscoveryInvariant => TypeOK BY DEF DiscoveryInvariant
<1> QED BY <1>1, <1>2, DiscoveryIsSound, PTL

-----------------------------------------------------------------------------
(* Where a rank is read                                                    *)

\* A smaller field leaves nobody a worse position.
LEMMA FewerAhead ==
  ASSUME NEW S, NEW T \in SUBSET Users, S \subseteq T
  PROVE  /\ Cardinality(S) \in Nat /\ Cardinality(T) \in Nat /\ Cardinality(S) <= Cardinality(T)
         /\ IsFiniteSet(S) /\ IsFiniteSet(T)
<1>1. IsFiniteSet(T) BY DiscoveryAssumption, FS_Subset
<1>2. IsFiniteSet(S) /\ Cardinality(S) <= Cardinality(T) BY <1>1, FS_Subset
<1> QED BY <1>1, <1>2, FS_CardinalityType

\* The figures of a contributor are null or no less than nothing.
LEMMA Figures ==
  ASSUME TypeOK, NEW u \in Users
  PROVE  /\ OverallOf(u) \in Int /\ OverallOf(u) >= NoScore
         /\ GeneralistOf(u) \in Int /\ GeneralistOf(u) >= NoScore
BY ScoresAssumption DEF TypeOK, OverallOf, GeneralistOf

\* The three fields are those in the market with a current score.
LEMMA FieldsRank ==
  /\ OverallField = {u \in rankedPopulation : OverallOf(u) # NoScore}
  /\ GeneralistField = {u \in rankedPopulation : GeneralistOf(u) # NoScore}
  /\ \A k : SkillField(k) = {u \in rankedPopulation : Standing(u, k) = "primary"}
<1>1. OverallField = {u \in rankedPopulation : OverallOf(u) # NoScore}
  BY DEF OverallField, InField, rankedPopulation
<1>2. GeneralistField = {u \in rankedPopulation : GeneralistOf(u) # NoScore}
  BY DEF GeneralistField, InField, rankedPopulation
<1>3. \A k : SkillField(k) = {u \in rankedPopulation : Standing(u, k) = "primary"}
  BY DEF SkillField, InField, rankedPopulation
<1> QED BY <1>1, <1>2, <1>3

\* Whoever is ahead of somebody with a figure has one, so the population and the field are
\* the same people ahead.
LEMMA SameAhead ==
  ASSUME TypeOK, NEW u \in rankedPopulation
  PROVE  /\ 1 + Cardinality({v \in rankedPopulation : OverallOf(v) > OverallOf(u)})
              = Above(OverallField, OverallOf, u)
         /\ 1 + Cardinality({v \in rankedPopulation : GeneralistOf(v) > GeneralistOf(u)})
              = Above(GeneralistField, GeneralistOf, u)
<1>1. rankedPopulation \subseteq Users BY DEF rankedPopulation
<1>2. {v \in rankedPopulation : OverallOf(v) > OverallOf(u)}
        = {v \in OverallField : OverallOf(v) > OverallOf(u)}
  BY <1>1, Figures, FieldsRank DEF NoScore
<1>3. {v \in rankedPopulation : GeneralistOf(v) > GeneralistOf(u)}
        = {v \in GeneralistField : GeneralistOf(v) > GeneralistOf(u)}
  BY <1>1, Figures, FieldsRank DEF NoScore
<1> QED BY <1>2, <1>3 DEF Above

\* The place of somebody on the overall board: those ahead, and those tied with an
\* earlier name.
BoardPlace(u) == BoardRank(OverallField, OverallOf, u)

\* The place is the rank, or follows it within the ties.
LEMMA FieldAgrees ==
  ASSUME TypeOK, NEW u \in OverallField
  PROVE  /\ Rank(u) = Above(OverallField, OverallOf, u)
         /\ BoardPlace(u) \in Int /\ Rank(u) \in Int
         /\ BoardPlace(u) >= Rank(u)
         /\ BoardPlace(u) < Rank(u) + Cardinality({v \in OverallField : OverallOf(v) = OverallOf(u)})
<1>1. PICK F : F = OverallField OBVIOUS
<1>2. u \in rankedPopulation /\ OverallOf(u) # NoScore /\ F \in SUBSET Users
  BY <1>1, FieldsRank DEF rankedPopulation
<1>3. ~OptedOut(u) BY <1>2 DEF rankedPopulation, InPool, OptedOut
<1>4. Rank(u) = Above(F, OverallOf, u)
  BY <1>1, <1>2, <1>3, SameAhead DEF Rank, RankAmong
<1> DEFINE ahead == {v \in F : OverallOf(v) > OverallOf(u)}
           tied == {v \in F : OverallOf(v) = OverallOf(u)}
           named == {v \in F : OverallOf(v) = OverallOf(u) /\ NameOrder[v] < NameOrder[u]}
<1>5. BoardPlace(u) = 1 + Cardinality(ahead \cup named)
  <2>1. BoardPlace(u) = 1 + Cardinality({v \in F :
                             \/ OverallOf(v) > OverallOf(u)
                             \/ OverallOf(v) = OverallOf(u) /\ NameOrder[v] < NameOrder[u]})
    BY <1>1 DEF BoardPlace, BoardRank
  <2>2. {v \in F : \/ OverallOf(v) > OverallOf(u)
                   \/ OverallOf(v) = OverallOf(u) /\ NameOrder[v] < NameOrder[u]} = ahead \cup named
    OBVIOUS
  <2> QED BY <2>1, <2>2
<1>6. Rank(u) = 1 + Cardinality(ahead) BY <1>4 DEF Above
<1>7. /\ IsFiniteSet(ahead) /\ IsFiniteSet(named) /\ IsFiniteSet(tied)
      /\ Cardinality(ahead) \in Nat /\ Cardinality(named) \in Nat /\ Cardinality(tied) \in Nat
      /\ Cardinality(ahead) <= Cardinality(ahead \cup named)
      /\ Cardinality(ahead \cup named) \in Nat
  <2>1. ahead \cup named \in SUBSET Users /\ tied \in SUBSET Users /\ named \in SUBSET Users BY <1>2
  <2> HIDE DEF ahead, named, tied
  <2>2. ahead \subseteq ahead \cup named OBVIOUS
  <2> QED BY <2>1, <2>2, FewerAhead
<1>8. Cardinality(named) < Cardinality(tied)
  <2>1. u \in tied /\ named \in SUBSET tied BY <1>1
  <2>2. NameOrder[u] \in Int BY <1>1, <1>2, DiscoveryAssumption
  <2>3. u \notin named BY <2>2
  <2> HIDE DEF named, tied
  <2> QED BY <1>7, <2>1, <2>3, FS_Subset
<1> HIDE DEF ahead, named
<1>9. Cardinality(ahead \cup named) <= Cardinality(ahead) + Cardinality(named)
  <2>1. Cardinality(ahead \cup named)
          = Cardinality(ahead) + Cardinality(named) - Cardinality(ahead \cap named)
    BY <1>7, FS_Union
  <2>2. Cardinality(ahead \cap named) \in Nat BY <1>7, FS_Intersection, FS_CardinalityType
  <2> QED BY <1>7, <2>1, <2>2
<1>10. BoardPlace(u) \in Int /\ Rank(u) \in Int BY <1>5, <1>6, <1>7
<1> QED BY <1>1, <1>4, <1>5, <1>6, <1>7, <1>8, <1>9, <1>10

\* Who scores higher has the better place.
LEMMA HigherIsAhead ==
  ASSUME TypeOK, NEW u \in OverallField, NEW v \in OverallField, OverallOf(v) > OverallOf(u)
  PROVE  BoardPlace(v) < BoardPlace(u)
<1> DEFINE before(w) == {x \in OverallField :
                           \/ OverallOf(x) > OverallOf(w)
                           \/ OverallOf(x) = OverallOf(w) /\ NameOrder[x] < NameOrder[w]}
<1>1. OverallField \in SUBSET Users BY FieldsRank DEF rankedPopulation
<1>2. BoardPlace(u) = 1 + Cardinality(before(u)) /\ BoardPlace(v) = 1 + Cardinality(before(v))
  BY DEF BoardPlace, BoardRank
<1>3. \A x \in OverallField : OverallOf(x) \in Int /\ NameOrder[x] \in Int
  BY <1>1, Figures, DiscoveryAssumption
<1>4. before(v) \in SUBSET before(u) /\ v \in before(u) /\ v \notin before(v) BY <1>3
<1>5. before(u) \in SUBSET Users BY <1>1
<1> HIDE DEF before
<1>6. /\ IsFiniteSet(before(u)) /\ Cardinality(before(u)) \in Nat /\ Cardinality(before(v)) \in Nat
      /\ Cardinality(before(v)) <= Cardinality(before(u))
  BY <1>4, <1>5, FewerAhead
<1>7. Cardinality(before(v)) # Cardinality(before(u)) BY <1>4, <1>6, FS_Subset
<1> QED BY <1>2, <1>6, <1>7

\* A board is cut where a page ends: whoever it shows has their place, and whoever it does
\* not comes after a full page of others (SearchRepository.Leaderboard).
LEMMA BoardIsCut ==
  ASSUME TypeOK, NEW board \in Boards(OverallField, OverallOf)
  PROVE  /\ DOMAIN board \in SUBSET OverallField
         /\ \A u \in DOMAIN board : board[u] = BoardPlace(u)
         /\ \A u \in OverallField \ DOMAIN board :
              /\ Cardinality(DOMAIN board) = MaxPerPage
              /\ \A v \in DOMAIN board : OverallOf(v) >= OverallOf(u)
<1>1. PICK rank : rank = [u \in OverallField |-> BoardPlace(u)] OBVIOUS
<1>2. PICK shown \in Pages(rank, 0, MaxPerPage) : board = Restrict(rank, shown)
  BY <1>1 DEF Boards, BoardPlace
<1>3. /\ DOMAIN board = shown /\ shown \in SUBSET OverallField
      /\ \A u \in shown : board[u] = BoardPlace(u)
  BY <1>1, <1>2, PageOfRanking
<1>4. OverallField \in SUBSET Users BY FieldsRank DEF rankedPopulation
<1>5. IsFiniteSet(OverallField) /\ Cardinality(OverallField) \in Nat
  BY <1>4, DiscoveryAssumption, FS_Subset, FS_CardinalityType
<1>6. PICK earlier \in SUBSET (OverallField \ shown) :
        /\ Cardinality(earlier) = IF 0 < Cardinality(OverallField) THEN 0
                                  ELSE Cardinality(OverallField)
        /\ Cardinality(shown) = IF MaxPerPage < Cardinality(OverallField \ earlier) THEN MaxPerPage
                                ELSE Cardinality(OverallField \ earlier)
        /\ \A u \in shown, v \in OverallField \ (earlier \cup shown) : rank[u] <= rank[v]
  BY <1>1, <1>2 DEF Pages
<1>7. earlier = {}
  <2>1. Cardinality(earlier) = 0 BY <1>5, <1>6
  <2>2. IsFiniteSet(earlier) BY <1>5, FS_Subset
  <2> QED BY <2>1, <2>2, FS_EmptySet
<1>8. OverallField \ earlier = OverallField /\ earlier \cup shown = shown BY <1>7
<1>9. ASSUME NEW u \in OverallField \ shown
      PROVE  /\ Cardinality(shown) = MaxPerPage
             /\ \A v \in shown : OverallOf(v) >= OverallOf(u)
  <2>1. Cardinality(shown) = IF MaxPerPage < Cardinality(OverallField) THEN MaxPerPage
                             ELSE Cardinality(OverallField)
    BY <1>6, <1>8
  <2>2. Cardinality(shown) # Cardinality(OverallField) BY <1>3, <1>5, <1>9, FS_Subset
  <2>3. ASSUME NEW v \in shown PROVE OverallOf(v) >= OverallOf(u)
    <3>1. v \in OverallField /\ u \in OverallField BY <1>3
    <3>2. BoardPlace(v) <= BoardPlace(u) BY <1>1, <1>6, <1>8, <3>1
    <3>3. BoardPlace(v) \in Int /\ BoardPlace(u) \in Int BY <3>1, FieldAgrees
    <3>4. OverallOf(v) \in Int /\ OverallOf(u) \in Int BY <1>4, <3>1, Figures
    <3>5. ~(OverallOf(u) > OverallOf(v)) BY <3>1, <3>2, <3>3, HigherIsAhead
    <3> QED BY <3>4, <3>5
  <2> QED BY <2>1, <2>2, <2>3
<1> QED BY <1>3, <1>9

\* Up to the length of a board, whoever is ahead of somebody in the market is on it.
LEMMA GapsAreShown ==
  ASSUME TypeOK, NEW u \in rankedPopulation, NEW board \in Boards(OverallField, OverallOf),
         Above(OverallField, OverallOf, u) <= MaxPerPage
  PROVE  Above(OverallField, OverallOf, u) = Above(DOMAIN board, OverallOf, u)
<1> DEFINE ahead == {v \in OverallField : OverallOf(v) > OverallOf(u)}
<1>1. OverallField \in SUBSET Users /\ u \in Users BY FieldsRank DEF rankedPopulation
<1>2. /\ ahead \in SUBSET Users /\ Above(OverallField, OverallOf, u) = 1 + Cardinality(ahead)
  BY <1>1 DEF Above
<1>3. DOMAIN board \in SUBSET OverallField BY BoardIsCut
<1>4. ASSUME NEW v \in ahead, v \notin DOMAIN board PROVE FALSE
  <2>1. /\ Cardinality(DOMAIN board) = MaxPerPage
        /\ \A w \in DOMAIN board : OverallOf(w) >= OverallOf(v)
    BY <1>4, BoardIsCut
  <2>2. DOMAIN board \subseteq ahead
    <3> SUFFICES ASSUME NEW w \in DOMAIN board PROVE w \in ahead OBVIOUS
    <3>1. OverallOf(w) \in Int /\ OverallOf(v) \in Int /\ OverallOf(u) \in Int
      BY <1>1, <1>3, Figures
    <3> QED BY <1>3, <2>1, <3>1
  <2>3. Cardinality(ahead) \in Nat /\ Cardinality(DOMAIN board) <= Cardinality(ahead)
    <3> HIDE DEF ahead
    <3> QED BY <1>2, <2>2, FewerAhead
  <2> QED BY <1>2, <2>1, <2>3, DiscoveryAssumption
<1>5. ahead = {v \in DOMAIN board : OverallOf(v) > OverallOf(u)} BY <1>3, <1>4
<1> QED BY <1>2, <1>5 DEF Above

\* What a hirer is told of a skill: the position among all who hold it.
LEMMA DossierRanks ==
  ASSUME NEW u, NEW k \in Skills, Standing(u, k) = "primary"
  PROVE  Dossier(u)[k].rank = SkillRank(u, k)
BY DEF Dossier

\* The field of one skill grows from its board's, to the market, to all who hold it.
LEMMA SkillFields ==
  ASSUME NEW k \in Skills, NEW u \in SkillField(k)
  PROVE  /\ Above(SkillField(k), LAMBDA v : SkillScoreOf(v, k), u) <= MySkillRank(u, k)
         /\ MySkillRank(u, k) <= Dossier(u)[k].rank
<1>1. /\ u \in Users /\ InPool(u) /\ Standing(u, k) = "primary"
  BY FieldsRank DEF rankedPopulation
<1>2. ~OptedOut(u) BY <1>1 DEF InPool, OptedOut
<1> DEFINE board == {v \in SkillField(k) : SkillScoreOf(v, k) > SkillScoreOf(u, k)}
           market == {v \in {w \in PrimaryHolders(k) : InPool(w)} :
                        SkillScoreOf(v, k) > SkillScoreOf(u, k)}
           all == {v \in PrimaryHolders(k) : SkillScoreOf(v, k) > SkillScoreOf(u, k)}
<1>3. /\ Above(SkillField(k), LAMBDA v : SkillScoreOf(v, k), u) = 1 + Cardinality(board)
      /\ MySkillRank(u, k) = 1 + Cardinality(market)
      /\ Dossier(u)[k].rank = 1 + Cardinality(all)
  BY <1>1, <1>2, DossierRanks DEF Above, MySkillRank, SkillRank, RankAmong
<1>4. /\ board \subseteq market /\ market \subseteq all
      /\ all \in SUBSET Users /\ market \in SUBSET Users
  BY FieldsRank DEF rankedPopulation, PrimaryHolders
<1> HIDE DEF board, market, all
<1>5. Cardinality(board) \in Nat /\ Cardinality(market) \in Nat /\ Cardinality(all) \in Nat
      /\ Cardinality(board) <= Cardinality(market) /\ Cardinality(market) <= Cardinality(all)
  BY <1>4, FewerAhead
<1> QED BY <1>3, <1>5

\* A search gives whoever it finds the rank of the ordering it resolved to.
LEMMA SearchRanks ==
  ASSUME NEW p, NEW q, NEW u \in DOMAIN Search(p, q)
  PROVE  u \in rankedPopulation /\ Search(p, q)[u] = RankIn(q, u)
<1>1. CASE MayAsk(p, q)
  <2>1. u \in DOMAIN PageOf(p, q) /\ Search(p, q) = PageOf(p, q) BY <1>1 DEF Search
  <2>2. u \in visible(p, q) BY <2>1 DEF PageOf, PageIn, Restrict
  <2>3. PageOf(p, q)[u] = RankIn(q, u)
    <3>1. PICK rank : rank = [v \in visible(p, q) |-> RankIn(q, v)] OBVIOUS
    <3>2. PICK page : page = IF q.page <= 0 THEN 1 ELSE q.page OBVIOUS
    <3>3. PICK size : size = IF q.perPage <= 0 THEN DefaultPerPage ELSE q.perPage OBVIOUS
    <3>4. PageOf(p, q) = PageIn(rank, page, size) BY <3>1, <3>2, <3>3 DEF PageOf
    <3>5. u \in DOMAIN PageIn(rank, page, size) BY <2>1, <3>4
    <3>6. PageIn(rank, page, size)[u] = rank[u] BY <3>5 DEF PageIn, Restrict
    <3> QED BY <2>2, <3>1, <3>4, <3>6
  <2> QED BY <2>1, <2>2, <2>3 DEF visible, eligible
<1>2. CASE ~MayAsk(p, q) BY <1>2, EmptySeq DEF Search, Refused
<1> QED BY <1>1, <1>2

\* The skills of a question are a list.
LEMMA AskedSkills ==
  ASSUME NEW q \in Queries, resolveOrdering(q) = "skill"
  PROVE  q.skills # <<>> /\ Range(q.skills) = {q.skills[1]}
<1>1. PICK form \in Forms : WellFormedQuery(form) /\ q = parseSearchQuery(form) BY DEF Queries
<1>2. q.skills = IF "skills" \in DOMAIN form THEN form.skills ELSE <<>>
  BY <1>1, ParsedFields DEF knownFilters, Ungiven
<1>3. Len(q.skills) = 1 BY DEF resolveOrdering
<1>4. q.skills # <<>> BY <1>3, EmptySeq
<1>5. q.skills \in Seq(Range(q.skills)) BY <1>2, <1>4, RequestsAssumption
<1>6. DOMAIN q.skills = 1 .. 1 BY <1>3, <1>5, LenProperties
<1>7. DOMAIN q.skills = {1} BY <1>6
<1> QED BY <1>4, <1>7 DEF Range

\* A rank is one number wherever it is read, but for ties and for the three fields of a
\* skill, each wider than the one before.
THEOREM RanksAgreeEverywhere == Spec => []RanksAgree
<1>1. TypeOK => RanksAgree
  <2> SUFFICES ASSUME TypeOK PROVE RanksAgree OBVIOUS
  <2>1. ASSUME NEW u \in Users, MySkills(u).stale PROVE Rank(u) = NoScore
    <3>1. judged[u] \notin {0, active} BY <2>1 DEF MySkills
    <3>2. u \notin rankedPopulation BY <3>1 DEF rankedPopulation, scoreRubricVersion
    <3> QED BY <3>2 DEF Rank
  <2>2. ASSUME NEW a \in Asked, NEW u \in DOMAIN Search(a[1], a[2])
        PROVE  /\ resolveOrdering(a[2]) = "overall" =>
                    /\ Search(a[1], a[2])[u] = Above(OverallField, OverallOf, u)
                    /\ Search(a[1], a[2])[u] <= MaxPerPage =>
                         \A board \in Boards(OverallField, OverallOf) :
                           Search(a[1], a[2])[u] = Above(DOMAIN board, OverallOf, u)
               /\ resolveOrdering(a[2]) = "generalist" =>
                    Search(a[1], a[2])[u] = Above(GeneralistField, GeneralistOf, u)
               /\ \A k \in DOMAIN attachResultSkills(u, a[2]) :
                    /\ attachResultSkills(u, a[2])[k] = Dossier(u)[k].rank
                    /\ resolveOrdering(a[2]) = "skill" => Search(a[1], a[2])[u] = Dossier(u)[k].rank
    <3>1. PICK q : q = a[2] OBVIOUS
    <3>2. q \in Queries BY <3>1 DEF Asked
    <3>3. u \in rankedPopulation /\ Search(a[1], a[2])[u] = RankIn(q, u) BY <3>1, SearchRanks
    <3>4. ASSUME resolveOrdering(q) = "overall"
          PROVE  RankIn(q, u) = Above(OverallField, OverallOf, u)
      <4>1. RankIn(q, u) = 1 + Cardinality({v \in rankedPopulation : OverallOf(v) > OverallOf(u)})
        BY <3>4 DEF RankIn, RankAmong
      <4> QED BY <3>3, <4>1, SameAhead
    <3>5. ASSUME resolveOrdering(q) = "generalist"
          PROVE  RankIn(q, u) = Above(GeneralistField, GeneralistOf, u)
      <4>1. RankIn(q, u)
              = 1 + Cardinality({v \in rankedPopulation : GeneralistOf(v) > GeneralistOf(u)})
        BY <3>5 DEF RankIn, RankAmong
      <4> QED BY <3>3, <4>1, SameAhead
    <3>6. ASSUME NEW k \in DOMAIN attachResultSkills(u, q)
          PROVE  /\ attachResultSkills(u, q)[k] = Dossier(u)[k].rank
                 /\ resolveOrdering(q) = "skill" => RankIn(q, u) = Dossier(u)[k].rank
      <4>1. /\ k \in Skills /\ Standing(u, k) = "primary"
            /\ q.skills = <<>> \/ k \in Range(q.skills)
            /\ attachResultSkills(u, q)[k] = SkillRank(u, k)
        BY DEF attachResultSkills
      <4>2. Dossier(u)[k].rank = SkillRank(u, k) BY <4>1, DossierRanks
      <4>3. ASSUME resolveOrdering(q) = "skill" PROVE RankIn(q, u) = SkillRank(u, k)
        <5>1. k = q.skills[1] BY <3>2, <4>1, <4>3, AskedSkills
        <5> QED BY <4>3, <5>1 DEF RankIn, SkillRank
      <4> QED BY <4>1, <4>2, <4>3
    <3> QED BY <3>1, <3>3, <3>4, <3>5, <3>6, GapsAreShown
  <2>3. \A u \in OverallField : Rank(u) = Above(OverallField, OverallOf, u) BY FieldAgrees
  <2>4. ASSUME NEW board \in Boards(OverallField, OverallOf)
        PROVE  /\ \A u \in DOMAIN board :
                    /\ board[u] >= Rank(u)
                    /\ board[u] < Rank(u) + Cardinality({v \in OverallField :
                                                           OverallOf(v) = OverallOf(u)})
               /\ \A u \in OverallField \ DOMAIN board :
                    /\ Cardinality(DOMAIN board) = MaxPerPage
                    /\ \A v \in DOMAIN board : OverallOf(v) >= OverallOf(u)
    <3>1. \A u \in DOMAIN board : u \in OverallField /\ board[u] = BoardPlace(u) BY BoardIsCut
    <3> QED BY <3>1, BoardIsCut, FieldAgrees
  <2>5. ASSUME NEW k \in Skills, NEW u \in SkillField(k)
        PROVE  /\ Above(SkillField(k), LAMBDA v : SkillScoreOf(v, k), u) <= MySkillRank(u, k)
               /\ MySkillRank(u, k) <= Dossier(u)[k].rank
    BY SkillFields
  <2>6. \A k \in Skills : \A u \in SkillField(k) : u \in Users BY FieldsRank DEF rankedPopulation
  <2>7. \A a \in Asked : \A u \in DOMAIN Search(a[1], a[2]) : u \in Users
    BY SearchRanks DEF rankedPopulation
  <2> QED BY <2>1, <2>2, <2>3, <2>4, <2>5, <2>6, <2>7 DEF RanksAgree, Above
<1>2. DiscoveryInvariant => TypeOK BY DEF DiscoveryInvariant
<1> QED BY <1>1, <1>2, DiscoveryIsSound, PTL
==============================================================================
