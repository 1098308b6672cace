------------------------------ MODULE Scoring ------------------------------
(***************************************************************************)
(* The arithmetic of a score (internal/scoring): a pull request's, a       *)
(* skill's and a contributor's two.  Numbers are hundredths of a point,    *)
(* rounded down where the code divides, so that 100 points are Top.        *)
(***************************************************************************)
EXTENDS Integers, Sequences, SequencesExt, Functions

Top == 10000

NoScore == -1       \* SQL's null: never measured, which is not zero

PrimaryThreshold == 5

clamp(v) == IF v < 0 THEN 0 ELSE IF v > Top THEN Top ELSE v

Sum(f) == SumFunction(f)

mean(values) == IF values = <<>> THEN 0 ELSE Sum(values) \div Len(values)

Descending(s) == SortSeq(s, LAMBDA a, b : a > b)

-----------------------------------------------------------------------------
(* A measure against the platform's maxima, as a share of Top              *)

dimensionWeights == [substance |-> 30, complexity |-> 25, conversation_quality |-> 20,
                     craft |-> 15, skill_specificity |-> 10]

reachWeights == [repo_stars |-> 35, repo_forks |-> 15, repo_contributors |-> 20,
                 dependents |-> 20, package_downloads |-> 10]

engagementWeights == [review_comments |-> 40, reviews |-> 30, participants |-> 30]

\* The logarithm, to whole powers of two.
Log(n) == CHOOSE k \in 0 .. 31 : 2 ^ k <= n /\ n < 2 ^ (k + 1)

\* By linear interpolation between the sampled boundaries, in ascending order.
Percentile(value, q) ==
  IF q = <<>> \/ value <= q[1] THEN 0
  ELSE IF value > Last(q) THEN Top
  ELSE LET i == CHOOSE k \in 2 .. Len(q) : q[k - 1] < value /\ value <= q[k]
       IN (Top * (i - 2) + (Top * (value - q[i - 1])) \div (q[i] - q[i - 1])) \div (Len(q) - 1)

Norm(value, max, q) ==
  LET v == IF value > max THEN max ELSE value
  IN IF v <= 0 THEN 0
     ELSE ((Top * Log(1 + v)) \div Log(1 + max) + Percentile(v, q)) \div 2

\* A metric that was not measured is left out, and its weight with it.
Weighed(weights, normed) ==
  IF DOMAIN normed = {} THEN 0
  ELSE Sum([m \in DOMAIN normed |-> weights[m] * normed[m]])
         \div Sum([m \in DOMAIN normed |-> weights[m]])

Reach(normed, maintainerValidated) ==
  LET r == Weighed(reachWeights, normed)
  IN clamp(IF maintainerValidated THEN (r * 5) \div 4 ELSE r)

Engagement(normed) == Weighed(engagementWeights, normed)

-----------------------------------------------------------------------------
(* A pull request, for one skill                                           *)

QualityFloor == 500

\* A dimension the judgement left out counts as zero.
Quality(dimensions) ==
  clamp(Sum([d \in DOMAIN dimensions |-> dimensionWeights[d] * dimensions[d]]) \div 100)

meanDimension(dimensions) ==
  IF DOMAIN dimensions = {} THEN 0 ELSE Sum(dimensions) \div Cardinality(DOMAIN dimensions)

PRScore(j, r, e, mode) ==
  IF j.disqualified \/ meanDimension(j.dimensions) < QualityFloor THEN 0
  ELSE IF mode = "judged_only" THEN clamp((80 * Quality(j.dimensions) + 20 * r) \div 100)
  ELSE clamp((70 * Quality(j.dimensions) + 20 * r + 10 * e) \div 100)

\* The share, in hundredths, is not capped.
SecondaryPRScore(primaryScore, share) ==
  LET s == (primaryScore * share) \div 100 IN IF s < 0 THEN 0 ELSE s

-----------------------------------------------------------------------------
(* A skill                                                                 *)

\* (Fault: a sixth pull request is averaged in.)
MeanOfAll(scores) ==
  IF Len(scores) >= PrimaryThreshold THEN mean(scores)
  ELSE Sum(scores) \div PrimaryThreshold

PRComponent(scores) ==
  IF Len(scores) >= PrimaryThreshold
  THEN mean(SubSeq(Descending(scores), 1, PrimaryThreshold))
  ELSE Sum(scores) \div PrimaryThreshold

SkillScore(prComponent, project, mode) ==
  IF mode = "judged_only" THEN clamp(prComponent)
  ELSE clamp((85 * prComponent + 15 * project) \div 100)

-----------------------------------------------------------------------------
(* A contributor                                                           *)

SkillValue(s) ==
  LET v == IF s.standing = "secondary" THEN s.score \div 2 ELSE s.score
  IN IF s.mode = "judged_only" THEN clamp((v * 6) \div 5) ELSE v

OrderedValues(skills) == Descending([i \in DOMAIN skills |-> SkillValue(skills[i])])

hasPrimary(skills) == \E i \in DOMAIN skills : skills[i].standing = "primary"

\* Each counts half the one before it.
Damped(values) == LET n == Len(values) IN [i \in 2 .. n |-> 2 ^ (n - i)]

breadth(values) ==
  IF Len(values) < 2 THEN 0
  ELSE LET w == Damped(values)
       IN Sum([i \in DOMAIN w |-> w[i] * values[i]]) \div Sum(w)

\* Half the distance to Top, at most.
Overall(skills) ==
  LET v == OrderedValues(skills)
  IN IF ~hasPrimary(skills) THEN NoScore
     ELSE v[1] + ((Top - v[1]) * breadth(v)) \div (2 * Top)

\* A thousandth part of 1 / sqrt(i).
RootShare(i) == CHOOSE r \in 1 .. 1000 : r * r * i <= 1000000 /\ 1000000 < (r + 1) * (r + 1) * i

Generalist(skills) ==
  LET v == OrderedValues(skills)
  IN IF ~hasPrimary(skills) THEN NoScore
     ELSE Sum([i \in DOMAIN v |-> (v[i] * RootShare(i)) \div 1000])

-----------------------------------------------------------------------------
(* Rubrics, and the wait after refused disputes, in days                   *)

KnownRubricVersions == {1, 2}

MaxCooldownDays == 365

RejectionsBeforeCooldown == 3

CooldownFor(tier) ==
  LET days == 28 * 2 ^ (tier - 1)
  IN IF tier <= 0 THEN 0 ELSE IF days > MaxCooldownDays THEN MaxCooldownDays ELSE days

RecordRejection(c, now) ==
  IF c.rejections + 1 < RejectionsBeforeCooldown
  THEN [c EXCEPT !.rejections = @ + 1]
  ELSE [rejections |-> 0, tier |-> c.tier + 1, until |-> now + CooldownFor(c.tier + 1)]

CanRequest(c, now) == c.until <= now

BlockedBy(c, pending, now) ==
  IF ~CanRequest(c, now) THEN "cooldown" ELSE IF pending THEN "pending_request" ELSE "not_blocked"
=============================================================================
