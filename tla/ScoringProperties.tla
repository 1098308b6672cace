------------------------- MODULE ScoringProperties -------------------------
(* What a contributor may count on whatever they are scored for.  Each is  *)
(* checked for every input a small grid of marks gives.                    *)
EXTENDS Scoring

Marks == {0, 4000, 8000}

Measures == {0, 2500, Top}

Marked == [score : {4000, 9000}, standing : {"primary", "secondary"},
              mode : {"standard", "judged_only"}]

Lists == UNION {[1 .. n -> Marked] : n \in 1 .. 3}

MeasuredReach == UNION {[M -> Measures] : M \in SUBSET DOMAIN reachWeights}

\* The most any five of them add up to.
BestFive(s) ==
  LET picks == {P \in SUBSET DOMAIN s : Cardinality(P) <= PrimaryThreshold}
      total(P) == SumFunctionOnSet(s, P)
  IN total(CHOOSE P \in picks : \A Q \in picks : total(P) >= total(Q))

(* More evidence never costs anything: a skill is worth a fifth of the     *)
(* best five pull requests there are, so a weak sixth cannot lower it, and *)
(* a metric nobody could measure does not count as nothing measured, so a  *)
(* repository's reach stays between its measures (PRComponent, Reach).     *)
EvidenceOnlyHelps ==
  /\ \A n \in 0 .. PrimaryThreshold + 1 : \A s \in [1 .. n -> Marks] :
       PRComponent(s) = BestFive(s) \div PrimaryThreshold
  /\ \A f \in MeasuredReach :
       f # << >> =>
         /\ \E m \in DOMAIN f : f[m] <= Reach(f, FALSE)
         /\ \E m \in DOMAIN f : Reach(f, FALSE) <= f[m]

Judgements == [disqualified : BOOLEAN,
               dimensions : UNION {[D -> {0, 600, Top}] : D \in SUBSET DOMAIN dimensionWeights}]

ScoreIn(j, popular, mode) == PRScore(j, popular, Engagement([reviews |-> popular]), mode)

(* Better work never earns less: a judgement that is as good in every      *)
(* dimension and better in one scores no lower for the skill nominated or  *)
(* for one that shares in it, on both sides of the floor, and popularity   *)
(* alone lifts nothing off zero (PRScore, Quality, SecondaryPRScore).      *)
BetterWorkNeverCosts ==
  \A j \in Judgements, mode \in {"standard", "judged_only"}, d \in DOMAIN dimensionWeights :
    d \in DOMAIN j.dimensions =>
      LET better == [j EXCEPT !.dimensions[d] = Top] IN
      /\ \A popular \in {0, Top} :
           /\ ScoreIn(j, popular, mode) \in 0 .. ScoreIn(better, popular, mode)
           /\ ScoreIn(better, popular, mode) <= Top
           /\ SecondaryPRScore(ScoreIn(j, popular, mode), 150)
                <= SecondaryPRScore(ScoreIn(better, popular, mode), 150)
      /\ ScoreIn(j, 0, mode) = 0 /\ ScoreIn(j, Top, mode) > 0 =>
           ~j.disqualified /\ \E e \in DOMAIN j.dimensions : j.dimensions[e] > QualityFloor

Raised(skills, i) == [skills EXCEPT ![i].score = 9500]

(* The two boards agree on who is on them, depth stays within 0..100 and   *)
(* never below the best skill, and a better skill never costs a place on   *)
(* either board, for the second skill as for the first and for a secondary *)
(* one that becomes the best of the list (Overall, Generalist).            *)
BetterNeverCosts ==
  \A skills \in Lists :
    /\ (Overall(skills) = NoScore) = (Generalist(skills) = NoScore)
    /\ hasPrimary(skills) =>
         /\ Overall(skills) \in OrderedValues(skills)[1] .. Top
         /\ \A i \in DOMAIN skills :
              /\ Overall(Raised(skills, i)) >= Overall(skills)
              /\ Generalist(Raised(skills, i)) >= Generalist(skills)

\* n refusals of one contributor's disputes, each on the day it could be made.
Refused[n \in Nat] ==
  IF n = 0 THEN [rejections |-> 0, tier |-> 0, until |-> 0]
  ELSE RecordRejection(Refused[n - 1], Refused[n - 1].until)

Wait(n) == Refused[n].until - Refused[n - 1].until

(* Two refusals in a row cost no wait; every third one does, twice the one *)
(* before, and never more than a year; and whoever waits is told so before *)
(* they are told that another dispute is open (Cooldown, BlockedBy).       *)
WaitsDouble ==
  \A n \in 1 .. 21 :
    /\ (Wait(n) = 0) = (n % RejectionsBeforeCooldown # 0)
    /\ Wait(n) <= MaxCooldownDays
    /\ n > 3 /\ Wait(n) # 0 => Wait(n) \in {2 * Wait(n - 3), MaxCooldownDays}
    /\ Wait(n) # 0 => BlockedBy(Refused[n], TRUE, Refused[n].until - 1) = "cooldown"
=============================================================================
