------------------------------ MODULE Openings ------------------------------
(***************************************************************************)
(* What a contributor reads of the adverts (postgres/opening.go,           *)
(* service/role.go, controller/roles.go): those whose bar they clear by    *)
(* what the platform measured, at a place and in a shape they would take,  *)
(* and a count of the rest.  Which adverts are live is Hiring's.           *)
(***************************************************************************)
EXTENDS Discovery

CONSTANTS
  Offers,     \* adverts as hirers write them
  NoCountry,  \* a country nobody stated, a currency, an amount
  NoMoney,
  NoAmount,
  Wants       \* of each contributor, what they would take

\* A skill bar is written by slug; what is no skill is in no catalogue.
UnknownSkill == "unknown"

ASSUME OpeningsAssumption ==
  /\ IsFiniteSet(Offers)
  /\ \A o \in Offers : o.role \in DOMAIN RoleOwners /\ o.at # {} /\ o.opened \in Int
  /\ DOMAIN Wants = Users

-----------------------------------------------------------------------------
(* The bar                                                                 *)

resolveSkills(o) == \A i \in DOMAIN o.skills : o.skills[i].skill \in Skills

validateOpening(o) ==
  /\ o.minOverall \in {NoScore} \cup 0 .. Top
  /\ o.minGeneralist >= NoScore
  /\ o.minYears \in {NoScore} \cup 0 .. 80
  /\ \A i \in DOMAIN o.skills : o.skills[i].min \in 0 .. Top
  /\ \A i, j \in DOMAIN o.skills : i # j => o.skills[i].skill # o.skills[j].skill

Adverts == {o \in Offers : validateOpening(o) /\ resolveSkills(o)}

\* A skill nobody measured, or holds too little of, clears no bar, not even zero.
ClearsBar(u, o) ==
  /\ Clears(OverallOf(u), o.minOverall)
  /\ Clears(GeneralistOf(u), o.minGeneralist)
  /\ Clears(Wants[u].years, o.minYears)
  /\ \A i \in DOMAIN o.skills :
       /\ Standing(u, o.skills[i].skill) = "primary"
       /\ SkillScoreOf(u, o.skills[i].skill) >= o.skills[i].min

-----------------------------------------------------------------------------
(* The place, the shape and the pay                                        *)

\* Full time says nothing of where: the mode of the entry does.
Shape(engagement, mode) == IF engagement = "full_time" THEN mode ELSE engagement

\* One entry has to do for both.
Reaches(o, w) ==
  \E l \in o.at :
    /\ l.mode = "onsite" \/ l.country \in {NoCountry, w.country}
    /\ Shape(o.engagement, l.mode) \in w.takes

AtLeast(offered, asked) == NoAmount \in {offered, asked} \/ offered >= asked

\* Two currencies are not compared.
Pays(o, w) ==
  \/ w.currency = NoMoney \/ o.currency # w.currency
  \/ AtLeast(o.yearly, w.yearly) /\ AtLeast(o.hourly, w.hourly)

clearedOpenings(u, live) ==
  {o \in live : ClearsBar(u, o) /\ Reaches(o, Wants[u]) /\ Pays(o, Wants[u])}

-----------------------------------------------------------------------------
(* The page                                                                *)

DefaultOpenings == 25
MaxOpenings == 100

countsOnly(u, live) ==
  [matched |-> Cardinality(clearedOpenings(u, live)),
   missed |-> Cardinality(live) - Cardinality(clearedOpenings(u, live))]

\* The newest role first, and nothing between two opened at one moment: any
\* of these may be answered.  Both counts come with every page, an empty one too.
Matching(u, live, asked) ==
  LET newest == [o \in clearedOpenings(u, live) |-> -o.opened]
      limit == IF asked.limit \in 1 .. MaxOpenings THEN asked.limit ELSE DefaultOpenings
      offset == IF asked.offset < 0 THEN 0 ELSE asked.offset
  IN {[counts |-> countsOnly(u, live), openings |-> page] : page \in Pages(newest, offset, limit)}

\* A contributor's own screen; a form has what was typed of the two numbers.
myOpenings(p, live, form) ==
  IF /\ p \in Users
     /\ \A f \in DOMAIN form : form[f] >= 0
     /\ "limit" \in DOMAIN form => form.limit \in 1 .. MaxOpenings
  THEN Matching(p, live,
                [limit |-> IF "limit" \in DOMAIN form THEN form.limit ELSE DefaultOpenings,
                 offset |-> IF "offset" \in DOMAIN form THEN form.offset ELSE 0])
  ELSE {Refused}
=============================================================================
