---------------------------- MODULE MCDiscovery ----------------------------
EXTENDS DiscoveryProperties

CONSTANTS ana, bo, cy, ours, theirs, fresh, go, rust, acme, job, india, rupees

\* The hirer of Acme has a contributor's account; theirs is independent, and fresh
\* is not verified yet.
MCShares == {<<ours, ana>>}
MCCompany == (ours :> acme) @@ (theirs :> NoCompany) @@ (fresh :> NoCompany)
MCRoleOwners == job :> acme
MCNameOrder == (ana :> 1) @@ (bo :> 2) @@ (cy :> 3)
MCStated == (ana :> {"remote"}) @@ (bo :> {"remote", "five years"}) @@ (cy :> {})

Scores(n, m) == [i \in 1 .. n |-> m]

\* Nothing; five good ones; and a weak sixth beside four in another skill.
MCUnscored == (go :> <<>>) @@ (rust :> <<>>)
Deep == (go :> Scores(5, 8000)) @@ (rust :> <<>>)
Broad == (go :> Append(Scores(5, 8000), 1000)) @@ (rust :> Scores(4, 9000))
MCDossiers == {MCUnscored, Deep, Broad}

\* A filter that does not exist, a page too long, and what hirers do ask.
MCForms ==
  {[unknown |-> TRUE],
   [perPage |-> 3],
   [skills |-> <<go>>, minSkill |-> 6000],
   [minGeneralist |-> 3000, inactive |-> TRUE],
   [name |-> bo, says |-> {{"remote"}, {"five years"}}],
   [forRole |-> job, minOverall |-> 5000],
   [perPage |-> 1]}

MCWants ==
  (ana :> [country |-> india, takes |-> {"remote", "contract"}, currency |-> rupees,
           yearly |-> 40, hourly |-> NoAmount, years |-> 6])
  @@ (bo :> [country |-> NoCountry, takes |-> {"remote", "onsite", "contract"},
             currency |-> NoMoney, yearly |-> 40, hourly |-> NoAmount, years |-> NoScore])
  @@ (cy :> [country |-> NoCountry, takes |-> {}, currency |-> NoMoney,
             yearly |-> NoAmount, hourly |-> NoAmount, years |-> 1])

Open == [role |-> job, opened |-> 1, minOverall |-> NoScore, minGeneralist |-> NoScore,
         minYears |-> NoScore, skills |-> <<>>, at |-> {[mode |-> "onsite", country |-> NoCountry]},
         engagement |-> "contract", currency |-> NoMoney, yearly |-> NoAmount, hourly |-> NoAmount]

\* No bar; a bar of zero in a skill; one of each kind; one opened with the first, for
\* whoever works in an office; and two that are refused.
MCOffers ==
  {Open,
   [Open EXCEPT !.opened = 2, !.skills = <<[skill |-> rust, min |-> 0]>>,
                !.engagement = "full_time", !.at = {[mode |-> "remote", country |-> india],
                                                    [mode |-> "onsite", country |-> NoCountry]}],
   [Open EXCEPT !.opened = 3, !.minOverall = 3000, !.minGeneralist = 0, !.minYears = 5,
                !.skills = <<[skill |-> go, min |-> 6000]>>,
                !.currency = rupees, !.yearly = 50, !.hourly = 1],
   [Open EXCEPT !.engagement = "full_time"],
   [Open EXCEPT !.skills = <<[skill |-> UnknownSkill, min |-> 0]>>],
   [Open EXCEPT !.skills = <<[skill |-> go, min |-> 0], [skill |-> go, min |-> 1]>>]}
=============================================================================
