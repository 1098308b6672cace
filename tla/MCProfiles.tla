----------------------------- MODULE MCProfiles -----------------------------
EXTENDS ProfileProperties, ScoringProperties, TLC

CONSTANTS ana, bo, old, new, hers

\* Two of Ana's and one of Bo's: each is a stranger to the other.
MCAuthor == (old :> ana) @@ (new :> ana) @@ (hers :> bo)

\* Anything first; the latest one is Ana's new one, or blank.
MCForms == {f \in Fields : f.latest \in {NoLink, new}}

\* The arithmetic a profile's readiness reports, on its grid of inputs.
ASSUME ScoringChecked == EvidenceOnlyHelps /\ BetterWorkNeverCosts /\ BetterNeverCosts /\ WaitsDouble
=============================================================================
