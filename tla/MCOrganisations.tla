--------------------------- MODULE MCOrganisations ---------------------------
(* One company's name, whoever asks for it, and the names its people want. *)
EXTENDS OrganisationProperties, TLC

\* Nothing tells two usernames, or two requests, apart.
Symmetry == Permutations(Names) \cup Permutations(Requests)
=============================================================================
