---------------------------- MODULE MCCatalogue ----------------------------
EXTENDS CatalogueProperties, TLC

CONSTANTS ana, bo, tab1, tab2, phone, root, deputy, go, golang, Golang, wasm, noterm

\* Ana has two pages open.
MCOwner == (tab1 :> ana) @@ (tab2 :> ana) @@ (phone :> bo)

\* Golang is golang to the alias index and to the matching of proposals only.
MCFold == (go :> go) @@ (golang :> golang) @@ (Golang :> golang) @@ (wasm :> wasm)

MCSeeds == {[slug |-> go, aliases |-> {golang}]}

\* One has no name, one is taken, one is free, one is free to the eye, one is the second's alias.
MCEntries ==
  {[slug |-> noterm, aliases |-> {}], [slug |-> go, aliases |-> {}],
   [slug |-> wasm, aliases |-> {}],
   [slug |-> wasm, aliases |-> {Golang}], [slug |-> Golang, aliases |-> {wasm}]}

Alike == Permutations({tab1, tab2}) \cup Permutations({root, deputy})
=============================================================================
