------------------------------ MODULE MCHiring ------------------------------
EXTENDS HiringProperties, TLC

CONSTANTS ana, bo, owner, member

\* The owner has a contributor's account of her own.
MCShares == {<<owner, ana>>}

\* Nothing tells two requests apart.
Symmetry == Permutations(Requests)
=============================================================================
