--------------------------- MODULE MCSessionTake ---------------------------
EXTENDS SessionTake, TLC

CONSTANTS h1, h2, t1

Symmetry == Permutations({h1, h2})
=============================================================================
