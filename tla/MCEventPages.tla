----------------------------- MODULE MCEventPages -----------------------------
EXTENDS EventPages, TLC
CONSTANTS c1, c2, u1, u2
Symmetry == Permutations(Calls)
OwnOrOther == {<<u1>>, <<None>>}
OwnOfTwo == {<<u1, u2>>}
===============================================================================
