------------------------------ MODULE MCAccounts ------------------------------
EXTENDS Accounts, TLC
CONSTANTS c1, c2, c3, i1, i2, n1, n2, e1, e2, f1, f2
Symmetry == Permutations(Calls) \cup Permutations(Infos) \cup Permutations(Names) \cup Permutations(Events)
===============================================================================
