-------------------------- MODULE MCAccountAccess --------------------------
EXTENDS AccountAccess, TLC
Symmetry == Permutations(Requests) \cup Permutations(Passwords)
=============================================================================
