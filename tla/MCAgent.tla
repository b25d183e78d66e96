------------------------------ MODULE MCAgent ------------------------------
EXTENDS AgentInvariant, TLC
Symmetry == Permutations(Request) \cup Permutations(Key)
=============================================================================
