--------------------------- MODULE MCRaftConfig ---------------------------
EXTENDS RaftConfig, TLC

Symmetry == Permutations(Nodes) \cup Permutations(Calls)
=============================================================================
