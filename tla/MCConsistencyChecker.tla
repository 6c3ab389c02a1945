---------------------- MODULE MCConsistencyChecker ----------------------
EXTENDS ConsistencyChecker, TLC

Symmetry == Permutations(Writers) \cup Permutations(Readers)
=============================================================================
