---------------------------- MODULE MCSharedLog ----------------------------
EXTENDS SharedLog, TLC

\* Sessions are interchangeable among the writers, and among the others.
Symmetry == Permutations(Writers) \cup Permutations(Replica \ Writers)
=============================================================================
