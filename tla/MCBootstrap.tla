---------------------------- MODULE MCBootstrap ----------------------------
EXTENDS Bootstrap, TLC

Symmetry == Permutations(Procs)
=============================================================================
