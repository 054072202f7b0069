------------------------ MODULE MCOverlappingIngests ------------------------
(* Instance of OverlappingIngests for TLC; the bounds are set in the .cfg.  *)
EXTENDS OverlappingIngests, TLC

Symmetry == Permutations(Paths) \cup Permutations(Contents)
=============================================================================
