-------------------------- MODULE MCIngestRecovery --------------------------
(* Instances of IngestRecovery for TLC; the bounds are set in the .cfg.     *)
EXTENDS IngestRecovery, TLC

Symmetry == Permutations(Paths) \cup Permutations(Contents)
=============================================================================
