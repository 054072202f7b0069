--------------------------- MODULE MCJournaledRun ---------------------------
(* The instance of JournaledRun for TLC, with the report of the run; its    *)
(* bounds are set in the .cfg.                                              *)
EXTENDS JournaledRun, RunReport
=============================================================================
