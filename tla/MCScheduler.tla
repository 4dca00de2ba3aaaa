----------------------------- MODULE MCScheduler -----------------------------
(* The scheduler on small instances: the constants are given in the cfg    *)
(* files.                                                                  *)
EXTENDS Scheduler
=============================================================================
