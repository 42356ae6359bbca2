---------------------------- MODULE MC_Scheduler ----------------------------
(* One CA.                                                                 *)
EXTENDS Scheduler
=============================================================================
