---------------------------- MODULE MCScheduler ----------------------------
(* A small instance of Scheduler.                                          *)
EXTENDS Scheduler
CONSTANTS d1, d2, slow, fast, c1
============================================================================
