-------------------------- MODULE MCUpdateChecker --------------------------
(* A small instance of UpdateChecker.                                      *)
EXTENDS UpdateChecker
CONSTANTS r1, r2
============================================================================
