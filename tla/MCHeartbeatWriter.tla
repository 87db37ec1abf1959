-------------------------- MODULE MCHeartbeatWriter --------------------------
(* Two devices, and sizes small enough for every one of them to be reached.  *)
EXTENDS HeartbeatWriter

CONSTANTS d1, d2

=============================================================================
