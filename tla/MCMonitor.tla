----------------------------- MODULE MCMonitor -----------------------------
(* A small instance of Monitor.                                            *)
EXTENDS Monitor
CONSTANTS d1, d2, g1, slow, fast, h1, h2
============================================================================
