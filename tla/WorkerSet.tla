------------------------------ MODULE WorkerSet ------------------------------
(***************************************************************************)
(* What the scheduler promises the rest of the engine: the devices probed,  *)
(* each with one timing, are those it was last asked for, and once the run  *)
(* context is cancelled there are none and never will be again.             *)
(* Module Scheduler implements it with goroutines; module Monitor uses it.  *)
(***************************************************************************)
EXTENDS Naturals

CONSTANTS
    Devices,
    Timings    \* what a probe loop is started with: address, interval, timeout

VARIABLES
    asked,     \* the devices the scheduler was last given, each with its timing
    probing,   \* the devices probed, each with the timing in use
    stopped

\* A table holds rows for some of its ids.
Table(Id, Row) == UNION { [ids -> Row] : ids \in SUBSET Id }

Init == asked = <<>> /\ probing = <<>> /\ stopped = FALSE

\* A device already probed with the same timing goes on undisturbed.
Apply(wanted) ==
    /\ asked' = wanted
    /\ probing' = IF stopped THEN <<>> ELSE wanted
    /\ UNCHANGED stopped

Stop == probing' = <<>> /\ stopped' = TRUE /\ UNCHANGED asked

Next == Stop \/ \E wanted \in Table(Devices, Timings) : Apply(wanted)
Spec == Init /\ [][Next]_<<asked, probing, stopped>>
=============================================================================
