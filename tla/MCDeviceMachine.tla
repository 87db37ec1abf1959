--------------------------- MODULE MCDeviceMachine ---------------------------
(* Three sets of settings to switch between: an impatient one, the program's *)
(* usual shape (several failures, several successes) and a muted one.        *)
EXTENDS DeviceMachine

MCEffectives ==
    { [failureThreshold |-> 1, recoveryThreshold |-> 1, notify |-> TRUE],
      [failureThreshold |-> 2, recoveryThreshold |-> 2, notify |-> TRUE],
      [failureThreshold |-> 2, recoveryThreshold |-> 1, notify |-> FALSE] }

=============================================================================
