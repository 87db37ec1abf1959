----------------------------- MODULE MCEvaluator -----------------------------
(* Two devices, an impatient and a muted setting beside the usual one, and    *)
(* fault models from "nothing fails" to "everything may".                    *)
EXTENDS Evaluator, TLC

MCEffectives ==
    { [failureThreshold |-> 1, recoveryThreshold |-> 1, notify |-> TRUE],
      [failureThreshold |-> 2, recoveryThreshold |-> 1, notify |-> TRUE],
      [failureThreshold |-> 2, recoveryThreshold |-> 1, notify |-> FALSE] }

MCFaultModels == { {"stop"}, {"crash", "cap", "unaddressed"}, Faults }

Symmetry == Permutations(Devices)

=============================================================================
