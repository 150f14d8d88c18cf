---------------------------- MODULE MCMeshEngine ----------------------------
(* Values of MeshEngine's constants for TLC. *)
EXTENDS MeshEngine

CONSTANTS s1, s2

\* One policy retries and waits one second, the other fails fast, opens at the
\* first failure and waits two.
Patient == [retries |-> 1, circuit_failure_threshold |-> 2, recovery_seconds |-> 1]
Strict == [retries |-> 0, circuit_failure_threshold |-> 1, recovery_seconds |-> 2]
BothPolicies == {Patient, Strict}

\* The registry ranks both providers, or knows only the second.
MixedLists == {<<s1, s2>>, <<s2>>}
=============================================================================
