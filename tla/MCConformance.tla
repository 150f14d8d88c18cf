---------------------------- MODULE MCConformance ----------------------------
(* Values of Conformance's constants for TLC: three of the twenty controls. *)
EXTENDS Conformance

SomeSettings ==
  {"idempotency_key", "replay_test", "retry_policy", "max_attempts", "slo",
   "slo_tracking"}

SomeControls ==
  {[severity |-> "high", evidence |-> {"idempotency_key", "replay_test"}],
   [severity |-> "high", evidence |-> {"retry_policy", "max_attempts"}],
   [severity |-> "medium", evidence |-> {"slo"}]}

SloNames == {<<"slo", "slo_tracking">>}
=============================================================================
