--------------------------- MODULE CircuitBreaker ---------------------------
(***************************************************************************)
(* The state machine of one provider's circuit (app/mesh.py,               *)
(* CircuitBreaker).  The methods of the class read and write one           *)
(* _CircuitState; here each is an operator from a circuit to a circuit, so *)
(* that the modules that call them decide when and in which order.  The    *)
(* class creates a circuit lazily (setdefault) and a circuit that was      *)
(* never created behaves like Fresh, so every provider has one from the    *)
(* start.                                                                  *)
(*                                                                         *)
(* Times are whole seconds of time.monotonic().                            *)
(***************************************************************************)
EXTENDS Integers

CONSTANTS Never,     \* opened_at of a circuit that was not opened (None)
          Policies   \* the policies operators may put into force

\* The fields of MeshPolicy that control flow, with the bounds models.py sets.
MeshPolicy == [retries: 0..5,
               circuit_failure_threshold: 1..20,
               recovery_seconds: 1..300]

ASSUME NeverIsNoTime == Never \notin Int
ASSUME PoliciesValid == Policies \subseteq MeshPolicy

Circuit == [failures: Nat,
            state: {"closed", "open", "half-open"},
            opened_at: Nat \cup {Never}]

Fresh == [failures |-> 0, state |-> "closed", opened_at |-> Never]

\* The answer of can_attempt at time t.
CanAttempt(c, policy, t) ==
  c.state = "open" =>
    /\ c.opened_at # Never
    /\ t - c.opened_at >= policy.recovery_seconds

\* Mutant: the recovery window is not looked at.
HastyCanAttempt(c, policy, t) ==
  IF c.state = "open" THEN [c EXCEPT !.state = "half-open"] ELSE c

\* What can_attempt leaves behind: asking about an open circuit whose recovery
\* window is over half-opens it, whether or not an attempt follows.
AfterCanAttempt(c, policy, t) ==
  IF c.state = "open" /\ CanAttempt(c, policy, t)
  THEN [c EXCEPT !.state = "half-open"]
  ELSE c

\* Mutant: opening forgets the time, so that the circuit never recovers.
UntimedFailure(c, policy, t) ==
  LET failures == c.failures + 1 IN
  IF c.state = "half-open" \/ failures >= policy.circuit_failure_threshold
  THEN [c EXCEPT !.failures = failures, !.state = "open"]
  ELSE [c EXCEPT !.failures = failures]

AfterFailure(c, policy, t) ==
  LET failures == c.failures + 1 IN
  IF c.state = "half-open" \/ failures >= policy.circuit_failure_threshold
  THEN [failures |-> failures, state |-> "open", opened_at |-> t]
  ELSE [c EXCEPT !.failures = failures]

=============================================================================
