--------------------------- MODULE CircuitContract ---------------------------
(***************************************************************************)
(* What the circuit breaker promises about each provider, whoever drives   *)
(* it: the mesh calls, the operator and the policies are abstracted to     *)
(* "some policy allows this".  MeshEngine implements it.                   *)
(***************************************************************************)
EXTENDS Integers

CONSTANTS Services, Policies, Never

VARIABLES now, phase, strikes, tripped

circuitVars == <<phase, strikes, tripped>>

Init ==
  /\ now = 0
  /\ phase = [s \in Services |-> "closed"]
  /\ strikes = [s \in Services |-> 0]
  /\ tripped = [s \in Services |-> Never]

Keep(s) ==
  /\ phase'[s] = phase[s]
  /\ strikes'[s] = strikes[s]
  /\ tripped'[s] = tripped[s]

\* A failure that some policy still tolerates; never one of a half-open trial.
Strike(s) ==
  /\ phase[s] # "half-open"
  /\ phase'[s] = phase[s]
  /\ strikes'[s] = strikes[s] + 1
  /\ \E p \in Policies : strikes'[s] < p.circuit_failure_threshold
  /\ tripped'[s] = tripped[s]

\* A failure at some policy's threshold opens the circuit, or opens it again.
Trip(s) ==
  /\ phase'[s] = "open"
  /\ strikes'[s] = strikes[s] + 1
  /\ \E p \in Policies : strikes'[s] >= p.circuit_failure_threshold
  /\ tripped'[s] = now

\* Some policy's recovery window has passed since the circuit last opened.
Recover(s) ==
  /\ phase[s] = "open"
  /\ \E p \in Policies : now - tripped[s] >= p.recovery_seconds
  /\ phase'[s] = "half-open"
  /\ strikes'[s] = strikes[s]
  /\ tripped'[s] = tripped[s]

\* An answer or the operator closes the circuit, forgetting its failures.
Close(s) ==
  /\ phase'[s] = "closed"
  /\ strikes'[s] = 0
  /\ tripped'[s] = Never

Advance == now' > now /\ UNCHANGED circuitVars

Next ==
  \/ Advance
  \/ /\ UNCHANGED now
     /\ \A s \in Services :
          Keep(s) \/ Strike(s) \/ Trip(s) \/ Recover(s) \/ Close(s)

Spec == Init /\ [][Next]_<<now, circuitVars>>

=============================================================================
