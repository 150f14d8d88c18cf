--------------------------- MODULE PacketLifecycle ---------------------------
(***************************************************************************)
(* What the dispatch fabric (app/dispatch.py) promises clients that wait   *)
(* for their answers: every request about a packet takes effect in one     *)
(* step, and nothing but these steps happens to it.  DispatchFabric        *)
(* implements this with threads and without a lock.                        *)
(***************************************************************************)
EXTENDS Naturals, Sequences

CONSTANT Packets

VARIABLES
  phase,  \* the state that clients see
  proven  \* how many organs have signed

vars == <<phase, proven>>

\* The phase after each signature.
Stages == <<"VERIFYING", "PROVING", "REMEMBERING", "RECONCILING", "COMPLETED">>

Executable == {"DISPATCHED", "RETRYABLE"}
Provable == {"EXECUTED", "VERIFYING", "PROVING", "REMEMBERING", "RECONCILING"}

Move(p, from, to) == phase[p] \in from /\ phase' = [phase EXCEPT ![p] = to]

Accept(p) == Move(p, {"absent"}, "DISPATCHED") /\ UNCHANGED proven
Wait(p) == Move(p, Executable, "AWAITING_EXECUTOR") /\ UNCHANGED proven
Start(p) == Move(p, Executable, "RUNNING") /\ UNCHANGED proven
End(p) == \E end \in {"EXECUTED", "FAILED"} :
            Move(p, {"RUNNING"}, end) /\ UNCHANGED proven

\* A packet executed anew goes on from the signatures it has.
Sign(p) ==
  /\ proven[p] < Len(Stages)
  /\ Move(p, Provable, Stages[proven[p] + 1])
  /\ proven' = [proven EXCEPT ![p] = @ + 1]

Fail(p) ==
  /\ phase[p] # "absent"
  /\ \E end \in {"RETRYABLE", "FAILED"} : phase' = [phase EXCEPT ![p] = end]
  /\ UNCHANGED proven

Init ==
  /\ phase = [p \in Packets |-> "absent"]
  /\ proven = [p \in Packets |-> 0]

Next == \E p \in Packets :
  Accept(p) \/ Wait(p) \/ Start(p) \/ End(p) \/ Sign(p) \/ Fail(p)

Spec == Init /\ [][Next]_vars
=============================================================================
