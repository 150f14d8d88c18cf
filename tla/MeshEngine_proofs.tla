-------------------------- MODULE MeshEngine_proofs --------------------------
(***************************************************************************)
(* Theorems about the mesh engine for any calls, providers and policies:   *)
(* type correctness, that no circuit is locked for good, and that the mesh *)
(* implements the contract of the circuit breaker.                         *)
(***************************************************************************)
EXTENDS MeshEngine, TLAPS

-----------------------------------------------------------------------------
(* The circuit breaker                                                     *)

\* The part of CircuitsCanRecover that is about one circuit, at time t.
Recoverable(c, t) ==
  IF c.state = "closed"
  THEN /\ c.opened_at = Never
       /\ \E p \in Policies : c.failures < p.circuit_failure_threshold
  ELSE /\ c.opened_at \in 0..t
       /\ \E p \in Policies : c.failures >= p.circuit_failure_threshold

\* What the methods of the breaker make of circuit a at time t, under some
\* policy.
Touched(a, t) ==
  {a, Fresh} \cup {AfterFailure(a, p, t) : p \in Policies}
             \cup {AfterCanAttempt(a, p, t) : p \in Policies}

LEMMA PolicyFields ==
  ASSUME NEW p \in Policies
  PROVE  /\ p.retries \in Nat
         /\ p.circuit_failure_threshold \in Nat
         /\ p.circuit_failure_threshold >= 1
         /\ p.recovery_seconds \in Nat
BY PoliciesValid DEF MeshPolicy

LEMMA FreshCircuit ==
  /\ Fresh \in Circuit
  /\ \A t \in Nat : Recoverable(Fresh, t)
<1>1. Fresh \in Circuit
  BY DEF Fresh, Circuit
<1>2. DefaultPolicy.circuit_failure_threshold > 0
  BY DefaultPolicyValid, PolicyFields
<1> QED BY <1>1, <1>2, DefaultPolicyValid DEF Recoverable, Fresh

\* Whatever the breaker does with a circuit that can recover, it still can.
LEMMA TouchedCircuit ==
  ASSUME NEW a \in Circuit, NEW t \in Nat, NEW b \in Touched(a, t)
  PROVE  /\ b \in Circuit
         /\ Recoverable(a, t) => Recoverable(b, t)
<1>1. CASE b = a
  BY <1>1
<1>2. CASE b = Fresh
  BY <1>2, FreshCircuit
<1>3. ASSUME NEW p \in Policies, b = AfterFailure(a, p, t)
      PROVE  b \in Circuit /\ (Recoverable(a, t) => Recoverable(b, t))
  <2>1. p.circuit_failure_threshold \in Nat
    BY PolicyFields
  <2>2. a.failures \in Nat /\ a.opened_at \in Nat \cup {Never}
        /\ a.state \in {"closed", "open", "half-open"}
    BY DEF Circuit
  <2>3. CASE a.state = "half-open" \/ a.failures + 1 >= p.circuit_failure_threshold
    <3>1. b = [failures |-> a.failures + 1, state |-> "open", opened_at |-> t]
      BY <1>3, <2>3 DEF AfterFailure
    <3>2. b \in Circuit
      BY <2>2, <3>1 DEF Circuit
    <3>3. ASSUME Recoverable(a, t) PROVE Recoverable(b, t)
      <4>1. \E q \in Policies : a.failures + 1 >= q.circuit_failure_threshold
        <5>1. CASE a.state = "half-open"
          <6>1. PICK q \in Policies : a.failures >= q.circuit_failure_threshold
            BY <3>3, <5>1 DEF Recoverable
          <6> QED BY <2>2, <6>1, PolicyFields
        <5>2. CASE a.state # "half-open"
          BY <2>3, <5>2
        <5> QED BY <5>1, <5>2
      <4> QED BY <3>1, <4>1 DEF Recoverable
    <3> QED BY <3>2, <3>3
  <2>4. CASE ~(a.state = "half-open" \/ a.failures + 1 >= p.circuit_failure_threshold)
    <3>1. b = [a EXCEPT !.failures = a.failures + 1]
      BY <1>3, <2>4 DEF AfterFailure
    <3>2. /\ b \in Circuit
          /\ b.failures = a.failures + 1
          /\ b.state = a.state /\ b.opened_at = a.opened_at
      BY <2>2, <3>1 DEF Circuit
    <3>3. a.failures + 1 < p.circuit_failure_threshold
      BY <2>1, <2>2, <2>4
    <3>4. ASSUME Recoverable(a, t) PROVE Recoverable(b, t)
      <4>1. CASE a.state = "closed"
        BY <3>2, <3>3, <3>4, <4>1 DEF Recoverable
      <4>2. CASE a.state # "closed"
        <5>1. PICK q \in Policies : a.failures >= q.circuit_failure_threshold
          BY <3>4, <4>2 DEF Recoverable
        <5>2. b.failures >= q.circuit_failure_threshold
          BY <2>2, <3>2, <5>1, PolicyFields
        <5> QED BY <3>2, <3>4, <4>2, <5>2 DEF Recoverable
      <4> QED BY <4>1, <4>2
    <3> QED BY <3>2, <3>4
  <2> QED BY <2>3, <2>4
<1>4. ASSUME NEW p \in Policies, b = AfterCanAttempt(a, p, t)
      PROVE  b \in Circuit /\ (Recoverable(a, t) => Recoverable(b, t))
  <2>1. CASE b = a
    BY <2>1
  <2>2. CASE b # a
    <3>1. a.state = "open" /\ b = [a EXCEPT !.state = "half-open"]
      BY <1>4, <2>2 DEF AfterCanAttempt
    <3>2. /\ b \in Circuit
          /\ b.failures = a.failures
          /\ b.state = "half-open" /\ b.opened_at = a.opened_at
      BY <3>1 DEF Circuit
    <3> QED BY <3>1, <3>2 DEF Recoverable
  <2> QED BY <2>1, <2>2
<1> QED BY <1>1, <1>2, <1>3, <1>4 DEF Touched

-----------------------------------------------------------------------------
(* Type correctness                                                        *)

\* A call is at no candidate before its first admission, and never past the
\* last one.
PositionOK ==
  \A c \in Calls :
    /\ position[c] <= Len(candidates[c])
    /\ stage[c] \in {"new", "invoke-registry", "resolve-registry",
                     "publish-started"} => position[c] = 0

TypeInv == TypeOK /\ PositionOK

LEMMA InitTypeInv == Init => TypeInv
<1> SUFFICES ASSUME Init PROVE TypeInv
  OBVIOUS
<1>1. TypeOK
  BY DefaultPolicyValid, FreshCircuit
     DEF Init, TypeOK, Stages, Outcomes, Entry, EventTypes
<1>2. PositionOK
  BY DEF Init, PositionOK
<1> QED BY <1>1, <1>2 DEF TypeInv

\* Asking the breaker twice at one time is asking it once.
LEMMA AskedTwice ==
  ASSUME NEW a, NEW p, NEW t
  PROVE  AfterCanAttempt(AfterCanAttempt(a, p, t), p, t) = AfterCanAttempt(a, p, t)
<1>1. CASE AfterCanAttempt(a, p, t) = a
  BY <1>1
<1>2. CASE AfterCanAttempt(a, p, t) # a
  <2>1. a.state = "open" /\ AfterCanAttempt(a, p, t) = [a EXCEPT !.state = "half-open"]
    BY <1>2 DEF AfterCanAttempt
  <2> QED BY <2>1 DEF AfterCanAttempt
<1> QED BY <1>1, <1>2

\* Leaving a candidate, with known for the circuits, touches none but by asking
\* the breaker.
LEMMA NextCandidateCircuits ==
  ASSUME TypeOK, NEW c \in Calls, NEW known \in [Services -> Circuit],
         NextCandidate(c, known)
  PROVE  /\ now' = now
         /\ circuits' \in [Services -> Circuit]
         /\ \A s \in Services :
              circuits'[s] \in {known[s], AfterCanAttempt(known[s], held[c], now)}
<1>1. now' = now
  BY DEF NextCandidate
<1>2. ASSUME NEW i \in DOMAIN candidates[c], EnterCandidate(c, known, i)
      PROVE  /\ circuits' \in [Services -> Circuit]
             /\ \A s \in Services :
                  circuits'[s] \in {known[s], AfterCanAttempt(known[s], held[c], now)}
  <2>1. candidates[c][i] \in Services
    BY DEF TypeOK
  <2>2. circuits' = [known EXCEPT ![candidates[c][i]] =
                       AfterCanAttempt(known[candidates[c][i]], held[c], now)]
    BY <1>2 DEF EnterCandidate
  <2>3. AfterCanAttempt(known[candidates[c][i]], held[c], now) \in Circuit
    BY <2>1, TouchedCircuit DEF Touched, TypeOK
  <2> QED BY <2>1, <2>2, <2>3
<1>3. CASE ExhaustCandidates(c, known)
  BY <1>1, <1>3 DEF ExhaustCandidates
<1> QED BY <1>1, <1>2, <1>3 DEF NextCandidate

\* Every step of the mesh does to a circuit only what the breaker may do, and
\* time passes only while the circuits rest.
LEMMA StepCircuits ==
  ASSUME TypeOK, Next
  PROVE  /\ circuits' \in [Services -> Circuit]
         /\ \/ now' = now /\ \A s \in Services : circuits'[s] \in Touched(circuits[s], now)
            \/ now' = now + 1 /\ circuits' = circuits
<1> DEFINE Goal ==
      /\ circuits' \in [Services -> Circuit]
      /\ \/ now' = now /\ \A s \in Services : circuits'[s] \in Touched(circuits[s], now)
         \/ now' = now + 1 /\ circuits' = circuits
<1> SUFFICES Goal
  OBVIOUS
<1>1. /\ circuits \in [Services -> Circuit] /\ now \in Nat
      /\ \A c \in Calls : held[c] \in Policies
  BY DEF TypeOK
<1>2. ASSUME UNCHANGED <<now, circuits>> PROVE Goal
  BY <1>1, <1>2 DEF Touched
<1>3. ASSUME NEW c \in Calls, NEW known \in [Services -> Circuit],
             \A s \in Services : known[s] \in
               {circuits[s], AfterCanAttempt(circuits[s], held[c], now)},
             NextCandidate(c, known)
      PROVE  Goal
  <2>1. /\ now' = now
        /\ circuits' \in [Services -> Circuit]
        /\ \A s \in Services :
             circuits'[s] \in {known[s], AfterCanAttempt(known[s], held[c], now)}
    BY <1>3, NextCandidateCircuits
  <2>2. \A s \in Services : circuits'[s] \in
          {circuits[s], AfterCanAttempt(circuits[s], held[c], now)}
    BY <1>3, <2>1, AskedTwice
  <2> QED BY <1>1, <2>1, <2>2 DEF Touched
<1>4. ASSUME NEW c \in Calls, Progress(c) PROVE Goal
  <2>1. CASE RegistryFails(c) \/ InvokeCandidates(c) \/ UpstreamRaises(c) \/ EndPublished(c)
    BY <1>2, <2>1 DEF RegistryFails, InvokeCandidates, UpstreamRaises, EndPublished
  <2>2. CASE ResolveCandidates(c)
    <3>1. now' = now
      BY <2>2 DEF ResolveCandidates
    <3>2. PICK list \in CandidateLists :
            circuits' = [s \in Services |->
              IF s \in {list[i] : i \in DOMAIN list}
              THEN AfterCanAttempt(circuits[s], held[c], now)
              ELSE circuits[s]]
      BY <2>2 DEF ResolveCandidates
    <3>3. \A s \in Services : AfterCanAttempt(circuits[s], held[c], now) \in Circuit
      BY <1>1, TouchedCircuit DEF Touched
    <3>4. \A s \in Services : circuits'[s] \in Touched(circuits[s], now)
      BY <1>1, <3>2 DEF Touched
    <3>5. circuits' \in [Services -> Circuit]
      BY <1>1, <3>2, <3>3
    <3> QED BY <3>1, <3>4, <3>5
  <2>3. CASE StartPublished(c)
    BY <1>1, <1>3, <2>3 DEF StartPublished
  <2>4. CASE UpstreamAnswers(c) \/ UpstreamFails(c) \/ Retry(c)
    <3>1. Provider(c) \in Services
      BY <2>4 DEF UpstreamAnswers, UpstreamFails, Retry, Provider, TypeOK
    <3>2. PICK b \in Touched(circuits[Provider(c)], now) :
            now' = now /\ circuits' = [circuits EXCEPT ![Provider(c)] = b]
      BY <1>1, <2>4, <3>1
         DEF UpstreamAnswers, UpstreamFails, Retry, Reconsidered, Touched
    <3>3. b \in Circuit
      BY <1>1, <3>1, TouchedCircuit
    <3>4. \A s \in Services : circuits'[s] \in Touched(circuits[s], now)
      BY <1>1, <3>1, <3>2 DEF Touched
    <3>5. circuits' \in [Services -> Circuit]
      BY <1>1, <3>1, <3>2, <3>3
    <3> QED BY <3>2, <3>4, <3>5
  <2>5. CASE FailOver(c)
    <3> DEFINE known == [circuits EXCEPT ![Provider(c)] = Reconsidered(c)]
    <3>1. Provider(c) \in Services
      BY <2>5 DEF FailOver, Provider, TypeOK
    <3>2. Reconsidered(c) \in Circuit
      BY <1>1, <3>1, TouchedCircuit DEF Touched, Reconsidered
    <3>3. /\ known \in [Services -> Circuit]
          /\ \A s \in Services : known[s] \in
               {circuits[s], AfterCanAttempt(circuits[s], held[c], now)}
      BY <1>1, <3>1, <3>2 DEF Reconsidered
    <3>4. NextCandidate(c, known)
      BY <2>5 DEF FailOver
    <3> HIDE DEF known
    <3> QED BY <1>3, <3>3, <3>4
  <2> QED BY <1>4, <2>1, <2>2, <2>3, <2>4, <2>5 DEF Progress
<1>5. ASSUME NEW c \in Calls, BeginInvoke(c) \/ BeginResolve(c) PROVE Goal
  BY <1>2, <1>5 DEF BeginInvoke, BeginResolve, Begin
<1>6. ASSUME NEW k \in Capabilities, NEW p \in Policies, SetPolicy(k, p) PROVE Goal
  BY <1>2, <1>6 DEF SetPolicy
<1>7. ASSUME NEW s \in Services, ResetCircuit(s) PROVE Goal
  BY <1>1, <1>7, FreshCircuit DEF ResetCircuit, Touched
<1>8. CASE Tick
  BY <1>1, <1>8 DEF Tick
<1> QED BY <1>4, <1>5, <1>6, <1>7, <1>8 DEF Next

-----------------------------------------------------------------------------
(* Type correctness                                                        *)

\* The log entries of skipped candidates are log entries.
LEMMA SkipsType ==
  ASSUME NEW c \in Calls, position[c] \in Nat, NEW n \in Nat
  PROVE  Skips(c, n) \in Seq(Entry)
BY DEF Skips, Entry

\* What leaving a candidate makes of the call's own variables.
LEMMA NextCandidateTypes ==
  ASSUME TypeInv, NEW c \in Calls, NEW known, NextCandidate(c, known)
  PROVE  /\ stage' \in [Calls -> Stages]
         /\ position' \in [Calls -> Nat]
         /\ attempt' \in [Calls -> Nat]
         /\ attempts' \in [Calls -> Seq(Entry)]
         /\ emitted' \in [Calls -> Seq(EventTypes)]
         /\ position'[c] \in 0..Len(candidates[c])
         /\ \/ stage'[c] = "attempt" /\ position'[c] \in 1..Len(candidates[c])
                 /\ attempt'[c] = 1
            \/ stage'[c] = "publish-failed"
         /\ \A d \in Calls \ {c} : /\ stage'[d] = stage[d]
                                   /\ position'[d] = position[d]
                                   /\ attempt'[d] = attempt[d]
<1>1. /\ stage \in [Calls -> Stages] /\ position \in [Calls -> Nat]
      /\ attempt \in [Calls -> Nat] /\ attempts \in [Calls -> Seq(Entry)]
      /\ emitted \in [Calls -> Seq(EventTypes)]
      /\ Len(candidates[c]) \in Nat
      /\ position[c] \in 0..Len(candidates[c])
  <2>1. /\ stage \in [Calls -> Stages] /\ position \in [Calls -> Nat]
        /\ attempt \in [Calls -> Nat] /\ attempts \in [Calls -> Seq(Entry)]
        /\ emitted \in [Calls -> Seq(EventTypes)]
        /\ candidates[c] \in Seq(Services)
    BY DEF TypeInv, TypeOK
  <2>2. position[c] <= Len(candidates[c])
    BY DEF TypeInv, PositionOK
  <2> QED BY <2>1, <2>2
<1>2. ASSUME NEW n \in Nat,
             attempts' = [attempts EXCEPT ![c] = @ \o Skips(c, n)]
      PROVE  attempts' \in [Calls -> Seq(Entry)]
  <2>1. Skips(c, n) \in Seq(Entry)
    BY <1>1, SkipsType
  <2>2. attempts[c] \o Skips(c, n) \in Seq(Entry)
    BY <1>1, <2>1
  <2> QED BY <1>1, <1>2, <2>2
<1>3. ASSUME NEW i \in DOMAIN candidates[c], EnterCandidate(c, known, i)
      PROVE  /\ stage' = [stage EXCEPT ![c] = "attempt"]
             /\ position' = [position EXCEPT ![c] = i]
             /\ attempt' = [attempt EXCEPT ![c] = 1]
             /\ i \in 1..Len(candidates[c])
             /\ attempts' \in [Calls -> Seq(Entry)]
             /\ emitted' = emitted
  <2>1. /\ i \in position[c] + 1 .. Len(candidates[c])
        /\ attempts' = [attempts EXCEPT ![c] = @ \o Skips(c, i - 1 - position[c])]
    BY <1>3 DEF EnterCandidate
  <2>2. i \in 1..Len(candidates[c]) /\ i - 1 - position[c] \in Nat
    BY <1>1, <2>1
  <2>3. attempts' \in [Calls -> Seq(Entry)]
    BY <1>2, <2>1, <2>2
  <2> QED BY <1>3, <2>2, <2>3 DEF EnterCandidate
<1>4. ASSUME ExhaustCandidates(c, known)
      PROVE  /\ stage' = [stage EXCEPT ![c] = "publish-failed"]
             /\ position' = [position EXCEPT ![c] = Len(candidates[c])]
             /\ attempt' = attempt
             /\ attempts' \in [Calls -> Seq(Entry)]
             /\ emitted' \in [Calls -> Seq(EventTypes)]
  <2>1. attempts' = [attempts EXCEPT
          ![c] = @ \o Skips(c, Len(candidates[c]) - position[c])]
    BY <1>4 DEF ExhaustCandidates
  <2>2. Len(candidates[c]) - position[c] \in Nat
    BY <1>1
  <2>3. attempts' \in [Calls -> Seq(Entry)]
    BY <1>2, <2>1, <2>2
  <2>4. emitted' = [emitted EXCEPT ![c] = Append(@, "mesh.invocation.failed")]
    BY <1>4 DEF ExhaustCandidates, Emit
  <2>5. Append(emitted[c], "mesh.invocation.failed") \in Seq(EventTypes)
    BY <1>1 DEF EventTypes
  <2>6. emitted' \in [Calls -> Seq(EventTypes)]
    BY <1>1, <2>4, <2>5
  <2> QED BY <1>1, <1>4, <2>3, <2>6 DEF ExhaustCandidates
<1>5. CASE \E i \in DOMAIN candidates[c] : EnterCandidate(c, known, i)
  <2>1. PICK i \in DOMAIN candidates[c] : EnterCandidate(c, known, i)
    BY <1>5
  <2>2. /\ stage' = [stage EXCEPT ![c] = "attempt"]
        /\ position' = [position EXCEPT ![c] = i]
        /\ attempt' = [attempt EXCEPT ![c] = 1]
        /\ i \in 1..Len(candidates[c])
    BY <1>3, <2>1
  <2>3. /\ attempts' \in [Calls -> Seq(Entry)]
        /\ emitted' \in [Calls -> Seq(EventTypes)]
    BY <1>1, <1>3, <2>1
  <2>4. /\ stage' \in [Calls -> Stages]
        /\ stage'[c] = "attempt"
        /\ \A d \in Calls \ {c} : stage'[d] = stage[d]
    BY <1>1, <2>2 DEF Stages
  <2>5. /\ position' \in [Calls -> Nat] /\ attempt' \in [Calls -> Nat]
        /\ position'[c] = i /\ attempt'[c] = 1
        /\ \A d \in Calls \ {c} : /\ position'[d] = position[d]
                                  /\ attempt'[d] = attempt[d]
    BY <1>1, <2>2
  <2> QED BY <2>2, <2>3, <2>4, <2>5
<1>6. CASE ExhaustCandidates(c, known)
  <2>1. /\ stage' = [stage EXCEPT ![c] = "publish-failed"]
        /\ position' = [position EXCEPT ![c] = Len(candidates[c])]
        /\ attempt' = attempt
    BY <1>4, <1>6
  <2>2. /\ attempts' \in [Calls -> Seq(Entry)]
        /\ emitted' \in [Calls -> Seq(EventTypes)]
    BY <1>4, <1>6
  <2>3. /\ stage' \in [Calls -> Stages]
        /\ stage'[c] = "publish-failed"
        /\ \A d \in Calls \ {c} : stage'[d] = stage[d]
    BY <1>1, <2>1 DEF Stages
  <2>4. /\ position' \in [Calls -> Nat] /\ attempt' \in [Calls -> Nat]
        /\ position'[c] = Len(candidates[c])
        /\ \A d \in Calls \ {c} : /\ position'[d] = position[d]
                                  /\ attempt'[d] = attempt[d]
    BY <1>1, <2>1
  <2> QED BY <1>1, <2>2, <2>3, <2>4
<1> QED BY <1>5, <1>6 DEF NextCandidate

\* One step of a call on its own variables, when it moves from candidate to
\* candidate or stays where it is.
AtCandidate(c) ==
  stage[c] \in {"attempt", "reconsider"} =>
    /\ position[c] \in 1..Len(candidates[c])
    /\ attempt[c] \in 1..held[c].retries + 1

Waiting == {"new", "invoke-registry", "resolve-registry", "publish-started"}

\* Types of a call's variables after a step: a step is done by one call c and
\* leaves the others where they are.
LEMMA CallStep ==
  ASSUME TypeInv, NEW c \in Calls,
         held' \in [Calls -> Policies], candidates' \in [Calls -> Seq(Services)],
         AtCandidate(c)',
         (position[c] <= Len(candidates[c]))',
         (stage[c] \in Waiting => position[c] = 0)',
         \A d \in Calls \ {c} : /\ stage'[d] = stage[d]
                                /\ held'[d] = held[d]
                                /\ candidates'[d] = candidates[d]
                                /\ position'[d] = position[d]
                                /\ attempt'[d] = attempt[d]
  PROVE  (\A d \in Calls : AtCandidate(d))' /\ PositionOK'
<1>1. \A d \in Calls \ {c} : AtCandidate(d)
  BY DEF TypeInv, TypeOK, AtCandidate
<1>2. \A d \in Calls \ {c} : AtCandidate(d)'
  BY <1>1 DEF AtCandidate
<1>3. \A d \in Calls \ {c} : /\ position[d] <= Len(candidates[d])
                             /\ stage[d] \in Waiting => position[d] = 0
  BY DEF TypeInv, PositionOK, Waiting
<1>4. PositionOK'
  BY <1>3 DEF PositionOK, Waiting
<1> QED BY <1>2, <1>4

\* TypeOK without the clock, the circuits and the places of the calls.
CallTypes ==
  /\ policies \in [Capabilities -> Policies]
  /\ stage \in [Calls -> Stages]
  /\ held \in [Calls -> Policies]
  /\ candidates \in [Calls -> Seq(Services)]
  /\ position \in [Calls -> Nat]
  /\ attempt \in [Calls -> Nat]
  /\ attempts \in [Calls -> Seq(Entry)]
  /\ emitted \in [Calls -> Seq(EventTypes)]
  /\ outcome \in [Calls -> Outcomes]

LEMMA ProgressTypes ==
  ASSUME TypeInv, NEW c \in Calls, Progress(c)
  PROVE  (CallTypes /\ (\A d \in Calls : AtCandidate(d)) /\ PositionOK)'
<1> DEFINE Goal == (CallTypes /\ (\A d \in Calls : AtCandidate(d)) /\ PositionOK)'
<1> SUFFICES Goal
  OBVIOUS
<1>1. CallTypes
  BY DEF TypeInv, TypeOK, CallTypes
<1>2. /\ AtCandidate(c) /\ position[c] <= Len(candidates[c])
      /\ stage[c] \in Waiting => position[c] = 0
  BY DEF TypeInv, TypeOK, PositionOK, AtCandidate, Waiting
<1>3. \A e \in EventTypes :
        /\ Append(emitted[c], e) \in Seq(EventTypes)
        /\ Emit(c, e) => emitted' \in [Calls -> Seq(EventTypes)]
  <2>1. \A e \in EventTypes : Append(emitted[c], e) \in Seq(EventTypes)
    BY <1>1 DEF CallTypes
  <2> QED BY <1>1, <2>1 DEF CallTypes, Emit
<1>4. \A r \in Outcomes : Finish(c, r) =>
        /\ stage' \in [Calls -> Stages] /\ outcome' \in [Calls -> Outcomes]
        /\ stage'[c] = "done" /\ \A d \in Calls \ {c} : stage'[d] = stage[d]
  BY <1>1 DEF Finish, CallTypes, Stages
<1>5. \A r \in {"failed", "completed"} :
        Log(c, r) => attempts' \in [Calls -> Seq(Entry)]
  <2>1. \A r \in {"failed", "completed"} :
          [candidate |-> position[c], attempt |-> attempt[c], result |-> r] \in Entry
    BY <1>1 DEF Entry, CallTypes
  <2>2. \A r \in {"failed", "completed"} :
          Append(attempts[c], [candidate |-> position[c], attempt |-> attempt[c],
                               result |-> r]) \in Seq(Entry)
    BY <1>1, <2>1 DEF CallTypes
  <2> QED BY <1>1, <2>2 DEF Log, CallTypes
<1>6. ASSUME CallTypes', UNCHANGED <<held, candidates, position, attempt>>,
             \A d \in Calls \ {c} : stage'[d] = stage[d],
             stage'[c] \in {"attempt", "reconsider"} => stage[c] \in {"attempt", "reconsider"},
             stage'[c] \in Waiting => stage[c] \in Waiting
      PROVE  Goal
  <2>1. AtCandidate(c)'
    BY <1>2, <1>6 DEF AtCandidate
  <2> QED BY <1>2, <1>6, <2>1, CallStep DEF CallTypes
<1>7. ASSUME NEW known, NextCandidate(c, known) PROVE Goal
  <2>1. UNCHANGED <<policies, held, candidates, outcome>>
    BY <1>7 DEF NextCandidate
  <2>2. /\ stage' \in [Calls -> Stages]
        /\ position' \in [Calls -> Nat]
        /\ attempt' \in [Calls -> Nat]
        /\ attempts' \in [Calls -> Seq(Entry)]
        /\ emitted' \in [Calls -> Seq(EventTypes)]
    BY <1>7, NextCandidateTypes
  <2>3. CallTypes'
    BY <1>1, <2>1, <2>2 DEF CallTypes
  <2>4. /\ position'[c] \in 0..Len(candidates[c])
        /\ \/ stage'[c] = "attempt" /\ position'[c] \in 1..Len(candidates[c])
                /\ attempt'[c] = 1
           \/ stage'[c] = "publish-failed"
        /\ \A d \in Calls \ {c} : /\ stage'[d] = stage[d]
                                  /\ position'[d] = position[d]
                                  /\ attempt'[d] = attempt[d]
    BY <1>7, NextCandidateTypes
  <2>5. held[c].retries \in Nat
    BY <1>1, PolicyFields DEF CallTypes
  <2>6. AtCandidate(c)'
    <3>1. CASE stage'[c] = "attempt" /\ position'[c] \in 1..Len(candidates[c])
                 /\ attempt'[c] = 1
      BY <2>1, <2>5, <3>1 DEF AtCandidate
    <3>2. CASE stage'[c] = "publish-failed"
      BY <3>2 DEF AtCandidate
    <3> QED BY <2>4, <3>1, <3>2
  <2>7. position'[c] <= Len(candidates'[c])
    BY <1>1, <2>1, <2>4 DEF CallTypes
  <2>8. stage'[c] \notin Waiting
    BY <2>4 DEF Waiting
  <2> QED BY <2>1, <2>3, <2>4, <2>6, <2>7, <2>8, CallStep DEF CallTypes
<1>8. CASE RegistryFails(c)
  <2>1. /\ Finish(c, "no-candidates")
        /\ UNCHANGED <<policies, held, candidates, position, attempt, attempts,
                       emitted>>
    BY <1>8 DEF RegistryFails
  <2>2. CallTypes'
    BY <1>1, <1>4, <2>1 DEF CallTypes, Outcomes
  <2> QED BY <1>4, <1>6, <2>1, <2>2 DEF Outcomes, Waiting
<1>9. CASE InvokeCandidates(c)
  <2>1. PICK list \in CandidateLists :
          candidates' = [candidates EXCEPT ![c] = list]
    BY <1>9 DEF InvokeCandidates
  <2>2. /\ stage[c] = "invoke-registry"
        /\ stage' = [stage EXCEPT ![c] = "publish-started"]
        /\ Emit(c, "mesh.invocation.started")
        /\ UNCHANGED <<policies, held, position, attempt, attempts, outcome>>
    BY <1>9 DEF InvokeCandidates
  <2>3. list \in Seq(Services)
    BY CandidateListsValid
  <2>4. CallTypes'
    BY <1>1, <1>3, <2>1, <2>2, <2>3 DEF CallTypes, EventTypes, Stages
  <2>5. position[c] = 0
    BY <1>2, <2>2 DEF Waiting
  <2>6. /\ AtCandidate(c)' /\ position'[c] <= Len(candidates'[c])
        /\ position'[c] = 0
    BY <1>1, <2>1, <2>2, <2>3, <2>5 DEF AtCandidate, CallTypes
  <2> QED BY <1>1, <2>1, <2>2, <2>4, <2>6, CallStep DEF CallTypes
<1>10. CASE ResolveCandidates(c)
  <2>1. PICK list \in CandidateLists :
          /\ candidates' = [candidates EXCEPT ![c] = list]
          /\ \/ Emit(c, "mesh.route.blocked") /\ Finish(c, "blocked")
                /\ UNCHANGED position
             \/ \E i \in DOMAIN list :
                  /\ position' = [position EXCEPT ![c] = i]
                  /\ Emit(c, "mesh.route.resolved")
                  /\ Finish(c, "resolved")
    BY <1>10 DEF ResolveCandidates
  <2>2. /\ stage[c] = "resolve-registry"
        /\ UNCHANGED <<policies, held, attempt, attempts>>
    BY <1>10 DEF ResolveCandidates
  <2>3. list \in Seq(Services) /\ Len(list) \in Nat
    BY CandidateListsValid
  <2>4. position[c] = 0
    BY <1>2, <2>2 DEF Waiting
  <2>5. /\ position' \in [Calls -> Nat] /\ position'[c] \in 0..Len(list)
        /\ \A d \in Calls \ {c} : position'[d] = position[d]
    <3>1. \E n \in 0..Len(list) : position' = [position EXCEPT ![c] = n]
      <4>1. CASE UNCHANGED position
        BY <1>1, <2>3, <2>4, <4>1 DEF CallTypes
      <4>2. ASSUME NEW i \in DOMAIN list, position' = [position EXCEPT ![c] = i]
            PROVE  \E n \in 0..Len(list) : position' = [position EXCEPT ![c] = n]
        <5>1. i \in 0..Len(list)
          BY <2>3
        <5> QED BY <4>2, <5>1
      <4> QED BY <2>1, <4>1, <4>2
    <3> QED BY <1>1, <2>3, <3>1 DEF CallTypes
  <2>6. /\ stage' \in [Calls -> Stages] /\ outcome' \in [Calls -> Outcomes]
        /\ stage'[c] = "done" /\ \A d \in Calls \ {c} : stage'[d] = stage[d]
        /\ emitted' \in [Calls -> Seq(EventTypes)]
    BY <1>3, <1>4, <2>1 DEF Outcomes, EventTypes
  <2>7. CallTypes'
    BY <1>1, <2>1, <2>2, <2>3, <2>5, <2>6 DEF CallTypes
  <2>8. AtCandidate(c)' /\ position'[c] <= Len(candidates'[c])
    BY <1>1, <2>1, <2>3, <2>5, <2>6 DEF AtCandidate, CallTypes
  <2>9. stage'[c] \notin Waiting
    BY <2>6 DEF Waiting
  <2> QED BY <1>1, <2>1, <2>2, <2>5, <2>6, <2>7, <2>8, <2>9, CallStep DEF CallTypes
<1>11. CASE StartPublished(c)
  BY <1>7, <1>11 DEF StartPublished
<1>12. CASE UpstreamAnswers(c)
  <2>1. /\ stage[c] = "attempt"
        /\ stage' = [stage EXCEPT ![c] = "publish-completed"]
        /\ Log(c, "completed") /\ Emit(c, "mesh.invocation.completed")
        /\ UNCHANGED <<policies, held, candidates, position, attempt, outcome>>
    BY <1>12 DEF UpstreamAnswers
  <2>2. CallTypes'
    BY <1>1, <1>3, <1>5, <2>1 DEF CallTypes, EventTypes, Stages
  <2> QED BY <1>1, <1>6, <2>1, <2>2 DEF CallTypes, Waiting
<1>13. CASE UpstreamFails(c)
  <2>1. /\ stage[c] = "attempt"
        /\ stage' = [stage EXCEPT ![c] = "reconsider"]
        /\ Log(c, "failed")
        /\ UNCHANGED <<policies, held, candidates, position, attempt, emitted, outcome>>
    BY <1>13 DEF UpstreamFails
  <2>2. CallTypes'
    BY <1>1, <1>5, <2>1 DEF CallTypes, Stages
  <2> QED BY <1>1, <1>6, <2>1, <2>2 DEF CallTypes, Waiting
<1>14. CASE UpstreamRaises(c)
  <2>1. /\ Finish(c, "raised")
        /\ UNCHANGED <<policies, held, candidates, position, attempt, attempts,
                       emitted>>
    BY <1>14 DEF UpstreamRaises
  <2>2. CallTypes'
    BY <1>1, <1>4, <2>1 DEF CallTypes, Outcomes
  <2> QED BY <1>4, <1>6, <2>1, <2>2 DEF Outcomes, Waiting
<1>15. CASE Retry(c)
  <2>1. /\ stage[c] = "reconsider"
        /\ attempt[c] <= held[c].retries
        /\ stage' = [stage EXCEPT ![c] = "attempt"]
        /\ attempt' = [attempt EXCEPT ![c] = attempt[c] + 1]
        /\ UNCHANGED <<policies, held, candidates, position, attempts, emitted,
                       outcome>>
    BY <1>15 DEF Retry, MayRetry
  <2>2. CallTypes'
    <3>1. stage' \in [Calls -> Stages]
      BY <1>1, <2>1 DEF CallTypes, Stages
    <3>2. attempt' \in [Calls -> Nat]
      BY <1>1, <2>1 DEF CallTypes
    <3> QED BY <1>1, <2>1, <3>1, <3>2 DEF CallTypes
  <2>3. attempt[c] \in Nat /\ held[c].retries \in Nat /\ attempt'[c] = attempt[c] + 1
    BY <1>1, <2>1, PolicyFields DEF CallTypes
  <2>4. attempt'[c] \in 1..held[c].retries + 1
    BY <2>1, <2>3
  <2>5. AtCandidate(c)' /\ position'[c] <= Len(candidates'[c])
    BY <1>2, <2>1, <2>4 DEF AtCandidate
  <2>6. stage'[c] \notin Waiting
    BY <1>1, <2>1 DEF CallTypes, Waiting
  <2> QED BY <1>1, <2>1, <2>2, <2>5, <2>6, CallStep DEF CallTypes
<1>16. CASE FailOver(c)
  BY <1>7, <1>16 DEF FailOver
<1>17. CASE EndPublished(c)
  <2>1. /\ Finish(c, "answered") \/ Finish(c, "exhausted")
        /\ UNCHANGED <<policies, held, candidates, position, attempt, attempts,
                       emitted>>
    BY <1>17 DEF EndPublished
  <2>2. CallTypes'
    BY <1>1, <1>4, <2>1 DEF CallTypes, Outcomes
  <2> QED BY <1>4, <1>6, <2>1, <2>2 DEF Outcomes, Waiting
<1> QED BY <1>8, <1>9, <1>10, <1>11, <1>12, <1>13, <1>14, <1>15, <1>16, <1>17
        DEF Progress

LEMMA StepTypeInv == TypeInv /\ [Next]_vars => TypeInv'
<1> SUFFICES ASSUME TypeInv, [Next]_vars PROVE TypeInv'
  OBVIOUS
<1>1. CASE UNCHANGED vars
  BY <1>1 DEF TypeInv, TypeOK, PositionOK, vars, callVars
<1>2. CASE Next
  <2>1. now' \in Nat /\ circuits' \in [Services -> Circuit]
    <3>1. TypeOK /\ now \in Nat
      BY DEF TypeInv, TypeOK
    <3> QED BY <1>2, <3>1, StepCircuits
  <2>2. CallTypes /\ (\A d \in Calls : AtCandidate(d)) /\ PositionOK
    BY DEF TypeInv, TypeOK, CallTypes, AtCandidate
  <2>3. (CallTypes /\ (\A d \in Calls : AtCandidate(d)) /\ PositionOK)'
    <3>1. ASSUME NEW c \in Calls, Progress(c)
          PROVE  (CallTypes /\ (\A d \in Calls : AtCandidate(d)) /\ PositionOK)'
      BY <3>1, ProgressTypes
    <3>2. ASSUME NEW c \in Calls, BeginInvoke(c) \/ BeginResolve(c)
          PROVE  (CallTypes /\ (\A d \in Calls : AtCandidate(d)) /\ PositionOK)'
      <4>1. PICK next \in {"invoke-registry", "resolve-registry"},
                 k \in Capabilities :
              /\ stage[c] = "new"
              /\ held' = [held EXCEPT ![c] = policies[k]]
              /\ stage' = [stage EXCEPT ![c] = next]
              /\ UNCHANGED <<policies, candidates, position, attempt, attempts,
                             emitted, outcome>>
        BY <3>2 DEF BeginInvoke, BeginResolve, Begin
      <4>2. CallTypes'
        BY <2>2, <4>1 DEF CallTypes, Stages
      <4>3. position[c] = 0
        BY <2>2, <4>1 DEF PositionOK
      <4>4. AtCandidate(c)' /\ position'[c] <= Len(candidates'[c]) /\ position'[c] = 0
        BY <2>2, <4>1, <4>3 DEF AtCandidate, CallTypes, PositionOK
      <4> QED BY <2>2, <4>1, <4>2, <4>4, CallStep DEF CallTypes
    <3>3. ASSUME NEW k \in Capabilities, NEW p \in Policies, SetPolicy(k, p)
          PROVE  (CallTypes /\ (\A d \in Calls : AtCandidate(d)) /\ PositionOK)'
      BY <2>2, <3>3 DEF SetPolicy, CallTypes, AtCandidate, PositionOK, callVars
    <3>4. CASE (\E s \in Services : ResetCircuit(s)) \/ Tick
      BY <2>2, <3>4
         DEF ResetCircuit, Tick, CallTypes, AtCandidate, PositionOK, callVars
    <3> QED BY <1>2, <3>1, <3>2, <3>3, <3>4 DEF Next
  <2> QED BY <2>1, <2>3 DEF TypeInv, TypeOK, CallTypes, AtCandidate
<1> QED BY <1>1, <1>2

\* Every variable stays in its domain, and a call that is attempting or
\* deciding is at a candidate of its list and within the budget of its policy,
\* whatever the calls, providers and policies.
THEOREM TypeCorrect == Spec => []TypeOK
<1>1. TypeInv => TypeOK
  BY DEF TypeInv
<1> QED BY <1>1, InitTypeInv, StepTypeInv, PTL DEF Spec

-----------------------------------------------------------------------------
(* No circuit is locked for good                                           *)

LEMMA RecoverableCircuits ==
  CircuitsCanRecover <=> \A s \in Services : Recoverable(circuits[s], now)
BY DEF CircuitsCanRecover, Recoverable

\* Time alone locks no circuit.
LEMMA RecoverableLater ==
  ASSUME NEW a \in Circuit, NEW t \in Nat, Recoverable(a, t)
  PROVE  Recoverable(a, t + 1)
BY NeverIsNoTime DEF Recoverable, Circuit

LEMMA InitRecover == Init => CircuitsCanRecover
BY FreshCircuit, RecoverableCircuits DEF Init

LEMMA StepRecover ==
  TypeInv /\ CircuitsCanRecover /\ [Next]_vars => CircuitsCanRecover'
<1> SUFFICES ASSUME TypeInv, CircuitsCanRecover, [Next]_vars
             PROVE  CircuitsCanRecover'
  OBVIOUS
<1>1. CASE UNCHANGED vars
  BY <1>1 DEF CircuitsCanRecover, vars
<1>2. CASE Next
  <2>1. TypeOK /\ circuits \in [Services -> Circuit] /\ now \in Nat
    BY DEF TypeInv, TypeOK
  <2>2. \A s \in Services : Recoverable(circuits[s], now)
    BY RecoverableCircuits
  <2>3. \A s \in Services : Recoverable(circuits'[s], now')
    <3>1. CASE now' = now /\ \A s \in Services : circuits'[s] \in Touched(circuits[s], now)
      BY <2>1, <2>2, <3>1, TouchedCircuit
    <3>2. CASE now' = now + 1 /\ circuits' = circuits
      BY <2>1, <2>2, <3>2, RecoverableLater
    <3> QED BY <1>2, <2>1, <3>1, <3>2, StepCircuits
  <2> QED BY <2>3 DEF CircuitsCanRecover, Recoverable
<1> QED BY <1>1, <1>2

\* A circuit that is not closed always knows when it opened, so that
\* can_attempt() admits a trial once the recovery window is over; and a closed
\* one has never absorbed the failures every policy would open it for.
THEOREM CircuitsRecover == Spec => []CircuitsCanRecover
<1> QED BY InitTypeInv, StepTypeInv, InitRecover, StepRecover, PTL DEF Spec

-----------------------------------------------------------------------------
(* The mesh implements the contract of the breaker                         *)

\* What the breaker does to one circuit is a move of the contract.
LEMMA TouchedKeepsContract ==
  ASSUME NEW a \in Circuit, NEW t \in Nat, Recoverable(a, t), NEW b \in Touched(a, t)
  PROVE  \/ b.state = a.state /\ b.failures = a.failures /\ b.opened_at = a.opened_at
         \/ /\ a.state # "half-open"
            /\ b.state = a.state /\ b.failures = a.failures + 1
            /\ \E p \in Policies : b.failures < p.circuit_failure_threshold
            /\ b.opened_at = a.opened_at
         \/ /\ b.state = "open" /\ b.failures = a.failures + 1
            /\ \E p \in Policies : b.failures >= p.circuit_failure_threshold
            /\ b.opened_at = t
         \/ /\ a.state = "open"
            /\ \E p \in Policies : t - a.opened_at >= p.recovery_seconds
            /\ b.state = "half-open" /\ b.failures = a.failures
            /\ b.opened_at = a.opened_at
         \/ b.state = "closed" /\ b.failures = 0 /\ b.opened_at = Never
<1> DEFINE Kept == b.state = a.state /\ b.failures = a.failures /\ b.opened_at = a.opened_at
           Struck == /\ a.state # "half-open"
                     /\ b.state = a.state /\ b.failures = a.failures + 1
                     /\ \E p \in Policies : b.failures < p.circuit_failure_threshold
                     /\ b.opened_at = a.opened_at
           Tripped == /\ b.state = "open" /\ b.failures = a.failures + 1
                      /\ \E p \in Policies : b.failures >= p.circuit_failure_threshold
                      /\ b.opened_at = t
           Recovered == /\ a.state = "open"
                        /\ \E p \in Policies : t - a.opened_at >= p.recovery_seconds
                        /\ b.state = "half-open" /\ b.failures = a.failures
                        /\ b.opened_at = a.opened_at
           Closed == b.state = "closed" /\ b.failures = 0 /\ b.opened_at = Never
<1>1. CASE b = a
  BY <1>1
<1>2. CASE b = Fresh
  BY <1>2 DEF Fresh
<1>3. ASSUME NEW p \in Policies, b = AfterFailure(a, p, t)
      PROVE  Struck \/ Tripped
  <2>1. a.failures \in Nat /\ p.circuit_failure_threshold \in Nat
    BY PolicyFields DEF Circuit
  <2>2. CASE a.state = "half-open" \/ a.failures + 1 >= p.circuit_failure_threshold
    <3>1. b = [failures |-> a.failures + 1, state |-> "open", opened_at |-> t]
      BY <1>3, <2>2 DEF AfterFailure
    <3>2. \E q \in Policies : a.failures + 1 >= q.circuit_failure_threshold
      <4>1. CASE a.state = "half-open"
        <5>1. PICK q \in Policies : a.failures >= q.circuit_failure_threshold
          BY <4>1 DEF Recoverable
        <5> QED BY <2>1, <5>1, PolicyFields
      <4>2. CASE a.state # "half-open"
        BY <2>2, <4>2
      <4> QED BY <4>1, <4>2
    <3> QED BY <3>1, <3>2
  <2>3. CASE ~(a.state = "half-open" \/ a.failures + 1 >= p.circuit_failure_threshold)
    <3>1. b = [a EXCEPT !.failures = a.failures + 1]
      BY <1>3, <2>3 DEF AfterFailure
    <3>2. b.failures = a.failures + 1 /\ b.state = a.state /\ b.opened_at = a.opened_at
      BY <3>1 DEF Circuit
    <3>3. b.failures < p.circuit_failure_threshold
      BY <2>1, <2>3, <3>2
    <3> QED BY <2>3, <3>2, <3>3
  <2> QED BY <2>2, <2>3
<1>4. ASSUME NEW p \in Policies, b = AfterCanAttempt(a, p, t), b # a
      PROVE  Recovered
  <2>1. /\ a.state = "open" /\ CanAttempt(a, p, t)
        /\ b = [a EXCEPT !.state = "half-open"]
    BY <1>4 DEF AfterCanAttempt
  <2> QED BY <2>1 DEF CanAttempt, Circuit
<1> QED BY <1>1, <1>2, <1>3, <1>4 DEF Touched

LEMMA InitContract == Init => Contract!Init
BY DEF Init, Contract!Init, Fresh

LEMMA StepContract ==
  ASSUME TypeInv, CircuitsCanRecover, [Next]_vars
  PROVE  [Contract!Next]_<<now, Contract!circuitVars>>
<1>1. CASE UNCHANGED vars
  BY <1>1 DEF vars, Contract!circuitVars
<1>2. CASE Next
  <2>1. TypeOK /\ circuits \in [Services -> Circuit] /\ now \in Nat
    BY DEF TypeInv, TypeOK
  <2>2. \A s \in Services : Recoverable(circuits[s], now)
    BY RecoverableCircuits
  <2>3. circuits' \in [Services -> Circuit]
    BY <1>2, <2>1, StepCircuits
  <2>4. CASE now' = now /\ \A s \in Services : circuits'[s] \in Touched(circuits[s], now)
    <3>1. ASSUME NEW s \in Services
          PROVE  Contract!Keep(s) \/ Contract!Strike(s) \/ Contract!Trip(s)
                   \/ Contract!Recover(s) \/ Contract!Close(s)
      <4> DEFINE a == circuits[s]
                 b == circuits'[s]
      <4>1. /\ a \in Circuit /\ Recoverable(a, now) /\ b \in Touched(a, now)
        BY <2>1, <2>2, <2>4
      <4>2. \/ b.state = a.state /\ b.failures = a.failures /\ b.opened_at = a.opened_at
            \/ /\ a.state # "half-open"
               /\ b.state = a.state /\ b.failures = a.failures + 1
               /\ \E p \in Policies : b.failures < p.circuit_failure_threshold
               /\ b.opened_at = a.opened_at
            \/ /\ b.state = "open" /\ b.failures = a.failures + 1
               /\ \E p \in Policies : b.failures >= p.circuit_failure_threshold
               /\ b.opened_at = now
            \/ /\ a.state = "open"
               /\ \E p \in Policies : now - a.opened_at >= p.recovery_seconds
               /\ b.state = "half-open" /\ b.failures = a.failures
               /\ b.opened_at = a.opened_at
            \/ b.state = "closed" /\ b.failures = 0 /\ b.opened_at = Never
        <5> HIDE DEF a, b
        <5> QED BY <2>1, <4>1, TouchedKeepsContract
      <4> QED BY <4>2 DEF Contract!Keep, Contract!Strike, Contract!Trip,
                          Contract!Recover, Contract!Close
    <3> QED BY <2>4, <3>1 DEF Contract!Next
  <2>5. CASE now' = now + 1 /\ circuits' = circuits
    BY <2>1, <2>5 DEF Contract!Next, Contract!Advance, Contract!circuitVars
  <2> QED BY <1>2, <2>1, <2>4, <2>5, StepCircuits
<1> QED BY <1>1, <1>2

\* The mesh, with its concurrent calls, its policies and its operator, drives
\* every circuit through the life cycle the breaker promises and no other.
THEOREM ContractImplemented == Spec => ImplementsContract
<1> QED BY InitTypeInv, StepTypeInv, InitRecover, StepRecover, InitContract,
           StepContract, PTL DEF Spec, ImplementsContract, Contract!Spec

=============================================================================
