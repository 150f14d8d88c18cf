----------------------------- MODULE MeshEngine -----------------------------
(***************************************************************************)
(* The invocation engine of the service mesh (app/mesh.py, MeshEngine):    *)
(* concurrent calls of invoke() and resolve() on one asyncio event loop,   *)
(* sharing the circuits of all providers, while threadpool threads serve   *)
(* the operator's set_policy and reset requests (app/main.py declares      *)
(* those handlers "def", not "async def").                                 *)
(*                                                                         *)
(* A step runs from one await to the next.  Two things cut it finer:       *)
(*   - between the failure() that records a failed attempt and the         *)
(*     can_attempt() that decides on the next one there is no await, but a *)
(*     threadpool thread may run reset() there; stage "reconsider" is that *)
(*     point, and no other call of the event loop moves while it is held;  *)
(*   - everywhere else an operator's single dictionary assignment falls    *)
(*     before or after the step with the same outcome.                     *)
(* The event gateway is configured, so that publishing is an await.        *)
(***************************************************************************)
EXTENDS CircuitBreaker, Sequences

CONSTANTS
  Calls,           \* requests to /v1/invoke or /v1/resolve
  Capabilities,    \* capability ids policies are set for
  Services,        \* provider service ids
  DefaultPolicy,   \* MeshPolicy() of a capability no policy was set for
  CandidateLists,  \* the ranked candidate lists the registry may answer
  MaxTime          \* bound of the clock

ASSUME DefaultPolicyValid == DefaultPolicy \in Policies
ASSUME CandidateListsValid == CandidateLists \subseteq Seq(Services) \ {<<>>}

VARIABLES
  now,         \* time.monotonic()
  policies,    \* MeshEngine.policies
  circuits,    \* CircuitBreaker._states
  stage,       \* where each call is suspended
  held,        \* the policy a call read when it began
  candidates,  \* the candidate list a call got from the registry
  position,    \* the candidate a call is at
  attempt,     \* attempt_number at that candidate
  attempts,    \* the log the caller gets back
  emitted,     \* the mesh.* events emitted under the call's correlation id
  outcome      \* how the call ended

callVars == <<stage, held, candidates, position, attempt, attempts, emitted,
              outcome>>
vars == <<now, policies, circuits, callVars>>

Stages == {"new", "invoke-registry", "resolve-registry", "publish-started",
           "attempt", "reconsider", "publish-completed", "publish-failed",
           "done"}

Outcomes == {"none", "no-candidates", "answered", "exhausted", "raised",
             "resolved", "blocked"}

\* An entry of the attempts log: the candidate's place in the list, and
\* attempt 0 for one the breaker did not let the call attempt.
Entry == [candidate: Nat, attempt: Nat,
          result: {"open-circuit-skip", "failed", "completed"}]

EventTypes == {"mesh.invocation.started", "mesh.invocation.completed",
               "mesh.invocation.failed", "mesh.route.resolved",
               "mesh.route.blocked"}

Init ==
  /\ now = 0
  /\ policies = [k \in Capabilities |-> DefaultPolicy]
  /\ circuits = [s \in Services |-> Fresh]
  /\ stage = [c \in Calls |-> "new"]
  /\ held = [c \in Calls |-> DefaultPolicy]
  /\ candidates = [c \in Calls |-> <<>>]
  /\ position = [c \in Calls |-> 0]
  /\ attempt = [c \in Calls |-> 0]
  /\ attempts = [c \in Calls |-> <<>>]
  /\ emitted = [c \in Calls |-> <<>>]
  /\ outcome = [c \in Calls |-> "none"]

-----------------------------------------------------------------------------
(* Helpers                                                                 *)

\* The event loop is not inside another call's synchronous stretch.
LoopFree(c) == \A d \in Calls \ {c} : stage[d] # "reconsider"

Provider(c) == candidates[c][position[c]]

Emit(c, event) == emitted' = [emitted EXCEPT ![c] = Append(@, event)]

Log(c, result) ==
  attempts' = [attempts EXCEPT
    ![c] = Append(@, [candidate |-> position[c], attempt |-> attempt[c],
                      result |-> result])]

\* n entries for the candidates after the current one, refused by the breaker.
Skips(c, n) ==
  [j \in 1..n |-> [candidate |-> position[c] + j, attempt |-> 0,
                   result |-> "open-circuit-skip"]]

Finish(c, result) ==
  /\ stage' = [stage EXCEPT ![c] = "done"]
  /\ outcome' = [outcome EXCEPT ![c] = result]

-----------------------------------------------------------------------------
(* The start of a call: the policy is read once, before the first await.   *)

Begin(c, next) ==
  /\ stage[c] = "new"
  /\ LoopFree(c)
  /\ \E k \in Capabilities : held' = [held EXCEPT ![c] = policies[k]]
  /\ stage' = [stage EXCEPT ![c] = next]
  /\ UNCHANGED <<now, policies, circuits, candidates, position, attempt,
                 attempts, emitted, outcome>>

BeginInvoke(c) == Begin(c, "invoke-registry")
BeginResolve(c) == Begin(c, "resolve-registry")

\* The registry is unreachable, answers an error status, nothing, or a body
\* that is not a list of candidates: the call ends without an event.
RegistryFails(c) ==
  /\ stage[c] \in {"invoke-registry", "resolve-registry"}
  /\ LoopFree(c)
  /\ Finish(c, "no-candidates")
  /\ UNCHANGED <<now, policies, circuits, held, candidates, position, attempt,
                 attempts, emitted>>

InvokeCandidates(c) ==
  /\ stage[c] = "invoke-registry"
  /\ LoopFree(c)
  /\ \E list \in CandidateLists :
       candidates' = [candidates EXCEPT ![c] = list]
  /\ Emit(c, "mesh.invocation.started")
  /\ stage' = [stage EXCEPT ![c] = "publish-started"]
  /\ UNCHANGED <<now, policies, circuits, held, position, attempt, attempts,
                 outcome>>

\* resolve() asks the breaker about every candidate, and so half-opens every
\* circuit of the list that may recover, though it attempts none of them.
ResolveCandidates(c) ==
  /\ stage[c] = "resolve-registry"
  /\ LoopFree(c)
  /\ \E list \in CandidateLists :
       LET listed == {list[i] : i \in DOMAIN list}
           eligible == {i \in DOMAIN list :
                          CanAttempt(circuits[list[i]], held[c], now)}
       IN /\ candidates' = [candidates EXCEPT ![c] = list]
          /\ circuits' = [s \in Services |->
               IF s \in listed
               THEN AfterCanAttempt(circuits[s], held[c], now)
               ELSE circuits[s]]
          /\ \/ /\ eligible = {}
                /\ Emit(c, "mesh.route.blocked")
                /\ Finish(c, "blocked")
                /\ UNCHANGED position
             \/ \E i \in eligible :
                  /\ \A j \in eligible : i <= j
                  /\ position' = [position EXCEPT ![c] = i]
                  /\ Emit(c, "mesh.route.resolved")
                  /\ Finish(c, "resolved")
  /\ UNCHANGED <<now, policies, held, attempt, attempts>>

-----------------------------------------------------------------------------
(* The candidate loop of invoke().  known is the state of the circuits the *)
(* step has reached when it leaves the current candidate.                  *)

\* Mutant: the default policy's recovery window instead of the call's.
AdmitsByDefault(c, known, i) ==
  CanAttempt(known[candidates[c][i]], DefaultPolicy, now)

Admits(c, known, i) == CanAttempt(known[candidates[c][i]], held[c], now)

\* The next candidate the breaker admits is i; those before it are skipped.
EnterCandidate(c, known, i) ==
  LET s == candidates[c][i]
      admitted == AfterCanAttempt(known[s], held[c], now)
  IN /\ i \in position[c] + 1 .. Len(candidates[c])
     /\ Admits(c, known, i)
     /\ \A j \in position[c] + 1 .. i - 1 : ~Admits(c, known, j)
     /\ attempts' = [attempts EXCEPT
                       ![c] = @ \o Skips(c, i - 1 - position[c])]
     /\ circuits' = [known EXCEPT ![s] = admitted]
     /\ position' = [position EXCEPT ![c] = i]
     /\ attempt' = [attempt EXCEPT ![c] = 1]
     /\ stage' = [stage EXCEPT ![c] = "attempt"]
     /\ UNCHANGED emitted

\* No candidate is left that the breaker admits.
ExhaustCandidates(c, known) ==
  /\ \A j \in position[c] + 1 .. Len(candidates[c]) : ~Admits(c, known, j)
  /\ attempts' = [attempts EXCEPT
                    ![c] = @ \o Skips(c, Len(candidates[c]) - position[c])]
  /\ circuits' = known
  /\ position' = [position EXCEPT ![c] = Len(candidates[c])]
  /\ Emit(c, "mesh.invocation.failed")
  /\ stage' = [stage EXCEPT ![c] = "publish-failed"]
  /\ UNCHANGED attempt

NextCandidate(c, known) ==
  /\ \/ \E i \in DOMAIN candidates[c] : EnterCandidate(c, known, i)
     \/ ExhaustCandidates(c, known)
  /\ UNCHANGED <<now, policies, held, candidates, outcome>>

\* The started event is published, or its publication has failed or timed out.
StartPublished(c) ==
  /\ stage[c] = "publish-started"
  /\ LoopFree(c)
  /\ NextCandidate(c, circuits)

\* The provider answers with a status below 500.
UpstreamAnswers(c) ==
  /\ stage[c] = "attempt"
  /\ LoopFree(c)
  /\ circuits' = [circuits EXCEPT ![Provider(c)] = Fresh]
  /\ Log(c, "completed")
  /\ Emit(c, "mesh.invocation.completed")
  /\ stage' = [stage EXCEPT ![c] = "publish-completed"]
  /\ UNCHANGED <<now, policies, held, candidates, position, attempt, outcome>>

\* A status of 500 or more, a timeout or a network error.
UpstreamFails(c) ==
  /\ stage[c] = "attempt"
  /\ LoopFree(c)
  /\ circuits' = [circuits EXCEPT
                    ![Provider(c)] = AfterFailure(@, held[c], now)]
  /\ Log(c, "failed")
  /\ stage' = [stage EXCEPT ![c] = "reconsider"]
  /\ UNCHANGED <<now, policies, held, candidates, position, attempt, emitted,
                 outcome>>

\* Any other error of the client (a protocol error, say) is not caught: it
\* leaves invoke() past the breaker, the log and the terminal event.
UpstreamRaises(c) ==
  /\ stage[c] = "attempt"
  /\ LoopFree(c)
  /\ Finish(c, "raised")
  /\ UNCHANGED <<now, policies, circuits, held, candidates, position, attempt,
                 attempts, emitted>>

Reconsidered(c) ==
  AfterCanAttempt(circuits[Provider(c)], held[c], now)

\* Mutant: no end to the attempts while the breaker admits them.
RetryForever(c) == CanAttempt(circuits[Provider(c)], held[c], now)

\* Mutant: the policy is read again after every attempt.
RetryByCurrentPolicy(c) ==
  /\ CanAttempt(circuits[Provider(c)], held[c], now)
  /\ \E k \in Capabilities : attempt[c] <= policies[k].retries

\* Mutant: range(1, policy.retries + 2) read as if it included its end.
RetryOnceMore(c) ==
  /\ CanAttempt(circuits[Provider(c)], held[c], now)
  /\ attempt[c] <= held[c].retries + 1

\* Mutant: one attempt fewer than the policy grants.
RetryOnceLess(c) ==
  /\ CanAttempt(circuits[Provider(c)], held[c], now)
  /\ attempt[c] < held[c].retries

MayRetry(c) ==
  /\ CanAttempt(circuits[Provider(c)], held[c], now)
  /\ attempt[c] <= held[c].retries

\* The attempt is repeated at the same candidate.
Retry(c) ==
  /\ stage[c] = "reconsider"
  /\ MayRetry(c)
  /\ circuits' = [circuits EXCEPT ![Provider(c)] = Reconsidered(c)]
  /\ attempt' = [attempt EXCEPT ![c] = @ + 1]
  /\ stage' = [stage EXCEPT ![c] = "attempt"]
  /\ UNCHANGED <<now, policies, held, candidates, position, attempts, emitted,
                 outcome>>

\* Mutant: the first provider given up fails the whole invocation.
FailWithoutFailover(c) ==
  /\ stage[c] = "reconsider"
  /\ ~MayRetry(c)
  /\ Emit(c, "mesh.invocation.failed")
  /\ stage' = [stage EXCEPT ![c] = "publish-failed"]
  /\ UNCHANGED <<now, policies, circuits, held, candidates, position, attempt,
                 attempts, outcome>>

\* Mutant: while the breaker refuses the call waits instead of moving on.
FailOverWhenSpent(c) ==
  /\ stage[c] = "reconsider"
  /\ attempt[c] > held[c].retries
  /\ NextCandidate(c, [circuits EXCEPT ![Provider(c)] = Reconsidered(c)])

\* The breaker refuses, or the attempts are used up.  can_attempt() was asked
\* all the same after the last one, and may have half-opened the circuit.
FailOver(c) ==
  /\ stage[c] = "reconsider"
  /\ ~MayRetry(c)
  /\ NextCandidate(c, [circuits EXCEPT ![Provider(c)] = Reconsidered(c)])

\* The terminal event is published (or not), and the call returns or raises.
EndPublished(c) ==
  /\ LoopFree(c)
  /\ \/ stage[c] = "publish-completed" /\ Finish(c, "answered")
     \/ stage[c] = "publish-failed" /\ Finish(c, "exhausted")
  /\ UNCHANGED <<now, policies, circuits, held, candidates, position, attempt,
                 attempts, emitted>>

-----------------------------------------------------------------------------
(* The operator, in threadpool threads, and the clock.                     *)

SetPolicy(k, policy) ==
  /\ policies' = [policies EXCEPT ![k] = policy]
  /\ UNCHANGED <<now, circuits, callVars>>

ResetCircuit(s) ==
  /\ circuits' = [circuits EXCEPT ![s] = Fresh]
  /\ UNCHANGED <<now, policies, callVars>>

Tick ==
  /\ now < MaxTime
  /\ now' = now + 1
  /\ UNCHANGED <<policies, circuits, callVars>>

\* What a call that has begun does next, whatever the network answers.
Progress(c) ==
  \/ RegistryFails(c)
  \/ InvokeCandidates(c)
  \/ ResolveCandidates(c)
  \/ StartPublished(c)
  \/ UpstreamAnswers(c)
  \/ UpstreamFails(c)
  \/ UpstreamRaises(c)
  \/ Retry(c)
  \/ FailOver(c)
  \/ EndPublished(c)

Next ==
  \/ \E c \in Calls : BeginInvoke(c) \/ BeginResolve(c) \/ Progress(c)
  \/ \E k \in Capabilities, policy \in Policies : SetPolicy(k, policy)
  \/ \E s \in Services : ResetCircuit(s)
  \/ Tick

Spec == Init /\ [][Next]_vars

\* Every client call has a timeout, and the loop serves every ready call.
FairSpec == Spec /\ \A c \in Calls : WF_vars(Progress(c))

-----------------------------------------------------------------------------
(* Properties                                                              *)

\* Every variable stays in its domain; a call that is attempting or deciding
\* is at a candidate of its list and within the budget of its policy.
TypeOK ==
  /\ now \in Nat
  /\ policies \in [Capabilities -> Policies]
  /\ circuits \in [Services -> Circuit]
  /\ stage \in [Calls -> Stages]
  /\ held \in [Calls -> Policies]
  /\ candidates \in [Calls -> Seq(Services)]
  /\ position \in [Calls -> Nat]
  /\ attempt \in [Calls -> Nat]
  /\ attempts \in [Calls -> Seq(Entry)]
  /\ emitted \in [Calls -> Seq(EventTypes)]
  /\ outcome \in [Calls -> Outcomes]
  /\ \A c \in Calls : stage[c] \in {"attempt", "reconsider"} =>
       /\ position[c] \in 1..Len(candidates[c])
       /\ attempt[c] \in 1..held[c].retries + 1

\* No circuit is locked for good: one that is not closed knows when it opened
\* (can_attempt refuses for ever an open circuit that does not), that moment
\* is past, and it had enough failures for some policy.  A closed one has
\* fewer failures than some policy tolerates, so that no failure was absorbed.
CircuitsCanRecover ==
  \A s \in Services :
    LET c == circuits[s] IN
    IF c.state = "closed"
    THEN /\ c.opened_at = Never
         /\ \E p \in Policies : c.failures < p.circuit_failure_threshold
    ELSE /\ c.opened_at \in 0..now
         /\ \E p \in Policies : c.failures >= p.circuit_failure_threshold

\* The log of a call is the deterministic failover order: it starts at the
\* first candidate, an attempt follows the failed attempt before it at the same
\* candidate, within the retries of the policy the call began with (whatever
\* set_policy does meanwhile), or goes on to the very next candidate; nothing
\* follows an answer, and no skipped candidate is attempted after all.
FailoverInOrder ==
  \A c \in Calls :
    LET log == attempts[c] IN
    /\ log # <<>> => log[1].candidate = 1 /\ log[1].attempt \in 0..1
    /\ \A i \in 1..Len(log) - 1 :
         \/ /\ log[i].result = "failed"
            /\ log[i + 1].candidate = log[i].candidate
            /\ log[i + 1].attempt = log[i].attempt + 1
            /\ log[i + 1].attempt <= held[c].retries + 1
         \/ /\ log[i].result # "completed"
            /\ log[i + 1].candidate = log[i].candidate + 1
            /\ log[i + 1].attempt \in 0..1
    /\ \A i \in 1..Len(log) :
         log[i].attempt = 0 <=> log[i].result = "open-circuit-skip"

\* Retries multiply with failover, and no further: whatever the providers, the
\* breaker and the operator do meanwhile, a call makes no more attempts than its
\* list times the attempts of the policy it began with, refusals included.
AttemptsBounded ==
  \A c \in Calls :
    Len(attempts[c]) <= Len(candidates[c]) * (held[c].retries + 1)

Completed(c) == \E i \in DOMAIN attempts[c] : attempts[c][i].result = "completed"

\* The events of a call tell the truth about it: "completed" is emitted exactly
\* when an attempt was answered, "failed" only when every candidate of the list
\* was attempted or refused and none answered, at most one of the two, after
\* "started", and the caller gets the outcome that was announced.
TelemetryMatchesOutcome ==
  \A c \in Calls :
    LET started == "mesh.invocation.started"
        answered == <<started, "mesh.invocation.completed">>
        failed == <<started, "mesh.invocation.failed">>
    IN /\ emitted[c] \in {<<>>, <<started>>, answered, failed,
                          <<"mesh.route.resolved">>, <<"mesh.route.blocked">>}
       /\ Completed(c) <=> emitted[c] = answered
       /\ emitted[c] = failed =>
            \A i \in DOMAIN candidates[c] :
              \E j \in DOMAIN attempts[c] : attempts[c][j].candidate = i
       /\ outcome[c] = "answered" => emitted[c] = answered
       /\ outcome[c] = "exhausted" => emitted[c] = failed

\* A call gives a provider up after a failed attempt only when the attempts of
\* its policy are used up or the provider's circuit is open.
LeavesProviderSpent ==
  [][\A c \in Calls :
       stage[c] = "reconsider" =>
         \/ stage'[c] = "reconsider"
         \/ stage'[c] = "attempt" /\ position'[c] = position[c]
         \/ attempt[c] = held[c].retries + 1
         \/ circuits[Provider(c)].state = "open"]_vars

\* Starting an attempt leaves the provider's circuit closed or half-open, and
\* one that was open has waited the recovery window of the call's own policy.
AttemptsPassTheBreaker ==
  [][\A c \in Calls :
       stage[c] # "attempt" /\ stage'[c] = "attempt" =>
         LET s == candidates[c][position'[c]] IN
         /\ circuits'[s].state # "open"
         /\ circuits[s].state = "open" =>
              now - circuits[s].opened_at >= held[c].recovery_seconds]_vars

\* The steps that a call may still take once it has its list: two for every
\* attempt it is allowed, and the end.
StepsLeft(c) ==
  LET allowance == held[c].retries + 1
      beyond == (Len(candidates[c]) - position[c]) * allowance
      here == allowance - attempt[c]
  IN CASE stage[c] = "publish-started" -> 2 * beyond + 2
       [] stage[c] = "attempt" -> 2 * (beyond + here) + 3
       [] stage[c] = "reconsider" -> 2 * (beyond + here) + 2
       [] stage[c] \in {"publish-completed", "publish-failed"} -> 1
       [] OTHER -> 0

\* Every step of a call brings it nearer to its end, whatever it meets: breakers
\* that open and recover, resets and new policies give it no step back, and a
\* call that is over logs and announces nothing more.
CallsWindDown ==
  [][\A c \in Calls :
       \/ stage[c] \in {"new", "invoke-registry", "resolve-registry"}
       \/ UNCHANGED <<stage[c], attempts[c], emitted[c], outcome[c]>>
       \/ StepsLeft(c)' \in 0 .. StepsLeft(c) - 1]_vars

\* The mesh drives every circuit through the life cycle the breaker promises.
Contract == INSTANCE CircuitContract WITH
  phase <- [s \in Services |-> circuits[s].state],
  strikes <- [s \in Services |-> circuits[s].failures],
  tripped <- [s \in Services |-> circuits[s].opened_at]
ImplementsContract == Contract!Spec

\* The stage a call is suspended at, for its caller.
Phase(place) ==
  CASE place \in {"invoke-registry", "resolve-registry"} -> "asking"
    [] place = "publish-started" -> "walking"
    [] place = "attempt" -> "trying"
    [] place = "reconsider" -> "deciding"
    [] place \in {"publish-completed", "publish-failed"} -> "ended"
    [] place = "done" -> "over"
    [] OTHER -> "new"

\* Every call goes through its own life cycle, undisturbed by the other calls,
\* by resets and by new policies: the interleaved steps of all of them are the
\* steps of one call at a time.
Lifecycle == INSTANCE CallLifecycle WITH
  phase <- [c \in Calls |-> Phase(stage[c])],
  allowance <- [c \in Calls |-> held[c].retries + 1],
  size <- [c \in Calls |-> Len(candidates[c])],
  place <- position,
  tries <- attempt,
  told <- emitted,
  result <- outcome
ImplementsCallLifecycle == Lifecycle!Spec

\* Every call that has begun ends, answered or not: no retry or failover loop
\* goes on for ever, whatever the providers, the operator and the clock do.
EveryCallEnds ==
  \A c \in Calls : stage[c] # "new" ~> stage[c] = "done"

=============================================================================
