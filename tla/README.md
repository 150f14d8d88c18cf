# Verification of the service mesh runtime

TLA+ models of the runtime in this repository (`app/`, `agent/`, the scripts
under `global-resolution/`), TLC configurations that check them on small
instances, and TLAPS proofs for any number of calls, threads, providers, nodes,
clients and dispatches, and any durations. Line references are to the repository's files.

    tlc -workers 2 -config MCMesh_safety.cfg MCMeshEngine
    tlapm MeshEngine_proofs.tla

## 1. The system

One FastAPI process (`app/main.py`) holds all state in memory. `invoke` and
`resolve` of the mesh are `async def` handlers on one event loop; every other
handler is a plain `def` and runs in a thread of the server's pool. That split
decides which interleavings exist, and with them most of what can go wrong.

| component | state | operations | what makes it correct |
|---|---|---|---|
| Circuit breaker (`app/mesh.py:25-69`) | per provider: failures, state, time it opened | `can_attempt`, `success`, `failure`, `reset` | opens at the threshold, admits a trial after the window, never locks a provider out for good |
| Mesh engine (`app/mesh.py:106-368`) | policies, the circuits, per call its locals | `invoke`, `resolve`, `set_policy`, reset route | failover in the order of the ranked list, retries within the policy, events that tell the truth, every call ends |
| Event bus (`app/mesh.py:72-103`, `app/main.py:168-170`, `276-291`) | 1000 retained events, a queue of 100 per subscriber | `emit`, `subscribe`, `unsubscribe`, the stream, the list | drops only what finds a subscriber's queue full, list and stream together miss nothing else, every queued event leaves its queue |
| Dispatch fabric (`app/dispatch.py`) | dispatch records: state, target, result, proof chain | `dispatch`, `execute`, `complete_stage`, `fail` | proof chain in the declared order over the result it proves, completion only with a full chain, executed once at a time |
| Global resolver (`app/global_resolver.py`) | registries, live nodes, 1000 events | `advertise`, `heartbeat`, `topology`/`expire`, `resolve`, `reload`, `validate` | nobody is offline who was heard of, each silence is announced once, a node that is online beats an undiscovered one, a report replaces a node's entry at once |
| Executor adapters (`app/executors.py`, `agent/executor_server.py`) | none | call a node's executor | a failed or timed-out call is reported as one |
| Node agent (`agent/node_agent.py`) | backoff | advertise, heartbeat, retry | its timing fits the TTL of the control plane; the node is rediscovered after failures and restarts |
| Conformance certification (`conformance/certify.py`) | report file | batch script | the verdict follows what the files declare |
| Evidence harvest and certification (`runtime-evidence/`) | report files | two batch scripts | nothing is certified that one harvest did not prove |
| Registries, bundles, policies | YAML | none | no behaviour |

How they interact: the mesh engine asks the registry over HTTP for candidates,
calls providers over HTTP and publishes events to a gateway, each an `await`
where other calls run. The dispatch fabric calls the resolver (a function
call) for a target and an executor adapter (blocking, in the request's thread).
The node agent drives the resolver over HTTP. The circuit breaker and the
policy table are shared between the event loop and the thread pool; the
dispatch records are shared between threads with no lock; the resolver has a
lock that covers single changes of its table.

The hard behaviours, at their lines, are the `hazards` of `PROJECT.json`. In
short: circuits shared by calls that suspend between admission and result; a
policy read before an await and used after it; a reset from another thread
between `failure` and `can_attempt`; checks and writes of dispatch records
that other threads come between; results that arrive late; node state that is
read without being expired; sweeps that race with reports; two processes whose
timings have to fit; clients that stall or leave; restarts, partial writes and scripts that overlap.
The service persists nothing, so a restart loses everything; the scripts keep
files.

## 2. Modules

| module | models | state and actions |
|---|---|---|
| `CircuitBreaker` | the breaker's methods | one operator per method, from a circuit to a circuit |
| `CircuitContract` | what the breaker promises about a provider | phase, strikes and opening time; Keep, Strike, Trip, Recover, Close, Advance |
| `MeshEngine` | `invoke`, `resolve`, `set_policy`, reset, the clock | one action per stretch between two awaits |
| `CallLifecycle` | what the mesh promises one call | its phase, allowance of tries, place in the list, announcements, result; Ask, Learn, Approach, Miss, TryAgain, Hit, GiveUp, Break, Return, and Refuse and Route |
| `EventBus` | `emit`, `subscribe`, the stream and the list of `main.py` | one action per stretch of the event loop or a pool thread |
| `PacketLifecycle` | what the fabric promises clients that wait for answers | phase and number of signatures; Accept, Wait, Start, End, Sign, Fail |
| `DispatchFabric` | `dispatch`, `execute`, `complete_stage`, `fail` | one action per unguarded read or write of a record |
| `NodeTable` | what the resolver promises of its table of nodes | entries with their ages; Advertise, Heartbeat, Lapse, Tick, Restart |
| `GlobalResolver` | `advertise`, `heartbeat`, `expire`, `resolve`, `reload`, restart | one action per lock section and per unguarded read |
| `NodeAgent` | the agent's loop with `NodeTable` as its control plane | one action per phase of a request or pause, and per fault |
| `RuntimeEvidence` | `harvest.py`, `certify_runtime.py` and the files between them | per harvest and per certification one action per probe and per half of a write |
| `Conformance` | `certify.py` | a run of the gate, an edit of the files |
| `MC*` | | values of the constants, symmetry sets |
| `MeshEngine_proofs`, `MeshCalls_proofs`, `DispatchFabric_proofs`, `GlobalResolver_proofs`, `NodeAgent_proofs`, `EventBus_proofs`, `RuntimeEvidence_proofs`, `Conformance_proofs` | | theorems |

Four pairs of an abstract and a detailed specification: `MeshEngine` (which
extends `CircuitBreaker`) implements `CircuitContract` for its circuits and
`CallLifecycle` for its calls, `DispatchFabric` with
serial clients implements `PacketLifecycle`, `GlobalResolver` implements
`NodeTable`. `NodeAgent` is composed with `NodeTable`, not with the resolver. Each
step of its control plane is a step of `NodeTable` with a delay that the resolver
allows too: an advertisement is stored with a time read any while before, within
the wait of the agent for one it still waits for and any age for one it gave up
(`LateDelays`; no delay, one heartbeat's and one past the TTL in the runs, any set
in the theorems). What the composition leaves out of the table is reports of a
health other than "online", which the agent never makes. Definitions commented "Mutant" are deliberate mistakes, one
for each property, that no specification uses: substituted for the definition
that follows them, they make TLC report the property.

### MeshEngine and the code

A call's `stage` is the await it is suspended at:

| stage | code |
|---|---|
| `new` | the request has not started |
| `invoke-registry`, `resolve-registry` | `_registry_candidates`, 151-174 |
| `publish-started` | `_publish_event` of `mesh.invocation.started`, 255-265 |
| `attempt` | the upstream request, 287-300 |
| `reconsider` | between `failure` (336 or 347) and `can_attempt` (356); not an await |
| `publish-completed`, `publish-failed` | `_publish_event` of the terminal event |
| `done` | returned or raised |

- `reconsider` is there because a pool thread may run the reset route between
  the two calls. No other call of the event loop may move then: `LoopFree` is a
  guard of every action of a call. Everywhere else an assignment of one
  dictionary entry by a pool thread falls before or after the step with the
  same outcome, so the step is atomic.
- `NextCandidate` runs the `for candidate` loop to the next admitted candidate
  or to its end in one step, because nothing in between is an await. The skipped
  candidates enter the log in that step.
- `resolve()` asks the breaker about every candidate of the list and half-opens
  circuits it does not attempt; `ResolveCandidates` does it to all of them.
- `UpstreamRaises` is any error of the client other than a timeout or a network
  error. The code does not catch it.
- A circuit is created on first use (`setdefault`); one that was never created
  behaves as `Fresh`.
- Publishing is an await only when a gateway is configured; the model has one,
  which gives the more interleavings. Failed publications change nothing.
- Headers, URLs, bodies and latencies are left out. Time is whole seconds.

`CallLifecycle` has no breaker, no clock, no operator and no log. Under the
mapping of `ImplementsCallLifecycle` a call's phase is its stage (`Phase`), its
allowance the retries of the policy it began with plus one, its place the index of
its candidate. That the mesh implements it says that none of what is shared
(circuits that other calls open, resets, replaced policies) shows in a call's
course other than as which providers it passes over and when it stops trying
one. What the life cycle leaves open is what the breaker decides; `Approach` may pass over
providers, and `GiveUp` may come before the allowance is used up.

### DispatchFabric and the code

A request's thread is a `frame`: a place in a handler, and the handler's locals.
`check` and `claim` are the state test (97) and the assignments of `execute`
(101 or 106), `running` the executor's call (110), `returned` the moment before
`EXECUTED` (111); `match`, `append`, `mark` and `announce` are lines 126-130,
132, 141 and 143 of `complete_stage`. A request refused before it changes
anything (404, 409) is a stuttering step. The resolver's choice is any node.
`runs`, `signed` (the result under each signature) and `announced` are history
variables. `SerialSpec` is the same system with clients that wait for the
answer to a request about a dispatch before they send another about it; its
threads still run handlers of different dispatches at once.
So what is claimed of it (`ProofChainOrdered`, `StateMatchesChain`,
`OneRunAtATime`, `CompletionAnnouncedOnce`, `ImplementsLifecycle`) is about
sequences of requests - repeats, failures, executions again - and not about the
races at 97, 111, 129, 141 and 143, which need two requests about one dispatch at
once: for those there are the properties of `Spec` (`dispatch_threads`).

`PacketLifecycle` has one step per request. Under the mapping of
`ImplementsLifecycle` its phase is the record's state, and its count of
signatures is the length of the proof chain, less the entry that `append` has
made and `mark` has yet to follow with the state. So the two writes of
`complete_stage` are one step to a client, and so are the check and the claim of
`execute`. What the life cycle does not promise is as telling: a packet executed
again keeps its signatures, and one that failed with all five signed can be
executed but never completed again (`complete_stage` returns at 128).

### GlobalResolver and the code

The lock covers the store of `advertise`, the read and write of `heartbeat`,
the sweep of `expire` and the swap of `reload`; each is one step. What is
computed before the lock is a step before it: the new state of an advertising
node with its `last_seen` (140-147), the cutoff of a sweep (174). Announcements
of lapsed nodes are made after it, one by one. `resolve` reads the capability
(221), then its routes (226), then the node index, then each node's live state,
one step each, and a reload may fall between any two. A node whose
`capacity_score` `int()` cannot read (`Unreadable`) fails the request
(`FailResolve`).

`history` tells what was reported, apart from what the table holds: when the
latest report that took effect was made, what the last one said, and whether that
one was overtaken, that is made before one that took effect earlier. `last_seen` is
put back by such an advertisement (line 140 is before the lock of 148), and
the node may then be swept though it was heard of within the TTL: the third case of
`OfflineIsSilent`, which the code allows and `LIVE_RESOLVER.md:63` ("expires to
`offline` when its TTL is exceeded") does not speak of.

`Restart` is the process starting anew: `Fresh` gives every variable but the
clock a first value, and the history with them. Under `ImplementsNodeTable` an
entry's age is the time since its `last_seen`; an advertisement's is what went by
between lines 142 and 149. The table forgets how much older than the TTL an
entry is.

Abstractions. Of the event list only the announcements of lapsed nodes are kept,
as counts. Registries are small records in place of YAML; of the routes, what
preference a request finds in them. A node's resources are what `int()` makes of its
capacity score, any integer. The clock does
not go back. The read of one candidate is atomic; in the code its health and
its capacity could come from two different reports. A registry that does not
validate is swapped in all the same, as in the code; `validate` only reports and
is not modelled.

### NodeAgent and the code

`agent.at` is where `loop` is: in a request (`connect`, `await`), in the sleep
before a heartbeat (131), in the `inventory` that `heartbeat` calls (117), in the
pause after an error (137), or in a process that systemd starts again (`boot`).
`left` is the time it may still stay there, and `Tick` is refused when there is
none: sleeps end on time, and the two commands of `inventory` have 2 s each.
`httpx.Client(timeout=10)` bounds each operation (to connect, each write, each
read), not the request: `Patience` is one operation, `Answer` the longest from the
connection to the whole answer, several of them. A server that sends its answer
byte by byte could take longer still; then nothing the agent does keeps its node
online. `slow` says that a wait outlasted one operation (`Overrun`).
`doomed` is a request whose control plane went away after it connected.

An advertisement is stored with a time that its handler read before
(`global_resolver.py:142` and `148`): while the agent waits, within that wait; once
given up, any while ago, so that a late one may put `last_seen` back behind reports
served since. `stale` says that it did, until another report is stored.

`Fail` is the `except Exception` of 135, at any point of a request: refused, reset,
an error status or out of time. A request that was not served when it was given
up may stay in `late` and be served at any time after. An answer may be lost
after the request was served. `PlaneRestarts` empties the table and `AgentRestarts` the
agent's locals (`Restart=always` of the unit). `Heal` is the moment after which
requests only fail that were already doomed: `healed` exists for the liveness
property. `lost`, `unheard`, `slow` and `stale` are history variables.

### EventBus and the code

`emit` is two steps, the append (87) and the rest (88-94), because `events` of
`main.py` runs in a pool thread and may copy the list in between; the streams
are coroutines and may not, so their steps wait for `emit` to return. A stream is
`waiting` in `queue.get()` with a timeout, `getting` when the queue was not empty
and the wait returns at once, `yielding` while the client's connection has what
was yielded, `abandoned` when the client left it there: the generator's `finally`
then runs only when the event loop finalizes it. Events are the numbers in which
they were emitted. The client of a stream is also the one who lists. `full` is a
history variable: the events that found the stream's queue full.

### RuntimeEvidence and the code

`harvest` and `certifier` are the locals of the processes that run the two
scripts, `disk` the files. Nothing in the scripts keeps two of either apart (the
workflow runs each pair in a checkout of its own, a user need not), so any number
run at once. Harvests are numbered as they begin; `MaxHarvests` bounds the numbers.
A write is a truncation and a write (`Path.write_text`), and a process may stop
before and after each. Two that have both truncated a file both write from its
beginning: a longer text shows behind a shorter one (`Garbled`), which no JSON parser
accepts. A certification reads the report whole; a torn, garbled or missing
one raises, which is not a step. Evidence is PROVEN or not (ERROR and MISSING
differ in nothing a control asks). The 82 offices have the same evidence in every
report, so one stands for all. `witnessed` and `overlapped` are history variables:
the harvests in which everything required was answered, and whether one began
while another ran. `CertifiedWasProven` holds with overlaps. `ReportLeads` is about
harvests that do not overlap, as an overlap may leave the report of one with
the receipt of another.

The model makes plain what the numbers of the code amount to, and it is not what
the scripts' own README says. Six of the twenty controls have probes, 30 %, and PARTIAL
asks for 30 %: without the canary, which is off by default, a runtime that answers
everything is certified FAIL. `runtime-evidence/README.md:35` says "`PARTIAL` means some
runtime evidence exists but controls remain unproven": with some of it, even all but one
endpoint, `certify_runtime.py:80` gives FAIL. `README.md:33` says "`PASS` means the
implemented runtime probes required by this profile are actually evidenced": with all of
them PROVEN the six controls give PARTIAL, and PASS (95 %, line 78) is beyond every
runtime. `README.md:37` reserves FAIL for blocking evidence that is unavailable or a
runtime that cannot be reached. `CertifiedWasProven` is about the other direction only,
that nothing unproven is certified, and is neutral to these. The state UNKNOWN cannot
come up, because a URL is always configured (`harvest.py:89`).

### Conformance and the code

`declared` is what the baseline and an office's bundle hold, of the settings that
the controls ask for; `Within` says which of them is a substring of which
(`item in token`). Three controls stand for the twenty.

## 3. Runs

| run | instance | what it shows |
|---|---|---|
| `mesh_safety` | 2 calls, 2 providers or one, 2 policies, clock to 2 | failover order and budgets, telemetry, the breaker: all invariants, the action properties, the refinements of `CircuitContract` and `CallLifecycle`, that every step of a call brings it nearer to its end, and that every call ends |
| `dispatch_threads` | 2 threads, 1 dispatch, 2 nodes of which 1 has an executor, 2 executions | what holds however threads race: no organ signs early, no proof without a result, no stage's state without its signature, a chain longer than it should be only by the threads that sign at once, and RUNNING has a thread at work and is left |
| `dispatch_serial` | 2 threads, 2 dispatches, 2 executions each | with one request at a time: chain in order, state agrees with it, one run, one announcement, and the refinement of `PacketLifecycle` |
| `dispatch_bypass` | 2 threads, 1 dispatch | **violation**: completed although an organ never signed |
| `dispatch_rerun` | 1 thread | **violation**: completed with a result the organs never signed |
| `resolver_threads` | 2 threads, 2 declared nodes and an undeclared one, 2 registries, 2 queries, restarts, clock to 2, TTL 1 | offline means not heard of, said so or overtaken, one announcement per silence, a node that is online preferred, and the refinement of `NodeTable` |
| `resolver_stale` | 1 thread, heartbeats only | **violation**: a node silent for longer than the TTL is selected as online |
| `node_agent` | one node, the code's durations in units of 2 s, late advertisements with times 0, 32 and more than 90 s old | the TTL covers the agent's timing; once faults are over the first answer finds the node online, for good, and there is one |
| `agent_restart` | the same | **violation**: a node is online with no capabilities after the control plane restarted |
| `event_bus` | 1 client, queue of 2, a list of 2, 8 events | every lost event found the queue full, list and stream together miss nothing else, every queued event leaves |
| `runtime_evidence` | 2 harvests, 2 certifications at a time, 2 probes that may fail and a canary on or off | nothing is certified that one harvest did not prove; without overlap no file is ahead of the report |
| `conformance_gate` | 3 controls, 6 settings | **violation**: PASS with nothing declared |

The bounds, and why they are enough to see the interesting cases:

- Two policies that differ in every field, one with a retry and threshold 2, one
  with no retry and threshold 1: failures counted under one are judged under the
  other, and a policy may change under a call that retries. Recovery windows of
  1 and 2 seconds and `MaxTime` 2 let a circuit open, wait, half-open and reopen.
- Two calls are enough for one to open, close or half-open a circuit between the
  other's admission and its result. The lists have both providers or one, so a
  call fails over or exhausts at once, and both calls meet at one provider.
  The clock stops at its bound, which makes liveness harder, not easier: no call
  relies on time passing.
- `MaxRuns` 2 allows one re-execution and, with two threads, two at once.
- `MaxReports` gives one node two reports and the others one since the last
  start: enough to lapse, come back and lapse again, and for a report to be under
  way during a sweep. `MaxTime` 2 with `Ttl` 1 is the least at which anything
  lapses. Nodes report "online", as the agent does. Capacities are -24, the least with
  which a node that is online still goes before an undiscovered one, and one that
  `int()` cannot read; the theorem is for all.
- `NodeAgent` has no bound: its state space is finite with the real durations.
  TTL 90 s, heartbeats every 30 s, timeouts of 10 s an operation, an answer
  within 20 s, inventory 4 s, pauses
  from 2 s to 60 s. `NeverSilentWhileServed` is tight: it fails with a TTL of 88 s or
  a longest pause of 64 s. The longest silence it covers is a lost answer, a
  pause of 60 s, a connection and a wait of one timeout each. With answers that take more
  than one timeout it covers only requests that are all answered: a slow wait that then
  ends in an error, a pause of 60 s, a connection and another slow answer are 110 s and
  more, and the code's TTL is 90 s.
- A queue of 2 is filled by two events and overrun by the third; with eight it is
  filled, emptied and filled again in one stream. A list of
  2 drops events while a stream still holds them. Streams share nothing but `emit`,
  which offers to each on its own, so one client shows what a client can see; the
  theorems are for any number.
- Two harvests are one to leave files and one to overwrite them, after the other or
  at the same time; two certifications write one certificate between them. Health and
  readiness may fail (`Flaky`), which gives LIVE, DEGRADED and OFFLINE and one control
  that fails; the canary off gives another that is incomplete. The theorems are for any
  `Flaky`.
- Symmetry is over threads and dispatches, which the specifications treat alike. It
  is used only in runs without liveness.

The deadlock check is on everywhere but in `runtime_evidence`, where two harvests
are all there are and the system really stops.

### Fairness

`MeshEngine!FairSpec` has weak fairness of each call's progress: all three
clients have timeouts (registry 5 s, attempts `timeout_ms`, publication 2 s), and
the event loop serves every ready task. The timeouts are per network operation,
so a server that trickles bytes for ever is outside the assumption.
No fairness is assumed of the operator, the clock or any particular answer.
`NodeAgent!Spec` has weak fairness of time and of the agent's own steps: what
its client, its sleeps and its subprocess have timeouts for. Nothing is assumed of
`Sweep`, of late requests or of faults ending; `OnlineInTheEnd` is about what
follows once they have (`healed`), and a sweep may then come at any time.
`EventBus!Spec` has weak fairness of `emit` returning, and strong fairness of a
stream taking what its queue holds, of a client reading or leaving, and of a
generator being finalized. Strong, because `emit` keeps the event loop from all three
again and again for as long as events come: none of it counts on events
ending. The loop serves every ready task in turn, so each gets its step between two
emissions. A client that neither reads nor leaves for ever holds its queue for ever,
bounded.
`DispatchFabric!FairSpec` has weak fairness of each thread's handler: threads
are scheduled, and the executors have timeouts (30 s and 60 s). The same remark
applies to the HTTP executor's.

### Findings

`PROJECT.json` quotes the line each one contradicts.

1. Two concurrent evidences of one organ take two places of the chain, and
   another organ is never asked for (`dispatch.py:132`).
2. Re-execution keeps the proof chain of the earlier result (`dispatch.py:110`).
3. Selection does not expire nodes (`global_resolver.py:279`).
4. A restarted control plane makes a node online by its heartbeat alone, without
   its capabilities (`global_resolver.py:164`), and the agent has no reason to
   advertise again (`node_agent.py:130`).
5. The conformance gate counts a control's own list of required evidence as
   evidence (`certify.py:78`).

Seen while modelling, and part of the models, but without a run of their own:

- Half-open admits every caller (`mesh.py:42`); `PROOF.md:55` speaks of a bounded
  attempt.
- Client errors outside two classes skip the failure accounting, failover and
  the terminal event (`mesh.py:346`): `UpstreamRaises`.
- Two concurrent executions of one dispatch both run it (`dispatch.py:97`):
  `CheckExecutable` and `StartExecutor` of two threads.
- `fail` takes a completed dispatch out of its state (`dispatch.py:150`).
- The HTTP adapter posts to `/v1/execute` (`executors.py:45`); the repository's node
  service has `/execute` (`executor_server.py:42`). It waits 30 s for a command
  that may run for 300 s.
- The gate certifies PARTIAL with blocking failures (`certify.py:106`), where
  `conformance/README.md:17` says FAIL; finding 5 keeps that from coming up.
- A live runtime is never certified without the canary, and PASS and PARTIAL do not
  mean what `runtime-evidence/README.md:33` and `:35` say (see RuntimeEvidence).
- An advertisement that is overtaken puts `last_seen` back, and the node may be swept
  though it was just heard of (`global_resolver.py:140`; see GlobalResolver and NodeAgent).
- A node that reports a `capacity_score` that is no number fails every `resolve` that
  considers it, and one of -25 or less goes behind nodes nobody has heard of
  (`global_resolver.py:287`).
- Two harvests at once may leave files of different harvests, or garbled ones.

## 4. Proofs

The theorems hold for every value of the constants that satisfies the modules'
assumptions: policies are within the bounds of `models.py`, `Never` and `None`
are no times, nodes or dispatches, candidate lists are non-empty sequences of
providers (an empty answer of the registry is a 404, `RegistryFails`), executors
are registered for nodes. No theorem uses the bounds of the runs.

**Mesh** (`MeshEngine_proofs`). `TypeCorrect`, `CircuitsRecover` and
`ContractImplemented`. The argument is in three layers.
`Touched(a, t)` is everything the breaker's methods can make of circuit `a` at
time `t`, under any policy. `StepCircuits` shows that every step of the mesh
leaves every circuit in its `Touched` set, or lets time pass and leaves the
circuits alone; a candidate asked about twice in one step is asked once
(`AskedTwice`). What remains is about one circuit: `TouchedCircuit` shows that it
stays recoverable, and `TouchedKeepsContract` that the change is a move of the
contract. The contract's theorem needs `CircuitsCanRecover`: that a half-open
circuit's next failure is at some policy's threshold, as `Trip` demands, is true
only because it once had enough failures to open. Type correctness needs
`PositionOK` (a call is at no candidate before its first admission and never
past the last) to be inductive: without it the number of skipped candidates
could be negative.

**Dispatch under races** (`DispatchFabric_proofs`). `TypeCorrect`,
`NoEarlySignature`, `ProofHasResult`, `StageHasSignature`, and from them
`CompletionIsEarned`: completion has at least five signatures. The inductive
invariant is `ThreadsInv`: the three invariants with `FramesJustified`, which
says what a thread has read is still good enough when it acts on it (a matched
organ may have become late but cannot be early; a result is replaced but never
dropped). `RunningIsServed`: a RUNNING dispatch has a thread in `execute` for it,
so `RUNNING` is never left behind by a thread that is gone; it is inductive with
the frames' types. `OverrunIsBounded` says how far the race of finding 1 can go:
the chain outgrows the five required organs by at most the number of threads
less one. The invariant behind it, `OverrunInv`, counts the threads that have matched
and not appended (`Signing`), which needs that there are finitely many
(`WorkersFinite`): a thread that appends leaves that set as the chain grows by one,
and one that matches joins it only while the chain is not yet full.

**Dispatch without races** (`DispatchFabric_proofs`, second part). `ChainInOrder`,
`StateFollowsChain`, `RunsAlone`, `AnnouncedOnce` for `SerialSpec`. The inductive
invariant `SerialInv` says of each thread what it relies on (`ThreadAlone`) and
of each dispatch how its fields fit together (`DispatchSettled`). A step touches
one thread and one dispatch; the lemma `Local` carries the invariant to all the
others, so each action is argued about its own two. `LifecycleImplemented` is the
refinement of `PacketLifecycle`: `ThreadAlone` has what its guards need (what a
thread read about the state still holds when it acts), and a step away from
`mark` changes no count of signatures.

**The calls of the mesh** (`MeshCalls_proofs`). `FailoverIsInOrder`,
`TelemetryIsTrue`, and the action properties `ProviderIsSpent` and
`AttemptsAreAdmitted`. The invariant `CallsInv` ties what a call has logged and
emitted to the place where it is suspended (`Whereabouts`): a call that attempts
candidate `p` is done, in vain, with the `p - 1` before it, and the last entry of
its log is the one the next attempt has to follow. Without that the order of the
log says nothing about the next entry, and "failed" could be announced with a
candidate never tried. A step is one call's, and the others rest
(`ProgressCalls`). The action properties need type correctness and one fact about
the breaker (`Admission`); the operator's reset between `failure` and
`can_attempt` is in them, because they speak of the circuit at the step itself.
`WorkIsBounded` adds up what the retries allow: a failure costs an attempt, a skip a
candidate, and a call at candidate `p` has made at most `p` allowances of attempts.
`CallsEndInTime` is the argument for termination without the fairness: the steps a
call may still take (`StepsLeft`, two for each attempt it is allowed, over the
providers still before it) go down with every step of it and with no other. Each case is an inequality
between products, which `NextCandidateWinds` and `AttemptWinds` isolate.
`CallLifecycleImplemented` is the refinement: the steps of the operator and the
clock are stutters, and each step of a call is the one of its life cycle
that its stage admits; that the answer agrees with the last announcement comes
from `CallsInv`.

**Resolver** (`GlobalResolver_proofs`). `TypeCorrect`, `OnlyTheSilentAreOffline`,
`OnlineIsPreferred`, `SilenceAnnouncedOnce` and the refinement
`NodeTableImplemented`. `ResolverInv` has `FrameOK`: what a handler computed
before the lock is not from the future (a `last_seen`, a cutoff), which is why a
late store or a late sweep does no more than the table allows. Scores and the
choice of the best candidate are recursive functions; their bounds
(`BonusBounds`, `SelectedIsFirst`) are proved by taking the least index at which
they fail, from the well-foundedness of the naturals. `SilenceAnnouncedOnce`
needs `LapseInv`: a node within reach has a silence nobody has yet charged with a
lapse. `OnlyTheSilentAreOffline` needs that a late store or sweep is told apart by the
history: an entry older than the latest report was overtaken (`EntryOK`).
`OnlineIsPreferred` is for capacities of any sign, from the assumption that
`int()` gives integers or raises an error. For the refinement the sweep is argued with the cutoff it read and
the advertisement with the clock it read.

**Node agent** (`NodeAgent_proofs`). `TypeCorrect`, and `ServedIsNeverSilent`
under the assumption `TtlCovers`, which is three inequalities between the TTL and
the agent's durations. It tells which timings would do, not only that these do:
in units of 2 s the code's are TTL 45, timeout 5, answer 10, interval 15, inventory 2,
pauses from 1 to 30, and the first two inequalities are met with equality. The invariant
gives each place of the agent's loop a `Budget`, the age its entry may have reached
when the time left there is up if no wait outlasts one timeout, and a `SteadyBudget` for
answers as slow as they may be when none is lost; an entry of a late advertisement
counts as of age 0 (`ReportAge`), because nothing bounds what it was stored with.
The pause after a loss fits the budget only
because pauses start anew after a success (`PausesStartAnew`). From the same
invariant, `OnlineForGood`: with faults over and no advertisement left that was given up,
an answered request finds the node online, and nothing takes it off again. It needs
`AnsweredIsOnline` (an answer on its way means the entry is there and was not
swept since), and `FreshWhileServed`, which is why no sweep fits in between. With such an
advertisement left a sweep may take the node off once more, and the next heartbeat
brings it back; that this ends is `OnlineInTheEnd`, model-checked.
`ActiveIsAdvertised` is no part of it: a restart can still bring a node back without
its capabilities (finding 4).

**Event bus** (`EventBus_proofs`). `TypeCorrect`, `LossesNeedBacklog`,
`ListAndStreamComplete`, about every event of a stream, for any number of clients.
`StreamOK` says of each stream that it is in order, reaches no further than what was
emitted, and holds or has lost to a full queue each event offered since it opened; that
a list read while a stream was open, in the middle of `emit` or not, reaches to an event
from which on the stream holds all the others.

**Runtime evidence** (`RuntimeEvidence_proofs`). `TypeCorrect`,
`CertificationIsProven`, `NoFileAheadOfReport`, for any number of harvests and
certifications, overlapping as they will, and any probes that may fail.
`AnswersWitnessed` follows a complete set of answers from the harvest to the file
to the certification; whoever wrote a file last, it is of one harvest or unreadable.
For `NoFileAheadOfReport`, where harvests do not overlap, `OneRuns` says that the one
that runs is the latest, `WritersLag` and `CertifiersLag` that what is about to be written
is no newer than the report. `CertifiedIsAnswered` counts: 30 % of twenty controls are
six, six have probes, so all of them must have passed. `TypeOK` is part of the
invariant and not checked by the run: nothing but the other two could break it.

**What the findings need** (last section of `DispatchFabric_proofs` and of
`NodeAgent_proofs`). Three theorems say that the runs with a violation show the only
cause. `NoBypassWithoutRaces`: without finding 1's race, which `SerialSpec` excludes,
no completed dispatch was bypassed by any organ. `OneRunIsSigned`: with any races, the result of
a completed dispatch is the one signed, as long as it was executed once
(`RunsCounted` bounds every result and every signature by the runs that have begun);
a racing second execution breaks it as well as the later one of finding 2.
`ActiveUnlessRestarted`: in behaviours without `PlaneRestarts` a node is online only
with its capabilities, because a heartbeat, even a late one, follows an advertisement
that was served (`AdvertisedFirst`).

**Conformance** (`Conformance_proofs`). `GateNeverFails`, which is finding 5 for
every list of controls, not for the three of the run: whatever the files declare,
a run certifies PASS, because `EverythingPasses` in a corpus that holds what the
controls ask for. `MoreEvidenceNeverLowers` is about the algorithm itself, for any
corpus: it is monotone, so the verdict is wrong only because of what goes into it.
Both assume a finite list of controls, in the theorems themselves.

The modules of the dispatch, the resolver, the agent, the bus and the evidence assume what
their `ASSUME`s say: finitely many threads, `None` no entry, durations and sizes
natural numbers, with queues and lists of at least one.

**Only model-checked.** Liveness (`EveryCallEnds`, `RunningIsLeft`,
`OnlineInTheEnd`, `QueuedEventsLeave`), which is outside the prover. Of the first three the
part that is not about fairness is proved: the measure of a call goes down
(`CallsWindDown`), a RUNNING dispatch has its executor at work
(`RunningHasRunner`), and what one success reaches is kept (`OnlineIsKept`); what is
left to TLC is that the steps come. `QueuedEventsLeave` has no such part. Every invariant, action property and refinement
that a passing run checks is also a theorem. The properties that the code violates
are shown violated by TLC; what they would need is proved, for all but
`SelectedIsFresh` (and `PassIsDeclared`, where `GateNeverFails` says why).

## 5. Plan

Done, in this order, the most important behaviour first: `CircuitBreaker`,
`MeshEngine` with its contract; `DispatchFabric`; `GlobalResolver`; proofs of the
first two; `NodeTable` and `NodeAgent`; `EventBus`; `RuntimeEvidence`;
`Conformance`; `PacketLifecycle` with its proof; the proofs about the resolver,
the agent, the bus, the evidence and the calls of the mesh; `CallLifecycle` with its
proof, and the proofs behind the liveness properties and about the gate. Next: an
abstract specification of a stream of events that `EventBus` implements, and one of
the files that `RuntimeEvidence` keeps. What stays out is in section 6, with the
reasons.

## 6. Not modelled

- Registries, bundles and policies: data without behaviour.
- The HTTP surface beyond which handlers run where: translation of errors to
  statuses, authentication headers.
- `snapshot`, `health`, `validate` and the other read-only operations.
- The executors beyond what a call gives back: see the remarks above.
