--------------------------- MODULE DispatchFabric ---------------------------
(***************************************************************************)
(* The command-to-proof dispatch fabric (app/dispatch.py, DispatchFabric). *)
(* The routes of /v1/dispatch are synchronous handlers (app/main.py), so   *)
(* each request runs in a thread of the server's pool; the fabric has no   *)
(* lock, and every read and write of a record is a step of its own where   *)
(* another thread may come between.  A request the code refuses before it  *)
(* changes anything (404, 409) is a stuttering step.                       *)
(*                                                                         *)
(* The history variables runs, signed and announced record what happened;  *)
(* no step depends on them but through the bound MaxRuns.                  *)
(***************************************************************************)
EXTENDS Integers, Sequences, FiniteSets

CONSTANTS
  Workers,      \* threads of the pool
  Dispatches,   \* dispatch ids
  Nodes,        \* canonical ids of execution targets
  Executors,    \* the nodes an executor is registered for at startup
  None,         \* no target yet, no dispatch yet
  MaxRuns       \* bound on the executions of one dispatch

ASSUME WorkersFinite == IsFiniteSet(Workers)
ASSUME ExecutorsAreNodes == Executors \subseteq Nodes
ASSUME NoneIsNothing == None \notin Dispatches \cup Nodes

Organs == {"seca", "devos", "proofgrid", "thoth", "janus-prime"}

\* DispatchFabric.proof_chain: the order in which the organs must sign.
ProofChain == <<"seca", "devos", "proofgrid", "thoth", "janus-prime">>

StateByOrgan ==
  [organ \in Organs |->
     CASE organ = "seca"        -> "VERIFYING"
       [] organ = "devos"       -> "PROVING"
       [] organ = "proofgrid"   -> "REMEMBERING"
       [] organ = "thoth"       -> "RECONCILING"
       [] organ = "janus-prime" -> "COMPLETED"]

Executable == {"DISPATCHED", "RETRYABLE"}
Provable == {"EXECUTED", "VERIFYING", "PROVING", "REMEMBERING", "RECONCILING"}
States == Executable \cup Provable \cup
          {"absent", "AWAITING_EXECUTOR", "RUNNING", "FAILED", "COMPLETED"}

NoResult == 0

VARIABLES
  state,      \* DispatchRecord.state, "absent" before the record exists
  target,     \* DispatchRecord.target
  result,     \* DispatchRecord.result: the number of the run it came from
  chain,      \* DispatchRecord.proof_chain
  frame,      \* the handler each thread is in: the place and its locals
  runs,       \* history: executor calls per dispatch
  signed,     \* history: the result each entry of chain was appended over
  announced   \* history: estate.packet.completed events per dispatch

recordVars == <<state, target, result, chain>>
historyVars == <<runs, signed, announced>>
vars == <<recordVars, frame, historyVars>>

Places == {"idle", "check", "claim", "running", "returned",
           "match", "append", "mark", "announce"}

\* job is the dispatch_id parameter, organ that of complete_stage, and run the
\* executor call execute() is in.
Frame == [at: Places, job: Dispatches \cup {None}, organ: Organs \cup {None},
          run: Nat]

Idle == [at |-> "idle", job |-> None, organ |-> None, run |-> 0]

Init ==
  /\ state = [d \in Dispatches |-> "absent"]
  /\ target = [d \in Dispatches |-> None]
  /\ result = [d \in Dispatches |-> NoResult]
  /\ chain = [d \in Dispatches |-> <<>>]
  /\ frame = [w \in Workers |-> Idle]
  /\ runs = [d \in Dispatches |-> 0]
  /\ signed = [d \in Dispatches |-> <<>>]
  /\ announced = [d \in Dispatches |-> 0]

At(w, place) == frame[w].at = place
Job(w) == frame[w].job

Enter(w, place, d, o) ==
  frame' = [frame EXCEPT ![w] = [at |-> place, job |-> d, organ |-> o, run |-> 0]]
Goto(w, place) == frame' = [frame EXCEPT ![w].at = place]
Return(w) == frame' = [frame EXCEPT ![w] = Idle]
Set(d, s) == state' = [state EXCEPT ![d] = s]

-----------------------------------------------------------------------------
(* POST /v1/dispatch.  The resolver's choice is any node; when it has none *)
(* the request is refused.  With execute the same thread goes on executing.*)

Dispatch(w, d, node, execute) ==
  /\ At(w, "idle")
  /\ state[d] = "absent"
  /\ Set(d, "DISPATCHED")
  /\ target' = [target EXCEPT ![d] = node]
  /\ IF execute THEN Enter(w, "check", d, None) ELSE UNCHANGED frame
  /\ UNCHANGED <<result, chain, historyVars>>

-----------------------------------------------------------------------------
(* execute()                                                               *)

\* Mutant: an unknown dispatch id is not refused.
ExecuteUnknown(w, d) ==
  /\ At(w, "idle")
  /\ runs[d] < MaxRuns
  /\ Enter(w, "check", d, None)
  /\ UNCHANGED <<recordVars, historyVars>>

BeginExecute(w, d) ==
  /\ At(w, "idle")
  /\ state[d] # "absent"
  /\ runs[d] < MaxRuns
  /\ Enter(w, "check", d, None)
  /\ UNCHANGED <<recordVars, historyVars>>

\* The guard against executing twice; another thread may pass it before this
\* one goes on to claim the dispatch.
CheckExecutable(w) ==
  /\ At(w, "check")
  /\ IF state[Job(w)] \in Executable THEN Goto(w, "claim") ELSE Return(w)
  /\ UNCHANGED <<recordVars, historyVars>>

AwaitExecutor(w) ==
  /\ At(w, "claim")
  /\ target[Job(w)] \notin Executors
  /\ Set(Job(w), "AWAITING_EXECUTOR")
  /\ Return(w)
  /\ UNCHANGED <<target, result, chain, historyVars>>

\* Mutant: a new execution starts the proof chain afresh.
StartAndClearChain(w) ==
  /\ At(w, "claim")
  /\ target[Job(w)] \in Executors
  /\ Set(Job(w), "RUNNING")
  /\ chain' = [chain EXCEPT ![Job(w)] = <<>>]
  /\ runs' = [runs EXCEPT ![Job(w)] = @ + 1]
  /\ frame' = [frame EXCEPT
                 ![w] = [@ EXCEPT !.at = "running", !.run = runs[Job(w)] + 1]]
  /\ UNCHANGED <<target, result, signed, announced>>

StartExecutor(w) ==
  /\ At(w, "claim")
  /\ target[Job(w)] \in Executors
  /\ Set(Job(w), "RUNNING")
  /\ runs' = [runs EXCEPT ![Job(w)] = @ + 1]
  /\ frame' = [frame EXCEPT
                 ![w] = [@ EXCEPT !.at = "running", !.run = runs[Job(w)] + 1]]
  /\ UNCHANGED <<target, result, chain, signed, announced>>

ExecutorReturns(w) ==
  /\ At(w, "running")
  /\ result' = [result EXCEPT ![Job(w)] = frame[w].run]
  /\ Goto(w, "returned")
  /\ UNCHANGED <<state, target, chain, historyVars>>

MarkExecuted(w) ==
  /\ At(w, "returned")
  /\ Set(Job(w), "EXECUTED")
  /\ Return(w)
  /\ UNCHANGED <<target, result, chain, historyVars>>

\* Mutant: the exception handler does not touch the state.
RaiseUnrecorded(w) ==
  /\ At(w, "running")
  /\ Return(w)
  /\ UNCHANGED <<recordVars, historyVars>>

ExecutorRaises(w) ==
  /\ At(w, "running")
  /\ Set(Job(w), "FAILED")
  /\ Return(w)
  /\ UNCHANGED <<target, result, chain, historyVars>>

-----------------------------------------------------------------------------
(* complete_stage()                                                        *)

\* Mutant: evidence is accepted in every state.
StageAnyState(w, d, organ) ==
  /\ At(w, "idle")
  /\ state[d] # "absent"
  /\ Enter(w, "match", d, organ)
  /\ UNCHANGED <<recordVars, historyVars>>

BeginStage(w, d, organ) ==
  /\ At(w, "idle")
  /\ state[d] \in Provable
  /\ Enter(w, "match", d, organ)
  /\ UNCHANGED <<recordVars, historyVars>>

\* Mutant: any organ may sign next.
MatchAnyOrgan(w) ==
  /\ At(w, "match")
  /\ IF Len(chain[Job(w)]) < Len(ProofChain) THEN Goto(w, "append") ELSE Return(w)
  /\ UNCHANGED <<recordVars, historyVars>>

\* Mutant: a stage that was signed before is taken for a repeated request, and
\* its state is set again.
MatchRepeated(w) ==
  /\ At(w, "match")
  /\ LET n == Len(chain[Job(w)])
         repeated == \E i \in 1..n : chain[Job(w)][i] = frame[w].organ
     IN IF repeated
        THEN Goto(w, "mark")
        ELSE IF n < Len(ProofChain) /\ frame[w].organ = ProofChain[n + 1]
             THEN Goto(w, "append")
             ELSE Return(w)
  /\ UNCHANGED <<recordVars, historyVars>>

\* Mutant: a full chain goes on waiting for its last organ.
MatchLastAgain(w) ==
  /\ At(w, "match")
  /\ LET n == Len(chain[Job(w)])
         expected == IF n < Len(ProofChain) THEN ProofChain[n + 1]
                                            ELSE ProofChain[Len(ProofChain)]
     IN IF frame[w].organ = expected THEN Goto(w, "append") ELSE Return(w)
  /\ UNCHANGED <<recordVars, historyVars>>

\* A full chain is left as it is, and an organ out of turn is refused.
MatchStage(w) ==
  /\ At(w, "match")
  /\ LET n == Len(chain[Job(w)]) IN
     IF n < Len(ProofChain) /\ frame[w].organ = ProofChain[n + 1]
     THEN Goto(w, "append")
     ELSE Return(w)
  /\ UNCHANGED <<recordVars, historyVars>>

AppendStage(w) ==
  /\ At(w, "append")
  /\ chain' = [chain EXCEPT ![Job(w)] = Append(@, frame[w].organ)]
  /\ signed' = [signed EXCEPT ![Job(w)] = Append(@, result[Job(w)])]
  /\ Goto(w, "mark")
  /\ UNCHANGED <<state, target, result, runs, announced>>

MarkStage(w) ==
  /\ At(w, "mark")
  /\ Set(Job(w), StateByOrgan[frame[w].organ])
  /\ Goto(w, "announce")
  /\ UNCHANGED <<target, result, chain, historyVars>>

\* The state is read again to decide whether the packet is complete.
AnnounceCompletion(w) ==
  /\ At(w, "announce")
  /\ announced' = IF state[Job(w)] = "COMPLETED"
                  THEN [announced EXCEPT ![Job(w)] = @ + 1]
                  ELSE announced
  /\ Return(w)
  /\ UNCHANGED <<recordVars, runs, signed>>

-----------------------------------------------------------------------------
(* fail(): accepted in every state.                                        *)

Fail(w, d, retryable) ==
  /\ At(w, "idle")
  /\ state[d] # "absent"
  /\ Set(d, IF retryable THEN "RETRYABLE" ELSE "FAILED")
  /\ UNCHANGED <<target, result, chain, frame, historyVars>>

-----------------------------------------------------------------------------
\* What a thread does next in the handler it is in.
Handle(w) ==
  \/ CheckExecutable(w)
  \/ AwaitExecutor(w)
  \/ StartExecutor(w)
  \/ ExecutorReturns(w)
  \/ MarkExecuted(w)
  \/ ExecutorRaises(w)
  \/ MatchStage(w)
  \/ AppendStage(w)
  \/ MarkStage(w)
  \/ AnnounceCompletion(w)

Request(w, d) ==
  \/ \E node \in Nodes, execute \in BOOLEAN : Dispatch(w, d, node, execute)
  \/ BeginExecute(w, d)
  \/ \E o \in Organs : BeginStage(w, d, o)
  \/ \E retryable \in BOOLEAN : Fail(w, d, retryable)

Next == \E w \in Workers : Handle(w) \/ \E d \in Dispatches : Request(w, d)

Spec == Init /\ [][Next]_vars

\* Threads are scheduled, and both executors have a timeout.
FairSpec == Spec /\ \A w \in Workers : WF_vars(Handle(w))

\* Clients that wait for the answer to one request about a dispatch before they
\* send the next one about it.
Handling(w, d) == ~At(w, "idle") /\ Job(w) = d

SerialNext ==
  \E w \in Workers :
    \/ Handle(w)
    \/ \E d \in Dispatches :
         (\A v \in Workers : ~Handling(v, d)) /\ Request(w, d)

SerialSpec == Init /\ [][SerialNext]_vars

-----------------------------------------------------------------------------
(* Properties of every interleaving                                        *)

\* Every variable stays in its domain, and a thread inside a handler works on
\* a dispatch that exists.
TypeOK ==
  /\ state \in [Dispatches -> States]
  /\ target \in [Dispatches -> Nodes \cup {None}]
  /\ result \in [Dispatches -> Nat]
  /\ chain \in [Dispatches -> Seq(Organs)]
  /\ frame \in [Workers -> Frame]
  /\ runs \in [Dispatches -> Nat]
  /\ signed \in [Dispatches -> Seq(Nat)]
  /\ announced \in [Dispatches -> Nat]
  /\ \A w \in Workers : ~At(w, "idle") =>
       /\ Job(w) \in Dispatches /\ state[Job(w)] # "absent"
       /\ frame[w].at \in {"match", "append", "mark", "announce"} =>
            frame[w].organ \in Organs

\* No organ signs before its place in the chain, however the requests of
\* several clients race: what stands at a place belongs there or earlier.
NoOrganSignsEarly ==
  \A d \in Dispatches : \A i \in 1..Len(chain[d]) :
    \E j \in 1..Len(ProofChain) : j <= i /\ chain[d][i] = ProofChain[j]

\* Proof needs a result: a dispatch that may advance, has advanced or is
\* complete was executed, and every signature was put over a result.
ProofNeedsResult ==
  \A d \in Dispatches :
    /\ state[d] \in Provable \cup {"COMPLETED"} => result[d] # NoResult
    /\ \A i \in 1..Len(signed[d]) : signed[d][i] # NoResult

\* The state a stage leads to is reached only after its organ has signed; with
\* NoOrganSignsEarly, a completed dispatch has a signature at all five places.
StateIsSigned ==
  \A d \in Dispatches : \A o \in Organs :
    state[d] = StateByOrgan[o] => \E i \in 1..Len(chain[d]) : chain[d][i] = o

\* However requests race and overwrite each other's states, a record that says
\* RUNNING has a thread that is with its executor, or back from it, and will
\* write what came of it: no interleaving strands a dispatch.
RunningHasRunner ==
  \A d \in Dispatches : state[d] = "RUNNING" =>
    \E w \in Workers : Job(w) = d /\ frame[w].at \in {"running", "returned"}

\* Requests that race past the check of the chain's length overrun the chain by
\* no more than one signature per thread: a full chain stops all that come later,
\* however often the dispatch is failed and executed again.
ChainOverrunBounded ==
  \A d \in Dispatches :
    Len(chain[d]) <= Len(ProofChain) - 1 + Cardinality(Workers)

\* Why that is inductive: a thread that passed the check and has not appended
\* counts as if it had.
Signing(d) == {w \in Workers : At(w, "append") /\ Job(w) = d}

OverrunInv ==
  \A d \in Dispatches :
    Len(chain[d]) + Cardinality(Signing(d)) <= 4 + Cardinality(Workers)

\* Why the first three invariants above are inductive: what a thread read before is
\* still good enough when it acts on it, because results are replaced but never
\* dropped and the chain only grows.
FramesJustified ==
  \A w \in Workers :
    LET place == frame[w].at
        d == Job(w)
    IN /\ place \in {"running", "returned"} => frame[w].run # NoResult
       /\ place \in {"returned", "match", "append", "mark", "announce"} =>
            result[d] # NoResult
       /\ place = "append" =>
            \E j \in 1..Len(ProofChain) :
              j <= Len(chain[d]) + 1 /\ frame[w].organ = ProofChain[j]
       /\ place = "mark" =>
            \E i \in 1..Len(chain[d]) : chain[d][i] = frame[w].organ

ThreadsInv ==
  TypeOK /\ FramesJustified /\ NoOrganSignsEarly /\ ProofNeedsResult /\ StateIsSigned

\* A dispatch that is running does not stay so, though two threads may run it
\* and each overwrite what the other wrote.
RunningIsLeft ==
  \A d \in Dispatches : state[d] = "RUNNING" ~> state[d] # "RUNNING"

-----------------------------------------------------------------------------
(* Properties of clients that send one request at a time about a dispatch  *)

\* The chain of a dispatch is the declared order as far as it goes.
ProofChainOrdered ==
  \A d \in Dispatches :
    /\ Len(chain[d]) <= Len(ProofChain)
    /\ \A i \in 1..Len(chain[d]) : chain[d][i] = ProofChain[i]

\* Between requests the state agrees with the chain: a stage state names the
\* organ that signed last.
StateMatchesChain ==
  \A d \in Dispatches :
    (\A w \in Workers : ~Handling(w, d)) =>
      \A o \in Organs : state[d] = StateByOrgan[o] =>
        chain[d] # <<>> /\ chain[d][Len(chain[d])] = o

\* A dispatch runs in the thread that claimed it and in no other, and the
\* record says RUNNING for as long as that thread is with the executor.
OneRunAtATime ==
  \A d \in Dispatches :
    LET running == {w \in Workers :
                      Job(w) = d /\ frame[w].at \in {"running", "returned"}}
    IN /\ state[d] = "RUNNING" <=> running # {}
       /\ \A v, w \in running : v = w

\* Completion is announced once in the life of a dispatch, and then for a full
\* chain, however often the dispatch is failed and executed again.
CompletionAnnouncedOnce ==
  \A d \in Dispatches :
    /\ announced[d] <= 1
    /\ announced[d] = 1 => Len(chain[d]) = Len(ProofChain)

\* Why they hold: a thread is alone with its dispatch, so what it read is still
\* so when it acts on it.
ThreadAlone(w) ==
  LET place == frame[w].at
      d == Job(w)
      n == Len(chain[d])
  IN /\ place = "claim" => state[d] \in Executable
     /\ place \in {"match", "append", "mark"} => state[d] \in Provable
     /\ place \in {"running", "returned"} => state[d] = "RUNNING"
     /\ place = "append" => n < 5 /\ frame[w].organ = ProofChain[n + 1]
     /\ place \in {"mark", "announce"} =>
          n > 0 /\ chain[d][n] = frame[w].organ /\ announced[d] = 0
     /\ place = "announce" => state[d] = StateByOrgan[frame[w].organ]

DispatchSettled(d) ==
  LET n == Len(chain[d]) IN
  /\ n <= 5 /\ \A i \in 1..n : chain[d][i] = ProofChain[i]
  /\ announced[d] <= 1 /\ (announced[d] = 1 => n = 5)
  /\ state[d] = "RUNNING" =>
       \E w \in Workers : Job(w) = d /\ frame[w].at \in {"running", "returned"}
  /\ \/ \E w \in Workers : Job(w) = d /\ At(w, "mark")
     \/ \A o \in Organs : state[d] = StateByOrgan[o] => n > 0 /\ chain[d][n] = o

OneRequestEach ==
  \A d \in Dispatches : \A v, w \in Workers :
    Handling(v, d) /\ Handling(w, d) => v = w

SerialInv ==
  /\ TypeOK
  /\ OneRequestEach
  /\ \A w \in Workers : ThreadAlone(w)
  /\ \A d \in Dispatches : DispatchSettled(d)

\* A signature counts once the stage's state is written.
Proven(d) ==
  IF \E w \in Workers : Job(w) = d /\ At(w, "mark")
  THEN Len(chain[d]) - 1 ELSE Len(chain[d])

\* To clients that wait for their answers the handlers, whose reads and writes
\* are steps of their own, are the indivisible operations of a packet's life
\* cycle, and the state and the signatures move together.
Lifecycle == INSTANCE PacketLifecycle WITH
  Packets <- Dispatches,
  phase <- state,
  proven <- [d \in Dispatches |-> Proven(d)]
ImplementsLifecycle == Lifecycle!Spec

-----------------------------------------------------------------------------
(* Claims of the repository that the code does not keep                    *)

\* EXECUTOR_ADAPTERS.md: executor success is not completion, the chain remains
\* mandatory: what a completed dispatch returns is what the organs signed.
CompletedResultIsSigned ==
  \A d \in Dispatches :
    state[d] = "COMPLETED" =>
      \A i \in 1..Len(signed[d]) : signed[d][i] = result[d]

\* definition-of-finished.yaml forbids bypassing the proof chain.
NoStageBypassed ==
  \A d \in Dispatches :
    state[d] = "COMPLETED" =>
      \A o \in Organs : \E i \in 1..Len(chain[d]) : chain[d][i] = o

=============================================================================
