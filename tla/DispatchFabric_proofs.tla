------------------------ MODULE DispatchFabric_proofs ------------------------
(***************************************************************************)
(* Theorems about the dispatch fabric, for every set of threads,           *)
(* dispatches, nodes and executors.                                        *)
(***************************************************************************)
EXTENDS DispatchFabric, FiniteSetTheorems, TLAPS

\* The stages are five different states, none of which means "no record".
LEMMA StagesDistinct ==
  /\ \A o \in Organs : StateByOrgan[o] \in States \ {"absent"}
  /\ \A o, p \in Organs : StateByOrgan[o] = StateByOrgan[p] => o = p
  /\ \A i \in 1..5 : ProofChain[i] \in Organs
  /\ \A i, j \in 1..5 : ProofChain[i] = ProofChain[j] => i = j
  /\ Len(ProofChain) = 5
BY DEF Organs, StateByOrgan, ProofChain, States, Executable, Provable

LEMMA InitType == Init => TypeOK
BY DEF Init, TypeOK, States, Frame, Idle, Places, At, NoResult

\* Every request, allowed or not by the other threads, keeps the types.
LEMMA RequestType ==
  ASSUME TypeOK, NEW w \in Workers, NEW d \in Dispatches, Request(w, d)
  PROVE  TypeOK'
<1> USE DEF TypeOK, States, Executable, Provable, Frame, Places, At, Job, Enter,
            Set, historyVars, recordVars
<1>1. ASSUME NEW node \in Nodes, NEW execute \in BOOLEAN,
             Dispatch(w, d, node, execute)
      PROVE  TypeOK'
  <2>1. /\ UNCHANGED <<result, chain, runs, signed, announced>>
        /\ state' = [state EXCEPT ![d] = "DISPATCHED"]
        /\ target' = [target EXCEPT ![d] = node]
        /\ At(w, "idle")
        /\ Enter(w, "check", d, None) \/ UNCHANGED frame
    BY <1>1 DEF Dispatch
  <2>2. CASE Enter(w, "check", d, None)
    BY <2>1, <2>2
  <2>3. CASE UNCHANGED frame
    BY <2>1, <2>3
  <2> QED BY <2>1, <2>2, <2>3
<1>2. CASE BeginExecute(w, d)
  BY <1>2 DEF BeginExecute
<1>3. ASSUME NEW o \in Organs, BeginStage(w, d, o)
      PROVE  TypeOK'
  BY <1>3 DEF BeginStage
<1>4. ASSUME NEW retryable \in BOOLEAN, Fail(w, d, retryable)
      PROVE  TypeOK'
  BY <1>4 DEF Fail
<1> QED BY <1>1, <1>2, <1>3, <1>4 DEF Request

LEMMA HandleType ==
  ASSUME TypeOK, NEW w \in Workers, Handle(w)
  PROVE  TypeOK'
<1> USE DEF TypeOK, States, Executable, Provable, Frame, Places, At, Job, Idle,
            Goto, Return, Set, historyVars, recordVars
<1>1. CASE CheckExecutable(w)
  <2>1. Goto(w, "claim") \/ Return(w)
    BY <1>1 DEF CheckExecutable
  <2>2. UNCHANGED <<recordVars, historyVars>> /\ At(w, "check")
    BY <1>1 DEF CheckExecutable
  <2>3. CASE Goto(w, "claim")
    BY <2>2, <2>3
  <2>4. CASE Return(w)
    BY <2>2, <2>4
  <2> QED BY <2>1, <2>3, <2>4
<1>2. CASE AwaitExecutor(w)
  BY <1>2 DEF AwaitExecutor
<1>3. CASE StartExecutor(w)
  <2>1. /\ frame[w] \in Frame
        /\ frame[w].job \in Dispatches
        /\ runs[Job(w)] + 1 \in Nat
    BY <1>3 DEF StartExecutor
  <2>2. frame' = [frame EXCEPT ![w] = [@ EXCEPT !.at = "running",
                                                !.run = runs[Job(w)] + 1]]
    BY <1>3 DEF StartExecutor
  <2>3. UNCHANGED <<target, result, chain, signed, announced>>
    BY <1>3 DEF StartExecutor
  <2>4. /\ state' = [state EXCEPT ![Job(w)] = "RUNNING"]
        /\ runs' = [runs EXCEPT ![Job(w)] = @ + 1]
    BY <1>3 DEF StartExecutor
  <2> QED BY <2>1, <2>2, <2>3, <2>4
<1>4. CASE ExecutorReturns(w)
  BY <1>4 DEF ExecutorReturns
<1>5. CASE MarkExecuted(w)
  BY <1>5 DEF MarkExecuted
<1>6. CASE ExecutorRaises(w)
  BY <1>6 DEF ExecutorRaises
<1>7. CASE MatchStage(w)
  <2>1. Goto(w, "append") \/ Return(w)
    BY <1>7 DEF MatchStage
  <2>2. UNCHANGED <<recordVars, historyVars>> /\ At(w, "match")
    BY <1>7 DEF MatchStage
  <2>3. CASE Goto(w, "append")
    BY <2>2, <2>3
  <2>4. CASE Return(w)
    BY <2>2, <2>4
  <2> QED BY <2>1, <2>3, <2>4
<1>8. CASE AppendStage(w)
  <2>1. /\ Job(w) \in Dispatches
        /\ frame[w].organ \in Organs
        /\ result[Job(w)] \in Nat
    BY <1>8 DEF AppendStage
  <2>2. Append(chain[Job(w)], frame[w].organ) \in Seq(Organs)
    BY <2>1
  <2>3. Append(signed[Job(w)], result[Job(w)]) \in Seq(Nat)
    BY <2>1
  <2>4. UNCHANGED <<state, target, result, runs, announced>>
    BY <1>8 DEF AppendStage
  <2>5. chain' \in [Dispatches -> Seq(Organs)] /\ signed' \in [Dispatches -> Seq(Nat)]
    BY <1>8, <2>2, <2>3 DEF AppendStage
  <2>6. frame' = [frame EXCEPT ![w].at = "mark"] /\ At(w, "append")
    BY <1>8 DEF AppendStage
  <2> HIDE DEF Set
  <2> QED BY <2>1, <2>4, <2>5, <2>6
<1>9. CASE MarkStage(w)
  <2>1. /\ Job(w) \in Dispatches
        /\ StateByOrgan[frame[w].organ] \in States \ {"absent"}
    BY <1>9, StagesDistinct DEF MarkStage
  <2>2. /\ UNCHANGED <<target, result, chain, runs, signed, announced>>
        /\ state' = [state EXCEPT ![Job(w)] = StateByOrgan[frame[w].organ]]
        /\ frame' = [frame EXCEPT ![w].at = "announce"]
        /\ At(w, "mark")
    BY <1>9 DEF MarkStage
  <2> QED BY <2>1, <2>2
<1>10. CASE AnnounceCompletion(w)
  BY <1>10 DEF AnnounceCompletion
<1> QED BY <1>1, <1>2, <1>3, <1>4, <1>5, <1>6, <1>7, <1>8, <1>9, <1>10
        DEF Handle

\* Type correctness: the records and the threads' frames stay in their domains
\* and no thread works on a dispatch that does not exist.
THEOREM TypeCorrect == Spec => []TypeOK
<1>1. TypeOK /\ [Next]_vars => TypeOK'
  <2> SUFFICES ASSUME TypeOK, [Next]_vars PROVE TypeOK'
    OBVIOUS
  <2>1. CASE Next
    BY <2>1, HandleType, RequestType DEF Next
  <2>2. CASE UNCHANGED vars
    BY <2>2 DEF vars, recordVars, historyVars, TypeOK, At, Job
  <2> QED BY <2>1, <2>2
<1> QED BY InitType, <1>1, PTL DEF Spec

-----------------------------------------------------------------------------
(* Every interleaving                                                      *)

LEMMA InitThreads == Init => ThreadsInv
<1> SUFFICES ASSUME Init PROVE ThreadsInv
  OBVIOUS
<1>1. TypeOK
  BY InitType
<1>2. FramesJustified
  BY DEF Init, FramesJustified, Idle
<1>3. NoOrganSignsEarly /\ ProofNeedsResult
  BY DEF Init, NoOrganSignsEarly, ProofNeedsResult, Provable
<1>4. StateIsSigned
  BY StagesDistinct DEF Init, StateIsSigned
<1> QED BY <1>1, <1>2, <1>3, <1>4 DEF ThreadsInv

\* A request changes no result and no chain, puts no dispatch into a state that
\* claims proof, and admits evidence only where there is a result.
LEMMA RequestThreads ==
  ASSUME ThreadsInv, NEW w \in Workers, NEW d \in Dispatches, Request(w, d)
  PROVE  ThreadsInv'
<1>1. TypeOK'
  BY RequestType DEF ThreadsInv
<1>2. UNCHANGED <<result, chain, signed>>
  BY DEF Request, Dispatch, BeginExecute, BeginStage, Fail, recordVars, historyVars
<1>3. \A e \in Dispatches :
        \/ state'[e] = state[e]
        \/ state'[e] \in {"DISPATCHED", "RETRYABLE", "FAILED"}
  BY DEF Request, Dispatch, BeginExecute, BeginStage, Fail, recordVars, Set,
         ThreadsInv, TypeOK
<1>4. \A v \in Workers :
        \/ frame'[v] = frame[v]
        \/ frame'[v].at = "check"
        \/ frame'[v].at = "match" /\ state[frame'[v].job] \in Provable
                                  /\ frame'[v].job \in Dispatches
  BY DEF Request, Dispatch, BeginExecute, BeginStage, Fail, Enter, ThreadsInv, TypeOK
<1>5. FramesJustified'
  BY <1>2, <1>4 DEF ThreadsInv, FramesJustified, ProofNeedsResult, Job
<1>6. NoOrganSignsEarly'
  BY <1>2 DEF ThreadsInv, NoOrganSignsEarly
<1>7. ProofNeedsResult'
  BY <1>2, <1>3 DEF ThreadsInv, ProofNeedsResult, Provable
<1>8. StateIsSigned'
  <2>1. \A o \in Organs :
          StateByOrgan[o] \notin {"DISPATCHED", "RETRYABLE", "FAILED"}
    BY DEF Organs, StateByOrgan
  <2> QED BY <1>2, <1>3, <2>1 DEF ThreadsInv, StateIsSigned
<1> QED BY <1>1, <1>5, <1>6, <1>7, <1>8 DEF ThreadsInv

LEMMA HandleThreads ==
  ASSUME ThreadsInv, NEW w \in Workers, Handle(w)
  PROVE  ThreadsInv'
<1> DEFINE e == Job(w)
<1>1. TypeOK /\ TypeOK'
  BY HandleType DEF ThreadsInv
<1>2. ~At(w, "idle") /\ e \in Dispatches
  BY <1>1 DEF Handle, CheckExecutable, AwaitExecutor, StartExecutor,
     ExecutorReturns, MarkExecuted, ExecutorRaises, MatchStage, AppendStage,
     MarkStage, AnnounceCompletion, TypeOK, At
<1>3. \A o \in Organs : StateByOrgan[o] \notin
        {"AWAITING_EXECUTOR", "RUNNING", "FAILED", "EXECUTED"}
  BY DEF Organs, StateByOrgan
\* Steps that only move the thread, or also set a state that claims no proof.
<1>4. ASSUME UNCHANGED <<result, chain, signed>>,
             \/ UNCHANGED state
             \/ \E s \in {"AWAITING_EXECUTOR", "RUNNING", "FAILED"} :
                  state' = [state EXCEPT ![e] = s],
             \A v \in Workers : v # w => frame'[v] = frame[v],
             \/ frame'[w].at \in {"idle", "claim"}
             \/ frame'[w].at = "running" /\ frame'[w].run # NoResult
             \/ /\ frame'[w].at = "append"
                /\ At(w, "match")
                /\ frame'[w].job = e
                /\ \E j \in 1..Len(ProofChain) :
                     j <= Len(chain[e]) + 1 /\ frame'[w].organ = ProofChain[j]
      PROVE  ThreadsInv'
  <2>1. FramesJustified'
    BY <1>1, <1>2, <1>4 DEF ThreadsInv, FramesJustified, Job, At
  <2>2. NoOrganSignsEarly'
    BY <1>4 DEF ThreadsInv, NoOrganSignsEarly
  <2>3. \A d \in Dispatches :
          \/ state'[d] = state[d]
          \/ state'[d] \in {"AWAITING_EXECUTOR", "RUNNING", "FAILED"}
    BY <1>1, <1>4 DEF TypeOK
  <2>4. ProofNeedsResult'
    BY <1>4, <2>3 DEF ThreadsInv, ProofNeedsResult, Provable
  <2>5. StateIsSigned'
    BY <1>3, <1>4, <2>3 DEF ThreadsInv, StateIsSigned
  <2> QED BY <1>1, <2>1, <2>2, <2>4, <2>5 DEF ThreadsInv
<1>5. CASE CheckExecutable(w)
  BY <1>1, <1>2, <1>4, <1>5
     DEF CheckExecutable, Goto, Return, Idle, recordVars, historyVars, TypeOK, Frame
<1>6. CASE AwaitExecutor(w) \/ ExecutorRaises(w)
  BY <1>1, <1>2, <1>4, <1>6
     DEF AwaitExecutor, ExecutorRaises, Return, Set, Idle, historyVars, TypeOK
<1>7. CASE StartExecutor(w)
  <2>1. runs[e] + 1 # NoResult
    BY <1>1, <1>2 DEF TypeOK, NoResult
  <2> QED BY <1>1, <1>2, <1>4, <1>7, <2>1 DEF StartExecutor, Set, TypeOK, Frame
<1>8. CASE MatchStage(w)
  <2>1. CASE Return(w)
    BY <1>1, <1>4, <1>8, <2>1
       DEF MatchStage, Return, Idle, recordVars, historyVars, TypeOK
  <2>2. CASE ~Return(w)
    <3>1. /\ Goto(w, "append")
          /\ Len(chain[e]) < Len(ProofChain)
          /\ frame[w].organ = ProofChain[Len(chain[e]) + 1]
          /\ Len(chain[e]) \in Nat
          /\ At(w, "match")
          /\ UNCHANGED <<recordVars, historyVars>>
      BY <1>1, <1>2, <1>8, <2>2 DEF MatchStage, TypeOK
    <3>2. \E j \in 1..Len(ProofChain) :
            j <= Len(chain[e]) + 1 /\ frame[w].organ = ProofChain[j]
      <4>1. Len(chain[e]) + 1 \in 1..Len(ProofChain)
        BY <3>1, StagesDistinct
      <4> QED BY <3>1, <4>1
    <3>3. /\ frame'[w].at = "append"
          /\ frame'[w].job = e
          /\ frame'[w].organ = frame[w].organ
          /\ \A v \in Workers : v # w => frame'[v] = frame[v]
      BY <1>1, <3>1 DEF Goto, TypeOK, Frame, Job
    <3> QED BY <1>4, <3>1, <3>2, <3>3 DEF recordVars, historyVars
  <2> QED BY <2>1, <2>2
<1>9. CASE AnnounceCompletion(w)
  BY <1>1, <1>4, <1>9 DEF AnnounceCompletion, Return, Idle, recordVars, TypeOK
\* The result is stored: it is the number of a run, which is not NoResult.
<1>10. CASE ExecutorReturns(w)
  <2>1. /\ UNCHANGED <<state, chain, signed>>
        /\ At(w, "running")
        /\ \A d \in Dispatches : result'[d] = result[d] \/ result'[d] # NoResult
        /\ result'[e] # NoResult
        /\ \A v \in Workers : v # w => frame'[v] = frame[v]
        /\ frame'[w].at = "returned" /\ frame'[w].job = e
        /\ frame'[w].run = frame[w].run
    BY <1>1, <1>2, <1>10
       DEF ExecutorReturns, Goto, Job, At, historyVars, TypeOK, Frame, ThreadsInv,
           FramesJustified
  <2>2. FramesJustified'
    <3> SUFFICES ASSUME NEW v \in Workers
                 PROVE  FramesJustified!(v)'
      BY DEF FramesJustified
    <3>1. frame[v].at # "idle" => frame[v].job \in Dispatches
      BY <1>1 DEF TypeOK, Job, At
    <3>2. CASE v = w
      BY <2>1, <3>2 DEF ThreadsInv, FramesJustified, Job, At
    <3>3. CASE v # w
      <4>1. frame'[v] = frame[v]
        BY <2>1, <3>3
      <4> QED BY <2>1, <3>1, <4>1 DEF ThreadsInv, FramesJustified, Job
    <3> QED BY <3>2, <3>3
  <2>3. NoOrganSignsEarly' /\ ProofNeedsResult' /\ StateIsSigned'
    BY <2>1 DEF ThreadsInv, NoOrganSignsEarly, ProofNeedsResult, StateIsSigned
  <2> QED BY <1>1, <2>2, <2>3 DEF ThreadsInv
<1>11. CASE MarkExecuted(w)
  <2>1. /\ UNCHANGED <<result, chain, signed>>
        /\ At(w, "returned")
        /\ state' = [state EXCEPT ![e] = "EXECUTED"]
        /\ \A v \in Workers : v # w => frame'[v] = frame[v]
        /\ frame'[w].at = "idle"
    BY <1>1, <1>11 DEF MarkExecuted, Return, Set, Idle, historyVars, TypeOK
  <2>2. result[e] # NoResult
    BY <2>1 DEF ThreadsInv, FramesJustified, At
  <2>3. FramesJustified'
    BY <2>1 DEF ThreadsInv, FramesJustified, Job
  <2>4. NoOrganSignsEarly'
    BY <2>1 DEF ThreadsInv, NoOrganSignsEarly
  <2>6. ProofNeedsResult'
    <3>1. \A d \in Dispatches : d # e => state'[d] = state[d]
      BY <1>1, <2>1 DEF TypeOK
    <3> QED BY <2>1, <2>2, <3>1 DEF ThreadsInv, ProofNeedsResult
  <2>5. StateIsSigned'
    BY <1>1, <1>3, <2>1 DEF ThreadsInv, StateIsSigned, TypeOK
  <2> QED BY <1>1, <2>3, <2>4, <2>5, <2>6 DEF ThreadsInv
\* The chain grows by the organ the thread matched, which may have become late
\* but cannot be early.
<1>12. CASE AppendStage(w)
  <2>1. /\ UNCHANGED <<state, result>>
        /\ At(w, "append")
        /\ chain' = [chain EXCEPT ![e] = Append(@, frame[w].organ)]
        /\ signed' = [signed EXCEPT ![e] = Append(@, result[e])]
        /\ \A v \in Workers : v # w => frame'[v] = frame[v]
        /\ frame'[w].at = "mark" /\ frame'[w].job = e
        /\ frame'[w].organ = frame[w].organ
    BY <1>1, <1>12 DEF AppendStage, Goto, Job, At, TypeOK, Frame
  <2>2. result[e] # NoResult
    BY <2>1 DEF ThreadsInv, FramesJustified, At
  <2>3. PICK j \in 1..Len(ProofChain) :
          j <= Len(chain[e]) + 1 /\ frame[w].organ = ProofChain[j]
    BY <2>1 DEF ThreadsInv, FramesJustified, At
  <2>4. /\ Len(chain'[e]) = Len(chain[e]) + 1
        /\ Len(chain[e]) \in Nat
        /\ chain'[e][Len(chain[e]) + 1] = frame[w].organ
        /\ \A i \in 1..Len(chain[e]) : chain'[e][i] = chain[e][i]
        /\ \A d \in Dispatches : d # e => chain'[d] = chain[d]
    BY <1>1, <1>2, <2>1 DEF TypeOK
  <2>5. FramesJustified'
    <3> SUFFICES ASSUME NEW v \in Workers
                 PROVE  FramesJustified!(v)'
      BY DEF FramesJustified
    <3>1. CASE v = w
      <4>1. Len(chain[e]) + 1 \in 1..Len(chain'[e])
        BY <2>4
      <4> QED BY <2>1, <2>2, <2>4, <3>1, <4>1 DEF Job
    <3>2. CASE v # w
      <4>1. frame'[v] = frame[v]
        BY <2>1, <3>2
      <4>2. CASE frame[v].job = e
        <5>1. frame[v].at = "mark" =>
                \E i \in 1..Len(chain'[e]) : chain'[e][i] = frame[v].organ
          BY <2>4, <4>2 DEF ThreadsInv, FramesJustified, Job
        <5>2. frame[v].at = "append" =>
                \E i \in 1..Len(ProofChain) :
                  i <= Len(chain'[e]) + 1 /\ frame[v].organ = ProofChain[i]
          BY <2>4, <4>2, StagesDistinct DEF ThreadsInv, FramesJustified, Job
        <5> QED BY <2>1, <4>1, <4>2, <5>1, <5>2 DEF ThreadsInv, FramesJustified, Job
      <4>3. CASE frame[v].job # e
        <5>1. frame[v].at # "idle" => frame[v].job \in Dispatches
          BY <1>1 DEF TypeOK, Job, At
        <5> QED BY <2>1, <2>4, <4>1, <4>3, <5>1
                DEF ThreadsInv, FramesJustified, Job
      <4> QED BY <4>2, <4>3
    <3> QED BY <3>1, <3>2
  <2>6. NoOrganSignsEarly'
    <3> SUFFICES ASSUME NEW d \in Dispatches, NEW i \in 1..Len(chain'[d])
                 PROVE  \E k \in 1..Len(ProofChain) :
                          k <= i /\ chain'[d][i] = ProofChain[k]
      BY DEF NoOrganSignsEarly
    <3>1. CASE d = e /\ i = Len(chain[e]) + 1
      BY <2>3, <2>4, <3>1
    <3>2. CASE d = e /\ i # Len(chain[e]) + 1
      <4>1. i \in 1..Len(chain[e])
        BY <2>4, <3>2
      <4> QED BY <2>4, <3>2, <4>1 DEF ThreadsInv, NoOrganSignsEarly
    <3>3. CASE d # e
      BY <2>4, <3>3 DEF ThreadsInv, NoOrganSignsEarly
    <3> QED BY <3>1, <3>2, <3>3
  <2>7. ProofNeedsResult'
    <3>1. \A d \in Dispatches : \A i \in 1..Len(signed'[d]) :
            signed'[d][i] # NoResult
      <4>1. /\ Len(signed'[e]) = Len(signed[e]) + 1
            /\ Len(signed[e]) \in Nat
            /\ signed'[e][Len(signed[e]) + 1] = result[e]
            /\ \A i \in 1..Len(signed[e]) : signed'[e][i] = signed[e][i]
            /\ \A d \in Dispatches : d # e => signed'[d] = signed[d]
        BY <1>1, <1>2, <2>1 DEF TypeOK
      <4>2. \A i \in 1..Len(signed'[e]) :
              i = Len(signed[e]) + 1 \/ i \in 1..Len(signed[e])
        BY <4>1
      <4> QED BY <2>2, <4>1, <4>2 DEF ThreadsInv, ProofNeedsResult
    <3> QED BY <2>1, <3>1 DEF ThreadsInv, ProofNeedsResult
  <2>8. StateIsSigned'
    BY <2>1, <2>4 DEF ThreadsInv, StateIsSigned
  <2> QED BY <1>1, <2>5, <2>6, <2>7, <2>8 DEF ThreadsInv
<1>13. CASE MarkStage(w)
  <2>1. /\ UNCHANGED <<result, chain, signed>>
        /\ At(w, "mark")
        /\ state' = [state EXCEPT ![e] = StateByOrgan[frame[w].organ]]
        /\ \A v \in Workers : v # w => frame'[v] = frame[v]
        /\ frame'[w].at = "announce" /\ frame'[w].job = e
        /\ frame[w].organ \in Organs
    BY <1>1, <1>13 DEF MarkStage, Goto, Set, Job, At, historyVars, TypeOK, Frame
  <2>2. /\ result[e] # NoResult
        /\ \E i \in 1..Len(chain[e]) : chain[e][i] = frame[w].organ
    BY <2>1 DEF ThreadsInv, FramesJustified, At
  <2>3. FramesJustified'
    BY <2>1, <2>2 DEF ThreadsInv, FramesJustified, Job
  <2>4. NoOrganSignsEarly'
    BY <2>1 DEF ThreadsInv, NoOrganSignsEarly
  <2>5. ProofNeedsResult'
    BY <1>1, <2>1, <2>2 DEF ThreadsInv, ProofNeedsResult, TypeOK
  <2>6. StateIsSigned'
    <3>1. \A d \in Dispatches : d # e => state'[d] = state[d]
      BY <1>1, <2>1 DEF TypeOK
    <3>2. state'[e] = StateByOrgan[frame[w].organ]
      BY <1>1, <1>2, <2>1 DEF TypeOK
    <3>3. \A o \in Organs : state'[e] = StateByOrgan[o] => o = frame[w].organ
      BY <2>1, <3>2, StagesDistinct
    <3> QED BY <2>1, <2>2, <3>1, <3>3 DEF ThreadsInv, StateIsSigned
  <2> QED BY <1>1, <2>3, <2>4, <2>5, <2>6 DEF ThreadsInv
<1> QED BY <1>5, <1>6, <1>7, <1>8, <1>9, <1>10, <1>11, <1>12, <1>13 DEF Handle

LEMMA ThreadsInvariant == Spec => []ThreadsInv
<1>1. ThreadsInv /\ [Next]_vars => ThreadsInv'
  <2> SUFFICES ASSUME ThreadsInv, [Next]_vars PROVE ThreadsInv'
    OBVIOUS
  <2>1. CASE Next
    BY <2>1, HandleThreads, RequestThreads DEF Next
  <2>2. CASE UNCHANGED vars
    BY <2>2 DEF vars, recordVars, historyVars, ThreadsInv, TypeOK, FramesJustified,
       NoOrganSignsEarly, ProofNeedsResult, StateIsSigned, At, Job
  <2> QED BY <2>1, <2>2
<1> QED BY InitThreads, <1>1, PTL DEF Spec

\* No organ signs before its place, however the requests of any number of
\* clients race on the lock-free fabric.
THEOREM NoEarlySignature == Spec => []NoOrganSignsEarly
<1>1. ThreadsInv => NoOrganSignsEarly
  BY DEF ThreadsInv
<1> QED BY <1>1, ThreadsInvariant, PTL

\* No dispatch that is open to proof, or completed, lacks a result.
THEOREM ProofHasResult == Spec => []ProofNeedsResult
<1>1. ThreadsInv => ProofNeedsResult
  BY DEF ThreadsInv
<1> QED BY <1>1, ThreadsInvariant, PTL

\* A stage's state is never reached without the signature of its organ.
THEOREM StageHasSignature == Spec => []StateIsSigned
<1>1. ThreadsInv => StateIsSigned
  BY DEF ThreadsInv
<1> QED BY <1>1, ThreadsInvariant, PTL

\* A completed dispatch has at least the five places of the chain filled.
CompletedChainFull ==
  \A d \in Dispatches : state[d] = "COMPLETED" => Len(chain[d]) >= 5

\* However threads race, completion is never reached with fewer signatures than
\* the chain has organs.
THEOREM CompletionIsEarned == Spec => []CompletedChainFull
<1>1. ThreadsInv => CompletedChainFull
  <2> SUFFICES ASSUME ThreadsInv, NEW d \in Dispatches, state[d] = "COMPLETED"
               PROVE  Len(chain[d]) >= 5
    BY DEF CompletedChainFull
  <2>1. "janus-prime" \in Organs /\ StateByOrgan["janus-prime"] = "COMPLETED"
    BY DEF Organs, StateByOrgan
  <2>2. PICK i \in 1..Len(chain[d]) : chain[d][i] = "janus-prime"
    BY <2>1 DEF ThreadsInv, StateIsSigned
  <2>3. PICK j \in 1..Len(ProofChain) : j <= i /\ "janus-prime" = ProofChain[j]
    BY <2>2 DEF ThreadsInv, NoOrganSignsEarly
  <2>4. j = 5
    BY <2>3 DEF ProofChain
  <2>5. Len(chain[d]) \in Nat
    BY DEF ThreadsInv, TypeOK
  <2> QED BY <2>2, <2>3, <2>4, <2>5
<1> QED BY <1>1, ThreadsInvariant, PTL

-----------------------------------------------------------------------------
(* What races can and cannot do to a record                                *)

\* Runner(d) is what a record that says RUNNING promises.
Runner(d) ==
  \E w \in Workers : Job(w) = d /\ frame[w].at \in {"running", "returned"}

\* However threads race, a dispatch that is RUNNING has a thread that will write
\* what came of the run.
THEOREM RunningIsServed == Spec => []RunningHasRunner
<1>1. Init => RunningHasRunner
  BY DEF Init, RunningHasRunner
<1>2. TypeOK /\ RunningHasRunner /\ [Next]_vars => RunningHasRunner'
  <2> SUFFICES ASSUME TypeOK, RunningHasRunner, [Next]_vars,
                      NEW d \in Dispatches, state'[d] = "RUNNING"
               PROVE  Runner(d)'
    BY DEF RunningHasRunner, Runner
  <2>1. ASSUME NEW w \in Workers, NEW e \in Dispatches, Request(w, e)
        PROVE  Runner(d)'
    <3>1. /\ frame[w].at = "idle" \/ frame' = frame
          /\ \A v \in Workers : v # w => frame'[v] = frame[v]
          /\ state'[d] = state[d]
      BY <2>1 DEF Request, Dispatch, BeginExecute, BeginStage, Fail, Enter, Set, At,
                  recordVars, TypeOK
    <3> QED BY <3>1 DEF RunningHasRunner, Runner, Job
  <2>2. ASSUME NEW w \in Workers, Handle(w)
        PROVE  Runner(d)'
    <3>1. \A v \in Workers : v # w => frame'[v] = frame[v]
      BY <2>2 DEF Handle, CheckExecutable, AwaitExecutor, StartExecutor,
         ExecutorReturns, MarkExecuted, ExecutorRaises, MatchStage, AppendStage,
         MarkStage, AnnounceCompletion, Goto, Return, TypeOK
    <3>2. CASE StartExecutor(w)
      <4>1. frame'[w].at = "running" /\ frame'[w].job = Job(w)
        BY <3>2 DEF StartExecutor, Job, TypeOK, Frame
      <4>2. d = Job(w) \/ state'[d] = state[d]
        BY <3>2 DEF StartExecutor, Set, TypeOK
      <4>3. frame[w].at = "claim"
        BY <3>2 DEF StartExecutor, At
      <4> QED BY <3>1, <4>1, <4>2, <4>3 DEF RunningHasRunner, Runner, Job
    <3>3. CASE ExecutorReturns(w)
      <4>1. frame'[w].at = "returned" /\ frame'[w].job = Job(w) /\ state' = state
        BY <3>3 DEF ExecutorReturns, Goto, Job, TypeOK, Frame
      <4> QED BY <3>1, <4>1 DEF RunningHasRunner, Runner, Job
    \* The end of a run is written by the thread that leaves it.
    <3>4. CASE MarkExecuted(w) \/ ExecutorRaises(w)
      <4>1. state'[Job(w)] # "RUNNING" /\ (d # Job(w) => state'[d] = state[d])
        BY <3>4 DEF MarkExecuted, ExecutorRaises, Set, At, TypeOK
      <4> QED BY <3>1, <4>1 DEF RunningHasRunner, Runner, Job
    <3>5. CASE \/ CheckExecutable(w) \/ AwaitExecutor(w) \/ MatchStage(w)
               \/ AppendStage(w) \/ MarkStage(w) \/ AnnounceCompletion(w)
      <4>1. frame[w].at \notin {"running", "returned"}
        BY <3>5 DEF CheckExecutable, AwaitExecutor, MatchStage, AppendStage,
                    MarkStage, AnnounceCompletion, At
      <4>2. state'[d] = state[d]
        <5>1. \A o \in Organs : StateByOrgan[o] # "RUNNING"
          BY DEF Organs, StateByOrgan
        <5> QED BY <3>5, <5>1
                DEF CheckExecutable, AwaitExecutor, MatchStage, AppendStage,
                    MarkStage, AnnounceCompletion, Set, At, recordVars, TypeOK
      <4> QED BY <3>1, <4>1, <4>2 DEF RunningHasRunner, Runner, Job
    <3> QED BY <2>2, <3>2, <3>3, <3>4, <3>5 DEF Handle
  <2>3. CASE UNCHANGED vars
    BY <2>3 DEF vars, recordVars, RunningHasRunner, Runner, Job
  <2> QED BY <2>1, <2>2, <2>3 DEF Next
<1> QED BY <1>1, <1>2, TypeCorrect, PTL DEF Spec

LEMMA SigningFinite ==
  ASSUME NEW d
  PROVE  /\ IsFiniteSet(Signing(d))
         /\ Cardinality(Signing(d)) \in Nat
         /\ Cardinality(Workers) \in Nat
         /\ Cardinality(Signing(d)) <= Cardinality(Workers)
<1>1. Signing(d) \subseteq Workers
  BY DEF Signing
<1> QED BY <1>1, WorkersFinite, FS_Subset, FS_CardinalityType

\* The bound on one dispatch.
Overrun(d) == Len(chain[d]) + Cardinality(Signing(d)) <= 4 + Cardinality(Workers)

\* A step that lets no further thread past the check, and appends nothing, keeps
\* the bound.
LEMMA OverrunKept ==
  ASSUME TypeOK, NEW d \in Dispatches, Overrun(d),
         chain'[d] = chain[d],
         \A v \in Workers :
           frame'[v].at = "append" /\ frame'[v].job = d => frame'[v] = frame[v]
  PROVE  Overrun(d)'
<1>1. Signing(d)' \subseteq Signing(d)
  BY DEF Signing, At, Job
<1>2. /\ Cardinality(Signing(d)') <= Cardinality(Signing(d))
      /\ Cardinality(Signing(d)') \in Nat
  BY <1>1, SigningFinite, FS_Subset, FS_CardinalityType
<1>3. Len(chain[d]) \in Nat
  BY DEF TypeOK
<1> QED BY <1>2, <1>3, SigningFinite DEF Overrun

LEMMA HandleOverrun ==
  ASSUME TypeOK, NEW d \in Dispatches, Overrun(d), NEW w \in Workers, Handle(w)
  PROVE  Overrun(d)'
<1>1. \A v \in Workers : v # w => frame'[v] = frame[v]
  BY DEF Handle, CheckExecutable, AwaitExecutor, StartExecutor, ExecutorReturns,
     MarkExecuted, ExecutorRaises, MatchStage, AppendStage, MarkStage,
     AnnounceCompletion, Goto, Return, TypeOK
<1>2. Len(chain[d]) \in Nat
  BY DEF TypeOK
\* Passing the check needs room in the chain, and then every thread may be there.
<1>3. CASE MatchStage(w)
  <2>1. chain'[d] = chain[d]
    BY <1>3 DEF MatchStage, recordVars
  <2>2. CASE Goto(w, "append") /\ Job(w) = d /\ Len(chain[d]) < Len(ProofChain)
    <3>1. Signing(d)' \subseteq Workers
      BY DEF Signing
    <3>2. /\ Cardinality(Signing(d)') <= Cardinality(Workers)
          /\ Cardinality(Signing(d)') \in Nat
      BY <3>1, WorkersFinite, FS_Subset, FS_CardinalityType
    <3> QED BY <1>2, <2>1, <2>2, <3>2, SigningFinite, StagesDistinct DEF Overrun
  <2>3. CASE Return(w) \/ Job(w) # d
    <3>1. frame'[w].at # "append" \/ frame'[w].job # d
      BY <1>3, <2>3 DEF MatchStage, Return, Goto, Idle, Job, TypeOK, Frame
    <3> QED BY <1>1, <2>1, <3>1, OverrunKept
  <2> QED BY <1>3, <2>2, <2>3 DEF MatchStage
\* What the chain gains the threads on their way to append lose.
<1>4. CASE AppendStage(w)
  <2>1. frame'[w].at = "mark"
    BY <1>4 DEF AppendStage, Goto, TypeOK
  <2>2. CASE Job(w) = d
    <3>1. Len(chain'[d]) = Len(chain[d]) + 1
      BY <1>4, <2>2 DEF AppendStage, TypeOK, At
    <3>2. w \in Signing(d) /\ Signing(d)' = Signing(d) \ {w}
      BY <1>1, <1>4, <2>1, <2>2 DEF AppendStage, Signing, At, Job
    <3>3. Cardinality(Signing(d)') = Cardinality(Signing(d)) - 1
      BY <3>2, SigningFinite, FS_RemoveElement
    <3> QED BY <1>2, <3>1, <3>3, SigningFinite DEF Overrun
  <2>3. CASE Job(w) # d
    <3>1. chain'[d] = chain[d]
      BY <1>4, <2>3 DEF AppendStage, TypeOK
    <3> QED BY <1>1, <2>1, <3>1, OverrunKept
  <2> QED BY <2>2, <2>3
<1>5. CASE ~MatchStage(w) /\ ~AppendStage(w)
  <2>1. chain' = chain /\ frame'[w].at # "append"
    <3>1. CASE StartExecutor(w)
      BY <3>1 DEF StartExecutor, TypeOK, Frame
    <3>2. CASE ~StartExecutor(w)
      <4>1. /\ chain' = chain
            /\ Return(w) \/ \E place \in Places \ {"append"} : Goto(w, place)
        BY <1>5, <3>2 DEF Handle, CheckExecutable, AwaitExecutor, ExecutorReturns,
           MarkExecuted, ExecutorRaises, MarkStage, AnnounceCompletion, recordVars,
           Places
      <4> QED BY <4>1 DEF Goto, Return, Idle, TypeOK, Frame
    <3> QED BY <3>1, <3>2
  <2> QED BY <1>1, <2>1, OverrunKept
<1> QED BY <1>3, <1>4, <1>5

\* A chain never has more signatures than its organs and the threads that can
\* race past the check of its length account for.
THEOREM OverrunIsBounded == Spec => []ChainOverrunBounded
<1>1. Init => OverrunInv
  <2> SUFFICES ASSUME Init, NEW d \in Dispatches PROVE Overrun(d)
    BY DEF OverrunInv, Overrun
  <2>1. Signing(d) = {} /\ Len(chain[d]) = 0
    BY DEF Init, Signing, At, Idle
  <2> QED BY <2>1, FS_EmptySet, SigningFinite DEF Overrun
<1>2. TypeOK /\ OverrunInv /\ [Next]_vars => OverrunInv'
  <2> SUFFICES ASSUME TypeOK, OverrunInv, [Next]_vars, NEW d \in Dispatches
               PROVE  Overrun(d)'
    BY DEF OverrunInv, Overrun
  <2>1. Overrun(d)
    BY DEF OverrunInv, Overrun
  <2>2. ASSUME NEW w \in Workers, NEW e \in Dispatches, Request(w, e)
        PROVE  Overrun(d)'
    <3>1. /\ chain' = chain
          /\ \A v \in Workers : frame'[v] = frame[v] \/ frame'[v].at # "append"
      BY <2>2 DEF Request, Dispatch, BeginExecute, BeginStage, Fail, Enter,
                  recordVars, TypeOK
    <3> QED BY <2>1, <3>1, OverrunKept
  <2>3. CASE UNCHANGED vars
    BY <2>1, <2>3, OverrunKept DEF vars, recordVars
  <2> QED BY <2>1, <2>2, <2>3, HandleOverrun DEF Next
<1>3. TypeOK /\ OverrunInv => ChainOverrunBounded
  <2> SUFFICES ASSUME TypeOK, OverrunInv, NEW d \in Dispatches
               PROVE  Len(chain[d]) <= Len(ProofChain) - 1 + Cardinality(Workers)
    BY DEF ChainOverrunBounded
  <2> QED BY SigningFinite, StagesDistinct DEF OverrunInv, TypeOK
<1> QED BY <1>1, <1>2, <1>3, TypeCorrect, PTL DEF Spec

-----------------------------------------------------------------------------
(* Clients that send one request at a time about a dispatch.  Each step    *)
(* concerns one thread w and one dispatch e that w has to itself, so an    *)
(* action has only to show that these two stay as they should; the lemma   *)
(* Local carries that to all the others.                                   *)

\* Arithmetic of announcement counts and chain lengths.
LEMMA NotYetOne ==
  ASSUME NEW a \in Nat, a <= 1, a # 1 PROVE a = 0
OBVIOUS

LEMMA BelowFive ==
  ASSUME NEW n \in Nat, n < 5 PROVE n # 5
OBVIOUS

LEMMA LastIndex ==
  ASSUME NEW n \in Nat, n > 0, NEW m \in Nat, n <= m
  PROVE  n \in 1..n /\ n \in 1..m
OBVIOUS

LEMMA UpToFive ==
  ASSUME NEW n \in Nat, n > 0, n <= 5 PROVE n \in 1..5
OBVIOUS

LEMMA InitSerial == Init => SerialInv
<1> SUFFICES ASSUME Init PROVE SerialInv
  OBVIOUS
<1>1. TypeOK
  BY InitType
<1>2. OneRequestEach
  BY DEF Init, OneRequestEach, Handling, At, Idle
<1>3. \A w \in Workers : ThreadAlone(w)
  BY DEF Init, ThreadAlone, Idle
<1>4. \A d \in Dispatches : DispatchSettled(d)
  BY StagesDistinct DEF Init, DispatchSettled
<1> QED BY <1>1, <1>2, <1>3, <1>4 DEF SerialInv

LEMMA Local ==
  ASSUME SerialInv, TypeOK', NEW w \in Workers, NEW e \in Dispatches,
         \A v \in Workers \ {w} : frame'[v] = frame[v] /\ ~Handling(v, e),
         At(w, "idle") \/ Job(w) = e,
         frame'[w].at = "idle" \/ frame'[w].job = e,
         \A d \in Dispatches \ {e} : /\ state'[d] = state[d]
                                     /\ chain'[d] = chain[d]
                                     /\ announced'[d] = announced[d],
         ThreadAlone(w)', DispatchSettled(e)'
  PROVE  SerialInv'
<1>1. OneRequestEach'
  BY DEF SerialInv, OneRequestEach, Handling, At, Job
<1>2. ASSUME NEW v \in Workers, v # w
      PROVE  ThreadAlone(v)'
  <2>1. frame'[v] = frame[v] /\ ~Handling(v, e)
    BY <1>2
  <2>2. CASE frame[v].at = "idle"
    BY <2>1, <2>2 DEF ThreadAlone
  <2>3. CASE frame[v].at # "idle"
    <3>1. frame[v].job \in Dispatches \ {e}
      BY <2>1, <2>3 DEF SerialInv, TypeOK, Handling, At, Job
    <3> QED BY <2>1, <3>1 DEF SerialInv, ThreadAlone, Job
  <2> QED BY <2>2, <2>3
<1>3. ASSUME NEW d \in Dispatches, d # e
      PROVE  DispatchSettled(d)'
  <2>1. \A v \in Workers :
          frame[v].job = d /\ frame[v].at # "idle" => frame'[v] = frame[v]
    BY <1>3 DEF At, Job
  <2>2. DispatchSettled(d)
    BY DEF SerialInv
  <2> QED BY <1>3, <2>1, <2>2 DEF DispatchSettled, Job, At
<1> QED BY <1>1, <1>2, <1>3 DEF SerialInv

LEMMA RequestSerial ==
  ASSUME SerialInv, NEW w \in Workers, NEW d \in Dispatches,
         \A v \in Workers : ~Handling(v, d), Request(w, d)
  PROVE  SerialInv'
<1>1. TypeOK /\ TypeOK'
  BY RequestType DEF SerialInv
<1>2. /\ UNCHANGED <<chain, announced>>
      /\ At(w, "idle")
      /\ \A c \in Dispatches \ {d} : state'[c] = state[c]
      /\ \A v \in Workers \ {w} : frame'[v] = frame[v]
      /\ \/ state'[d] = state[d]
         \/ state'[d] \in {"DISPATCHED", "RETRYABLE", "FAILED"}
      /\ \/ frame'[w] = frame[w]
         \/ frame'[w].at \in {"check", "match"} /\ frame'[w].job = d
      /\ frame'[w].at = "match" => state'[d] \in Provable
  <2>1. UNCHANGED <<chain, announced>> /\ At(w, "idle")
    BY DEF Request, Dispatch, BeginExecute, BeginStage, Fail, recordVars, historyVars
  <2>2. \/ UNCHANGED state
        \/ \E s \in {"DISPATCHED", "RETRYABLE", "FAILED"} : Set(d, s)
    BY DEF Request, Dispatch, BeginExecute, BeginStage, Fail, recordVars
  <2>3. \/ UNCHANGED frame
        \/ \E place \in {"check", "match"}, o \in Organs \cup {None} :
             Enter(w, place, d, o)
    BY DEF Request, Dispatch, BeginExecute, BeginStage, Fail
  <2>4. /\ \A c \in Dispatches \ {d} : state'[c] = state[c]
        /\ \/ state'[d] = state[d]
           \/ state'[d] \in {"DISPATCHED", "RETRYABLE", "FAILED"}
    <3>1. state \in [Dispatches -> States]
      BY <1>1 DEF TypeOK
    <3> QED BY <2>2, <3>1 DEF Set
  <2>5. /\ \A v \in Workers \ {w} : frame'[v] = frame[v]
        /\ \/ frame'[w] = frame[w]
           \/ frame'[w].at \in {"check", "match"} /\ frame'[w].job = d
    <3>1. frame \in [Workers -> Frame]
      BY <1>1 DEF TypeOK
    <3> QED BY <2>3, <3>1 DEF Enter
  <2>6. frame'[w].at = "match" => state'[d] \in Provable
    <3>1. frame \in [Workers -> Frame]
      BY <1>1 DEF TypeOK
    <3>2. CASE \E o \in Organs : BeginStage(w, d, o)
      BY <3>1, <3>2 DEF BeginStage, recordVars
    <3>3. CASE ~\E o \in Organs : BeginStage(w, d, o)
      BY <2>1, <3>1, <3>3 DEF Request, Dispatch, BeginExecute, Fail, Enter, At
    <3> QED BY <3>2, <3>3
  <2> QED BY <2>1, <2>4, <2>5, <2>6
<1>3. ThreadAlone(w)'
  BY <1>2 DEF ThreadAlone, At, Job
<1>4. DispatchSettled(d)'
  <2>1. DispatchSettled(d)
    BY DEF SerialInv
  <2>2. \A o \in Organs :
          StateByOrgan[o] \notin {"DISPATCHED", "RETRYABLE", "FAILED"}
    BY DEF Organs, StateByOrgan
  <2>3. \A v \in Workers : Job(v) # d \/ At(v, "idle")
    BY DEF Handling
  <2> QED BY <1>2, <2>1, <2>2, <2>3 DEF DispatchSettled, At
<1>5. \A v \in Workers \ {w} : frame'[v] = frame[v] /\ ~Handling(v, d)
  BY <1>2
<1>6. At(w, "idle")' \/ frame'[w].job = d
  BY <1>2 DEF At
<1>7. \A c \in Dispatches \ {d} : /\ state'[c] = state[c]
                                  /\ chain'[c] = chain[c]
                                  /\ announced'[c] = announced[c]
  BY <1>2
<1> QED BY <1>1, <1>2, <1>3, <1>4, <1>5, <1>6, <1>7, Local DEF At

LEMMA HandleSerial ==
  ASSUME SerialInv, NEW w \in Workers, Handle(w)
  PROVE  SerialInv'
<1>1. TypeOK /\ TypeOK'
  BY HandleType DEF SerialInv
<1>a. ~At(w, "idle") /\ Job(w) \in Dispatches
  BY <1>1 DEF Handle, CheckExecutable, AwaitExecutor, StartExecutor,
     ExecutorReturns, MarkExecuted, ExecutorRaises, MatchStage, AppendStage,
     MarkStage, AnnounceCompletion, TypeOK, At
<1>c. /\ state \in [Dispatches -> States] /\ chain \in [Dispatches -> Seq(Organs)]
      /\ announced \in [Dispatches -> Nat] /\ frame \in [Workers -> Frame]
  BY <1>1 DEF TypeOK
<1>d. At(w, "mark") \/ At(w, "announce") => frame[w].organ \in Organs
  BY <1>1 DEF TypeOK, At
<1>b. PICK e \in Dispatches : e = Job(w)
  BY <1>a
<1>2. /\ \A v \in Workers \ {w} : frame'[v] = frame[v]
      /\ frame'[w].at = "idle" \/ frame'[w].job = e
      /\ \A d \in Dispatches \ {e} : /\ state'[d] = state[d]
                                     /\ chain'[d] = chain[d]
                                     /\ announced'[d] = announced[d]
  <2> USE <1>a, <1>b, <1>c DEF At, Job, Goto, Return, Set, Idle, Frame,
                               recordVars, historyVars
  <2>1. CASE CheckExecutable(w)
    BY <2>1 DEF CheckExecutable
  <2>2. CASE AwaitExecutor(w)
    BY <2>2 DEF AwaitExecutor
  <2>3. CASE StartExecutor(w)
    BY <2>3 DEF StartExecutor
  <2>4. CASE ExecutorReturns(w)
    BY <2>4 DEF ExecutorReturns
  <2>5. CASE MarkExecuted(w)
    BY <2>5 DEF MarkExecuted
  <2>6. CASE ExecutorRaises(w)
    BY <2>6 DEF ExecutorRaises
  <2>7. CASE MatchStage(w)
    BY <2>7 DEF MatchStage
  <2>8. CASE AppendStage(w)
    BY <2>8 DEF AppendStage
  <2>9. CASE MarkStage(w)
    BY <2>9 DEF MarkStage
  <2>10. CASE AnnounceCompletion(w)
    BY <2>10 DEF AnnounceCompletion
  <2> QED BY <2>1, <2>2, <2>3, <2>4, <2>5, <2>6, <2>7, <2>8, <2>9, <2>10 DEF Handle
<1>3. \A v \in Workers \ {w} : frame'[v] = frame[v] /\ ~Handling(v, e)
  BY <1>a, <1>b, <1>2 DEF SerialInv, OneRequestEach, Handling
<1>4. ThreadAlone(w) /\ DispatchSettled(e)
  BY DEF SerialInv
<1>5. ThreadAlone(w)' /\ DispatchSettled(e)' => SerialInv'
  BY <1>1, <1>b, <1>2, <1>3, Local
<1> DEFINE n == Len(chain[e])
<1>6. n \in Nat /\ announced[e] \in Nat
  BY <1>1 DEF TypeOK
<1>7. \A o \in Organs : StateByOrgan[o] \notin
        {"AWAITING_EXECUTOR", "RUNNING", "FAILED", "EXECUTED"}
  BY DEF Organs, StateByOrgan
\* e has no thread but w, and w is not at a place that accounts for its state.
<1>8. ASSUME frame[w].at \notin {"running", "returned", "mark"}
      PROVE  /\ state[e] # "RUNNING"
             /\ \A o \in Organs : state[e] = StateByOrgan[o] => n > 0 /\ chain[e][n] = o
  BY <1>3, <1>4, <1>8 DEF DispatchSettled, Handling, Job, At
\* Steps that set a state no stage leads to, or none.
<1>9. ASSUME UNCHANGED <<chain, announced>>,
             \/ frame[w].at \notin {"running", "returned", "mark"} /\ state'[e] = state[e]
             \/ state'[e] \in {"AWAITING_EXECUTOR", "FAILED", "EXECUTED"},
             \/ frame'[w].at = "idle"
             \/ frame'[w].at = "claim" /\ frame'[w].job = e /\ state'[e] \in Executable
      PROVE  SerialInv'
  <2>1. ThreadAlone(w)'
    BY <1>9 DEF ThreadAlone, Job
  <2>2. state'[e] # "RUNNING"
    BY <1>8, <1>9
  <2>3. \A o \in Organs : state'[e] = StateByOrgan[o] => n > 0 /\ chain[e][n] = o
    BY <1>7, <1>8, <1>9
  <2>4. DispatchSettled(e)'
    BY <1>4, <1>9, <2>2, <2>3 DEF DispatchSettled
  <2> QED BY <1>5, <2>1, <2>4
<1>10. CASE CheckExecutable(w)
  <2>1. UNCHANGED <<state, chain, announced>> /\ At(w, "check")
    BY <1>10 DEF CheckExecutable, recordVars, historyVars
  <2>2. (Goto(w, "claim") /\ state[e] \in Executable) \/ Return(w)
    BY <1>b, <1>10 DEF CheckExecutable
  <2>4. \/ frame'[w].at = "idle"
        \/ frame'[w].at = "claim" /\ frame'[w].job = e /\ state'[e] \in Executable
    BY <1>b, <1>c, <2>1, <2>2 DEF Goto, Return, Idle, Frame, Job
  <2> QED BY <1>9, <2>1, <2>4 DEF At
<1>11. CASE AwaitExecutor(w) \/ MarkExecuted(w) \/ ExecutorRaises(w)
  <2>1. /\ UNCHANGED <<chain, announced>>
        /\ state'[Job(w)] \in {"AWAITING_EXECUTOR", "FAILED", "EXECUTED"}
        /\ frame'[w].at = "idle"
    <3>1. /\ UNCHANGED <<chain, announced>> /\ Return(w)
          /\ \E s \in {"AWAITING_EXECUTOR", "FAILED", "EXECUTED"} : Set(Job(w), s)
      BY <1>11 DEF AwaitExecutor, MarkExecuted, ExecutorRaises, historyVars
    <3> QED BY <1>a, <1>c, <3>1 DEF Return, Set, Idle
  <2> QED BY <1>b, <1>9, <2>1
<1>12. CASE StartExecutor(w) \/ ExecutorReturns(w)
  <2>1. /\ UNCHANGED <<chain, announced>>
        /\ state'[e] = "RUNNING"
        /\ frame'[w].at \in {"running", "returned"} /\ frame'[w].job = e
    <3>1. CASE StartExecutor(w)
      BY <1>b, <1>c, <3>1 DEF StartExecutor, Set, Job, Frame
    <3>2. CASE ExecutorReturns(w)
      BY <1>b, <1>c, <1>4, <3>2
         DEF ExecutorReturns, Goto, Job, At, historyVars, Frame, ThreadAlone
    <3> QED BY <1>12, <3>1, <3>2
  <2>2. ThreadAlone(w)'
    BY <2>1 DEF ThreadAlone, Job
  <2>3. DispatchSettled(e)'
    BY <1>4, <1>7, <2>1 DEF DispatchSettled, Job
  <2> QED BY <1>5, <2>2, <2>3
<1>13. CASE MatchStage(w)
  <2>1. CASE Return(w)
    BY <1>c, <1>9, <1>13, <2>1
       DEF MatchStage, Return, Idle, At, recordVars, historyVars
  <2>2. CASE ~Return(w)
    <3>1. /\ UNCHANGED <<state, chain, announced>>
          /\ At(w, "match")
          /\ frame'[w].at = "append" /\ frame'[w].job = e
          /\ n < 5 /\ frame'[w].organ = ProofChain[n + 1]
          /\ state[e] \in Provable
      BY <1>b, <1>c, <1>4, <1>13, <2>2, StagesDistinct
         DEF At, ThreadAlone, MatchStage, Goto, Job, recordVars, historyVars, Frame
    <3>2. ThreadAlone(w)'
      BY <3>1 DEF ThreadAlone, Job
    <3>3. DispatchSettled(e)'
      BY <1>4, <1>8, <3>1 DEF DispatchSettled, At
    <3> QED BY <1>5, <3>2, <3>3
  <2> QED BY <2>1, <2>2
<1>14. CASE AppendStage(w)
  <2>1. /\ UNCHANGED <<state, announced>>
        /\ At(w, "append")
        /\ chain'[e] = Append(chain[e], frame[w].organ)
        /\ frame'[w].at = "mark" /\ frame'[w].job = e
        /\ frame'[w].organ = frame[w].organ
    BY <1>b, <1>c, <1>14 DEF AppendStage, Goto, Job, Frame
  <2>2. /\ n < 5 /\ frame[w].organ = ProofChain[n + 1]
        /\ announced[e] = 0
        /\ state[e] # "RUNNING" /\ state[e] \in Provable
    <3>1. n < 5 /\ frame[w].organ = ProofChain[n + 1] /\ state[e] \in Provable
      BY <1>b, <1>4, <2>1 DEF ThreadAlone, At
    <3>2. announced[e] <= 1 /\ (announced[e] = 1 => n = 5)
      BY <1>4 DEF DispatchSettled
    <3>3. n # 5
      BY <1>6, <3>1, BelowFive
    <3>5. announced[e] = 0
      BY <1>6, <3>2, <3>3, NotYetOne
    <3>4. state[e] # "RUNNING"
      BY <1>8, <2>1 DEF At
    <3> QED BY <3>1, <3>5, <3>4
  <2>3. /\ Len(chain'[e]) = n + 1
        /\ chain'[e][n + 1] = frame[w].organ
        /\ \A i \in 1..n : chain'[e][i] = chain[e][i]
    BY <1>c, <2>1
  <2>4. ThreadAlone(w)'
    BY <1>6, <2>1, <2>2, <2>3 DEF ThreadAlone, Job
  <2>5. \A i \in 1..n + 1 : chain'[e][i] = ProofChain[i]
    <3>1. \A i \in 1..n + 1 : i = n + 1 \/ i \in 1..n
      BY <1>6
    <3> QED BY <1>4, <2>2, <2>3, <3>1 DEF DispatchSettled
  <2>6. DispatchSettled(e)'
    BY <1>6, <2>1, <2>2, <2>3, <2>5 DEF DispatchSettled, Job, At
  <2> QED BY <1>5, <2>4, <2>6
<1>15. CASE MarkStage(w)
  <2>1. /\ UNCHANGED <<chain, announced>>
        /\ At(w, "mark")
        /\ state'[e] = StateByOrgan[frame[w].organ]
        /\ frame'[w].at = "announce" /\ frame'[w].job = e
        /\ frame'[w].organ = frame[w].organ /\ frame[w].organ \in Organs
    BY <1>b, <1>c, <1>d, <1>15 DEF MarkStage, Goto, Set, Job, At, historyVars, Frame
  <2>2. ThreadAlone(w)'
    BY <1>b, <1>4, <2>1 DEF ThreadAlone, Job, At
  <2>3. n > 0 /\ chain[e][n] = frame[w].organ
    BY <1>b, <1>4, <2>1 DEF ThreadAlone, At
  <2>4. \A o \in Organs : state'[e] = StateByOrgan[o] => o = frame[w].organ
    BY <2>1, StagesDistinct
  <2>5. state'[e] # "RUNNING"
    BY <1>7, <2>1
  <2>6. DispatchSettled(e)'
    BY <1>4, <2>1, <2>3, <2>4, <2>5 DEF DispatchSettled
  <2> QED BY <1>5, <2>2, <2>6
<1>16. CASE AnnounceCompletion(w)
  <2>1. /\ UNCHANGED <<state, chain>>
        /\ At(w, "announce")
        /\ announced'[e] = IF state[e] = "COMPLETED" THEN announced[e] + 1
                                                     ELSE announced[e]
        /\ frame'[w].at = "idle"
        /\ frame[w].organ \in Organs
    BY <1>b, <1>c, <1>d, <1>16 DEF AnnounceCompletion, Return, Idle, At, recordVars
  <2>2. /\ n > 0 /\ chain[e][n] = frame[w].organ /\ announced[e] = 0
        /\ state[e] = StateByOrgan[frame[w].organ]
    BY <1>b, <1>4, <2>1 DEF ThreadAlone, At
  <2>3. state[e] = "COMPLETED" => n = 5
    <3>1. state[e] = "COMPLETED" => frame[w].organ = "janus-prime"
      BY <2>1, <2>2 DEF StateByOrgan, Organs
    <3>2. n <= 5 /\ \A i \in 1..n : chain[e][i] = ProofChain[i]
      BY <1>4 DEF DispatchSettled
    <3>3. n \in 1..n /\ n \in 1..5
      BY <1>6, <2>2, <3>2, LastIndex, 5 \in Nat
    <3>4. chain[e][n] = ProofChain[n]
      BY <3>2, <3>3
    <3> QED BY <2>2, <3>1, <3>3, <3>4 DEF ProofChain
  <2>4. ThreadAlone(w)'
    BY <2>1 DEF ThreadAlone
  <2>5. DispatchSettled(e)'
    BY <1>4, <1>8, <2>1, <2>2, <2>3 DEF DispatchSettled, At
  <2> QED BY <1>5, <2>4, <2>5
<1> QED BY <1>10, <1>11, <1>12, <1>13, <1>14, <1>15, <1>16 DEF Handle

LEMMA SerialInvariant == SerialSpec => []SerialInv
<1>1. SerialInv /\ [SerialNext]_vars => SerialInv'
  <2> SUFFICES ASSUME SerialInv, [SerialNext]_vars PROVE SerialInv'
    OBVIOUS
  <2>1. CASE SerialNext
    BY <2>1, HandleSerial, RequestSerial DEF SerialNext
  <2>2. CASE UNCHANGED vars
    BY <2>2 DEF vars, recordVars, historyVars, SerialInv, TypeOK, OneRequestEach,
       Handling, ThreadAlone, DispatchSettled, At, Job
  <2> QED BY <2>1, <2>2
<1> QED BY InitSerial, <1>1, PTL DEF SerialSpec

\* Without races on one dispatch, the proof chain is the declared order as far
\* as it goes: no organ is bypassed, none signs twice.
THEOREM ChainInOrder == SerialSpec => []ProofChainOrdered
<1>1. SerialInv => ProofChainOrdered
  BY StagesDistinct DEF SerialInv, DispatchSettled, ProofChainOrdered
<1> QED BY <1>1, SerialInvariant, PTL

\* Between requests, a stage state names the organ that signed last.
THEOREM StateFollowsChain == SerialSpec => []StateMatchesChain
<1>1. SerialInv => StateMatchesChain
  <2> SUFFICES ASSUME SerialInv, NEW d \in Dispatches,
                      \A w \in Workers : ~Handling(w, d),
                      NEW o \in Organs, state[d] = StateByOrgan[o]
               PROVE  chain[d] # <<>> /\ chain[d][Len(chain[d])] = o
    BY DEF StateMatchesChain
  <2>1. DispatchSettled(d)
    BY DEF SerialInv
  <2>2. Len(chain[d]) > 0 /\ chain[d][Len(chain[d])] = o
    BY <2>1 DEF DispatchSettled, Handling, At
  <2> QED BY <2>2
<1> QED BY <1>1, SerialInvariant, PTL

\* A dispatch is RUNNING exactly while one thread runs it.
THEOREM RunsAlone == SerialSpec => []OneRunAtATime
<1>1. SerialInv => OneRunAtATime
  BY DEF SerialInv, OneRequestEach, Handling, ThreadAlone, DispatchSettled,
         OneRunAtATime, At
<1> QED BY <1>1, SerialInvariant, PTL

\* Completion is announced at most once, for a full chain.
THEOREM AnnouncedOnce == SerialSpec => []CompletionAnnouncedOnce
<1>1. SerialInv => CompletionAnnouncedOnce
  BY StagesDistinct DEF SerialInv, DispatchSettled, CompletionAnnouncedOnce
<1> QED BY <1>1, SerialInvariant, PTL

-----------------------------------------------------------------------------
(* The life cycle of a packet                                              *)

LEMMA InitLifecycle == Init => Lifecycle!Init
BY DEF Init, Lifecycle!Init, Proven, At, Idle

LEMMA RequestLifecycle ==
  ASSUME SerialInv, SerialInv', NEW w \in Workers, NEW e \in Dispatches,
         \A v \in Workers : ~Handling(v, e), Request(w, e)
  PROVE  [Lifecycle!Next]_(Lifecycle!vars)
<1>1. /\ state \in [Dispatches -> States] /\ frame \in [Workers -> Frame]
  BY DEF SerialInv, TypeOK
<1>2. UNCHANGED chain /\ At(w, "idle")
  BY DEF Request, Dispatch, BeginExecute, BeginStage, Fail, recordVars
<1>3. \A v \in Workers : \/ frame'[v] = frame[v]
                         \/ frame[v].at = "idle" /\ frame'[v].at \in {"check", "match"}
  BY <1>1, <1>2 DEF Request, Dispatch, BeginExecute, BeginStage, Fail, Enter, At
<1>4. \A c \in Dispatches : Proven(c)' = Proven(c)
  BY <1>2, <1>3 DEF Proven, At, Job
<1>5. UNCHANGED [d \in Dispatches |-> Proven(d)]
  BY <1>4
<1>6. CASE \E node \in Nodes, execute \in BOOLEAN : Dispatch(w, e, node, execute)
  <2>1. Lifecycle!Accept(e)
    BY <1>5, <1>6 DEF Dispatch, Set, Lifecycle!Accept, Lifecycle!Move
  <2> QED BY <2>1 DEF Lifecycle!Next
<1>7. CASE \E retryable \in BOOLEAN : Fail(w, e, retryable)
  <2>1. Lifecycle!Fail(e)
    BY <1>5, <1>7 DEF Fail, Set, Lifecycle!Fail
  <2> QED BY <2>1 DEF Lifecycle!Next
<1>8. CASE BeginExecute(w, e) \/ \E o \in Organs : BeginStage(w, e, o)
  BY <1>5, <1>8 DEF BeginExecute, BeginStage, recordVars, Lifecycle!vars
<1> QED BY <1>6, <1>7, <1>8 DEF Request

LEMMA HandleLifecycle ==
  ASSUME SerialInv, SerialInv', NEW w \in Workers, Handle(w)
  PROVE  [Lifecycle!Next]_(Lifecycle!vars)
<1>1. /\ TypeOK
      /\ state \in [Dispatches -> States] /\ frame \in [Workers -> Frame]
      /\ chain \in [Dispatches -> Seq(Organs)]
  BY DEF SerialInv, TypeOK
<1>2. ~At(w, "idle") /\ Job(w) \in Dispatches
  BY <1>1 DEF Handle, CheckExecutable, AwaitExecutor, StartExecutor,
     ExecutorReturns, MarkExecuted, ExecutorRaises, MatchStage, AppendStage,
     MarkStage, AnnounceCompletion, TypeOK, At
<1>3. PICK e \in Dispatches : e = Job(w)
  BY <1>2
<1>4. ThreadAlone(w) /\ DispatchSettled(e)
  BY DEF SerialInv
<1>5. \A v \in Workers : v # w => ~(Job(v) = e /\ At(v, "mark"))
  BY <1>2, <1>3 DEF SerialInv, OneRequestEach, Handling, At
<1> DEFINE counted == [c \in Dispatches |-> Proven(c)]
\* Steps of w away from "mark" leave every count as it is.
<1>6. ASSUME UNCHANGED chain, frame[w].at # "mark",
             \A v \in Workers \ {w} : frame'[v] = frame[v],
             frame'[w].at # "mark"
      PROVE  UNCHANGED counted
  <2>1. \A c \in Dispatches : Proven(c)' = Proven(c)
    BY <1>6 DEF Proven, At, Job
  <2> QED BY <2>1
<1>7. CASE CheckExecutable(w) \/ ExecutorReturns(w) \/ MatchStage(w)
           \/ AnnounceCompletion(w)
  <2>1. /\ UNCHANGED <<state, chain>> /\ frame[w].at # "mark"
        /\ \/ Return(w)
           \/ \E place \in {"claim", "returned", "append"} : Goto(w, place)
    BY <1>7 DEF CheckExecutable, ExecutorReturns, MatchStage, AnnounceCompletion,
                recordVars, At
  <2>2. frame'[w].at # "mark" /\ \A v \in Workers \ {w} : frame'[v] = frame[v]
    BY <1>1, <2>1 DEF Return, Goto, Idle, Frame
  <2> QED BY <1>6, <2>1, <2>2 DEF Lifecycle!vars
<1>8. CASE AwaitExecutor(w) \/ StartExecutor(w) \/ MarkExecuted(w) \/ ExecutorRaises(w)
  <2>1. UNCHANGED chain /\ frame[w].at # "mark"
    BY <1>8 DEF AwaitExecutor, StartExecutor, MarkExecuted, ExecutorRaises, At
  <2>2. frame'[w].at # "mark" /\ \A v \in Workers \ {w} : frame'[v] = frame[v]
    <3>1. CASE StartExecutor(w)
      BY <1>1, <3>1 DEF StartExecutor, Frame
    <3>2. CASE Return(w)
      BY <1>1, <3>2 DEF Return, Idle
    <3> QED BY <1>8, <3>1, <3>2 DEF AwaitExecutor, MarkExecuted, ExecutorRaises
  <2>3. UNCHANGED counted
    BY <1>6, <2>1, <2>2
  <2>4. CASE AwaitExecutor(w)
    <3>1. Lifecycle!Wait(e)
      BY <1>3, <1>4, <2>3, <2>4 DEF AwaitExecutor, ThreadAlone, Set, At, Executable,
         Lifecycle!Wait, Lifecycle!Move, Lifecycle!Executable
    <3> QED BY <3>1 DEF Lifecycle!Next
  <2>5. CASE StartExecutor(w)
    <3>1. Lifecycle!Start(e)
      BY <1>3, <1>4, <2>3, <2>5 DEF StartExecutor, ThreadAlone, Set, At, Executable,
         Lifecycle!Start, Lifecycle!Move, Lifecycle!Executable
    <3> QED BY <3>1 DEF Lifecycle!Next
  <2>6. CASE MarkExecuted(w) \/ ExecutorRaises(w)
    <3>1. Lifecycle!End(e)
      BY <1>3, <1>4, <2>3, <2>6 DEF MarkExecuted, ExecutorRaises, ThreadAlone, Set,
         At, Lifecycle!End, Lifecycle!Move
    <3> QED BY <3>1 DEF Lifecycle!Next
  <2> QED BY <1>8, <2>4, <2>5, <2>6
<1> DEFINE n == Len(chain[e])
<1>9. CASE AppendStage(w)
  <2>1. /\ UNCHANGED state /\ frame[w].at = "append"
        /\ chain' = [chain EXCEPT ![e] = Append(@, frame[w].organ)]
        /\ Goto(w, "mark")
        /\ frame[w].organ \in Organs
    BY <1>1, <1>3, <1>9 DEF AppendStage, At, TypeOK
  <2>2. /\ frame'[w].at = "mark" /\ frame'[w].job = e
        /\ \A v \in Workers \ {w} : frame'[v] = frame[v]
    BY <1>1, <1>3, <2>1 DEF Goto, Frame, Job
  <2>3. Len(chain'[e]) = n + 1 /\ n \in Nat
    BY <1>1, <2>1
  <2>4. Proven(e)' = n
    BY <2>2, <2>3 DEF Proven, At, Job
  <2>5. Proven(e) = n
    BY <1>5, <2>1 DEF Proven, At
  <2>6. ASSUME NEW c \in Dispatches \ {e} PROVE Proven(c)' = Proven(c)
    <3>1. chain'[c] = chain[c]
      BY <1>1, <2>1
    <3>2. \A v \in Workers : frame'[v].job = c /\ frame'[v].at = "mark"
                               <=> frame[v].job = c /\ frame[v].at = "mark"
      BY <1>3, <2>1, <2>2, <2>6 DEF Job
    <3> QED BY <3>1, <3>2 DEF Proven, At, Job
  <2>7. UNCHANGED counted
    BY <2>4, <2>5, <2>6
  <2> QED BY <2>1, <2>7 DEF Lifecycle!vars
<1>10. CASE MarkStage(w)
  <2>1. /\ UNCHANGED chain /\ frame[w].at = "mark"
        /\ state' = [state EXCEPT ![e] = StateByOrgan[frame[w].organ]]
        /\ Goto(w, "announce")
        /\ frame[w].organ \in Organs
    BY <1>1, <1>3, <1>10 DEF MarkStage, At, TypeOK, Set
  <2>2. /\ frame'[w].at = "announce"
        /\ \A v \in Workers \ {w} : frame'[v] = frame[v]
    BY <1>1, <2>1 DEF Goto, Frame
  <2>3. n \in Nat /\ n > 0 /\ n <= 5 /\ frame[w].organ = chain[e][n]
        /\ state[e] \in Provable
    BY <1>1, <1>3, <1>4, <2>1 DEF ThreadAlone, DispatchSettled, At
  <2>4. frame[w].organ = ProofChain[n]
    BY <1>4, <2>3 DEF DispatchSettled
  <2>5. Proven(e) = n - 1 /\ Proven(e)' = n
    <3>1. Job(w) = e /\ At(w, "mark")
      BY <1>3, <2>1 DEF At
    <3>2. \A v \in Workers : ~(Job(v)' = e /\ At(v, "mark")')
      BY <1>5, <2>2 DEF At, Job
    <3> QED BY <2>1, <3>1, <3>2 DEF Proven
  <2>6. ASSUME NEW c \in Dispatches \ {e} PROVE Proven(c)' = Proven(c)
    <3>1. \A v \in Workers : frame'[v].job = c /\ frame'[v].at = "mark"
                               <=> frame[v].job = c /\ frame[v].at = "mark"
      BY <1>3, <2>1, <2>2, <2>6 DEF Job
    <3> QED BY <2>1, <3>1 DEF Proven, At, Job
  <2>7. counted' = [counted EXCEPT ![e] = @ + 1]
    <3>1. Proven(e)' = Proven(e) + 1
      BY <2>3, <2>5
    <3> QED BY <2>6, <3>1
  <2>8. StateByOrgan[frame[w].organ] = Lifecycle!Stages[counted[e] + 1]
    <3>1. counted[e] + 1 = n
      BY <2>3, <2>5
    <3>2. n \in 1..5
      BY <2>3, UpToFive
    <3>3. \A i \in 1..5 : StateByOrgan[ProofChain[i]] = Lifecycle!Stages[i]
      BY DEF StateByOrgan, ProofChain, Organs, Lifecycle!Stages
    <3> QED BY <2>4, <3>1, <3>2, <3>3
  <2>9. counted[e] < Len(Lifecycle!Stages)
    BY <2>3, <2>5 DEF Lifecycle!Stages
  <2>10. Lifecycle!Sign(e)
    BY <2>1, <2>3, <2>7, <2>8, <2>9
       DEF Lifecycle!Sign, Lifecycle!Move, Lifecycle!Provable, Provable
  <2> QED BY <2>10 DEF Lifecycle!Next
<1> QED BY <1>7, <1>8, <1>9, <1>10 DEF Handle

\* To clients that wait for their answers the lock-free handlers are the
\* indivisible operations of a packet's life cycle, for any number of threads,
\* dispatches and re-executions.
THEOREM LifecycleImplemented == SerialSpec => ImplementsLifecycle
<1>1. SerialInv /\ SerialInv' /\ [SerialNext]_vars
        => [Lifecycle!Next]_(Lifecycle!vars)
  <2> SUFFICES ASSUME SerialInv, SerialInv', [SerialNext]_vars
               PROVE  [Lifecycle!Next]_(Lifecycle!vars)
    OBVIOUS
  <2>1. CASE SerialNext
    BY <2>1, HandleLifecycle, RequestLifecycle DEF SerialNext
  <2>2. CASE UNCHANGED vars
    BY <2>2 DEF vars, recordVars, Proven, At, Job, Lifecycle!vars
  <2> QED BY <2>1, <2>2
<1> QED BY <1>1, InitLifecycle, SerialInvariant, PTL
        DEF SerialSpec, ImplementsLifecycle, Lifecycle!Spec

-----------------------------------------------------------------------------
(* What the claims that the code does not keep would need                  *)

\* Without races no stage is bypassed: the missing exclusion of two requests
\* about one dispatch is all that complete_stage() lacks for the chain's order.
THEOREM NoBypassWithoutRaces == SerialSpec => []NoStageBypassed
<1>1. SerialSpec => Spec
  <2>1. [SerialNext]_vars => [Next]_vars
    BY DEF SerialNext, Next
  <2> QED BY <2>1, PTL DEF SerialSpec, Spec
<1>2. ThreadsInv /\ SerialInv => NoStageBypassed
  <2> SUFFICES ASSUME ThreadsInv, SerialInv, NEW d \in Dispatches,
                      state[d] = "COMPLETED", NEW o \in Organs
               PROVE  \E i \in 1..Len(chain[d]) : chain[d][i] = o
    BY DEF NoStageBypassed
  <2>1. "janus-prime" \in Organs /\ StateByOrgan["janus-prime"] = "COMPLETED"
    BY DEF Organs, StateByOrgan
  <2>2. PICK i \in 1..Len(chain[d]) : chain[d][i] = "janus-prime"
    BY <2>1 DEF ThreadsInv, StateIsSigned
  <2>3. /\ Len(chain[d]) \in Nat /\ Len(chain[d]) <= 5
        /\ \A k \in 1..Len(chain[d]) : chain[d][k] = ProofChain[k]
    BY DEF SerialInv, DispatchSettled, TypeOK
  <2>4. i = 5
    BY <2>2, <2>3 DEF ProofChain
  <2>5. \A k \in 1..5 : chain[d][k] = ProofChain[k]
    BY <2>2, <2>3, <2>4
  <2>6. PICK k \in 1..5 : ProofChain[k] = o
    BY DEF Organs, ProofChain
  <2> QED BY <2>2, <2>3, <2>4, <2>5, <2>6
<1> QED BY <1>1, <1>2, ThreadsInvariant, SerialInvariant, PTL

\* Every result, in the record, in a frame or under a signature, is of a run
\* that has begun.
RunsCounted ==
  /\ \A d \in Dispatches :
       /\ result[d] <= runs[d]
       /\ \A i \in 1..Len(signed[d]) : signed[d][i] <= runs[d]
  /\ \A w \in Workers : At(w, "running") => frame[w].run <= runs[Job(w)]

LEMMA HandleRuns ==
  ASSUME TypeOK, RunsCounted, NEW w \in Workers, Handle(w)
  PROVE  RunsCounted'
<1> USE DEF TypeOK, RunsCounted
<1>1. CASE StartExecutor(w)
  <2>1. Job(w) \in Dispatches /\ runs[Job(w)] \in Nat
    BY <1>1 DEF StartExecutor, At
  <2>2. /\ \A d \in Dispatches : runs'[d] \in Nat /\ runs[d] <= runs'[d]
        /\ runs'[Job(w)] = runs[Job(w)] + 1
    BY <1>1, <2>1 DEF StartExecutor
  <2>3. /\ frame'[w].run = runs[Job(w)] + 1 /\ frame'[w].job = Job(w)
        /\ \A v \in Workers : v # w => frame'[v] = frame[v]
    BY <1>1 DEF StartExecutor, Frame, Job
  <2>4. ASSUME NEW d \in Dispatches
        PROVE  /\ result'[d] <= runs'[d]
               /\ \A i \in 1..Len(signed'[d]) : signed'[d][i] <= runs'[d]
    BY <1>1, <2>2 DEF StartExecutor
  <2>5. ASSUME NEW v \in Workers, frame'[v].at = "running"
        PROVE  frame'[v].run <= runs'[frame'[v].job]
    <3>1. CASE v = w
      BY <2>1, <2>2, <2>3, <3>1
    <3>2. CASE v # w
      <4>1. frame'[v] = frame[v] /\ frame[v].at = "running"
        BY <2>3, <2>5, <3>2
      <4>2. frame[v].job \in Dispatches /\ frame[v].run <= runs[frame[v].job]
        BY <4>1 DEF At, Job
      <4>3. frame[v].run \in Nat /\ runs[frame[v].job] \in Nat
        BY <4>2 DEF Frame
      <4> QED BY <2>2, <4>1, <4>2, <4>3
    <3> QED BY <3>1, <3>2
  <2> QED BY <2>4, <2>5 DEF At, Job
<1>2. CASE ExecutorReturns(w)
  <2>1. Job(w) \in Dispatches /\ frame[w].run <= runs[Job(w)]
    BY <1>2 DEF ExecutorReturns, At
  <2>2. \A v \in Workers : frame'[v].at = "running" => frame'[v] = frame[v]
    BY <1>2 DEF ExecutorReturns, Goto, Frame
  <2> QED BY <1>2, <2>1, <2>2 DEF ExecutorReturns, historyVars, At, Job
<1>3. CASE AppendStage(w)
  <2>1. Job(w) \in Dispatches
    BY <1>3 DEF AppendStage, At
  <2>2. \A v \in Workers : frame'[v].at = "running" => frame'[v] = frame[v]
    BY <1>3 DEF AppendStage, Goto, Frame
  <2>3. ASSUME NEW d \in Dispatches, NEW i \in 1..Len(signed'[d])
        PROVE  signed'[d][i] <= runs[d]
    <3>1. CASE d = Job(w)
      <4>1. signed'[d] = Append(signed[d], result[d])
        BY <1>3, <2>1, <3>1 DEF AppendStage
      <4> QED BY <4>1
    <3>2. CASE d # Job(w)
      BY <1>3, <3>2 DEF AppendStage
    <3> QED BY <3>1, <3>2
  <2> QED BY <1>3, <2>2, <2>3 DEF AppendStage, At, Job
<1>4. CASE \/ CheckExecutable(w) \/ AwaitExecutor(w) \/ MarkExecuted(w)
           \/ ExecutorRaises(w) \/ MatchStage(w) \/ MarkStage(w)
           \/ AnnounceCompletion(w)
  <2>1. UNCHANGED <<result, runs, signed>>
    BY <1>4 DEF CheckExecutable, AwaitExecutor, MarkExecuted, ExecutorRaises,
                MatchStage, MarkStage, AnnounceCompletion, recordVars, historyVars
  <2>2. \A v \in Workers : frame'[v].at = "running" => frame'[v] = frame[v]
    BY <1>4 DEF CheckExecutable, AwaitExecutor, MarkExecuted, ExecutorRaises,
                MatchStage, MarkStage, AnnounceCompletion, Goto, Return, Idle, Frame
  <2> QED BY <2>1, <2>2 DEF At, Job
<1> QED BY <1>1, <1>2, <1>3, <1>4 DEF Handle

LEMMA RequestRuns ==
  ASSUME TypeOK, RunsCounted, NEW w \in Workers, NEW e \in Dispatches, Request(w, e)
  PROVE  RunsCounted'
<1>1. UNCHANGED <<result, runs, signed>>
  BY DEF Request, Dispatch, BeginExecute, BeginStage, Fail, recordVars, historyVars
<1>2. \A v \in Workers : frame'[v].at = "running" => frame'[v] = frame[v]
  BY DEF Request, Dispatch, BeginExecute, BeginStage, Fail, Enter, TypeOK, Frame
<1> QED BY <1>1, <1>2 DEF RunsCounted, At, Job

\* A dispatch executed no more than once has the result that all its organs
\* signed, however its threads race: only a second execution, a later or a racing
\* one, separates a completed dispatch's result from its proof.
THEOREM OneRunIsSigned ==
  Spec /\ [](\A d \in Dispatches : runs[d] <= 1) => []CompletedResultIsSigned
<1> DEFINE OneRun == \A d \in Dispatches : runs[d] <= 1
<1>1. Init => RunsCounted
  BY DEF Init, RunsCounted, At, Idle, NoResult
<1>2. TypeOK /\ RunsCounted /\ [Next]_vars => RunsCounted'
  <2> SUFFICES ASSUME TypeOK, RunsCounted, [Next]_vars PROVE RunsCounted'
    OBVIOUS
  <2>1. CASE UNCHANGED vars
    BY <2>1 DEF vars, recordVars, historyVars, RunsCounted, At, Job
  <2> QED BY <2>1, HandleRuns, RequestRuns DEF Next
<1>3. ThreadsInv /\ RunsCounted /\ OneRun => CompletedResultIsSigned
  <2> SUFFICES ASSUME ThreadsInv, RunsCounted, OneRun, NEW d \in Dispatches,
                      state[d] = "COMPLETED", NEW i \in 1..Len(signed[d])
               PROVE  signed[d][i] = result[d]
    BY DEF CompletedResultIsSigned
  <2>1. result[d] \in Nat /\ signed[d][i] \in Nat /\ runs[d] \in Nat
    BY DEF ThreadsInv, TypeOK
  <2>2. result[d] # 0 /\ signed[d][i] # 0
    BY DEF ThreadsInv, ProofNeedsResult, NoResult
  <2>3. result[d] <= runs[d] /\ signed[d][i] <= runs[d] /\ runs[d] <= 1
    BY DEF RunsCounted
  <2> QED BY <2>1, <2>2, <2>3
<1>4. ThreadsInv => TypeOK
  BY DEF ThreadsInv
<1> HIDE DEF OneRun
<1>5. Spec => []RunsCounted
  BY <1>1, <1>2, <1>4, ThreadsInvariant, PTL DEF Spec
<1>6. Spec /\ []OneRun => []CompletedResultIsSigned
  BY <1>3, <1>5, ThreadsInvariant, PTL
<1> QED BY <1>6 DEF OneRun
=============================================================================
