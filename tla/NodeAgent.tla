------------------------------ MODULE NodeAgent ------------------------------
(***************************************************************************)
(* The agent of a node (agent/node_agent.py, NodeAgent.loop) and its       *)
(* control plane, the table that NodeTable specifies.  The agent           *)
(* advertises, then heartbeats; any error makes it pause, twice as long    *)
(* each time, and advertise again.                                         *)
(*                                                                         *)
(* A request connects, is served and is answered; it may fail at each of   *)
(* these points, and one that was given up may still be served, late.  The *)
(* control plane restarts and forgets its table, the agent restarts and    *)
(* forgets its backoff.  Time passes in units that the constants share.    *)
(* lost, unheard, slow and stale are history, which no step depends on;    *)
(* healed only ends the faults.                                            *)
(***************************************************************************)
EXTENDS Integers

CONSTANTS
  Node,          \* config.canonical_id
  Capabilities,  \* what the node declares and offers
  None,          \* the table does not hold the node
  Ttl,           \* of the control plane's entries
  Interval,      \* config.heartbeat_seconds
  Patience,      \* timeout of httpx.Client, for each operation: to connect, a write, a read
  Answer,        \* the longest from connecting to the answer, several operations
  Inventory,     \* the longest that inventory() takes
  Boot,          \* until a new process of the agent is up
  MinBackoff,    \* the first pause after an error
  MaxBackoff,    \* the longest
  LateDelays     \* ages of the time that a late advertisement is stored with

ASSUME DurationsValid ==
  /\ {Ttl, Interval, Patience, Answer, Inventory, Boot} \subseteq Nat
  /\ Patience <= Answer
  /\ MinBackoff \in Nat /\ MaxBackoff \in Nat /\ MinBackoff <= MaxBackoff

VARIABLES
  table,    \* the control plane's entry of the node
  agent,    \* where the loop is, the time left there, and its locals
  late,     \* requests given up that the control plane may still serve, by kind
  lost,     \* how much was lost since the last success: see Lose
  unheard,  \* whether an answer was lost since the last success
  slow,     \* whether a wait for an answer outlasted Patience, from the last success on
  stale,    \* whether a late advertisement put last_seen back
  healed    \* whether faults are over

vars == <<table, agent, late, lost, unheard, slow, stale, healed>>

Plane == INSTANCE NodeTable WITH
  Nodes <- {Node}, Offers <- {Capabilities}, Reports <- {"online"}

ASSUME LateDelaysValid == LateDelays \subseteq Plane!Age

Entry == [age: Plane!Age, health: {"online", "offline"}, caps: SUBSET Capabilities]

ASSUME NoneIsNoEntry == None \notin Entry

\* A loss has weight 1 if the request never connected, 2 if it was not served.
\* From 3 on they are not counted.
Lose(weight) == lost' = IF lost + weight > 3 THEN 3 ELSE lost + weight

EntryAge == IF table[Node] = None THEN 0 ELSE table[Node].age

\* Mutant: the pauses are not bounded.
TwiceUncapped(backoff) == backoff * 2

Twice(backoff) == IF backoff * 2 < MaxBackoff THEN backoff * 2 ELSE MaxBackoff

At(place) == agent.at = place
Goto(place, left) == agent' = [agent EXCEPT !.at = place, !.left = left]
Send(request) ==
  agent' = [agent EXCEPT !.at = "connect", !.left = Patience,
                         !.request = request, !.served = FALSE]

Init ==
  /\ table = Plane!Empty
  /\ agent = [at |-> "connect", left |-> Patience, backoff |-> MinBackoff,
              request |-> "advertise", served |-> FALSE]
  /\ late = {} /\ lost = 0
  /\ unheard = FALSE /\ slow = FALSE /\ stale = FALSE /\ healed = FALSE

-----------------------------------------------------------------------------
(* Requests                                                                *)

Connect ==
  /\ At("connect")
  /\ Goto("await", Answer)
  /\ UNCHANGED <<table, late, lost, unheard, slow, stale, healed>>

\* An advertisement is stored with the time read some delay ago, a heartbeat
\* reads it as it is stored.
Effect(request, delay) ==
  IF request = "advertise" THEN Plane!Advertise(Node, Capabilities, "online", delay)
                           ELSE Plane!Heartbeat(Node, "online")

Serve ==
  /\ At("await") /\ ~agent.served
  /\ \E delay \in Plane!Age : delay <= Answer - agent.left /\ Effect(agent.request, delay)
  /\ agent' = [agent EXCEPT !.served = TRUE]
  /\ stale' = FALSE
  /\ UNCHANGED <<late, lost, unheard, slow, healed>>

\* The thread of a late advertisement may have read the time long ago, before
\* reports that the table holds by now.
ServeLate ==
  \E request \in late, delay \in LateDelays :
    /\ Effect(request, delay)
    /\ stale' = (request = "advertise" /\ (stale \/ delay > EntryAge))
    /\ late' = late \ {request}
    /\ UNCHANGED <<agent, lost, unheard, slow, healed>>

\* The wait has outlasted one operation's timeout.
Overrun(left) == left < Answer - Patience

Success ==
  /\ lost' = 0 /\ unheard' = FALSE
  /\ slow' = Overrun(agent.left)

\* Mutant: the pauses keep growing from where the last errors left them.
SucceedKeepingBackoff ==
  /\ At("await") /\ agent.served
  /\ Goto("sleep", Interval)
  /\ Success
  /\ UNCHANGED <<table, late, stale, healed>>

\* An advertisement that succeeds resets the backoff.
Succeed ==
  /\ At("await") /\ agent.served
  /\ agent' = [agent EXCEPT !.at = "sleep", !.left = Interval,
                 !.backoff = IF agent.request = "advertise" THEN MinBackoff
                             ELSE @]
  /\ Success
  /\ UNCHANGED <<table, late, stale, healed>>

\* Mutant: a client without a timeout waits for an answer that cannot come.
WaitOnDoomed == ~healed /\ agent.at \in {"connect", "await"}

\* Refused, reset, an error status, or out of patience.
MayFail == At("doomed") \/ (~healed /\ agent.at \in {"connect", "await"})

Fail ==
  /\ MayFail
  /\ agent' = [agent EXCEPT !.at = "pause", !.left = agent.backoff,
                            !.backoff = Twice(@)]
  /\ \/ At("connect") /\ Lose(1) /\ UNCHANGED <<late, unheard>>
     \/ At("await") /\ ~agent.served /\ Lose(2)
          /\ late' \in {late, late \cup {agent.request}} /\ UNCHANGED unheard
     \/ At("await") /\ agent.served /\ unheard' = TRUE /\ UNCHANGED <<late, lost>>
     \/ At("doomed") /\ Lose(2) /\ UNCHANGED <<late, unheard>>
  /\ UNCHANGED <<table, slow, stale, healed>>

-----------------------------------------------------------------------------
(* The loop between requests                                               *)

\* The agent reads the inventory before each heartbeat.
Wake ==
  /\ agent.left = 0
  /\ \/ At("sleep") /\ Goto("measure", Inventory)
     \/ (At("pause") \/ At("boot")) /\ Send("advertise")
  /\ UNCHANGED <<table, late, lost, unheard, slow, stale, healed>>

Measure ==
  /\ At("measure")
  /\ Send("heartbeat")
  /\ UNCHANGED <<table, late, lost, unheard, slow, stale, healed>>

-----------------------------------------------------------------------------
(* The environment                                                         *)

\* Nothing overstays: a place is left when its time is up.
Tick ==
  /\ agent.left > 0
  /\ Plane!Tick
  /\ agent' = [agent EXCEPT !.left = @ - 1]
  /\ slow' = (slow \/ ((At("await") \/ At("doomed")) /\ Overrun(agent.left - 1)))
  /\ UNCHANGED <<late, lost, unheard, stale, healed>>

\* A topology request finds the node silent.
Sweep ==
  /\ Plane!MayLapse(Node)
  /\ Plane!Lapse({Node})
  /\ UNCHANGED <<agent, late, lost, unheard, slow, stale, healed>>

PlaneRestarts ==
  /\ ~healed
  /\ Plane!Restart
  /\ agent' = IF At("await") THEN [agent EXCEPT !.at = "doomed"] ELSE agent
  /\ late' = {} /\ stale' = FALSE
  /\ UNCHANGED <<lost, unheard, slow, healed>>

AgentRestarts ==
  /\ ~healed
  /\ agent' = [agent EXCEPT !.at = "boot", !.left = Boot, !.backoff = MinBackoff]
  /\ late' \in IF At("await") /\ ~agent.served
               THEN {late, late \cup {agent.request}} ELSE {late}
  /\ Lose(3)
  /\ UNCHANGED <<table, unheard, slow, stale, healed>>

Heal == healed' = TRUE /\ UNCHANGED <<table, agent, late, lost, unheard, slow, stale>>

AgentStep == Connect \/ Serve \/ Succeed \/ Fail \/ Wake \/ Measure

Next ==
  AgentStep \/ ServeLate \/ Tick \/ Sweep \/ PlaneRestarts \/ AgentRestarts \/ Heal

\* Time passes, and the agent, its client and the control plane take their turns.
Spec == Init /\ [][Next]_vars /\ WF_vars(Tick) /\ WF_vars(AgentStep)

-----------------------------------------------------------------------------
(* Properties                                                              *)

Requests == {"advertise", "heartbeat"}

Agent ==
  [at: {"connect", "await", "doomed", "pause", "sleep", "measure", "boot"},
   left: Nat, backoff: MinBackoff .. MaxBackoff, request: Requests, served: BOOLEAN]

\* Every variable stays in its domain, and no backoff leaves its bounds.
TypeOK ==
  /\ table \in [{Node} -> {None} \cup Entry]
  /\ agent \in Agent
  /\ late \subseteq Requests /\ lost \in 0 .. 3
  /\ unheard \in BOOLEAN /\ slow \in BOOLEAN /\ stale \in BOOLEAN /\ healed \in BOOLEAN

\* Nothing was lost since the last success.
Steady == lost = 0 /\ ~unheard

\* Answers were lost, or little else, and none took longer than Patience.
Bearable == ~slow /\ (lost = 0 \/ (lost <= 2 /\ ~unheard))

\* The TTL of the control plane covers the agent's timing.  A node whose requests
\* are all answered is never old enough to be taken for offline, however slowly
\* they are.  If no wait outlasts one timeout, neither is a node whose requests
\* are all served, though every answer may be lost and the pauses have grown to
\* their longest, or one that loses two connections in a row, or one request,
\* after a success.  Only a late advertisement can make it look older.
NeverSilentWhileServed ==
  table[Node] # None /\ ~stale /\ (Steady \/ Bearable) => table[Node].age <= Ttl

\* No advertisement that was given up is, or may still be, the node's entry.
NoneOvertaken == ~stale /\ "advertise" \notin late

Served ==
  /\ healed /\ Steady /\ ~At("doomed") /\ NoneOvertaken
  /\ table[Node] # None /\ table[Node].health = "online"

\* The step of OnlineInTheEnd: once faults are over and no late advertisement is
\* left to put last_seen back, the first request that is answered finds the node
\* online in the table, whatever was swept before, and no step takes it off again.
OnlineIsKept == [][(healed /\ Succeed /\ NoneOvertaken) \/ Served => Served']_vars

\* Whatever the faults did, the node is online for good once they are over: a
\* late advertisement that puts last_seen back is made good by the next heartbeat.
OnlineInTheEnd ==
  healed ~> [](table[Node] # None /\ table[Node].health = "online")

\* 005-NODE-AGENT.md: a node is ACTIVE only when the control plane observes a
\* non-expired heartbeat and the node has advertised its declared capabilities.
ActiveIsAdvertised ==
  table[Node] # None /\ table[Node].health = "online" =>
    table[Node].caps = Capabilities
=============================================================================
