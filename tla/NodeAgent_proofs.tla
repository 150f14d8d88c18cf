-------------------------- MODULE NodeAgent_proofs --------------------------
(***************************************************************************)
(* For which timings of agent and control plane a node that is served is   *)
(* never taken for offline: the TTL has to cover what TtlCovers adds up.   *)
(* The values that the code gives these durations meet it with equality if *)
(* no answer takes longer than one timeout.                                *)
(***************************************************************************)
EXTENDS NodeAgent, TLAPS

\* What the durations must be: the longest pause after an answer was lost, two
\* losses in a row after a heartbeat interval, or two answers that take as long
\* as they may with an interval between.
TtlCovers ==
  /\ Ttl >= 3 * Patience + MaxBackoff
  /\ Ttl >= 5 * Patience + Interval + Inventory + MinBackoff + Twice(MinBackoff)
  /\ Ttl >= 2 * Answer + Patience + Interval + Inventory

-----------------------------------------------------------------------------
(* The inductive invariant                                                 *)

Answering == At("await") /\ agent.served
Waiting == At("await") \/ At("doomed")
Requesting == At("connect") \/ Waiting
BetweenHeartbeats == At("sleep") \/ At("measure")

\* The age of the entry, unless a late advertisement made it.
ReportAge == IF stale THEN 0 ELSE EntryAge

\* The longest silence, with losses that are bearable, before the agent connects.
Silence ==
  CASE lost = 0 /\ unheard -> Patience + MaxBackoff
    [] lost = 0 /\ ~unheard -> Patience + Interval + Inventory
    [] lost = 1 -> 2 * Patience + Interval + Inventory + MinBackoff
    [] OTHER -> 3 * Patience + Interval + Inventory + MinBackoff + Twice(MinBackoff)

\* The age that the entry may have when the agent's time at its place is up, if
\* no answer takes longer than Patience ...
Budget ==
  CASE At("sleep") -> Patience + Interval
    [] At("measure") -> Patience + Interval + Inventory
    [] At("connect") -> Silence + Patience
    [] Waiting -> Silence + 2 * Patience
    [] OTHER -> Silence

TimeLeft == IF Waiting THEN agent.left - (Answer - Patience) ELSE agent.left

\* ... and if answers take as long as they may, but none is lost.
SteadyBudget ==
  CASE At("sleep") -> Answer + Interval
    [] At("measure") -> Answer + Interval + Inventory
    [] At("connect") -> Answer + Interval + Inventory + Patience
    [] OTHER -> Answer + Interval + Inventory + Patience + Answer

AgeWithinBudget ==
  /\ Answering => ReportAge + agent.left <= Answer
  /\ Steady => ReportAge + agent.left <= SteadyBudget
  /\ Bearable => ReportAge + TimeLeft <= Budget

\* A wait that has outlasted one timeout is known to be slow.
PlacesAreTimed ==
  /\ At("connect") => agent.left <= Patience /\ ~agent.served
  /\ Waiting => agent.left <= Answer /\ (~slow => agent.left >= Answer - Patience)

\* Between heartbeats nothing is lost, and the pauses start from the first.
PausesStartAnew ==
  /\ BetweenHeartbeats => Steady
  /\ BetweenHeartbeats \/ (agent.request = "heartbeat" /\ Requesting) =>
       agent.backoff = MinBackoff
  /\ Steady => agent.backoff = MinBackoff /\ ~At("pause")
  /\ lost = 1 /\ ~unheard => agent.backoff = Twice(MinBackoff)
  /\ At("boot") => lost = 3

AgentInv == TypeOK /\ AgeWithinBudget /\ PlacesAreTimed /\ PausesStartAnew

-----------------------------------------------------------------------------
LEMMA Durations ==
  /\ Ttl \in Nat /\ Interval \in Nat /\ Patience \in Nat /\ Inventory \in Nat
  /\ Answer \in Nat /\ Patience <= Answer
  /\ Boot \in Nat /\ MinBackoff \in Nat /\ MaxBackoff \in Nat
  /\ MinBackoff <= MaxBackoff
BY DurationsValid

\* The pauses grow, up to the longest.
LEMMA TwiceBounds ==
  ASSUME NEW b \in MinBackoff .. MaxBackoff
  PROVE  Twice(b) \in MinBackoff .. MaxBackoff /\ b <= Twice(b)
BY Durations DEF Twice

LEMMA SilenceNat == TypeOK => Silence \in Nat
BY Durations, TwiceBounds DEF TypeOK, Silence

LEMMA BudgetNat == TypeOK => Budget \in Nat
BY SilenceNat, Durations DEF Budget

LEMMA AgeNat == TypeOK => EntryAge \in Nat /\ ReportAge \in Nat /\ ReportAge <= EntryAge
BY Durations DEF TypeOK, EntryAge, ReportAge, Entry, Plane!Age

\* A request that is served leaves a node as old as the delay of its
\* advertisement, or of age 0.
LEMMA EffectOnTable ==
  ASSUME TypeOK, NEW request \in Requests, NEW delay \in Plane!Age, Effect(request, delay)
  PROVE  /\ table' \in [{Node} -> {None} \cup Entry]
         /\ EntryAge' = IF request = "advertise" THEN delay ELSE 0
<1>1. 0 \in Plane!Age
  BY Durations DEF Plane!Age
<1>2. CASE request = "advertise"
  <2> DEFINE entry == [age |-> delay, health |-> "online", caps |-> Capabilities]
  <2>1. table' = [table EXCEPT ![Node] = entry]
    BY <1>2 DEF Effect, Plane!Advertise
  <2>2. entry \in Entry
    BY DEF Entry
  <2>3. table'[Node] = entry
    BY <2>1 DEF TypeOK
  <2> QED BY <1>2, <2>1, <2>2, <2>3, NoneIsNoEntry DEF TypeOK, EntryAge
<1>3. CASE request = "heartbeat"
  BY <1>1, <1>3 DEF Effect, Plane!Heartbeat, TypeOK, Entry, EntryAge
<1> QED BY <1>2, <1>3 DEF Requests

-----------------------------------------------------------------------------
(* The invariant, action by action                                         *)

LEMMA InitInv == Init => AgentInv
<1> SUFFICES ASSUME Init PROVE AgentInv
  OBVIOUS
<1>1. TypeOK
  <2>1. table \in [{Node} -> {None} \cup Entry]
    BY DEF Init, Plane!Empty
  <2>2. agent \in Agent
    BY Durations DEF Init, Agent, Requests
  <2>3. lost \in 0 .. 3 /\ late \subseteq Requests
    BY DEF Init
  <2>4. unheard \in BOOLEAN /\ slow \in BOOLEAN /\ stale \in BOOLEAN /\ healed \in BOOLEAN
    BY Zenon DEF Init
  <2> QED BY <2>1, <2>2, <2>3, <2>4 DEF TypeOK
<1>2. ReportAge = 0
  BY DEF Init, ReportAge, EntryAge, Plane!Empty
<1>3. agent.at = "connect" /\ agent.left = Patience /\ agent.backoff = MinBackoff
      /\ agent.served = FALSE /\ agent.request = "advertise"
  BY DEF Init
<1>4. AgeWithinBudget
  <2>1. Budget = Silence + Patience /\ TimeLeft = Patience /\ ~Answering
        /\ SteadyBudget = Answer + Interval + Inventory + Patience
    BY <1>3 DEF Budget, SteadyBudget, TimeLeft, At, Waiting, Answering
  <2> QED BY <1>1, <1>2, <1>3, <2>1, SilenceNat, Durations DEF AgeWithinBudget
<1>5. PlacesAreTimed
  BY <1>3, Durations DEF PlacesAreTimed, At, Waiting
<1>6. PausesStartAnew
  <2>1. lost = 0
    BY DEF Init
  <2> QED BY <1>3, <2>1 DEF PausesStartAnew, At, Requesting, Waiting, BetweenHeartbeats
<1> QED BY <1>1, <1>4, <1>5, <1>6 DEF AgentInv

LEMMA Sooner ==
  ASSUME NEW age \in Nat, NEW age1 \in Nat, age1 <= age, NEW left \in Int, NEW bound \in Nat,
         age + left <= bound
  PROVE  age1 + left <= bound
OBVIOUS

\* A step that only renews the table keeps the invariant.
LEMMA RenewedInv ==
  ASSUME AgentInv, TypeOK', ReportAge' <= ReportAge,
         UNCHANGED <<agent, lost, unheard, slow>>
  PROVE  AgentInv'
<1> USE DEF AgentInv
<1>1. /\ Budget' = Budget /\ SteadyBudget' = SteadyBudget /\ TimeLeft' = TimeLeft
      /\ Steady' = Steady /\ Bearable' = Bearable /\ Answering' = Answering
  BY DEF Budget, SteadyBudget, TimeLeft, Steady, Bearable, Answering, Waiting, At, Silence
<1>2. ReportAge \in Nat /\ ReportAge' \in Nat /\ agent.left \in Nat
  <2>1. TypeOK' => ReportAge' \in Nat
    BY Durations DEF TypeOK, EntryAge, ReportAge, Entry, Plane!Age
  <2> QED BY <2>1, AgeNat DEF TypeOK, Agent
<1>3. TimeLeft \in Int /\ Budget \in Nat /\ SteadyBudget \in Nat
  BY <1>2, BudgetNat, Durations DEF TimeLeft, SteadyBudget
<1>4. AgeWithinBudget'
  <2>1. agent.left \in Int /\ Answer \in Nat
    BY <1>2, Durations
  <2>2. ASSUME Answering PROVE ReportAge' + agent.left <= Answer
    <3>1. ReportAge + agent.left <= Answer
      BY <2>2 DEF AgeWithinBudget
    <3> QED BY <1>2, <2>1, <3>1, Sooner
  <2>3. ASSUME Steady PROVE ReportAge' + agent.left <= SteadyBudget
    <3>1. ReportAge + agent.left <= SteadyBudget
      BY <2>3 DEF AgeWithinBudget
    <3> QED BY <1>2, <1>3, <2>1, <3>1, Sooner
  <2>4. ASSUME Bearable PROVE ReportAge' + TimeLeft <= Budget
    <3>1. ReportAge + TimeLeft <= Budget
      BY <2>4 DEF AgeWithinBudget
    <3> QED BY <1>2, <1>3, <3>1, Sooner
  <2> QED BY <1>1, <2>2, <2>3, <2>4 DEF AgeWithinBudget
<1>5. PlacesAreTimed' /\ PausesStartAnew'
  BY DEF PlacesAreTimed, PausesStartAnew, At, Requesting, Waiting, BetweenHeartbeats, Steady
<1> QED BY <1>4, <1>5

LEMMA ConnectInv == AgentInv /\ Connect => AgentInv'
<1> SUFFICES ASSUME AgentInv, Connect PROVE AgentInv'
  OBVIOUS
<1> USE DEF AgentInv
<1>1. agent' = [agent EXCEPT !.at = "await", !.left = Answer]
  BY DEF Connect, Goto
<1>f. /\ agent'.at = "await" /\ agent'.left = Answer /\ agent'.backoff = agent.backoff
      /\ agent'.request = agent.request /\ agent'.served = agent.served
      /\ agent.at = "connect"
  BY <1>1 DEF TypeOK, Agent, Connect, At
<1>g. UNCHANGED <<table, late, lost, unheard, slow, stale, healed>>
  BY DEF Connect
<1>2. TypeOK'
  BY <1>1, <1>g, Durations DEF TypeOK, Agent
<1>3. ReportAge' = ReportAge /\ Silence' = Silence /\ Steady' = Steady /\ Bearable' = Bearable
  BY <1>g DEF ReportAge, EntryAge, Silence, Steady, Bearable
<1>4. ~agent.served /\ agent.left \in Nat
  BY <1>f DEF PlacesAreTimed, At, TypeOK, Agent
<1>5. AgeWithinBudget'
  <2>1. /\ Budget = Silence + Patience /\ TimeLeft = agent.left
        /\ SteadyBudget = Answer + Interval + Inventory + Patience
    BY <1>f DEF Budget, SteadyBudget, TimeLeft, At, Waiting
  <2>2. /\ Budget' = Silence + 2 * Patience /\ TimeLeft' = Answer - (Answer - Patience)
        /\ SteadyBudget' = Answer + Interval + Inventory + Patience + Answer
        /\ ~Answering'
    BY <1>3, <1>4, <1>f DEF Budget, SteadyBudget, TimeLeft, At, Waiting, Answering
  <2> QED BY <1>3, <1>4, <1>f, <2>1, <2>2, AgeNat, SilenceNat, Durations DEF AgeWithinBudget
<1>6. PlacesAreTimed'
  BY <1>f, Durations DEF PlacesAreTimed, At, Waiting
<1>7. PausesStartAnew'
  BY <1>f, <1>g, <1>3
  DEF PausesStartAnew, At, Requesting, Waiting, BetweenHeartbeats
<1> QED BY <1>2, <1>5, <1>6, <1>7

\* The entry is no older than the request has been waited for.
LEMMA ServeInv == AgentInv /\ Serve => AgentInv'
<1> SUFFICES ASSUME AgentInv, Serve PROVE AgentInv'
  OBVIOUS
<1> USE DEF AgentInv
<1>1. agent' = [agent EXCEPT !.served = TRUE] /\ agent.at = "await"
  BY DEF Serve, At
<1>f. /\ agent'.at = "await" /\ agent'.left = agent.left /\ agent'.backoff = agent.backoff
      /\ agent'.request = agent.request /\ agent'.served = TRUE
  BY <1>1 DEF TypeOK, Agent
<1>g. UNCHANGED <<late, lost, unheard, slow, healed>> /\ stale' = FALSE
  BY DEF Serve
<1>2. table' \in [{Node} -> {None} \cup Entry] /\ EntryAge' \in Nat
      /\ EntryAge' <= Answer - agent.left
  <2>1. agent.request \in Requests /\ agent.left \in Nat /\ agent.left <= Answer
    BY <1>1 DEF TypeOK, Agent, PlacesAreTimed, Waiting, At
  <2>2. PICK delay \in Plane!Age :
          delay <= Answer - agent.left /\ Effect(agent.request, delay)
    BY DEF Serve
  <2>3. table' \in [{Node} -> {None} \cup Entry] /\ EntryAge' \in {0, delay}
    BY <2>1, <2>2, EffectOnTable
  <2>4. delay \in Nat
    BY Durations DEF Plane!Age
  <2> QED BY <2>1, <2>2, <2>3, <2>4, Durations
<1>3. TypeOK'
  BY <1>1, <1>2, <1>g DEF TypeOK, Agent
<1>4. ReportAge' = EntryAge' /\ Silence' = Silence
  BY <1>g DEF ReportAge, Silence
<1>5. AgeWithinBudget'
  <2>1. /\ Budget' = Silence + 2 * Patience
        /\ TimeLeft' = agent.left - (Answer - Patience)
        /\ SteadyBudget' = Answer + Interval + Inventory + Patience + Answer
    BY <1>4, <1>f DEF Budget, SteadyBudget, TimeLeft, At, Waiting
  <2>2. agent.left \in Nat
    BY DEF TypeOK, Agent
  <2> QED BY <1>2, <1>4, <1>f, <2>1, <2>2, SilenceNat, Durations DEF AgeWithinBudget
<1>6. PlacesAreTimed'
  BY <1>1, <1>f, <1>g DEF PlacesAreTimed, At, Waiting
<1>7. PausesStartAnew'
  BY <1>1, <1>f, <1>g DEF PausesStartAnew, At, Requesting, Waiting, BetweenHeartbeats, Steady
<1> QED BY <1>3, <1>5, <1>6, <1>7

\* A late advertisement makes the entry older only if it makes it stale.
LEMMA ServeLateInv == AgentInv /\ ServeLate => AgentInv'
<1> SUFFICES ASSUME AgentInv, ServeLate PROVE AgentInv'
  OBVIOUS
<1> USE DEF AgentInv
<1>1. PICK request \in late, delay \in LateDelays :
        /\ Effect(request, delay)
        /\ stale' = (request = "advertise" /\ (stale \/ delay > EntryAge))
  BY DEF ServeLate
<1>2. UNCHANGED <<agent, lost, unheard, slow, healed>> /\ late' \subseteq late
  BY DEF ServeLate
<1>3. request \in Requests /\ delay \in Plane!Age
  BY LateDelaysValid DEF TypeOK
<1>4. /\ table' \in [{Node} -> {None} \cup Entry]
      /\ EntryAge' = IF request = "advertise" THEN delay ELSE 0
  BY <1>1, <1>3, EffectOnTable
<1>5. stale' \in BOOLEAN
  BY <1>1, Zenon
<1>6. TypeOK'
  BY <1>2, <1>4, <1>5 DEF TypeOK
<1>7. ReportAge' <= ReportAge
  <2>1. delay \in Nat
    BY <1>3, Durations DEF Plane!Age
  <2>2. CASE stale'
    BY <2>2, AgeNat DEF ReportAge
  <2>3. CASE ~stale' /\ request = "advertise"
    <3>1. ~stale /\ ~(delay > EntryAge)
      BY <1>1, <2>3
    <3> QED BY <1>4, <2>1, <2>3, <3>1, AgeNat DEF ReportAge
  <2>4. CASE request # "advertise"
    BY <1>4, <2>4, AgeNat DEF ReportAge
  <2> QED BY <2>2, <2>3, <2>4
<1> QED BY <1>2, <1>6, <1>7, RenewedInv

LEMMA SucceedInv == AgentInv /\ Succeed => AgentInv'
<1> SUFFICES ASSUME AgentInv, Succeed PROVE AgentInv'
  OBVIOUS
<1> USE DEF AgentInv
<1>a. Answering /\ agent.at = "await"
  BY DEF Succeed, Answering, At
<1>b. agent.request = "heartbeat" => agent.backoff = MinBackoff
  BY <1>a DEF PausesStartAnew, At, Requesting, Waiting
<1>1. agent' = [agent EXCEPT !.at = "sleep", !.left = Interval, !.backoff = MinBackoff]
  BY <1>b DEF Succeed, TypeOK, Agent, Requests
<1>f. /\ agent'.at = "sleep" /\ agent'.left = Interval /\ agent'.backoff = MinBackoff
      /\ agent'.request = agent.request /\ agent'.served = agent.served
  BY <1>1 DEF TypeOK, Agent
<1>g. /\ lost' = 0 /\ unheard' = FALSE /\ slow' = Overrun(agent.left)
      /\ UNCHANGED <<table, late, stale, healed>>
  BY DEF Succeed, Success
<1>2. TypeOK'
  <2>1. agent' \in Agent
    <3>1. MinBackoff \in MinBackoff .. MaxBackoff /\ Interval \in Nat
      BY Durations
    <3> QED BY <1>1, <3>1 DEF TypeOK, Agent
  <2>2. table' \in [{Node} -> {None} \cup Entry] /\ late' \subseteq Requests /\ lost' \in 0 .. 3
    BY <1>g DEF TypeOK
  <2>3. unheard' \in BOOLEAN /\ stale' \in BOOLEAN /\ healed' \in BOOLEAN
    BY <1>g, Zenon DEF TypeOK
  <2>4. slow' \in BOOLEAN
    BY <1>g DEF Overrun
  <2> QED BY <2>1, <2>2, <2>3, <2>4 DEF TypeOK
<1>3. /\ ReportAge' = ReportAge /\ ReportAge \in Nat /\ ReportAge <= Answer
      /\ ~slow' => ReportAge <= Patience
  <2>1. ReportAge + agent.left <= Answer
    BY <1>a DEF AgeWithinBudget
  <2>2. agent.left \in Nat /\ ReportAge \in Nat
    BY AgeNat DEF TypeOK, Agent
  <2>3. ReportAge' = ReportAge
    BY <1>g DEF ReportAge, EntryAge
  <2>4. ~slow' => ~(agent.left < Answer - Patience)
    BY <1>g DEF Overrun
  <2> QED BY <2>1, <2>2, <2>3, <2>4, Durations
<1>4. AgeWithinBudget'
  <2>1. /\ Budget' = Patience + Interval /\ SteadyBudget' = Answer + Interval
        /\ TimeLeft' = Interval /\ ~Answering'
    BY <1>f DEF Budget, SteadyBudget, TimeLeft, At, Waiting, Answering
  <2> QED BY <1>3, <1>f, <2>1, Durations DEF AgeWithinBudget, Bearable
<1>5. PlacesAreTimed'
  BY <1>f DEF PlacesAreTimed, At, Waiting
<1>6. PausesStartAnew'
  BY <1>f, <1>g DEF PausesStartAnew, At, Requesting, Waiting, BetweenHeartbeats, Steady
<1> QED BY <1>2, <1>4, <1>5, <1>6

\* What a failure costs, by where it comes: the pause that follows ends within
\* the longest silence that the losses now allow.
LEMMA FailInv == AgentInv /\ Fail => AgentInv'
<1> SUFFICES ASSUME AgentInv, Fail PROVE AgentInv'
  OBVIOUS
<1> USE DEF AgentInv
<1>a. agent.backoff \in MinBackoff .. MaxBackoff /\ agent.left \in Nat
  BY DEF TypeOK, Agent
<1>b. /\ Twice(agent.backoff) \in MinBackoff .. MaxBackoff
      /\ Twice(MinBackoff) \in MinBackoff .. MaxBackoff
  BY <1>a, TwiceBounds, Durations
<1>1. agent' = [agent EXCEPT !.at = "pause", !.left = agent.backoff,
                             !.backoff = Twice(agent.backoff)]
  BY DEF Fail
<1>f. /\ agent'.at = "pause" /\ agent'.left = agent.backoff
      /\ agent'.backoff = Twice(agent.backoff)
      /\ agent'.request = agent.request /\ agent'.served = agent.served
  BY <1>1 DEF TypeOK, Agent
<1>g. UNCHANGED <<table, slow, stale, healed>> /\ ReportAge' = ReportAge
  BY DEF Fail, ReportAge, EntryAge
<1>h. ~Answering' /\ Budget' = Silence' /\ TimeLeft' = agent.backoff
  BY <1>f DEF Answering, Budget, TimeLeft, Waiting, At
<1>i. /\ agent'.backoff \in MinBackoff .. MaxBackoff /\ agent'.left \in Nat
      /\ agent'.at \notin {"connect", "await", "doomed", "sleep", "measure", "boot"}
  BY <1>a, <1>b, <1>f, Durations
<1>2. agent' \in Agent
  <2>1. agent.backoff \in Nat
    BY <1>a, Durations
  <2> QED BY <1>1, <1>a, <1>b, <2>1 DEF TypeOK, Agent
<1>3. SUFFICES /\ late' \subseteq Requests /\ lost' \in 0 .. 3 /\ unheard' \in BOOLEAN
               /\ ~Steady'
               /\ lost' = 1 /\ ~unheard' => agent.backoff = MinBackoff
               /\ Bearable' => ReportAge + agent.backoff <= Silence'
  <2>1. TypeOK'
    BY <1>2, <1>3, <1>g DEF TypeOK
  <2>2. AgeWithinBudget'
    BY <1>3, <1>g, <1>h DEF AgeWithinBudget
  <2>3. PlacesAreTimed'
    BY <1>i DEF PlacesAreTimed, At, Waiting
  <2>4. PausesStartAnew'
    BY <1>3, <1>f, <1>i DEF PausesStartAnew, At, Requesting, Waiting, BetweenHeartbeats
  <2> QED BY <2>1, <2>2, <2>3, <2>4
<1>4. CASE At("connect")
  <2>1. Lose(1) /\ UNCHANGED <<late, unheard>>
    BY <1>4 DEF Fail, At
  <2>2. Bearable => ReportAge + agent.left <= Silence + Patience
    <3>1. TimeLeft = agent.left /\ Budget = Silence + Patience
      BY <1>4 DEF TimeLeft, Budget, At, Waiting
    <3> QED BY <3>1 DEF AgeWithinBudget
  <2>3. lost' \in 1 .. 3 /\ (lost' <= 2 => lost' = lost + 1)
    BY <2>1 DEF Lose, TypeOK
  <2>4. ASSUME Bearable' PROVE ReportAge + agent.backoff <= Silence'
    <3>1. ~unheard /\ ~unheard' /\ lost' = lost + 1 /\ lost \in 0 .. 1 /\ Bearable
      BY <2>1, <2>3, <2>4, <1>g DEF Bearable, TypeOK
    <3>2. CASE lost = 0
      <4>1. agent.backoff = MinBackoff
        BY <3>1, <3>2 DEF PausesStartAnew, Steady
      <4>2. /\ Silence = Patience + Interval + Inventory
            /\ Silence' = 2 * Patience + Interval + Inventory + MinBackoff
        BY <3>1, <3>2 DEF Silence
      <4> QED BY <2>2, <3>1, <4>1, <4>2, <1>a, AgeNat, Durations
    <3>3. CASE lost = 1
      <4>1. agent.backoff = Twice(MinBackoff)
        BY <3>1, <3>3 DEF PausesStartAnew
      <4>2. /\ Silence = 2 * Patience + Interval + Inventory + MinBackoff
            /\ Silence' = 3 * Patience + Interval + Inventory + MinBackoff + Twice(MinBackoff)
        BY <3>1, <3>3 DEF Silence
      <4> QED BY <2>2, <3>1, <4>1, <4>2, <1>a, <1>b, AgeNat, Durations
    <3> QED BY <3>1, <3>2, <3>3
  <2>5. lost' = 1 /\ ~unheard' => agent.backoff = MinBackoff
    BY <2>1, <2>3 DEF PausesStartAnew, Steady, TypeOK
  <2>6. late' \subseteq Requests /\ unheard' \in BOOLEAN /\ ~Steady'
    BY <2>1, <2>3 DEF TypeOK, Steady
  <2> QED BY <2>3, <2>4, <2>5, <2>6
<1>5. CASE (At("await") /\ ~agent.served) \/ At("doomed")
  <2>1. Lose(2) /\ unheard' = unheard /\ late' \subseteq Requests
    BY <1>5 DEF Fail, At, TypeOK, Agent
  <2>2. Bearable => ReportAge <= Silence + 2 * Patience
    <3>1. /\ TimeLeft = agent.left - (Answer - Patience) /\ Budget = Silence + 2 * Patience
          /\ Waiting
      BY <1>5 DEF TimeLeft, Budget, At, Waiting
    <3>2. Bearable => agent.left >= Answer - Patience
      BY <3>1 DEF PlacesAreTimed, Bearable
    <3>3. Bearable => ReportAge + TimeLeft <= Silence + 2 * Patience
      BY <3>1 DEF AgeWithinBudget
    <3> QED BY <3>1, <3>2, <3>3, <1>a, AgeNat, SilenceNat, Durations
  <2>3. lost' \in 2 .. 3 /\ (lost' = 2 => lost = 0)
    BY <2>1 DEF Lose, TypeOK
  <2>4. ASSUME Bearable' PROVE ReportAge + agent.backoff <= Silence'
    <3>1. ~unheard /\ ~unheard' /\ lost' = 2 /\ lost = 0 /\ Bearable
      BY <2>1, <2>3, <2>4, <1>g DEF Bearable, TypeOK
    <3>2. agent.backoff = MinBackoff
      BY <3>1 DEF PausesStartAnew, Steady
    <3>3. /\ Silence = Patience + Interval + Inventory
          /\ Silence' = 3 * Patience + Interval + Inventory + MinBackoff + Twice(MinBackoff)
      BY <3>1 DEF Silence
    <3> QED BY <2>2, <3>1, <3>2, <3>3, <1>a, <1>b, AgeNat, Durations
  <2>5. unheard' \in BOOLEAN /\ ~Steady'
    BY <2>1, <2>3 DEF TypeOK, Steady
  <2> QED BY <2>1, <2>3, <2>4, <2>5
<1>6. CASE Answering
  <2>1. unheard' = TRUE /\ UNCHANGED <<late, lost>>
    BY <1>6 DEF Fail, Answering, At
  <2>2. ~slow => ReportAge <= Patience
    <3>1. ReportAge + agent.left <= Answer
      BY <1>6 DEF AgeWithinBudget
    <3>2. ~slow => agent.left >= Answer - Patience
      BY <1>6 DEF PlacesAreTimed, Answering, Waiting
    <3> QED BY <3>1, <3>2, <1>a, AgeNat, Durations
  <2>3. ASSUME Bearable' PROVE ReportAge + agent.backoff <= Silence'
    <3>1. Silence' = Patience + MaxBackoff /\ ~slow
      BY <2>1, <2>3, <1>g DEF Bearable, Silence
    <3> QED BY <2>2, <3>1, <1>a, AgeNat, Durations
  <2>4. late' \subseteq Requests /\ lost' \in 0 .. 3
    BY <2>1 DEF TypeOK
  <2> QED BY <2>1, <2>3, <2>4 DEF Steady
<1> QED BY <1>4, <1>5, <1>6 DEF Fail, Answering, At, TypeOK, Agent

LEMMA WakeInv == AgentInv /\ Wake => AgentInv'
<1> SUFFICES ASSUME AgentInv, Wake PROVE AgentInv'
  OBVIOUS
<1> USE DEF AgentInv
<1>a. UNCHANGED <<table, late, lost, unheard, slow, stale, healed>> /\ agent.left = 0
  BY DEF Wake
<1>b. /\ ReportAge' = ReportAge /\ Silence' = Silence
      /\ Steady' = Steady /\ Bearable' = Bearable
  BY <1>a DEF ReportAge, EntryAge, Silence, Steady, Bearable
<1>1. CASE At("sleep") /\ Goto("measure", Inventory)
  <2>1. agent' = [agent EXCEPT !.at = "measure", !.left = Inventory]
    BY <1>1 DEF Goto
  <2>f. /\ agent'.at = "measure" /\ agent'.left = Inventory /\ agent'.backoff = agent.backoff
        /\ agent'.request = agent.request /\ agent'.served = agent.served
        /\ agent.at = "sleep"
    BY <1>1, <2>1 DEF TypeOK, Agent, At
  <2>2. TypeOK'
    BY <1>a, <2>1, Durations DEF TypeOK, Agent
  <2>3. AgeWithinBudget'
    <3>1. /\ Budget = Patience + Interval /\ TimeLeft = agent.left
          /\ SteadyBudget = Answer + Interval
      BY <2>f DEF Budget, SteadyBudget, TimeLeft, At, Waiting
    <3>2. /\ Budget' = Patience + Interval + Inventory /\ TimeLeft' = Inventory
          /\ SteadyBudget' = Answer + Interval + Inventory /\ ~Answering'
      BY <2>f DEF Budget, SteadyBudget, TimeLeft, At, Waiting, Answering
    <3> QED BY <1>a, <1>b, <2>f, <3>1, <3>2, AgeNat, Durations DEF AgeWithinBudget
  <2>4. PlacesAreTimed'
    BY <2>f DEF PlacesAreTimed, At, Waiting
  <2>5. PausesStartAnew'
    BY <1>a, <1>b, <2>f DEF PausesStartAnew, At, Requesting, Waiting, BetweenHeartbeats
  <2> QED BY <2>2, <2>3, <2>4, <2>5
<1>2. CASE (At("pause") \/ At("boot")) /\ Send("advertise")
  <2>1. agent' = [agent EXCEPT !.at = "connect", !.left = Patience,
                               !.request = "advertise", !.served = FALSE]
    BY <1>2 DEF Send
  <2>f. /\ agent'.at = "connect" /\ agent'.left = Patience
        /\ agent'.request = "advertise" /\ agent'.served = FALSE
        /\ agent'.backoff = agent.backoff
    BY <2>1 DEF TypeOK, Agent
  <2>2. TypeOK'
    BY <1>a, <2>1, Durations DEF TypeOK, Agent, Requests
  <2>3. ~Steady
    BY <1>2 DEF PausesStartAnew, Steady, At
  <2>4. AgeWithinBudget'
    <3>1. Budget = Silence /\ TimeLeft = agent.left
      BY <1>2 DEF Budget, TimeLeft, At, Waiting
    <3>2. Budget' = Silence + Patience /\ TimeLeft' = Patience /\ ~Answering'
      BY <1>b, <2>f DEF Budget, TimeLeft, At, Waiting, Answering
    <3> QED BY <1>a, <1>b, <2>3, <3>1, <3>2, AgeNat, SilenceNat, Durations DEF AgeWithinBudget
  <2>5. PlacesAreTimed'
    BY <2>f, Durations DEF PlacesAreTimed, At, Waiting
  <2>6. PausesStartAnew'
    BY <1>a, <1>b, <2>3, <2>f
    DEF PausesStartAnew, At, Requesting, Waiting, BetweenHeartbeats
  <2> QED BY <2>2, <2>4, <2>5, <2>6
<1> QED BY <1>1, <1>2 DEF Wake

LEMMA MeasureInv == AgentInv /\ Measure => AgentInv'
<1> SUFFICES ASSUME AgentInv, Measure PROVE AgentInv'
  OBVIOUS
<1> USE DEF AgentInv
<1>a. UNCHANGED <<table, late, lost, unheard, slow, stale, healed>> /\ agent.at = "measure"
  BY DEF Measure, At
<1>b. /\ ReportAge' = ReportAge /\ Silence' = Silence
      /\ Steady' = Steady /\ Bearable' = Bearable
  BY <1>a DEF ReportAge, EntryAge, Silence, Steady, Bearable
<1>1. agent' = [agent EXCEPT !.at = "connect", !.left = Patience,
                             !.request = "heartbeat", !.served = FALSE]
  BY DEF Measure, Send
<1>f. /\ agent'.at = "connect" /\ agent'.left = Patience
      /\ agent'.request = "heartbeat" /\ agent'.served = FALSE
      /\ agent'.backoff = agent.backoff
  BY <1>1 DEF TypeOK, Agent
<1>2. TypeOK'
  BY <1>a, <1>1, Durations DEF TypeOK, Agent, Requests
<1>3. Steady /\ agent.backoff = MinBackoff
  BY <1>a DEF PausesStartAnew, BetweenHeartbeats, At
<1>4. agent.left \in Nat
  BY DEF TypeOK, Agent
<1>5. AgeWithinBudget'
  <2>1. /\ Budget = Silence /\ TimeLeft = agent.left
        /\ SteadyBudget = Answer + Interval + Inventory
    BY <1>a, <1>3 DEF Budget, SteadyBudget, TimeLeft, At, Waiting, Silence, Steady
  <2>2. /\ Budget' = Silence + Patience /\ TimeLeft' = Patience
        /\ SteadyBudget' = Answer + Interval + Inventory + Patience /\ ~Answering'
    BY <1>b, <1>f DEF Budget, SteadyBudget, TimeLeft, At, Waiting, Answering
  <2> QED BY <1>b, <1>f, <1>4, <2>1, <2>2, AgeNat, SilenceNat, Durations DEF AgeWithinBudget
<1>6. PlacesAreTimed'
  BY <1>f, Durations DEF PlacesAreTimed, At, Waiting
<1>7. PausesStartAnew'
  BY <1>a, <1>b, <1>f, <1>3
  DEF PausesStartAnew, At, Requesting, Waiting, BetweenHeartbeats, Steady
<1> QED BY <1>2, <1>5, <1>6, <1>7

\* The entry gets older by as much as the agent's time gets shorter.
LEMMA TickInv == AgentInv /\ Tick => AgentInv'
<1> SUFFICES ASSUME AgentInv, Tick PROVE AgentInv'
  OBVIOUS
<1> USE DEF AgentInv
<1>a. UNCHANGED <<late, lost, unheard, stale, healed>> /\ agent.left > 0
  BY DEF Tick
<1>b. slow' = (slow \/ (Waiting /\ Overrun(agent.left - 1)))
  BY DEF Tick, Waiting
<1>1. agent' = [agent EXCEPT !.left = agent.left - 1]
  BY DEF Tick
<1>f. /\ agent'.at = agent.at /\ agent'.left = agent.left - 1
      /\ agent'.request = agent.request /\ agent'.served = agent.served
      /\ agent'.backoff = agent.backoff
  BY <1>1 DEF TypeOK, Agent
<1>2. /\ table' \in [{Node} -> {None} \cup Entry]
      /\ EntryAge' <= EntryAge + 1
  <2>1. table' = [n \in {Node} |-> IF table[n] = None THEN None
                    ELSE [table[n] EXCEPT !.age = Plane!Older(@)]]
    BY DEF Tick, Plane!Tick
  <2>2. CASE table[Node] = None
    BY <2>1, <2>2, Durations DEF EntryAge
  <2>3. CASE table[Node] # None
    <3>1. table[Node] \in Entry /\ EntryAge = table[Node].age
      BY <2>3 DEF TypeOK, EntryAge
    <3>2. table[Node].age \in 0 .. Ttl + 1
      BY <3>1 DEF Entry, Plane!Age
    <3>3. /\ Plane!Older(table[Node].age) \in 0 .. Ttl + 1
          /\ Plane!Older(table[Node].age) <= table[Node].age + 1
      BY <3>2, Durations DEF Plane!Older
    <3>4. table'[Node] = [table[Node] EXCEPT !.age = Plane!Older(table[Node].age)]
      BY <2>1, <2>3
    <3>5. table'[Node] \in Entry /\ table'[Node].age = Plane!Older(table[Node].age)
      BY <3>1, <3>3, <3>4 DEF Entry, Plane!Age
    <3>6. EntryAge' \in {0, table'[Node].age}
      BY DEF EntryAge
    <3>7. table' \in [{Node} -> {None} \cup Entry]
      BY <2>1, <3>5
    <3> QED BY <3>1, <3>2, <3>3, <3>5, <3>6, <3>7, Durations
  <2> QED BY <2>2, <2>3
<1>3. agent.left \in Nat /\ agent.left - 1 \in Nat
  BY <1>a DEF TypeOK, Agent
<1>4. TypeOK'
  <2>1. agent' \in Agent
    BY <1>1, <1>3 DEF TypeOK, Agent
  <2>2. slow' \in BOOLEAN /\ stale' \in BOOLEAN /\ unheard' \in BOOLEAN /\ healed' \in BOOLEAN
    BY <1>a, <1>b, Zenon DEF TypeOK, Overrun
  <2> QED BY <1>a, <1>2, <2>1, <2>2 DEF TypeOK
<1>5. /\ Budget' = Budget /\ SteadyBudget' = SteadyBudget /\ Answering' = Answering
      /\ Steady' = Steady /\ Waiting' = Waiting
  BY <1>a, <1>f DEF Budget, SteadyBudget, Answering, Waiting, At, Silence, Steady
<1>6. Bearable' => Bearable
  BY <1>a, <1>b DEF Bearable
<1>7. ReportAge' <= ReportAge + 1 /\ ReportAge' \in Nat
  <2>1. ReportAge' \in {0, EntryAge'} /\ EntryAge' \in Nat
    BY <1>4, Durations DEF ReportAge, EntryAge, TypeOK, Entry, Plane!Age
  <2> QED BY <1>2, <1>a, <2>1, AgeNat DEF ReportAge
<1>8. TimeLeft' = TimeLeft - 1 /\ TimeLeft \in Int
  BY <1>3, <1>5, <1>f, Durations DEF TimeLeft
<1>9. AgeWithinBudget'
  <2>1. SteadyBudget \in Nat
    BY Durations DEF SteadyBudget
  <2> QED BY <1>3, <1>f, <1>5, <1>6, <1>7, <1>8, <2>1, BudgetNat, AgeNat, Durations
      DEF AgeWithinBudget
<1>10. PlacesAreTimed'
  <2>1. At("connect")' => agent'.left <= Patience /\ ~agent'.served
    BY <1>f, <1>3, Durations DEF PlacesAreTimed, At
  <2>2. Waiting' => agent'.left <= Answer
    BY <1>f, <1>5, <1>3, Durations DEF PlacesAreTimed
  <2>3. Waiting' /\ ~slow' => ~(agent.left - 1 < Answer - Patience)
    BY <1>b, <1>5, Zenon DEF Overrun
  <2> QED BY <1>f, <1>3, <2>1, <2>2, <2>3, Durations DEF PlacesAreTimed
<1>11. PausesStartAnew'
  BY <1>a, <1>f, <1>5 DEF PausesStartAnew, At, Requesting, BetweenHeartbeats
<1> QED BY <1>4, <1>9, <1>10, <1>11

LEMMA SweepInv == AgentInv /\ Sweep => AgentInv'
<1> SUFFICES ASSUME AgentInv, Sweep PROVE AgentInv'
  OBVIOUS
<1> USE DEF AgentInv
<1>1. UNCHANGED <<agent, late, lost, unheard, slow, stale, healed>>
  BY DEF Sweep
<1>2. table[Node] # None
  BY DEF Sweep, Plane!MayLapse
<1>3. table' = [n \in {Node} |-> [table[n] EXCEPT !.health = "offline"]]
  BY DEF Sweep, Plane!Lapse
<1>4. table[Node] \in Entry /\ EntryAge = table[Node].age
  BY <1>2 DEF TypeOK, EntryAge
<1>5. table'[Node] \in Entry /\ table'[Node].age = table[Node].age
  BY <1>3, <1>4 DEF Entry
<1>6. table' \in [{Node} -> {None} \cup Entry]
  BY <1>3, <1>5
<1>7. TypeOK'
  BY <1>1, <1>6 DEF TypeOK
<1>8. ReportAge' <= ReportAge
  <2>1. EntryAge' \in {0, EntryAge}
    BY <1>4, <1>5 DEF EntryAge
  <2> QED BY <1>1, <2>1, AgeNat DEF ReportAge
<1> QED BY <1>1, <1>7, <1>8, RenewedInv

LEMMA PlaneRestartsInv == AgentInv /\ PlaneRestarts => AgentInv'
<1> SUFFICES ASSUME AgentInv, PlaneRestarts PROVE AgentInv'
  OBVIOUS
<1> USE DEF AgentInv
<1>1. /\ late' = {} /\ stale' = FALSE /\ UNCHANGED <<lost, unheard, slow, healed>>
      /\ table' = [n \in {Node} |-> None]
  BY DEF PlaneRestarts, Plane!Restart, Plane!Empty
<1>2. ReportAge' = 0
  BY <1>1 DEF ReportAge, EntryAge
<1>3. table' \in [{Node} -> {None} \cup Entry] /\ late' \subseteq Requests
  BY <1>1
<1>4. CASE At("await")
  <2>1. agent' = [agent EXCEPT !.at = "doomed"]
    BY <1>4 DEF PlaneRestarts
  <2>f. /\ agent'.at = "doomed" /\ agent'.left = agent.left
        /\ agent'.request = agent.request /\ agent'.served = agent.served
        /\ agent'.backoff = agent.backoff /\ agent.at = "await"
    BY <1>4, <2>1 DEF TypeOK, Agent, At
  <2>2. TypeOK'
    BY <1>1, <1>3, <2>1 DEF TypeOK, Agent
  <2>3. agent.left <= Answer /\ agent.left \in Nat
    BY <2>f DEF PlacesAreTimed, At, Waiting, TypeOK, Agent
  <2>4. /\ Budget' = Silence + 2 * Patience
        /\ TimeLeft' = agent.left - (Answer - Patience)
        /\ SteadyBudget' = Answer + Interval + Inventory + Patience + Answer
        /\ ~Answering'
    BY <1>1, <2>f DEF Budget, SteadyBudget, TimeLeft, At, Waiting, Answering, Silence
  <2>5. AgeWithinBudget'
    BY <1>2, <2>f, <2>3, <2>4, SilenceNat, Durations DEF AgeWithinBudget
  <2>6. PlacesAreTimed'
    BY <1>1, <2>f DEF PlacesAreTimed, At, Waiting
  <2>7. PausesStartAnew'
    BY <1>1, <2>f
    DEF PausesStartAnew, At, Requesting, Waiting, BetweenHeartbeats, Steady
  <2> QED BY <2>2, <2>5, <2>6, <2>7
<1>5. CASE ~At("await")
  <2>1. agent' = agent
    BY <1>5 DEF PlaneRestarts
  <2>2. TypeOK'
    BY <1>1, <1>3, <2>1 DEF TypeOK
  <2>3. ReportAge' <= ReportAge
    BY <1>2, AgeNat
  <2> QED BY <1>1, <2>1, <2>2, <2>3, RenewedInv
<1> QED BY <1>4, <1>5

LEMMA AgentRestartsInv == AgentInv /\ AgentRestarts => AgentInv'
<1> SUFFICES ASSUME AgentInv, AgentRestarts PROVE AgentInv'
  OBVIOUS
<1> USE DEF AgentInv
<1>1. agent' = [agent EXCEPT !.at = "boot", !.left = Boot, !.backoff = MinBackoff]
  BY DEF AgentRestarts
<1>f. agent'.at = "boot" /\ agent'.left = Boot /\ agent'.backoff = MinBackoff
  BY <1>1 DEF TypeOK, Agent
<1>2. lost' = 3 /\ UNCHANGED <<table, unheard, slow, stale, healed>>
  BY DEF AgentRestarts, Lose, TypeOK
<1>3. late' \subseteq Requests
  BY DEF AgentRestarts, TypeOK, Agent
<1>4. agent' \in Agent
  <2>1. MinBackoff \in MinBackoff .. MaxBackoff /\ Boot \in Nat
    BY Durations
  <2> QED BY <1>1, <2>1 DEF TypeOK, Agent
<1>5. TypeOK'
  BY <1>2, <1>3, <1>4 DEF TypeOK
<1>6. AgeWithinBudget'
  BY <1>2, <1>f DEF AgeWithinBudget, Steady, Bearable, Answering, At
<1>7. PlacesAreTimed' /\ PausesStartAnew'
  BY <1>2, <1>f
  DEF PlacesAreTimed, PausesStartAnew, At, Requesting, Waiting, BetweenHeartbeats, Steady
<1> QED BY <1>5, <1>6, <1>7

LEMMA NextInv == AgentInv /\ [Next]_vars => AgentInv'
<1> SUFFICES ASSUME AgentInv, [Next]_vars PROVE AgentInv'
  OBVIOUS
<1>1. CASE Heal \/ UNCHANGED vars
  <2>1. UNCHANGED <<table, agent, late, lost, unheard, slow, stale>> /\ healed' \in BOOLEAN
    BY <1>1 DEF Heal, vars, AgentInv, TypeOK
  <2>2. TypeOK' /\ ReportAge' = ReportAge
    BY <2>1 DEF AgentInv, TypeOK, ReportAge, EntryAge
  <2>3. ReportAge' <= ReportAge
    BY <2>2, AgeNat DEF AgentInv
  <2> QED BY <2>1, <2>2, <2>3, RenewedInv
<1> QED
  BY <1>1, ConnectInv, ServeInv, ServeLateInv, SucceedInv, FailInv, WakeInv,
     MeasureInv, TickInv, SweepInv, PlaneRestartsInv, AgentRestartsInv
  DEF Next, AgentStep

-----------------------------------------------------------------------------
(* Staying online                                                          *)

Online == table[Node] # None /\ table[Node].health = "online"

\* What an answer on its way tells: the entry is there, and it is not swept.
AnsweredIsOnline == Answering /\ ~stale => Online

\* The budgets stay within the TTL.
LEMMA FreshWhileServed ==
  ASSUME TtlCovers, AgentInv, ~stale, Steady \/ Bearable \/ Answering
  PROVE  EntryAge <= Ttl
<1>1. TypeOK /\ AgeWithinBudget /\ ReportAge = EntryAge /\ EntryAge \in Nat
  BY AgeNat DEF AgentInv, ReportAge
<1>2. agent.left \in Nat
  BY <1>1 DEF TypeOK, Agent
<1>3. Twice(MinBackoff) \in Nat
  BY TwiceBounds, Durations
<1>4. CASE Answering
  <2>1. EntryAge + agent.left <= Answer
    BY <1>1, <1>4 DEF AgeWithinBudget
  <2> QED BY <1>1, <1>2, <2>1, Durations DEF TtlCovers
<1>5. CASE Steady
  <2>1. EntryAge + agent.left <= SteadyBudget
    BY <1>1, <1>5 DEF AgeWithinBudget
  <2>2. SteadyBudget <= 2 * Answer + Patience + Interval + Inventory /\ SteadyBudget \in Nat
    BY Durations DEF SteadyBudget
  <2> QED BY <1>1, <1>2, <2>1, <2>2, Durations DEF TtlCovers
<1>6. CASE Bearable
  <2>1. EntryAge + TimeLeft <= Budget
    BY <1>1, <1>6 DEF AgeWithinBudget
  <2>2. TimeLeft \in Nat
    BY <1>2, <1>6, Durations DEF TimeLeft, AgentInv, PlacesAreTimed, Bearable
  <2>3. Silence + 2 * Patience <= Ttl
    BY <1>3, <1>6, Durations DEF TtlCovers, Silence, Bearable
  <2>4. Budget <= Ttl
    BY <1>1, <1>3, <2>3, SilenceNat, Durations DEF Budget, TtlCovers
  <2> QED BY <1>1, <2>1, <2>2, <2>4, BudgetNat, Durations
<1> QED BY <1>4, <1>5, <1>6

LEMMA EffectOnline ==
  ASSUME TypeOK, NEW request \in Requests, NEW delay \in Plane!Age, Effect(request, delay)
  PROVE  Online'
<1>1. PICK entry \in Entry : table' = [table EXCEPT ![Node] = entry] /\ entry.health = "online"
  <2>1. 0 \in Plane!Age
    BY Durations DEF Plane!Age
  <2>2. CASE request = "advertise"
    <3> DEFINE entry == [age |-> delay, health |-> "online", caps |-> Capabilities]
    <3>1. table' = [table EXCEPT ![Node] = entry]
      BY <2>2 DEF Effect, Plane!Advertise
    <3>2. entry \in Entry
      BY DEF Entry
    <3> QED BY <3>1, <3>2
  <2>3. CASE request = "heartbeat"
    <3> DEFINE entry == [age |-> 0, health |-> "online",
                         caps |-> IF table[Node] = None THEN {} ELSE table[Node].caps]
    <3>1. table' = [table EXCEPT ![Node] = entry]
      BY <2>3 DEF Effect, Plane!Heartbeat
    <3>2. entry \in Entry
      BY <2>1 DEF Entry, TypeOK
    <3> QED BY <3>1, <3>2
  <2> QED BY <2>2, <2>3 DEF Requests
<1>2. table'[Node] = entry
  BY <1>1 DEF TypeOK
<1> QED BY <1>1, <1>2, NoneIsNoEntry DEF Online

\* Whoever waits for it, a request that is served leaves the node online.
LEMMA ServingOnline == AgentInv /\ (Serve \/ ServeLate) => Online'
<1> SUFFICES ASSUME AgentInv, Serve \/ ServeLate PROVE Online'
  OBVIOUS
<1>1. TypeOK
  BY DEF AgentInv
<1>2. PICK request \in Requests, delay \in Plane!Age : Effect(request, delay)
  BY <1>1, LateDelaysValid DEF Serve, ServeLate, TypeOK, Agent
<1> QED BY <1>1, <1>2, EffectOnline

LEMMA TickOnline ==
  ASSUME TypeOK, Online, Tick
  PROVE  Online'
<1>1. table[Node] \in Entry
  BY DEF TypeOK, Online
<1>2. table'[Node] = [table[Node] EXCEPT !.age = Plane!Older(table[Node].age)]
  BY DEF Tick, Plane!Tick, Online
<1>3. Plane!Older(table[Node].age) \in Plane!Age
  BY <1>1, Durations DEF Plane!Older, Plane!Age, Entry
<1>4. table'[Node] \in Entry /\ table'[Node].health = table[Node].health
  BY <1>1, <1>2, <1>3 DEF Entry
<1> QED BY <1>4, NoneIsNoEntry DEF Online

\* Only a restart of the control plane takes a node off that is served.
LEMMA OnlineStays ==
  ASSUME TtlCovers, AgentInv, ~stale, Online, Steady \/ Answering, [Next]_vars,
         ~PlaneRestarts
  PROVE  Online'
<1> USE DEF AgentInv
<1>1. CASE Serve \/ ServeLate
  BY <1>1, ServingOnline
<1>3. CASE Tick
  BY <1>3, TickOnline
<1>4. ~Sweep
  <2>1. EntryAge <= Ttl /\ EntryAge \in Nat
    BY FreshWhileServed, AgeNat
  <2> QED BY <2>1, Durations DEF Sweep, Plane!MayLapse, EntryAge
<1>5. CASE UNCHANGED table
  BY <1>5 DEF Online
<1> QED
  BY <1>1, <1>3, <1>4, <1>5
  DEF Next, AgentStep, Connect, Succeed, Fail, Wake, Measure, AgentRestarts, Heal, vars

\* An answer is on its way from the step that served the request, until the
\* agent has it, gives up or the connection breaks.
LEMMA AnswersComeFromServing ==
  ASSUME AgentInv, [Next]_vars, Answering'
  PROVE  Serve \/ (Answering /\ ~PlaneRestarts)
<1> USE DEF AgentInv, At, Answering
<1>1. agent \in Agent
  BY DEF TypeOK
<1>2. ~Connect
  BY <1>1 DEF Connect, Goto, PlacesAreTimed, Agent
<1>3. ~(Succeed \/ Fail \/ Wake \/ Measure)
  <2>1. ~Succeed
    <3> SUFFICES ASSUME Succeed PROVE FALSE
      OBVIOUS
    <3>1. agent'.at = "sleep"
      BY <1>1 DEF Succeed, Agent
    <3> QED BY <3>1
  <2>2. ~Wake
    BY <1>1 DEF Wake, Goto, Send, Agent
  <2>3. ~Measure
    BY <1>1 DEF Measure, Send, Agent
  <2>4. ~Fail
    <3> SUFFICES ASSUME Fail PROVE FALSE
      OBVIOUS
    <3>1. agent'.at = "pause"
      BY <1>1 DEF Fail, Agent
    <3> QED BY <3>1
  <2> QED BY <2>1, <2>2, <2>3, <2>4
<1>4. ~(PlaneRestarts \/ AgentRestarts)
  BY <1>1 DEF PlaneRestarts, AgentRestarts, Agent
<1>5. CASE Tick
  BY <1>1, <1>4, <1>5 DEF Tick, Agent
<1>6. CASE UNCHANGED agent
  BY <1>4, <1>6
<1> QED BY <1>2, <1>3, <1>4, <1>5, <1>6
  DEF Next, AgentStep, ServeLate, Sweep, Heal, vars

LEMMA AnsweredNext ==
  ASSUME TtlCovers, AgentInv, AnsweredIsOnline, [Next]_vars
  PROVE  AnsweredIsOnline'
<1> SUFFICES ASSUME Answering', ~stale' PROVE Online'
  BY DEF AnsweredIsOnline
<1>1. CASE Serve \/ ServeLate
  BY <1>1, ServingOnline
<1>2. CASE ~Serve /\ ~ServeLate
  <2>1. Answering /\ ~PlaneRestarts
    BY <1>2, AnswersComeFromServing
  <2>2. stale' = stale
    BY <1>2, <2>1 DEF Next, AgentStep, Connect, Succeed, Fail, Wake, Measure, Tick, Sweep,
       AgentRestarts, Heal, vars
  <2> QED BY <2>1, <2>2, OnlineStays DEF AnsweredIsOnline
<1> QED BY <1>1, <1>2

\* Once faults are over, nothing is lost of a node that is served.
LEMMA NothingIsLost ==
  ASSUME AgentInv, healed, ~At("doomed"), Steady, [Next]_vars
  PROVE  /\ ~PlaneRestarts
         /\ healed' /\ ~At("doomed")' /\ Steady'
<1> USE DEF AgentInv, At
<1>1. agent \in Agent
  BY DEF TypeOK
<1>2. ~PlaneRestarts /\ ~AgentRestarts /\ ~Fail
  BY DEF PlaneRestarts, AgentRestarts, Fail, MayFail
<1>3. healed' /\ Steady'
  <2>1. CASE Succeed
    BY <2>1 DEF Succeed, Success, Steady
  <2>2. CASE ~Succeed
    <3>1. lost' = lost /\ unheard' = unheard /\ healed'
      BY <1>2, <2>2 DEF Next, AgentStep, Connect, Serve, ServeLate, Wake, Measure, Tick,
         Sweep, Heal, vars
    <3> QED BY <3>1 DEF Steady
  <2> QED BY <2>1, <2>2
<1>4. agent'.at # "doomed"
  BY <1>1, <1>2 DEF Next, AgentStep, Connect, Serve, ServeLate, Succeed, Wake, Measure,
                    Tick, Sweep, Heal, vars, Goto, Send, Agent
<1> QED BY <1>2, <1>3, <1>4

\* Nor does an advertisement become late.
LEMMA NothingIsOvertaken ==
  ASSUME healed, ~At("doomed"), NoneOvertaken, [Next]_vars
  PROVE  NoneOvertaken'
<1>1. ~Fail /\ ~AgentRestarts
  BY DEF Fail, MayFail, AgentRestarts
<1>2. CASE ServeLate
  BY <1>2 DEF ServeLate, NoneOvertaken
<1>3. CASE Serve
  BY <1>3 DEF Serve, NoneOvertaken
<1>4. CASE ~ServeLate /\ ~Serve
  <2>1. UNCHANGED <<late, stale>>
    BY <1>1, <1>4 DEF Next, AgentStep, Connect, Succeed, Wake, Measure, Tick, Sweep,
       PlaneRestarts, Heal, vars
  <2> QED BY <2>1 DEF NoneOvertaken
<1> QED BY <1>2, <1>3, <1>4

-----------------------------------------------------------------------------
(* The theorems                                                            *)

\* The variables of the agent and its control plane stay in their domains; in
\* particular no backoff leaves its bounds (min(backoff * 2, 60) in loop()).
THEOREM TypeCorrect == Spec => []TypeOK
<1>1. AgentInv => TypeOK
  BY DEF AgentInv
<1> QED BY <1>1, InitInv, NextInv, PTL DEF Spec

\* If the TTL of expire() covers the timings of NodeAgent.loop() as TtlCovers
\* says, a node whose requests are all answered is never old enough to be taken
\* for offline, however long the answers take; and if none takes longer than one
\* timeout, neither is a node whose requests are served though every answer may be
\* lost, nor one that loses two connections in a row, or one request, after a
\* success.  The one exception is an entry that a late advertisement put back.
THEOREM ServedIsNeverSilent ==
  ASSUME TtlCovers
  PROVE  Spec => []NeverSilentWhileServed
<1>1. AgentInv => NeverSilentWhileServed
  BY FreshWhileServed DEF NeverSilentWhileServed, EntryAge
<1> QED BY <1>1, InitInv, NextInv, PTL DEF Spec

\* Under the same condition, once faults are over and no late advertisement is
\* left, the first request of NodeAgent.loop() that is answered finds the node
\* online, and no sweep of expire(), no late heartbeat and no pause takes it off
\* again.
THEOREM OnlineForGood ==
  ASSUME TtlCovers
  PROVE  Spec => OnlineIsKept
<1> DEFINE IInv == AgentInv /\ AnsweredIsOnline
<1>1. Init => IInv
  BY InitInv DEF Init, AnsweredIsOnline, Answering, At
<1>2. IInv /\ [Next]_vars => IInv'
  BY NextInv, AnsweredNext
<1>3. IInv /\ [Next]_vars
        => [(healed /\ Succeed /\ NoneOvertaken) \/ Served => Served']_vars
  <2> SUFFICES ASSUME IInv, [Next]_vars, (healed /\ Succeed /\ NoneOvertaken) \/ Served
               PROVE  Served'
    OBVIOUS
  <2>1. CASE healed /\ Succeed /\ NoneOvertaken
    <3>1. Answering /\ Online
      BY <2>1 DEF AnsweredIsOnline, Succeed, Answering, NoneOvertaken
    <3>2. agent'.at = "sleep"
      BY <2>1 DEF Succeed, AgentInv, TypeOK, Agent
    <3>3. Online' /\ healed' /\ Steady' /\ NoneOvertaken'
      BY <2>1, <3>1 DEF Succeed, Success, Online, Steady, NoneOvertaken
    <3> QED BY <3>2, <3>3 DEF Served, Online, At
  <2>2. CASE Served
    <3>1. ~PlaneRestarts /\ healed' /\ ~At("doomed")' /\ Steady'
      BY <2>2, NothingIsLost DEF Served
    <3>2. NoneOvertaken'
      BY <2>2, NothingIsOvertaken DEF Served
    <3>3. Online'
      BY <2>2, <3>1, OnlineStays DEF Served, Online, NoneOvertaken
    <3> QED BY <3>1, <3>2, <3>3 DEF Served, Online
  <2> QED BY <2>1, <2>2
<1> QED BY <1>1, <1>2, <1>3, PTL DEF Spec, OnlineIsKept

-----------------------------------------------------------------------------
(* What the claim of 005-NODE-AGENT.md needs                               *)

\* A node that the table knows is known with its capabilities, and the table
\* knows a node that heartbeats, whose heartbeat may come late, or whose request
\* was served.
Known == table[Node] # None /\ table[Node].caps = Capabilities

AdvertisedFirst ==
  /\ table[Node] # None => Known
  /\ \/ agent.request = "heartbeat" \/ BetweenHeartbeats \/ "heartbeat" \in late
     \/ Answering
     => Known

LEMMA EffectKnown ==
  ASSUME TypeOK, AdvertisedFirst, NEW request \in Requests, NEW delay \in Plane!Age,
         Effect(request, delay), request = "heartbeat" => Known
  PROVE  Known'
<1>1. PICK entry \in Entry :
        table' = [table EXCEPT ![Node] = entry] /\ entry.caps = Capabilities
  <2>1. CASE request = "advertise"
    <3> DEFINE entry == [age |-> delay, health |-> "online", caps |-> Capabilities]
    <3>1. table' = [table EXCEPT ![Node] = entry] /\ entry \in Entry
      BY <2>1 DEF Effect, Plane!Advertise, Entry
    <3> QED BY <3>1
  <2>2. CASE request = "heartbeat"
    <3> DEFINE entry == [age |-> 0, health |-> "online", caps |-> Capabilities]
    <3>1. table' = [table EXCEPT ![Node] = entry]
      BY <2>2 DEF Effect, Plane!Heartbeat, Known
    <3>2. entry \in Entry
      BY Durations DEF Plane!Age, Entry
    <3> QED BY <3>1, <3>2
  <2> QED BY <2>1, <2>2 DEF Requests
<1>2. table'[Node] = entry
  BY <1>1 DEF TypeOK
<1> QED BY <1>1, <1>2, NoneIsNoEntry DEF Known

\* Serving leaves the node known, if none that is unknown heartbeats.
LEMMA ServingKnown ==
  ASSUME AgentInv, AdvertisedFirst, Serve \/ ServeLate
  PROVE  Known'
<1>1. TypeOK
  BY DEF AgentInv
<1>2. PICK request \in late \cup {agent.request}, delay \in Plane!Age : Effect(request, delay)
  BY LateDelaysValid DEF Serve, ServeLate
<1>3. request \in Requests /\ (request = "heartbeat" => Known)
  BY <1>1, <1>2 DEF TypeOK, Agent, AdvertisedFirst
<1> QED BY <1>1, <1>2, <1>3, EffectKnown

\* Only a restart of the control plane makes a node unknown again.
LEMMA KnownStays ==
  ASSUME AgentInv, AdvertisedFirst, [Next]_vars, ~PlaneRestarts, Known
  PROVE  Known'
<1> USE DEF AgentInv
<1>1. CASE Serve \/ ServeLate
  BY <1>1, ServingKnown
<1>3. CASE Tick \/ Sweep
  <2>1. table[Node] \in Entry
    BY DEF TypeOK, Known
  <2>2. \/ table'[Node] = [table[Node] EXCEPT !.age = Plane!Older(table[Node].age)]
        \/ table'[Node] = [table[Node] EXCEPT !.health = "offline"]
    BY <1>3 DEF Tick, Plane!Tick, Sweep, Plane!Lapse, Known
  <2>3. Plane!Older(table[Node].age) \in Plane!Age
    BY <2>1, Durations DEF Plane!Older, Plane!Age, Entry
  <2>4. table'[Node] \in Entry /\ table'[Node].caps = table[Node].caps
    BY <2>1, <2>2, <2>3 DEF Entry
  <2> QED BY <2>4, NoneIsNoEntry DEF Known
<1>4. CASE UNCHANGED table
  BY <1>4 DEF Known
<1> QED
  BY <1>1, <1>3, <1>4
  DEF Next, AgentStep, Connect, Succeed, Fail, Wake, Measure, AgentRestarts, Heal, vars

\* A node enters the table by being served, and only from sleep, after a success,
\* does the agent go on to a heartbeat.
LEMMA AdvertisedFirstStays ==
  ASSUME AgentInv, AdvertisedFirst, [Next]_vars, ~PlaneRestarts
  PROVE  AdvertisedFirst'
<1> USE DEF AgentInv
<1>1. agent \in Agent
  BY DEF TypeOK
<1>2. CASE Known
  BY <1>2, KnownStays DEF AdvertisedFirst
<1>3. CASE ~Known
  <2>1. /\ table[Node] = None /\ agent.request = "advertise" /\ ~BetweenHeartbeats
        /\ "heartbeat" \notin late /\ ~Answering
    BY <1>1, <1>3 DEF AdvertisedFirst, Agent, Requests
  <2>2. CASE Serve \/ ServeLate
    <3>1. Known'
      BY <2>2, ServingKnown
    <3> QED BY <3>1 DEF AdvertisedFirst
  <2>3. CASE ~Serve /\ ~ServeLate
    <3>1. table'[Node] = None
      BY <2>1, <2>3 DEF Next, AgentStep, Connect, Succeed, Fail, Wake, Measure, Tick,
         Plane!Tick, Sweep, Plane!MayLapse, AgentRestarts, Heal, vars
    <3>2. ~Answering'
      BY <2>1, <2>3, AnswersComeFromServing
    <3>3. ~Succeed /\ ~Measure /\ ~At("sleep")
      BY <2>1 DEF Succeed, Measure, Answering, BetweenHeartbeats, At
    <3>4. agent'.request = "advertise"
      BY <1>1, <2>1, <2>3, <3>3 DEF Next, AgentStep, Connect, Fail, Wake, Tick, Sweep,
         AgentRestarts, Heal, vars, Goto, Send, Agent
    <3>5. agent'.at \notin {"sleep", "measure"}
      BY <1>1, <2>1, <2>3, <3>3 DEF Next, AgentStep, Connect, Fail, Wake, Tick, Sweep,
         AgentRestarts, Heal, vars, Goto, Send, Agent, BetweenHeartbeats, At
    <3>6. "heartbeat" \notin late'
      <4>1. late' \subseteq late \cup {agent.request}
        BY <2>3 DEF Next, AgentStep, Connect, Succeed, Fail, Wake, Measure, Tick, Sweep,
           AgentRestarts, Heal, vars
      <4> QED BY <2>1, <4>1
    <3> QED BY <3>1, <3>2, <3>4, <3>5, <3>6 DEF AdvertisedFirst, BetweenHeartbeats, At
  <2> QED BY <2>2, <2>3
<1> QED BY <1>2, <1>3

\* Unless the control plane restarts, a node is online only with the capabilities
\* it advertised, whatever is lost, late or swept and however often the agent
\* restarts: that heartbeat() accepts a node it does not know matters only then.
THEOREM ActiveUnlessRestarted ==
  Spec /\ [][~PlaneRestarts]_vars => []ActiveIsAdvertised
<1>1. Init => AdvertisedFirst
  BY DEF Init, AdvertisedFirst, Plane!Empty, BetweenHeartbeats, Answering, At
<1>2. AgentInv /\ AdvertisedFirst /\ [Next]_vars /\ [~PlaneRestarts]_vars
        => AdvertisedFirst'
  <2> SUFFICES ASSUME AgentInv, AdvertisedFirst, [Next]_vars, [~PlaneRestarts]_vars
               PROVE  AdvertisedFirst'
    OBVIOUS
  <2>1. CASE UNCHANGED vars
    BY <2>1 DEF vars, AdvertisedFirst, Known, BetweenHeartbeats, Answering, At
  <2>2. CASE ~PlaneRestarts
    BY <2>2, AdvertisedFirstStays
  <2> QED BY <2>1, <2>2
<1>3. AdvertisedFirst => ActiveIsAdvertised
  BY DEF AdvertisedFirst, ActiveIsAdvertised, Known
<1> QED BY InitInv, NextInv, <1>1, <1>2, <1>3, PTL DEF Spec
=============================================================================
