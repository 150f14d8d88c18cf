--------------------------- MODULE GlobalResolver ---------------------------
(***************************************************************************)
(* The live resolver (app/global_resolver.py, GlobalResolver): the table   *)
(* of nodes that advertise and heartbeat, its expiry, and the selection of *)
(* an execution target.  Its routes are synchronous handlers, so requests  *)
(* run in threads of the server's pool.  The lock covers each single       *)
(* change of the table and nothing else: what a handler reads before it    *)
(* takes the lock, and every read of resolve(), may be old when it is      *)
(* used, and events are emitted after the lock is released.                *)
(*                                                                         *)
(* Of the event list only the announcements of lapsed nodes are kept, as a *)
(* count.  history is what the reports of each node have been; no step     *)
(* depends on it but through the bound MaxReports.                         *)
(***************************************************************************)
EXTENDS Integers, Sequences, FiniteSets

CONSTANTS
  Workers,       \* threads of the pool
  Nodes,         \* canonical ids, declared or not
  Capabilities,  \* normalized capability ids
  Classes,       \* security classes; "mixed" suits every request
  Registries,    \* what the registry files may hold
  Queries,       \* what requests for a target ask for
  Offers,        \* what nodes advertise, sets of capabilities
  Reports,       \* healths that nodes report
  Capacities,    \* what int(...) makes of the capacity_score that nodes report
  Unreadable,    \* one that int() raises an error for
  None,          \* no live state, no security class, no resources, no target
  Ttl,           \* ttl_seconds of expire()
  MaxTime,       \* bound of the clock
  MaxReports     \* bounds on the reports of each node, those under way included

\* An item of nodes.yaml.
Declaration == [node: Nodes, caps: SUBSET Capabilities, local: BOOLEAN,
                class: Classes]

Query == [capability: Capabilities, class: (Classes \ {"mixed"}) \cup {None},
          prefer_local: BOOLEAN]

\* known is what capabilities.yaml lists; preferences are the runtime preferences
\* the routes give, which depend on a request's source and io_class.
Registry(r) ==
  /\ r.nodes \in Seq(Declaration)
  /\ \A i, j \in DOMAIN r.nodes : r.nodes[i].node = r.nodes[j].node => i = j
  /\ r.known \subseteq Capabilities
  /\ r.preferences \in [Capabilities -> SUBSET Seq(Nodes)]

ASSUME RegistriesValid == \A r \in Registries : Registry(r)
ASSUME QueriesValid == Queries \subseteq Query
ASSUME OffersValid == Offers \subseteq SUBSET Capabilities
ASSUME CapacitiesValid == Capacities \subseteq Int \cup {Unreadable} /\ Unreadable \notin Int
ASSUME TtlValid == Ttl \in Nat
ASSUME NoneIsNothing == None \notin Nodes /\ None \notin Classes
ASSUME WorkersFinite == IsFiniteSet(Workers)

VARIABLES
  now,        \* time.time()
  registry,   \* GlobalResolver._registries
  nodes,      \* GlobalResolver._nodes, None for a node it does not hold
  frame,      \* the handler each thread is in: the place and its locals
  announced,  \* estate.node.offline events per node
  history     \* of the reports of each node since the start

vars == <<now, registry, nodes, frame, announced, history>>

NodeState == [last_seen: Nat, health: Reports \cup {"offline"},
              caps: SUBSET Capabilities, capacity: Capacities \cup {0}]

ASSUME NoneIsNoState ==
  /\ None \notin NodeState
  /\ None \notin [age: Nat, health: Reports \cup {"offline"}, caps: SUBSET Capabilities]

\* reports counts the advertisements and heartbeats that took effect, stretches
\* those that found the node unknown or offline and left it otherwise; heard is
\* the latest time one was made at, health what the last one said, and overtaken
\* whether that was made before another that took effect earlier.
Unheard == [reports |-> 0, stretches |-> 0, heard |-> 0, health |-> None,
            overtaken |-> FALSE]

Idle == [at |-> "idle"]

\* All a new process has is what the registry files hold.
Fresh ==
  /\ registry' \in Registries
  /\ nodes' = [n \in Nodes |-> None]
  /\ frame' = [w \in Workers |-> Idle]
  /\ announced' = [n \in Nodes |-> 0]
  /\ history' = [n \in Nodes |-> Unheard]

Init ==
  /\ now = 0
  /\ registry \in Registries
  /\ nodes = [n \in Nodes |-> None]
  /\ frame = [w \in Workers |-> Idle]
  /\ announced = [n \in Nodes |-> 0]
  /\ history = [n \in Nodes |-> Unheard]

At(w, place) == frame[w].at = place
Goto(w, f) == frame' = [frame EXCEPT ![w] = f]
Return(w) == Goto(w, Idle)

Declares(r, n) == \E i \in DOMAIN r.nodes : r.nodes[i].node = n
DeclaredCaps(r, n) ==
  UNION {r.nodes[i].caps : i \in {j \in DOMAIN r.nodes : r.nodes[j].node = n}}

-----------------------------------------------------------------------------
(* advertise() and heartbeat()                                             *)

Reporting(n) ==
  {w \in Workers : (At(w, "store") \/ At(w, "update")) /\ frame[w].node = n}

MayReport(n) == history[n].reports + Cardinality(Reporting(n)) < MaxReports[n]

\* The new state of the node, its last_seen included, is built before the lock.
BeginAdvertise(w, n, caps, health, capacity) ==
  /\ At(w, "idle")
  /\ MayReport(n)
  /\ Declares(registry, n)
  /\ Goto(w, [at |-> "store", node |-> n,
              state |-> [last_seen |-> now, health |-> health,
                         caps |-> caps \cup DeclaredCaps(registry, n),
                         capacity |-> capacity]])
  /\ UNCHANGED <<now, registry, nodes, announced, history>>

OutOfReach(n) == IF nodes[n] = None THEN TRUE ELSE nodes[n].health = "offline"

TakesEffect(n, health, time) ==
  LET h == history[n] IN
  history' = [history EXCEPT ![n] =
    [reports |-> h.reports + 1,
     stretches |-> IF OutOfReach(n) /\ health # "offline" THEN h.stretches + 1
                   ELSE h.stretches,
     heard |-> IF time > h.heard THEN time ELSE h.heard,
     health |-> health,
     overtaken |-> time < h.heard]]

StoreAdvertised(w) ==
  /\ At(w, "store")
  /\ LET n == frame[w].node IN
     /\ nodes' = [nodes EXCEPT ![n] = frame[w].state]
     /\ TakesEffect(n, frame[w].state.health, frame[w].state.last_seen)
  /\ Return(w)
  /\ UNCHANGED <<now, registry, announced>>

BeginHeartbeat(w, n, health, capacity) ==
  /\ At(w, "idle")
  /\ MayReport(n)
  /\ Declares(registry, n)
  /\ Goto(w, [at |-> "update", node |-> n, health |-> health,
              capacity |-> capacity])
  /\ UNCHANGED <<now, registry, nodes, announced, history>>

\* Mutant: a heartbeat without resources erases those of the node.
RefreshedBlindly(live, health, capacity) ==
  [last_seen |-> now,
   health |-> health,
   caps |-> IF live = None THEN {} ELSE live.caps,
   capacity |-> capacity]

\* Mutant: every heartbeat builds the node's state anew, its capabilities lost.
RefreshedAnew(live, health, capacity) ==
  [last_seen |-> now,
   health |-> health,
   caps |-> {},
   capacity |-> IF capacity # None THEN capacity ELSE 0]

\* Mutant: a heartbeat sets last_seen only of a node it creates.
RefreshedKeepingTime(live, health, capacity) ==
  [last_seen |-> IF live = None THEN now ELSE live.last_seen,
   health |-> health,
   caps |-> IF live = None THEN {} ELSE live.caps,
   capacity |-> IF capacity # None THEN capacity
                ELSE IF live = None THEN 0 ELSE live.capacity]

Refreshed(live, health, capacity) ==
  [last_seen |-> now,
   health |-> health,
   caps |-> IF live = None THEN {} ELSE live.caps,
   capacity |-> IF capacity # None THEN capacity
                ELSE IF live = None THEN 0 ELSE live.capacity]

\* A node the table does not hold enters it without capabilities.
ApplyHeartbeat(w) ==
  /\ At(w, "update")
  /\ LET n == frame[w].node IN
     /\ nodes' = [nodes EXCEPT
                    ![n] = Refreshed(@, frame[w].health, frame[w].capacity)]
     /\ TakesEffect(n, frame[w].health, now)
  /\ Return(w)
  /\ UNCHANGED <<now, registry, announced>>

-----------------------------------------------------------------------------
(* topology(), the only caller of expire()                                 *)

BeginTopology(w) ==
  /\ At(w, "idle")
  /\ Goto(w, [at |-> "sweep", cutoff |-> now - Ttl])
  /\ UNCHANGED <<now, registry, nodes, announced, history>>

SweepOut(w, lapsed) ==
  /\ nodes' = [n \in Nodes |-> IF n \in lapsed
                               THEN [nodes[n] EXCEPT !.health = "offline"]
                               ELSE nodes[n]]
  /\ Goto(w, IF lapsed = {} THEN Idle
                            ELSE [at |-> "announce", lapsed |-> lapsed])
  /\ UNCHANGED <<now, registry, announced, history>>

Silent(n, cutoff) == nodes[n] # None /\ nodes[n].last_seen < cutoff

\* Mutant: a node that is offline already expires again.
SweepAgain(w) ==
  /\ At(w, "sweep")
  /\ SweepOut(w, {n \in Nodes : Silent(n, frame[w].cutoff)})

Sweep(w) ==
  /\ At(w, "sweep")
  /\ SweepOut(w, {n \in Nodes : /\ Silent(n, frame[w].cutoff)
                                /\ nodes[n].health # "offline"})

AnnounceLapse(w) ==
  /\ At(w, "announce")
  /\ \E n \in frame[w].lapsed :
       /\ announced' = [announced EXCEPT ![n] = @ + 1]
       /\ Goto(w, IF frame[w].lapsed = {n} THEN Idle
                  ELSE [at |-> "announce", lapsed |-> frame[w].lapsed \ {n}])
  /\ UNCHANGED <<now, registry, nodes, history>>

-----------------------------------------------------------------------------
(* resolve()                                                               *)

\* The capability is looked up first.  began is a history field.
BeginResolve(w, query) ==
  /\ At(w, "idle")
  /\ query.capability \in registry.known
  /\ Goto(w, [at |-> "route", began |-> now, query |-> query])
  /\ UNCHANGED <<now, registry, nodes, announced, history>>

\* Its routes are read next, and nodes.yaml last, each perhaps after a reload.
ReadRoutes(w) ==
  /\ At(w, "route")
  /\ \E preference \in registry.preferences[frame[w].query.capability] :
       Goto(w, [at |-> "index", began |-> frame[w].began, query |-> frame[w].query,
                preference |-> preference])
  /\ UNCHANGED <<now, registry, nodes, announced, history>>

IndexNodes(w) ==
  /\ At(w, "index")
  /\ Goto(w, [at |-> "consider", began |-> frame[w].began,
              query |-> frame[w].query, preference |-> frame[w].preference,
              todo |-> registry.nodes, seen |-> <<>>])
  /\ UNCHANGED <<now, registry, nodes, announced, history>>

Health(live) == IF live = None THEN "undiscovered" ELSE live.health

Eligible(declaration, live, query) ==
  /\ \/ query.capability \in declaration.caps
     \/ live # None /\ query.capability \in live.caps
  /\ query.class # None => declaration.class \in {query.class, "mixed"}
  /\ Health(live) \notin {"offline", "failed"}

\* Mutant: every preferred node has a hundred points more.
SteepBonus(preference, n) ==
  IF \E i \in DOMAIN preference : preference[i] = n THEN 100 ELSE 0

\* The first of the preferred nodes has 50 points more, each other five less
\* than the one before it, and none less than one.
Bonus(preference, n) ==
  LET places == {i \in DOMAIN preference : preference[i] = n}
      points == {50 - (i - 1) * 5 : i \in places}
  IN IF places = {} THEN 0
     ELSE CHOOSE p \in points \cup {1} : \A q \in points \cup {1} : q <= p

Capacity(live) == IF live = None THEN 0 ELSE live.capacity

Score(live, preference, n) ==
  (IF Health(live) = "online" THEN 100 ELSE 25) + Bonus(preference, n) + Capacity(live)

\* int() raises an error for the capacity of an eligible node.
Raises(declaration, live, query) ==
  Eligible(declaration, live, query) /\ Capacity(live) = Unreadable

\* One turn of the loop of _candidate_nodes(): the node's live state is read
\* without the lock.  heard and capacity are history fields.
Consider(w) ==
  /\ At(w, "consider")
  /\ frame[w].todo # <<>>
  /\ LET f == frame[w]
         declaration == Head(f.todo)
         n == declaration.node
         candidate == [node |-> n, health |-> Health(nodes[n]),
                       heard |-> nodes[n] # None, capacity |-> Capacity(nodes[n]),
                       score |-> Score(nodes[n], f.preference, n),
                       local |-> declaration.local]
     IN /\ ~Raises(declaration, nodes[n], f.query)
        /\ Goto(w, [f EXCEPT !.todo = Tail(@),
                             !.seen = IF Eligible(declaration, nodes[n], f.query)
                                      THEN Append(@, candidate) ELSE @])
  /\ UNCHANGED <<now, registry, nodes, announced, history>>

\* One such node fails the whole request.
FailResolve(w) ==
  /\ At(w, "consider")
  /\ frame[w].todo # <<>>
  /\ LET declaration == Head(frame[w].todo)
     IN Raises(declaration, nodes[declaration.node], frame[w].query)
  /\ Return(w)
  /\ UNCHANGED <<now, registry, nodes, announced, history>>

Precedes(query, a, b) ==
  IF query.prefer_local /\ a.local # b.local THEN a.local ELSE a.score > b.score

\* The first element of the stable sort.
Selected(query, seen) ==
  IF seen = <<>> THEN None
  ELSE seen[CHOOSE i \in DOMAIN seen : \A j \in DOMAIN seen :
              /\ ~Precedes(query, seen[j], seen[i])
              /\ j < i => Precedes(query, seen[i], seen[j])]

Select(w) ==
  /\ At(w, "consider")
  /\ frame[w].todo = <<>>
  /\ Goto(w, [at |-> "answer", began |-> frame[w].began,
              query |-> frame[w].query, seen |-> frame[w].seen,
              selected |-> Selected(frame[w].query, frame[w].seen)])
  /\ UNCHANGED <<now, registry, nodes, announced, history>>

\* The resolution is recorded as an event and returned.
Answer(w) ==
  /\ At(w, "answer")
  /\ Return(w)
  /\ UNCHANGED <<now, registry, nodes, announced, history>>

-----------------------------------------------------------------------------
\* reload() swaps the registries under the lock and validates them afterwards:
\* an invalid one is reported, not refused.
Reload(w) ==
  /\ At(w, "idle")
  /\ registry' \in Registries
  /\ UNCHANGED <<now, nodes, frame, announced, history>>

\* The process dies with the table, the events and the requests under way.
Restart == Fresh /\ UNCHANGED now

Tick ==
  /\ now < MaxTime
  /\ now' = now + 1
  /\ UNCHANGED <<registry, nodes, frame, announced, history>>

Request(w) ==
  \/ \E n \in Nodes, caps \in Offers, health \in Reports,
        capacity \in Capacities : BeginAdvertise(w, n, caps, health, capacity)
  \/ \E n \in Nodes, health \in Reports, capacity \in Capacities \cup {None} :
       BeginHeartbeat(w, n, health, capacity)
  \/ BeginTopology(w)
  \/ \E query \in Queries : BeginResolve(w, query)
  \/ Reload(w)

Handle(w) ==
  \/ StoreAdvertised(w)
  \/ ApplyHeartbeat(w)
  \/ Sweep(w)
  \/ AnnounceLapse(w)
  \/ ReadRoutes(w)
  \/ IndexNodes(w)
  \/ Consider(w)
  \/ FailResolve(w)
  \/ Select(w)
  \/ Answer(w)

Next == Tick \/ Restart \/ \E w \in Workers : Request(w) \/ Handle(w)

Spec == Init /\ [][Next]_vars

-----------------------------------------------------------------------------
(* Properties                                                              *)

Candidate == [node: Nodes, health: Reports \cup {"undiscovered"}, heard: BOOLEAN,
              capacity: Int, score: Int, local: BOOLEAN]

Frame ==
  {Idle}
  \cup [at: {"store"}, node: Nodes, state: NodeState]
  \cup [at: {"update"}, node: Nodes, health: Reports,
        capacity: Capacities \cup {None}]
  \cup [at: {"sweep"}, cutoff: Int]
  \cup [at: {"announce"}, lapsed: SUBSET Nodes]
  \cup [at: {"route"}, began: Nat, query: Queries]
  \cup [at: {"index"}, began: Nat, query: Queries, preference: Seq(Nodes)]
  \cup [at: {"consider"}, began: Nat, query: Queries, preference: Seq(Nodes),
        todo: Seq(Declaration), seen: Seq(Candidate)]
  \cup [at: {"answer"}, began: Nat, query: Queries, seen: Seq(Candidate),
        selected: Candidate \cup {None}]

History == [reports: Nat, stretches: Nat, heard: Nat, health: Reports \cup {None},
            overtaken: BOOLEAN]

\* Every variable stays in its domain; the table holds only nodes that some
\* registry declared.
TypeOK ==
  /\ now \in Nat
  /\ registry \in Registries
  /\ nodes \in [Nodes -> NodeState \cup {None}]
  /\ frame \in [Workers -> Frame]
  /\ announced \in [Nodes -> Nat]
  /\ history \in [Nodes -> History]
  /\ \A n \in Nodes :
       nodes[n] # None => \E r \in Registries : Declares(r, n)

\* The resolver takes nobody for offline who was heard of within the TTL, however
\* sweeps race with reports: a node is offline because its last report said so,
\* because no report of it was made within the TTL, or because the last one that
\* took effect was an advertisement overtaken by a later report.
OfflineIsSilent ==
  \A n \in Nodes :
    nodes[n] # None =>
      \/ nodes[n].health \in {history[n].health} \ {"offline"}
      \/ nodes[n].health = "offline" /\ \/ history[n].health = "offline"
                                        \/ history[n].heard < now - Ttl
                                        \/ history[n].overtaken

Announcing(n) == {w \in Workers : At(w, "announce") /\ n \in frame[w].lapsed}

\* Each silence of a node is announced at most once, however many topology
\* requests notice it at the same time: there are never more announcements, made
\* and about to be made, than times the node was brought back within reach.
LapseAnnouncedOnce ==
  \A n \in Nodes : announced[n] + Cardinality(Announcing(n)) <= history[n].stretches

\* Why it holds: a node within reach has a silence left to be announced.
LapseInv ==
  \A n \in Nodes :
    announced[n] + Cardinality(Announcing(n)) <=
      IF OutOfReach(n) THEN history[n].stretches ELSE history[n].stretches - 1

\* However strongly a route prefers it, a node nobody has heard of is selected
\* over one that is online, unless that one's own capacity_score is -25 or less,
\* only because it is local and the request asks for that: the points for being
\* online outweigh every preference, and less than 25 points more.
DiscoveredPreferred ==
  \A w \in Workers : At(w, "answer") =>
    LET f == frame[w] IN
    \A i \in DOMAIN f.seen :
      f.seen[i].health = "online" /\ f.seen[i].capacity > -25 /\ ~f.selected.heard =>
        f.query.prefer_local /\ f.selected.local /\ ~f.seen[i].local

\* LIVE_RESOLVER.md: heartbeat state expires to offline when its TTL is
\* exceeded: a node selected as online was heard of within the TTL when the
\* request began, or later.
SelectedIsFresh ==
  \A w \in Workers : At(w, "answer") =>
    LET f == frame[w] IN
    f.selected # None /\ f.selected.health = "online" =>
      nodes[f.selected.node].last_seen >= f.began - Ttl

\* The table promises what NodeTable says, though its handlers read the clock
\* before they lock it and its sweeps compare with a cutoff that has grown old.
TableView == INSTANCE NodeTable WITH
  Offers <- {caps \cup DeclaredCaps(r, n) :
               caps \in Offers, r \in Registries, n \in Nodes},
  table <- [n \in Nodes |->
             IF nodes[n] = None THEN None
             ELSE [age |-> IF now - nodes[n].last_seen > Ttl THEN Ttl + 1
                           ELSE now - nodes[n].last_seen,
                   health |-> nodes[n].health,
                   caps |-> nodes[n].caps]]

ImplementsNodeTable == TableView!Spec

=============================================================================
