------------------------ MODULE GlobalResolver_proofs ------------------------
(***************************************************************************)
(* Theorems about the live resolver for any nodes, registries, requests    *)
(* and threads: type correctness, who is taken for offline, how often that *)
(* is announced, whom a request is sent to, and that the table of nodes is *)
(* the one NodeTable promises.                                             *)
(***************************************************************************)
EXTENDS GlobalResolver, FiniteSetTheorems, WellFoundedInduction, TLAPS

-----------------------------------------------------------------------------
(* Numbers                                                                 *)

\* The least-number principle, from which the inductions below are made: a
\* statement about numbers that fails somewhere has a first place to fail.
LEMMA LeastNumber ==
  ASSUME NEW T \in SUBSET Nat, T # {}
  PROVE  \E x \in T : \A y \in T : x <= y
<1> DEFINE R == {p \in Nat \X Nat : p[1] < p[2]}
<1>1. IsWellFoundedOn(R, Nat)
  BY NatLessThanWellFounded DEF OpToRel
<1>2. PICK x \in T : \A y \in T : <<y, x>> \notin R
  <2> HIDE DEF R
  <2> QED BY <1>1, WFMin
<1>3. \A y \in T : ~(y < x)
  BY <1>2
<1> QED BY <1>3

\* The points of a preference lie between none and fifty: the largest of the
\* candidates exists, since the first place of the node does.
LEMMA BonusBounds ==
  ASSUME NEW preference \in Seq(Nodes), NEW n
  PROVE  Bonus(preference, n) \in 0 .. 50
<1> DEFINE places == {i \in DOMAIN preference : preference[i] = n}
           points == {50 - (i - 1) * 5 : i \in places}
           Largest(p) == p \in points \cup {1} /\ \A q \in points \cup {1} : q <= p
<1>1. CASE places = {}
  BY <1>1 DEF Bonus
<1>2. CASE places # {}
  <2>1. places \subseteq Nat /\ \A i \in places : i >= 1
    OBVIOUS
  <2>2. PICK first \in places : \A i \in places : first <= i
    BY <1>2, <2>1, LeastNumber
  <2>3. first \in Nat /\ first >= 1
    BY <2>1, <2>2
  <2>4. \A q \in points : q <= 50 - (first - 1) * 5
    BY <2>1, <2>2, <2>3
  <2>5. \E p : Largest(p)
    <3>1. CASE 50 - (first - 1) * 5 >= 1
      <4>1. Largest(50 - (first - 1) * 5)
        BY <2>3, <2>4, <3>1
      <4> QED BY <4>1
    <3>2. CASE 50 - (first - 1) * 5 < 1
      <4>1. \A q \in points : q \in Int
        BY <2>1
      <4>2. Largest(1)
        BY <2>3, <2>4, <3>2, <4>1
      <4> QED BY <4>2
    <3> QED BY <2>3, <3>1, <3>2
  <2>6. \A p \in points \cup {1} : p \in Int /\ p <= 50
    BY <2>1
  <2>7. Bonus(preference, n) = CHOOSE p \in points \cup {1} : \A q \in points \cup {1} : q <= p
    BY <1>2 DEF Bonus
  <2>8. Bonus(preference, n) \in points \cup {1} /\ 1 <= Bonus(preference, n)
    <3> HIDE DEF points
    <3> QED BY <2>5, <2>7
  <2>9. Bonus(preference, n) \in Int /\ Bonus(preference, n) <= 50
    BY ONLY <2>6, <2>8
  <2>10. 1 <= Bonus(preference, n)
    BY ONLY <2>8
  <2>11. \A b \in Int : 1 <= b /\ b <= 50 => b \in 0 .. 50
    OBVIOUS
  <2> QED BY ONLY <2>9, <2>10, <2>11
<1> QED BY <1>1, <1>2

LEMMA RegistryFacts ==
  ASSUME NEW r \in Registries
  PROVE  /\ r.nodes \in Seq(Declaration)
         /\ \A k \in Capabilities : r.preferences[k] \subseteq Seq(Nodes)
         /\ \A n \in Nodes : DeclaredCaps(r, n) \subseteq Capabilities
<1>1. Registry(r)
  BY RegistriesValid
<1>2. r.nodes \in Seq(Declaration)
  BY <1>1 DEF Registry
<1>3. ASSUME NEW i \in DOMAIN r.nodes PROVE r.nodes[i].caps \subseteq Capabilities
  <2>1. r.nodes[i] \in Declaration
    BY <1>2
  <2> QED BY <2>1 DEF Declaration
<1> QED BY <1>1, <1>2, <1>3 DEF Registry, DeclaredCaps

-----------------------------------------------------------------------------
(* The sort                                                                *)

\* Precedes orders candidates strictly and weakly.
LEMMA PrecedesWeakly ==
  ASSUME NEW query \in Queries, NEW a \in Candidate, NEW b \in Candidate, NEW c \in Candidate
  PROVE  /\ ~Precedes(query, a, a)
         /\ Precedes(query, a, b) => ~Precedes(query, b, a)
         /\ Precedes(query, a, b) /\ ~Precedes(query, c, b) =>
              Precedes(query, a, c) /\ ~Precedes(query, c, a)
<1>1. /\ a.score \in Int /\ b.score \in Int /\ c.score \in Int
      /\ a.local \in BOOLEAN /\ b.local \in BOOLEAN /\ c.local \in BOOLEAN
  BY DEF Candidate
<1> QED BY <1>1 DEF Precedes

LEMMA CandidateAt ==
  ASSUME NEW seen \in Seq(Candidate), NEW i \in DOMAIN seen
  PROVE  seen[i] \in Candidate
OBVIOUS

\* The first element of the sorted list exists, whatever was seen.
LEMMA SelectedIsFirst ==
  ASSUME NEW query \in Queries, NEW seen \in Seq(Candidate), seen # <<>>
  PROVE  /\ Selected(query, seen) \in Candidate
         /\ \E k \in DOMAIN seen : Selected(query, seen) = seen[k]
         /\ \A j \in DOMAIN seen : ~Precedes(query, seen[j], Selected(query, seen))
<1> DEFINE First(i, k) == /\ i \in 1 .. k
                          /\ \A j \in 1 .. k :
                               /\ ~Precedes(query, seen[j], seen[i])
                               /\ j < i => Precedes(query, seen[i], seen[j])
           Failing == {k \in 1 .. Len(seen) : \A i \in 1 .. k : ~First(i, k)}
<1>1. Len(seen) \in Nat /\ Len(seen) >= 1 /\ DOMAIN seen = 1 .. Len(seen)
  OBVIOUS
<1>2. Failing = {}
  <2> SUFFICES ASSUME Failing # {} PROVE FALSE
    OBVIOUS
  <2>1. Failing \subseteq Nat
    BY <1>1
  <2>2. PICK m \in Failing : \A k \in Failing : m <= k
    <3> HIDE DEF Failing
    <3> QED BY <2>1, LeastNumber
  <2>3. m \in 1 .. Len(seen) /\ \A i \in 1 .. m : ~First(i, m)
    BY <2>2
  <2>4. seen[m] \in Candidate
    BY <1>1, <2>3, CandidateAt
  <2>5. m # 1
    <3> SUFFICES ASSUME m = 1 PROVE FALSE
      OBVIOUS
    <3>1. First(1, 1)
      BY <2>4, PrecedesWeakly
    <3> QED BY <2>3, <3>1
  <2>6. m - 1 \in 1 .. Len(seen) /\ m - 1 \notin Failing
    <3>1. m \in Nat /\ Len(seen) \in Nat
      BY <1>1, <2>1, <2>2
    <3>2. m - 1 \in 1 .. Len(seen) /\ ~(m <= m - 1)
      BY <2>3, <2>5, <3>1
    <3> HIDE DEF Failing
    <3> QED BY <2>2, <3>2
  <2>7. PICK i \in 1 .. m - 1 : First(i, m - 1)
    BY <2>6
  <2>8. i \in DOMAIN seen /\ seen[i] \in Candidate
    BY <1>1, <2>3, <2>7, CandidateAt
  <2>9. \A j \in 1 .. m : j \in 1 .. m - 1 \/ j = m
    BY <1>1, <2>3
  <2>10. CASE Precedes(query, seen[m], seen[i])
    <3>1. ASSUME NEW j \in 1 .. m
          PROVE  ~Precedes(query, seen[j], seen[m]) /\ (j < m => Precedes(query, seen[m], seen[j]))
      <4>1. CASE j = m
        BY <4>1, <2>4, PrecedesWeakly, <2>3
      <4>2. CASE j \in 1 .. m - 1
        <5>1. ~Precedes(query, seen[j], seen[i])
          BY <2>7, <4>2
        <5>2. seen[j] \in Candidate
          BY <1>1, <2>3, CandidateAt
        <5> QED BY <2>4, <2>8, <2>10, <5>1, <5>2, PrecedesWeakly
      <4> QED BY <2>9, <4>1, <4>2
    <3>2. First(m, m)
      BY <3>1, <2>3, <1>1
    <3> QED BY <2>3, <3>2, <1>1
  <2>11. CASE ~Precedes(query, seen[m], seen[i])
    <3>1. i \in 1 .. m /\ ~(m < i)
      BY <1>1, <2>3, <2>7
    <3>2. First(i, m)
      BY <2>7, <2>9, <2>11, <3>1
    <3> QED BY <2>3, <3>1, <3>2
  <2> QED BY <2>10, <2>11
<1>3. \E i \in DOMAIN seen : \A j \in DOMAIN seen :
        /\ ~Precedes(query, seen[j], seen[i])
        /\ j < i => Precedes(query, seen[i], seen[j])
  <2>1. Len(seen) \in 1 .. Len(seen) /\ Len(seen) \notin Failing
    BY <1>1, <1>2
  <2>2. PICK i \in 1 .. Len(seen) : First(i, Len(seen))
    BY <2>1
  <2> QED BY <1>1, <2>2
<1> DEFINE chosen == CHOOSE i \in DOMAIN seen : \A j \in DOMAIN seen :
                       /\ ~Precedes(query, seen[j], seen[i])
                       /\ j < i => Precedes(query, seen[i], seen[j])
<1>4. /\ chosen \in DOMAIN seen
      /\ \A j \in DOMAIN seen : ~Precedes(query, seen[j], seen[chosen])
  BY <1>3
<1>5. Selected(query, seen) = seen[chosen]
  BY DEF Selected
<1> HIDE DEF chosen
<1> QED BY <1>4, <1>5, CandidateAt

-----------------------------------------------------------------------------
(* The inductive invariant                                                 *)

Known(n) == \E r \in Registries : Declares(r, n)

\* What an advertisement of n leaves it with.
Advertised(n, caps) == \E c \in Offers, r \in Registries : caps = c \cup DeclaredCaps(r, n)

\* Whoever is online has a hundred points beside its own, and whoever was never
\* heard of at most 75.
ScoresApart(seen) ==
  \A i \in DOMAIN seen :
    /\ seen[i].health = "online" => seen[i].score >= 100 + seen[i].capacity
    /\ ~seen[i].heard => seen[i].score <= 75

\* What a handler holds is not from the future, and of nodes that are declared.
FrameOK(f) ==
  /\ f.at \in {"store", "update"} => Known(f.node)
  /\ f.at = "store" => /\ f.state.last_seen <= now /\ f.state.health \in Reports
                       /\ Advertised(f.node, f.state.caps)
  /\ f.at = "sweep" => f.cutoff <= now - Ttl
  /\ f.at \in {"consider", "answer"} => ScoresApart(f.seen)
  /\ f.at = "answer" => f.selected = Selected(f.query, f.seen)

\* Unless its last report was overtaken, an entry has the time its node was last
\* heard of.
EntryOK(n) ==
  nodes[n] # None =>
    /\ nodes[n].last_seen <= now
    /\ history[n].overtaken \/ nodes[n].last_seen = history[n].heard

EntriesOK == \A n \in Nodes : EntryOK(n)

ResolverInv ==
  /\ TypeOK
  /\ \A w \in Workers : FrameOK(frame[w])
  /\ EntriesOK
  /\ OfflineIsSilent

-----------------------------------------------------------------------------
(* Frames                                                                  *)

LEMMA PlaceOfFrame ==
  ASSUME NEW f \in Frame
  PROVE  /\ f.at = "store" => f \in [at: {"store"}, node: Nodes, state: NodeState]
         /\ f.at = "update" => f \in [at: {"update"}, node: Nodes, health: Reports,
                                      capacity: Capacities \cup {None}]
         /\ f.at = "sweep" => f \in [at: {"sweep"}, cutoff: Int]
         /\ f.at = "announce" => f \in [at: {"announce"}, lapsed: SUBSET Nodes]
         /\ f.at = "route" => f \in [at: {"route"}, began: Nat, query: Queries]
         /\ f.at = "index" => f \in [at: {"index"}, began: Nat, query: Queries,
                                     preference: Seq(Nodes)]
         /\ f.at = "consider" => f \in [at: {"consider"}, began: Nat, query: Queries,
                                        preference: Seq(Nodes), todo: Seq(Declaration),
                                        seen: Seq(Candidate)]
         /\ f.at = "answer" => f \in [at: {"answer"}, began: Nat, query: Queries,
                                      seen: Seq(Candidate), selected: Candidate \cup {None}]
BY DEF Frame, Idle

\* A step that moves one thread and touches nothing else.
LEMMA OnlyFrame ==
  ASSUME ResolverInv, NEW w \in Workers, NEW f \in Frame, FrameOK(f), Goto(w, f),
         UNCHANGED <<now, registry, nodes, announced, history>>
  PROVE  ResolverInv'
<1> USE DEF ResolverInv
<1>1. frame' \in [Workers -> Frame] /\ frame' = [frame EXCEPT ![w] = f]
  BY DEF Goto, TypeOK
<1>2. TypeOK'
  BY <1>1 DEF TypeOK
<1>3. \A v \in Workers : frame'[v] = f \/ frame'[v] = frame[v]
  BY <1>1 DEF TypeOK
<1>4. \A g : FrameOK(g) => FrameOK(g)'
  BY DEF FrameOK, Known, Advertised, ScoresApart
<1>5. \A v \in Workers : FrameOK(frame[v])'
  BY <1>3, <1>4
<1>6. EntriesOK' /\ OfflineIsSilent'
  BY DEF EntriesOK, EntryOK, OfflineIsSilent
<1> QED BY <1>2, <1>5, <1>6

LEMMA IdleFrame == Idle \in Frame /\ FrameOK(Idle)
BY DEF Idle, Frame, FrameOK

LEMMA DeclaredIsKnown ==
  ASSUME TypeOK, NEW n, Declares(registry, n)
  PROVE  Known(n)
BY DEF TypeOK, Known

-----------------------------------------------------------------------------
(* Steps that only read the table                                          *)

LEMMA BeginAdvertiseInv ==
  ASSUME ResolverInv, NEW w \in Workers, NEW n \in Nodes, NEW caps \in Offers,
         NEW health \in Reports, NEW capacity \in Capacities,
         BeginAdvertise(w, n, caps, health, capacity)
  PROVE  ResolverInv'
<1> DEFINE state == [last_seen |-> now, health |-> health,
                     caps |-> caps \cup DeclaredCaps(registry, n), capacity |-> capacity]
           f == [at |-> "store", node |-> n, state |-> state]
<1>1. registry \in Registries /\ now \in Nat /\ TypeOK
  BY DEF ResolverInv, TypeOK
<1>2. caps \cup DeclaredCaps(registry, n) \subseteq Capabilities
  BY <1>1, OffersValid, RegistryFacts
<1>3. state \in NodeState
  BY <1>1, <1>2 DEF NodeState
<1>4. f \in Frame
  BY <1>3 DEF Frame
<1>5. Known(n) /\ Advertised(n, caps \cup DeclaredCaps(registry, n))
  BY <1>1, DeclaredIsKnown DEF BeginAdvertise, Advertised
<1>6. FrameOK(f)
  <2>1. /\ f.at = "store" /\ f.node = n /\ f.state.last_seen = now
        /\ f.state.health = health /\ f.state.caps = caps \cup DeclaredCaps(registry, n)
    OBVIOUS
  <2> HIDE DEF f
  <2> QED BY <1>1, <1>5, <2>1 DEF FrameOK
<1>7. Goto(w, f) /\ UNCHANGED <<now, registry, nodes, announced, history>>
  BY DEF BeginAdvertise
<1> HIDE DEF f
<1> QED BY <1>4, <1>6, <1>7, OnlyFrame

LEMMA BeginHeartbeatInv ==
  ASSUME ResolverInv, NEW w \in Workers, NEW n \in Nodes, NEW health \in Reports,
         NEW capacity \in Capacities \cup {None}, BeginHeartbeat(w, n, health, capacity)
  PROVE  ResolverInv'
<1> DEFINE f == [at |-> "update", node |-> n, health |-> health, capacity |-> capacity]
<1>1. f \in Frame
  BY DEF Frame
<1>2. FrameOK(f)
  BY DeclaredIsKnown DEF FrameOK, BeginHeartbeat, ResolverInv
<1>3. Goto(w, f) /\ UNCHANGED <<now, registry, nodes, announced, history>>
  BY DEF BeginHeartbeat
<1> HIDE DEF f
<1> QED BY <1>1, <1>2, <1>3, OnlyFrame

LEMMA BeginTopologyInv ==
  ASSUME ResolverInv, NEW w \in Workers, BeginTopology(w)
  PROVE  ResolverInv'
<1> DEFINE f == [at |-> "sweep", cutoff |-> now - Ttl]
<1>1. now - Ttl \in Int
  BY TtlValid DEF ResolverInv, TypeOK
<1>2. f \in Frame
  BY <1>1 DEF Frame
<1>3. FrameOK(f)
  BY <1>1 DEF FrameOK
<1>4. Goto(w, f) /\ UNCHANGED <<now, registry, nodes, announced, history>>
  BY DEF BeginTopology
<1> HIDE DEF f
<1> QED BY <1>2, <1>3, <1>4, OnlyFrame

LEMMA BeginResolveInv ==
  ASSUME ResolverInv, NEW w \in Workers, NEW query \in Queries, BeginResolve(w, query)
  PROVE  ResolverInv'
<1> DEFINE f == [at |-> "route", began |-> now, query |-> query]
<1>1. f \in Frame
  BY DEF Frame, ResolverInv, TypeOK
<1>2. FrameOK(f)
  BY DEF FrameOK
<1>3. Goto(w, f) /\ UNCHANGED <<now, registry, nodes, announced, history>>
  BY DEF BeginResolve
<1> HIDE DEF f
<1> QED BY <1>1, <1>2, <1>3, OnlyFrame

LEMMA ReadRoutesInv ==
  ASSUME ResolverInv, NEW w \in Workers, ReadRoutes(w)
  PROVE  ResolverInv'
<1>1. frame[w] \in Frame /\ registry \in Registries
  BY DEF ResolverInv, TypeOK
<1>2. frame[w].began \in Nat /\ frame[w].query \in Queries
  BY <1>1, PlaceOfFrame DEF ReadRoutes, At
<1>3. frame[w].query.capability \in Capabilities
  BY <1>2, QueriesValid DEF Query
<1>4. PICK preference \in registry.preferences[frame[w].query.capability] :
        Goto(w, [at |-> "index", began |-> frame[w].began, query |-> frame[w].query,
                 preference |-> preference])
  BY DEF ReadRoutes
<1>5. preference \in Seq(Nodes)
  BY <1>1, <1>3, <1>4, RegistryFacts
<1> DEFINE f == [at |-> "index", began |-> frame[w].began, query |-> frame[w].query,
                 preference |-> preference]
<1>6. f \in Frame
  BY <1>2, <1>5 DEF Frame
<1>7. FrameOK(f)
  BY DEF FrameOK
<1>8. Goto(w, f) /\ UNCHANGED <<now, registry, nodes, announced, history>>
  BY <1>4 DEF ReadRoutes
<1> HIDE DEF f
<1> QED BY <1>6, <1>7, <1>8, OnlyFrame

LEMMA IndexNodesInv ==
  ASSUME ResolverInv, NEW w \in Workers, IndexNodes(w)
  PROVE  ResolverInv'
<1>1. frame[w] \in Frame /\ registry \in Registries
  BY DEF ResolverInv, TypeOK
<1>2. frame[w].began \in Nat /\ frame[w].query \in Queries /\ frame[w].preference \in Seq(Nodes)
  BY <1>1, PlaceOfFrame DEF IndexNodes, At
<1>3. registry.nodes \in Seq(Declaration)
  BY <1>1, RegistryFacts
<1> DEFINE f == [at |-> "consider", began |-> frame[w].began, query |-> frame[w].query,
                 preference |-> frame[w].preference, todo |-> registry.nodes, seen |-> <<>>]
<1>4. f \in Frame
  BY <1>2, <1>3 DEF Frame
<1>5. FrameOK(f)
  BY DEF FrameOK, ScoresApart
<1>6. Goto(w, f) /\ UNCHANGED <<now, registry, nodes, announced, history>>
  BY DEF IndexNodes
<1> HIDE DEF f
<1> QED BY <1>4, <1>5, <1>6, OnlyFrame

\* The points of a node that may be selected.
LEMMA ScoreOf ==
  ASSUME NEW live \in NodeState \cup {None}, NEW preference \in Seq(Nodes), NEW n,
         Health(live) # "offline", Capacity(live) # Unreadable
  PROVE  /\ Health(live) \in Reports \cup {"undiscovered"}
         /\ Capacity(live) \in Int /\ Score(live, preference, n) \in Int
         /\ Health(live) = "online" => Score(live, preference, n) >= 100 + Capacity(live)
         /\ live = None => Score(live, preference, n) <= 75
<1>1. Bonus(preference, n) \in 0 .. 50
  BY BonusBounds
<1>2. PICK bonus \in 0 .. 50 : bonus = Bonus(preference, n)
  BY <1>1
<1>3. Capacity(live) \in Int
  <2>1. CASE live = None
    BY <2>1 DEF Capacity
  <2>2. CASE live # None
    <3>1. Capacity(live) \in Capacities \cup {0}
      BY <2>2 DEF Capacity, NodeState
    <3>2. Capacity(live) \in Int \cup {Unreadable}
      <4>1. Capacities \cup {0} \subseteq Int \cup {Unreadable}
        BY CapacitiesValid
      <4> QED BY <3>1, <4>1
    <3> QED BY <3>2
  <2> QED BY <2>1, <2>2
<1>4. PICK capacity \in Int : capacity = Capacity(live)
  BY <1>3
<1>5. Score(live, preference, n) = (IF Health(live) = "online" THEN 100 ELSE 25) + bonus + capacity
  BY <1>2, <1>4 DEF Score
<1>6. live = None => Health(live) = "undiscovered" /\ capacity = 0
  BY <1>4 DEF Health, Capacity
<1>7. Health(live) \in Reports \cup {"undiscovered"}
  BY DEF Health, NodeState
<1>8. CASE Health(live) = "online"
  <2>1. Score(live, preference, n) = 100 + bonus + capacity
    BY <1>5, <1>8
  <2>2. live # None
    BY <1>6, <1>8
  <2> QED BY <1>4, <1>7, <2>1, <2>2
<1>9. CASE Health(live) # "online"
  <2>1. Score(live, preference, n) = 25 + bonus + capacity
    BY <1>5, <1>9
  <2>2. Score(live, preference, n) \in Int
    BY <2>1
  <2>3. live = None => Score(live, preference, n) <= 75
    BY <1>6, <2>1
  <2> QED BY <1>3, <1>7, <1>9, <2>2, <2>3
<1> QED BY <1>8, <1>9

LEMMA ConsiderInv ==
  ASSUME ResolverInv, NEW w \in Workers, Consider(w)
  PROVE  ResolverInv'
<1> DEFINE g == frame[w]
           declaration == Head(g.todo)
           n == declaration.node
           candidate == [node |-> n, health |-> Health(nodes[n]),
                         heard |-> nodes[n] # None, capacity |-> Capacity(nodes[n]),
                         score |-> Score(nodes[n], g.preference, n),
                         local |-> declaration.local]
           ok == Eligible(declaration, nodes[n], g.query)
           f == [g EXCEPT !.todo = Tail(g.todo),
                          !.seen = IF ok THEN Append(g.seen, candidate) ELSE g.seen]
<1>1. g \in [at: {"consider"}, began: Nat, query: Queries, preference: Seq(Nodes),
            todo: Seq(Declaration), seen: Seq(Candidate)]
  BY PlaceOfFrame DEF Consider, At, ResolverInv, TypeOK
<1>2. g.todo \in Seq(Declaration) /\ g.todo # <<>> /\ g.preference \in Seq(Nodes)
      /\ g.seen \in Seq(Candidate) /\ ScoresApart(g.seen)
  BY <1>1 DEF Consider, ResolverInv, FrameOK
<1>3. declaration \in Declaration /\ Tail(g.todo) \in Seq(Declaration)
  BY <1>2
<1>4. n \in Nodes /\ declaration.local \in BOOLEAN
  BY <1>3 DEF Declaration
<1>5. nodes[n] \in NodeState \cup {None}
  BY <1>4 DEF ResolverInv, TypeOK
<1>6. Goto(w, f) /\ UNCHANGED <<now, registry, nodes, announced, history>>
  BY DEF Consider
<1> DEFINE seen == IF ok THEN Append(g.seen, candidate) ELSE g.seen
<1>7. seen \in Seq(Candidate) /\ ScoresApart(seen)
  <2>1. CASE ~ok
    BY <1>2, <2>1
  <2>2. CASE ok
    <3>1. Health(nodes[n]) # "offline" /\ Capacity(nodes[n]) # Unreadable
      BY <2>2 DEF Eligible, Consider, Raises
    <3>2. /\ Health(nodes[n]) \in Reports \cup {"undiscovered"}
          /\ Capacity(nodes[n]) \in Int /\ Score(nodes[n], g.preference, n) \in Int
          /\ Health(nodes[n]) = "online" =>
               Score(nodes[n], g.preference, n) >= 100 + Capacity(nodes[n])
          /\ nodes[n] = None => Score(nodes[n], g.preference, n) <= 75
      BY <1>2, <1>5, <3>1, ScoreOf
    <3>3. candidate \in Candidate
      BY <1>4, <3>2 DEF Candidate
    <3>4. /\ candidate.health = "online" => candidate.score >= 100 + candidate.capacity
          /\ ~candidate.heard => candidate.score <= 75
      BY <3>2
    <3>5. seen = Append(g.seen, candidate)
      BY <2>2
    <3> HIDE DEF candidate, seen
    <3> QED BY <1>2, <3>3, <3>4, <3>5 DEF ScoresApart
  <2> QED BY <2>1, <2>2
<1>8. f \in Frame /\ f.at = "consider" /\ f.seen = seen
  <2>1. f = [g EXCEPT !.todo = Tail(g.todo), !.seen = seen]
    OBVIOUS
  <2> HIDE DEF f, seen, g
  <2>2. f \in [at: {"consider"}, began: Nat, query: Queries, preference: Seq(Nodes),
              todo: Seq(Declaration), seen: Seq(Candidate)]
    BY <1>1, <1>3, <1>7, <2>1
  <2> QED BY <1>1, <2>1, <2>2 DEF Frame
<1> HIDE DEF f, seen
<1>9. FrameOK(f)
  BY <1>7, <1>8 DEF FrameOK
<1> QED BY <1>6, <1>8, <1>9, OnlyFrame

LEMMA SelectInv ==
  ASSUME ResolverInv, NEW w \in Workers, Select(w)
  PROVE  ResolverInv'
<1> DEFINE g == frame[w]
           chosen == Selected(g.query, g.seen)
           f == [at |-> "answer", began |-> g.began, query |-> g.query,
                 seen |-> g.seen, selected |-> chosen]
<1>1. g \in [at: {"consider"}, began: Nat, query: Queries, preference: Seq(Nodes),
            todo: Seq(Declaration), seen: Seq(Candidate)]
  BY PlaceOfFrame DEF Select, At, ResolverInv, TypeOK
<1>2. g.query \in Queries /\ g.seen \in Seq(Candidate) /\ g.began \in Nat
  BY <1>1
<1>3. ScoresApart(g.seen)
  BY <1>1 DEF ResolverInv, FrameOK
<1>4. chosen \in Candidate \cup {None}
  BY <1>2, SelectedIsFirst DEF Selected
<1>5. f \in Frame
  BY <1>2, <1>4 DEF Frame
<1>6. FrameOK(f)
  BY <1>3 DEF FrameOK
<1>7. Goto(w, f) /\ UNCHANGED <<now, registry, nodes, announced, history>>
  BY DEF Select
<1> HIDE DEF f
<1> QED BY <1>5, <1>6, <1>7, OnlyFrame

LEMMA AnswerInv ==
  ASSUME ResolverInv, NEW w \in Workers, Answer(w)
  PROVE  ResolverInv'
BY IdleFrame, OnlyFrame DEF Answer, Return

LEMMA FailResolveInv ==
  ASSUME ResolverInv, NEW w \in Workers, FailResolve(w)
  PROVE  ResolverInv'
BY IdleFrame, OnlyFrame DEF FailResolve, Return

-----------------------------------------------------------------------------
(* Steps that change the table                                             *)

\* A report replaces the entry of its node.
LEMMA EntryReplaced ==
  ASSUME ResolverInv, NEW w \in Workers, NEW n \in Nodes, NEW entry \in NodeState,
         Known(n), entry.last_seen <= now, entry.health \in Reports,
         nodes' = [nodes EXCEPT ![n] = entry],
         TakesEffect(n, entry.health, entry.last_seen), Return(w),
         UNCHANGED <<now, registry, announced>>
  PROVE  ResolverInv'
<1> USE DEF ResolverInv
<1>1. frame' \in [Workers -> Frame] /\ \A v \in Workers : frame'[v] \in {Idle, frame[v]}
  BY IdleFrame DEF Return, Goto, TypeOK
<1>2. /\ nodes' \in [Nodes -> NodeState \cup {None}]
      /\ nodes'[n] = entry /\ \A m \in Nodes \ {n} : nodes'[m] = nodes[m]
  BY DEF TypeOK
<1>3. PICK h \in History : h = history[n]
  BY DEF TypeOK
<1> DEFINE h1 == [reports |-> h.reports + 1,
                  stretches |-> IF OutOfReach(n) /\ entry.health # "offline"
                                THEN h.stretches + 1 ELSE h.stretches,
                  heard |-> IF entry.last_seen > h.heard THEN entry.last_seen ELSE h.heard,
                  health |-> entry.health,
                  overtaken |-> entry.last_seen < h.heard]
<1>4. entry.last_seen \in Nat /\ now \in Nat /\ h.heard \in Nat /\ entry # None
  BY NoneIsNoState DEF NodeState, History, TypeOK
<1>5. h1 \in History
  BY <1>3, <1>4 DEF History
<1>6. history' = [history EXCEPT ![n] = h1]
  BY <1>3 DEF TakesEffect
<1>7. /\ h1.health = entry.health
      /\ h1.overtaken \/ entry.last_seen = h1.heard
  <2>1. /\ h1.health = entry.health /\ h1.overtaken = (entry.last_seen < h.heard)
        /\ h1.heard = IF entry.last_seen > h.heard THEN entry.last_seen ELSE h.heard
    OBVIOUS
  <2> HIDE DEF h1
  <2>2. CASE entry.last_seen < h.heard
    BY <2>1, <2>2
  <2>3. CASE ~(entry.last_seen < h.heard)
    BY <1>4, <2>1, <2>3
  <2> QED BY <2>1, <2>2, <2>3
<1> HIDE DEF h1
<1>8. /\ history' \in [Nodes -> History] /\ history'[n] = h1
      /\ \A m \in Nodes \ {n} : history'[m] = history[m]
  BY <1>5, <1>6 DEF TypeOK
<1>9. TypeOK'
  BY <1>1, <1>2, <1>8 DEF TypeOK, Known
<1>10. \A g : FrameOK(g) => FrameOK(g)'
  BY DEF FrameOK, Known, Advertised, ScoresApart
<1>11. \A v \in Workers : FrameOK(frame[v])'
  BY <1>1, <1>10, IdleFrame
<1>12. EntriesOK'
  <2>1. EntryOK(n)'
    BY <1>2, <1>7, <1>8 DEF EntryOK
  <2>2. \A m \in Nodes \ {n} : EntryOK(m)'
    BY <1>2, <1>8 DEF EntriesOK, EntryOK
  <2> QED BY <2>1, <2>2 DEF EntriesOK
<1>13. OfflineIsSilent'
  BY <1>2, <1>7, <1>8 DEF OfflineIsSilent
<1> QED BY <1>9, <1>11, <1>12, <1>13

LEMMA StoreAdvertisedInv ==
  ASSUME ResolverInv, NEW w \in Workers, StoreAdvertised(w)
  PROVE  ResolverInv'
<1>1. /\ frame[w].node \in Nodes /\ frame[w].state \in NodeState
      /\ Known(frame[w].node) /\ frame[w].state.last_seen <= now
      /\ frame[w].state.health \in Reports
  BY PlaceOfFrame DEF StoreAdvertised, At, ResolverInv, TypeOK, FrameOK
<1> QED BY <1>1, EntryReplaced DEF StoreAdvertised

LEMMA RefreshedState ==
  ASSUME ResolverInv, NEW n \in Nodes, NEW health \in Reports,
         NEW capacity \in Capacities \cup {None}
  PROVE  /\ Refreshed(nodes[n], health, capacity) \in NodeState
         /\ Refreshed(nodes[n], health, capacity).last_seen = now
         /\ Refreshed(nodes[n], health, capacity).health = health
<1>1. now \in Nat /\ nodes[n] \in NodeState \cup {None}
  BY DEF ResolverInv, TypeOK
<1> DEFINE caps == IF nodes[n] = None THEN {} ELSE nodes[n].caps
           kept == IF capacity # None THEN capacity
                   ELSE IF nodes[n] = None THEN 0 ELSE nodes[n].capacity
<1>2. caps \in SUBSET Capabilities /\ kept \in Capacities \cup {0}
  BY <1>1 DEF NodeState
<1>3. Refreshed(nodes[n], health, capacity) =
        [last_seen |-> now, health |-> health, caps |-> caps, capacity |-> kept]
  BY DEF Refreshed
<1> HIDE DEF caps, kept
<1> QED BY <1>1, <1>2, <1>3 DEF NodeState

LEMMA ApplyHeartbeatInv ==
  ASSUME ResolverInv, NEW w \in Workers, ApplyHeartbeat(w)
  PROVE  ResolverInv'
<1>1. /\ frame[w].node \in Nodes /\ frame[w].health \in Reports
      /\ frame[w].capacity \in Capacities \cup {None} /\ Known(frame[w].node)
  BY PlaceOfFrame DEF ApplyHeartbeat, At, ResolverInv, TypeOK, FrameOK
<1> DEFINE entry == Refreshed(nodes[frame[w].node], frame[w].health, frame[w].capacity)
<1>2. entry \in NodeState /\ entry.last_seen = now /\ entry.health = frame[w].health
  BY <1>1, RefreshedState
<1>3. entry.last_seen <= now
  BY <1>2 DEF ResolverInv, TypeOK
<1>4. /\ nodes' = [nodes EXCEPT ![frame[w].node] = entry]
      /\ TakesEffect(frame[w].node, entry.health, entry.last_seen) /\ Return(w)
      /\ UNCHANGED <<now, registry, announced>>
  BY <1>2 DEF ApplyHeartbeat
<1> HIDE DEF entry
<1> QED BY <1>1, <1>2, <1>3, <1>4, EntryReplaced

\* Who lapses has been silent for longer than the TTL by now, though the cutoff
\* is from before.
LEMMA SweepInv ==
  ASSUME ResolverInv, NEW w \in Workers, Sweep(w)
  PROVE  /\ ResolverInv'
         /\ \E lapsed \in SUBSET Nodes :
              /\ SweepOut(w, lapsed)
              /\ \A n \in lapsed : /\ nodes[n] \in NodeState /\ nodes[n].health # "offline"
                                    /\ nodes[n].last_seen < now - Ttl
<1> USE DEF ResolverInv
<1> DEFINE lapsed == {n \in Nodes : Silent(n, frame[w].cutoff) /\ nodes[n].health # "offline"}
<1>1. SweepOut(w, lapsed)
  BY DEF Sweep
<1>2. frame[w].cutoff \in Int /\ frame[w].cutoff <= now - Ttl /\ now \in Nat /\ Ttl \in Nat
  BY PlaceOfFrame, TtlValid DEF Sweep, At, TypeOK, FrameOK
<1>3. ASSUME NEW n \in lapsed
      PROVE  /\ nodes[n] \in NodeState /\ nodes[n].health # "offline"
             /\ nodes[n].last_seen < now - Ttl
  <2>1. nodes[n] \in NodeState /\ nodes[n].last_seen < frame[w].cutoff
    BY DEF Silent, TypeOK
  <2>2. nodes[n].last_seen \in Nat
    BY <2>1 DEF NodeState
  <2> QED BY <1>2, <2>1, <2>2
<1>4. lapsed \in SUBSET Nodes
  OBVIOUS
<1> HIDE DEF lapsed
<1>5. UNCHANGED <<now, registry, announced, history>>
  BY <1>1 DEF SweepOut
<1>6. \A n \in Nodes : nodes'[n] = IF n \in lapsed THEN [nodes[n] EXCEPT !.health = "offline"]
                                   ELSE nodes[n]
  BY <1>1 DEF SweepOut
<1>7. ASSUME NEW n \in lapsed
      PROVE  /\ nodes'[n] \in NodeState /\ nodes'[n].health = "offline"
             /\ nodes'[n].last_seen = nodes[n].last_seen /\ nodes[n] # None
  <2>1. nodes'[n] = [nodes[n] EXCEPT !.health = "offline"] /\ nodes[n] \in NodeState
    BY <1>3, <1>4, <1>6
  <2> QED BY <2>1, NoneIsNoState DEF NodeState
<1>8. nodes' \in [Nodes -> NodeState \cup {None}]
  <2>1. nodes' = [n \in Nodes |-> IF n \in lapsed THEN [nodes[n] EXCEPT !.health = "offline"]
                                 ELSE nodes[n]]
    BY <1>1 DEF SweepOut
  <2>2. \A n \in Nodes : nodes'[n] \in NodeState \cup {None}
    BY <1>6, <1>7 DEF TypeOK
  <2> QED BY <2>1, <2>2
<1>9. /\ frame' \in [Workers -> Frame]
      /\ \A v \in Workers : frame'[v] = frame[v] \/ frame'[v].at \in {"idle", "announce"}
  <2> DEFINE f == IF lapsed = {} THEN Idle ELSE [at |-> "announce", lapsed |-> lapsed]
  <2>1. f \in Frame /\ f.at \in {"idle", "announce"}
    BY <1>4 DEF Frame, Idle
  <2>2. frame' = [frame EXCEPT ![w] = f]
    BY <1>1 DEF SweepOut, Goto
  <2> HIDE DEF f
  <2> QED BY <2>1, <2>2 DEF TypeOK
<1>10. TypeOK'
  BY <1>5, <1>6, <1>7, <1>8, <1>9 DEF TypeOK
<1>11. \A g : FrameOK(g) => FrameOK(g)'
  BY <1>5 DEF FrameOK, Known, Advertised, ScoresApart
<1>12. \A g : g.at \in {"idle", "announce"} => FrameOK(g)'
  BY DEF FrameOK
<1>13. \A v \in Workers : FrameOK(frame[v])'
  BY <1>9, <1>11, <1>12
<1>14. EntriesOK'
  BY <1>5, <1>6, <1>7 DEF EntriesOK, EntryOK
<1>15. OfflineIsSilent'
  <2>1. \A n \in lapsed : history[n].overtaken \/ history[n].heard < now - Ttl
    BY <1>3, <1>4, <1>7 DEF EntriesOK, EntryOK
  <2> QED BY <1>3, <1>5, <1>6, <1>7, <2>1 DEF OfflineIsSilent
<1> QED BY <1>1, <1>3, <1>4, <1>10, <1>13, <1>14, <1>15

LEMMA AnnounceLapseInv ==
  ASSUME ResolverInv, NEW w \in Workers, AnnounceLapse(w)
  PROVE  ResolverInv'
<1> USE DEF ResolverInv
<1>1. PICK n \in frame[w].lapsed :
        /\ announced' = [announced EXCEPT ![n] = @ + 1]
        /\ Goto(w, IF frame[w].lapsed = {n} THEN Idle
                   ELSE [at |-> "announce", lapsed |-> frame[w].lapsed \ {n}])
  BY DEF AnnounceLapse
<1>2. frame[w].lapsed \in SUBSET Nodes
  BY PlaceOfFrame DEF AnnounceLapse, At, TypeOK
<1> DEFINE f == IF frame[w].lapsed = {n} THEN Idle
                ELSE [at |-> "announce", lapsed |-> frame[w].lapsed \ {n}]
<1>3. f \in Frame /\ f.at \in {"idle", "announce"}
  BY <1>2 DEF Frame, Idle
<1>4. frame' = [frame EXCEPT ![w] = f] /\ UNCHANGED <<now, registry, nodes, history>>
  BY <1>1 DEF AnnounceLapse, Goto
<1> HIDE DEF f
<1>5. /\ frame' \in [Workers -> Frame]
      /\ \A v \in Workers : frame'[v] = frame[v] \/ frame'[v].at \in {"idle", "announce"}
  BY <1>3, <1>4 DEF TypeOK
<1>6. announced' \in [Nodes -> Nat]
  BY <1>1, <1>2 DEF TypeOK
<1>7. TypeOK'
  BY <1>4, <1>5, <1>6 DEF TypeOK
<1>8. \A g : FrameOK(g) => FrameOK(g)'
  BY <1>4 DEF FrameOK, Known, Advertised, ScoresApart
<1>9. \A g : g.at \in {"idle", "announce"} => FrameOK(g)'
  BY DEF FrameOK
<1>10. \A v \in Workers : FrameOK(frame[v])'
  BY <1>5, <1>8, <1>9
<1>11. EntriesOK' /\ OfflineIsSilent'
  BY <1>4 DEF EntriesOK, EntryOK, OfflineIsSilent
<1> QED BY <1>7, <1>10, <1>11

-----------------------------------------------------------------------------
(* The environment                                                         *)

LEMMA ReloadInv ==
  ASSUME ResolverInv, NEW w \in Workers, Reload(w)
  PROVE  ResolverInv'
<1> USE DEF ResolverInv
<1>1. registry' \in Registries /\ UNCHANGED <<now, nodes, frame, announced, history>>
  BY DEF Reload
<1>2. TypeOK'
  BY <1>1 DEF TypeOK
<1>3. \A v \in Workers : FrameOK(frame[v])'
  BY <1>1 DEF FrameOK, Known, Advertised, ScoresApart
<1>4. EntriesOK' /\ OfflineIsSilent'
  BY <1>1 DEF EntriesOK, EntryOK, OfflineIsSilent
<1> QED BY <1>2, <1>3, <1>4

LEMMA TickInv == ResolverInv /\ Tick => ResolverInv'
<1> SUFFICES ASSUME ResolverInv, Tick PROVE ResolverInv'
  OBVIOUS
<1> USE DEF ResolverInv
<1>1. /\ now' = now + 1 /\ now \in Nat /\ Ttl \in Nat
      /\ UNCHANGED <<registry, nodes, frame, announced, history>>
  BY TtlValid DEF Tick, TypeOK
<1>2. TypeOK'
  BY <1>1 DEF TypeOK
<1>3. \A n \in Nodes : nodes[n] # None => nodes[n].last_seen \in Nat
  BY DEF TypeOK, NodeState
<1>4. ASSUME NEW v \in Workers PROVE FrameOK(frame[v])'
  <2>1. frame[v] \in Frame /\ FrameOK(frame[v]) /\ frame'[v] = frame[v]
    BY <1>1 DEF TypeOK
  <2>2. frame[v].at = "store" => frame[v].state.last_seen \in Nat
    BY <2>1, PlaceOfFrame DEF NodeState
  <2>3. frame[v].at = "sweep" => frame[v].cutoff \in Int
    BY <2>1, PlaceOfFrame
  <2>4. frame[v].at = "store" => frame[v].state.last_seen <= now + 1
    BY <1>1, <2>1, <2>2 DEF FrameOK
  <2>5. frame[v].at = "sweep" => frame[v].cutoff <= now + 1 - Ttl
    BY <1>1, <2>1, <2>3 DEF FrameOK
  <2> QED BY <1>1, <2>1, <2>4, <2>5 DEF FrameOK, Known, Advertised, ScoresApart
<1>5. EntriesOK'
  BY <1>1, <1>3 DEF EntriesOK, EntryOK
<1>6. OfflineIsSilent'
  <2>1. \A n \in Nodes : history[n].heard \in Nat
    BY DEF TypeOK, History
  <2> QED BY <1>1, <2>1 DEF OfflineIsSilent
<1> QED BY <1>2, <1>4, <1>5, <1>6

LEMMA UnheardOK == Unheard \in History
BY DEF Unheard, History

LEMMA FreshInv ==
  /\ Init => ResolverInv
  /\ ResolverInv /\ Restart => ResolverInv'
<1>1. ASSUME Init PROVE ResolverInv
  <2>1. TypeOK
    BY <1>1, IdleFrame, UnheardOK DEF Init, TypeOK
  <2>2. \A w \in Workers : FrameOK(frame[w])
    BY <1>1 DEF Init, FrameOK, Idle
  <2>3. EntriesOK /\ OfflineIsSilent
    BY <1>1 DEF Init, EntriesOK, EntryOK, OfflineIsSilent
  <2> QED BY <2>1, <2>2, <2>3 DEF ResolverInv
<1>2. ASSUME ResolverInv, Restart PROVE ResolverInv'
  <2>1. TypeOK'
    BY <1>2, IdleFrame, UnheardOK DEF Restart, Fresh, TypeOK, ResolverInv
  <2>2. \A w \in Workers : FrameOK(frame[w])'
    BY <1>2 DEF Restart, Fresh, FrameOK, Idle
  <2>3. EntriesOK' /\ OfflineIsSilent'
    BY <1>2 DEF Restart, Fresh, EntriesOK, EntryOK, OfflineIsSilent
  <2> QED BY <2>1, <2>2, <2>3 DEF ResolverInv
<1> QED BY <1>1, <1>2

LEMMA StutterInv == ResolverInv /\ UNCHANGED vars => ResolverInv'
BY DEF vars, ResolverInv, TypeOK, FrameOK, Known, Advertised, ScoresApart, EntriesOK, EntryOK,
       OfflineIsSilent

LEMMA NextInv == ResolverInv /\ [Next]_vars => ResolverInv'
<1> SUFFICES ASSUME ResolverInv, [Next]_vars PROVE ResolverInv'
  OBVIOUS
<1>1. ASSUME NEW w \in Workers, Request(w) PROVE ResolverInv'
  BY <1>1, BeginAdvertiseInv, BeginHeartbeatInv, BeginTopologyInv, BeginResolveInv, ReloadInv
  DEF Request
<1>2. ASSUME NEW w \in Workers, Handle(w) PROVE ResolverInv'
  BY <1>2, StoreAdvertisedInv, ApplyHeartbeatInv, SweepInv, AnnounceLapseInv, ReadRoutesInv,
     IndexNodesInv, ConsiderInv, FailResolveInv, SelectInv, AnswerInv
  DEF Handle
<1> QED BY <1>1, <1>2, TickInv, FreshInv, StutterInv DEF Next

-----------------------------------------------------------------------------
(* What follows from it                                                    *)

\* Every variable of the resolver stays in its domain, and its table
\* (GlobalResolver._nodes) holds only nodes that some registry declared.
THEOREM TypeCorrect == Spec => []TypeOK
<1>1. ResolverInv => TypeOK
  BY DEF ResolverInv
<1> QED BY <1>1, FreshInv, NextInv, PTL DEF Spec

\* expire() takes for offline only nodes that made no report for more than the TTL,
\* or whose last advertisement was overtaken by a later report, however threads
\* race; any other that is offline said so.
THEOREM OnlyTheSilentAreOffline == Spec => []OfflineIsSilent
<1>1. ResolverInv => OfflineIsSilent
  BY DEF ResolverInv
<1> QED BY <1>1, FreshInv, NextInv, PTL DEF Spec

\* resolve() prefers a node that is online to one nobody has heard of, by whatever
\* route and whatever healths and capacities nodes report, unless the request asks
\* for a local node and only the latter is one, or the former's own
\* capacity_score is -25 or less.
THEOREM OnlineIsPreferred == Spec => []DiscoveredPreferred
<1>1. ResolverInv => DiscoveredPreferred
  <2> SUFFICES ASSUME ResolverInv, NEW w \in Workers, At(w, "answer"),
                      NEW i \in DOMAIN frame[w].seen,
                      frame[w].seen[i].health = "online",
                      frame[w].seen[i].capacity > -25, ~frame[w].selected.heard
               PROVE  /\ frame[w].query.prefer_local /\ frame[w].selected.local
                      /\ ~frame[w].seen[i].local
    BY DEF DiscoveredPreferred
  <2> DEFINE query == frame[w].query
             seen == frame[w].seen
             selected == frame[w].selected
  <2>1. query \in Queries /\ seen \in Seq(Candidate)
    BY PlaceOfFrame DEF ResolverInv, TypeOK, At
  <2>2. ScoresApart(seen) /\ selected = Selected(query, seen)
    BY DEF ResolverInv, FrameOK, At
  <2>3. selected \in Candidate /\ ~Precedes(query, seen[i], selected)
    BY <2>1, <2>2, SelectedIsFirst
  <2>4. PICK k \in DOMAIN seen : selected = seen[k]
    BY <2>1, <2>2, SelectedIsFirst
  <2>5. seen[i].score >= 100 + seen[i].capacity /\ selected.score <= 75
    BY <2>2, <2>4 DEF ScoresApart
  <2>6. /\ seen[i].score \in Int /\ selected.score \in Int /\ seen[i].capacity \in Int
        /\ seen[i].local \in BOOLEAN /\ selected.local \in BOOLEAN
    BY <2>1, <2>3, CandidateAt DEF Candidate
  <2>7. seen[i].score > selected.score
    BY <2>5, <2>6
  <2>8. query.prefer_local /\ seen[i].local # selected.local /\ ~seen[i].local
    BY <2>3, <2>7 DEF Precedes
  <2> QED BY <2>6, <2>8
<1> QED BY <1>1, FreshInv, NextInv, PTL DEF Spec

-----------------------------------------------------------------------------
(* Announcements                                                           *)

LEMMA AnnouncingFinite ==
  ASSUME NEW n
  PROVE  IsFiniteSet(Announcing(n)) /\ Cardinality(Announcing(n)) \in Nat
BY WorkersFinite, FS_Subset, FS_CardinalityType DEF Announcing

LEMMA LapseNumbers ==
  ASSUME TypeOK, NEW n \in Nodes
  PROVE  announced[n] \in Nat /\ history[n].stretches \in Nat
BY DEF TypeOK, History

\* A thread that announces nothing, before or after its step.
LEMMA AnnouncingKept ==
  ASSUME TypeOK, NEW w \in Workers, NEW f, Goto(w, f),
         frame[w].at # "announce", f.at # "announce"
  PROVE  \A n : Announcing(n)' = Announcing(n)
<1>1. frame'[w] = f /\ \A v \in Workers \ {w} : frame'[v] = frame[v]
  BY DEF Goto, TypeOK
<1> QED BY <1>1 DEF Announcing, At

LEMMA ReadingLapse ==
  ASSUME TypeOK, LapseInv, NEW w \in Workers, NEW f, Goto(w, f),
         frame[w].at # "announce", f.at # "announce",
         UNCHANGED <<nodes, announced, history>>
  PROVE  LapseInv'
BY AnnouncingKept DEF LapseInv, OutOfReach

LEMMA RequestLapse ==
  ASSUME TypeOK, LapseInv, NEW w \in Workers, Request(w)
  PROVE  LapseInv'
<1>1. ASSUME NEW n \in Nodes, NEW caps \in Offers, NEW health \in Reports,
             NEW capacity \in Capacities, BeginAdvertise(w, n, caps, health, capacity)
      PROVE  LapseInv'
  <2> DEFINE f == [at |-> "store", node |-> n,
                   state |-> [last_seen |-> now, health |-> health,
                              caps |-> caps \cup DeclaredCaps(registry, n),
                              capacity |-> capacity]]
  <2>1. /\ Goto(w, f) /\ f.at = "store" /\ frame[w].at = "idle"
        /\ UNCHANGED <<nodes, announced, history>>
    BY <1>1 DEF BeginAdvertise, At
  <2> HIDE DEF f
  <2> QED BY <2>1, ReadingLapse
<1>2. ASSUME NEW n \in Nodes, NEW health \in Reports, NEW capacity \in Capacities \cup {None},
             BeginHeartbeat(w, n, health, capacity)
      PROVE  LapseInv'
  <2> DEFINE f == [at |-> "update", node |-> n, health |-> health, capacity |-> capacity]
  <2>1. /\ Goto(w, f) /\ f.at = "update" /\ frame[w].at = "idle"
        /\ UNCHANGED <<nodes, announced, history>>
    BY <1>2 DEF BeginHeartbeat, At
  <2> HIDE DEF f
  <2> QED BY <2>1, ReadingLapse
<1>3. CASE BeginTopology(w)
  <2> DEFINE f == [at |-> "sweep", cutoff |-> now - Ttl]
  <2>1. /\ Goto(w, f) /\ f.at = "sweep" /\ frame[w].at = "idle"
        /\ UNCHANGED <<nodes, announced, history>>
    BY <1>3 DEF BeginTopology, At
  <2> HIDE DEF f
  <2> QED BY <2>1, ReadingLapse
<1>4. ASSUME NEW query \in Queries, BeginResolve(w, query) PROVE LapseInv'
  <2> DEFINE f == [at |-> "route", began |-> now, query |-> query]
  <2>1. /\ Goto(w, f) /\ f.at = "route" /\ frame[w].at = "idle"
        /\ UNCHANGED <<nodes, announced, history>>
    BY <1>4 DEF BeginResolve, At
  <2> HIDE DEF f
  <2> QED BY <2>1, ReadingLapse
<1>5. CASE Reload(w)
  BY <1>5 DEF Reload, LapseInv, OutOfReach, Announcing, At
<1> QED BY <1>1, <1>2, <1>3, <1>4, <1>5 DEF Request

\* A report that brings its node back within reach is counted.
LEMMA ReportLapse ==
  ASSUME TypeOK, LapseInv, NEW w \in Workers, NEW n \in Nodes, NEW entry \in NodeState,
         NEW time, nodes' = [nodes EXCEPT ![n] = entry], TakesEffect(n, entry.health, time),
         Return(w), frame[w].at # "announce", UNCHANGED announced
  PROVE  LapseInv'
<1>1. \A m : Announcing(m)' = Announcing(m)
  BY AnnouncingKept DEF Return, Idle
<1>2. /\ history'[n].stretches = IF OutOfReach(n) /\ entry.health # "offline"
                                 THEN history[n].stretches + 1 ELSE history[n].stretches
      /\ \A m \in Nodes \ {n} : history'[m] = history[m] /\ nodes'[m] = nodes[m]
      /\ nodes'[n] = entry /\ entry # None
  BY NoneIsNoState DEF TakesEffect, TypeOK
<1>3. ASSUME NEW m \in Nodes
      PROVE  announced'[m] + Cardinality(Announcing(m)') <=
               IF OutOfReach(m)' THEN history'[m].stretches ELSE history'[m].stretches - 1
  <2>1. /\ announced[m] \in Nat /\ history[m].stretches \in Nat
        /\ Cardinality(Announcing(m)) \in Nat
    BY LapseNumbers, AnnouncingFinite
  <2>2. /\ OutOfReach(m) => announced[m] + Cardinality(Announcing(m)) <= history[m].stretches
        /\ ~OutOfReach(m) => announced[m] + Cardinality(Announcing(m)) <= history[m].stretches - 1
    BY DEF LapseInv
  <2>3. CASE m # n
    <3>1. OutOfReach(m)' = OutOfReach(m) /\ history'[m].stretches = history[m].stretches
      BY <1>2, <2>3 DEF OutOfReach
    <3> QED BY <1>1, <2>2, <3>1
  <2>4. CASE m = n
    <3>1. OutOfReach(n)' = (entry.health = "offline")
      BY <1>2 DEF OutOfReach
    <3>2. CASE OutOfReach(n) /\ entry.health # "offline"
      <4>1. ~OutOfReach(m)' /\ history'[m].stretches = history[m].stretches + 1
        BY <1>2, <2>4, <3>1, <3>2
      <4>2. announced[m] + Cardinality(Announcing(m)) <= history[m].stretches
        BY <2>2, <2>4, <3>2
      <4>3. announced[m] + Cardinality(Announcing(m)) <= (history[m].stretches + 1) - 1
        BY <2>1, <4>2
      <4> QED BY <1>1, <4>1, <4>3
    <3>3. CASE OutOfReach(n) /\ entry.health = "offline"
      <4>1. OutOfReach(m)' /\ history'[m].stretches = history[m].stretches
        BY <1>2, <2>4, <3>1, <3>3
      <4>2. announced[m] + Cardinality(Announcing(m)) <= history[m].stretches
        BY <2>2, <2>4, <3>3
      <4> QED BY <1>1, <4>1, <4>2
    <3>4. CASE ~OutOfReach(n)
      <4>1. history'[m].stretches = history[m].stretches
        BY <1>2, <2>4, <3>4
      <4>2. announced[m] + Cardinality(Announcing(m)) <= history[m].stretches - 1
        BY <2>2, <2>4, <3>4
      <4>3. announced[m] + Cardinality(Announcing(m)) <= history[m].stretches
        BY <2>1, <4>2
      <4> QED BY <1>1, <4>1, <4>2, <4>3
    <3> QED BY <3>2, <3>3, <3>4
  <2> QED BY <2>3, <2>4
<1> QED BY <1>3 DEF LapseInv

LEMMA SweepLapse ==
  ASSUME ResolverInv, LapseInv, NEW w \in Workers, Sweep(w)
  PROVE  LapseInv'
<1>1. TypeOK /\ frame[w].at = "sweep"
  BY DEF ResolverInv, Sweep, At
<1>2. PICK lapsed \in SUBSET Nodes :
        /\ SweepOut(w, lapsed)
        /\ \A n \in lapsed : nodes[n] \in NodeState /\ nodes[n].health # "offline"
  BY SweepInv
<1>3. /\ UNCHANGED <<announced, history>>
      /\ \A n \in Nodes : nodes'[n] = IF n \in lapsed THEN [nodes[n] EXCEPT !.health = "offline"]
                                      ELSE nodes[n]
      /\ frame'[w] = IF lapsed = {} THEN Idle ELSE [at |-> "announce", lapsed |-> lapsed]
      /\ \A v \in Workers \ {w} : frame'[v] = frame[v]
  BY <1>1, <1>2 DEF SweepOut, Goto, TypeOK
<1>4. \A n \in Nodes \ lapsed : Announcing(n)' = Announcing(n)
  BY <1>1, <1>3 DEF Announcing, At, Idle
<1>5. \A n \in lapsed : Announcing(n)' = Announcing(n) \cup {w} /\ w \notin Announcing(n)
  BY <1>1, <1>3 DEF Announcing, At
<1>6. ASSUME NEW n \in Nodes
      PROVE  announced'[n] + Cardinality(Announcing(n)') <=
               IF OutOfReach(n)' THEN history'[n].stretches ELSE history'[n].stretches - 1
  <2>1. /\ announced[n] \in Nat /\ history[n].stretches \in Nat
        /\ Cardinality(Announcing(n)) \in Nat
    BY <1>1, LapseNumbers, AnnouncingFinite
  <2>2. CASE n \notin lapsed
    <3>1. OutOfReach(n)' = OutOfReach(n)
      BY <1>3, <2>2 DEF OutOfReach
    <3> QED BY <1>3, <1>4, <2>2, <3>1 DEF LapseInv
  <2>3. CASE n \in lapsed
    <3>1. ~OutOfReach(n)
      BY <1>2, <2>3, NoneIsNoState DEF OutOfReach
    <3>2. announced[n] + Cardinality(Announcing(n)) <= history[n].stretches - 1
      BY <3>1 DEF LapseInv
    <3>3. OutOfReach(n)'
      <4>1. nodes'[n].health = "offline"
        BY <1>2, <1>3, <2>3 DEF NodeState
      <4> QED BY <4>1 DEF OutOfReach
    <3>4. Cardinality(Announcing(n)') = Cardinality(Announcing(n)) + 1
      BY <1>5, <2>3, AnnouncingFinite, FS_AddElement
    <3> QED BY <1>3, <2>1, <3>2, <3>3, <3>4
  <2> QED BY <2>2, <2>3
<1> QED BY <1>6 DEF LapseInv

LEMMA AnnounceLapseLapse ==
  ASSUME TypeOK, LapseInv, NEW w \in Workers, AnnounceLapse(w)
  PROVE  LapseInv'
<1>1. PICK n \in frame[w].lapsed :
        /\ announced' = [announced EXCEPT ![n] = @ + 1]
        /\ Goto(w, IF frame[w].lapsed = {n} THEN Idle
                   ELSE [at |-> "announce", lapsed |-> frame[w].lapsed \ {n}])
  BY DEF AnnounceLapse
<1>2. frame[w].lapsed \in SUBSET Nodes /\ frame[w].at = "announce"
  BY PlaceOfFrame DEF AnnounceLapse, At, TypeOK
<1>3. /\ UNCHANGED <<nodes, history>>
      /\ announced'[n] = announced[n] + 1
      /\ \A m \in Nodes \ {n} : announced'[m] = announced[m]
      /\ frame'[w] = IF frame[w].lapsed = {n} THEN Idle
                     ELSE [at |-> "announce", lapsed |-> frame[w].lapsed \ {n}]
      /\ \A v \in Workers \ {w} : frame'[v] = frame[v]
  BY <1>1, <1>2 DEF AnnounceLapse, Goto, TypeOK
<1>4. Announcing(n)' = Announcing(n) \ {w} /\ w \in Announcing(n)
  BY <1>1, <1>2, <1>3 DEF Announcing, At, Idle
<1>5. \A m \in Nodes \ {n} : Announcing(m)' = Announcing(m)
  BY <1>1, <1>2, <1>3 DEF Announcing, At, Idle
<1>6. Cardinality(Announcing(n)') = Cardinality(Announcing(n)) - 1
  BY <1>4, AnnouncingFinite, FS_RemoveElement
<1>7. ASSUME NEW m \in Nodes
      PROVE  announced'[m] + Cardinality(Announcing(m)') = announced[m] + Cardinality(Announcing(m))
  <2>1. announced[m] \in Nat /\ Cardinality(Announcing(m)) \in Nat
    BY LapseNumbers, AnnouncingFinite
  <2>2. CASE m = n
    BY <1>3, <1>6, <2>1, <2>2
  <2>3. CASE m # n
    BY <1>3, <1>5, <2>3
  <2> QED BY <2>2, <2>3
<1> QED BY <1>3, <1>7 DEF LapseInv, OutOfReach

LEMMA HandleLapse ==
  ASSUME ResolverInv, LapseInv, NEW w \in Workers, Handle(w)
  PROVE  LapseInv'
<1>1. TypeOK /\ frame[w] \in Frame /\ FrameOK(frame[w])
  BY DEF ResolverInv, TypeOK
<1>2. CASE StoreAdvertised(w)
  <2>1. frame[w].at = "store" /\ frame[w].node \in Nodes /\ frame[w].state \in NodeState
    BY <1>1, <1>2, PlaceOfFrame DEF StoreAdvertised, At
  <2> QED BY <1>1, <1>2, <2>1, ReportLapse DEF StoreAdvertised
<1>3. CASE ApplyHeartbeat(w)
  <2>1. /\ frame[w].at = "update" /\ frame[w].node \in Nodes /\ frame[w].health \in Reports
        /\ frame[w].capacity \in Capacities \cup {None}
    BY <1>1, <1>3, PlaceOfFrame DEF ApplyHeartbeat, At
  <2> DEFINE entry == Refreshed(nodes[frame[w].node], frame[w].health, frame[w].capacity)
  <2>2. entry \in NodeState /\ entry.health = frame[w].health
    BY <2>1, RefreshedState
  <2>3. /\ nodes' = [nodes EXCEPT ![frame[w].node] = entry]
        /\ TakesEffect(frame[w].node, entry.health, now) /\ Return(w) /\ UNCHANGED announced
    BY <1>3, <2>2 DEF ApplyHeartbeat
  <2> HIDE DEF entry
  <2> QED BY <1>1, <2>1, <2>2, <2>3, ReportLapse
<1>4. CASE Sweep(w)
  BY <1>4, SweepLapse
<1>5. CASE AnnounceLapse(w)
  BY <1>1, <1>5, AnnounceLapseLapse
<1>6. CASE IndexNodes(w)
  <2> DEFINE f == [at |-> "consider", began |-> frame[w].began, query |-> frame[w].query,
                   preference |-> frame[w].preference, todo |-> registry.nodes, seen |-> <<>>]
  <2>1. /\ Goto(w, f) /\ f.at = "consider" /\ frame[w].at = "index"
        /\ UNCHANGED <<nodes, announced, history>>
    BY <1>6 DEF IndexNodes, At
  <2> HIDE DEF f
  <2> QED BY <1>1, <2>1, ReadingLapse
<1>7. CASE Consider(w)
  <2>1. frame[w].at = "consider"
    BY <1>7 DEF Consider, At
  <2>2. PICK todo, seen : Goto(w, [frame[w] EXCEPT !.todo = todo, !.seen = seen])
    BY <1>7 DEF Consider
  <2>3. [frame[w] EXCEPT !.todo = todo, !.seen = seen].at = "consider"
    BY <1>1, <2>1, PlaceOfFrame
  <2>4. UNCHANGED <<nodes, announced, history>>
    BY <1>7 DEF Consider
  <2> QED BY <1>1, <2>1, <2>2, <2>3, <2>4, ReadingLapse
<1>8. CASE Select(w)
  <2> DEFINE f == [at |-> "answer", began |-> frame[w].began, query |-> frame[w].query,
                   seen |-> frame[w].seen, selected |-> Selected(frame[w].query, frame[w].seen)]
  <2>1. /\ Goto(w, f) /\ f.at = "answer" /\ frame[w].at = "consider"
        /\ UNCHANGED <<nodes, announced, history>>
    BY <1>8 DEF Select, At
  <2> HIDE DEF f
  <2> QED BY <1>1, <2>1, ReadingLapse
<1>9. CASE Answer(w)
  <2>1. /\ Goto(w, Idle) /\ Idle.at = "idle" /\ frame[w].at = "answer"
        /\ UNCHANGED <<nodes, announced, history>>
    BY <1>9 DEF Answer, Return, At, Idle
  <2> QED BY <1>1, <2>1, ReadingLapse
<1>10. CASE ReadRoutes(w)
  <2>1. PICK preference :
          Goto(w, [at |-> "index", began |-> frame[w].began, query |-> frame[w].query,
                   preference |-> preference])
    BY <1>10 DEF ReadRoutes
  <2> DEFINE f == [at |-> "index", began |-> frame[w].began, query |-> frame[w].query,
                   preference |-> preference]
  <2>2. /\ Goto(w, f) /\ f.at = "index" /\ frame[w].at = "route"
        /\ UNCHANGED <<nodes, announced, history>>
    BY <1>10, <2>1 DEF ReadRoutes, At
  <2> HIDE DEF f
  <2> QED BY <1>1, <2>2, ReadingLapse
<1>11. CASE FailResolve(w)
  <2>1. /\ Goto(w, Idle) /\ Idle.at = "idle" /\ frame[w].at = "consider"
        /\ UNCHANGED <<nodes, announced, history>>
    BY <1>11 DEF FailResolve, Return, At, Idle
  <2> QED BY <1>1, <2>1, ReadingLapse
<1> QED
  BY <1>2, <1>3, <1>4, <1>5, <1>6, <1>7, <1>8, <1>9, <1>10, <1>11 DEF Handle

LEMMA NobodyAnnounces ==
  ASSUME \A w \in Workers : frame[w] = Idle
  PROVE  \A n : Cardinality(Announcing(n)) = 0
<1>1. \A n : Announcing(n) = {}
  BY DEF Announcing, At, Idle
<1> QED BY <1>1, FS_EmptySet

\* A silence is announced once, however many topology requests notice it: the
\* estate.node.offline events of a node, made and about to be made, are never
\* more than the reports that brought it back within reach.
THEOREM SilenceAnnouncedOnce == Spec => []LapseAnnouncedOnce
<1>1. Init => LapseInv
  <2> SUFFICES ASSUME Init PROVE LapseInv
    OBVIOUS
  <2>1. \A n : Cardinality(Announcing(n)) = 0
    BY NobodyAnnounces DEF Init
  <2> QED BY <2>1 DEF Init, LapseInv, OutOfReach, Unheard
<1>2. ResolverInv /\ LapseInv /\ [Next]_vars => LapseInv'
  <2> SUFFICES ASSUME ResolverInv, LapseInv, [Next]_vars PROVE LapseInv'
    OBVIOUS
  <2>1. TypeOK
    BY DEF ResolverInv
  <2>2. CASE Tick \/ UNCHANGED vars
    BY <2>2 DEF Tick, vars, LapseInv, OutOfReach, Announcing, At
  <2>3. CASE Restart
    <3>1. \A n : Cardinality(Announcing(n)') = 0
      BY <2>3, NobodyAnnounces, FS_EmptySet DEF Restart, Fresh, Announcing, At, Idle
    <3>2. \A n \in Nodes : announced'[n] = 0 /\ history'[n].stretches = 0 /\ nodes'[n] = None
      BY <2>3 DEF Restart, Fresh, Unheard
    <3> QED BY <3>1, <3>2 DEF LapseInv, OutOfReach
  <2> QED BY <2>1, <2>2, <2>3, RequestLapse, HandleLapse DEF Next
<1>3. TypeOK /\ LapseInv => LapseAnnouncedOnce
  <2> SUFFICES ASSUME TypeOK, LapseInv, NEW n \in Nodes
               PROVE  announced[n] + Cardinality(Announcing(n)) <= history[n].stretches
    BY DEF LapseAnnouncedOnce
  <2>1. /\ announced[n] \in Nat /\ history[n].stretches \in Nat
        /\ Cardinality(Announcing(n)) \in Nat
    BY LapseNumbers, AnnouncingFinite
  <2> QED BY <2>1 DEF LapseInv
<1>4. ResolverInv => TypeOK
  BY DEF ResolverInv
<1> QED BY <1>1, <1>2, <1>3, <1>4, FreshInv, NextInv, PTL DEF Spec

-----------------------------------------------------------------------------
(* The table of NodeTable                                                  *)

AgeOf(last_seen) == IF now - last_seen > Ttl THEN Ttl + 1 ELSE now - last_seen

\* What the resolver's entry is to NodeTable.
Viewed(live) == IF live = None THEN None
                ELSE [age |-> AgeOf(live.last_seen), health |-> live.health, caps |-> live.caps]

\* The table that TableView substitutes.
View == [n \in Nodes |->
          IF nodes[n] = None THEN None
          ELSE [age |-> IF now - nodes[n].last_seen > Ttl THEN Ttl + 1
                        ELSE now - nodes[n].last_seen,
                health |-> nodes[n].health,
                caps |-> nodes[n].caps]]

LEMMA ViewIs ==
  /\ View = [n \in Nodes |-> Viewed(nodes[n])]
  /\ View' = [n \in Nodes |-> Viewed(nodes[n])']
BY DEF View, Viewed, AgeOf

LEMMA AgeInRange ==
  ASSUME now \in Nat, NEW last_seen \in Nat, last_seen <= now
  PROVE  AgeOf(last_seen) \in TableView!Age /\ AgeOf(last_seen) \in Nat
BY TtlValid DEF AgeOf, TableView!Age

LEMMA ViewedNone ==
  ASSUME ResolverInv, NEW n \in Nodes
  PROVE  /\ Viewed(nodes[n]) = None <=> nodes[n] = None
         /\ nodes[n] # None => /\ Viewed(nodes[n]).age = AgeOf(nodes[n].last_seen)
                               /\ Viewed(nodes[n]).health = nodes[n].health
                               /\ Viewed(nodes[n]).caps = nodes[n].caps
<1>1. CASE nodes[n] = None
  BY <1>1 DEF Viewed
<1>2. CASE nodes[n] # None
  <2>1. nodes[n] \in NodeState /\ nodes[n].last_seen <= now /\ now \in Nat
    BY <1>2 DEF ResolverInv, TypeOK, EntriesOK, EntryOK
  <2>2. AgeOf(nodes[n].last_seen) \in Nat
    BY <2>1, AgeInRange DEF NodeState
  <2>3. Viewed(nodes[n]) = [age |-> AgeOf(nodes[n].last_seen), health |-> nodes[n].health,
                            caps |-> nodes[n].caps]
    BY <1>2 DEF Viewed
  <2>4. Viewed(nodes[n]) \in [age: Nat, health: Reports \cup {"offline"}, caps: SUBSET Capabilities]
    BY <2>1, <2>2, <2>3 DEF NodeState
  <2> QED BY <1>2, <2>3, <2>4, NoneIsNoState
<1> QED BY <1>1, <1>2

LEMMA ViewUnchanged ==
  ASSUME UNCHANGED <<now, nodes>>
  PROVE  View' = View
BY DEF View

\* The clock was read a delay before the entry is stored.
LEMMA StoreIsAdvertise ==
  ASSUME ResolverInv, NEW w \in Workers, StoreAdvertised(w)
  PROVE  TableView!Next
<1>a. /\ frame[w].node \in Nodes /\ frame[w].state \in NodeState
      /\ frame[w].state.health \in Reports /\ frame[w].state.last_seen <= now
      /\ Advertised(frame[w].node, frame[w].state.caps)
  BY PlaceOfFrame DEF StoreAdvertised, At, ResolverInv, TypeOK, FrameOK
<1>b. PICK n \in Nodes : n = frame[w].node
  BY <1>a
<1>c. PICK state \in NodeState : state = frame[w].state
  BY <1>a
<1>d. PICK delay : delay = AgeOf(state.last_seen)
  OBVIOUS
<1>1. /\ state.health \in Reports /\ state.last_seen <= now /\ now \in Nat
      /\ Advertised(n, state.caps)
  BY <1>a, <1>b, <1>c DEF ResolverInv, TypeOK
<1>2. state.last_seen \in Nat /\ state # None
  BY NoneIsNoState DEF NodeState
<1>3. delay \in TableView!Age
  BY <1>1, <1>2, <1>d, AgeInRange
<1>4. nodes' = [nodes EXCEPT ![n] = state] /\ now' = now
  BY <1>b, <1>c DEF StoreAdvertised
<1>5. nodes'[n] = state /\ \A m \in Nodes \ {n} : nodes'[m] = nodes[m]
  BY <1>4 DEF ResolverInv, TypeOK
<1>6. Viewed(nodes[n])' = [age |-> delay, health |-> state.health, caps |-> state.caps]
  BY <1>2, <1>4, <1>5, <1>d DEF Viewed, AgeOf
<1>7. \A m \in Nodes \ {n} : Viewed(nodes[m])' = Viewed(nodes[m])
  BY <1>4, <1>5 DEF Viewed, AgeOf
<1>8. View' = [View EXCEPT ![n] = [age |-> delay, health |-> state.health, caps |-> state.caps]]
  BY <1>6, <1>7, ViewIs
<1>9. TableView!Advertise(n, state.caps, state.health, delay)
  BY <1>8 DEF TableView!Advertise, View
<1>10. state.caps \in {caps \cup DeclaredCaps(r, m) :
                        caps \in Offers, r \in Registries, m \in Nodes}
  BY <1>1 DEF Advertised
<1> QED BY <1>1, <1>3, <1>9, <1>10 DEF TableView!Next

LEMMA ApplyIsHeartbeat ==
  ASSUME ResolverInv, NEW w \in Workers, ApplyHeartbeat(w)
  PROVE  TableView!Next
<1>a. /\ frame[w].node \in Nodes /\ frame[w].health \in Reports
      /\ frame[w].capacity \in Capacities \cup {None} /\ now \in Nat
  BY PlaceOfFrame DEF ApplyHeartbeat, At, ResolverInv, TypeOK, FrameOK
<1>b. PICK n \in Nodes : n = frame[w].node
  BY <1>a
<1>c. PICK health \in Reports : health = frame[w].health
  BY <1>a
<1>d. PICK caps : caps = IF nodes[n] = None THEN {} ELSE nodes[n].caps
  OBVIOUS
<1>e. PICK entry : entry = Refreshed(nodes[n], health, frame[w].capacity)
  OBVIOUS
<1>1. /\ entry \in NodeState /\ entry.last_seen = now /\ entry.health = health
      /\ entry.caps = caps
  BY <1>a, <1>d, <1>e, RefreshedState DEF Refreshed
<1>2. entry # None
  BY <1>1, NoneIsNoState
<1>3. nodes' = [nodes EXCEPT ![n] = entry] /\ now' = now
  BY <1>b, <1>c, <1>e DEF ApplyHeartbeat
<1>4. nodes'[n] = entry /\ \A m \in Nodes \ {n} : nodes'[m] = nodes[m]
  BY <1>3 DEF ResolverInv, TypeOK
<1>5. caps = IF View[n] = None THEN {} ELSE View[n].caps
  <2>1. View[n] = Viewed(nodes[n])
    BY ViewIs
  <2> QED BY <1>d, <2>1, ViewedNone
<1>6. Viewed(nodes[n])' = [age |-> 0, health |-> health, caps |-> caps]
  <2>1. now' - entry.last_seen = 0 /\ ~(0 > Ttl)
    BY <1>a, <1>1, <1>3, TtlValid
  <2> QED BY <1>1, <1>2, <1>4, <2>1 DEF Viewed, AgeOf
<1>7. \A m \in Nodes \ {n} : Viewed(nodes[m])' = Viewed(nodes[m])
  BY <1>3, <1>4 DEF Viewed, AgeOf
<1>8. View' = [View EXCEPT ![n] = [age |-> 0, health |-> health, caps |-> caps]]
  BY <1>6, <1>7, ViewIs
<1>9. TableView!Heartbeat(n, health)
  <2>1. View' = [View EXCEPT ![n] = [age |-> 0, health |-> health,
                                    caps |-> IF View[n] = None THEN {} ELSE View[n].caps]]
    BY <1>5, <1>8
  <2> QED BY <2>1 DEF TableView!Heartbeat, View
<1> QED BY <1>9 DEF TableView!Next

\* The cutoff may be old, but who was silent then is silent now.
LEMMA SweepIsLapse ==
  ASSUME ResolverInv, NEW w \in Workers, Sweep(w)
  PROVE  TableView!Next
<1>1. PICK lapsed \in SUBSET Nodes :
        /\ SweepOut(w, lapsed)
        /\ \A n \in lapsed : nodes[n] \in NodeState /\ nodes[n].last_seen < now - Ttl
  BY SweepInv
<1>2. /\ now' = now /\ now \in Nat
      /\ \A n \in Nodes : nodes'[n] = IF n \in lapsed THEN [nodes[n] EXCEPT !.health = "offline"]
                                      ELSE nodes[n]
  BY <1>1 DEF SweepOut, ResolverInv, TypeOK
<1>3. ASSUME NEW n \in lapsed
      PROVE  /\ TableView!MayLapse(n)
             /\ Viewed(nodes[n])' = [Viewed(nodes[n]) EXCEPT !.health = "offline"]
  <2>1. n \in Nodes /\ nodes[n] \in NodeState /\ nodes[n] # None
    BY <1>1, NoneIsNoState
  <2>2. nodes[n].last_seen \in Nat /\ now - nodes[n].last_seen > Ttl
    BY <1>1, <1>2, <2>1, TtlValid DEF NodeState
  <2>3. Viewed(nodes[n]) = [age |-> Ttl + 1, health |-> nodes[n].health, caps |-> nodes[n].caps]
    BY <2>1, <2>2 DEF Viewed, AgeOf
  <2>4. View[n] = Viewed(nodes[n]) /\ View[n] # None
    BY <2>1, ViewIs, ViewedNone
  <2>5. TableView!MayLapse(n)
    BY <2>3, <2>4, TtlValid DEF TableView!MayLapse, View
  <2>6. nodes'[n] = [nodes[n] EXCEPT !.health = "offline"]
    BY <1>2, <2>1
  <2>7. /\ nodes'[n] \in NodeState /\ nodes'[n].health = "offline"
        /\ nodes'[n].last_seen = nodes[n].last_seen /\ nodes'[n].caps = nodes[n].caps
    BY <2>1, <2>6 DEF NodeState
  <2>8. nodes'[n] # None
    BY <2>7, NoneIsNoState
  <2>9. Viewed(nodes[n])' = [age |-> Ttl + 1, health |-> "offline", caps |-> nodes[n].caps]
    BY <1>2, <2>2, <2>7, <2>8 DEF Viewed, AgeOf
  <2> QED BY <2>3, <2>5, <2>9
<1>4. \A n \in Nodes \ lapsed : Viewed(nodes[n])' = Viewed(nodes[n])
  BY <1>2 DEF Viewed, AgeOf
<1>5. View' = [n \in Nodes |-> IF n \in lapsed THEN [View[n] EXCEPT !.health = "offline"]
                              ELSE View[n]]
  BY <1>3, <1>4, ViewIs
<1>6. TableView!Lapse(lapsed)
  BY <1>3, <1>5 DEF TableView!Lapse, View
<1> QED BY <1>6 DEF TableView!Next

LEMMA TickIsTick ==
  ASSUME ResolverInv, Tick
  PROVE  TableView!Next
<1>1. now' = now + 1 /\ now \in Nat /\ nodes' = nodes
  BY DEF Tick, ResolverInv, TypeOK
<1>2. ASSUME NEW n \in Nodes
      PROVE  Viewed(nodes[n])' = IF Viewed(nodes[n]) = None THEN None
               ELSE [Viewed(nodes[n]) EXCEPT !.age = TableView!Older(@)]
  <2>1. CASE nodes[n] = None
    BY <1>1, <2>1 DEF Viewed
  <2>2. CASE nodes[n] # None
    <3>1. nodes[n].last_seen \in Nat /\ nodes[n].last_seen <= now /\ Ttl \in Nat
      BY <2>2, TtlValid DEF ResolverInv, TypeOK, EntriesOK, EntryOK, NodeState
    <3>2. Viewed(nodes[n]) = [age |-> AgeOf(nodes[n].last_seen), health |-> nodes[n].health,
                              caps |-> nodes[n].caps]
      BY <2>2 DEF Viewed
    <3>3. TableView!Older(AgeOf(nodes[n].last_seen)) =
            IF now + 1 - nodes[n].last_seen > Ttl THEN Ttl + 1 ELSE now + 1 - nodes[n].last_seen
      BY <1>1, <3>1 DEF TableView!Older, AgeOf
    <3>4. Viewed(nodes[n])' = [age |-> TableView!Older(AgeOf(nodes[n].last_seen)),
                               health |-> nodes[n].health, caps |-> nodes[n].caps]
      <4>1. Viewed(nodes[n])' = [age |-> AgeOf(nodes[n].last_seen)',
                                 health |-> nodes[n].health, caps |-> nodes[n].caps]
        BY <1>1, <2>2 DEF Viewed
      <4>2. AgeOf(nodes[n].last_seen)' = TableView!Older(AgeOf(nodes[n].last_seen))
        BY <1>1, <3>1, <3>3 DEF AgeOf
      <4> QED BY <4>1, <4>2
    <3> QED BY <2>2, <3>2, <3>4, ViewedNone
  <2> QED BY <2>1, <2>2
<1>3. View' = [n \in Nodes |-> IF View[n] = None THEN None
                              ELSE [View[n] EXCEPT !.age = TableView!Older(@)]]
  BY <1>2, ViewIs
<1>4. TableView!Tick
  BY <1>3 DEF TableView!Tick, View
<1> QED BY <1>4 DEF TableView!Next

LEMMA RestartIsRestart ==
  ASSUME Restart
  PROVE  TableView!Next
<1>1. View' = [n \in Nodes |-> None]
  BY DEF Restart, Fresh, View
<1>2. TableView!Restart
  BY <1>1 DEF TableView!Restart, TableView!Empty, View
<1> QED BY <1>2 DEF TableView!Next

\* The table of the resolver is the one NodeTable promises: a report replaces
\* its node's entry at once, only a node silent for more than the TTL is taken
\* for offline, and a heartbeat changes no advertised capabilities, though
\* handlers of GlobalResolver use times and cutoffs they read before the lock.
THEOREM NodeTableImplemented == Spec => ImplementsNodeTable
<1>1. Init => View = TableView!Empty
  BY DEF Init, View, TableView!Empty
<1>2. ResolverInv /\ [Next]_vars => TableView!Next \/ UNCHANGED View
  <2> SUFFICES ASSUME ResolverInv, [Next]_vars PROVE TableView!Next \/ UNCHANGED View
    OBVIOUS
  <2>1. CASE UNCHANGED vars
    BY <2>1, ViewUnchanged DEF vars
  <2>2. ASSUME NEW w \in Workers, Request(w) PROVE UNCHANGED View
    <3>1. UNCHANGED <<now, nodes>>
      BY <2>2 DEF Request, BeginAdvertise, BeginHeartbeat, BeginTopology, BeginResolve, Reload
    <3> QED BY <3>1, ViewUnchanged
  <2>3. ASSUME NEW w \in Workers,
               \/ AnnounceLapse(w) \/ ReadRoutes(w) \/ IndexNodes(w) \/ Consider(w)
               \/ FailResolve(w) \/ Select(w) \/ Answer(w)
        PROVE  UNCHANGED View
    <3>1. UNCHANGED <<now, nodes>>
      BY <2>3 DEF AnnounceLapse, ReadRoutes, IndexNodes, Consider, FailResolve, Select, Answer
    <3> QED BY <3>1, ViewUnchanged
  <2> QED
    BY <2>1, <2>2, <2>3, TickIsTick, RestartIsRestart, StoreIsAdvertise, ApplyIsHeartbeat,
       SweepIsLapse
    DEF Next, Handle
<1>3. QED
  BY <1>1, <1>2, FreshInv, NextInv, PTL DEF Spec, ImplementsNodeTable, TableView!Spec, View
=============================================================================
