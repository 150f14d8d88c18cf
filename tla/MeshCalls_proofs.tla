-------------------------- MODULE MeshCalls_proofs --------------------------
(***************************************************************************)
(* Theorems about the calls of the mesh, for any calls, providers,         *)
(* policies and candidate lists: the order of the failover, the events     *)
(* that announce it, and when a call may attempt or give up a provider.    *)
(***************************************************************************)
EXTENDS MeshEngine_proofs, SequenceTheorems

-----------------------------------------------------------------------------
(* Logs of attempts                                                        *)

Opens(e) == e.candidate = 1 /\ e.attempt \in 0..1

\* What FailoverInOrder lets follow an entry of a log.
Follows(e, f, budget) ==
  \/ /\ e.result = "failed"
     /\ f.candidate = e.candidate
     /\ f.attempt = e.attempt + 1
     /\ f.attempt <= budget
  \/ /\ e.result # "completed"
     /\ f.candidate = e.candidate + 1
     /\ f.attempt \in 0..1

SkipsAreUnattempted(e) == e.attempt = 0 <=> e.result = "open-circuit-skip"

Ordered(log, budget) ==
  /\ log # <<>> => Opens(log[1])
  /\ \A i \in 1..Len(log) - 1 : Follows(log[i], log[i + 1], budget)
  /\ \A i \in 1..Len(log) : SkipsAreUnattempted(log[i])

Covers(log, n) == \A k \in 1..n : \E i \in DOMAIN log : log[i].candidate = k
Unanswered(log) == \A i \in DOMAIN log : log[i].result # "completed"

\* The log has dealt with the first p candidates, in vain.
DoneWith(log, p) ==
  /\ Unanswered(log) /\ Covers(log, p)
  /\ IF log = <<>> THEN p = 0 ELSE log[Len(log)].candidate = p

\* The log of a call that makes attempt a at candidate p.
Awaits(log, p, a) ==
  /\ Unanswered(log) /\ Covers(log, p - 1)
  /\ IF a = 1 THEN DoneWith(log, p - 1)
     ELSE /\ log # <<>>
          /\ log[Len(log)].candidate = p
          /\ log[Len(log)].attempt = a - 1
          /\ log[Len(log)].result = "failed"

LEMMA LogAt ==
  ASSUME NEW log \in Seq(Entry)
  PROVE  /\ Len(log) \in Nat /\ DOMAIN log = 1..Len(log)
         /\ \A i \in 1..Len(log) : log[i] \in Entry
         /\ log # <<>> => Len(log) >= 1
<1>1. Len(log) \in Nat /\ DOMAIN log = 1..Len(log) /\ \A i \in 1..Len(log) : log[i] \in Entry
  BY LenProperties, ElementOfSeq
<1>2. log # <<>> => Len(log) >= 1
  BY EmptySeq
<1> QED BY <1>1, <1>2

\* An ordered log stays ordered with an entry that opens or follows it.
LEMMA AppendOrdered ==
  ASSUME NEW log \in Seq(Entry), NEW e \in Entry, NEW budget, Ordered(log, budget),
         SkipsAreUnattempted(e),
         IF log = <<>> THEN Opens(e) ELSE Follows(log[Len(log)], e, budget)
  PROVE  /\ Append(log, e) \in Seq(Entry) /\ Len(Append(log, e)) = Len(log) + 1
         /\ \A i \in 1..Len(log) : Append(log, e)[i] = log[i]
         /\ Append(log, e)[Len(log) + 1] = e
         /\ DOMAIN Append(log, e) = 1..Len(log) + 1
         /\ Ordered(Append(log, e), budget)
<1> DEFINE new == Append(log, e)
           n == Len(log)
<1>1. n \in Nat /\ DOMAIN log = 1..n /\ (log # <<>> => n >= 1) /\ (log = <<>> => n = 0)
  BY LogAt, EmptySeq
<1>2. /\ new \in Seq(Entry) /\ Len(new) = n + 1
      /\ \A i \in 1..n : new[i] = log[i]
      /\ new[n + 1] = e
  BY AppendProperties
<1>3. DOMAIN new = 1..n + 1
  BY <1>2, LogAt
<1>4. /\ log # <<>> => Opens(log[1])
      /\ \A i \in 1..n - 1 : Follows(log[i], log[i + 1], budget)
      /\ \A i \in 1..n : SkipsAreUnattempted(log[i])
      /\ log # <<>> => Follows(log[n], e, budget)
      /\ log = <<>> => Opens(e)
  BY DEF Ordered
<1> HIDE DEF new, n
<1>5. Opens(new[1])
  <2>1. CASE log = <<>>
    BY <1>1, <1>2, <1>4, <2>1
  <2>2. CASE log # <<>>
    BY <1>1, <1>2, <1>4, <2>2
  <2> QED BY <2>1, <2>2
<1>6. ASSUME NEW i \in 1..n PROVE Follows(new[i], new[i + 1], budget)
  <2>1. CASE i = n
    BY <1>1, <1>2, <1>4, <2>1
  <2>2. CASE i # n
    <3>1. i \in 1..n - 1 /\ i + 1 \in 1..n
      BY <1>1, <2>2
    <3> QED BY <1>2, <1>4, <3>1
  <2> QED BY <2>1, <2>2
<1>7. ASSUME NEW i \in 1..n + 1 PROVE SkipsAreUnattempted(new[i])
  <2>1. i \in 1..n \/ i = n + 1
    BY <1>1
  <2> QED BY <1>2, <1>4, <2>1
<1>8. Len(new) - 1 = n
  BY <1>1, <1>2
<1> QED BY <1>2, <1>3, <1>5, <1>6, <1>7, <1>8 DEF Ordered, new, n

\* Candidates that the breaker refuses continue the order, one after the other.
LEMMA SkipsOrdered ==
  ASSUME NEW log \in Seq(Entry), NEW budget, NEW p \in Nat, NEW n \in Nat,
         NEW skips \in Seq(Entry), Len(skips) = n,
         \A j \in 1..n : /\ skips[j].candidate = p + j
                         /\ skips[j].attempt = 0
                         /\ skips[j].result = "open-circuit-skip",
         Ordered(log, budget), DoneWith(log, p)
  PROVE  /\ log \o skips \in Seq(Entry)
         /\ Ordered(log \o skips, budget) /\ DoneWith(log \o skips, p + n)
<1> DEFINE new == log \o skips
           m == Len(log)
<1>1. /\ m \in Nat /\ DOMAIN log = 1..m /\ (log # <<>> => m >= 1) /\ (log = <<>> => m = 0)
      /\ \A i \in 1..m : log[i] \in Entry
  BY LogAt, EmptySeq
<1>2. /\ new \in Seq(Entry) /\ Len(new) = m + n
      /\ \A i \in 1..m + n : new[i] = IF i <= m THEN log[i] ELSE skips[i - m]
  BY ConcatProperties
<1>3. DOMAIN new = 1..m + n /\ (new = <<>> => m + n = 0)
  BY <1>2, LogAt, EmptySeq
<1>4. /\ log # <<>> => Opens(log[1])
      /\ \A i \in 1..m - 1 : Follows(log[i], log[i + 1], budget)
      /\ \A i \in 1..m : SkipsAreUnattempted(log[i])
  BY DEF Ordered
<1>5. /\ \A i \in 1..m : log[i].result # "completed"
      /\ \A k \in 1..p : \E i \in 1..m : log[i].candidate = k
      /\ IF m = 0 THEN p = 0 ELSE log[m].candidate = p
  BY <1>1 DEF DoneWith, Unanswered, Covers
<1> HIDE DEF new, m
<1>6. \A i \in 1..m : new[i] = log[i]
  BY <1>1, <1>2
<1>7. \A j \in 1..n : /\ new[m + j].candidate = p + j
                      /\ new[m + j].attempt = 0
                      /\ new[m + j].result = "open-circuit-skip"
  <2>1. ASSUME NEW j \in 1..n PROVE new[m + j] = skips[j]
    <3>1. m + j \in 1..m + n /\ ~(m + j <= m) /\ (m + j) - m = j
      BY <1>1
    <3> QED BY <1>2, <3>1
  <2> QED BY <2>1
<1>8. \A i \in 1..m + n : i \in 1..m \/ \E j \in 1..n : i = m + j
  <2>1. ASSUME NEW i \in 1..m + n, i \notin 1..m PROVE i - m \in 1..n /\ i = m + (i - m)
    BY <1>1, <2>1
  <2> QED BY <2>1
<1>9. m + n >= 1 => Opens(new[1])
  <2>1. CASE m = 0
    <3>1. m + n >= 1 => 1 \in 1..n /\ m + 1 = 1 /\ p + 1 = 1
      BY <1>5, <2>1
    <3> QED BY <1>7, <3>1 DEF Opens
  <2>2. CASE m # 0
    BY <1>1, <1>4, <1>6, <2>2
  <2> QED BY <2>1, <2>2
<1>10. ASSUME NEW i \in 1..m + n - 1 PROVE Follows(new[i], new[i + 1], budget)
  <2>1. CASE i < m
    <3>1. i \in 1..m - 1 /\ i + 1 \in 1..m /\ i \in 1..m
      BY <1>1, <2>1
    <3> QED BY <1>4, <1>6, <3>1
  <2>2. CASE i = m
    <3>1. m \in 1..m /\ 1 \in 1..n /\ m # 0
      BY <1>1, <2>2
    <3>2. new[m].candidate = p /\ new[m].result # "completed"
      BY <1>5, <1>6, <3>1
    <3> QED BY <1>7, <2>2, <3>1, <3>2 DEF Follows
  <2>3. CASE i > m
    <3>1. PICK j \in 1..n - 1 : i = m + j
      <4>1. i - m \in 1..n - 1 /\ i = m + (i - m)
        BY <1>1, <2>3
      <4> QED BY <4>1
    <3>2. j \in 1..n /\ j + 1 \in 1..n /\ i + 1 = m + (j + 1) /\ p + (j + 1) = (p + j) + 1
      BY <1>1, <3>1
    <3> QED BY <1>7, <3>1, <3>2 DEF Follows
  <2> QED BY <1>1, <2>1, <2>2, <2>3
<1>11. \A i \in 1..m + n : SkipsAreUnattempted(new[i])
  BY <1>4, <1>6, <1>7, <1>8 DEF SkipsAreUnattempted
<1>12. Unanswered(new)
  BY <1>3, <1>5, <1>6, <1>7, <1>8 DEF Unanswered
<1>13. Covers(new, p + n)
  <2>1. ASSUME NEW k \in 1..p + n PROVE \E i \in 1..m + n : new[i].candidate = k
    <3>1. CASE k <= p
      <4>1. PICK i \in 1..m : log[i].candidate = k
        BY <1>5, <3>1
      <4>2. i \in 1..m + n
        BY <1>1
      <4> QED BY <1>6, <4>1, <4>2
    <3>2. CASE ~(k <= p)
      <4>1. k - p \in 1..n /\ p + (k - p) = k /\ m + (k - p) \in 1..m + n
        BY <1>1, <3>2
      <4> QED BY <1>7, <4>1
    <3> QED BY <3>1, <3>2
  <2> QED BY <1>3, <2>1 DEF Covers
<1>14. IF new = <<>> THEN p + n = 0 ELSE new[Len(new)].candidate = p + n
  <2>1. CASE n = 0
    <3>1. m + n = m /\ p + n = p
      BY <1>1, <2>1
    <3>2. CASE m = 0
      <4>1. new = <<>>
        BY <1>2, <3>1, <3>2, EmptySeq
      <4> QED BY <1>5, <3>1, <3>2, <4>1
    <3>3. CASE m # 0
      <4>1. m \in 1..m
        BY <1>1, <3>3
      <4> QED BY <1>2, <1>3, <1>5, <1>6, <3>1, <3>3, <4>1
    <3> QED BY <3>2, <3>3
  <2>2. CASE n # 0
    <3>1. n \in 1..n /\ m + n # 0
      BY <1>1, <2>2
    <3> QED BY <1>2, <1>3, <1>7, <3>1
  <2> QED BY <2>1, <2>2
<1>15. new # <<>> => m + n >= 1
  BY <1>1, <1>2, LogAt
<1>16. Ordered(new, budget)
  <2>1. Len(new) - 1 = m + n - 1 /\ Len(new) = m + n
    BY <1>1, <1>2
  <2>2. new # <<>> => Opens(new[1])
    BY <1>9, <1>15
  <2> QED BY <1>10, <1>11, <2>1, <2>2, Zenon DEF Ordered
<1>17. DoneWith(new, p + n)
  BY <1>12, <1>13, <1>14 DEF DoneWith
<1> QED BY <1>2, <1>16, <1>17 DEF new

\* The entry of the attempt that a call makes continues its log.
LEMMA AttemptOrdered ==
  ASSUME NEW log \in Seq(Entry), NEW p \in Nat, NEW budget \in Nat, NEW a \in 1..budget,
         p >= 1, Ordered(log, budget), Awaits(log, p, a), NEW r \in {"failed", "completed"},
         NEW e, e = [candidate |-> p, attempt |-> a, result |-> r]
  PROVE  /\ Append(log, e) \in Seq(Entry) /\ Append(log, e) # <<>>
         /\ Ordered(Append(log, e), budget)
         /\ Covers(Append(log, e), p)
         /\ Append(log, e)[Len(Append(log, e))] = e
         /\ r = "failed" => Unanswered(Append(log, e))
         /\ r = "completed" => ~Unanswered(Append(log, e))
<1> DEFINE new == Append(log, e)
           n == Len(log)
<1>1. /\ e \in Entry /\ e.candidate = p /\ e.attempt = a /\ e.result = r
      /\ SkipsAreUnattempted(e)
  BY DEF Entry, SkipsAreUnattempted
<1>2. n \in Nat /\ DOMAIN log = 1..n /\ (log # <<>> => n >= 1)
  BY LogAt
<1>3. Unanswered(log) /\ Covers(log, p - 1)
  BY DEF Awaits
<1>4. log # <<>> => log[n].result # "completed"
  BY <1>2, <1>3 DEF Unanswered
<1>5. IF log = <<>> THEN Opens(e) ELSE Follows(log[n], e, budget)
  <2>1. CASE a = 1
    <3>1. IF log = <<>> THEN p - 1 = 0 ELSE log[n].candidate = p - 1
      BY <2>1 DEF Awaits, DoneWith
    <3>2. log = <<>> => p = 1
      BY <3>1
    <3>3. log # <<>> => p = log[n].candidate + 1
      BY <3>1
    <3> QED BY <1>1, <1>4, <2>1, <3>2, <3>3 DEF Opens, Follows
  <2>2. CASE a # 1
    <3>1. /\ log # <<>> /\ log[n].candidate = p /\ log[n].attempt = a - 1
          /\ log[n].result = "failed"
      BY <2>2 DEF Awaits
    <3>2. a = log[n].attempt + 1 /\ a <= budget
      BY <3>1
    <3> QED BY <1>1, <3>1, <3>2 DEF Follows
  <2> QED BY <2>1, <2>2
<1>6. /\ new \in Seq(Entry) /\ Len(new) = n + 1
      /\ \A i \in 1..n : new[i] = log[i]
      /\ new[n + 1] = e /\ DOMAIN new = 1..n + 1
      /\ Ordered(new, budget)
  BY <1>1, <1>5, AppendOrdered
<1> HIDE DEF new, n
<1>7. \A i \in 1..n + 1 : i \in 1..n \/ i = n + 1
  BY <1>2
<1>8. n + 1 \in 1..n + 1 /\ 1..n \subseteq 1..n + 1
  BY <1>2
<1>9. Covers(new, p)
  <2>1. ASSUME NEW k \in 1..p PROVE \E i \in 1..n + 1 : new[i].candidate = k
    <3>1. CASE k = p
      BY <1>1, <1>6, <1>8, <3>1
    <3>2. CASE k # p
      <4>1. k \in 1..p - 1
        BY <3>2
      <4>2. PICK i \in 1..n : log[i].candidate = k
        BY <1>2, <1>3, <4>1 DEF Covers
      <4> QED BY <1>6, <1>8, <4>2
    <3> QED BY <3>1, <3>2
  <2> QED BY <1>6, <2>1 DEF Covers
<1>10. r = "failed" => Unanswered(new)
  BY <1>1, <1>2, <1>3, <1>6, <1>7 DEF Unanswered
<1>11. r = "completed" => ~Unanswered(new)
  BY <1>1, <1>6, <1>8 DEF Unanswered
<1>12. new # <<>>
  BY <1>2, <1>6, EmptySeq
<1> QED BY <1>6, <1>9, <1>10, <1>11, <1>12 DEF new

-----------------------------------------------------------------------------
(* The inductive invariant                                                 *)

Started == <<"mesh.invocation.started">>
Answered == <<"mesh.invocation.started", "mesh.invocation.completed">>
Failed == <<"mesh.invocation.started", "mesh.invocation.failed">>
Resolved == <<"mesh.route.resolved">>
Blocked == <<"mesh.route.blocked">>

\* What TelemetryMatchesOutcome says of one call, with its list of candidates.
Truthful(log, events, result, list) ==
  /\ events \in {<<>>, Started, Answered, Failed, Resolved, Blocked}
  /\ ~Unanswered(log) <=> events = Answered
  /\ events = Failed => Covers(log, Len(list))
  /\ result = "answered" => events = Answered
  /\ result = "exhausted" => events = Failed

\* What a call has done so far, by the place where it is suspended.
Whereabouts(place, p, a, log, events) ==
  CASE place \in {"new", "invoke-registry", "resolve-registry"} -> log = <<>> /\ events = <<>>
    [] place = "publish-started" -> log = <<>> /\ events = Started
    [] place = "attempt" -> events = Started /\ Awaits(log, p, a)
    [] place = "reconsider" -> /\ events = Started /\ DoneWith(log, p)
                              /\ log # <<>>
                              /\ log[Len(log)].attempt = a
                              /\ log[Len(log)].result = "failed"
    [] place = "publish-completed" -> events = Answered
    [] place = "publish-failed" -> events = Failed
    [] OTHER -> TRUE

CallOK(c) ==
  /\ Ordered(attempts[c], held[c].retries + 1)
  /\ Truthful(attempts[c], emitted[c], outcome[c], candidates[c])
  /\ Whereabouts(stage[c], position[c], attempt[c], attempts[c], emitted[c])
  /\ stage[c] # "done" => outcome[c] = "none"

CallsInv == TypeInv /\ \A c \in Calls : CallOK(c)

LEMMA AppendToOne ==
  ASSUME NEW d, NEW e
  PROVE  Append(<<d>>, e) = <<d, e>>
<1> DEFINE S == {d, e}
<1>1. <<d>> \in Seq(S) /\ <<d, e>> \in Seq(S) /\ Len(<<d>>) = 1 /\ Len(<<d, e>>) = 2
  OBVIOUS
<1>2. <<d>>[1] = d /\ <<d, e>>[1] = d /\ <<d, e>>[2] = e
  OBVIOUS
<1>3. /\ Append(<<d>>, e) \in Seq(S) /\ Len(Append(<<d>>, e)) = 2
      /\ Append(<<d>>, e)[1] = d /\ Append(<<d>>, e)[2] = e
  BY <1>1, <1>2, AppendProperties
<1>4. \A i \in 1..Len(Append(<<d>>, e)) : Append(<<d>>, e)[i] = <<d, e>>[i]
  BY <1>2, <1>3
<1> QED BY <1>1, <1>3, <1>4, SeqEqual

\* The lists of events that a call may have emitted are all different.
LEMMA EventLists ==
  /\ Started # <<>> /\ Answered # <<>> /\ Failed # <<>> /\ Resolved # <<>> /\ Blocked # <<>>
  /\ Started # Answered /\ Started # Failed /\ Answered # Failed
  /\ Resolved # Answered /\ Blocked # Answered /\ Resolved # Failed /\ Blocked # Failed
  /\ Append(<<>>, "mesh.invocation.started") = Started
  /\ Append(<<>>, "mesh.route.resolved") = Resolved
  /\ Append(<<>>, "mesh.route.blocked") = Blocked
  /\ Append(Started, "mesh.invocation.completed") = Answered
  /\ Append(Started, "mesh.invocation.failed") = Failed
<1>1. /\ Started # <<>> /\ Answered # <<>> /\ Failed # <<>> /\ Resolved # <<>> /\ Blocked # <<>>
  BY DEF Started, Answered, Failed, Resolved, Blocked
<1>2. Started # Answered /\ Started # Failed /\ Answered # Failed
  BY DEF Started, Answered, Failed
<1>3. Resolved # Answered /\ Blocked # Answered /\ Resolved # Failed /\ Blocked # Failed
  BY DEF Answered, Failed, Resolved, Blocked
<1>4. /\ Append(<<>>, "mesh.invocation.started") = Started
      /\ Append(<<>>, "mesh.route.resolved") = Resolved
      /\ Append(<<>>, "mesh.route.blocked") = Blocked
  BY DEF Started, Resolved, Blocked
<1>5. Append(Started, "mesh.invocation.completed") = Answered
  BY AppendToOne DEF Started, Answered
<1>6. Append(Started, "mesh.invocation.failed") = Failed
  BY AppendToOne DEF Started, Failed
<1> QED BY <1>1, <1>2, <1>3, <1>4, <1>5, <1>6

LEMMA NothingDone ==
  /\ \A budget : Ordered(<<>>, budget)
  /\ DoneWith(<<>>, 0) /\ Unanswered(<<>>)
<1>1. Len(<<>>) = 0 /\ DOMAIN <<>> = {}
  BY EmptySeq
<1> QED BY <1>1 DEF Ordered, DoneWith, Unanswered, Covers

-----------------------------------------------------------------------------
(* The invariant, action by action                                         *)

LEMMA InitCalls == Init => CallsInv
<1> SUFFICES ASSUME Init PROVE CallsInv
  OBVIOUS
<1>1. TypeInv
  BY InitTypeInv
<1>2. ASSUME NEW c \in Calls PROVE CallOK(c)
  <2>1. /\ stage[c] = "new" /\ attempts[c] = <<>> /\ emitted[c] = <<>> /\ outcome[c] = "none"
    BY DEF Init
  <2>2. Truthful(attempts[c], emitted[c], outcome[c], candidates[c])
    BY <2>1, NothingDone, EventLists DEF Truthful
  <2> QED BY <2>1, <2>2, NothingDone DEF CallOK, Whereabouts
<1> QED BY <1>1, <1>2 DEF CallsInv

\* The variables of a call.
Rests(c) ==
  /\ stage'[c] = stage[c] /\ held'[c] = held[c] /\ candidates'[c] = candidates[c]
  /\ position'[c] = position[c] /\ attempt'[c] = attempt[c] /\ attempts'[c] = attempts[c]
  /\ emitted'[c] = emitted[c] /\ outcome'[c] = outcome[c]

LEMMA RestingCall ==
  ASSUME NEW c, CallOK(c), Rests(c)
  PROVE  CallOK(c)'
BY DEF CallOK, Rests

LEMMA CallFields ==
  ASSUME TypeInv, NEW c \in Calls
  PROVE  /\ held[c].retries \in Nat /\ candidates[c] \in Seq(Services)
         /\ position[c] \in 0..Len(candidates[c]) /\ Len(candidates[c]) \in Nat
         /\ attempts[c] \in Seq(Entry) /\ emitted[c] \in Seq(EventTypes)
         /\ stage[c] \in {"attempt", "reconsider"} =>
              /\ position[c] \in 1..Len(candidates[c])
              /\ attempt[c] \in 1..held[c].retries + 1
         /\ stage[c] = "publish-started" => position[c] = 0
<1>1. /\ held[c] \in Policies /\ candidates[c] \in Seq(Services) /\ position[c] \in Nat
      /\ attempts[c] \in Seq(Entry) /\ emitted[c] \in Seq(EventTypes)
  BY DEF TypeInv, TypeOK
<1>2. stage[c] \in {"attempt", "reconsider"} =>
        position[c] \in 1..Len(candidates[c]) /\ attempt[c] \in 1..held[c].retries + 1
  BY DEF TypeInv, TypeOK
<1>3. position[c] <= Len(candidates[c]) /\ (stage[c] = "publish-started" => position[c] = 0)
  BY DEF TypeInv, PositionOK
<1>4. held[c].retries \in Nat /\ Len(candidates[c]) \in Nat
  BY <1>1, PolicyFields, LenProperties
<1> QED BY <1>1, <1>2, <1>3, <1>4

\* The loop over the candidates, from one that the call is done with.
LEMMA NextCandidateCalls ==
  ASSUME TypeInv, NEW c \in Calls, CallOK(c), NEW known, NextCandidate(c, known),
         emitted[c] = Started, outcome[c] = "none", DoneWith(attempts[c], position[c])
  PROVE  CallOK(c)' /\ \A d \in Calls \ {c} : Rests(d)
<1> DEFINE log == attempts[c]
           p == position[c]
           budget == held[c].retries + 1
<1>1. /\ log \in Seq(Entry) /\ p \in Nat /\ p <= Len(candidates[c]) /\ Len(candidates[c]) \in Nat
      /\ Ordered(log, budget) /\ DoneWith(log, p)
  BY CallFields DEF CallOK
<1>2. /\ UNCHANGED <<held, candidates, outcome>>
      /\ stage \in [Calls -> Stages] /\ position \in [Calls -> Nat]
      /\ attempt \in [Calls -> Nat] /\ attempts \in [Calls -> Seq(Entry)]
      /\ emitted \in [Calls -> Seq(EventTypes)]
  BY DEF NextCandidate, TypeInv, TypeOK
<1>3. ASSUME NEW n \in Nat
      PROVE  /\ log \o Skips(c, n) \in Seq(Entry)
             /\ Ordered(log \o Skips(c, n), budget) /\ DoneWith(log \o Skips(c, n), p + n)
  <2>1. Skips(c, n) \in Seq(Entry)
    BY <1>1, SkipsType
  <2>2. DOMAIN Skips(c, n) = 1..n
    BY DEF Skips
  <2>3. Len(Skips(c, n)) = n
    BY <2>1, <2>2, LenProperties
  <2>4. \A j \in 1..n : /\ Skips(c, n)[j].candidate = p + j
                        /\ Skips(c, n)[j].attempt = 0
                        /\ Skips(c, n)[j].result = "open-circuit-skip"
    BY DEF Skips
  <2> HIDE DEF log, p, budget
  <2> QED BY <1>1, <2>1, <2>3, <2>4, SkipsOrdered
<1>4. ASSUME NEW i \in DOMAIN candidates[c], EnterCandidate(c, known, i)
      PROVE  CallOK(c)' /\ \A d \in Calls \ {c} : Rests(d)
  <2>1. PICK n \in Nat : n = i - 1 - p
    BY <1>1, <1>4 DEF EnterCandidate
  <2>2. PICK new : new = log \o Skips(c, n)
    OBVIOUS
  <2>3. p + n = i - 1 /\ i \in Nat /\ i >= 1
    BY <1>1, <1>4, <2>1 DEF EnterCandidate
  <2>4. Ordered(new, budget) /\ DoneWith(new, i - 1)
    BY <1>3, <2>2, <2>3
  <2>5. /\ attempts' = [attempts EXCEPT ![c] = new] /\ position' = [position EXCEPT ![c] = i]
        /\ attempt' = [attempt EXCEPT ![c] = 1] /\ stage' = [stage EXCEPT ![c] = "attempt"]
        /\ emitted' = emitted
    BY <1>4, <2>1, <2>2 DEF EnterCandidate
  <2>6. /\ attempts'[c] = new /\ position'[c] = i /\ attempt'[c] = 1 /\ stage'[c] = "attempt"
        /\ emitted'[c] = Started /\ outcome'[c] = "none"
    BY <1>2, <2>5
  <2>7. Whereabouts("attempt", i, 1, new, Started)
    BY <2>4 DEF Whereabouts, Awaits, DoneWith
  <2>8. Truthful(new, Started, "none", candidates[c])
    BY <2>4, EventLists DEF Truthful, DoneWith
  <2>9. CallOK(c)'
    BY <1>2, <2>4, <2>6, <2>7, <2>8 DEF CallOK
  <2> QED BY <1>2, <2>5, <2>9 DEF Rests
<1>5. CASE ExhaustCandidates(c, known)
  <2>1. PICK n \in Nat : n = Len(candidates[c]) - p
    BY <1>1
  <2>2. PICK new : new = log \o Skips(c, n)
    OBVIOUS
  <2>3. p + n = Len(candidates[c])
    BY <1>1, <2>1
  <2>4. Ordered(new, budget) /\ DoneWith(new, Len(candidates[c]))
    BY <1>3, <2>2, <2>3
  <2>5. /\ attempts' = [attempts EXCEPT ![c] = new]
        /\ emitted' = [emitted EXCEPT ![c] = Failed]
        /\ stage' = [stage EXCEPT ![c] = "publish-failed"]
        /\ position' = [position EXCEPT ![c] = Len(candidates[c])] /\ attempt' = attempt
    BY <1>5, <2>1, <2>2, EventLists DEF ExhaustCandidates, Emit
  <2>6. /\ attempts'[c] = new /\ stage'[c] = "publish-failed"
        /\ emitted'[c] = Failed /\ outcome'[c] = "none"
    BY <1>2, <2>5
  <2>7. Truthful(new, Failed, "none", candidates[c])
    BY <2>4, EventLists DEF Truthful, DoneWith
  <2>8. Whereabouts("publish-failed", position'[c], attempt'[c], new, Failed)
    BY DEF Whereabouts
  <2>9. CallOK(c)'
    BY <1>2, <2>4, <2>6, <2>7, <2>8 DEF CallOK
  <2> QED BY <1>2, <2>5, <2>9 DEF Rests
<1> QED BY <1>4, <1>5 DEF NextCandidate

LEMMA ProgressCalls ==
  ASSUME TypeInv, NEW c \in Calls, CallOK(c), Progress(c)
  PROVE  CallOK(c)' /\ \A d \in Calls \ {c} : Rests(d)
<1> DEFINE Goal == CallOK(c)' /\ \A d \in Calls \ {c} : Rests(d)
<1> SUFFICES Goal
  OBVIOUS
<1>1. /\ stage \in [Calls -> Stages] /\ position \in [Calls -> Nat]
      /\ attempt \in [Calls -> Nat] /\ attempts \in [Calls -> Seq(Entry)]
      /\ emitted \in [Calls -> Seq(EventTypes)] /\ outcome \in [Calls -> Outcomes]
      /\ candidates \in [Calls -> Seq(Services)]
  BY DEF TypeInv, TypeOK
<1>2. /\ Ordered(attempts[c], held[c].retries + 1)
      /\ Truthful(attempts[c], emitted[c], outcome[c], candidates[c])
      /\ Whereabouts(stage[c], position[c], attempt[c], attempts[c], emitted[c])
      /\ stage[c] # "done" => outcome[c] = "none"
  BY DEF CallOK
<1>3. ASSUME stage[c] \in {"invoke-registry", "resolve-registry"}
      PROVE  attempts[c] = <<>> /\ emitted[c] = <<>>
  BY <1>2, <1>3 DEF Whereabouts
<1>4. CASE RegistryFails(c)
  <2>1. /\ stage[c] \in {"invoke-registry", "resolve-registry"}
        /\ stage' = [stage EXCEPT ![c] = "done"]
        /\ outcome' = [outcome EXCEPT ![c] = "no-candidates"]
        /\ UNCHANGED <<held, candidates, position, attempt, attempts, emitted>>
    BY <1>4 DEF RegistryFails, Finish
  <2>2. stage'[c] = "done" /\ outcome'[c] = "no-candidates"
    BY <1>1, <2>1
  <2>3. Truthful(<<>>, <<>>, "no-candidates", candidates[c])
    BY NothingDone, EventLists DEF Truthful
  <2>4. CallOK(c)'
    BY <1>2, <1>3, <2>1, <2>2, <2>3 DEF CallOK, Whereabouts
  <2> QED BY <2>1, <2>4 DEF Rests
<1>5. CASE InvokeCandidates(c)
  <2>1. PICK list :
          /\ candidates' = [candidates EXCEPT ![c] = list]
          /\ emitted' = [emitted EXCEPT ![c] = Append(emitted[c], "mesh.invocation.started")]
          /\ stage' = [stage EXCEPT ![c] = "publish-started"]
          /\ stage[c] = "invoke-registry"
          /\ UNCHANGED <<held, position, attempt, attempts, outcome>>
    BY <1>5 DEF InvokeCandidates, Emit
  <2>2. attempts[c] = <<>> /\ emitted[c] = <<>> /\ outcome[c] = "none"
    BY <1>2, <1>3, <2>1
  <2>3. candidates'[c] = list /\ emitted'[c] = Started /\ stage'[c] = "publish-started"
    BY <1>1, <2>1, <2>2, EventLists
  <2>4. Truthful(<<>>, Started, "none", list)
    BY NothingDone, EventLists DEF Truthful
  <2>5. Whereabouts("publish-started", position[c], attempt[c], <<>>, Started)
    BY DEF Whereabouts
  <2>6. CallOK(c)'
    BY <1>2, <2>1, <2>2, <2>3, <2>4, <2>5 DEF CallOK
  <2> QED BY <2>1, <2>6 DEF Rests
<1>6. CASE ResolveCandidates(c)
  <2>1. PICK list : candidates' = [candidates EXCEPT ![c] = list]
    BY <1>6 DEF ResolveCandidates
  <2>2. PICK event \in {"mesh.route.resolved", "mesh.route.blocked"} :
          emitted' = [emitted EXCEPT ![c] = Append(emitted[c], event)]
    BY <1>6 DEF ResolveCandidates, Emit
  <2>3. PICK result \in {"resolved", "blocked"} :
          /\ stage' = [stage EXCEPT ![c] = "done"]
          /\ outcome' = [outcome EXCEPT ![c] = result]
    BY <1>6 DEF ResolveCandidates, Finish
  <2>4. stage[c] = "resolve-registry" /\ UNCHANGED <<held, attempt, attempts>>
    BY <1>6 DEF ResolveCandidates
  <2>5. \A d \in Calls \ {c} : position'[d] = position[d]
    BY <1>1, <1>6 DEF ResolveCandidates
  <2>6. attempts[c] = <<>> /\ emitted[c] = <<>>
    BY <1>3, <2>4
  <2>7. /\ candidates'[c] = list /\ emitted'[c] \in {Resolved, Blocked}
        /\ stage'[c] = "done" /\ outcome'[c] = result
    BY <1>1, <2>1, <2>2, <2>3, <2>6, EventLists
  <2>8. Truthful(<<>>, emitted'[c], result, list)
    BY <2>7, NothingDone, EventLists DEF Truthful
  <2>9. Whereabouts("done", position'[c], attempt'[c], <<>>, emitted'[c])
    BY DEF Whereabouts
  <2>10. CallOK(c)'
    BY <1>2, <2>4, <2>6, <2>7, <2>8, <2>9 DEF CallOK
  <2> QED BY <2>1, <2>2, <2>3, <2>4, <2>5, <2>10 DEF Rests
<1>7. CASE StartPublished(c)
  <2>1. /\ stage[c] = "publish-started" /\ NextCandidate(c, circuits)
    BY <1>7 DEF StartPublished
  <2>2. /\ attempts[c] = <<>> /\ emitted[c] = Started /\ outcome[c] = "none" /\ position[c] = 0
    BY <1>2, <2>1, CallFields DEF Whereabouts
  <2> QED BY <2>1, <2>2, NothingDone, NextCandidateCalls
<1>8. ASSUME NEW r \in {"failed", "completed"}, Log(c, r), stage[c] = "attempt"
      PROVE  \E log : /\ attempts' = [attempts EXCEPT ![c] = log] /\ attempts'[c] = log
                      /\ Ordered(log, held[c].retries + 1)
                      /\ Covers(log, position[c]) /\ log # <<>>
                      /\ log[Len(log)] = [candidate |-> position[c], attempt |-> attempt[c],
                                          result |-> r]
                      /\ r = "failed" => Unanswered(log)
                      /\ r = "completed" => ~Unanswered(log)
  <2>1. PICK e : e = [candidate |-> position[c], attempt |-> attempt[c], result |-> r]
    OBVIOUS
  <2>2. PICK log : log = Append(attempts[c], e)
    OBVIOUS
  <2>3. attempts' = [attempts EXCEPT ![c] = log] /\ attempts'[c] = log
    BY <1>1, <1>8, <2>1, <2>2 DEF Log
  <2>4. Awaits(attempts[c], position[c], attempt[c])
    BY <1>2, <1>8 DEF Whereabouts
  <2>5. PICK budget \in Nat : budget = held[c].retries + 1
    BY CallFields
  <2>6. /\ attempts[c] \in Seq(Entry) /\ position[c] \in Nat /\ position[c] >= 1
        /\ attempt[c] \in 1..budget
    BY <1>8, <2>5, CallFields
  <2>7. Ordered(attempts[c], budget)
    BY <1>2, <2>5
  <2>8. /\ Ordered(log, budget) /\ Covers(log, position[c]) /\ log # <<>>
        /\ log[Len(log)] = e
        /\ r = "failed" => Unanswered(log)
        /\ r = "completed" => ~Unanswered(log)
    BY <2>1, <2>2, <2>4, <2>6, <2>7, AttemptOrdered
  <2> QED BY <2>1, <2>3, <2>5, <2>8
<1>9. stage[c] = "attempt" => emitted[c] = Started /\ outcome[c] = "none"
  BY <1>2 DEF Whereabouts
<1>10. CASE UpstreamAnswers(c)
  <2>1. /\ stage[c] = "attempt" /\ Log(c, "completed")
        /\ emitted' = [emitted EXCEPT ![c] = Append(emitted[c], "mesh.invocation.completed")]
        /\ stage' = [stage EXCEPT ![c] = "publish-completed"]
        /\ UNCHANGED <<held, candidates, position, attempt, outcome>>
    BY <1>10 DEF UpstreamAnswers, Emit
  <2>2. PICK log : /\ attempts' = [attempts EXCEPT ![c] = log] /\ attempts'[c] = log
                   /\ Ordered(log, held[c].retries + 1) /\ ~Unanswered(log)
    BY <1>8, <2>1
  <2>3. emitted'[c] = Answered /\ stage'[c] = "publish-completed"
    BY <1>1, <1>9, <2>1, EventLists
  <2>4. Truthful(log, Answered, "none", candidates[c])
    BY <2>2, EventLists DEF Truthful
  <2>5. Whereabouts("publish-completed", position[c], attempt[c], log, Answered)
    BY DEF Whereabouts
  <2>6. CallOK(c)'
    BY <1>9, <2>1, <2>2, <2>3, <2>4, <2>5 DEF CallOK
  <2> QED BY <2>1, <2>2, <2>6 DEF Rests
<1>11. CASE UpstreamFails(c)
  <2>1. /\ stage[c] = "attempt" /\ Log(c, "failed")
        /\ stage' = [stage EXCEPT ![c] = "reconsider"]
        /\ UNCHANGED <<held, candidates, position, attempt, emitted, outcome>>
    BY <1>11 DEF UpstreamFails
  <2>2. PICK log : /\ attempts' = [attempts EXCEPT ![c] = log] /\ attempts'[c] = log
                   /\ Ordered(log, held[c].retries + 1) /\ Unanswered(log)
                   /\ Covers(log, position[c]) /\ log # <<>>
                   /\ log[Len(log)] = [candidate |-> position[c], attempt |-> attempt[c],
                                       result |-> "failed"]
    BY <1>8, <2>1
  <2>3. stage'[c] = "reconsider"
    BY <1>1, <2>1
  <2>4. Truthful(log, Started, "none", candidates[c])
    BY <2>2, EventLists DEF Truthful
  <2>5. Whereabouts("reconsider", position[c], attempt[c], log, Started)
    BY <2>2 DEF Whereabouts, DoneWith
  <2>6. CallOK(c)'
    BY <1>9, <2>1, <2>2, <2>3, <2>4, <2>5 DEF CallOK
  <2> QED BY <2>1, <2>2, <2>6 DEF Rests
<1>12. CASE UpstreamRaises(c)
  <2>1. /\ stage[c] = "attempt" /\ stage' = [stage EXCEPT ![c] = "done"]
        /\ outcome' = [outcome EXCEPT ![c] = "raised"]
        /\ UNCHANGED <<held, candidates, position, attempt, attempts, emitted>>
    BY <1>12 DEF UpstreamRaises, Finish
  <2>2. stage'[c] = "done" /\ outcome'[c] = "raised"
    BY <1>1, <2>1
  <2>3. Truthful(attempts[c], emitted[c], "raised", candidates[c])
    BY <1>2 DEF Truthful
  <2>4. CallOK(c)'
    BY <1>2, <2>1, <2>2, <2>3 DEF CallOK, Whereabouts
  <2> QED BY <2>1, <2>4 DEF Rests
<1>13. ASSUME stage[c] = "reconsider"
       PROVE  /\ emitted[c] = Started /\ outcome[c] = "none"
              /\ DoneWith(attempts[c], position[c]) /\ attempts[c] # <<>>
              /\ attempts[c][Len(attempts[c])].attempt = attempt[c]
              /\ attempts[c][Len(attempts[c])].result = "failed"
  BY <1>2, <1>13 DEF Whereabouts
<1>14. CASE Retry(c)
  <2>1. /\ stage[c] = "reconsider" /\ attempt' = [attempt EXCEPT ![c] = attempt[c] + 1]
        /\ stage' = [stage EXCEPT ![c] = "attempt"]
        /\ UNCHANGED <<held, candidates, position, attempts, emitted, outcome>>
    BY <1>14 DEF Retry
  <2>2. stage'[c] = "attempt" /\ attempt'[c] = attempt[c] + 1 /\ attempt[c] \in Nat /\ attempt[c] >= 1
    BY <1>1, <2>1, CallFields
  <2>3. Covers(attempts[c], position[c] - 1)
    <3>1. position[c] \in Nat
      BY <1>1
    <3>2. \A k \in 1..position[c] - 1 : k \in 1..position[c]
      BY <3>1
    <3> QED BY <1>13, <2>1, <3>2 DEF DoneWith, Covers
  <2>4. attempt[c] + 1 # 1 /\ (attempt[c] + 1) - 1 = attempt[c]
    BY <2>2
  <2>5. Awaits(attempts[c], position[c], attempt[c] + 1)
    BY <1>13, <2>1, <2>3, <2>4 DEF Awaits, DoneWith
  <2>6. Whereabouts("attempt", position[c], attempt[c] + 1, attempts[c], emitted[c])
    BY <1>13, <2>1, <2>5 DEF Whereabouts
  <2>7. CallOK(c)'
    BY <1>2, <1>13, <2>1, <2>2, <2>6 DEF CallOK
  <2> QED BY <2>1, <2>7 DEF Rests
<1>15. CASE FailOver(c)
  BY <1>13, <1>15, NextCandidateCalls DEF FailOver
<1>16. CASE EndPublished(c)
  <2>1. PICK result : /\ \/ stage[c] = "publish-completed" /\ result = "answered"
                         \/ stage[c] = "publish-failed" /\ result = "exhausted"
                      /\ stage' = [stage EXCEPT ![c] = "done"]
                      /\ outcome' = [outcome EXCEPT ![c] = result]
                      /\ UNCHANGED <<held, candidates, position, attempt, attempts, emitted>>
    BY <1>16 DEF EndPublished, Finish
  <2>2. stage'[c] = "done" /\ outcome'[c] = result
    BY <1>1, <2>1
  <2>3. /\ result = "answered" => emitted[c] = Answered
        /\ result = "exhausted" => emitted[c] = Failed
    BY <1>2, <2>1 DEF Whereabouts
  <2>4. Truthful(attempts[c], emitted[c], result, candidates[c])
    BY <1>2, <2>3 DEF Truthful
  <2>5. CallOK(c)'
    BY <1>2, <2>1, <2>2, <2>4 DEF CallOK, Whereabouts
  <2> QED BY <2>1, <2>5 DEF Rests
<1> QED BY <1>4, <1>5, <1>6, <1>7, <1>10, <1>11, <1>12, <1>14, <1>15, <1>16 DEF Progress

\* What the operator, the clock and the start of a call do to the calls.
LEMMA StepCalls == CallsInv /\ [Next]_vars => CallsInv'
<1> SUFFICES ASSUME CallsInv, [Next]_vars PROVE CallsInv'
  OBVIOUS
<1>1. TypeInv /\ TypeInv' /\ \A c \in Calls : CallOK(c)
  BY StepTypeInv DEF CallsInv
<1>2. ASSUME \A d \in Calls : Rests(d) PROVE CallsInv'
  BY <1>1, <1>2, RestingCall DEF CallsInv
<1>3. ASSUME NEW c \in Calls, CallOK(c)', \A d \in Calls \ {c} : Rests(d) PROVE CallsInv'
  BY <1>1, <1>3, RestingCall DEF CallsInv
<1>4. CASE UNCHANGED vars
  BY <1>2, <1>4 DEF vars, callVars, Rests
<1>5. ASSUME NEW c \in Calls, Progress(c) PROVE CallsInv'
  BY <1>1, <1>3, <1>5, ProgressCalls
<1>6. ASSUME NEW c \in Calls, BeginInvoke(c) \/ BeginResolve(c) PROVE CallsInv'
  <2>1. PICK next \in {"invoke-registry", "resolve-registry"}, k \in Capabilities :
          /\ stage[c] = "new"
          /\ held' = [held EXCEPT ![c] = policies[k]]
          /\ stage' = [stage EXCEPT ![c] = next]
          /\ UNCHANGED <<candidates, position, attempt, attempts, emitted, outcome>>
    BY <1>6 DEF BeginInvoke, BeginResolve, Begin
  <2>2. stage'[c] = next /\ stage \in [Calls -> Stages]
    BY <1>1, <2>1 DEF TypeInv, TypeOK
  <2>3. attempts[c] = <<>> /\ emitted[c] = <<>> /\ outcome[c] = "none"
    BY <1>1, <2>1 DEF CallOK, Whereabouts
  <2>4. Truthful(<<>>, <<>>, "none", candidates[c])
    BY NothingDone, EventLists DEF Truthful
  <2>5. CallOK(c)'
    BY <2>1, <2>2, <2>3, <2>4, NothingDone DEF CallOK, Whereabouts
  <2> QED BY <1>3, <2>1, <2>5 DEF Rests
<1>7. ASSUME UNCHANGED callVars PROVE CallsInv'
  BY <1>2, <1>7 DEF callVars, Rests
<1> QED BY <1>4, <1>5, <1>6, <1>7 DEF Next, SetPolicy, ResetCircuit, Tick

-----------------------------------------------------------------------------
(* The theorems                                                            *)

\* The attempts log of invoke() is the deterministic failover order over the
\* ranked list, within the retries of the policy the call began with.
THEOREM FailoverIsInOrder == Spec => []FailoverInOrder
<1>1. CallsInv => FailoverInOrder
  <2> SUFFICES ASSUME CallsInv, NEW c \in Calls
               PROVE  LET log == attempts[c] IN
                      /\ log # <<>> => log[1].candidate = 1 /\ log[1].attempt \in 0..1
                      /\ \A i \in 1..Len(log) - 1 :
                           \/ /\ log[i].result = "failed"
                              /\ log[i + 1].candidate = log[i].candidate
                              /\ log[i + 1].attempt = log[i].attempt + 1
                              /\ log[i + 1].attempt <= held[c].retries + 1
                           \/ /\ log[i].result # "completed"
                              /\ log[i + 1].candidate = log[i].candidate + 1
                              /\ log[i + 1].attempt \in 0..1
                      /\ \A i \in 1..Len(log) :
                           log[i].attempt = 0 <=> log[i].result = "open-circuit-skip"
    BY DEF FailoverInOrder
  <2>1. Ordered(attempts[c], held[c].retries + 1)
    BY DEF CallsInv, CallOK
  <2> QED BY <2>1 DEF Ordered, Opens, Follows, SkipsAreUnattempted
<1> QED BY <1>1, InitCalls, StepCalls, PTL DEF Spec

\* The mesh.* events of a call of invoke() or resolve() tell the truth about it.
THEOREM TelemetryIsTrue == Spec => []TelemetryMatchesOutcome
<1>1. CallsInv => TelemetryMatchesOutcome
  <2> SUFFICES ASSUME CallsInv PROVE TelemetryMatchesOutcome
    OBVIOUS
  <2>1. ASSUME NEW c \in Calls
        PROVE  /\ Truthful(attempts[c], emitted[c], outcome[c], candidates[c])
               /\ DOMAIN candidates[c] = 1..Len(candidates[c])
    BY CallFields, LenProperties DEF CallsInv, CallOK
  <2>2. ASSUME NEW c \in Calls PROVE Completed(c) <=> ~Unanswered(attempts[c])
    BY DEF Completed, Unanswered
  <2> QED BY <2>1, <2>2
          DEF TelemetryMatchesOutcome, Truthful, Covers,
              Started, Answered, Failed, Resolved, Blocked
<1> QED BY <1>1, InitCalls, StepCalls, PTL DEF Spec

-----------------------------------------------------------------------------
(* The work of a call                                                      *)

\* The n entries of a call's log, by the place where it is suspended: at
\* candidate p all the earlier ones have had at most their budget.
Spent(place, p, a, n, budget, size) ==
  CASE place = "attempt" -> n <= (p - 1) * budget + (a - 1)
    [] place = "reconsider" -> n <= (p - 1) * budget + a
    [] OTHER -> n <= size * budget

WorkOK(c) ==
  Spent(stage[c], position[c], attempt[c], Len(attempts[c]), held[c].retries + 1,
        Len(candidates[c]))

\* A candidate costs at least one entry of a budget that is not zero.
LEMMA Budgets ==
  ASSUME NEW p \in Nat, NEW k \in Nat, NEW budget \in Nat, budget >= 1
  PROVE  /\ p * budget \in Nat
         /\ (p + k) * budget = p * budget + k * budget
         /\ k * budget >= k
         /\ (p - 1) * budget + budget = p * budget
         /\ p * budget <= (p + k) * budget
<1>1. p * budget \in Nat /\ k * budget \in Nat
  OBVIOUS
<1>2. (p + k) * budget = p * budget + k * budget
  OBVIOUS
<1>3. k * budget >= k
  <2>1. k * budget = k + k * (budget - 1)
    OBVIOUS
  <2>2. budget - 1 \in Nat
    OBVIOUS
  <2>3. k * (budget - 1) \in Nat
    BY <2>2
  <2> QED BY <2>1, <2>3
<1>4. (p - 1) * budget + budget = p * budget
  OBVIOUS
<1> QED BY <1>1, <1>2, <1>3, <1>4

LEMMA NoWork ==
  ASSUME NEW size \in Nat, NEW budget \in Nat
  PROVE  0 <= size * budget
OBVIOUS

\* From a candidate that cost no more than its budget, k refusals on.
LEMMA RefusalsSpend ==
  ASSUME NEW n \in Nat, NEW p \in Nat, NEW k \in Nat, NEW budget \in Nat, budget >= 1,
         n <= p * budget
  PROVE  n + k <= (p + k) * budget
BY Budgets

LEMMA WorkFields ==
  ASSUME TypeInv, NEW c \in Calls
  PROVE  /\ Len(attempts[c]) \in Nat /\ Len(candidates[c]) \in Nat
         /\ position[c] \in Nat /\ attempt[c] \in Nat
         /\ position[c] <= Len(candidates[c])
         /\ held[c].retries + 1 \in Nat /\ held[c].retries + 1 >= 1
         /\ stage[c] \in {"attempt", "reconsider"} =>
              position[c] >= 1 /\ attempt[c] >= 1 /\ attempt[c] <= held[c].retries + 1
BY CallFields, LogAt DEF TypeInv, TypeOK

LEMMA NextCandidateWork ==
  ASSUME TypeInv, NEW c \in Calls, NEW known, NextCandidate(c, known),
         Len(attempts[c]) <= position[c] * (held[c].retries + 1)
  PROVE  WorkOK(c)'
<1> DEFINE n == Len(attempts[c])
           p == position[c]
           budget == held[c].retries + 1
           size == Len(candidates[c])
<1>1. /\ n \in Nat /\ p \in Nat /\ p <= size /\ size \in Nat /\ budget \in Nat /\ budget >= 1
      /\ n <= p * budget
  BY WorkFields
<1>2. /\ held'[c].retries + 1 = budget /\ Len(candidates'[c]) = size
      /\ stage \in [Calls -> Stages] /\ position \in [Calls -> Nat]
      /\ attempt \in [Calls -> Nat] /\ attempts \in [Calls -> Seq(Entry)]
      /\ attempts[c] \in Seq(Entry)
  BY DEF NextCandidate, TypeInv, TypeOK
<1>3. ASSUME NEW k \in Nat
      PROVE  Len(attempts[c] \o Skips(c, k)) = n + k
  <2>1. Skips(c, k) \in Seq(Entry) /\ DOMAIN Skips(c, k) = 1..k
    BY <1>1, SkipsType DEF Skips
  <2>2. Len(Skips(c, k)) = k
    BY <2>1, LenProperties
  <2>3. Len(attempts[c] \o Skips(c, k)) = Len(attempts[c]) + Len(Skips(c, k))
    BY <1>2, <2>1, ConcatProperties
  <2> QED BY <2>2, <2>3
<1>4. ASSUME NEW i \in DOMAIN candidates[c], EnterCandidate(c, known, i)
      PROVE  WorkOK(c)'
  <2>1. PICK k \in Nat : k = i - 1 - p
    BY <1>1, <1>4 DEF EnterCandidate
  <2>2. i \in Nat /\ p + k = i - 1
    BY <1>1, <1>4, <2>1 DEF EnterCandidate
  <2>3. /\ attempts' = [attempts EXCEPT ![c] = @ \o Skips(c, k)]
        /\ position' = [position EXCEPT ![c] = i]
        /\ attempt' = [attempt EXCEPT ![c] = 1]
        /\ stage' = [stage EXCEPT ![c] = "attempt"]
    BY <1>4, <2>1 DEF EnterCandidate
  <2>4. /\ Len(attempts'[c]) = n + k /\ position'[c] = i /\ attempt'[c] = 1
        /\ stage'[c] = "attempt"
    BY <1>2, <1>3, <2>3
  <2>5. n + k <= (i - 1) * budget + (1 - 1)
    <3> HIDE DEF n, p, budget, size
    <3>1. n + k <= (p + k) * budget
      BY <1>1, RefusalsSpend
    <3>2. (p + k) * budget = (i - 1) * budget /\ (p + k) * budget \in Nat
      BY <1>1, <2>2
    <3> QED BY <1>1, <3>1, <3>2
  <2>6. Spent("attempt", i, 1, n + k, budget, size)
    BY <2>5 DEF Spent
  <2> QED BY <1>2, <2>4, <2>6 DEF WorkOK
<1>5. CASE ExhaustCandidates(c, known)
  <2>1. PICK k \in Nat : k = size - p
    BY <1>1
  <2>2. /\ attempts' = [attempts EXCEPT ![c] = @ \o Skips(c, k)]
        /\ stage' = [stage EXCEPT ![c] = "publish-failed"]
    BY <1>5, <2>1 DEF ExhaustCandidates
  <2>3. Len(attempts'[c]) = n + k /\ stage'[c] = "publish-failed"
    BY <1>2, <1>3, <2>2
  <2>4. n + k <= size * budget
    <3> HIDE DEF n, p, budget, size
    <3>1. n + k <= (p + k) * budget
      BY <1>1, RefusalsSpend
    <3>2. p + k = size
      BY <1>1, <2>1
    <3> QED BY <3>1, <3>2
  <2>5. Spent("publish-failed", position'[c], attempt'[c], n + k, budget, size)
    BY <2>4 DEF Spent
  <2> QED BY <1>2, <2>3, <2>5 DEF WorkOK
<1> QED BY <1>4, <1>5 DEF NextCandidate

LEMMA ProgressWork ==
  ASSUME TypeInv, NEW c \in Calls, CallOK(c), WorkOK(c), Progress(c)
  PROVE  WorkOK(c)'
<1> DEFINE n == Len(attempts[c])
           p == position[c]
           a == attempt[c]
           budget == held[c].retries + 1
           size == Len(candidates[c])
<1>1. /\ n \in Nat /\ p \in Nat /\ p <= size /\ size \in Nat /\ a \in Nat
      /\ budget \in Nat /\ budget >= 1
      /\ stage[c] \in {"attempt", "reconsider"} => p >= 1 /\ a >= 1 /\ a <= budget
  BY WorkFields
<1>2. /\ stage \in [Calls -> Stages] /\ attempt \in [Calls -> Nat]
      /\ attempts \in [Calls -> Seq(Entry)] /\ attempts[c] \in Seq(Entry)
      /\ candidates \in [Calls -> Seq(Services)]
  BY DEF TypeInv, TypeOK
<1>3. Spent(stage[c], p, a, n, budget, size)
  BY DEF WorkOK
<1>4. p * budget <= size * budget /\ (p - 1) * budget + budget = p * budget /\ p * budget \in Nat
  <2>1. PICK k \in Nat : size = p + k
    <3>1. size - p \in Nat /\ size = p + (size - p)
      BY <1>1
    <3> QED BY <3>1
  <2> HIDE DEF p, budget, size
  <2>2. p * budget <= (p + k) * budget /\ (p - 1) * budget + budget = p * budget /\ p * budget \in Nat
    BY <1>1, Budgets
  <2> QED BY <2>1, <2>2
\* Through "reconsider" the candidate has cost its budget at most.
<1>5. ASSUME stage[c] = "attempt"
      PROVE  /\ n <= (p - 1) * budget + (a - 1)
             /\ n + 1 <= (p - 1) * budget + a
             /\ n + 1 <= size * budget
  <2>1. n <= (p - 1) * budget + (a - 1)
    BY <1>3, <1>5 DEF Spent
  <2>2. (p - 1) * budget \in Int /\ size * budget \in Int
    BY <1>1
  <2> HIDE DEF n, p, a, budget, size
  <2> QED BY <1>1, <1>4, <1>5, <2>1, <2>2
<1>6. ASSUME stage[c] = "reconsider"
      PROVE  n <= (p - 1) * budget + a /\ n <= p * budget
  <2>1. n <= (p - 1) * budget + a
    BY <1>3, <1>6 DEF Spent
  <2>2. (p - 1) * budget \in Int
    BY <1>1
  <2> HIDE DEF n, p, a, budget, size
  <2> QED BY <1>1, <1>4, <1>6, <2>1, <2>2
<1>7. CASE RegistryFails(c) \/ UpstreamRaises(c) \/ EndPublished(c)
  <2>1. /\ stage'[c] = "done"
        /\ UNCHANGED <<held, candidates, position, attempt, attempts>>
    BY <1>2, <1>7 DEF RegistryFails, UpstreamRaises, EndPublished, Finish
  <2>2. n <= size * budget
    <3>1. CASE stage[c] = "attempt"
      <4>1. size * budget \in Int
        BY <1>1
      <4> HIDE DEF n, p, a, budget, size
      <4> QED BY <1>1, <1>5, <3>1, <4>1
    <3>2. CASE stage[c] \notin {"attempt", "reconsider"}
      BY <1>3, <3>2 DEF Spent
    <3> QED BY <1>7, <3>1, <3>2 DEF RegistryFails, UpstreamRaises, EndPublished
  <2>3. Spent("done", p, a, n, budget, size)
    BY <2>2 DEF Spent
  <2> QED BY <2>1, <2>3 DEF WorkOK
<1>8. CASE InvokeCandidates(c) \/ ResolveCandidates(c)
  <2>1. /\ stage[c] \in {"invoke-registry", "resolve-registry"}
        /\ stage'[c] \in {"publish-started", "done"}
        /\ UNCHANGED <<held, attempts>>
        /\ \E list \in CandidateLists : candidates' = [candidates EXCEPT ![c] = list]
    BY <1>2, <1>8 DEF InvokeCandidates, ResolveCandidates, Finish
  <2>2. attempts[c] = <<>>
    BY <2>1 DEF CallOK, Whereabouts
  <2>3. n = 0
    BY <2>2, EmptySeq
  <2>4. candidates'[c] \in Seq(Services)
    BY <1>2, <2>1, CandidateListsValid
  <2>5. Len(candidates'[c]) \in Nat
    BY <2>4, LenProperties
  <2>6. 0 <= Len(candidates'[c]) * budget
    BY <1>1, <2>5, Budgets
  <2>7. Spent(stage'[c], position'[c], attempt'[c], 0, budget, Len(candidates'[c]))
    BY <2>1, <2>6 DEF Spent
  <2> QED BY <2>1, <2>3, <2>7 DEF WorkOK
<1>9. CASE StartPublished(c)
  <2>1. n = 0
    BY <1>9, EmptySeq DEF StartPublished, CallOK, Whereabouts
  <2>2. n <= p * budget
    BY <1>4, <2>1
  <2> QED BY <1>9, <2>2, NextCandidateWork DEF StartPublished
<1>10. CASE FailOver(c)
  BY <1>6, <1>10, NextCandidateWork DEF FailOver
<1>11. CASE UpstreamAnswers(c) \/ UpstreamFails(c)
  <2>1. /\ stage[c] = "attempt"
        /\ \E e : attempts' = [attempts EXCEPT ![c] = Append(@, e)] /\ e \in Entry
        /\ UNCHANGED <<held, candidates, position, attempt>>
    BY <1>1, <1>11 DEF UpstreamAnswers, UpstreamFails, Log, Entry
  <2>2. Len(attempts'[c]) = n + 1
    BY <1>2, <2>1, AppendProperties
  <2>3. CASE stage'[c] = "publish-completed"
    <3>1. Spent("publish-completed", p, a, n + 1, budget, size)
      BY <1>5, <2>1 DEF Spent
    <3> QED BY <2>1, <2>2, <2>3, <3>1 DEF WorkOK
  <2>4. CASE stage'[c] = "reconsider"
    <3>1. Spent("reconsider", p, a, n + 1, budget, size)
      BY <1>5, <2>1 DEF Spent
    <3> QED BY <2>1, <2>2, <2>4, <3>1 DEF WorkOK
  <2> QED BY <1>2, <1>11, <2>3, <2>4 DEF UpstreamAnswers, UpstreamFails
<1>12. CASE Retry(c)
  <2>1. /\ stage[c] = "reconsider" /\ stage'[c] = "attempt" /\ attempt'[c] = a + 1
        /\ UNCHANGED <<held, candidates, position, attempts>>
    BY <1>2, <1>12 DEF Retry
  <2>2. (a + 1) - 1 = a
    BY <1>1
  <2>3. n <= (p - 1) * budget + ((a + 1) - 1)
    BY <1>6, <2>1, <2>2
  <2>4. Spent("attempt", p, a + 1, n, budget, size)
    BY <2>3 DEF Spent
  <2> QED BY <2>1, <2>4 DEF WorkOK
<1> QED BY <1>7, <1>8, <1>9, <1>10, <1>11, <1>12 DEF Progress

\* A call makes no more attempts than its list times the attempts its policy
\* grants at each candidate, under any resets and policy changes.
THEOREM WorkIsBounded == Spec => []AttemptsBounded
<1> DEFINE Inv == CallsInv /\ \A c \in Calls : WorkOK(c)
<1>1. Init => Inv
  <2> SUFFICES ASSUME Init, NEW c \in Calls PROVE WorkOK(c)
    BY InitCalls
  <2>1. stage[c] = "new" /\ Len(attempts[c]) = 0
    BY EmptySeq DEF Init
  <2>2. Len(candidates[c]) \in Nat /\ held[c].retries + 1 \in Nat
    BY InitTypeInv, WorkFields
  <2>3. 0 <= Len(candidates[c]) * (held[c].retries + 1)
    BY <2>2, NoWork
  <2>4. Spent("new", position[c], attempt[c], 0, held[c].retries + 1, Len(candidates[c]))
    BY <2>3 DEF Spent
  <2> QED BY <2>1, <2>4 DEF WorkOK
<1>2. Inv /\ [Next]_vars => Inv'
  <2> SUFFICES ASSUME Inv, [Next]_vars, NEW c \in Calls PROVE WorkOK(c)'
    BY StepCalls
  <2>1. /\ TypeInv /\ TypeInv' /\ CallOK(c) /\ WorkOK(c)
        /\ stage \in [Calls -> Stages]
    BY StepCalls DEF CallsInv, TypeInv, TypeOK
  <2>2. CASE Rests(c)
    BY <2>1, <2>2 DEF Rests, WorkOK
  <2>3. CASE Progress(c)
    BY <2>1, <2>3, ProgressWork
  <2>4. ASSUME NEW d \in Calls, Progress(d), d # c PROVE Rests(c)
    BY <2>1, <2>4, ProgressCalls DEF CallsInv
  <2>5. ASSUME NEW d \in Calls, BeginInvoke(d) \/ BeginResolve(d) PROVE Rests(c) \/ WorkOK(c)'
    <3>1. PICK next \in {"invoke-registry", "resolve-registry"}, k \in Capabilities :
            /\ stage[d] = "new"
            /\ held' = [held EXCEPT ![d] = policies[k]]
            /\ stage' = [stage EXCEPT ![d] = next]
            /\ UNCHANGED <<candidates, position, attempt, attempts, emitted, outcome>>
      BY <2>5 DEF BeginInvoke, BeginResolve, Begin
    <3>2. CASE d # c
      BY <3>1, <3>2 DEF Rests
    <3>3. CASE d = c
      <4>1. Len(attempts'[c]) = 0 /\ stage'[c] = next
        BY <2>1, <3>1, <3>3, EmptySeq DEF CallOK, Whereabouts
      <4>2. 0 <= Len(candidates'[c]) * (held'[c].retries + 1)
        <5>1. /\ Len(candidates'[c]) \in Nat
              /\ held'[c].retries + 1 \in Nat /\ held'[c].retries + 1 >= 1
          <6>1. TypeInv' => /\ Len(candidates'[c]) \in Nat
                            /\ held'[c].retries + 1 \in Nat /\ held'[c].retries + 1 >= 1
            <7>1. ASSUME TypeInv'
                  PROVE  held'[c] \in Policies /\ candidates'[c] \in Seq(Services)
              BY <7>1 DEF TypeInv, TypeOK
            <7> QED BY <7>1, PolicyFields, LenProperties
          <6> QED BY <2>1, <6>1
        <5> QED BY <5>1, NoWork
      <4>3. Spent(next, position'[c], attempt'[c], 0, held'[c].retries + 1,
                  Len(candidates'[c]))
        BY <4>2 DEF Spent
      <4> QED BY <4>1, <4>3 DEF WorkOK
    <3> QED BY <3>2, <3>3
  <2>6. CASE UNCHANGED callVars
    BY <2>2, <2>6 DEF callVars, Rests
  <2> QED BY <2>2, <2>3, <2>4, <2>5, <2>6
          DEF Next, SetPolicy, ResetCircuit, Tick, vars
<1>3. Inv => AttemptsBounded
  <2> SUFFICES ASSUME Inv, NEW c \in Calls
               PROVE  Len(attempts[c]) <= Len(candidates[c]) * (held[c].retries + 1)
    BY DEF AttemptsBounded
  <2> DEFINE n == Len(attempts[c])
             p == position[c]
             a == attempt[c]
             budget == held[c].retries + 1
             size == Len(candidates[c])
  <2>1. /\ n \in Nat /\ p \in Nat /\ p <= size /\ size \in Nat /\ a \in Nat
        /\ budget \in Nat /\ budget >= 1
        /\ stage[c] \in {"attempt", "reconsider"} => p >= 1 /\ a >= 1 /\ a <= budget
    BY WorkFields DEF CallsInv
  <2>2. Spent(stage[c], p, a, n, budget, size)
    BY DEF WorkOK
  <2>3. stage[c] \in {"attempt", "reconsider"} => n <= (p - 1) * budget + a
    <3>1. (p - 1) * budget \in Int
      BY <2>1
    <3>2. CASE stage[c] = "attempt"
      <4>1. n <= (p - 1) * budget + (a - 1)
        BY <2>2, <3>2 DEF Spent
      <4> HIDE DEF n, p, a, budget, size
      <4> QED BY <2>1, <3>1, <4>1
    <3>3. CASE stage[c] = "reconsider"
      BY <2>2, <3>3 DEF Spent
    <3> QED BY <3>2, <3>3
  <2>4. CASE stage[c] \in {"attempt", "reconsider"}
    <3>1. PICK k \in Nat : size = p + k
      <4>1. size - p \in Nat /\ size = p + (size - p)
        BY <2>1
      <4> QED BY <4>1
    <3>2. (p - 1) * budget \in Int /\ size * budget \in Int
      BY <2>1
    <3> HIDE DEF n, p, a, budget, size
    <3>3. p * budget <= (p + k) * budget /\ (p - 1) * budget + budget = p * budget
      BY <2>1, Budgets
    <3>4. p * budget <= size * budget /\ p * budget \in Int
      BY <2>1, <3>1, <3>3
    <3>5. n <= size * budget
      BY <2>1, <2>3, <2>4, <3>2, <3>3, <3>4
    <3> QED BY <3>5 DEF n, budget, size
  <2>5. CASE stage[c] \notin {"attempt", "reconsider"}
    BY <2>2, <2>5 DEF Spent
  <2> QED BY <2>4, <2>5
<1> QED BY <1>1, <1>2, <1>3, PTL DEF Spec

-----------------------------------------------------------------------------
(* Why a call ends                                                         *)

\* StepsLeft, of what it depends on.
Left(place, p, a, allowance, size) ==
  CASE place = "publish-started" -> 2 * ((size - p) * allowance) + 2
    [] place = "attempt" -> 2 * ((size - p) * allowance + (allowance - a)) + 3
    [] place = "reconsider" -> 2 * ((size - p) * allowance + (allowance - a)) + 2
    [] place \in {"publish-completed", "publish-failed"} -> 1
    [] OTHER -> 0

LEMMA StepsLeftIsLeft ==
  ASSUME NEW c
  PROVE  StepsLeft(c) = Left(stage[c], position[c], attempt[c], held[c].retries + 1,
                             Len(candidates[c]))
BY DEF StepsLeft, Left

\* The allowance of the providers beyond p, and beyond a later one.
LEMMA Beyond ==
  ASSUME NEW p \in Nat, NEW size \in Nat, p <= size, NEW allowance \in Nat, allowance >= 1
  PROVE  /\ (size - p) * allowance \in Nat
         /\ \A i \in p + 1 .. size :
              /\ (size - i) * allowance \in Nat
              /\ (size - i) * allowance + allowance <= (size - p) * allowance
<1>1. (size - p) * allowance \in Nat
  <2>1. size - p \in Nat
    OBVIOUS
  <2> QED BY <2>1, Budgets
<1>2. ASSUME NEW i \in p + 1 .. size
      PROVE  /\ (size - i) * allowance \in Nat
             /\ (size - i) * allowance + allowance <= (size - p) * allowance
  <2>1. PICK m \in Nat : m = size - i
    OBVIOUS
  <2>2. PICK k \in Nat : k = i - p
    OBVIOUS
  <2>3. size - p = m + k /\ k >= 1
    BY <2>1, <2>2
  <2>4. m * allowance \in Nat /\ (m + k) * allowance = m * allowance + k * allowance
    BY Budgets
  <2>5. k * allowance \in Nat /\ k * allowance >= allowance
    <3>1. PICK j \in Nat : k = j + 1
      <4>1. k - 1 \in Nat /\ k = (k - 1) + 1
        BY <2>3
      <4> QED BY <4>1
    <3>2. (j + 1) * allowance = j * allowance + allowance /\ j * allowance \in Nat
      OBVIOUS
    <3> QED BY <3>1, <3>2
  <2> QED BY <2>1, <2>3, <2>4, <2>5
<1> QED BY <1>1, <1>2

LEMMA NextCandidateWinds ==
  ASSUME TypeInv, NEW c \in Calls, NEW known, NextCandidate(c, known),
         stage[c] \in {"publish-started", "reconsider"}
  PROVE  StepsLeft(c)' \in 0 .. StepsLeft(c) - 1
<1> DEFINE p == position[c]
           a == attempt[c]
           allowance == held[c].retries + 1
           size == Len(candidates[c])
           beyond == (size - p) * allowance
<1>1. /\ p \in Nat /\ p <= size /\ size \in Nat /\ a \in Nat
      /\ allowance \in Nat /\ allowance >= 1
      /\ stage[c] = "reconsider" => a <= allowance
  BY WorkFields
<1>2. /\ held'[c].retries + 1 = allowance /\ Len(candidates'[c]) = size
      /\ stage \in [Calls -> Stages] /\ position \in [Calls -> Nat]
      /\ attempt \in [Calls -> Nat]
  BY DEF NextCandidate, TypeInv, TypeOK
<1>3. StepsLeft(c) = Left(stage[c], p, a, allowance, size)
  BY StepsLeftIsLeft
<1>4. StepsLeft(c)' = Left(stage'[c], position'[c], attempt'[c], allowance, size)
  <2>1. StepsLeft(c)' = Left(stage'[c], position'[c], attempt'[c], held'[c].retries + 1,
                             Len(candidates'[c]))
    BY DEF StepsLeft, Left
  <2> QED BY <1>2, <2>1
<1>5. beyond \in Nat
  BY <1>1, Beyond
<1>6. StepsLeft(c) \in Nat /\ StepsLeft(c) >= 2 * beyond + 2
  <2>1. CASE stage[c] = "publish-started"
    <3>1. StepsLeft(c) = 2 * beyond + 2
      BY <1>3, <2>1 DEF Left
    <3> HIDE DEF beyond
    <3> QED BY <1>5, <3>1
  <2>2. CASE stage[c] = "reconsider"
    <3>1. StepsLeft(c) = 2 * (beyond + (allowance - a)) + 2
      BY <1>3, <2>2 DEF Left
    <3> HIDE DEF beyond, allowance, a
    <3> QED BY <1>1, <1>5, <2>2, <3>1
  <2> QED BY <2>1, <2>2
<1>7. ASSUME NEW i \in DOMAIN candidates[c], EnterCandidate(c, known, i)
      PROVE  StepsLeft(c)' \in 0 .. StepsLeft(c) - 1
  <2>1. /\ stage'[c] = "attempt" /\ position'[c] = i /\ attempt'[c] = 1
        /\ i \in p + 1 .. size
    BY <1>2, <1>7 DEF EnterCandidate
  <2>2. StepsLeft(c)' = 2 * ((size - i) * allowance + (allowance - 1)) + 3
    BY <1>4, <2>1 DEF Left
  <2>3. PICK rest \in Nat : rest = (size - i) * allowance /\ rest + allowance <= beyond
    BY <1>1, <2>1, Beyond
  <2>4. StepsLeft(c)' = 2 * (rest + (allowance - 1)) + 3
    BY <2>2, <2>3
  <2> HIDE DEF beyond, allowance, size, p
  <2> QED BY <1>1, <1>5, <1>6, <2>3, <2>4
<1>8. CASE ExhaustCandidates(c, known)
  <2>1. stage'[c] = "publish-failed"
    BY <1>2, <1>8 DEF ExhaustCandidates
  <2>2. StepsLeft(c)' = 1
    BY <1>4, <2>1 DEF Left
  <2> HIDE DEF beyond
  <2> QED BY <1>5, <1>6, <2>2
<1> QED BY <1>7, <1>8 DEF NextCandidate

LEMMA AttemptWinds ==
  ASSUME TypeInv, NEW c \in Calls,
         \/ UpstreamAnswers(c) \/ UpstreamFails(c) \/ UpstreamRaises(c)
         \/ Retry(c) \/ EndPublished(c)
  PROVE  StepsLeft(c)' \in 0 .. StepsLeft(c) - 1
<1> DEFINE p == position[c]
           a == attempt[c]
           allowance == held[c].retries + 1
           size == Len(candidates[c])
           beyond == (size - p) * allowance
<1>1. /\ p \in Nat /\ p <= size /\ size \in Nat /\ a \in Nat
      /\ allowance \in Nat /\ allowance >= 1
      /\ stage[c] \in {"attempt", "reconsider"} => a <= allowance
  BY WorkFields
<1>2. /\ held' = held /\ candidates' = candidates /\ position' = position
      /\ stage \in [Calls -> Stages] /\ attempt \in [Calls -> Nat]
  BY DEF UpstreamAnswers, UpstreamFails, UpstreamRaises, Retry, EndPublished, TypeInv, TypeOK
<1>3. StepsLeft(c) = Left(stage[c], p, a, allowance, size)
  BY StepsLeftIsLeft
<1>4. StepsLeft(c)' = Left(stage'[c], p, attempt'[c], allowance, size)
  <2>1. StepsLeft(c)' = Left(stage'[c], position'[c], attempt'[c], held'[c].retries + 1,
                             Len(candidates'[c]))
    BY DEF StepsLeft, Left
  <2> QED BY <1>2, <2>1
<1>5. beyond \in Nat
  BY <1>1, Beyond
<1>6. stage[c] = "attempt" => StepsLeft(c) = 2 * (beyond + (allowance - a)) + 3
  BY <1>3 DEF Left
<1>7. CASE UpstreamAnswers(c) \/ UpstreamRaises(c)
  <2>1. stage[c] = "attempt" /\ stage'[c] \in {"publish-completed", "done"}
    BY <1>2, <1>7 DEF UpstreamAnswers, UpstreamRaises, Finish
  <2>2. StepsLeft(c)' \in {0, 1}
    BY <1>4, <2>1 DEF Left
  <2> HIDE DEF beyond, allowance, a
  <2> QED BY <1>1, <1>5, <1>6, <2>1, <2>2
<1>8. CASE UpstreamFails(c)
  <2>1. stage[c] = "attempt" /\ stage'[c] = "reconsider" /\ attempt'[c] = a
    BY <1>2, <1>8 DEF UpstreamFails
  <2>2. StepsLeft(c)' = 2 * (beyond + (allowance - a)) + 2
    BY <1>4, <2>1 DEF Left
  <2> HIDE DEF beyond, allowance, a
  <2> QED BY <1>1, <1>5, <1>6, <2>1, <2>2
<1>9. CASE Retry(c)
  <2>1. /\ stage[c] = "reconsider" /\ stage'[c] = "attempt" /\ attempt'[c] = a + 1
        /\ a <= held[c].retries
    BY <1>2, <1>9 DEF Retry, MayRetry
  <2>2. a + 1 <= allowance
    <3>1. PICK r \in Nat : r = held[c].retries
      BY CallFields
    <3>2. a <= r /\ allowance = r + 1
      BY <2>1, <3>1
    <3> HIDE DEF a, allowance
    <3> QED BY <1>1, <3>1, <3>2
  <2>3. StepsLeft(c)' = 2 * (beyond + (allowance - (a + 1))) + 3
    BY <1>4, <2>1 DEF Left
  <2>4. StepsLeft(c) = 2 * (beyond + (allowance - a)) + 2
    BY <1>3, <2>1 DEF Left
  <2> HIDE DEF beyond, allowance, a
  <2> QED BY <1>1, <1>5, <2>1, <2>2, <2>3, <2>4
<1>10. CASE EndPublished(c)
  <2>1. stage[c] \in {"publish-completed", "publish-failed"} /\ stage'[c] = "done"
    BY <1>2, <1>10 DEF EndPublished, Finish
  <2>2. StepsLeft(c)' = 0
    BY <1>4, <2>1 DEF Left
  <2>3. StepsLeft(c) = 1
    BY <1>3, <2>1 DEF Left
  <2> QED BY <2>2, <2>3
<1> QED BY <1>7, <1>8, <1>9, <1>10

\* Every step of a call that has its list takes it nearer to its end: with the
\* fairness of EveryCallEnds, no call goes on for ever.
THEOREM CallsEndInTime == Spec => CallsWindDown
<1>1. ASSUME CallsInv, [Next]_vars, NEW c \in Calls,
             stage[c] \notin {"new", "invoke-registry", "resolve-registry"}
      PROVE  \/ UNCHANGED <<stage[c], attempts[c], emitted[c], outcome[c]>>
             \/ StepsLeft(c)' \in 0 .. StepsLeft(c) - 1
  <2>1. TypeInv /\ CallOK(c)
    BY <1>1 DEF CallsInv
  <2>2. CASE Progress(c)
    <3>1. CASE StartPublished(c) \/ FailOver(c)
      BY <2>1, <3>1, NextCandidateWinds DEF StartPublished, FailOver
    <3>2. CASE \/ UpstreamAnswers(c) \/ UpstreamFails(c) \/ UpstreamRaises(c)
               \/ Retry(c) \/ EndPublished(c)
      BY <2>1, <3>2, AttemptWinds
    <3> QED BY <1>1, <2>2, <3>1, <3>2
            DEF Progress, RegistryFails, InvokeCandidates, ResolveCandidates
  <2>3. ASSUME NEW d \in Calls, Progress(d), d # c PROVE Rests(c)
    BY <1>1, <2>1, <2>3, ProgressCalls DEF CallsInv
  <2>4. ASSUME NEW d \in Calls, BeginInvoke(d) \/ BeginResolve(d)
        PROVE  UNCHANGED <<stage[c], attempts[c], emitted[c], outcome[c]>>
    BY <1>1, <2>1, <2>4 DEF BeginInvoke, BeginResolve, Begin, TypeInv, TypeOK
  <2>5. CASE UNCHANGED callVars
    BY <2>5 DEF callVars
  <2> QED BY <1>1, <2>2, <2>3, <2>4, <2>5
          DEF Next, SetPolicy, ResetCircuit, Tick, vars, Rests
<1>2. CallsInv /\ [Next]_vars =>
        [\A c \in Calls :
           \/ stage[c] \in {"new", "invoke-registry", "resolve-registry"}
           \/ UNCHANGED <<stage[c], attempts[c], emitted[c], outcome[c]>>
           \/ StepsLeft(c)' \in 0 .. StepsLeft(c) - 1]_vars
  BY <1>1
<1> QED BY <1>2, InitCalls, StepCalls, PTL DEF Spec, CallsWindDown

\* How a call moves from one attempt to the next.
LEMMA CallMoves ==
  ASSUME TypeInv, Next, NEW c \in Calls, stage'[c] # stage[c],
         stage[c] = "reconsider" \/ stage'[c] = "attempt"
  PROVE  Retry(c) \/ FailOver(c) \/ StartPublished(c)
<1>1. stage \in [Calls -> Stages]
  BY DEF TypeInv, TypeOK
<1>2. ASSUME NEW d \in Calls, Progress(d), d # c PROVE stage'[c] = stage[c]
  BY <1>1, <1>2
     DEF Progress, RegistryFails, InvokeCandidates, ResolveCandidates, StartPublished,
         UpstreamAnswers, UpstreamFails, UpstreamRaises, Retry, FailOver, EndPublished,
         Finish, NextCandidate, EnterCandidate, ExhaustCandidates
<1>3. ASSUME NEW d \in Calls, BeginInvoke(d) \/ BeginResolve(d) PROVE FALSE
  BY <1>1, <1>3 DEF BeginInvoke, BeginResolve, Begin
<1>4. Progress(c)
  BY <1>2, <1>3 DEF Next, SetPolicy, ResetCircuit, Tick, callVars
<1> QED BY <1>1, <1>4
        DEF Progress, RegistryFails, InvokeCandidates, ResolveCandidates,
            UpstreamAnswers, UpstreamFails, UpstreamRaises, EndPublished, Finish

\* invoke() leaves a provider after a failed attempt only when the attempts are
\* used up or the circuit is open, though a reset may close it meanwhile.
THEOREM ProviderIsSpent == Spec => LeavesProviderSpent
<1>1. ASSUME TypeInv, [Next]_vars, NEW c \in Calls, stage[c] = "reconsider"
      PROVE  \/ stage'[c] = "reconsider"
             \/ stage'[c] = "attempt" /\ position'[c] = position[c]
             \/ attempt[c] = held[c].retries + 1
             \/ circuits[Provider(c)].state = "open"
  <2>1. CASE stage'[c] = stage[c]
    BY <1>1, <2>1
  <2>2. CASE stage'[c] # stage[c]
    <3>1. Next
      BY <1>1, <2>2 DEF vars, callVars
    <3>2. Retry(c) \/ FailOver(c)
      BY <1>1, <2>2, <3>1, CallMoves DEF StartPublished
    <3>3. CASE Retry(c)
      BY <1>1, <3>3 DEF Retry, TypeInv, TypeOK
    <3>4. CASE FailOver(c)
      <4>1. attempt[c] \in 1..held[c].retries + 1 /\ held[c].retries \in Nat
        BY <1>1, CallFields
      <4>2. ~CanAttempt(circuits[Provider(c)], held[c], now) \/ ~(attempt[c] <= held[c].retries)
        BY <3>4 DEF FailOver, MayRetry
      <4>3. CASE ~CanAttempt(circuits[Provider(c)], held[c], now)
        BY <4>3 DEF CanAttempt
      <4>4. CASE ~(attempt[c] <= held[c].retries)
        BY <4>1, <4>4
      <4> QED BY <4>2, <4>3, <4>4
    <3> QED BY <3>2, <3>3, <3>4
  <2> QED BY <2>1, <2>2
<1>2. TypeInv /\ [Next]_vars =>
        [\A c \in Calls :
           stage[c] = "reconsider" =>
             \/ stage'[c] = "reconsider"
             \/ stage'[c] = "attempt" /\ position'[c] = position[c]
             \/ attempt[c] = held[c].retries + 1
             \/ circuits[Provider(c)].state = "open"]_vars
  BY <1>1
<1> QED BY <1>2, InitTypeInv, StepTypeInv, PTL DEF Spec, LeavesProviderSpent

\* An admitted circuit is left closed or half-open, and was not open before its
\* recovery window was over.
LEMMA Admission ==
  ASSUME NEW a \in Circuit, NEW p, NEW t, CanAttempt(a, p, t)
  PROVE  /\ AfterCanAttempt(a, p, t).state # "open"
         /\ a.state = "open" => t - a.opened_at >= p.recovery_seconds
BY DEF CanAttempt, AfterCanAttempt, Circuit

\* No attempt of invoke() starts past the breaker, whichever of its two calls
\* of can_attempt() admits it.
THEOREM AttemptsAreAdmitted == Spec => AttemptsPassTheBreaker
<1>1. ASSUME TypeInv, [Next]_vars, NEW c \in Calls, stage[c] # "attempt", stage'[c] = "attempt"
      PROVE  /\ circuits'[candidates[c][position'[c]]].state # "open"
             /\ circuits[candidates[c][position'[c]]].state = "open" =>
                  now - circuits[candidates[c][position'[c]]].opened_at >= held[c].recovery_seconds
  <2>1. Next
    BY <1>1 DEF vars, callVars
  <2>2. /\ circuits \in [Services -> Circuit] /\ candidates[c] \in Seq(Services)
        /\ position \in [Calls -> Nat]
    BY <1>1 DEF TypeInv, TypeOK
  <2>3. \A i \in DOMAIN candidates[c] : candidates[c][i] \in Services
    BY <2>2
  <2>4. Retry(c) \/ FailOver(c) \/ StartPublished(c)
    BY <1>1, <2>1, CallMoves
  <2>5. ASSUME NEW known \in [Services -> Circuit], NextCandidate(c, known),
               \A s \in Services : known[s] \in
                 {circuits[s], AfterCanAttempt(circuits[s], held[c], now)}
        PROVE  \E s \in Services :
                 /\ s = candidates[c][position'[c]]
                 /\ circuits'[s].state # "open"
                 /\ circuits[s].state = "open" =>
                      now - circuits[s].opened_at >= held[c].recovery_seconds
    <3>1. PICK i \in DOMAIN candidates[c] : EnterCandidate(c, known, i)
      BY <1>1, <2>5 DEF NextCandidate, ExhaustCandidates, TypeInv, TypeOK
    <3>2. PICK s \in Services : s = candidates[c][i]
      BY <2>3
    <3>3. /\ position'[c] = i /\ CanAttempt(known[s], held[c], now)
          /\ circuits'[s] = AfterCanAttempt(known[s], held[c], now)
      BY <2>2, <3>1, <3>2 DEF EnterCandidate, Admits
    <3>4. circuits'[s].state # "open"
      BY <3>3, Admission
    <3>5. ASSUME circuits[s].state = "open"
          PROVE  now - circuits[s].opened_at >= held[c].recovery_seconds
      <4>1. CanAttempt(circuits[s], held[c], now)
        <5>1. CASE known[s] = circuits[s]
          BY <3>3, <5>1
        <5>2. CASE known[s] # circuits[s]
          BY <2>5, <5>2 DEF AfterCanAttempt
        <5> QED BY <5>1, <5>2
      <4> QED BY <2>2, <3>5, <4>1, Admission
    <3> QED BY <3>2, <3>3, <3>4, <3>5
  <2>6. CASE StartPublished(c)
    BY <2>2, <2>5, <2>6 DEF StartPublished
  <2>7. CASE FailOver(c)
    <3>1. Provider(c) \in Services
      BY <1>1, <2>3, <2>7, CallFields DEF FailOver, Provider
    <3>2. PICK known : known = [circuits EXCEPT ![Provider(c)] = Reconsidered(c)]
      OBVIOUS
    <3>3. Reconsidered(c) \in Circuit
      BY <2>2, <3>1 DEF Reconsidered, AfterCanAttempt, Circuit
    <3>4. /\ known \in [Services -> Circuit]
          /\ \A s \in Services : known[s] \in
               {circuits[s], AfterCanAttempt(circuits[s], held[c], now)}
      BY <2>2, <3>1, <3>2, <3>3 DEF Reconsidered
    <3>5. NextCandidate(c, known)
      BY <2>7, <3>2 DEF FailOver
    <3> QED BY <2>5, <3>4, <3>5
  <2>8. CASE Retry(c)
    <3>1. Provider(c) \in Services
      BY <1>1, <2>3, <2>8, CallFields DEF Retry, Provider
    <3>2. /\ candidates[c][position'[c]] = Provider(c)
          /\ CanAttempt(circuits[Provider(c)], held[c], now)
          /\ circuits'[Provider(c)] = AfterCanAttempt(circuits[Provider(c)], held[c], now)
      BY <2>2, <2>8, <3>1 DEF Retry, MayRetry, Reconsidered, Provider
    <3> QED BY <2>2, <3>1, <3>2, Admission
  <2> QED BY <2>4, <2>6, <2>7, <2>8
<1>2. TypeInv /\ [Next]_vars =>
        [\A c \in Calls :
           stage[c] # "attempt" /\ stage'[c] = "attempt" =>
             LET s == candidates[c][position'[c]] IN
             /\ circuits'[s].state # "open"
             /\ circuits[s].state = "open" =>
                  now - circuits[s].opened_at >= held[c].recovery_seconds]_vars
  BY <1>1
<1> QED BY <1>2, InitTypeInv, StepTypeInv, PTL DEF Spec, AttemptsPassTheBreaker

-----------------------------------------------------------------------------
(* The life cycle of a call                                                *)

\* A function made of another one changes where that one changes.
LEMMA PhaseMoves ==
  ASSUME stage \in [Calls -> Stages], NEW c \in Calls, NEW next,
         stage' = [stage EXCEPT ![c] = next]
  PROVE  [d \in Calls |-> Phase(stage[d])]' =
           [[d \in Calls |-> Phase(stage[d])] EXCEPT ![c] = Phase(next)]
<1>1. \A d \in Calls : Phase(stage'[d]) = IF d = c THEN Phase(next) ELSE Phase(stage[d])
  OBVIOUS
<1> QED BY <1>1

LEMMA AllowanceMoves ==
  ASSUME NEW c \in Calls, \A d \in Calls \ {c} : held'[d] = held[d],
         held'[c].retries \in Nat
  PROVE  Lifecycle!Becomes([d \in Calls |-> held[d].retries + 1],
                           [d \in Calls |-> held'[d].retries + 1], c, Nat \ {0})
<1> DEFINE f == [d \in Calls |-> held[d].retries + 1]
           g == [d \in Calls |-> held'[d].retries + 1]
<1>1. g[c] \in Nat \ {0}
  OBVIOUS
<1>2. \A d \in Calls \ {c} : g[d] = f[d]
  OBVIOUS
<1>3. DOMAIN f = Calls /\ DOMAIN g = Calls /\ g = [d \in Calls |-> g[d]] /\ f = [d \in Calls |-> f[d]]
  OBVIOUS
<1> HIDE DEF f, g
<1>4. g = [f EXCEPT ![c] = g[c]]
  BY <1>2, <1>3
<1>5. Lifecycle!Becomes(f, g, c, Nat \ {0})
  BY <1>1, <1>4 DEF Lifecycle!Becomes
<1> QED BY <1>5 DEF f, g

LEMMA SizeMoves ==
  ASSUME candidates \in [Calls -> Seq(Services)], NEW c \in Calls,
         NEW list \in CandidateLists, candidates' = [candidates EXCEPT ![c] = list]
  PROVE  /\ Lifecycle!Becomes([d \in Calls |-> Len(candidates[d])],
                              [d \in Calls |-> Len(candidates'[d])], c, Nat \ {0})
         /\ [d \in Calls |-> Len(candidates'[d])][c] = Len(list)
<1>1. list \in Seq(Services) /\ list # <<>>
  BY CandidateListsValid
<1>2. Len(list) \in Nat \ {0}
  BY <1>1, LenProperties, EmptySeq
<1>3. \A d \in Calls : Len(candidates'[d]) = IF d = c THEN Len(list) ELSE Len(candidates[d])
  OBVIOUS
<1> QED BY <1>2, <1>3 DEF Lifecycle!Becomes

LEMMA PhaseNames ==
  /\ Phase("new") = "new"
  /\ Phase("invoke-registry") = "asking" /\ Phase("resolve-registry") = "asking"
  /\ Phase("publish-started") = "walking" /\ Phase("attempt") = "trying"
  /\ Phase("reconsider") = "deciding" /\ Phase("done") = "over"
  /\ Phase("publish-completed") = "ended" /\ Phase("publish-failed") = "ended"
BY DEF Phase

LEMMA InitCallLifecycle == Init => Lifecycle!Init
<1> SUFFICES ASSUME Init PROVE Lifecycle!Init
  OBVIOUS
<1>1. [c \in Calls |-> held[c].retries + 1] \in [Calls -> Nat \ {0}]
  BY DefaultPolicyValid, PolicyFields DEF Init
<1>2. [c \in Calls |-> Phase(stage[c])] = [c \in Calls |-> "new"]
  BY PhaseNames DEF Init
<1>3. [c \in Calls |-> Len(candidates[c])] = [c \in Calls |-> 0]
  BY EmptySeq DEF Init
<1> QED BY <1>1, <1>2, <1>3 DEF Init, Lifecycle!Init

LEMMA BeginLifecycle ==
  ASSUME TypeInv, TypeInv', NEW c \in Calls, BeginInvoke(c) \/ BeginResolve(c)
  PROVE  Lifecycle!Ask(c)
<1>1. PICK next \in {"invoke-registry", "resolve-registry"}, k \in Capabilities :
        /\ stage[c] = "new"
        /\ held' = [held EXCEPT ![c] = policies[k]]
        /\ stage' = [stage EXCEPT ![c] = next]
        /\ UNCHANGED <<candidates, position, attempt, emitted, outcome>>
  BY DEF BeginInvoke, BeginResolve, Begin
<1>2. stage \in [Calls -> Stages]
  BY DEF TypeInv, TypeOK
<1>3. held'[c].retries \in Nat
  <2>1. held'[c] \in Policies
    BY DEF TypeInv, TypeOK
  <2> QED BY <2>1, PolicyFields
<1>4. \A d \in Calls \ {c} : held'[d] = held[d]
  BY <1>1
<1>5. Lifecycle!Go(c, "asking")
  BY <1>1, <1>2, PhaseMoves, PhaseNames DEF Lifecycle!Go
<1>6. [d \in Calls |-> Phase(stage[d])][c] = "new"
  BY <1>1, PhaseNames
<1> QED BY <1>1, <1>3, <1>4, <1>5, <1>6, AllowanceMoves DEF Lifecycle!Ask

LEMMA NextCandidateLifecycle ==
  ASSUME TypeInv, NEW c \in Calls, NEW known, NextCandidate(c, known),
         stage[c] \in {"publish-started", "reconsider"}
  PROVE  Lifecycle!Approach(c) \/ Lifecycle!GiveUp(c)
<1>1. /\ stage \in [Calls -> Stages] /\ position \in [Calls -> Nat]
      /\ UNCHANGED <<held, candidates, outcome>>
  BY DEF NextCandidate, TypeInv, TypeOK
<1>2. [d \in Calls |-> Phase(stage[d])][c] \in {"walking", "deciding"}
  BY PhaseNames
<1>3. ASSUME NEW i \in DOMAIN candidates[c], EnterCandidate(c, known, i)
      PROVE  Lifecycle!Approach(c)
  <2>1. /\ stage' = [stage EXCEPT ![c] = "attempt"]
        /\ position' = [position EXCEPT ![c] = i]
        /\ attempt' = [attempt EXCEPT ![c] = 1]
        /\ i \in position[c] + 1 .. Len(candidates[c])
        /\ UNCHANGED emitted
    BY <1>3 DEF EnterCandidate
  <2>2. Lifecycle!Go(c, "trying")
    BY <1>1, <2>1, PhaseMoves, PhaseNames DEF Lifecycle!Go
  <2>3. Lifecycle!Becomes(position, position', c,
          position[c] + 1 .. [d \in Calls |-> Len(candidates[d])][c])
    BY <1>1, <2>1 DEF Lifecycle!Becomes
  <2> QED BY <1>1, <1>2, <2>1, <2>2, <2>3 DEF Lifecycle!Approach, Lifecycle!fixed
<1>4. CASE ExhaustCandidates(c, known)
  <2>1. /\ stage' = [stage EXCEPT ![c] = "publish-failed"]
        /\ position' = [position EXCEPT ![c] = Len(candidates[c])]
        /\ emitted' = [emitted EXCEPT ![c] = Append(@, "mesh.invocation.failed")]
        /\ UNCHANGED attempt
    BY <1>4 DEF ExhaustCandidates, Emit
  <2>2. Lifecycle!Go(c, "ended")
    BY <1>1, <2>1, PhaseMoves, PhaseNames DEF Lifecycle!Go
  <2> QED BY <1>1, <1>2, <2>1, <2>2 DEF Lifecycle!GiveUp, Lifecycle!fixed, Lifecycle!Tell
<1> QED BY <1>3, <1>4 DEF NextCandidate

LEMMA RegistryLifecycle ==
  ASSUME TypeInv, TypeInv', NEW c \in Calls,
         RegistryFails(c) \/ InvokeCandidates(c) \/ ResolveCandidates(c)
  PROVE  Lifecycle!Refuse(c) \/ Lifecycle!Learn(c) \/ Lifecycle!Route(c)
<1>1. /\ stage \in [Calls -> Stages] /\ position \in [Calls -> Nat]
      /\ candidates \in [Calls -> Seq(Services)]
      /\ stage[c] \in {"invoke-registry", "resolve-registry"}
      /\ UNCHANGED <<held, attempt>>
  BY DEF RegistryFails, InvokeCandidates, ResolveCandidates, TypeInv, TypeOK
<1>2. [d \in Calls |-> Phase(stage[d])][c] = "asking"
  BY <1>1, PhaseNames
<1>3. ASSUME NEW answer, Finish(c, answer)
      PROVE  Lifecycle!End(c, answer)
  BY <1>1, <1>3, PhaseMoves, PhaseNames DEF Finish, Lifecycle!End, Lifecycle!Go
<1>4. CASE RegistryFails(c)
  BY <1>2, <1>3, <1>4 DEF RegistryFails, Lifecycle!Refuse, Lifecycle!fixed
<1>5. CASE InvokeCandidates(c)
  <2>1. PICK list \in CandidateLists : candidates' = [candidates EXCEPT ![c] = list]
    BY <1>5 DEF InvokeCandidates
  <2>2. /\ stage' = [stage EXCEPT ![c] = "publish-started"]
        /\ emitted' = [emitted EXCEPT ![c] = Append(@, "mesh.invocation.started")]
        /\ UNCHANGED <<held, position, attempt, outcome>>
    BY <1>5 DEF InvokeCandidates, Emit
  <2>3. Lifecycle!Go(c, "walking")
    BY <1>1, <2>2, PhaseMoves, PhaseNames DEF Lifecycle!Go
  <2> QED BY <1>1, <1>2, <2>1, <2>2, <2>3, SizeMoves DEF Lifecycle!Learn, Lifecycle!Tell
<1>6. CASE ResolveCandidates(c)
  <2>1. PICK list \in CandidateLists :
          /\ candidates' = [candidates EXCEPT ![c] = list]
          /\ \/ /\ Emit(c, "mesh.route.blocked")
                /\ Finish(c, "blocked")
                /\ UNCHANGED position
             \/ \E i \in DOMAIN list :
                  /\ position' = [position EXCEPT ![c] = i]
                  /\ Emit(c, "mesh.route.resolved")
                  /\ Finish(c, "resolved")
    BY <1>6 DEF ResolveCandidates
  <2>2. DOMAIN list = 1..Len(list)
    BY CandidateListsValid, LenProperties
  <2>3. /\ Lifecycle!Becomes([d \in Calls |-> Len(candidates[d])],
                             [d \in Calls |-> Len(candidates'[d])], c, Nat \ {0})
        /\ [d \in Calls |-> Len(candidates'[d])][c] = Len(list)
    BY <1>1, <2>1, SizeMoves
  <2>4. CASE Finish(c, "blocked") /\ Emit(c, "mesh.route.blocked") /\ UNCHANGED position
    BY <1>1, <1>2, <1>3, <2>3, <2>4 DEF Emit, Lifecycle!Route, Lifecycle!Tell
  <2>5. ASSUME NEW i \in DOMAIN list, position' = [position EXCEPT ![c] = i],
               Emit(c, "mesh.route.resolved"), Finish(c, "resolved")
        PROVE  Lifecycle!Route(c)
    <3>1. Lifecycle!Becomes(position, position', c,
            1 .. [d \in Calls |-> Len(candidates'[d])][c])
      BY <1>1, <2>2, <2>3, <2>5 DEF Lifecycle!Becomes
    <3> QED BY <1>1, <1>2, <1>3, <2>3, <2>5, <3>1 DEF Emit, Lifecycle!Route, Lifecycle!Tell
  <2> QED BY <2>1, <2>4, <2>5
<1> QED BY <1>4, <1>5, <1>6

LEMMA AttemptLifecycle ==
  ASSUME TypeInv, NEW c \in Calls, CallOK(c),
         \/ UpstreamAnswers(c) \/ UpstreamFails(c) \/ UpstreamRaises(c)
         \/ Retry(c) \/ EndPublished(c)
  PROVE  \/ Lifecycle!Hit(c) \/ Lifecycle!Miss(c) \/ Lifecycle!Break(c)
         \/ Lifecycle!TryAgain(c) \/ Lifecycle!Return(c)
<1>1. /\ stage \in [Calls -> Stages] /\ attempt \in [Calls -> Nat]
      /\ UNCHANGED <<held, candidates, position>>
  BY DEF UpstreamAnswers, UpstreamFails, UpstreamRaises, Retry, EndPublished, TypeInv, TypeOK
<1>2. [d \in Calls |-> Phase(stage[d])][c] = Phase(stage[c])
  OBVIOUS
<1>3. ASSUME NEW answer, Finish(c, answer)
      PROVE  Lifecycle!End(c, answer)
  BY <1>1, <1>3, PhaseMoves, PhaseNames DEF Finish, Lifecycle!End, Lifecycle!Go
<1>4. ASSUME NEW next, stage' = [stage EXCEPT ![c] = next]
      PROVE  Lifecycle!Go(c, Phase(next))
  BY <1>1, <1>4, PhaseMoves DEF Lifecycle!Go
<1>5. CASE UpstreamAnswers(c)
  <2>1. Lifecycle!Go(c, "ended")
    BY <1>4, <1>5, PhaseNames DEF UpstreamAnswers
  <2> QED BY <1>1, <1>2, <1>5, <2>1, PhaseNames
          DEF UpstreamAnswers, Emit, Lifecycle!Hit, Lifecycle!Tell, Lifecycle!fixed
<1>6. CASE UpstreamFails(c)
  <2>1. Lifecycle!Go(c, "deciding")
    BY <1>4, <1>6, PhaseNames DEF UpstreamFails
  <2> QED BY <1>1, <1>2, <1>6, <2>1, PhaseNames
          DEF UpstreamFails, Lifecycle!Miss, Lifecycle!fixed
<1>7. CASE UpstreamRaises(c)
  BY <1>1, <1>2, <1>3, <1>7, PhaseNames DEF UpstreamRaises, Lifecycle!Break, Lifecycle!fixed
<1>8. CASE Retry(c)
  <2>1. Lifecycle!Go(c, "trying")
    BY <1>4, <1>8, PhaseNames DEF Retry
  <2>2. attempt[c] < [d \in Calls |-> held[d].retries + 1][c]
    <3>1. attempt[c] \in Nat /\ held[c].retries \in Nat /\ attempt[c] <= held[c].retries
      BY <1>1, <1>8, CallFields DEF Retry, MayRetry
    <3> QED BY <3>1
  <2> QED BY <1>1, <1>2, <1>8, <2>1, <2>2, PhaseNames
          DEF Retry, Lifecycle!TryAgain, Lifecycle!fixed
\* What was announced last is what the log says.
<1>9. CASE EndPublished(c)
  <2>1. UNCHANGED <<attempt, emitted>>
    BY <1>9 DEF EndPublished
  <2>2. CASE stage[c] = "publish-completed" /\ Finish(c, "answered")
    <3>1. emitted[c] = Answered
      BY <2>2 DEF CallOK, Whereabouts
    <3>2. emitted[c][Len(emitted[c])] = "mesh.invocation.completed"
      BY <3>1 DEF Answered
    <3> QED BY <1>1, <1>2, <1>3, <2>1, <2>2, <3>2, PhaseNames
            DEF Lifecycle!Return, Lifecycle!fixed
  <2>3. CASE stage[c] = "publish-failed" /\ Finish(c, "exhausted")
    <3>1. emitted[c] = Failed
      BY <2>3 DEF CallOK, Whereabouts
    <3>2. emitted[c][Len(emitted[c])] = "mesh.invocation.failed"
      BY <3>1 DEF Failed
    <3> QED BY <1>1, <1>2, <1>3, <2>1, <2>3, <3>2, PhaseNames
            DEF Lifecycle!Return, Lifecycle!fixed
  <2> QED BY <1>9, <2>2, <2>3 DEF EndPublished
<1> QED BY <1>5, <1>6, <1>7, <1>8, <1>9

\* The calls of the mesh, interleaved with each other, with resets, new policies
\* and the clock, go each through the life cycle of a call that is alone.
THEOREM CallLifecycleImplemented == Spec => ImplementsCallLifecycle
<1>1. CallsInv /\ CallsInv' /\ [Next]_vars => [Lifecycle!Next]_(Lifecycle!vars)
  <2> SUFFICES ASSUME CallsInv, CallsInv', [Next]_vars
               PROVE  Lifecycle!Next \/ UNCHANGED Lifecycle!vars
    OBVIOUS
  <2>1. TypeInv /\ TypeInv' /\ \A c \in Calls : CallOK(c)
    BY DEF CallsInv
  <2>2. ASSUME NEW c \in Calls, BeginInvoke(c) \/ BeginResolve(c) PROVE Lifecycle!Next
    BY <2>1, <2>2, BeginLifecycle DEF Lifecycle!Next
  <2>3. ASSUME NEW c \in Calls, Progress(c) PROVE Lifecycle!Next
    <3>1. CASE RegistryFails(c) \/ InvokeCandidates(c) \/ ResolveCandidates(c)
      BY <2>1, <3>1, RegistryLifecycle DEF Lifecycle!Next
    <3>2. CASE StartPublished(c) \/ FailOver(c)
      BY <2>1, <3>2, NextCandidateLifecycle DEF StartPublished, FailOver, Lifecycle!Next
    <3>3. CASE \/ UpstreamAnswers(c) \/ UpstreamFails(c) \/ UpstreamRaises(c)
               \/ Retry(c) \/ EndPublished(c)
      BY <2>1, <3>3, AttemptLifecycle DEF Lifecycle!Next
    <3> QED BY <2>3, <3>1, <3>2, <3>3 DEF Progress
  <2>4. CASE UNCHANGED callVars
    BY <2>4 DEF callVars, Lifecycle!vars, Lifecycle!fixed
  <2> QED BY <2>2, <2>3, <2>4 DEF Next, SetPolicy, ResetCircuit, Tick, vars
<1> QED BY <1>1, InitCalls, StepCalls, InitCallLifecycle, PTL
        DEF Spec, ImplementsCallLifecycle, Lifecycle!Spec

=============================================================================
