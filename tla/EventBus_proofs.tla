--------------------------- MODULE EventBus_proofs ---------------------------
(***************************************************************************)
(* For any clients, queue size and list length: what a stream loses it     *)
(* loses behind a full queue, and the list makes up for what came before.  *)
(***************************************************************************)
EXTENDS EventBus, SequenceTheorems, TLAPS

-----------------------------------------------------------------------------
(* The inductive invariant                                                 *)

\* What one stream has been offered since its client connected, as of a number
\* of offers: all of it was seen, in order, or found the queue full.
InOrder(seen, full, since, offers) ==
  /\ \A i \in DOMAIN seen : seen[i] \in since + 1 .. offers
  /\ \A i, j \in DOMAIN seen : i < j => seen[i] < seen[j]
  /\ since + 1 .. offers \subseteq Elements(seen) \cup full

\* Numbers that follow each other up to the last.
UpTo(s, last) == \A i \in DOMAIN s : s[i] = last - Len(s) + i

\* A list that was read while the stream was open reaches to its start.
ListReaches(stream) ==
  stream.listed # <<>> =>
    \E last \in 0 .. emitted : UpTo(stream.listed, last) /\ last >= stream.since

StreamOK(stream) ==
  IF stream.at = "closed" THEN stream = Closed
  ELSE /\ stream.since <= Offers
       /\ InOrder(stream.sent \o stream.queue, stream.full, stream.since, Offers)
       /\ ListReaches(stream)

BusInv ==
  /\ TypeOK
  /\ IF emitting THEN emitted >= 1 ELSE Len(events) <= Retained
  /\ UpTo(events, emitted)
  /\ \A c \in Clients : StreamOK(streams[c])

-----------------------------------------------------------------------------
(* Sequences                                                               *)

LEMMA Bounds ==
  /\ QueueSize \in Nat /\ QueueSize >= 1
  /\ Retained \in Nat /\ Retained >= 1 /\ MaxEvents \in Nat
BY BoundsValid

LEMMA NumbersAt ==
  ASSUME NEW s \in Numbers
  PROVE  /\ Len(s) \in Nat /\ DOMAIN s = 1 .. Len(s)
         /\ \A i \in 1 .. Len(s) : s[i] \in 1 .. MaxEvents
         /\ s # <<>> => Len(s) >= 1
<1>1. Len(s) \in Nat /\ DOMAIN s = 1 .. Len(s) /\ \A i \in 1 .. Len(s) : s[i] \in 1 .. MaxEvents
  BY LenProperties, ElementOfSeq DEF Numbers
<1>2. Len(s) = 0 => s = <<>>
  BY EmptySeq DEF Numbers
<1> QED BY <1>1, <1>2

LEMMA AppendAt ==
  ASSUME NEW s \in Numbers, NEW e \in 1 .. MaxEvents
  PROVE  /\ Append(s, e) \in Numbers /\ Len(Append(s, e)) = Len(s) + 1
         /\ \A i \in 1 .. Len(s) : Append(s, e)[i] = s[i]
         /\ Append(s, e)[Len(s) + 1] = e
BY AppendProperties DEF Numbers

LEMMA ConcatAt ==
  ASSUME NEW s \in Numbers, NEW t \in Numbers
  PROVE  /\ s \o t \in Numbers /\ Len(s \o t) = Len(s) + Len(t)
         /\ \A i \in 1 .. Len(s) : (s \o t)[i] = s[i]
         /\ \A i \in 1 .. Len(t) : (s \o t)[Len(s) + i] = t[i]
<1>1. s \o t \in Numbers /\ Len(s \o t) = Len(s) + Len(t)
  BY ConcatProperties DEF Numbers
<1>2. \A i \in 1 .. Len(s) + Len(t) : (s \o t)[i] = IF i <= Len(s) THEN s[i] ELSE t[i - Len(s)]
  BY ConcatProperties DEF Numbers
<1>3. Len(s) \in Nat /\ Len(t) \in Nat
  BY NumbersAt
<1> QED BY <1>1, <1>2, <1>3

\* Taking from the queue what is sent changes nothing of what was seen.
LEMMA TakeKeepsSeen ==
  ASSUME NEW s \in Numbers, NEW t \in Numbers, t # <<>>
  PROVE  /\ Append(s, Head(t)) \in Numbers /\ Tail(t) \in Numbers
         /\ Len(Tail(t)) = Len(t) - 1
         /\ Append(s, Head(t)) \o Tail(t) = s \o t
<1>1. Head(t) \in 1 .. MaxEvents /\ Tail(t) \in Numbers /\ Len(Tail(t)) = Len(t) - 1
  BY HeadTailProperties DEF Numbers
<1>2. <<Head(t)>> \in Numbers
  BY <1>1 DEF Numbers
<1>3. Append(s, Head(t)) = s \o <<Head(t)>> /\ Append(s, Head(t)) \in Numbers
  BY <1>1, AppendIsConcat, AppendProperties DEF Numbers
<1>4. (s \o <<Head(t)>>) \o Tail(t) = s \o (<<Head(t)>> \o Tail(t))
  BY <1>1, <1>2, ConcatAssociative DEF Numbers
<1>5. <<Head(t)>> \o Tail(t) = t
  BY <1>1 DEF Numbers
<1> QED BY <1>1, <1>3, <1>4, <1>5

\* Appending to the queue appends to what was seen.
LEMMA OfferToSeen ==
  ASSUME NEW s \in Numbers, NEW t \in Numbers, NEW e \in 1 .. MaxEvents
  PROVE  s \o Append(t, e) = Append(s \o t, e)
<1>1. <<e>> \in Numbers /\ s \o t \in Numbers
  BY ConcatAt DEF Numbers
<1>2. s \o (t \o <<e>>) = (s \o t) \o <<e>>
  BY <1>1, ConcatAssociative DEF Numbers
<1>3. Append(t, e) = t \o <<e>> /\ Append(s \o t, e) = (s \o t) \o <<e>>
  BY <1>1, AppendIsConcat DEF Numbers
<1> QED BY <1>2, <1>3

LEMMA LatestAt ==
  ASSUME NEW s \in Numbers
  PROVE  /\ Latest(Retained, s) \in Numbers
         /\ Len(Latest(Retained, s)) <= Retained /\ Len(Latest(Retained, s)) <= Len(s)
         /\ \A i \in 1 .. Len(Latest(Retained, s)) :
              Latest(Retained, s)[i] = s[Len(s) - Len(Latest(Retained, s)) + i]
<1>1. Len(s) \in Nat /\ Retained \in Nat /\ Retained >= 1
  BY Bounds, NumbersAt
<1>2. CASE Len(s) > Retained
  <2> DEFINE m == Len(s) - Retained + 1
  <2>1. m \in 1 .. Len(s) /\ Latest(Retained, s) = SubSeq(s, m, Len(s))
    BY <1>1, <1>2 DEF Latest
  <2>2. \A i \in m .. Len(s) : s[i] \in 1 .. MaxEvents
    BY <1>1, <2>1, NumbersAt
  <2>3. /\ SubSeq(s, m, Len(s)) \in Numbers
        /\ Len(SubSeq(s, m, Len(s))) = Len(s) - m + 1
        /\ \A i \in 1 .. Len(s) - m + 1 : SubSeq(s, m, Len(s))[i] = s[m + i - 1]
    <3> HIDE DEF m
    <3>1. m \in Int /\ Len(s) \in Int /\ m <= Len(s) + 1
      BY <1>1, <2>1
    <3> QED BY <2>2, <3>1, <1>1, <2>1, SubSeqProperties DEF Numbers
  <2>4. Len(s) - m + 1 = Retained
    BY <1>1
  <2> QED BY <1>1, <1>2, <2>1, <2>3, <2>4
<1>3. CASE ~(Len(s) > Retained)
  BY <1>1, <1>3 DEF Latest
<1> QED BY <1>2, <1>3

-----------------------------------------------------------------------------
(* What a stream was offered                                               *)

\* An offer that finds room continues the order.
LEMMA OfferInOrder ==
  ASSUME NEW seen \in Numbers, NEW full, NEW since \in Nat, NEW offers \in Nat,
         offers + 1 \in 1 .. MaxEvents, since <= offers, InOrder(seen, full, since, offers)
  PROVE  InOrder(Append(seen, offers + 1), full, since, offers + 1)
<1> DEFINE new == Append(seen, offers + 1)
           n == Len(seen)
<1>1. /\ n \in Nat /\ DOMAIN seen = 1 .. n /\ new \in Numbers /\ Len(new) = n + 1
      /\ \A i \in 1 .. n : new[i] = seen[i]
      /\ new[n + 1] = offers + 1
  BY NumbersAt, AppendAt
<1>2. DOMAIN new = 1 .. n + 1
  BY <1>1, NumbersAt
<1>a. \A i \in 1 .. n : seen[i] \in since + 1 .. offers
  BY <1>1 DEF InOrder
<1>b. \A i, j \in 1 .. n : i < j => seen[i] < seen[j]
  BY <1>1 DEF InOrder
<1>c. \A e \in since + 1 .. offers : e \in full \/ \E i \in 1 .. n : e = seen[i]
  BY <1>1 DEF InOrder, Elements
<1> HIDE DEF new, n
<1>e. \A i \in 1 .. n + 1 : i \in 1 .. n \/ i = n + 1
  BY <1>1
<1>3. \A i \in 1 .. n + 1 : new[i] \in since + 1 .. offers + 1
  BY <1>1, <1>a, <1>e
<1>4. ASSUME NEW i \in 1 .. n + 1, NEW j \in 1 .. n + 1, i < j PROVE new[i] < new[j]
  <2>1. i \in 1 .. n /\ seen[i] \in Int /\ seen[i] <= offers
    BY <1>1, <1>4, <1>a
  <2>2. CASE j \in 1 .. n
    BY <1>1, <1>4, <1>b, <2>1, <2>2
  <2>3. CASE j = n + 1
    BY <1>1, <2>1, <2>3
  <2> QED BY <1>e, <2>2, <2>3
<1>5. ASSUME NEW e \in since + 1 .. offers + 1 PROVE e \in Elements(new) \cup full
  <2>1. CASE e = offers + 1
    <3>1. n + 1 \in DOMAIN new
      BY <1>1, <1>2
    <3> QED BY <1>1, <2>1, <3>1 DEF Elements
  <2>2. CASE e # offers + 1
    <3>1. e \in since + 1 .. offers
      BY <2>2
    <3>2. CASE \E i \in 1 .. n : e = seen[i]
      <4>1. PICK i \in 1 .. n : e = seen[i]
        BY <3>2
      <4>2. i \in DOMAIN new /\ new[i] = e
        BY <1>1, <1>2, <4>1
      <4> QED BY <4>2 DEF Elements
    <3> QED BY <1>c, <3>1, <3>2
  <2> QED BY <2>1, <2>2
<1>6. since + 1 .. offers + 1 \subseteq Elements(new) \cup full
  BY <1>5
<1> QED BY <1>2, <1>3, <1>4, <1>6 DEF InOrder, new

\* An offer that finds the queue full is kept in full.
LEMMA DropInOrder ==
  ASSUME NEW seen \in Numbers, NEW full, NEW since \in Nat, NEW offers \in Nat,
         since <= offers, InOrder(seen, full, since, offers)
  PROVE  InOrder(seen, full \cup {offers + 1}, since, offers + 1)
<1>1. \A i \in DOMAIN seen : seen[i] \in since + 1 .. offers + 1
  BY DEF InOrder
<1>2. ASSUME NEW e \in since + 1 .. offers + 1
      PROVE  e \in Elements(seen) \cup (full \cup {offers + 1})
  <2>1. e = offers + 1 \/ e \in since + 1 .. offers
    OBVIOUS
  <2> QED BY <2>1 DEF InOrder
<1>3. since + 1 .. offers + 1 \subseteq Elements(seen) \cup (full \cup {offers + 1})
  BY <1>2
<1> QED BY <1>1, <1>3 DEF InOrder

LEMMA NothingSeen ==
  ASSUME NEW since \in Nat
  PROVE  InOrder(<<>> \o <<>>, {}, since, since)
<1>1. <<>> \o <<>> = <<>> /\ DOMAIN <<>> = {}
  BY ConcatEmptySeq
<1>2. since + 1 .. since = {}
  OBVIOUS
<1> QED BY <1>1, <1>2 DEF InOrder

-----------------------------------------------------------------------------
(* The invariant, action by action                                         *)

LEMMA InitInv == Init => BusInv
<1> SUFFICES ASSUME Init PROVE BusInv
  OBVIOUS
<1>1. <<>> \in Numbers /\ Len(<<>>) = 0
  BY EmptySeq DEF Numbers
<1>2. Closed \in Streams
  BY <1>1, Bounds DEF Closed, Streams
<1>3. Closed.queue = <<>>
  BY DEF Closed
<1>4. TypeOK
  <2>1. emitted \in 0 .. MaxEvents /\ Len(events) <= Retained + 1
    BY <1>1, Bounds DEF Init
  <2>2. emitting \in BOOLEAN
    BY Zenon DEF Init
  <2>3. events \in Numbers /\ streams \in [Clients -> Streams]
    BY <1>1, <1>2 DEF Init
  <2>4. \A c \in Clients : streams[c].queue = <<>>
    BY <1>3 DEF Init
  <2>5. Len(<<>>) <= QueueSize
    BY <1>1, Bounds
  <2>6. \A c \in Clients : Len(streams[c].queue) <= QueueSize
    BY <2>4, <2>5, Zenon
  <2> QED BY <2>1, <2>2, <2>3, <2>6, Zenon DEF TypeOK
<1>5. \A c \in Clients : StreamOK(streams[c])
  BY DEF Init, StreamOK, Closed
<1>6. UpTo(events, emitted) /\ ~emitting /\ Len(events) <= Retained
  BY <1>1, Bounds DEF Init, UpTo
<1> QED BY <1>4, <1>5, <1>6 DEF BusInv

LEMMA OffersNat == BusInv => Offers \in Nat /\ Offers <= emitted /\ emitted \in Nat
BY Bounds DEF BusInv, TypeOK, Offers

\* A step that offers nothing leaves the other streams as good as they were.
LEMMA StreamKept ==
  ASSUME BusInv, Offers' = Offers, emitted' \in Nat, emitted <= emitted',
         NEW stream, StreamOK(stream)
  PROVE  StreamOK(stream)'
<1>1. ListReaches(stream) => ListReaches(stream)'
  <2>1. \A last \in 0 .. emitted : last \in 0 .. emitted'
    BY OffersNat
  <2> QED BY <2>1 DEF ListReaches
<1> QED BY <1>1 DEF StreamOK

LEMMA AppendEventInv == BusInv /\ AppendEvent => BusInv'
<1> SUFFICES ASSUME BusInv, AppendEvent PROVE BusInv'
  OBVIOUS
<1> USE DEF BusInv
<1>1. /\ ~emitting /\ emitting' = TRUE /\ emitted' = emitted + 1 /\ streams' = streams
      /\ events' = Append(events, emitted + 1) /\ emitted < MaxEvents
      /\ emitted \in Nat /\ events \in Numbers /\ Len(events) <= Retained
  BY DEF AppendEvent, TypeOK
<1>2. emitted + 1 \in 1 .. MaxEvents
  BY <1>1, Bounds
<1>3. /\ events' \in Numbers /\ Len(events') = Len(events) + 1
      /\ \A i \in 1 .. Len(events) : events'[i] = events[i]
      /\ events'[Len(events) + 1] = emitted + 1
  BY <1>1, <1>2, AppendAt
<1>4. /\ Len(events) \in Nat /\ DOMAIN events = 1 .. Len(events)
      /\ DOMAIN events' = 1 .. Len(events) + 1
  BY <1>1, <1>3, NumbersAt
<1>5. TypeOK'
  <2>1. emitted' \in 0 .. MaxEvents /\ emitting' \in BOOLEAN
    BY <1>1, <1>2
  <2>2. Len(events') <= Retained + 1
    BY <1>1, <1>3, <1>4, Bounds
  <2> QED BY <1>1, <1>3, <2>1, <2>2 DEF TypeOK
<1>6. UpTo(events, emitted)'
  <2>1. \A i \in 1 .. Len(events) : events[i] = emitted - Len(events) + i
    BY <1>4 DEF UpTo
  <2>2. \A i \in 1 .. Len(events) + 1 : events'[i] = emitted' - Len(events') + i
    BY <1>1, <1>3, <1>4, <2>1
  <2> QED BY <1>4, <2>2 DEF UpTo
<1>7. Offers' = Offers
  BY <1>1 DEF Offers
<1>8. \A c \in Clients : StreamOK(streams[c])'
  <2>1. emitted' \in Nat /\ emitted <= emitted'
    BY <1>1
  <2>2. \A stream : StreamOK(stream) => StreamOK(stream)'
    BY <2>1, <1>7, StreamKept
  <2> QED BY <1>1, <2>2
<1> QED BY <1>1, <1>5, <1>6, <1>8

LEMMA OfferedStream ==
  ASSUME BusInv, emitting, Offers' = emitted, emitted' = emitted,
         NEW stream \in Streams, StreamOK(stream), Len(stream.queue) <= QueueSize,
         NEW offered, offered = [Offered(stream) EXCEPT !.full = FoundFull(stream)]
  PROVE  /\ offered \in Streams
         /\ Len(offered.queue) <= QueueSize
         /\ StreamOK(offered)'
<1>1. emitted \in 1 .. MaxEvents /\ Offers = emitted - 1 /\ Offers \in Nat
  BY OffersNat DEF BusInv, TypeOK, Offers
<1>2. CASE stream.at = "closed"
  <2>1. stream = Closed /\ Len(stream.queue) # QueueSize
    <3>1. stream = Closed /\ stream.queue = <<>>
      BY <1>2 DEF StreamOK, Closed
    <3>2. Len(<<>>) = 0
      BY EmptySeq
    <3> QED BY <3>1, <3>2, Bounds
  <2>2. offered = stream
    BY <1>2, <2>1 DEF Offered, FoundFull, Streams
  <2> QED BY <1>2, <2>1, <2>2 DEF StreamOK
<1>3. CASE stream.at # "closed"
  <2>a. PICK seen : seen = stream.sent \o stream.queue
    OBVIOUS
  <2>1. stream.sent \in Numbers /\ stream.queue \in Numbers /\ stream.since \in Nat
    BY Bounds DEF Streams
  <2>2. /\ stream.since <= Offers /\ InOrder(seen, stream.full, stream.since, Offers)
        /\ ListReaches(stream)'
    BY <1>3, <2>a DEF StreamOK, ListReaches
  <2>3. seen \in Numbers /\ Len(seen) = Len(stream.sent) + Len(stream.queue)
        /\ Len(stream.sent) \in Nat /\ Len(stream.queue) \in Nat
    BY <2>1, <2>a, ConcatAt, NumbersAt
  <2>4. stream.since <= emitted /\ Offers + 1 = emitted
    BY <1>1, <2>1, <2>2
  <2>5. CASE Len(stream.queue) = QueueSize
    <3>1. /\ offered.sent = stream.sent /\ offered.queue = stream.queue
          /\ offered.since = stream.since /\ offered.listed = stream.listed
          /\ offered.at = stream.at /\ offered.full = stream.full \cup {emitted}
          /\ offered \in Streams
      BY <1>1, <2>5 DEF Offered, FoundFull, Streams
    <3>2. InOrder(seen, stream.full \cup {Offers + 1}, stream.since, Offers + 1)
      BY <1>1, <2>1, <2>2, <2>3, DropInOrder
    <3>3. ListReaches(offered)'
      BY <2>2, <3>1 DEF ListReaches
    <3>4. StreamOK(offered)'
      BY <1>3, <2>4, <2>a, <3>1, <3>2, <3>3 DEF StreamOK
    <3> QED BY <3>1, <3>4
  <2>6. CASE Len(stream.queue) # QueueSize
    <3>1. /\ Append(stream.queue, emitted) \in Numbers
          /\ Len(Append(stream.queue, emitted)) = Len(stream.queue) + 1
      BY <1>1, <2>1, AppendAt
    <3>2. offered = [[stream EXCEPT !.queue = Append(stream.queue, emitted)]
                       EXCEPT !.full = stream.full]
      BY <1>3, <2>6 DEF Offered, FoundFull
    <3>3. /\ offered \in Streams /\ offered.queue = Append(stream.queue, emitted)
          /\ offered.sent = stream.sent /\ offered.since = stream.since
          /\ offered.listed = stream.listed /\ offered.at = stream.at
          /\ offered.full = stream.full
      BY <3>1, <3>2 DEF Streams
    <3>4. offered.sent \o offered.queue = Append(seen, emitted)
      BY <1>1, <2>1, <2>a, <3>3, OfferToSeen
    <3>5. InOrder(Append(seen, Offers + 1), stream.full, stream.since, Offers + 1)
      BY <1>1, <2>1, <2>2, <2>3, <2>4, OfferInOrder
    <3>6. ListReaches(offered)'
      BY <2>2, <3>3 DEF ListReaches
    <3>7. Len(offered.queue) <= QueueSize
      BY <2>3, <2>6, <3>1, <3>3, Bounds
    <3>8. StreamOK(offered)'
      BY <1>3, <2>4, <3>3, <3>4, <3>5, <3>6 DEF StreamOK
    <3> QED BY <3>3, <3>7, <3>8
  <2> QED BY <2>5, <2>6
<1> QED BY <1>2, <1>3

LEMMA TrimAndOfferInv == BusInv /\ TrimAndOffer => BusInv'
<1> SUFFICES ASSUME BusInv, TrimAndOffer PROVE BusInv'
  OBVIOUS
<1> USE DEF BusInv
<1>1. /\ emitting /\ emitting' = FALSE /\ emitted' = emitted
      /\ events' = Latest(Retained, events)
      /\ streams' = [c \in Clients |-> [Offered(streams[c]) EXCEPT !.full = FoundFull(streams[c])]]
  BY DEF TrimAndOffer
<1>2. Offers' = emitted
  BY <1>1 DEF Offers
<1>3. ASSUME NEW c \in Clients
      PROVE  /\ streams'[c] \in Streams /\ Len(streams'[c].queue) <= QueueSize
             /\ StreamOK(streams[c])'
  <2>1. PICK stream : stream = streams[c]
    OBVIOUS
  <2>2. PICK offered : offered = [Offered(stream) EXCEPT !.full = FoundFull(stream)]
    OBVIOUS
  <2>3. stream \in Streams /\ StreamOK(stream) /\ Len(stream.queue) <= QueueSize
    BY <2>1 DEF TypeOK
  <2>4. offered \in Streams /\ Len(offered.queue) <= QueueSize /\ StreamOK(offered)'
    BY <1>1, <1>2, <2>2, <2>3, OfferedStream
  <2>5. streams'[c] = offered
    BY <1>1, <2>1, <2>2
  <2> QED BY <2>4, <2>5
<1>4. /\ events' \in Numbers /\ Len(events') <= Retained /\ Len(events') <= Len(events)
      /\ \A i \in 1 .. Len(events') : events'[i] = events[Len(events) - Len(events') + i]
  BY <1>1, LatestAt DEF TypeOK
<1>5. /\ Len(events) \in Nat /\ Len(events') \in Nat /\ DOMAIN events = 1 .. Len(events)
      /\ DOMAIN events' = 1 .. Len(events') /\ emitted \in Nat
  BY <1>4, NumbersAt DEF TypeOK
<1>6. TypeOK'
  <2>1. Len(events') <= Retained + 1
    BY <1>4, <1>5, Bounds
  <2>2. streams' \in [Clients -> Streams]
    BY <1>1, <1>3
  <2> QED BY <1>1, <1>3, <1>4, <2>1, <2>2 DEF TypeOK
<1>7. UpTo(events, emitted)'
  <2>1. \A i \in 1 .. Len(events) : events[i] = emitted - Len(events) + i
    BY <1>5 DEF UpTo
  <2>2. ASSUME NEW i \in 1 .. Len(events') PROVE events'[i] = emitted - Len(events') + i
    <3>1. Len(events) - Len(events') + i \in 1 .. Len(events)
      BY <1>4, <1>5
    <3> QED BY <1>4, <1>5, <2>1, <3>1
  <2> QED BY <1>1, <1>5, <2>2 DEF UpTo
<1> QED BY <1>1, <1>3, <1>4, <1>6, <1>7

-----------------------------------------------------------------------------
(* The streams                                                             *)

\* A step that replaces the stream of one client and touches nothing else.
LEMMA OnlyStream ==
  ASSUME BusInv, NEW c \in Clients, NEW stream \in Streams, StreamOK(stream),
         Len(stream.queue) <= QueueSize, streams' = [streams EXCEPT ![c] = stream],
         UNCHANGED <<emitted, emitting, events>>
  PROVE  BusInv'
<1> USE DEF BusInv
<1>1. Offers' = Offers
  BY DEF Offers
<1>2. /\ streams' \in [Clients -> Streams]
      /\ \A d \in Clients : streams'[d] = stream \/ streams'[d] = streams[d]
  BY DEF TypeOK
<1>3. \A d \in Clients : Len(streams'[d].queue) <= QueueSize
  BY <1>2 DEF TypeOK
<1>4. TypeOK'
  BY <1>2, <1>3 DEF TypeOK
<1>5. emitted' \in Nat /\ emitted <= emitted'
  BY OffersNat
<1>6. \A s : StreamOK(s) => StreamOK(s)'
  BY <1>1, <1>5, StreamKept
<1>7. \A d \in Clients : StreamOK(streams[d])'
  BY <1>2, <1>6
<1>8. UpTo(events, emitted)'
  BY DEF UpTo
<1> QED BY <1>4, <1>7, <1>8

LEMMA ClosedStream == BusInv => Closed \in Streams /\ StreamOK(Closed) /\ Len(Closed.queue) <= QueueSize
<1>1. <<>> \in Numbers /\ Len(<<>>) = 0
  BY EmptySeq DEF Numbers
<1> QED BY <1>1, Bounds DEF Closed, Streams, StreamOK

\* A stream that stays open and keeps what it has seen.
LEMMA SameSeen ==
  ASSUME BusInv, NEW c \in Clients, streams[c].at # "closed",
         NEW at \in {"waiting", "getting", "yielding", "abandoned"},
         Set(c, [streams[c] EXCEPT !.at = at])
  PROVE  BusInv'
<1> DEFINE stream == [streams[c] EXCEPT !.at = at]
<1>1. streams[c] \in Streams /\ StreamOK(streams[c]) /\ Len(streams[c].queue) <= QueueSize
  BY DEF BusInv, TypeOK
<1>2. /\ stream \in Streams /\ stream.at # "closed" /\ stream.queue = streams[c].queue
      /\ stream.sent = streams[c].sent /\ stream.since = streams[c].since
      /\ stream.listed = streams[c].listed /\ stream.full = streams[c].full
  BY <1>1 DEF Streams
<1>3. streams' = [streams EXCEPT ![c] = stream] /\ UNCHANGED <<emitted, emitting, events>>
  BY DEF Set
<1> HIDE DEF stream
<1>4. StreamOK(stream)
  BY <1>1, <1>2 DEF StreamOK, ListReaches
<1> QED BY <1>1, <1>2, <1>3, <1>4, OnlyStream

LEMMA ConnectInv ==
  ASSUME BusInv, NEW c \in Clients, Connect(c)
  PROVE  BusInv'
<1> DEFINE stream == [Closed EXCEPT !.at = "waiting", !.since = emitted]
<1>1. <<>> \in Numbers /\ Len(<<>>) = 0
  BY EmptySeq DEF Numbers
<1>2. emitted \in 0 .. MaxEvents
  BY DEF BusInv, TypeOK
<1>3. Closed \in Streams
  BY ClosedStream
<1>4. stream \in Streams
  BY <1>2, <1>3 DEF Streams
<1>5. stream.at = "waiting" /\ stream.since = emitted
  BY <1>3 DEF Streams
<1>6. stream.queue = <<>> /\ stream.sent = <<>> /\ stream.listed = <<>> /\ stream.full = {}
  BY DEF Closed
<1>7. Offers = emitted /\ emitted \in Nat
  BY OffersNat DEF Connect, Set, Offers
<1>8. streams' = [streams EXCEPT ![c] = stream] /\ UNCHANGED <<emitted, emitting, events>>
  BY DEF Connect, Set
<1> HIDE DEF stream
<1>9. InOrder(stream.sent \o stream.queue, stream.full, stream.since, Offers)
  BY <1>5, <1>6, <1>7, NothingSeen
<1>10. StreamOK(stream)
  BY <1>5, <1>6, <1>7, <1>9 DEF StreamOK, ListReaches
<1>11. Len(stream.queue) <= QueueSize
  BY <1>1, <1>6, Bounds
<1> QED BY <1>4, <1>8, <1>10, <1>11, OnlyStream

LEMMA TakeInv ==
  ASSUME BusInv, NEW c \in Clients, Take(c)
  PROVE  BusInv'
<1> DEFINE old == streams[c]
           stream == [old EXCEPT !.at = "yielding", !.queue = Tail(old.queue),
                                 !.sent = Append(old.sent, Head(old.queue))]
<1>1. /\ old \in Streams /\ StreamOK(old) /\ Len(old.queue) <= QueueSize
      /\ old.at # "closed" /\ old.queue # <<>>
  BY DEF BusInv, TypeOK, Take, At
<1>2. old.queue \in Numbers /\ old.sent \in Numbers
  BY <1>1 DEF Streams
<1>3. /\ Append(old.sent, Head(old.queue)) \in Numbers /\ Tail(old.queue) \in Numbers
      /\ Len(Tail(old.queue)) = Len(old.queue) - 1
      /\ Append(old.sent, Head(old.queue)) \o Tail(old.queue) = old.sent \o old.queue
  BY <1>1, <1>2, TakeKeepsSeen
<1>4. /\ stream \in Streams /\ stream.at = "yielding" /\ stream.queue = Tail(old.queue)
      /\ stream.sent = Append(old.sent, Head(old.queue)) /\ stream.since = old.since
      /\ stream.listed = old.listed /\ stream.full = old.full
  BY <1>1, <1>3 DEF Streams
<1>5. streams' = [streams EXCEPT ![c] = stream] /\ UNCHANGED <<emitted, emitting, events>>
  BY DEF Take, Set
<1> HIDE DEF stream, old
<1>6. StreamOK(stream)
  BY <1>1, <1>3, <1>4 DEF StreamOK, ListReaches
<1>7. Len(stream.queue) <= QueueSize
  BY <1>1, <1>2, <1>3, <1>4, NumbersAt, Bounds
<1> QED BY <1>4, <1>5, <1>6, <1>7, OnlyStream

LEMMA ListInv ==
  ASSUME BusInv, NEW c \in Clients, List(c)
  PROVE  BusInv'
<1> DEFINE old == streams[c]
           stream == [old EXCEPT !.listed = events]
<1>1. /\ old \in Streams /\ StreamOK(old) /\ Len(old.queue) <= QueueSize
      /\ old.at # "closed" /\ events \in Numbers /\ UpTo(events, emitted)
  BY DEF BusInv, TypeOK, List
<1>2. /\ stream \in Streams /\ stream.at = old.at /\ stream.queue = old.queue
      /\ stream.sent = old.sent /\ stream.since = old.since /\ stream.listed = events
      /\ stream.full = old.full
  BY <1>1 DEF Streams
<1>3. streams' = [streams EXCEPT ![c] = stream] /\ UNCHANGED <<emitted, emitting, events>>
  BY DEF List
<1> HIDE DEF stream, old
<1>4. old.since \in Nat /\ old.since <= Offers
  BY <1>1, Bounds DEF StreamOK, Streams
<1>5. emitted \in 0 .. emitted /\ emitted >= old.since
  BY <1>4, OffersNat
<1>6. StreamOK(stream)
  BY <1>1, <1>2, <1>5 DEF StreamOK, ListReaches
<1> QED BY <1>1, <1>2, <1>3, <1>6, OnlyStream

LEMMA StreamInv ==
  ASSUME BusInv, NEW c \in Clients, Stream(c)
  PROVE  BusInv'
<1>1. CASE KeepAlive(c)
  BY <1>1, SameSeen DEF KeepAlive, At
<1>2. CASE Resume(c)
  <2>1. PICK at \in {"waiting", "getting"} : Set(c, [streams[c] EXCEPT !.at = at])
    BY <1>2 DEF Resume
  <2> QED BY <1>2, <2>1, SameSeen DEF Resume, At
<1>3. ASSUME Set(c, Closed) PROVE BusInv'
  BY <1>3, ClosedStream, OnlyStream DEF Set
<1>4. CASE Disconnect(c)
  BY <1>3, <1>4, SameSeen DEF Disconnect, At
<1>5. CASE Finalize(c)
  BY <1>3, <1>5 DEF Finalize
<1> QED BY <1>1, <1>2, <1>4, <1>5, ConnectInv, TakeInv DEF Stream

LEMMA StutterInv == BusInv /\ UNCHANGED vars => BusInv'
BY DEF vars, BusInv, TypeOK, UpTo, StreamOK, ListReaches, Offers

LEMMA NextInv == BusInv /\ [Next]_vars => BusInv'
BY AppendEventInv, TrimAndOfferInv, StreamInv, ListInv, StutterInv DEF Next

-----------------------------------------------------------------------------
(* The theorems                                                            *)

\* The bus and its streams stay in their domains: no queue outgrows its maxsize,
\* and EventBus.events exceeds max_events by at most the one event of emit().
THEOREM TypeCorrect == Spec => []TypeOK
<1>1. BusInv => TypeOK
  BY DEF BusInv
<1> QED BY <1>1, InitInv, NextInv, PTL DEF Spec

\* A stream of _event_stream() is in order and without repetition, and every event
\* it has lost since its client connected found its queue full in emit().
THEOREM LossesNeedBacklog == Spec => []GapsNeedBacklog
<1>1. BusInv => GapsNeedBacklog
  BY DEF BusInv, GapsNeedBacklog, StreamOK, InOrder, Seen, At
<1> QED BY <1>1, InitInv, NextInv, PTL DEF Spec

\* A client that reads events() once its stream is open has all events from the
\* oldest listed on but those that found its queue full.
THEOREM ListAndStreamComplete == Spec => []CatchUpComplete
<1>1. BusInv => CatchUpComplete
  <2> SUFFICES ASSUME BusInv, NEW c \in Clients, streams[c].listed # <<>>,
                      NEW e \in Head(streams[c].listed) .. Offers
               PROVE  e \in Elements(streams[c].listed) \cup Elements(Seen(c)) \cup streams[c].full
    BY DEF CatchUpComplete
  <2> DEFINE stream == streams[c]
             listed == stream.listed
             seen == Seen(c)
  <2>1. stream \in Streams /\ StreamOK(stream)
    BY DEF BusInv, TypeOK
  <2>2. stream.at # "closed"
    BY <2>1 DEF StreamOK, Closed
  <2>3. /\ listed \in Numbers /\ stream.since \in Nat
        /\ InOrder(seen, stream.full, stream.since, Offers)
    BY <2>1, <2>2, Bounds DEF StreamOK, Streams, Seen
  <2>4. PICK last \in 0 .. emitted : UpTo(listed, last) /\ last >= stream.since
    BY <2>1, <2>2 DEF StreamOK, ListReaches
  <2>5. /\ Len(listed) \in Nat /\ Len(listed) >= 1 /\ DOMAIN listed = 1 .. Len(listed)
        /\ Offers \in Nat /\ emitted \in Nat
    BY <2>3, NumbersAt, OffersNat
  <2>6. Head(listed) = last - Len(listed) + 1
    <3>1. Head(listed) = listed[1] /\ 1 \in DOMAIN listed
      BY <2>3, <2>5 DEF Numbers
    <3> QED BY <2>4, <2>5, <3>1 DEF UpTo
  <2>7. e \in Int /\ e >= Head(listed) /\ e <= Offers
    BY <2>5, <2>6
  <2>8. CASE e <= last
    <3>1. PICK n \in Nat : n = Len(listed)
      BY <2>5
    <3>2. PICK k \in Int : k = e
      BY <2>7
    <3>3. PICK m \in Int : m = last
      BY <2>5
    <3>4. n >= 1 /\ k >= m - n + 1 /\ k <= m
      BY <2>5, <2>6, <2>7, <2>8, <3>1, <3>2, <3>3
    <3>5. PICK i \in 1 .. n : m - n + i = k
      <4>1. k - m + n \in 1 .. n /\ m - n + (k - m + n) = k
        BY <3>4
      <4> QED BY <4>1
    <3>6. i \in DOMAIN listed /\ listed[i] = m - n + i
      BY <2>4, <2>5, <3>1, <3>3 DEF UpTo
    <3> QED BY <3>2, <3>5, <3>6 DEF Elements
  <2>9. CASE e > last
    <3>1. e \in stream.since + 1 .. Offers
      BY <2>3, <2>4, <2>5, <2>7, <2>9
    <3> QED BY <2>3, <3>1 DEF InOrder
  <2> QED BY <2>4, <2>7, <2>8, <2>9
<1> QED BY <1>1, InitInv, NextInv, PTL DEF Spec
=============================================================================
