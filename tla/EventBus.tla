------------------------------ MODULE EventBus ------------------------------
(***************************************************************************)
(* The mesh's event bus (app/mesh.py, EventBus) and its two readers in     *)
(* app/main.py: the stream, a coroutine per client, and the list, which a  *)
(* thread of the pool reads while the event loop may be in emit().         *)
(*                                                                         *)
(* Events are numbered as they are emitted.  A stream's queue is bounded   *)
(* and drops what does not fit; the list keeps the latest events.  since,  *)
(* sent, listed and full are history, which no step reads: when the client *)
(* connected, what it has seen, and which events found its queue full.     *)
(***************************************************************************)
EXTENDS Naturals, Sequences

CONSTANTS
  Clients,
  QueueSize,  \* maxsize of a subscriber's queue
  Retained,   \* EventBus.max_events
  MaxEvents   \* bound of the events emitted

ASSUME BoundsValid == QueueSize \in Nat \ {0} /\ Retained \in Nat \ {0} /\ MaxEvents \in Nat

VARIABLES
  emitted,   \* number of events emitted
  emitting,  \* whether the loop is in emit(), the event appended
  events,    \* EventBus.events
  streams    \* the stream of each client

vars == <<emitted, emitting, events, streams>>

Closed == [at |-> "closed", queue |-> <<>>,
           since |-> 0, sent |-> <<>>, listed |-> <<>>, full |-> {}]

Init ==
  /\ emitted = 0 /\ emitting = FALSE
  /\ events = <<>>
  /\ streams = [c \in Clients |-> Closed]

\* Mutant: the list is trimmed one event late.
LatestLeavingOne(n, s) ==
  IF Len(s) > n + 1 THEN SubSeq(s, Len(s) - n, Len(s)) ELSE s

\* Mutant: the oldest events are kept.
OldestKept(n, s) == IF Len(s) > n THEN SubSeq(s, 1, n) ELSE s

Latest(n, s) == IF Len(s) > n THEN SubSeq(s, Len(s) - n + 1, Len(s)) ELSE s

-----------------------------------------------------------------------------
(* emit()                                                                  *)

AppendEvent ==
  /\ ~emitting /\ emitted < MaxEvents
  /\ emitting' = TRUE
  /\ emitted' = emitted + 1
  /\ events' = Append(events, emitted')
  /\ UNCHANGED streams

\* Mutant: a full queue makes room by dropping its oldest event.
OfferedLatest(stream) ==
  IF stream.at = "closed" THEN stream
  ELSE [stream EXCEPT !.queue = Latest(QueueSize, Append(@, emitted))]

Offered(stream) ==
  IF stream.at = "closed" \/ Len(stream.queue) = QueueSize THEN stream
  ELSE [stream EXCEPT !.queue = Append(@, emitted)]

FoundFull(stream) ==
  IF Len(stream.queue) = QueueSize THEN stream.full \cup {emitted} ELSE stream.full

TrimAndOffer ==
  /\ emitting
  /\ emitting' = FALSE
  /\ events' = Latest(Retained, events)
  /\ streams' = [c \in Clients |-> [Offered(streams[c]) EXCEPT !.full = FoundFull(streams[c])]]
  /\ UNCHANGED emitted

-----------------------------------------------------------------------------
(* _event_stream(), on the event loop as emit() is                         *)

Set(c, stream) ==
  /\ ~emitting
  /\ streams' = [streams EXCEPT ![c] = stream]
  /\ UNCHANGED <<emitted, emitting, events>>

At(c, place) == streams[c].at = place

Connect(c) ==
  /\ At(c, "closed")
  /\ Set(c, [Closed EXCEPT !.at = "waiting", !.since = emitted])

Take(c) ==
  /\ (At(c, "waiting") \/ At(c, "getting")) /\ streams[c].queue # <<>>
  /\ Set(c, [streams[c] EXCEPT !.at = "yielding", !.queue = Tail(@),
                               !.sent = Append(@, Head(streams[c].queue))])

\* The wait times out; an event that comes at the same moment stays queued.
KeepAlive(c) ==
  /\ At(c, "waiting")
  /\ Set(c, [streams[c] EXCEPT !.at = "yielding"])

\* The client's connection takes what was yielded.  Only a wait that finds the
\* queue empty lasts until it can time out.
Resume(c) ==
  /\ At(c, "yielding")
  /\ Set(c, [streams[c] EXCEPT !.at = IF streams[c].queue = <<>> THEN "waiting"
                                      ELSE "getting"])

\* Cancelled in its wait, the stream unsubscribes at once; suspended in a yield,
\* only when the generator is finalized.
Disconnect(c) ==
  \/ (At(c, "waiting") \/ At(c, "getting")) /\ Set(c, Closed)
  \/ At(c, "yielding") /\ Set(c, [streams[c] EXCEPT !.at = "abandoned"])

\* Mutant: the stream does not unsubscribe.
FinalizeSubscribed(c) == At(c, "abandoned") /\ Set(c, streams[c])

Finalize(c) == At(c, "abandoned") /\ Set(c, Closed)

-----------------------------------------------------------------------------
(* events() runs in a thread                                               *)

List(c) ==
  /\ streams[c].at \in {"waiting", "getting", "yielding"}
  /\ streams' = [streams EXCEPT ![c].listed = events]
  /\ UNCHANGED <<emitted, emitting, events>>

Stream(c) == Connect(c) \/ Take(c) \/ KeepAlive(c) \/ Resume(c) \/ Disconnect(c) \/ Finalize(c)

Next == AppendEvent \/ TrimAndOffer \/ \E c \in Clients : Stream(c) \/ List(c)

\* emit() returns; a stream whose queue holds an event takes it; a client reads
\* or disconnects; the event loop finalizes generators.  emit() keeps the loop
\* from all three, again and again, so weak fairness would count on its end.
Spec ==
  /\ Init /\ [][Next]_vars
  /\ WF_vars(TrimAndOffer)
  /\ \A c \in Clients :
       /\ SF_vars(Take(c))
       /\ SF_vars(Resume(c) \/ Disconnect(c))
       /\ SF_vars(Finalize(c))

-----------------------------------------------------------------------------
(* Properties                                                              *)

Numbers == Seq(1 .. MaxEvents)

Streams ==
  [at: {"closed", "waiting", "getting", "yielding", "abandoned"},
   queue: Numbers, since: 0 .. MaxEvents, sent: Numbers, listed: Numbers,
   full: SUBSET (1 .. MaxEvents)]

\* Every variable stays in its domain and every queue in its bound.
TypeOK ==
  /\ emitted \in 0 .. MaxEvents /\ emitting \in BOOLEAN
  /\ events \in Numbers /\ Len(events) <= Retained + 1
  /\ streams \in [Clients -> Streams]
  /\ \A c \in Clients : Len(streams[c].queue) <= QueueSize

Elements(s) == {s[i] : i \in DOMAIN s}
Seen(c) == streams[c].sent \o streams[c].queue

\* The events that emit() has offered to the streams.
Offers == IF emitting THEN emitted - 1 ELSE emitted

\* A stream is in order and without repetition, and of the events offered since
\* its client connected it has lost only those that found its queue full.
GapsNeedBacklog ==
  \A c \in Clients : ~At(c, "closed") =>
    LET seen == Seen(c) IN
    /\ \A i, j \in DOMAIN seen : i < j => seen[i] < seen[j]
    /\ streams[c].since + 1 .. Offers \subseteq Elements(seen) \cup streams[c].full

\* A client that reads the list once it is connected misses nothing from the
\* oldest event listed on, though a thread reads the list in the middle of
\* emit(), but the events that found its queue full.
CatchUpComplete ==
  \A c \in Clients : streams[c].listed # <<>> =>
    Head(streams[c].listed) .. Offers
      \subseteq Elements(streams[c].listed) \cup Elements(Seen(c)) \cup streams[c].full

\* Every event queued leaves the queue: the stream yields it, or the client has
\* left and the queue is dropped, an abandoned generator's too.
QueuedEventsLeave ==
  \A c \in Clients, e \in 1 .. MaxEvents :
    e \in Elements(streams[c].queue) ~> e \notin Elements(streams[c].queue)
=============================================================================
