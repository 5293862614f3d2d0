-------------------------- MODULE BroadcastFanout --------------------------
(* BusEventRouter.SetPlanes and HandleBroadcast: a broadcast is dispatched,  *)
(* plane by plane and outside the lock, to the planes subscribed when it     *)
(* arrived; what a plane decodes is offered to a bounded queue that is never *)
(* waited for.  Several goroutines may handle broadcasts at once.            *)
EXTENDS Naturals, Sequences, FiniteSets, SequencesExt

CONSTANTS
  Handler,             \* goroutines handling broadcasts, one at a time each
  Plane,
  Topic,               \* (primary, secondary) pairs
  Subscriptions,       \* [Plane -> Seq(Topic)], a plane's own list
  Decoder,             \* the planes that are BroadcastDecoders
  PlaneList,           \* the arguments of SetPlanes
  Capacity,            \* of the event queue, 64 in the code
  MaxBroadcasts        \* bound on the broadcasts handled

ASSUME SubscriptionAssumption ==
  /\ Subscriptions \in [Plane -> Seq(Topic)]
  /\ Decoder \subseteq Plane
  /\ Capacity \in Nat \ {0}
  /\ IsFiniteSet(Handler)

VARIABLES
  subscriptions,       \* [Topic -> Seq(Plane)]
  events,              \* the queue: [plane, frame] records
  overflow,            \* router_broadcast_event_overflow_total
  dispatch,            \* per handler: frame, the planes it goes through and
                       \* the next of them, whether it holds an event of
                       \* that plane, overflow errors
  frames,              \* broadcasts so far
  decoded,             \* events decoded so far (history)
  consumed,            \* events the consumer has taken
  surfaced             \* overflow errors HandleBroadcast has returned

vars == <<subscriptions, events, overflow, dispatch, frames, decoded,
          consumed, surfaced>>

\* A frame is its topic and a number that tells it from the others.
NoDispatch == [frame |-> <<>>, planes |-> <<>>, next |-> 1, event |-> FALSE,
               overflows |-> 0]

Init ==
  /\ subscriptions = [t \in Topic |-> <<>>]
  /\ events = <<>>
  /\ overflow = 0
  /\ dispatch = [h \in Handler |-> NoDispatch]
  /\ frames = 0
  /\ decoded = 0
  /\ consumed = <<>>
  /\ surfaced = 0

\* A plane is entered as often as its list has the topic.
Entries(p, t) ==
  [i \in 1..Cardinality({j \in DOMAIN Subscriptions[p] : Subscriptions[p][j] = t}) |-> p]

Table(planes) ==
  [t \in Topic |-> FlattenSeq([i \in DOMAIN planes |-> Entries(planes[i], t)])]

SetPlanes(planes) ==
  /\ subscriptions' = Table(planes)
  /\ UNCHANGED <<events, overflow, dispatch, frames, decoded, consumed, surfaced>>

\* The snapshot under the read lock; nothing is done when nobody subscribes.
HandleBroadcast(h, t) ==
  /\ dispatch[h] = NoDispatch
  /\ frames < MaxBroadcasts
  /\ subscriptions[t] # <<>>
  /\ frames' = frames + 1
  /\ dispatch' = [dispatch EXCEPT ![h] = [frame |-> <<t, frames + 1>>,
                                          planes |-> subscriptions[t], next |-> 1,
                                          event |-> FALSE, overflows |-> 0]]
  /\ UNCHANGED <<subscriptions, events, overflow, decoded, consumed, surfaced>>

\* Slip: the live table is walked instead of the snapshot.
CurrentLive(h) ==
  LET live == subscriptions[dispatch[h].frame[1]]
      next == dispatch[h].next
  IN IF next \in DOMAIN live THEN live[next] ELSE dispatch[h].planes[next]

HasPlane(h) == dispatch[h].next \in DOMAIN dispatch[h].planes
Current(h)  == dispatch[h].planes[dispatch[h].next]
Event(h)    == [plane |-> Current(h), frame |-> dispatch[h].frame]

\* The current plane has been served, with n events dropped.
Served(h, n) ==
  [dispatch[h] EXCEPT !.next = @ + 1, !.event = FALSE, !.overflows = @ + n]

\* The plane does not decode, fails to, or has nothing to say.
PassBy(h) ==
  /\ HasPlane(h) /\ ~dispatch[h].event
  /\ dispatch' = [dispatch EXCEPT ![h] = Served(h, 0)]
  /\ UNCHANGED <<subscriptions, events, overflow, frames, decoded, consumed, surfaced>>

Decode(h) ==
  /\ HasPlane(h) /\ ~dispatch[h].event
  /\ Current(h) \in Decoder
  /\ dispatch' = [dispatch EXCEPT ![h].event = TRUE]
  /\ decoded' = decoded + 1
  /\ UNCHANGED <<subscriptions, events, overflow, frames, consumed, surfaced>>

Full == Len(events) = Capacity

\* Slip: the queue holds one event more.
AcceptOneMore(h) ==
  /\ Len(events) <= Capacity
  /\ events' = Append(events, Event(h))
  /\ dispatch' = [dispatch EXCEPT ![h] = Served(h, 0)]
  /\ UNCHANGED overflow

Accept(h) ==
  /\ ~Full
  /\ events' = Append(events, Event(h))
  /\ dispatch' = [dispatch EXCEPT ![h] = Served(h, 0)]
  /\ UNCHANGED overflow

\* Slip: the oldest event makes room.
DropOldest(h) ==
  /\ Full
  /\ events' = Append(Tail(events), Event(h))
  /\ dispatch' = [dispatch EXCEPT ![h] = Served(h, 0)]
  /\ UNCHANGED overflow

\* Slip: room is waited for.
AwaitRoom(h) == ~Full /\ Accept(h)

\* Count, report, go on with the next plane.
Overflow(h) ==
  /\ Full
  /\ overflow' = overflow + 1
  /\ dispatch' = [dispatch EXCEPT ![h] = Served(h, 1)]
  /\ UNCHANGED events

\* select with a default: the queue is never waited for.
Offer(h) ==
  /\ dispatch[h].event
  /\ Accept(h) \/ Overflow(h)
  /\ UNCHANGED <<subscriptions, frames, decoded, consumed, surfaced>>

ReturnErrors(h) ==
  /\ dispatch[h] # NoDispatch /\ ~HasPlane(h)
  /\ surfaced' = surfaced + dispatch[h].overflows
  /\ dispatch' = [dispatch EXCEPT ![h] = NoDispatch]
  /\ UNCHANGED <<subscriptions, events, overflow, frames, decoded, consumed>>

\* The reader of Events().
Consume ==
  /\ events # <<>>
  /\ consumed' = Append(consumed, Head(events))
  /\ events' = Tail(events)
  /\ UNCHANGED <<subscriptions, overflow, dispatch, frames, decoded, surfaced>>

\* What a running HandleBroadcast does next.
Proceed(h) == PassBy(h) \/ Decode(h) \/ Offer(h) \/ ReturnErrors(h)

Next ==
  \/ \E planes \in PlaneList : SetPlanes(planes)
  \/ \E h \in Handler : Proceed(h) \/ \E t \in Topic : HandleBroadcast(h, t)
  \/ Consume

Spec == Init /\ [][Next]_vars

\* A goroutine that can run does; the consumer need not.
FairSpec == Spec /\ \A h \in Handler : WF_vars(Proceed(h))

-----------------------------------------------------------------------------
\* Properties

stream == consumed \o events

Rows(t) == {Table(planes)[t] : planes \in PlaneList}

\* Every variable stays in its type, the queue within its capacity, and a
\* broadcast goes through one table's planes of its topic (router.go:59-60,
\* 118, 148-150).
TypeOK ==
  /\ subscriptions \in {[t \in Topic |-> <<>>]} \cup {Table(planes) : planes \in PlaneList}
  /\ \A e \in Range(stream) : e.plane \in Decoder /\ e.frame \in Topic \X (1..frames)
  /\ Len(events) <= Capacity
  /\ \A h \in Handler : dispatch[h] # NoDispatch =>
       /\ dispatch[h].frame \in Topic \X (1..frames)
       /\ dispatch[h].planes \in Rows(dispatch[h].frame[1])

\* The overflow errors collected by the broadcasts that still run.
PendingOverflows == UNION {{h} \X (1..dispatch[h].overflows) : h \in Handler}

\* No decoded event disappears (router.go:175-185): it is about to be offered,
\* is queued, was consumed or was dropped, and every drop is counted and is returned as an
\* error by the HandleBroadcast that dropped it.
Offering == {h \in Handler : dispatch[h].event}
NoEventIsLost == decoded = Len(stream) + overflow + Cardinality(Offering)
EventsAreAccountedFor == NoEventIsLost /\ overflow = surfaced + Cardinality(PendingOverflows)

\* The events in the stream that a frame has produced.
Heard(frame) == {i \in DOMAIN stream : stream[i].frame = frame}

\* at places what was heard of a frame in a row, from left to right.
Places(row, frame, at) ==
  \A i \in Heard(frame) :
    /\ stream[i].plane = row[at[i]]
    /\ \A j \in Heard(frame) : j < i => at[j] < at[i]

\* A SetPlanes during a broadcast does not mix two tables (router.go:148-150):
\* the planes whose events a frame produced stand in the order of one table.
OneTablePerBroadcast ==
  \A e \in Range(stream) : \E row \in Rows(e.frame[1]) :
    \E at \in [Heard(e.frame) -> DOMAIN row] : Places(row, e.frame, at)

\* A stalled consumer never stalls a broadcast (router.go:180-185).
EveryBroadcastCompletes ==
  \A h \in Handler : dispatch[h] # NoDispatch ~> dispatch[h] = NoDispatch

\* What the fan-out test expects (router_test.go:160): a subscribed plane
\* hears a broadcast once, so one broadcast makes at most one event of it.
OneEventPerPlane ==
  \A i, j \in DOMAIN stream : stream[i] = stream[j] => i = j
=============================================================================
