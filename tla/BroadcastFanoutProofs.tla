------------------------ MODULE BroadcastFanoutProofs ------------------------
(***************************************************************************)
(* The fan-out is correct for any planes, subscriptions, tables and        *)
(* capacity and any finite number of goroutines: every variable stays in   *)
(* its type, no event disappears, every drop is reported, and what a frame *)
(* produced stands in the order of one table.  The invariants need:        *)
(*   - that a broadcast which holds an event still is at the plane that    *)
(*     decoded it, so that it cannot return with an event in hand;         *)
(*   - that no two broadcasts that run have the same frame, and that the   *)
(*     events a running one has produced are placed in its snapshot before *)
(*     its current plane, so that the next one is placed behind them.      *)
(***************************************************************************)
EXTENDS BroadcastFanout, FiniteSetTheorems, SequenceTheorems, TLAPS

EventRecord == [plane : Decoder, frame : Topic \X Nat]

Snapshots == UNION {Rows(t) : t \in Topic}

(* A broadcast that runs when n frames have been handled. *)
IsRun(d, n) ==
  /\ d \in [frame : Topic \X Nat, planes : Snapshots, next : Nat \ {0},
            event : BOOLEAN, overflows : Nat]
  /\ d.frame[2] \in 1..n
  /\ d.planes \in Rows(d.frame[1])
  /\ d.event => d.next \in DOMAIN d.planes /\ d.planes[d.next] \in Decoder

Dispatches ==
  /\ dispatch = [h \in Handler |-> dispatch[h]]
  /\ \A h \in Handler : dispatch[h] = NoDispatch \/ IsRun(dispatch[h], frames)

Stream ==
  /\ events \in Seq(EventRecord) /\ consumed \in Seq(EventRecord)
  /\ \A i \in DOMAIN stream : stream[i].frame[2] \in 1..frames

Typing ==
  /\ subscriptions \in {[t \in Topic |-> <<>>]} \cup {Table(planes) : planes \in PlaneList}
  /\ Dispatches /\ Stream /\ Len(events) <= Capacity
  /\ frames \in Nat /\ decoded \in Nat /\ overflow \in Nat /\ surfaced \in Nat

Counting ==
  /\ NoEventIsLost
  /\ IsFiniteSet(PendingOverflows) /\ overflow = surfaced + Cardinality(PendingOverflows)

Runs(h) == dispatch[h] # NoDispatch

(* What a frame was heard with stands in row, before position next. *)
PlacedBefore(row, next, frame) ==
  \E at \in [Heard(frame) -> DOMAIN row] :
    Places(row, frame, at) /\ \A i \in Heard(frame) : at[i] \in 1..(next - 1)

Ordering ==
  /\ \A g, h \in Handler : Runs(g) /\ Runs(h) /\ g # h => dispatch[g].frame # dispatch[h].frame
  /\ \A h \in Handler : Runs(h) =>
       PlacedBefore(dispatch[h].planes, dispatch[h].next, dispatch[h].frame)
  /\ OneTablePerBroadcast

IInv == Typing /\ Counting /\ Ordering

-----------------------------------------------------------------------------
(* The stream *)

LEMMA StreamIsASequence ==
  ASSUME events \in Seq(EventRecord), consumed \in Seq(EventRecord)
  PROVE  /\ stream \in Seq(EventRecord) /\ DOMAIN stream = 1..Len(stream)
         /\ Len(stream) = Len(consumed) + Len(events)
         /\ Len(stream) \in Nat /\ Len(consumed) \in Nat /\ Len(events) \in Nat
BY ConcatProperties, LenProperties DEF stream

LEMMA StreamGrows ==
  ASSUME events \in Seq(EventRecord), consumed \in Seq(EventRecord), NEW e \in EventRecord,
         events' = Append(events, e), consumed' = consumed
  PROVE  /\ events' \in Seq(EventRecord) /\ Len(events') = Len(events) + 1
         /\ Len(stream') = Len(stream) + 1 /\ DOMAIN stream' = 1..(Len(stream) + 1)
         /\ stream'[Len(stream) + 1] = e
         /\ \A i \in 1..Len(stream) : stream'[i] = stream[i]
<1>1. /\ events' \in Seq(EventRecord) /\ Len(events') = Len(events) + 1
      /\ \A i \in 1..Len(events) : events'[i] = events[i]
      /\ events'[Len(events) + 1] = e
  BY AppendProperties, LenProperties
<1>2. Len(consumed) \in Nat /\ Len(events) \in Nat /\ Len(stream) = Len(consumed) + Len(events)
  BY StreamIsASequence
<1>3. /\ stream' \in Seq(EventRecord) /\ Len(stream') = Len(consumed) + Len(events')
      /\ \A i \in 1..(Len(consumed) + Len(events')) :
           stream'[i] = IF i <= Len(consumed) THEN consumed[i] ELSE events'[i - Len(consumed)]
  BY <1>1, ConcatProperties DEF stream
<1>4. \A i \in 1..(Len(consumed) + Len(events)) :
        stream[i] = IF i <= Len(consumed) THEN consumed[i] ELSE events[i - Len(consumed)]
  BY ConcatProperties DEF stream
<1>5. ASSUME NEW i \in 1..Len(stream) PROVE stream'[i] = stream[i]
  <2>1. i \in 1..(Len(consumed) + Len(events)) /\ i \in 1..(Len(consumed) + Len(events'))
    BY <1>1, <1>2
  <2>2. CASE i <= Len(consumed)
    BY <1>3, <1>4, <2>1, <2>2
  <2>3. CASE ~ (i <= Len(consumed))
    <3>1. i - Len(consumed) \in 1..Len(events)
      BY <1>2, <2>1, <2>3
    <3>2. QED
      BY <1>1, <1>3, <1>4, <2>1, <2>3, <3>1
  <2>4. QED
    BY <2>2, <2>3
<1>6. stream'[Len(stream) + 1] = e
  <2>1. /\ Len(stream) + 1 \in 1..(Len(consumed) + Len(events')) /\ ~ (Len(stream) + 1 <= Len(consumed))
        /\ Len(stream) + 1 - Len(consumed) = Len(events) + 1
    BY <1>1, <1>2
  <2>2. QED
    BY <1>1, <1>3, <2>1
<1>7. DOMAIN stream' = 1..(Len(stream) + 1)
  BY <1>1, <1>2, <1>3, LenProperties
<1>8. QED
  BY <1>1, <1>2, <1>3, <1>5, <1>6, <1>7

(* The consumer only moves the border between its past and the queue. *)
LEMMA ConsumingKeepsTheStream ==
  ASSUME events \in Seq(EventRecord), consumed \in Seq(EventRecord), Consume
  PROVE  /\ events' \in Seq(EventRecord) /\ consumed' \in Seq(EventRecord)
         /\ stream' = stream /\ Len(events') <= Len(events)
<1>1. /\ events # <<>> /\ events' = Tail(events) /\ consumed' = Append(consumed, Head(events))
  BY DEF Consume
<1>2. /\ Head(events) \in EventRecord /\ events' \in Seq(EventRecord)
      /\ Len(events') = Len(events) - 1 /\ \A i \in 1..Len(events') : events'[i] = events[i + 1]
  BY <1>1, HeadTailProperties
<1>3. Head(events) = events[1]
  BY <1>1
<1>4. /\ consumed' \in Seq(EventRecord) /\ Len(consumed') = Len(consumed) + 1
      /\ \A i \in 1..Len(consumed) : consumed'[i] = consumed[i]
      /\ consumed'[Len(consumed) + 1] = events[1]
  BY <1>1, <1>2, <1>3, AppendProperties, LenProperties
<1>5. Len(consumed) \in Nat /\ Len(events) \in Nat
  BY LenProperties
<1>6. /\ stream \in Seq(EventRecord) /\ Len(stream) = Len(consumed) + Len(events)
      /\ \A i \in 1..(Len(consumed) + Len(events)) :
           stream[i] = IF i <= Len(consumed) THEN consumed[i] ELSE events[i - Len(consumed)]
  BY ConcatProperties DEF stream
<1>7. /\ stream' \in Seq(EventRecord) /\ Len(stream') = Len(consumed') + Len(events')
      /\ \A i \in 1..(Len(consumed') + Len(events')) :
           stream'[i] = IF i <= Len(consumed') THEN consumed'[i] ELSE events'[i - Len(consumed')]
  BY <1>2, <1>4, ConcatProperties DEF stream
<1>8. Len(stream') = Len(stream)
  BY <1>2, <1>4, <1>5, <1>6, <1>7
<1>9. ASSUME NEW i \in 1..Len(stream) PROVE stream'[i] = stream[i]
  <2>1. i \in 1..(Len(consumed) + Len(events)) /\ i \in 1..(Len(consumed') + Len(events'))
    BY <1>6, <1>7, <1>8
  <2>2. CASE i <= Len(consumed)
    <3>1. i \in 1..Len(consumed) /\ i <= Len(consumed')
      BY <1>4, <1>5, <2>1, <2>2
    <3>2. stream[i] = consumed[i]
      BY <1>6, <2>1, <2>2
    <3>3. stream'[i] = consumed'[i]
      BY <1>7, <2>1, <3>1
    <3>4. QED
      BY <1>4, <3>1, <3>2, <3>3
  <2>3. CASE i = Len(consumed) + 1
    <3>1. ~ (i <= Len(consumed)) /\ i - Len(consumed) = 1 /\ i <= Len(consumed')
      BY <1>4, <1>5, <2>3
    <3>2. stream[i] = events[1]
      BY <1>6, <2>1, <3>1
    <3>3. stream'[i] = consumed'[i]
      BY <1>7, <2>1, <3>1
    <3>4. QED
      BY <1>4, <2>3, <3>2, <3>3
  <2>4. CASE i > Len(consumed) + 1
    <3>1. /\ ~ (i <= Len(consumed)) /\ ~ (i <= Len(consumed'))
          /\ i - Len(consumed') \in 1..Len(events') /\ (i - Len(consumed')) + 1 = i - Len(consumed)
      BY <1>2, <1>4, <1>5, <2>1, <2>4
    <3>2. QED
      BY <1>2, <1>6, <1>7, <2>1, <3>1
  <2>5. QED
    BY <1>5, <2>1, <2>2, <2>3, <2>4
<1>10. stream' = stream
  BY <1>6, <1>7, <1>8, <1>9, SeqEqual
<1>11. QED
  BY <1>2, <1>4, <1>5, <1>10

-----------------------------------------------------------------------------
(* What follows from a step of one handler, which leaves it with d *)

LEMMA OneDispatchChanges ==
  ASSUME Dispatches, NEW h \in Handler, NEW d, dispatch' = [dispatch EXCEPT ![h] = d]
  PROVE  /\ dispatch' = [g \in Handler |-> dispatch'[g]]
         /\ \A g \in Handler : dispatch'[g] = IF g = h THEN d ELSE dispatch[g]
BY DEF Dispatches

LEMMA DispatchTyping ==
  ASSUME Dispatches, NEW h \in Handler, NEW d, dispatch' = [dispatch EXCEPT ![h] = d],
         d = NoDispatch \/ IsRun(d, frames'), frames \in Nat, frames' \in Nat, frames <= frames'
  PROVE  Dispatches'
<1>1. ASSUME NEW g \in Handler, g # h, dispatch[g] # NoDispatch PROVE IsRun(dispatch[g], frames')
  BY <1>1 DEF Dispatches, IsRun
<1>2. QED
  BY <1>1, OneDispatchChanges DEF Dispatches

LEMMA DispatchFields ==
  ASSUME Dispatches, NEW h \in Handler
  PROVE  dispatch[h].event \in BOOLEAN /\ dispatch[h].overflows \in Nat
<1>1. CASE dispatch[h] = NoDispatch
  BY <1>1 DEF NoDispatch
<1>2. CASE IsRun(dispatch[h], frames)
  BY <1>2 DEF IsRun
<1>3. QED
  BY <1>1, <1>2 DEF Dispatches

(* The events that d holds: one or none. *)
Holds(d, n) == (d.event /\ n = 1) \/ (~ d.event /\ n = 0)

LEMMA OfferingChanges ==
  ASSUME Dispatches, NEW h \in Handler, NEW d, dispatch' = [dispatch EXCEPT ![h] = d],
         NEW before, Holds(dispatch[h], before), NEW after, Holds(d, after)
  PROVE  /\ Cardinality(Offering) \in Nat
         /\ Cardinality(Offering') = Cardinality(Offering) + after - before
<1>1. IsFiniteSet(Offering) /\ Cardinality(Offering) \in Nat
  BY SubscriptionAssumption, FS_Subset, FS_CardinalityType DEF Offering
<1>2. Offering' = IF d.event THEN Offering \cup {h} ELSE Offering \ {h}
  BY OneDispatchChanges DEF Offering
<1>3. h \in Offering <=> dispatch[h].event
  BY DEF Offering
<1>4. /\ Cardinality(Offering \cup {h}) =
           IF h \in Offering THEN Cardinality(Offering) ELSE Cardinality(Offering) + 1
      /\ Cardinality(Offering \ {h}) =
           IF h \in Offering THEN Cardinality(Offering) - 1 ELSE Cardinality(Offering)
  BY <1>1, FS_AddElement, FS_RemoveElement
<1>5. QED
  BY <1>1, <1>2, <1>3, <1>4 DEF Holds

LEMMA RowOfOverflows ==
  ASSUME NEW h, NEW n \in Nat
  PROVE  IsFiniteSet({h} \X (1..n)) /\ Cardinality({h} \X (1..n)) = n
<1>1. IsFiniteSet(1..n) /\ Cardinality(1..n) = n
  BY FS_Interval
<1>2. IsFiniteSet({h}) /\ Cardinality({h}) = 1
  BY FS_Singleton
<1>3. QED
  BY <1>1, <1>2, FS_Product

LEMMA PendingChanges ==
  ASSUME Dispatches, IsFiniteSet(PendingOverflows), NEW h \in Handler, NEW d, d.overflows \in Nat,
         dispatch' = [dispatch EXCEPT ![h] = d]
  PROVE  /\ IsFiniteSet(PendingOverflows') /\ Cardinality(PendingOverflows) \in Nat
         /\ Cardinality(PendingOverflows') =
              Cardinality(PendingOverflows) - dispatch[h].overflows + d.overflows
<1> DEFINE before == {h} \X (1..dispatch[h].overflows)
           after  == {h} \X (1..d.overflows)
<1>1. \A g \in Handler : dispatch'[g] = IF g = h THEN d ELSE dispatch[g]
  BY OneDispatchChanges
<1>2. \A x : x \in PendingOverflows <=> \E g \in Handler : x \in {g} \X (1..dispatch[g].overflows)
  BY DEF PendingOverflows
<1>3. \A x : x \in PendingOverflows' <=> \E g \in Handler : x \in {g} \X (1..dispatch'[g].overflows)
  BY DEF PendingOverflows
<1>4. PendingOverflows' = (PendingOverflows \ before) \cup after
  <2>1. \A g \in Handler : \A x : g # h /\ x \in {g} \X (1..dispatch[g].overflows) => x \notin before
    OBVIOUS
  <2>2. ASSUME NEW x \in PendingOverflows' PROVE x \in (PendingOverflows \ before) \cup after
    <3>1. PICK g \in Handler : x \in {g} \X (1..dispatch'[g].overflows)
      BY <1>3, <2>2
    <3>2. CASE g = h
      BY <1>1, <3>1, <3>2
    <3>3. CASE g # h
      <4>1. x \in {g} \X (1..dispatch[g].overflows)
        BY <1>1, <3>1, <3>3
      <4>2. QED
        BY <1>2, <2>1, <3>3, <4>1
    <3>4. QED
      BY <3>2, <3>3
  <2>3. ASSUME NEW x \in PendingOverflows, x \notin before PROVE x \in PendingOverflows'
    <3>1. PICK g \in Handler : x \in {g} \X (1..dispatch[g].overflows)
      BY <1>2, <2>3
    <3>2. g # h
      BY <2>3, <3>1
    <3>3. x \in {g} \X (1..dispatch'[g].overflows)
      BY <1>1, <3>1, <3>2
    <3>4. QED
      BY <1>3, <3>3
  <2>4. ASSUME NEW x \in after PROVE x \in PendingOverflows'
    BY <1>1, <1>3, <2>4
  <2>5. QED
    BY <2>2, <2>3, <2>4
<1>5. before \subseteq PendingOverflows
  BY <1>2
<1>6. /\ IsFiniteSet(before) /\ Cardinality(before) = dispatch[h].overflows
      /\ IsFiniteSet(after) /\ Cardinality(after) = d.overflows
      /\ dispatch[h].overflows \in Nat
  BY DispatchFields, RowOfOverflows
<1>7. (PendingOverflows \ before) \cap after = {}
  <2>1. ASSUME NEW x \in PendingOverflows, x \in after PROVE x \in before
    <3>1. PICK g \in Handler : x \in {g} \X (1..dispatch[g].overflows)
      BY <1>2, <2>1
    <3>2. g = h
      BY <2>1, <3>1
    <3>3. QED
      BY <3>1, <3>2
  <2>2. QED
    BY <2>1
<1> HIDE DEF before, after
<1>8. /\ IsFiniteSet(PendingOverflows \ before)
      /\ Cardinality(PendingOverflows \ before)
           = Cardinality(PendingOverflows) - Cardinality(PendingOverflows \cap before)
  BY FS_Difference
<1>9. PendingOverflows \cap before = before
  BY <1>5
<1>10. /\ IsFiniteSet((PendingOverflows \ before) \cup after)
       /\ Cardinality((PendingOverflows \ before) \cup after)
            = Cardinality(PendingOverflows \ before) + Cardinality(after)
                - Cardinality((PendingOverflows \ before) \cap after)
  BY <1>6, <1>8, FS_Union
<1>11. Cardinality((PendingOverflows \ before) \cap after) = 0 /\ Cardinality(PendingOverflows) \in Nat
  BY <1>7, FS_EmptySet, FS_CardinalityType
<1>12. Cardinality(PendingOverflows \ before) = Cardinality(PendingOverflows) - dispatch[h].overflows
  BY <1>6, <1>8, <1>9
<1>13. Cardinality(PendingOverflows')
         = Cardinality(PendingOverflows) - dispatch[h].overflows + d.overflows
  BY <1>4, <1>6, <1>10, <1>11, <1>12
<1>14. QED
  BY <1>4, <1>10, <1>11, <1>13

-----------------------------------------------------------------------------
(* What a step does to the order of the events *)

LEMMA StreamUnmoved ==
  ASSUME stream' = stream
  PROVE  /\ \A row, next, frame : PlacedBefore(row, next, frame) => PlacedBefore(row, next, frame)'
         /\ OneTablePerBroadcast => OneTablePerBroadcast'
<1>1. ASSUME NEW frame PROVE Heard(frame)' = Heard(frame)
  BY DEF Heard
<1>2. ASSUME NEW row, NEW frame, NEW at, Places(row, frame, at) PROVE Places(row, frame, at)'
  BY <1>1, <1>2 DEF Places
<1>3. QED
  BY <1>1, <1>2 DEF PlacedBefore, OneTablePerBroadcast

(* A handler's step that adds nothing to the stream. *)
LEMMA OrderingWithoutAnEvent ==
  ASSUME Dispatches, Ordering, NEW h \in Handler, NEW d,
         dispatch' = [dispatch EXCEPT ![h] = d], stream' = stream,
         d # NoDispatch =>
           /\ \A g \in Handler \ {h} : Runs(g) => dispatch[g].frame # d.frame
           /\ PlacedBefore(d.planes, d.next, d.frame)
  PROVE  Ordering'
<1>1. \A g \in Handler : dispatch'[g] = IF g = h THEN d ELSE dispatch[g]
  BY OneDispatchChanges
<1>2. \A g, f \in Handler : Runs(g)' /\ Runs(f)' /\ g # f => dispatch'[g].frame # dispatch'[f].frame
  BY <1>1 DEF Ordering, Runs
<1>3. ASSUME NEW g \in Handler, Runs(g)'
      PROVE  PlacedBefore(dispatch[g].planes, dispatch[g].next, dispatch[g].frame)'
  <2>1. PICK c : c = dispatch'[g]
    OBVIOUS
  <2>2. PlacedBefore(c.planes, c.next, c.frame)
    BY <1>1, <1>3, <2>1 DEF Ordering, Runs
  <2>3. PlacedBefore(c.planes, c.next, c.frame)'
    BY <2>2, StreamUnmoved
  <2>4. QED
    BY <2>1, <2>3
<1>4. OneTablePerBroadcast'
  BY StreamUnmoved DEF Ordering
<1>5. QED
  BY <1>2, <1>3, <1>4 DEF Ordering

Grown(e) ==
  /\ Len(stream) \in Nat /\ DOMAIN stream = 1..Len(stream)
  /\ DOMAIN stream' = 1..(Len(stream) + 1) /\ stream'[Len(stream) + 1] = e
  /\ \A i \in 1..Len(stream) : stream'[i] = stream[i]

LEMMA OthersStayPlaced ==
  ASSUME NEW e, Grown(e), NEW row, NEW frame, frame # e.frame
  PROVE  /\ Heard(frame)' = Heard(frame)
         /\ \A at : Places(row, frame, at) => Places(row, frame, at)'
         /\ \A next : PlacedBefore(row, next, frame) => PlacedBefore(row, next, frame)'
<1>1. Heard(frame)' = Heard(frame)
  BY DEF Grown, Heard
<1>2. \A i \in Heard(frame) : stream'[i] = stream[i]
  BY DEF Grown, Heard
<1>3. ASSUME NEW at, Places(row, frame, at) PROVE Places(row, frame, at)'
  BY <1>1, <1>2, <1>3 DEF Places
<1>4. QED
  BY <1>1, <1>3 DEF PlacedBefore

(* The event of a frame is placed behind those it made before. *)
LEMMA TheNextIsPlaced ==
  ASSUME NEW e, Grown(e), NEW row, NEW next \in Nat \ {0}, next \in DOMAIN row,
         row[next] = e.plane, PlacedBefore(row, next, e.frame)
  PROVE  PlacedBefore(row, next + 1, e.frame)'
<1> DEFINE last == Len(stream) + 1
<1>1. PICK at \in [Heard(e.frame) -> DOMAIN row] :
        Places(row, e.frame, at) /\ \A i \in Heard(e.frame) : at[i] \in 1..(next - 1)
  BY DEF PlacedBefore
<1>2. Heard(e.frame)' = Heard(e.frame) \cup {last}
  BY DEF Grown, Heard
<1>3. \A i \in Heard(e.frame) : i \in Nat /\ i < last /\ stream'[i] = stream[i]
  BY DEF Grown, Heard
<1>4. last \notin Heard(e.frame) /\ last \in Nat /\ stream'[last] = e
  BY <1>3 DEF Grown
<1> HIDE DEF last
<1>5. PICK more : more = [i \in Heard(e.frame) \cup {last} |-> IF i = last THEN next ELSE at[i]]
  OBVIOUS
<1>6. more \in [Heard(e.frame)' -> DOMAIN row]
  BY <1>1, <1>2, <1>5
<1>7. \A i \in Heard(e.frame) : more[i] = at[i]
  BY <1>4, <1>5
<1>8. more[last] = next
  BY <1>5
<1>9. \A i \in Heard(e.frame)' : more[i] \in 1..((next + 1) - 1)
  BY <1>1, <1>2, <1>7, <1>8
<1>10. ASSUME NEW i \in Heard(e.frame)'
      PROVE  stream'[i].plane = row[more[i]] /\ \A j \in Heard(e.frame)' : j < i => more[j] < more[i]
  <2>1. CASE i \in Heard(e.frame)
    <3>1. ASSUME NEW j \in Heard(e.frame)', j < i PROVE j \in Heard(e.frame)
      BY <1>2, <1>3, <1>4, <2>1, <3>1
    <3>2. QED
      BY <1>1, <1>3, <1>7, <2>1, <3>1 DEF Places
  <2>2. CASE i = last
    <3>1. ASSUME NEW j \in Heard(e.frame)', j < i PROVE more[j] < more[i]
      <4>1. j \in Heard(e.frame)
        BY <1>2, <1>4, <2>2, <3>1
      <4>2. more[j] \in 1..(next - 1) /\ more[i] = next
        BY <1>1, <1>7, <1>8, <2>2, <4>1
      <4>3. QED
        BY <4>2
    <3>2. QED
      BY <1>4, <1>8, <2>2, <3>1
  <2>3. QED
    BY <1>2, <2>1, <2>2
<1>11. Places(row, e.frame, more)'
  BY <1>10 DEF Places
<1>12. QED
  BY <1>6, <1>9, <1>11 DEF PlacedBefore

-----------------------------------------------------------------------------
(* The steps *)

(* What a broadcast that runs has next. *)
LEMMA RunningDispatch ==
  ASSUME Dispatches, NEW h \in Handler, dispatch[h] # NoDispatch
  PROVE  IsRun(dispatch[h], frames)
BY DEF Dispatches

LEMMA HasPlaneRuns ==
  ASSUME NEW h \in Handler, HasPlane(h) \/ dispatch[h].event
  PROVE  dispatch[h] # NoDispatch
BY DEF HasPlane, NoDispatch

LEMMA ServedIsRun ==
  ASSUME Dispatches, frames \in Nat, NEW h \in Handler, dispatch[h] # NoDispatch, NEW n \in Nat
  PROVE  /\ IsRun(Served(h, n), frames)
         /\ Served(h, n).frame = dispatch[h].frame /\ Served(h, n).planes = dispatch[h].planes
         /\ Served(h, n).next = dispatch[h].next + 1 /\ Served(h, n).event = FALSE
         /\ Served(h, n).overflows = dispatch[h].overflows + n
<1>1. PICK r : r = dispatch[h]
  OBVIOUS
<1>2. IsRun(r, frames)
  BY <1>1, RunningDispatch
<1>3. r \in [frame : Topic \X Nat, planes : Snapshots, next : Nat \ {0}, event : BOOLEAN, overflows : Nat]
  BY <1>2 DEF IsRun
<1>4. PICK s : s = [r EXCEPT !.next = @ + 1, !.event = FALSE, !.overflows = @ + n]
  OBVIOUS
<1>5. /\ s \in [frame : Topic \X Nat, planes : Snapshots, next : Nat \ {0}, event : BOOLEAN, overflows : Nat]
      /\ s.frame = r.frame /\ s.planes = r.planes /\ s.next = r.next + 1
      /\ s.event = FALSE /\ s.overflows = r.overflows + n
  <2>1. r.next + 1 \in Nat \ {0} /\ r.overflows + n \in Nat
    BY <1>3
  <2>2. QED
    BY <1>3, <1>4, <2>1
<1>6. IsRun(s, frames)
  BY <1>2, <1>5 DEF IsRun
<1>7. Served(h, n) = s
  BY <1>1, <1>4 DEF Served
<1>8. QED
  BY <1>1, <1>5, <1>6, <1>7

LEMMA PlacedFurther ==
  ASSUME NEW row, NEW next \in Nat, NEW frame, PlacedBefore(row, next, frame)
  PROVE  PlacedBefore(row, next + 1, frame)
BY DEF PlacedBefore

LEMMA InitEstablishes == Init => IInv
<1>1. SUFFICES ASSUME Init PROVE IInv
  OBVIOUS
<1>2. events \in Seq(EventRecord) /\ consumed \in Seq(EventRecord)
  BY <1>1, EmptySeq DEF Init
<1>3. Len(events) = 0 /\ Len(consumed) = 0 /\ Len(stream) = 0 /\ DOMAIN stream = {}
  BY <1>1, <1>2, StreamIsASequence DEF Init
<1>4. dispatch = [h \in Handler |-> NoDispatch]
  BY <1>1 DEF Init
<1>5. Typing
  BY <1>1, <1>2, <1>3, <1>4, SubscriptionAssumption DEF Init, Typing, Dispatches, Stream
<1>6. Counting
  <2>1. Offering = {} /\ PendingOverflows = {}
    BY <1>4 DEF Offering, PendingOverflows, NoDispatch
  <2>2. QED
    BY <1>1, <1>3, <2>1, FS_EmptySet DEF Init, Counting, NoEventIsLost
<1>7. Ordering
  <2>1. Range(stream) = {}
    BY <1>3 DEF Range
  <2>2. QED
    BY <1>4, <2>1 DEF Ordering, Runs, OneTablePerBroadcast
<1>8. QED
  BY <1>5, <1>6, <1>7 DEF IInv

(* No handler moves and the stream stays. *)
LEMMA NobodyMoves ==
  ASSUME IInv, UNCHANGED <<dispatch, decoded, overflow, surfaced, frames>>, stream' = stream,
         events' \in Seq(EventRecord), consumed' \in Seq(EventRecord), Len(events') <= Capacity,
         subscriptions' \in {[t \in Topic |-> <<>>]} \cup {Table(planes) : planes \in PlaneList}
  PROVE  IInv'
<1>1. Typing'
  BY DEF IInv, Typing, Dispatches, Stream
<1>2. Counting'
  BY DEF IInv, Counting, NoEventIsLost, Offering, PendingOverflows
<1>3. ASSUME NEW h \in Handler, Runs(h)'
      PROVE  PlacedBefore(dispatch[h].planes, dispatch[h].next, dispatch[h].frame)'
  <2>1. PICK c : c = dispatch[h]
    OBVIOUS
  <2>2. PlacedBefore(c.planes, c.next, c.frame)
    BY <1>3, <2>1 DEF IInv, Ordering, Runs
  <2>3. PlacedBefore(c.planes, c.next, c.frame)'
    BY <2>2, StreamUnmoved
  <2>4. QED
    BY <2>1, <2>3
<1>4. Ordering'
  BY <1>3, StreamUnmoved DEF IInv, Ordering, Runs
<1>5. QED
  BY <1>1, <1>2, <1>4 DEF IInv



(* h moves and is left with d. *)
Moves(h, d) == dispatch' = [dispatch EXCEPT ![h] = d]

(* d has collected n overflow errors. *)
Collected(d, n) == d.overflows = n

LEMMA CountingOfAMove ==
  ASSUME Typing, Counting, NEW h \in Handler, NEW d, Moves(h, d),
         NEW before \in Nat, Holds(dispatch[h], before), NEW after \in Nat, Holds(d, after),
         NEW old \in Nat, Collected(dispatch[h], old), NEW new \in Nat, Collected(d, new),
         NEW told \in Int, Len(stream') = Len(stream) + told,
         NEW dropped \in Int, overflow' = overflow + dropped,
         NEW returned \in Int, surfaced' = surfaced + returned,
         decoded' = decoded + (told + dropped + after - before),
         dropped = returned + new - old
  PROVE  Counting'
<1>1. Dispatches /\ Len(stream) \in Nat /\ decoded \in Nat /\ overflow \in Nat /\ surfaced \in Nat
  BY StreamIsASequence DEF Typing, Stream
<1>2. PICK c \in Nat : c = Cardinality(Offering) /\ Cardinality(Offering') = c + after - before
  BY <1>1, OfferingChanges DEF Moves
<1>3. PICK p \in Nat : p = Cardinality(PendingOverflows) /\ Cardinality(PendingOverflows') = p - old + new
  BY <1>1, PendingChanges DEF Counting, Moves, Collected
<1>4. IsFiniteSet(PendingOverflows')
  BY <1>1, PendingChanges DEF Counting, Moves, Collected
<1>5. decoded = Len(stream) + overflow + c /\ overflow = surfaced + p
  BY <1>2, <1>3 DEF Counting, NoEventIsLost
<1>6. decoded' = Len(stream') + overflow' + (c + after - before)
  BY <1>1, <1>5
<1>7. overflow' = surfaced' + (p - old + new)
  BY <1>1, <1>5
<1>8. QED
  BY <1>2, <1>3, <1>4, <1>6, <1>7 DEF Counting, NoEventIsLost

(* A handler moves, the stream stays. *)
LEMMA OneMoves ==
  ASSUME IInv, NEW h \in Handler, NEW d, Moves(h, d), UNCHANGED <<events, consumed, subscriptions>>,
         frames' \in Nat, frames <= frames', d = NoDispatch \/ IsRun(d, frames'),
         d # NoDispatch =>
           /\ \A g \in Handler \ {h} : Runs(g) => dispatch[g].frame # d.frame
           /\ PlacedBefore(d.planes, d.next, d.frame),
         decoded' \in Nat, overflow' \in Nat, surfaced' \in Nat, Counting'
  PROVE  IInv'
<1>1. stream' = stream /\ frames \in Nat
  BY DEF stream, IInv, Typing
<1>2. Dispatches'
  BY <1>1, DispatchTyping DEF IInv, Typing, Moves
<1>3. \A i \in DOMAIN stream' : stream'[i].frame[2] \in 1..frames'
  <2>1. ASSUME NEW i \in DOMAIN stream PROVE stream[i].frame[2] \in 1..frames'
    <3>1. stream[i].frame[2] \in 1..frames
      BY DEF IInv, Typing, Stream
    <3>2. QED
      BY <1>1, <3>1
  <2>2. QED
    BY <1>1, <2>1
<1>4. Typing'
  BY <1>2, <1>3 DEF IInv, Typing, Stream
<1>5. Ordering'
  BY <1>1, OrderingWithoutAnEvent DEF IInv, Typing, Moves
<1>6. QED
  BY <1>4, <1>5 DEF IInv

LEMMA HandleBroadcastPreserves ==
  ASSUME IInv, NEW h \in Handler, NEW t \in Topic, HandleBroadcast(h, t)
  PROVE  IInv'
<1>1. PICK d : d = [frame |-> <<t, frames + 1>>, planes |-> subscriptions[t], next |-> 1,
                    event |-> FALSE, overflows |-> 0]
  OBVIOUS
<1>2. /\ Moves(h, d) /\ dispatch[h] = NoDispatch /\ frames' = frames + 1 /\ subscriptions[t] # <<>>
      /\ UNCHANGED <<subscriptions, events, overflow, decoded, consumed, surfaced>>
  BY <1>1 DEF HandleBroadcast, Moves
<1>3. frames \in Nat /\ Dispatches /\ Typing /\ Counting /\ Ordering
  BY DEF IInv, Typing
<1>4. d.frame = <<t, frames + 1>> /\ d.planes = subscriptions[t] /\ d.next = 1
  BY <1>1
<1>5. subscriptions[t] \in Rows(t)
  <2>1. PICK planes \in PlaneList : subscriptions = Table(planes)
    BY <1>2, <1>3 DEF Typing
  <2>2. QED
    BY <2>1 DEF Rows
<1>6. IsRun(d, frames')
  BY <1>1, <1>2, <1>3, <1>5 DEF IsRun, Snapshots
<1>7. \A g \in Handler \ {h} : Runs(g) => dispatch[g].frame # d.frame
  <2>1. \A g \in Handler : Runs(g) => dispatch[g].frame[2] \in 1..frames
    BY <1>3 DEF Dispatches, Runs, IsRun
  <2>2. d.frame[2] = frames + 1
    BY <1>4
  <2>3. QED
    BY <1>3, <2>1, <2>2
<1>8. PlacedBefore(d.planes, d.next, d.frame)
  <2>1. Heard(d.frame) = {}
    BY <1>3, <1>4 DEF Heard, Typing, Stream
  <2>2. PICK at : at = [i \in {} |-> 1]
    OBVIOUS
  <2>3. at \in [Heard(d.frame) -> DOMAIN d.planes] /\ Places(d.planes, d.frame, at)
    BY <2>1, <2>2 DEF Places
  <2>4. QED
    BY <2>1, <2>3 DEF PlacedBefore
<1>9. Counting'
  <2>1. Holds(dispatch[h], 0) /\ Holds(d, 0) /\ Collected(dispatch[h], 0) /\ Collected(d, 0)
    BY <1>1, <1>2 DEF Holds, Collected, NoDispatch
  <2>2. Len(stream') = Len(stream) + 0 /\ overflow' = overflow + 0 /\ surfaced' = surfaced + 0
        /\ decoded' = decoded + (0 + 0 + 0 - 0)
    BY <1>2, <1>3, StreamIsASequence DEF Typing, Stream, stream
  <2>3. QED
    BY <1>2, <1>3, <2>1, <2>2, CountingOfAMove
<1>10. frames' \in Nat /\ frames <= frames'
  BY <1>2, <1>3
<1>11. decoded' \in Nat /\ overflow' \in Nat /\ surfaced' \in Nat
  BY <1>2, <1>3 DEF Typing
<1>12. QED
  BY <1>2, <1>6, <1>7, <1>8, <1>9, <1>10, <1>11, OneMoves

(* A running handler goes on to the next plane with n more overflow errors. *)
LEMMA ServedKeepsOrder ==
  ASSUME IInv, NEW h \in Handler, dispatch[h] # NoDispatch, NEW n \in Nat, NEW d, d = Served(h, n)
  PROVE  /\ IsRun(d, frames) /\ ~ d.event /\ d.frame = dispatch[h].frame
         /\ d.planes = dispatch[h].planes /\ d.next = dispatch[h].next + 1
         /\ d.overflows = dispatch[h].overflows + n
         /\ \A g \in Handler \ {h} : Runs(g) => dispatch[g].frame # d.frame
         /\ PlacedBefore(d.planes, d.next, d.frame)
<1>1. Dispatches /\ frames \in Nat
  BY DEF IInv, Typing
<1>2. /\ IsRun(d, frames) /\ ~ d.event /\ d.frame = dispatch[h].frame
      /\ d.planes = dispatch[h].planes /\ d.next = dispatch[h].next + 1
      /\ d.overflows = dispatch[h].overflows + n
  BY <1>1, ServedIsRun
<1>3. \A g \in Handler \ {h} : Runs(g) => dispatch[g].frame # d.frame
  BY <1>2 DEF IInv, Ordering, Runs
<1>4. dispatch[h].next \in Nat
  BY <1>1, RunningDispatch DEF IsRun
<1>5. PlacedBefore(d.planes, d.next, d.frame)
  BY <1>2, <1>4, PlacedFurther DEF IInv, Ordering, Runs
<1>6. QED
  BY <1>2, <1>3, <1>5

LEMMA PassByPreserves ==
  ASSUME IInv, NEW h \in Handler, PassBy(h)
  PROVE  IInv'
<1>1. PICK d : d = Served(h, 0)
  OBVIOUS
<1>2. /\ Moves(h, d) /\ dispatch[h] # NoDispatch /\ ~ dispatch[h].event
      /\ UNCHANGED <<subscriptions, events, overflow, frames, decoded, consumed, surfaced>>
  BY <1>1, HasPlaneRuns DEF PassBy, Moves
<1>3. Typing /\ Dispatches /\ Counting
  BY DEF IInv, Typing
<1>4. /\ IsRun(d, frames) /\ ~ d.event /\ d.overflows = dispatch[h].overflows + 0
      /\ \A g \in Handler \ {h} : Runs(g) => dispatch[g].frame # d.frame
      /\ PlacedBefore(d.planes, d.next, d.frame)
  BY <1>1, <1>2, ServedKeepsOrder
<1>5. Counting'
  <2>1. PICK old \in Nat : old = dispatch[h].overflows
    BY <1>3, DispatchFields
  <2>2. Holds(dispatch[h], 0) /\ Holds(d, 0) /\ Collected(dispatch[h], old) /\ Collected(d, old)
    BY <1>2, <1>4, <2>1 DEF Holds, Collected
  <2>3. Len(stream') = Len(stream) + 0 /\ overflow' = overflow + 0 /\ surfaced' = surfaced + 0
        /\ decoded' = decoded + (0 + 0 + 0 - 0) /\ 0 = 0 + old - old
    BY <1>2, <1>3, StreamIsASequence DEF Typing, Stream, stream
  <2>4. QED
    BY <1>2, <1>3, <2>2, <2>3, CountingOfAMove
<1>6. frames' \in Nat /\ frames <= frames' /\ IsRun(d, frames')
      /\ decoded' \in Nat /\ overflow' \in Nat /\ surfaced' \in Nat
  BY <1>2, <1>3, <1>4 DEF Typing
<1>7. QED
  BY <1>2, <1>4, <1>5, <1>6, OneMoves

LEMMA DecodePreserves ==
  ASSUME IInv, NEW h \in Handler, Decode(h)
  PROVE  IInv'
<1>1. PICK r : r = dispatch[h]
  OBVIOUS
<1>2. PICK d : d = [r EXCEPT !.event = TRUE]
  OBVIOUS
<1>3. /\ Moves(h, d) /\ r # NoDispatch /\ ~ r.event
      /\ r.next \in DOMAIN r.planes /\ r.planes[r.next] \in Decoder
      /\ UNCHANGED <<subscriptions, events, overflow, frames, consumed, surfaced>>
      /\ decoded' = decoded + 1
  BY <1>1, <1>2, HasPlaneRuns DEF Decode, Moves, HasPlane, Current
<1>4. Typing /\ Dispatches /\ Counting
  BY DEF IInv, Typing
<1>5. IsRun(r, frames)
  BY <1>1, <1>3, <1>4, RunningDispatch
<1>6. /\ d \in [frame : Topic \X Nat, planes : Snapshots, next : Nat \ {0}, event : BOOLEAN, overflows : Nat]
      /\ d.frame = r.frame /\ d.planes = r.planes /\ d.next = r.next /\ d.event = TRUE
      /\ d.overflows = r.overflows
  BY <1>2, <1>5 DEF IsRun
<1>7. IsRun(d, frames)
  BY <1>3, <1>5, <1>6 DEF IsRun
<1>8. /\ \A g \in Handler \ {h} : Runs(g) => dispatch[g].frame # d.frame
      /\ PlacedBefore(d.planes, d.next, d.frame)
  BY <1>1, <1>3, <1>6 DEF IInv, Ordering, Runs
<1>9. Counting'
  <2>1. PICK old \in Nat : old = dispatch[h].overflows
    BY <1>4, DispatchFields
  <2>2. PICK none, one \in Nat : none = 0 /\ one = 1
    OBVIOUS
  <2>3. Holds(dispatch[h], none) /\ Holds(d, one) /\ Collected(dispatch[h], old) /\ Collected(d, old)
    BY <1>1, <1>3, <1>6, <2>1, <2>2 DEF Holds, Collected
  <2>4. /\ Len(stream') = Len(stream) + none /\ overflow' = overflow + none
        /\ surfaced' = surfaced + none
    BY <1>3, <1>4, <2>2, StreamIsASequence DEF Typing, Stream, stream
  <2>5. none + none + one - none = 1 /\ none = none + old - old
    BY <2>1, <2>2
  <2>6. decoded' = decoded + (none + none + one - none)
    BY <1>3, <2>5
  <2>7. Moves(h, d) /\ none \in Int
    BY <1>3
  <2> HIDE <2>2
  <2>8. QED
    BY <1>4, <2>1, <2>3, <2>4, <2>5, <2>6, <2>7, CountingOfAMove
<1>10. frames' \in Nat /\ frames <= frames' /\ IsRun(d, frames')
       /\ decoded' \in Nat /\ overflow' \in Nat /\ surfaced' \in Nat
  BY <1>3, <1>4, <1>7 DEF Typing
<1>11. QED
  BY <1>3, <1>8, <1>9, <1>10, OneMoves

LEMMA OverflowPreserves ==
  ASSUME IInv, NEW h \in Handler, Offer(h), Overflow(h)
  PROVE  IInv'
<1>1. PICK d : d = Served(h, 1)
  OBVIOUS
<1>2. /\ Moves(h, d) /\ dispatch[h] # NoDispatch /\ dispatch[h].event
      /\ UNCHANGED <<subscriptions, events, frames, decoded, consumed, surfaced>>
      /\ overflow' = overflow + 1
  BY <1>1, HasPlaneRuns DEF Offer, Overflow, Moves
<1>3. Typing /\ Dispatches /\ Counting
  BY DEF IInv, Typing
<1>4. /\ IsRun(d, frames) /\ ~ d.event /\ d.overflows = dispatch[h].overflows + 1
      /\ \A g \in Handler \ {h} : Runs(g) => dispatch[g].frame # d.frame
      /\ PlacedBefore(d.planes, d.next, d.frame)
  BY <1>1, <1>2, ServedKeepsOrder
<1>5. Counting'
  <2>1. PICK old \in Nat : old = dispatch[h].overflows
    BY <1>3, DispatchFields
  <2>2. /\ Holds(dispatch[h], 1) /\ Holds(d, 0)
        /\ Collected(dispatch[h], old) /\ Collected(d, old + 1) /\ old + 1 \in Nat
    BY <1>2, <1>4, <2>1 DEF Holds, Collected
  <2>3. Len(stream') = Len(stream) + 0 /\ surfaced' = surfaced + 0
        /\ decoded' = decoded + (0 + 1 + 0 - 1) /\ 1 = 0 + (old + 1) - old
    BY <1>2, <1>3, StreamIsASequence DEF Typing, Stream, stream
  <2>4. QED
    BY <1>2, <1>3, <2>2, <2>3, CountingOfAMove
<1>6. frames' \in Nat /\ frames <= frames' /\ IsRun(d, frames')
      /\ decoded' \in Nat /\ overflow' \in Nat /\ surfaced' \in Nat
  BY <1>2, <1>3, <1>4 DEF Typing
<1>7. QED
  BY <1>2, <1>4, <1>5, <1>6, OneMoves

(* The one step that adds to the stream. *)
LEMMA AcceptPreserves ==
  ASSUME IInv, NEW h \in Handler, Offer(h), Accept(h)
  PROVE  IInv'
<1>1. PICK d : d = Served(h, 0)
  OBVIOUS
<1>2. PICK e : e = Event(h)
  OBVIOUS
<1>3. PICK r : r = dispatch[h]
  OBVIOUS
<1>4. /\ Moves(h, d) /\ r # NoDispatch /\ r.event /\ Len(events) # Capacity
      /\ UNCHANGED <<subscriptions, overflow, frames, decoded, consumed, surfaced>>
      /\ events' = Append(events, e)
  BY <1>1, <1>2, <1>3, HasPlaneRuns DEF Offer, Accept, Full, Moves
<1>5. Typing /\ Dispatches /\ Stream /\ Counting /\ frames \in Nat
  BY DEF IInv, Typing
<1>6. /\ IsRun(d, frames) /\ ~ d.event /\ d.frame = r.frame /\ d.planes = r.planes
      /\ d.next = r.next + 1 /\ d.overflows = r.overflows + 0
      /\ \A g \in Handler \ {h} : Runs(g) => dispatch[g].frame # d.frame
      /\ PlacedBefore(d.planes, d.next, d.frame)
  BY <1>1, <1>3, <1>4, ServedKeepsOrder
<1>7. IsRun(r, frames)
  BY <1>3, <1>4, <1>5, RunningDispatch
<1>8. /\ r.next \in Nat \ {0} /\ r.next \in DOMAIN r.planes /\ r.planes[r.next] \in Decoder
      /\ r.frame \in Topic \X Nat /\ r.frame[2] \in 1..frames /\ r.planes \in Rows(r.frame[1])
  BY <1>4, <1>7 DEF IsRun
<1>9. e.frame = r.frame /\ e.plane = r.planes[r.next] /\ e \in EventRecord
  BY <1>2, <1>3, <1>8 DEF Event, Current, EventRecord
<1>10. /\ events' \in Seq(EventRecord) /\ Len(events') = Len(events) + 1
       /\ Len(stream') = Len(stream) + 1 /\ Grown(e)
       /\ consumed' \in Seq(EventRecord)
  BY <1>4, <1>5, <1>9, StreamGrows, StreamIsASequence DEF Stream, Grown
<1>11. Typing'
  <2>1. Dispatches'
    <3>1. IsRun(d, frames') /\ frames' \in Nat /\ frames <= frames'
      BY <1>4, <1>5, <1>6
    <3>2. QED
      BY <1>4, <1>5, <3>1, DispatchTyping DEF Moves
  <2>2. \A i \in DOMAIN stream' : stream'[i].frame[2] \in 1..frames'
    <3>1. SUFFICES ASSUME NEW i \in DOMAIN stream' PROVE stream'[i].frame[2] \in 1..frames
      BY <1>4
    <3>2. CASE i = Len(stream) + 1
      BY <1>8, <1>9, <1>10, <3>2 DEF Grown
    <3>3. CASE i # Len(stream) + 1
      <4>1. i \in DOMAIN stream /\ stream'[i] = stream[i]
        BY <1>10, <3>3 DEF Grown
      <4>2. QED
        BY <1>5, <4>1 DEF Stream
    <3>4. QED
      BY <3>2, <3>3
  <2>3. Len(events') <= Capacity
    BY <1>4, <1>5, <1>10, LenProperties, SubscriptionAssumption DEF Typing, Stream
  <2>4. QED
    BY <1>4, <1>5, <1>10, <2>1, <2>2, <2>3 DEF Typing, Stream
<1>12. Counting'
  <2>1. PICK old \in Nat : old = dispatch[h].overflows
    BY <1>5, DispatchFields
  <2>2. Holds(dispatch[h], 1) /\ Holds(d, 0) /\ Collected(dispatch[h], old) /\ Collected(d, old)
    BY <1>3, <1>4, <1>6, <2>1 DEF Holds, Collected
  <2>3. Len(stream') = Len(stream) + 1 /\ overflow' = overflow + 0 /\ surfaced' = surfaced + 0
        /\ decoded' = decoded + (1 + 0 + 0 - 1) /\ 0 = 0 + old - old
    BY <1>4, <1>5, <1>10 DEF Typing
  <2>4. QED
    BY <1>4, <1>5, <2>2, <2>3, CountingOfAMove
<1>13. PlacedBefore(r.planes, r.next + 1, r.frame)'
  <2>1. PlacedBefore(r.planes, r.next, r.frame)
    BY <1>3, <1>4 DEF IInv, Ordering, Runs
  <2>2. QED
    BY <1>8, <1>9, <1>10, <2>1, TheNextIsPlaced
<1>14. \A g \in Handler : dispatch'[g] = IF g = h THEN d ELSE dispatch[g]
  BY <1>4, <1>5, OneDispatchChanges DEF Moves
<1>15. \A g, f \in Handler : Runs(g)' /\ Runs(f)' /\ g # f => dispatch'[g].frame # dispatch'[f].frame
  BY <1>6, <1>14 DEF IInv, Ordering, Runs
<1>16. ASSUME NEW g \in Handler, Runs(g)'
       PROVE  PlacedBefore(dispatch[g].planes, dispatch[g].next, dispatch[g].frame)'
  <2>1. PICK c : c = dispatch'[g]
    OBVIOUS
  <2>2. CASE g = h
    <3>1. c.planes = r.planes /\ c.next = r.next + 1 /\ c.frame = r.frame
      BY <1>6, <1>14, <2>1, <2>2
    <3>2. PlacedBefore(c.planes, c.next, c.frame)'
      BY <1>13, <3>1
    <3>3. QED
      BY <2>1, <3>2
  <2>3. CASE g # h
    <3>1. c = dispatch[g] /\ Runs(g)
      BY <1>14, <1>16, <2>1, <2>3 DEF Runs
    <3>2. PlacedBefore(c.planes, c.next, c.frame) /\ c.frame # e.frame
      BY <1>6, <1>9, <2>3, <3>1 DEF IInv, Ordering
    <3>3. PlacedBefore(c.planes, c.next, c.frame)'
      BY <1>10, <3>2, OthersStayPlaced
    <3>4. QED
      BY <2>1, <3>3
  <2>4. QED
    BY <2>2, <2>3
<1>17. OneTablePerBroadcast'
  <2>1. SUFFICES ASSUME NEW x, x \in Range(stream')
                 PROVE  \E row \in Rows(x.frame[1]) :
                          \E at \in [Heard(x.frame)' -> DOMAIN row] : Places(row, x.frame, at)'
    BY DEF OneTablePerBroadcast, Rows
  <2>2. CASE x.frame = e.frame
    <3>1. PICK at \in [Heard(r.frame)' -> DOMAIN r.planes] : Places(r.planes, r.frame, at)'
      BY <1>13 DEF PlacedBefore
    <3>2. QED
      BY <1>8, <1>9, <2>2, <3>1
  <2>3. CASE x.frame # e.frame
    <3>1. x \in Range(stream)
      BY <1>10, <2>1, <2>3 DEF Range, Grown
    <3>2. PICK row \in Rows(x.frame[1]) :
            \E at \in [Heard(x.frame) -> DOMAIN row] : Places(row, x.frame, at)
      BY <3>1 DEF IInv, Ordering, OneTablePerBroadcast
    <3>3. PICK at \in [Heard(x.frame) -> DOMAIN row] : Places(row, x.frame, at)
      BY <3>2
    <3>4. Heard(x.frame)' = Heard(x.frame) /\ Places(row, x.frame, at)'
      BY <1>10, <2>3, <3>3, OthersStayPlaced
    <3>5. QED
      BY <3>2, <3>3, <3>4
  <2>4. QED
    BY <2>2, <2>3
<1>18. QED
  BY <1>11, <1>12, <1>15, <1>16, <1>17 DEF IInv, Ordering

LEMMA ReturnErrorsPreserves ==
  ASSUME IInv, NEW h \in Handler, ReturnErrors(h)
  PROVE  IInv'
<1>1. Typing /\ Dispatches /\ Counting
  BY DEF IInv, Typing
<1>2. PICK d : d = NoDispatch
  OBVIOUS
<1>3. PICK old \in Nat : old = dispatch[h].overflows
  BY <1>1, DispatchFields
<1>4. /\ Moves(h, d) /\ dispatch[h] # NoDispatch /\ surfaced' = surfaced + old
      /\ UNCHANGED <<subscriptions, events, overflow, frames, decoded, consumed>>
  BY <1>2, <1>3 DEF ReturnErrors, Moves
<1>5. ~ dispatch[h].event
  BY <1>1, <1>4, RunningDispatch DEF ReturnErrors, HasPlane, IsRun
<1>6. Counting'
  <2>1. Holds(dispatch[h], 0) /\ Holds(d, 0) /\ Collected(dispatch[h], old) /\ Collected(d, 0)
    BY <1>2, <1>3, <1>5 DEF Holds, Collected, NoDispatch
  <2>2. Len(stream') = Len(stream) + 0 /\ overflow' = overflow + 0
        /\ decoded' = decoded + (0 + 0 + 0 - 0) /\ 0 = old + 0 - old
    BY <1>1, <1>4, StreamIsASequence DEF Typing, Stream, stream
  <2>3. QED
    BY <1>1, <1>4, <2>1, <2>2, CountingOfAMove
<1>7. frames' \in Nat /\ frames <= frames' /\ decoded' \in Nat /\ overflow' \in Nat /\ surfaced' \in Nat
  BY <1>1, <1>4 DEF Typing
<1>8. QED
  BY <1>2, <1>4, <1>6, <1>7, OneMoves

LEMMA NextPreserves == IInv /\ [Next]_vars => IInv'
<1>1. SUFFICES ASSUME IInv, [Next]_vars PROVE IInv'
  OBVIOUS
<1>2. Stream /\ Typing
  BY <1>1 DEF IInv, Typing
<1>3. ASSUME NEW planes \in PlaneList, SetPlanes(planes) PROVE IInv'
  BY <1>1, <1>2, <1>3, NobodyMoves DEF SetPlanes, Typing, Stream, stream
<1>4. ASSUME NEW h \in Handler, Proceed(h) PROVE IInv'
  <2>1. CASE Offer(h)
    BY <1>1, <2>1, AcceptPreserves, OverflowPreserves DEF Offer
  <2>2. QED
    BY <1>1, <1>4, <2>1, PassByPreserves, DecodePreserves, ReturnErrorsPreserves DEF Proceed
<1>5. CASE Consume
  <2>1. /\ events' \in Seq(EventRecord) /\ consumed' \in Seq(EventRecord)
        /\ stream' = stream /\ Len(events') <= Len(events)
    BY <1>2, <1>5, ConsumingKeepsTheStream DEF Stream
  <2>2. Len(events') <= Capacity
    BY <1>2, <2>1, LenProperties, SubscriptionAssumption DEF Typing, Stream
  <2>3. QED
    BY <1>1, <1>2, <1>5, <2>1, <2>2, NobodyMoves DEF Consume, Typing
<1>6. CASE UNCHANGED vars
  BY <1>1, <1>2, <1>6, NobodyMoves DEF vars, Typing, Stream, stream
<1>7. QED
  BY <1>1, <1>3, <1>4, <1>5, <1>6, HandleBroadcastPreserves DEF Next

LEMMA IInvHolds == Spec => []IInv
BY InitEstablishes, NextPreserves, PTL DEF Spec

-----------------------------------------------------------------------------
(* Every variable stays in its type, the queue within its capacity, and a  *)
(* broadcast goes through the planes of one table (router.go:59-60, 118,   *)
(* 148-150).                                                               *)
THEOREM TypesHold == Spec => []TypeOK
<1>1. ASSUME IInv PROVE TypeOK
  <2>1. Typing /\ Stream /\ Dispatches
    BY <1>1 DEF IInv, Typing
  <2>2. ASSUME NEW x \in Range(stream)
        PROVE  x.plane \in Decoder /\ x.frame \in Topic \X (1..frames)
    <3>1. PICK i \in DOMAIN stream : x = stream[i]
      BY <2>2 DEF Range
    <3>2. x \in EventRecord
      BY <2>1, <3>1, StreamIsASequence, ElementOfSeq DEF Stream
    <3>3. x.frame[2] \in 1..frames
      BY <2>1, <3>1 DEF Stream
    <3>4. QED
      BY <3>2, <3>3 DEF EventRecord
  <2>3. ASSUME NEW h \in Handler, dispatch[h] # NoDispatch
        PROVE  /\ dispatch[h].frame \in Topic \X (1..frames)
               /\ dispatch[h].planes \in Rows(dispatch[h].frame[1])
    BY <2>1, <2>3 DEF Dispatches, IsRun
  <2>4. QED
    BY <2>1, <2>2, <2>3 DEF TypeOK, Typing
<1>2. QED
  BY <1>1, IInvHolds, PTL

(* A decoded event is about to be offered, is queued, was consumed, or was *)
(* counted as an overflow, and every overflow is returned, or still held,  *)
(* by the broadcast that met it (router.go:160-197).                       *)
THEOREM EventsAreNeverLost == Spec => []EventsAreAccountedFor
<1>1. IInv => EventsAreAccountedFor
  BY DEF IInv, Counting, EventsAreAccountedFor
<1>2. QED
  BY <1>1, IInvHolds, PTL

(* A SetPlanes during a broadcast does not mix two tables: the planes      *)
(* whose events a frame produced stand in the order of one table, however  *)
(* many goroutines dispatch at once (router.go:148-150).                   *)
THEOREM TablesAreNeverMixed == Spec => []OneTablePerBroadcast
<1>1. IInv => OneTablePerBroadcast
  BY DEF IInv, Ordering
<1>2. QED
  BY <1>1, IInvHolds, PTL
=============================================================================
