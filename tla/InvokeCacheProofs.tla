------------------------- MODULE InvokeCacheProofs -------------------------
(* Proofs of the safety of Invoke, for every set of callers, requests,       *)
(* channels and options.                                                     *)
EXTENDS InvokeCacheProps, TLAPS

-----------------------------------------------------------------------------
\* Constants and helpers

\* The windows of the refresh policy (router.go:338-341) are durations.
LEMMA WindowsType ==
  /\ \A class : Window(class) \in Nat
  /\ Expired \in Nat
<1>1. \A class : Window(class) \in Nat
  BY OptionsAssumption DEF Window, Interval
<1>2. QED BY <1>1 DEF Expired

\* An idle caller's request is one (no line of the code: a constant's type).
LEMMA NoRequestType == NoRequest \in Request
  BY RequestAssumption DEF NoRequest

\* The key of a caller's request is a key of the cache (router.go:214).
LEMMA KeyOfType ==
  ASSUME TypeOK, NEW c \in Caller
  PROVE  KeyOf(c) \in Key
  BY DEF TypeOK, KeyOf, Key

\* A channel made by a leader (router.go:257) is one nobody refers to.
LEMMA MadeChannelIsNew ==
  ASSUME Channel \ Referenced # {}
  PROVE  MadeChannel \in Channel /\ MadeChannel \notin Referenced
  BY DEF MadeChannel

-----------------------------------------------------------------------------
\* Types

\* Every reachable state is of its type (router.go:93-100).
THEOREM TypeCorrect == Spec => []TypeOK
<1>1. Init => TypeOK
  <2> SUFFICES ASSUME Init PROVE TypeOK
    OBVIOUS
  <2>1. ZeroEntry \in Entry
    BY WindowsType DEF ZeroEntry, Entry
  <2>2. QED BY <2>1, NoRequestType, RequestAssumption DEF Init, TypeOK
<1>2. TypeOK /\ [Next]_vars => TypeOK'
  <2> SUFFICES ASSUME TypeOK, [Next]_vars PROVE TypeOK'
    OBVIOUS
  <2> USE DEF TypeOK
  <2>1. ASSUME NEW c \in Caller, NEW r \in Request, Invoke(c, r) PROVE TypeOK'
    BY <2>1 DEF Invoke, Goes
  <2>2. ASSUME NEW c \in Caller, Hit(c) PROVE TypeOK'
    <3>1. invokeCache[KeyOf(c)].lastFrame \in Frame \cup {NoFrame}
      BY KeyOfType DEF Entry
    <3>2. QED BY <2>2, <3>1 DEF Hit, Returns, Goes
  <2>3. ASSUME NEW c \in Caller, Join(c) PROVE TypeOK'
    <3>1. invokeCache[KeyOf(c)].done \in Channel \cup {NoChannel}
      BY KeyOfType DEF Entry
    <3>2. QED BY <2>3, <3>1 DEF Join, Goes
  <2>4. ASSUME NEW c \in Caller, Wake(c) PROVE TypeOK'
    BY <2>4 DEF Wake, Goes
  <2>5. ASSUME NEW c \in Caller, Cancel(c) PROVE TypeOK'
    BY <2>5 DEF Cancel, Returns, Goes
  <2>6. ASSUME NEW c \in Caller, Lead(c) PROVE TypeOK'
    <3>1. MadeChannel \in Channel
      BY <2>6, MadeChannelIsNew DEF Lead
    <3>2. invokeCache' = [invokeCache EXCEPT
             ![KeyOf(c)] = [@ EXCEPT !.running = TRUE, !.done = MadeChannel]]
      BY <2>6, KeyOfType DEF Lead, Entry
    <3>3. [invokeCache[KeyOf(c)] EXCEPT !.running = TRUE, !.done = MadeChannel] \in Entry
      BY <3>1, KeyOfType DEF Entry
    <3>4. invokeCache' \in [Key -> Entry]
      BY <3>2, <3>3, KeyOfType
    <3>5. QED BY <2>6, <3>1, <3>4 DEF Lead, Goes
  <2>7. ASSUME NEW c \in Caller PROVE Answers(c) \subseteq Frame \cup {NoFrame}
    <3>1. request[c].address \in Device
      BY DEF Device
    <3>2. QED BY <3>1 DEF Answers, Frame
  <2>8. ASSUME NEW c \in Caller, Send(c) PROVE TypeOK'
    BY <2>7, <2>8 DEF Send, Goes
  <2>9. ASSUME NEW c \in Caller, SendDirectly(c) PROVE TypeOK'
    BY <2>7, <2>9 DEF SendDirectly, Returns, Goes
  <2>10. ASSUME NEW c \in Caller, Publish(c) PROVE TypeOK'
    <3>1. Landed(invokeCache[KeyOf(c)], reply[c]) \in Entry
      <4>1. 0 \in 0..Expired
        BY WindowsType
      <4>2. invokeCache[KeyOf(c)] \in Entry /\ reply[c] \in Frame \cup {NoFrame}
        BY KeyOfType
      <4>3. QED BY <4>1, <4>2 DEF Landed, Entry
    <3>2. invokeCache' = [invokeCache EXCEPT
             ![KeyOf(c)] = Landed(invokeCache[KeyOf(c)], reply[c])]
      BY <2>10 DEF Publish
    <3>3. invokeCache' \in [Key -> Entry]
      BY <3>1, <3>2, KeyOfType
    <3>4. open' \subseteq Channel
      BY <2>10 DEF Publish
    <3>5. QED BY <2>10, <3>3, <3>4 DEF Publish, Returns, Goes
  <2>11. ASSUME NEW c \in Caller, Collect(c) PROVE TypeOK'
    BY <2>11, NoRequestType DEF Collect, Goes
  <2>12. ASSUME Tick PROVE TypeOK'
    <3>1. ASSUME NEW k \in Key PROVE Older(invokeCache[k]) \in Entry
      BY WindowsType DEF Older, Entry
    <3>2. QED BY <2>12, <3>1 DEF Tick, caller
  <2>13. ASSUME NEW d \in Device, Change(d) PROVE TypeOK'
    BY <2>13, RequestAssumption DEF Change, caller
  <2>14. CASE UNCHANGED vars
    BY <2>14 DEF vars
  <2>15. QED
    BY <2>1, <2>2, <2>3, <2>4, <2>5, <2>6, <2>8, <2>9, <2>10, <2>11, <2>12, <2>13, <2>14
    DEF Next, Step, Proceed
<1>3. QED BY <1>1, <1>2, PTL DEF Spec

-----------------------------------------------------------------------------
\* Flights

\* SingleFlight and ChannelDiscipline are inductive together: the running flag
\* guards the making of channels, the channels tie waiters to leaders.
FlightInv == SingleFlight /\ ChannelDiscipline

\* What no step but joining, leading and publishing disturbs.
FlightUndisturbed ==
  /\ \A c \in Caller : Leads(c)' <=> Leads(c)
  /\ \A c \in Caller : Leads(c) => KeyOf(c)' = KeyOf(c) /\ done'[c] = done[c]
  /\ \A c \in Caller : at'[c] = "waiting" =>
       at[c] = "waiting" /\ KeyOf(c)' = KeyOf(c) /\ done'[c] = done[c]
  /\ \A k \in Key : /\ invokeCache'[k].running = invokeCache[k].running
                    /\ invokeCache'[k].done = invokeCache[k].done
  /\ open' = open

\* A step that keeps leaders, waiters and their channels (router.go:219-277)
\* keeps the invariant.
LEMMA UndisturbedFlights ==
  ASSUME TypeOK, FlightInv, FlightUndisturbed
  PROVE  FlightInv'
<1>1. \A c \in Caller : Leads(c) => KeyOf(c) \in Key
  BY KeyOfType
<1>2. SingleFlight'
  BY <1>1 DEF FlightInv, SingleFlight, FlightUndisturbed
<1>3. open' = {done'[c] : c \in {x \in Caller : Leads(x)'}}
  BY DEF FlightInv, ChannelDiscipline, FlightUndisturbed
<1>4. ChannelDiscipline'
  BY <1>3 DEF FlightInv, ChannelDiscipline, FlightUndisturbed
<1>5. QED BY <1>2, <1>4 DEF FlightInv

\* Joining (router.go:245-248): the entry's channel is the leader's, and open.
LEMMA JoinFlights ==
  ASSUME TypeOK, FlightInv, NEW c \in Caller, Join(c)
  PROVE  FlightInv'
<1> USE DEF FlightInv
<1>1. /\ at[c] = "entering" /\ at'[c] = "waiting"
      /\ \A x \in Caller : x # c => at'[x] = at[x] /\ done'[x] = done[x]
      /\ done'[c] = invokeCache[KeyOf(c)].done
      /\ invokeCache[KeyOf(c)].running
      /\ UNCHANGED <<invokeCache, open, request>>
  BY DEF Join, Goes, TypeOK, Available
<1>2. \A x \in Caller : /\ Leads(x)' <=> Leads(x)
                        /\ Leads(x) => done'[x] = done[x]
                        /\ KeyOf(x)' = KeyOf(x)
  BY <1>1 DEF Leads, KeyOf
<1>3. SingleFlight'
  BY <1>1, <1>2 DEF SingleFlight
<1>4. PICK d \in Caller : Leads(d) /\ KeyOf(d) = KeyOf(c) /\ done[d] = done'[c]
  BY <1>1, KeyOfType DEF SingleFlight
<1>5. open' = {done'[x] : x \in {y \in Caller : Leads(y)'}}
  BY <1>1, <1>2 DEF ChannelDiscipline
<1>6. \A x \in Caller : at'[x] = "waiting" /\ done'[x] \in open' =>
        \E y \in Caller : Leads(y)' /\ KeyOf(y)' = KeyOf(x)' /\ done'[y] = done'[x]
  <2> SUFFICES ASSUME NEW x \in Caller, at'[x] = "waiting", done'[x] \in open'
               PROVE  \E y \in Caller : /\ Leads(y)' /\ KeyOf(y)' = KeyOf(x)'
                                        /\ done'[y] = done'[x]
    OBVIOUS
  <2>1. CASE x = c
    BY <2>1, <1>2, <1>4
  <2>2. CASE x # c
    BY <2>2, <1>1, <1>2 DEF ChannelDiscipline
  <2>3. QED BY <2>1, <2>2
<1>7. ChannelDiscipline'
  BY <1>2, <1>5, <1>6 DEF ChannelDiscipline
<1>8. QED BY <1>3, <1>7

\* Leading (router.go:256-259): nobody leads for the key, nobody knows the
\* new channel.
LEMMA LeadFlights ==
  ASSUME TypeOK, FlightInv, NEW c \in Caller, Lead(c)
  PROVE  FlightInv'
<1> USE DEF FlightInv
<1> DEFINE ch == MadeChannel
<1>1. ch \in Channel /\ ch \notin Referenced
  BY MadeChannelIsNew DEF Lead
<1>2. KeyOf(c) \in Key
  BY KeyOfType
<1>3. /\ at[c] = "entering" /\ at'[c] = "sending" /\ done'[c] = ch
      /\ \A x \in Caller : x # c => at'[x] = at[x] /\ done'[x] = done[x]
      /\ ~invokeCache[KeyOf(c)].running
      /\ open' = open \cup {ch}
      /\ request' = request
  BY DEF Lead, Goes, TypeOK, Available
<1>4. /\ invokeCache'[KeyOf(c)].running /\ invokeCache'[KeyOf(c)].done = ch
      /\ \A k \in Key : k # KeyOf(c) => invokeCache'[k] = invokeCache[k]
  BY <1>2 DEF Lead, TypeOK, Entry
<1>5. /\ Leads(c)' /\ ~Leads(c)
      /\ \A x \in Caller : x # c => /\ Leads(x)' <=> Leads(x)
                                    /\ done'[x] = done[x]
      /\ \A x \in Caller : KeyOf(x)' = KeyOf(x)
  BY <1>3 DEF Leads, KeyOf
<1>6. \A x \in Caller : Leads(x) => KeyOf(x) # KeyOf(c)
  BY <1>3 DEF SingleFlight
<1>7. \A x \in Caller : done[x] # ch
  BY <1>1 DEF Referenced
<1>8. SingleFlight'
  <2>1. \A x, y \in Caller : Leads(x)' /\ Leads(y)' /\ KeyOf(x)' = KeyOf(y)' => x = y
    BY <1>5, <1>6 DEF SingleFlight
  <2>2. \A x \in Caller : Leads(x)' => /\ invokeCache'[KeyOf(x)'].running
                                       /\ invokeCache'[KeyOf(x)'].done = done'[x]
    BY <1>3, <1>4, <1>5, <1>6, KeyOfType DEF SingleFlight
  <2>3. \A k \in Key : invokeCache'[k].running =>
          \E x \in Caller : Leads(x)' /\ KeyOf(x)' = k
    BY <1>4, <1>5 DEF SingleFlight
  <2>4. QED BY <2>1, <2>2, <2>3 DEF SingleFlight
<1>9. ChannelDiscipline'
  <2>1. open' = {done'[x] : x \in {y \in Caller : Leads(y)'}}
    BY <1>3, <1>5 DEF ChannelDiscipline
  <2>2. \A x, y \in Caller : Leads(x)' /\ Leads(y)' /\ done'[x] = done'[y] => x = y
    BY <1>3, <1>5, <1>7 DEF ChannelDiscipline
  <2>3. \A x \in Caller : at'[x] = "waiting" /\ done'[x] \in open' =>
          \E y \in Caller : Leads(y)' /\ KeyOf(y)' = KeyOf(x)' /\ done'[y] = done'[x]
    BY <1>3, <1>5, <1>7 DEF ChannelDiscipline
  <2>4. QED BY <2>1, <2>2, <2>3 DEF ChannelDiscipline
<1>10. QED BY <1>8, <1>9

\* Publishing (router.go:263-271): the flight, the flag and the channel end
\* together, and no other leader has the key or the channel.
LEMMA PublishFlights ==
  ASSUME TypeOK, FlightInv, NEW c \in Caller, Publish(c)
  PROVE  FlightInv'
<1> USE DEF FlightInv
<1>1. KeyOf(c) \in Key
  BY KeyOfType
<1>2. /\ at[c] = "publishing" /\ at'[c] = "returned"
      /\ \A x \in Caller : x # c => at'[x] = at[x] /\ done'[x] = done[x]
      /\ open' = open \ {done[c]}
      /\ request' = request
  BY DEF Publish, Returns, Goes, TypeOK
<1>3. /\ ~invokeCache'[KeyOf(c)].running
      /\ \A k \in Key : k # KeyOf(c) => invokeCache'[k] = invokeCache[k]
  BY <1>1 DEF Publish, Landed, TypeOK, Entry
<1>4. /\ Leads(c) /\ ~Leads(c)'
      /\ \A x \in Caller : x # c => (Leads(x)' <=> Leads(x)) /\ done'[x] = done[x]
      /\ \A x \in Caller : KeyOf(x)' = KeyOf(x)
  BY <1>2 DEF Leads, KeyOf
<1>5. \A x \in Caller : Leads(x) /\ x # c => KeyOf(x) # KeyOf(c) /\ done[x] # done[c]
  BY <1>4 DEF SingleFlight, ChannelDiscipline
<1>6. SingleFlight'
  <2>1. \A x, y \in Caller : Leads(x)' /\ Leads(y)' /\ KeyOf(x)' = KeyOf(y)' => x = y
    BY <1>4 DEF SingleFlight
  <2>2. \A x \in Caller : Leads(x)' => /\ invokeCache'[KeyOf(x)'].running
                                       /\ invokeCache'[KeyOf(x)'].done = done'[x]
    BY <1>3, <1>4, <1>5, KeyOfType DEF SingleFlight
  <2>3. \A k \in Key : invokeCache'[k].running =>
          \E x \in Caller : Leads(x)' /\ KeyOf(x)' = k
    BY <1>3, <1>4 DEF SingleFlight
  <2>4. QED BY <2>1, <2>2, <2>3 DEF SingleFlight
<1>7. ChannelDiscipline'
  <2>1. open' = {done'[x] : x \in {y \in Caller : Leads(y)'}}
    BY <1>2, <1>4, <1>5 DEF ChannelDiscipline
  <2>2. \A x, y \in Caller : Leads(x)' /\ Leads(y)' /\ done'[x] = done'[y] => x = y
    BY <1>4 DEF ChannelDiscipline
  <2>3. \A x \in Caller : at'[x] = "waiting" /\ done'[x] \in open' =>
          \E y \in Caller : Leads(y)' /\ KeyOf(y)' = KeyOf(x)' /\ done'[y] = done'[x]
    BY <1>2, <1>4 DEF ChannelDiscipline
  <2>4. QED BY <2>1, <2>2, <2>3 DEF ChannelDiscipline
<1>8. QED BY <1>6, <1>7

\* Every other step leaves the flights alone.
LEMMA OtherSteps ==
  ASSUME TypeOK, FlightInv, [Next]_vars,
         ~ \E c \in Caller : Join(c) \/ Lead(c) \/ Publish(c)
  PROVE  FlightUndisturbed
<1> USE DEF FlightUndisturbed, TypeOK, Leads, KeyOf
<1>1. ASSUME NEW c \in Caller, NEW r \in Request, Invoke(c, r) PROVE FlightUndisturbed
  BY <1>1 DEF Invoke, Goes
<1>2. ASSUME NEW c \in Caller, Hit(c) PROVE FlightUndisturbed
  BY <1>2 DEF Hit, Returns, Goes
<1>3. ASSUME NEW c \in Caller, Wake(c) PROVE FlightUndisturbed
  BY <1>3 DEF Wake, Goes
<1>4. ASSUME NEW c \in Caller, Cancel(c) PROVE FlightUndisturbed
  BY <1>4 DEF Cancel, Returns, Goes
<1>5. ASSUME NEW c \in Caller, Send(c) PROVE FlightUndisturbed
  BY <1>5 DEF Send, Goes
<1>6. ASSUME NEW c \in Caller, SendDirectly(c) PROVE FlightUndisturbed
  BY <1>6 DEF SendDirectly, Returns, Goes
<1>7. ASSUME NEW c \in Caller, Collect(c) PROVE FlightUndisturbed
  BY <1>7 DEF Collect, Goes
<1>8. ASSUME Tick PROVE FlightUndisturbed
  BY <1>8 DEF Tick, Older, Entry, caller
<1>9. ASSUME NEW d \in Device, Change(d) PROVE FlightUndisturbed
  BY <1>9 DEF Change, caller
<1>10. CASE UNCHANGED vars
  BY <1>10 DEF vars
<1>11. QED
  BY <1>1, <1>2, <1>3, <1>4, <1>5, <1>6, <1>7, <1>8, <1>9, <1>10
  DEF Next, Step, Proceed

\* Flights are single and channels disciplined together: neither is inductive alone
\* (router.go:219-277).
LEMMA FlightsAreOrderly == Spec => []FlightInv
<1>1. Init => FlightInv
  BY DEF Init, FlightInv, SingleFlight, ChannelDiscipline, Leads, ZeroEntry
<1>2. TypeOK /\ FlightInv /\ [Next]_vars => FlightInv'
  BY JoinFlights, LeadFlights, PublishFlights, OtherSteps, UndisturbedFlights
<1>3. QED BY <1>1, <1>2, TypeCorrect, PTL DEF Spec

\* At most one caller is on the bus for a key, and the running flag says whether one
\* is (router.go:219-232, 261-264).
THEOREM FlightsAreSingle == Spec => []SingleFlight
BY FlightsAreOrderly, PTL DEF FlightInv

\* A waiter waits on the channel its flight will close, and no channel is
\* closed twice (router.go:245-271).
THEOREM ChannelsAreClosedOnce == Spec => []ChannelDiscipline
BY FlightsAreOrderly, PTL DEF FlightInv

-----------------------------------------------------------------------------
\* Frames

\* No frame is ahead of its device, and what a leader is about to publish was
\* read no earlier than what it replaces.
NotAhead(f) == f # NoFrame => f.version <= device[f.source]

NotBehind(new, old) ==
  new # NoFrame /\ old # NoFrame /\ new.source = old.source => new.version >= old.version

FrameOrder ==
  /\ \A k \in Key : NotAhead(invokeCache[k].lastFrame)
  /\ \A c \in Caller : NotAhead(reply[c])
  /\ \A c \in Caller : at[c] = "publishing" =>
       NotBehind(reply[c], invokeCache[KeyOf(c)].lastFrame)

\* What a step does to the cached frames (router.go:263-271): only publishing
\* replaces one, and by the leader's good answer.
LEMMA OnlyPublishingReplaces ==
  ASSUME TypeOK, [Next]_vars, NEW k \in Key
  PROVE  \/ invokeCache'[k].lastFrame = invokeCache[k].lastFrame
         \/ \E c \in Caller : /\ Publish(c) /\ KeyOf(c) = k /\ reply[c] # NoFrame
                             /\ invokeCache'[k].lastFrame = reply[c]
<1>1. ASSUME NEW c \in Caller, Lead(c)
      PROVE  invokeCache'[k].lastFrame = invokeCache[k].lastFrame
  BY <1>1, KeyOfType DEF Lead, TypeOK, Entry
<1>2. ASSUME NEW c \in Caller, Publish(c)
      PROVE  \/ invokeCache'[k].lastFrame = invokeCache[k].lastFrame
             \/ /\ KeyOf(c) = k /\ reply[c] # NoFrame
                /\ invokeCache'[k].lastFrame = reply[c]
  BY <1>2, KeyOfType DEF Publish, Landed, TypeOK, Entry
<1>3. ASSUME Tick PROVE invokeCache'[k].lastFrame = invokeCache[k].lastFrame
  BY <1>3 DEF Tick, Older, TypeOK, Entry
<1>4. ASSUME ~Tick, ~ \E c \in Caller : Lead(c) \/ Publish(c)
      PROVE  invokeCache' = invokeCache
  BY <1>4 DEF Next, Step, Proceed, Invoke, Hit, Join, Wake, Cancel, Send, SendDirectly,
              Collect, Change, vars
<1>5. QED BY <1>1, <1>2, <1>3, <1>4

\* Where a reply comes from (router.go:210, 230, 261).
LEMMA ReplySources ==
  ASSUME TypeOK, [Next]_vars, NEW c \in Caller
  PROVE  \/ reply'[c] = reply[c]
         \/ reply'[c] = NoFrame
         \/ reply'[c] = invokeCache[KeyOf(c)].lastFrame
         \/ reply'[c] \in Answers(c) /\ device' = device
<1> USE DEF TypeOK
<1>1. ASSUME NEW d \in Caller, Hit(d)
      PROVE  reply'[c] \in {reply[c], NoFrame, invokeCache[KeyOf(c)].lastFrame}
  BY <1>1 DEF Hit, Returns
<1>2. ASSUME NEW d \in Caller, Send(d) \/ SendDirectly(d)
      PROVE  reply'[c] = reply[c] \/ (reply'[c] \in Answers(c) /\ device' = device)
  BY <1>2 DEF Send, SendDirectly, Returns
<1>3. ASSUME NEW d \in Caller, Cancel(d) \/ Publish(d) \/ Collect(d)
      PROVE  reply'[c] \in {reply[c], NoFrame}
  BY <1>3 DEF Cancel, Publish, Collect, Returns
<1>4. ASSUME ~ \E d \in Caller : \/ Hit(d) \/ Send(d) \/ SendDirectly(d)
                                \/ Cancel(d) \/ Publish(d) \/ Collect(d)
      PROVE  reply' = reply
  BY <1>4 DEF Next, Step, Proceed, Invoke, Join, Wake, Lead, Tick, Change, vars, caller
<1>5. QED BY <1>1, <1>2, <1>3, <1>4

\* How a caller comes to hold an answer to publish (router.go:261).
LEMMA PublishingCallers ==
  ASSUME TypeOK, [Next]_vars, NEW c \in Caller, at'[c] = "publishing"
  PROVE  /\ KeyOf(c)' = KeyOf(c)
         /\ \/ Send(c)
            \/ at[c] = "publishing" /\ reply'[c] = reply[c]
<1> USE DEF TypeOK, KeyOf
<1>1. ASSUME NEW d \in Caller, Step(d), d # c
      PROVE  at'[c] = at[c] /\ reply'[c] = reply[c] /\ request'[c] = request[c]
  BY <1>1 DEF Step, Proceed, Invoke, Hit, Join, Wake, Cancel, Lead, Send, SendDirectly,
              Publish, Collect, Returns, Goes
<1>2. ASSUME Step(c) PROVE Send(c) /\ request' = request
  <2>1. ~ \E r \in Request : Invoke(c, r)
    BY DEF Invoke, Goes
  <2>2. ~Hit(c) /\ ~Join(c) /\ ~Wake(c) /\ ~Cancel(c)
    BY DEF Hit, Join, Wake, Cancel, Returns, Goes
  <2>3. ~Lead(c) /\ ~SendDirectly(c) /\ ~Publish(c) /\ ~Collect(c)
    BY DEF Lead, SendDirectly, Publish, Collect, Returns, Goes
  <2>4. QED BY <1>2, <2>1, <2>2, <2>3 DEF Step, Proceed, Send
<1>3. ASSUME Tick \/ (\E d \in Device : Change(d)) \/ UNCHANGED vars
      PROVE  at' = at /\ reply' = reply /\ request' = request
  BY <1>3 DEF Tick, Change, vars, caller
<1>4. QED BY <1>1, <1>2, <1>3 DEF Next

\* The frame order is inductive (router.go:261-269), one flight at a time.
LEMMA FrameOrderStep ==
  ASSUME TypeOK, TypeOK', FlightInv, FrameOrder, [Next]_vars
  PROVE  FrameOrder'
<1>1. \A d \in Device : device'[d] >= device[d] /\ device[d] \in Nat /\ device'[d] \in Nat
  <2>1. \A d \in Device : device[d] \in Nat /\ device'[d] \in Nat
    BY RequestAssumption DEF TypeOK
  <2>2. CASE device' = device
    BY <2>1, <2>2
  <2>3. ASSUME NEW e \in Device, Change(e)
        PROVE  \A d \in Device : device'[d] >= device[d]
    BY <2>1, <2>3 DEF Change, TypeOK
  <2>4. device' = device \/ \E e \in Device : Change(e)
    BY DEF Next, Step, Proceed, Invoke, Hit, Join, Wake, Cancel, Lead, Send,
           SendDirectly, Publish, Collect, Tick, vars
  <2>5. QED BY <2>1, <2>2, <2>3, <2>4
<1>2. ASSUME NEW f \in Frame \cup {NoFrame}, NotAhead(f) PROVE NotAhead(f)'
  BY <1>1, <1>2, RequestAssumption DEF NotAhead, Frame
<1>3. \A k \in Key : NotAhead(invokeCache[k].lastFrame)'
  BY <1>2, OnlyPublishingReplaces DEF FrameOrder, TypeOK, Entry
<1>4. ASSUME NEW c \in Caller PROVE NotAhead(reply[c])'
  <2>1. CASE reply'[c] = reply[c] \/ reply'[c] = invokeCache[KeyOf(c)].lastFrame
    <3>1. reply'[c] \in Frame \cup {NoFrame} /\ NotAhead(reply'[c])
      BY <2>1, KeyOfType DEF FrameOrder, TypeOK
    <3>2. QED BY <3>1, <1>2 DEF NotAhead
  <2>2. CASE reply'[c] = NoFrame
    BY <2>2 DEF NotAhead
  <2>3. CASE reply'[c] \in Answers(c) /\ device' = device
    <3>1. device[request[c].address] \in Nat
      BY RequestAssumption DEF TypeOK, Device
    <3>2. QED BY <2>3, <3>1 DEF Answers, NotAhead
  <2>4. QED BY <2>1, <2>2, <2>3, ReplySources
<1>5. ASSUME NEW c \in Caller, at'[c] = "publishing"
      PROVE  NotBehind(reply'[c], invokeCache'[KeyOf(c)'].lastFrame)
  <2>1. KeyOf(c)' = KeyOf(c) /\ KeyOf(c) \in Key
    BY <1>5, PublishingCallers, KeyOfType
  <2>2. CASE Send(c)
    <3>1. reply'[c] \in Answers(c) /\ invokeCache' = invokeCache
      BY <2>2 DEF Send, TypeOK
    <3>2. NotAhead(invokeCache[KeyOf(c)].lastFrame)
      BY <2>1 DEF FrameOrder
    <3>3. QED BY <2>1, <3>1, <3>2 DEF Answers, NotAhead, NotBehind
  <2>3. CASE at[c] = "publishing" /\ reply'[c] = reply[c]
    <3>1. ASSUME NEW d \in Caller, Publish(d), KeyOf(d) = KeyOf(c) PROVE FALSE
      <4>1. d = c
        BY <2>3, <3>1 DEF FlightInv, SingleFlight, Leads, Publish
      <4>2. QED BY <1>5, <3>1, <4>1 DEF Publish, Returns, Goes, TypeOK
    <3>2. invokeCache'[KeyOf(c)].lastFrame = invokeCache[KeyOf(c)].lastFrame
      BY <2>1, <3>1, OnlyPublishingReplaces
    <3>3. QED BY <2>1, <2>3, <3>2 DEF FrameOrder
  <2>4. QED BY <1>5, <2>2, <2>3, PublishingCallers
<1>6. QED BY <1>3, <1>4, <1>5 DEF FrameOrder

\* The cache of a key never goes back to an answer read earlier
\* (router.go:263-271).
THEOREM CacheMovesForward == Spec => CacheNeverGoesBack
<1>1. Init => FrameOrder
  BY DEF Init, FrameOrder, NotAhead, NotBehind, ZeroEntry
<1>2. TypeOK /\ FlightInv /\ FrameOrder /\ [Next]_vars =>
        \A k \in Key :
          LET old == invokeCache[k].lastFrame   new == invokeCache'[k].lastFrame IN
          old # NoFrame => /\ new # NoFrame
                           /\ new.source = old.source => new.version >= old.version
  <2> SUFFICES ASSUME TypeOK, FlightInv, FrameOrder, [Next]_vars, NEW k \in Key,
                      invokeCache[k].lastFrame # NoFrame
               PROVE  LET old == invokeCache[k].lastFrame
                          new == invokeCache'[k].lastFrame IN
                      /\ new # NoFrame
                      /\ new.source = old.source => new.version >= old.version
    OBVIOUS
  <2>1. CASE invokeCache'[k].lastFrame = invokeCache[k].lastFrame
    <3>1. invokeCache[k].lastFrame.version \in Nat
      BY RequestAssumption DEF TypeOK, Entry, Frame
    <3>2. QED BY <2>1, <3>1
  <2>2. ASSUME NEW c \in Caller, Publish(c), KeyOf(c) = k, reply[c] # NoFrame,
               invokeCache'[k].lastFrame = reply[c]
        PROVE  LET old == invokeCache[k].lastFrame
                   new == invokeCache'[k].lastFrame IN
               /\ new # NoFrame
               /\ new.source = old.source => new.version >= old.version
    BY <2>2 DEF Publish, FrameOrder, NotBehind
  <2>3. QED BY <2>1, <2>2, OnlyPublishingReplaces
<1>3. TypeOK /\ TypeOK' /\ FlightInv /\ FrameOrder /\ [Next]_vars => FrameOrder'
  BY FrameOrderStep
<1>4. Spec => []FlightInv
  BY FlightsAreOrderly, PTL
<1>5. QED BY <1>1, <1>2, <1>3, <1>4, TypeCorrect, PTL DEF Spec, CacheNeverGoesBack

-----------------------------------------------------------------------------
\* Refinement

\* Nothing is returned by accident: only a caller that has an answer holds one
\* (router.go:254-277).
NoStrayReply ==
  \A c \in Caller : at[c] \notin {"publishing", "returned"} => reply[c] = NoFrame

\* A call holds an answer only once it has one to publish or to return
\* (router.go:254-277).
LEMMA NoStrayReplies == Spec => []NoStrayReply
<1>1. Init => NoStrayReply
  BY DEF Init, NoStrayReply
<1>2. TypeOK /\ NoStrayReply /\ [Next]_vars => NoStrayReply'
  <2> SUFFICES ASSUME TypeOK, NoStrayReply, [Next]_vars PROVE NoStrayReply'
    OBVIOUS
  <2> USE DEF TypeOK, NoStrayReply, Goes, Returns
  <2>1. ASSUME NEW c \in Caller, Step(c) PROVE NoStrayReply'
    BY <2>1 DEF Step, Proceed, Invoke, Hit, Join, Wake, Cancel, Lead, Send,
                SendDirectly, Publish, Collect
  <2>2. CASE Tick \/ (\E d \in Device : Change(d)) \/ UNCHANGED vars
    BY <2>2 DEF Tick, Change, vars, caller
  <2>3. QED BY <2>1, <2>2 DEF Next
<1>3. QED BY <1>1, <1>2, TypeCorrect, PTL DEF Spec

\* A step of one caller does not show in the others (router.go:219-277).
LEMMA OthersUndisturbed ==
  ASSUME TypeOK, NEW c \in Caller, Step(c), NEW x \in Caller, x # c
  PROVE  /\ PlaceOf(x)' = PlaceOf(x)
         /\ Leads(x)' <=> Leads(x)
         /\ KeyOf(x)' = KeyOf(x)
<1>1. at'[x] = at[x] /\ request'[x] = request[x] /\ reply'[x] = reply[x]
  BY DEF Step, Proceed, Invoke, Hit, Join, Wake, Cancel, Lead, Send, SendDirectly,
         Publish, Collect, Returns, Goes, TypeOK
<1>2. KeyOf(x)' = KeyOf(x)
  BY <1>1 DEF KeyOf
<1>3. QED BY <1>1, <1>2 DEF PlaceOf, Leads

\* A step of a call changes the abstract state of its own caller and of nobody
\* else (router.go:219-277).
LEMMA AbstractCallChanges ==
  ASSUME TypeOK, NEW c \in Caller, Step(c)
  PROVE  Coalesced!Becomes(c, PlaceOf(c)')
  BY OthersUndisturbed DEF Coalesced!Becomes

\* A caller that joins, waits or sends shows nothing of it (router.go:245-261).
LEMMA AbstractCallKept ==
  ASSUME TypeOK, NEW c \in Caller, Step(c), PlaceOf(c)' = PlaceOf(c)
  PROVE  [x \in Caller |-> PlaceOf(x)]' = [x \in Caller |-> PlaceOf(x)]
  BY OthersUndisturbed

\* Who is on the bus changes only when a caller leaves for it or comes back
\* (router.go:256-271).
LEMMA AbstractFlightKept ==
  ASSUME TypeOK, NEW c \in Caller, Step(c), Leads(c)' <=> Leads(c),
         Leads(c) => KeyOf(c)' = KeyOf(c)
  PROVE  [k \in Key |-> FlightOf(k)]' = [k \in Key |-> FlightOf(k)]
<1>1. ASSUME NEW k \in Key PROVE FlightOf(k)' = FlightOf(k)
  BY OthersUndisturbed DEF FlightOf
<1>2. QED BY <1>1

\* Only the publishing of a flight replaces a key's good frame (router.go:265-267).
LEMMA AbstractLatestKept ==
  ASSUME TypeOK, [Next]_vars, ~ \E c \in Caller : Publish(c)
  PROVE  [k \in Key |-> invokeCache[k].lastFrame]' = [k \in Key |-> invokeCache[k].lastFrame]
  BY OnlyPublishingReplaces

\* Nobody is on the bus for a key whose flag is down (router.go:227, 245).
LEMMA AvailableMeansNoFlight ==
  ASSUME TypeOK, FlightInv, NEW c \in Caller, Available(c)
  PROVE  FlightOf(KeyOf(c)) = {}
  BY DEF FlightInv, SingleFlight, FlightOf, Available

\* Every step of Invoke is a step of the abstract read or shows nothing.
LEMMA InvokeRefines ==
  ASSUME TypeOK, NoStrayReply, NEW c \in Caller, NEW r \in Request, Invoke(c, r)
  PROVE  Coalesced!Begin(c)
<1> USE DEF TypeOK
<1>1. Step(c) /\ [Next]_vars
  BY DEF Step, Next
<1>2. at[c] = "idle" /\ request'[c] = r /\ reply'[c] = NoFrame /\ CacheKey(r) \in Key
  BY DEF Invoke, NoStrayReply, Key
<1>3. at'[c] \in {"direct", "entering", "returned"}
  BY DEF Invoke, Goes
<1>4. PlaceOf(c) = Coalesced!Idle
  BY <1>2 DEF PlaceOf, KeyOf, Coalesced!Idle
<1>5. PlaceOf(c)' \in {Coalesced!Alone, Coalesced!Done(NoFrame)}
                    \cup {Coalesced!Begun(k) : k \in Key}
  BY <1>2, <1>3 DEF PlaceOf, KeyOf, Coalesced!Alone, Coalesced!Done, Coalesced!Begun
<1>6. Coalesced!Becomes(c, PlaceOf(c)')
  BY <1>1, AbstractCallChanges
<1>7. [k \in Key |-> FlightOf(k)]' = [k \in Key |-> FlightOf(k)]
  BY <1>1, <1>2, <1>3, AbstractFlightKept DEF Leads
<1>8. UNCHANGED invokeCache
  BY DEF Invoke
<1>9. QED BY <1>4, <1>5, <1>6, <1>7, <1>8 DEF Coalesced!Begin

\* Served from the cache, or given up while waiting.
LEMMA AnswerRefines ==
  ASSUME TypeOK, FlightInv, NEW c \in Caller, Hit(c) \/ Cancel(c)
  PROVE  Coalesced!Answered(c, KeyOf(c))
<1> USE DEF TypeOK
<1>1. Step(c) /\ [Next]_vars
  BY DEF Step, Proceed, Next
<1>2. at[c] \in {"entering", "waiting"} /\ at'[c] = "returned" /\ UNCHANGED invokeCache
  BY DEF Hit, Cancel, Returns, Goes
<1>3. PlaceOf(c) = Coalesced!Begun(KeyOf(c))
  BY <1>2 DEF PlaceOf, KeyOf, Coalesced!Begun
<1>4. PlaceOf(c)' = Coalesced!Done(reply'[c])
  BY <1>2 DEF PlaceOf, KeyOf, Coalesced!Done
<1>5. KeyOf(c) \in Key /\ c \notin FlightOf(KeyOf(c))
  BY <1>2, KeyOfType DEF FlightOf, Leads
<1>6. \/ reply'[c] = NoFrame
      \/ /\ FlightOf(KeyOf(c)) = {}
         /\ invokeCache[KeyOf(c)].lastFrame # NoFrame
         /\ reply'[c] = invokeCache[KeyOf(c)].lastFrame
  BY AvailableMeansNoFlight DEF Hit, Cancel, Fresh, Returns
<1>7. Coalesced!Becomes(c, PlaceOf(c)')
  BY <1>1, AbstractCallChanges
<1>8. [k \in Key |-> FlightOf(k)]' = [k \in Key |-> FlightOf(k)]
  BY <1>1, <1>2, AbstractFlightKept DEF Leads
<1>9. QED BY <1>2, <1>3, <1>4, <1>5, <1>6, <1>7, <1>8 DEF Coalesced!Answered

\* Leading a flight (router.go:256-259) is the abstract take-off.
LEMMA LeadRefines ==
  ASSUME TypeOK, FlightInv, NEW c \in Caller, Lead(c)
  PROVE  Coalesced!TakeOff(c, KeyOf(c))
<1> USE DEF TypeOK
<1>1. Step(c) /\ [Next]_vars /\ ~ \E d \in Caller : Publish(d)
  BY DEF Step, Proceed, Next, Lead, Publish, Goes, Returns
<1>2. at[c] = "entering" /\ at'[c] = "sending" /\ KeyOf(c)' = KeyOf(c)
  BY DEF Lead, Goes, KeyOf
<1>3. PlaceOf(c) = Coalesced!Begun(KeyOf(c)) /\ PlaceOf(c)' = PlaceOf(c)
  BY <1>2 DEF PlaceOf, KeyOf, Coalesced!Begun
<1>4. FlightOf(KeyOf(c)) = {} /\ KeyOf(c) \in Key
  BY AvailableMeansNoFlight, KeyOfType DEF Lead
<1>5. ASSUME NEW k \in Key
      PROVE  FlightOf(k)' = IF k = KeyOf(c) THEN {c} ELSE FlightOf(k)
  BY <1>1, <1>2, <1>4, OthersUndisturbed DEF FlightOf, Leads
<1>6. [x \in Caller |-> PlaceOf(x)]' = [x \in Caller |-> PlaceOf(x)]
  BY <1>1, <1>3, AbstractCallKept
<1>7. [k \in Key |-> invokeCache[k].lastFrame]' = [k \in Key |-> invokeCache[k].lastFrame]
  BY <1>1, AbstractLatestKept
<1>8. QED BY <1>3, <1>4, <1>5, <1>6, <1>7 DEF Coalesced!TakeOff

\* Publishing a flight (router.go:263-277), good or failed, is its landing.
LEMMA PublishRefines ==
  ASSUME TypeOK, FlightInv, NEW c \in Caller, Publish(c)
  PROVE  \E k \in Key, f \in Frame \cup {NoFrame} : Coalesced!Land(c, k, f)
<1> USE DEF TypeOK
<1>1. Step(c) /\ [Next]_vars
  BY DEF Step, Proceed, Next
<1>2. /\ at[c] = "publishing" /\ at'[c] = "returned" /\ reply'[c] = reply[c]
      /\ KeyOf(c)' = KeyOf(c) /\ KeyOf(c) \in Key
  BY KeyOfType DEF Publish, Returns, Goes, KeyOf
<1>3. PlaceOf(c) = Coalesced!Begun(KeyOf(c)) /\ PlaceOf(c)' = Coalesced!Done(reply[c])
  BY <1>2 DEF PlaceOf, KeyOf, Coalesced!Begun, Coalesced!Done
<1>4. FlightOf(KeyOf(c)) = {c}
  BY <1>2 DEF FlightInv, SingleFlight, FlightOf, Leads
<1>5. ASSUME NEW k \in Key
      PROVE  FlightOf(k)' = IF k = KeyOf(c) THEN {} ELSE FlightOf(k)
  BY <1>1, <1>2, <1>4, OthersUndisturbed DEF FlightOf, Leads
<1>6. ASSUME NEW k \in Key
      PROVE  invokeCache'[k].lastFrame =
               IF k = KeyOf(c) /\ reply[c] # NoFrame THEN reply[c]
               ELSE invokeCache[k].lastFrame
  BY <1>2 DEF Publish, Landed, Entry
<1>7. Coalesced!Becomes(c, PlaceOf(c)')
  BY <1>1, AbstractCallChanges
<1>8. ASSUME NEW k \in Key, NEW f \in Frame \cup {NoFrame}, k = KeyOf(c), f = reply[c]
      PROVE  Coalesced!Land(c, k, f)
  BY <1>2, <1>3, <1>4, <1>5, <1>6, <1>7, <1>8 DEF Coalesced!Land
<1>9. QED BY <1>2, <1>8

\* An uncoalesced invocation (router.go:209-211) keeps to its own bus answer.
LEMMA DirectRefines ==
  ASSUME TypeOK, NEW c \in Caller, SendDirectly(c)
  PROVE  Coalesced!Uncoalesced(c, reply'[c])
<1> USE DEF TypeOK
<1>1. Step(c) /\ at[c] = "direct" /\ at'[c] = "returned" /\ UNCHANGED invokeCache
  BY DEF Step, Proceed, SendDirectly, Returns, Goes
<1>2. PlaceOf(c) = Coalesced!Alone /\ PlaceOf(c)' = Coalesced!Done(reply'[c])
  BY <1>1 DEF PlaceOf, KeyOf, Coalesced!Alone, Coalesced!Done
<1>3. Coalesced!Becomes(c, PlaceOf(c)')
  BY <1>1, AbstractCallChanges
<1>4. [k \in Key |-> FlightOf(k)]' = [k \in Key |-> FlightOf(k)]
  BY <1>1, AbstractFlightKept DEF Leads
<1>5. QED BY <1>1, <1>2, <1>3, <1>4 DEF Coalesced!Uncoalesced

\* Taking the result ends the call (router.go:209-277, the returns of Invoke).
LEMMA CollectRefines ==
  ASSUME TypeOK, NEW c \in Caller, Collect(c)
  PROVE  Coalesced!End(c)
<1> USE DEF TypeOK
<1>1. /\ Step(c) /\ at[c] = "returned" /\ at'[c] = "idle" /\ UNCHANGED invokeCache
      /\ reply[c] \in Frame \cup {NoFrame}
  BY DEF Step, Collect, Goes
<1>2. PlaceOf(c) = Coalesced!Done(reply[c]) /\ PlaceOf(c)' = Coalesced!Idle
  BY <1>1 DEF PlaceOf, KeyOf, Coalesced!Idle, Coalesced!Done
<1>3. Coalesced!Becomes(c, PlaceOf(c)')
  BY <1>1, AbstractCallChanges
<1>4. [k \in Key |-> FlightOf(k)]' = [k \in Key |-> FlightOf(k)]
  BY <1>1, AbstractFlightKept DEF Leads
<1>5. QED BY <1>1, <1>2, <1>3, <1>4 DEF Coalesced!End

\* Joining, waking, the bus call and the environment do not show.
LEMMA InvisibleSteps ==
  ASSUME TypeOK, NEW c \in Caller, Join(c) \/ Wake(c) \/ Send(c)
  PROVE  UNCHANGED <<[x \in Caller |-> PlaceOf(x)], [k \in Key |-> FlightOf(k)],
                     [k \in Key |-> invokeCache[k].lastFrame]>>
<1> USE DEF TypeOK
<1>1. /\ Step(c) /\ UNCHANGED <<invokeCache, request>>
      /\ at[c] \in {"entering", "waiting", "sending"}
      /\ at'[c] \in {"entering", "waiting", "publishing"}
      /\ at[c] = "sending" <=> at'[c] = "publishing"
  BY DEF Step, Proceed, Join, Wake, Send, Goes
<1>2. PlaceOf(c)' = PlaceOf(c)
  BY <1>1 DEF PlaceOf, KeyOf
<1>3. [x \in Caller |-> PlaceOf(x)]' = [x \in Caller |-> PlaceOf(x)]
  BY <1>1, <1>2, AbstractCallKept
<1>4. [k \in Key |-> FlightOf(k)]' = [k \in Key |-> FlightOf(k)]
  BY <1>1, AbstractFlightKept DEF Leads, KeyOf
<1>5. QED BY <1>1, <1>3, <1>4

\* Time (router.go:228) and the devices' data change no good frame and no flight.
LEMMA InvisibleEnvironment ==
  ASSUME TypeOK, Tick \/ (\E d \in Device : Change(d)) \/ UNCHANGED vars
  PROVE  UNCHANGED <<[x \in Caller |-> PlaceOf(x)], [k \in Key |-> FlightOf(k)],
                     [k \in Key |-> invokeCache[k].lastFrame]>>
<1>1. UNCHANGED caller
  BY DEF Tick, Change, vars, caller
<1>2. \A k \in Key : invokeCache'[k].lastFrame = invokeCache[k].lastFrame
  BY DEF Tick, Change, vars, Older, TypeOK, Entry
<1>3. QED BY <1>1, <1>2 DEF PlaceOf, FlightOf, Leads, KeyOf, caller

\* Invoke, with its channels, waiting and retries (router.go:190-278),
\* implements the abstract coalesced read.
THEOREM InvokeImplementsCoalescedRead == Spec => CoalescedReadSpec
<1>1. Init => Coalesced!AInit
  <2> SUFFICES ASSUME Init PROVE Coalesced!AInit
    OBVIOUS
  <2>1. \A c \in Caller : PlaceOf(c) = Coalesced!Idle /\ ~Leads(c)
    BY DEF Init, PlaceOf, KeyOf, Leads, Coalesced!Idle
  <2>2. \A k \in Key : FlightOf(k) = {} /\ invokeCache[k].lastFrame = NoFrame
    BY <2>1 DEF Init, FlightOf, ZeroEntry
  <2>3. QED BY <2>1, <2>2 DEF Coalesced!AInit
<1>2. TypeOK /\ TypeOK' /\ FlightInv /\ NoStrayReply /\ [Next]_vars
        => [Coalesced!ANext]_(Coalesced!avars)
  <2> SUFFICES ASSUME TypeOK, TypeOK', FlightInv, NoStrayReply, [Next]_vars
               PROVE  [Coalesced!ANext]_(Coalesced!avars)
    OBVIOUS
  <2>1. ASSUME NEW c \in Caller, NEW r \in Request, Invoke(c, r)
        PROVE  Coalesced!ANext
    BY <2>1, InvokeRefines DEF Coalesced!ANext
  <2>2. ASSUME NEW c \in Caller, Hit(c) \/ Cancel(c) PROVE Coalesced!ANext
    BY <2>2, AnswerRefines, KeyOfType DEF Coalesced!ANext
  <2>3. ASSUME NEW c \in Caller, Lead(c) PROVE Coalesced!ANext
    BY <2>3, LeadRefines, KeyOfType DEF Coalesced!ANext
  <2>4. ASSUME NEW c \in Caller, Publish(c) PROVE Coalesced!ANext
    BY <2>4, PublishRefines DEF Coalesced!ANext
  <2>5. ASSUME NEW c \in Caller, SendDirectly(c) PROVE Coalesced!ANext
    <3>1. reply'[c] \in Frame \cup {NoFrame}
      BY DEF TypeOK
    <3>2. QED BY <2>5, <3>1, DirectRefines DEF Coalesced!ANext
  <2>6. ASSUME NEW c \in Caller, Collect(c) PROVE Coalesced!ANext
    BY <2>6, CollectRefines DEF Coalesced!ANext
  <2>7. ASSUME NEW c \in Caller, Join(c) \/ Wake(c) \/ Send(c)
        PROVE  UNCHANGED Coalesced!avars
    BY <2>7, InvisibleSteps DEF Coalesced!avars
  <2>8. CASE Tick \/ (\E d \in Device : Change(d)) \/ UNCHANGED vars
    BY <2>8, InvisibleEnvironment DEF Coalesced!avars
  <2>9. QED
    BY <2>1, <2>2, <2>3, <2>4, <2>5, <2>6, <2>7, <2>8 DEF Next, Step, Proceed
<1>3. Spec => []FlightInv
  BY FlightsAreOrderly, PTL
<1>4. QED
  BY <1>1, <1>2, <1>3, TypeCorrect, NoStrayReplies, PTL
  DEF Spec, CoalescedReadSpec, Coalesced!ASpec
=============================================================================
