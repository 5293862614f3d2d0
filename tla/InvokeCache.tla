---------------------------- MODULE InvokeCache ----------------------------
(* BusEventRouter.Invoke: concurrent method invocations, of which read-only *)
(* ones are coalesced per cache key.  A caller either answers from the last *)
(* good frame, waits for the flight another caller leads, or leads one:     *)
(* the bus is used outside invokeMu, so every critical section and every    *)
(* bus call is a step of its own.                                           *)
(* A nil map entry is replaced by a zero entry before it is read, so the    *)
(* cache is total and starts with zero entries.  Wall time appears only as  *)
(* the age of the last good frame, saturated once no window can hold it.    *)
EXTENDS Naturals

CONSTANTS
  Caller,        \* goroutines calling Invoke, one call each at a time
  Request,       \* invocations: [plane, address, method, params] records
  Channel,       \* identities of done channels; unreferenced ones are reused
  NoChannel,     \* a caller that holds no channel
  NoFrame,       \* no frame cached, or a call that returned an error
  MaxVersion,    \* bound on the changes of a device
  MaxCalls       \* bound on the invocations of a behaviour

CONSTANTS        \* RouterOptions, in ticks; 0 is unset
  StateRefreshInterval, ConfigRefreshInterval,
  DefaultStateRefreshInterval, DefaultConfigRefreshInterval,
  DisableCoalescing,
  ConfigMethod,              \* method names with a configuration token
  ClassifyInvocation(_)      \* the override of a request's class, "" for none

ASSUME RequestAssumption == Request # {} /\ MaxVersion \in Nat

\* Windows are durations.
ASSUME OptionsAssumption ==
  /\ {StateRefreshInterval, ConfigRefreshInterval} \subseteq Nat
  /\ {DefaultStateRefreshInterval, DefaultConfigRefreshInterval} \subseteq Nat
  /\ DisableCoalescing \in BOOLEAN

VARIABLES
  invokeCache,   \* [Key -> Entry]
  open,          \* channels made and not closed
  at,            \* where each caller is in Invoke
  request,       \* what it invokes
  done,          \* the channel it holds in its local variable done
  reply,         \* the frame it has got from the bus or returns
  device,        \* version of what each addressed device would answer
  calls          \* invocations so far

vars == <<invokeCache, open, at, request, done, reply, device, calls>>
caller == <<at, request, done, reply>>

-----------------------------------------------------------------------------
\* Refresh policy

\* A non-positive option takes its default.
Interval(option, default) == IF option = 0 THEN default ELSE option

Window(class) ==
  IF class = "config"
  THEN Interval(ConfigRefreshInterval, DefaultConfigRefreshInterval)
  ELSE Interval(StateRefreshInterval, DefaultStateRefreshInterval)

InferRefreshClass(r) == IF r.method.name \in ConfigMethod THEN "config" ELSE "state"

\* params override the callback, which overrides the method's name.
RefreshClass(r) ==
  CASE r.params.class # ""         -> r.params.class
    [] r.params.class = "" /\ ClassifyInvocation(r) # "" -> ClassifyInvocation(r)
    [] OTHER                       -> InferRefreshClass(r)

InvokeMaxAge(r) ==
  IF DisableCoalescing \/ ~r.method.readOnly THEN 0 ELSE Window(RefreshClass(r))

\* The plane's address is not part of the key.
CacheKey(r) == <<r.plane, r.method.name, r.params>>

Key     == {CacheKey(r) : r \in Request}
Device  == {r.address : r \in Request}
Frame   == [source : Device, version : 0..MaxVersion]
\* An age above every window.
Expired == Window("state") + Window("config") + 1

ASSUME NullsAssumption == NoChannel \notin Channel /\ NoFrame \notin Frame

Entry == [running : BOOLEAN, done : Channel \cup {NoChannel},
          age : 0..Expired, lastFrame : Frame \cup {NoFrame}]

\* What an idle caller's request is taken to be.
NoRequest == CHOOSE r \in Request : TRUE

ZeroEntry == [running |-> FALSE, done |-> NoChannel,
              age |-> Expired, lastFrame |-> NoFrame]

Init ==
  /\ invokeCache = [k \in Key |-> ZeroEntry]
  /\ open = {}
  /\ at = [c \in Caller |-> "idle"]
  /\ request = [c \in Caller |-> NoRequest]
  /\ done = [c \in Caller |-> NoChannel]
  /\ reply = [c \in Caller |-> NoFrame]
  /\ device = [d \in Device |-> 0]
  /\ calls = 0

-----------------------------------------------------------------------------
\* Steps of a call

KeyOf(c) == CacheKey(request[c])

\* A channel no entry and no caller refers to.
Referenced  == {invokeCache[k].done : k \in Key} \cup {done[c] : c \in Caller}
MadeChannel == CHOOSE ch \in Channel : ch \notin Referenced

Goes(c, place) == at' = [at EXCEPT ![c] = place]

\* The call ends with frame f, or with an error when f is NoFrame.
Returns(c, f) ==
  /\ Goes(c, "returned")
  /\ reply' = [reply EXCEPT ![c] = f]
  /\ done' = [done EXCEPT ![c] = NoChannel]
  /\ UNCHANGED request

\* Invoke up to its first critical section: an unknown method, a request that
\* cannot be built or a key that cannot be encoded is an error at once.
Invoke(c, r) ==
  /\ at[c] = "idle"
  /\ calls < MaxCalls
  /\ calls' = calls + 1
  /\ request' = [request EXCEPT ![c] = r]
  /\ \/ Goes(c, IF InvokeMaxAge(r) = 0 THEN "direct" ELSE "entering")
     \/ Goes(c, "returned")
  /\ UNCHANGED <<invokeCache, open, done, reply, device>>

Fresh(c) ==
  /\ invokeCache[KeyOf(c)].lastFrame # NoFrame
  /\ invokeCache[KeyOf(c)].age <= InvokeMaxAge(request[c])

\* Slip: whether a flight is under way is not looked at.
Unlooked(c) == at[c] = "entering"

Available(c) == ~invokeCache[KeyOf(c)].running

\* The cached frame, decoded after the unlock: decoding may fail.
Hit(c) ==
  /\ at[c] = "entering"
  /\ Available(c) /\ Fresh(c)
  /\ \E f \in {invokeCache[KeyOf(c)].lastFrame, NoFrame} : Returns(c, f)
  /\ UNCHANGED <<invokeCache, open, device, calls>>

\* Another caller leads a flight for this key.
Join(c) ==
  /\ at[c] = "entering"
  /\ ~Available(c)
  /\ done' = [done EXCEPT ![c] = invokeCache[KeyOf(c)].done]
  /\ Goes(c, "waiting")
  /\ UNCHANGED <<invokeCache, open, request, reply, device, calls>>

\* case <-done: continue
Wake(c) ==
  /\ at[c] = "waiting"
  /\ done[c] \notin open
  /\ Goes(c, "entering")
  /\ done' = [done EXCEPT ![c] = NoChannel]
  /\ UNCHANGED <<invokeCache, open, request, reply, device, calls>>

\* case <-ctx.Done()
Cancel(c) ==
  /\ at[c] = "waiting"
  /\ Returns(c, NoFrame)
  /\ UNCHANGED <<invokeCache, open, device, calls>>

Lead(c) ==
  /\ at[c] = "entering"
  /\ Available(c) /\ ~Fresh(c)
  /\ Channel \ Referenced # {}
  /\ LET ch == MadeChannel IN
       /\ invokeCache' = [invokeCache EXCEPT ![KeyOf(c)].running = TRUE,
                                             ![KeyOf(c)].done = ch]
       /\ open' = open \cup {ch}
       /\ done' = [done EXCEPT ![c] = ch]
  /\ Goes(c, "sending")
  /\ UNCHANGED <<request, reply, device, calls>>

\* Slip: a nil response is taken for a zero frame.
AnswersUnchecked(c) == {NoFrame, [source |-> request[c].address]}

\* What sendAndDecode returns: the device's answer, or an error of the bus, of
\* a nil response, of the decoder or of the caller's own context.
Answers(c) ==
  {NoFrame, [source |-> request[c].address, version |-> device[request[c].address]]}

Send(c) ==
  /\ at[c] = "sending"
  /\ \E f \in Answers(c) : reply' = [reply EXCEPT ![c] = f]
  /\ Goes(c, "publishing")
  /\ UNCHANGED <<invokeCache, open, request, done, device, calls>>

SendDirectly(c) ==
  /\ at[c] = "direct"
  /\ \E f \in Answers(c) : Returns(c, f)
  /\ UNCHANGED <<invokeCache, open, device, calls>>

\* Slip: an error overwrites the last good frame.
LandedRegardless(entry, f) == [entry EXCEPT !.running = FALSE, !.age = 0, !.lastFrame = f]

\* What a landing leaves in the entry: an error leaves the last good frame.
Landed(entry, f) ==
  IF f = NoFrame
  THEN [entry EXCEPT !.running = FALSE]
  ELSE [entry EXCEPT !.running = FALSE, !.age = 0, !.lastFrame = f]

\* Slip: the error path does not close the channel.
PublishClosingOnSuccess(c) ==
  /\ at[c] = "publishing"
  /\ invokeCache' = [invokeCache EXCEPT ![KeyOf(c)] = Landed(@, reply[c])]
  /\ open' = IF reply[c] = NoFrame THEN open ELSE open \ {done[c]}
  /\ Returns(c, reply[c])
  /\ UNCHANGED <<device, calls>>

\* Slip: an error returns before the entry is published.
PublishOnSuccess(c) ==
  /\ at[c] = "publishing"
  /\ \/ /\ reply[c] = NoFrame
        /\ UNCHANGED <<invokeCache, open>>
     \/ /\ reply[c] # NoFrame
        /\ invokeCache' = [invokeCache EXCEPT ![KeyOf(c)] = Landed(@, reply[c])]
        /\ open' = open \ {done[c]}
  /\ Returns(c, reply[c])
  /\ UNCHANGED <<device, calls>>

Publish(c) ==
  /\ at[c] = "publishing"
  /\ invokeCache' = [invokeCache EXCEPT ![KeyOf(c)] = Landed(@, reply[c])]
  /\ open' = open \ {done[c]}
  /\ Returns(c, reply[c])
  /\ UNCHANGED <<device, calls>>

\* The caller takes its result.
Collect(c) ==
  /\ at[c] = "returned"
  /\ Goes(c, "idle")
  /\ reply' = [reply EXCEPT ![c] = NoFrame]
  /\ request' = [request EXCEPT ![c] = NoRequest]
  /\ UNCHANGED <<invokeCache, open, done, device, calls>>

-----------------------------------------------------------------------------
\* Environment

Older(entry) ==
  [entry EXCEPT !.age = IF entry.age = Expired THEN Expired ELSE entry.age + 1]

Tick ==
  /\ invokeCache' = [k \in Key |-> Older(invokeCache[k])]
  /\ UNCHANGED <<open, caller, device, calls>>

\* The device's data changes, on its own or by a write.
Change(d) ==
  /\ device[d] < MaxVersion
  /\ device' = [device EXCEPT ![d] = @ + 1]
  /\ UNCHANGED <<invokeCache, open, caller, calls>>

\* What a running call does next, whatever the others do.
Proceed(c) ==
  \/ Hit(c) \/ Join(c) \/ Lead(c) \/ Wake(c)
  \/ Send(c) \/ SendDirectly(c) \/ Publish(c)

Step(c) == Proceed(c) \/ Cancel(c) \/ Collect(c) \/ \E r \in Request : Invoke(c, r)

Next ==
  \/ \E c \in Caller : Step(c)
  \/ Tick
  \/ \E d \in Device : Change(d)

Spec == Init /\ [][Next]_vars

\* A goroutine that can run does run, and bus.Send returns.  Nobody has to
\* cancel, to invoke again or to collect a result, and time need not pass.
FairSpec == Spec /\ \A c \in Caller : WF_vars(Proceed(c))
=============================================================================
