------------------------- MODULE InvokeCacheProps -------------------------
(* What Invoke promises its callers. *)
EXTENDS InvokeCache

\* Every variable stays in its type (router.go:93-100, the invoke cache).
TypeOK ==
  /\ invokeCache \in [Key -> Entry]
  /\ open \subseteq Channel
  /\ at \in [Caller -> {"idle", "entering", "waiting", "sending", "publishing",
                        "direct", "returned"}]
  /\ request \in [Caller -> Request]
  /\ done \in [Caller -> Channel \cup {NoChannel}]
  /\ reply \in [Caller -> Frame \cup {NoFrame}]
  /\ device \in [Device -> 0..MaxVersion]
  /\ calls \in Nat

Leads(c) == at[c] \in {"sending", "publishing"}

\* The running flag is what keeps coalesced callers off the bus (router.go:
\* 227-259): it stands exactly while one caller leads a flight for the key,
\* and that caller holds the channel joiners will find in the entry.
SingleFlight ==
  /\ \A c, d \in Caller : Leads(c) /\ Leads(d) /\ KeyOf(c) = KeyOf(d) => c = d
  /\ \A c \in Caller : Leads(c) => /\ invokeCache[KeyOf(c)].running
                                   /\ invokeCache[KeyOf(c)].done = done[c]
  /\ \A k \in Key : invokeCache[k].running =>
       \E c \in Caller : Leads(c) /\ KeyOf(c) = k

\* No wake-up is lost and no channel is closed twice (router.go:245-271): the
\* open channels are those of the leaders, one each, and a waiter whose
\* channel is still open waits for the leader of its own key.
ChannelDiscipline ==
  /\ open = {done[c] : c \in {x \in Caller : Leads(x)}}
  /\ \A c, d \in Caller : Leads(c) /\ Leads(d) /\ done[c] = done[d] => c = d
  /\ \A c \in Caller : at[c] = "waiting" /\ done[c] \in open =>
       \E d \in Caller : Leads(d) /\ KeyOf(d) = KeyOf(c) /\ done[d] = done[c]

\* An answer that was read earlier never displaces one that was read later
\* (router.go:263-271): per device, the frame of a key only moves forward.
CacheNeverGoesBack == [][
  \A k \in Key :
    LET old == invokeCache[k].lastFrame   new == invokeCache'[k].lastFrame IN
    old # NoFrame => /\ new # NoFrame
                     /\ new.source = old.source => new.version >= old.version]_vars

\* The abstract state: waiting, waking and channels do not show in it.
PlaceOf(c) ==
  CASE at[c] = "idle"     -> [place |-> "idle"]
    [] at[c] = "direct"   -> [place |-> "alone"]
    [] at[c] = "returned" -> [place |-> "done", frame |-> reply[c]]
    [] OTHER              -> [place |-> "begun", key |-> KeyOf(c)]

FlightOf(k) == {c \in Caller : Leads(c) /\ KeyOf(c) = k}

Coalesced == INSTANCE CoalescedRead WITH
  call   <- [c \in Caller |-> PlaceOf(c)],
  flight <- [k \in Key |-> FlightOf(k)],
  latest <- [k \in Key |-> invokeCache[k].lastFrame]

\* The detailed Invoke (router.go:190-278) implements the abstract coalesced
\* read: one flight per key, good frames replaced only by the flight, an error
\* the affair of the caller that got it.
CoalescedReadSpec == Coalesced!ASpec

\* Every call returns (router.go:219-277), the bus answering, even if no
\* caller's context ever ends and whichever flights fail.
EveryCallReturns ==
  \A c \in Caller : at[c] # "idle" ~> at[c] = "returned"

\* What the README's wiring needs of Invoke (README.md:174-180, the planes of
\* several scanned devices on one router): the answer a caller gets comes
\* from the device its plane addresses.
AnsweredByTheAddressedDevice ==
  \A c \in Caller : at[c] = "returned" /\ reply[c] # NoFrame =>
    reply[c].source = request[c].address
=============================================================================
