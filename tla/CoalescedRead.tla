--------------------------- MODULE CoalescedRead ---------------------------
(* What coalesced invocation promises, without channels, waiting or ages:   *)
(* per key at most one caller is on the bus and only it can replace the     *)
(* good frame; a caller returns its own bus result or the good frame of its *)
(* key; and an error concerns nobody but the caller that got it.            *)
CONSTANTS Caller, Key, Frame, NoFrame

Idle     == [place |-> "idle"]
Begun(k) == [place |-> "begun", key |-> k]
Alone    == [place |-> "alone"]
Done(f)  == [place |-> "done", frame |-> f]

VARIABLES
  call,      \* what each caller is doing
  flight,    \* [Key -> the set of callers on the bus for it]
  latest     \* [Key -> the last good frame]

avars == <<call, flight, latest>>

AInit ==
  /\ call = [c \in Caller |-> Idle]
  /\ flight = [k \in Key |-> {}]
  /\ latest = [k \in Key |-> NoFrame]

Becomes(c, s) == call' = [call EXCEPT ![c] = s]

Begin(c) ==
  /\ call[c] = Idle
  /\ \/ \E k \in Key : Becomes(c, Begun(k))
     \/ Becomes(c, Alone)
     \/ Becomes(c, Done(NoFrame))
  /\ UNCHANGED <<flight, latest>>

\* Only when nobody is on the bus for the key.
TakeOff(c, k) ==
  /\ call[c] = Begun(k)
  /\ flight[k] = {}
  /\ flight' = [flight EXCEPT ![k] = {c}]
  /\ UNCHANGED <<call, latest>>

\* A good answer becomes the key's frame; an error leaves it.
Land(c, k, f) ==
  /\ call[c] = Begun(k)
  /\ flight[k] = {c}
  /\ flight' = [flight EXCEPT ![k] = {}]
  /\ latest' = [latest EXCEPT ![k] = IF f = NoFrame THEN @ ELSE f]
  /\ Becomes(c, Done(f))

\* Served while nobody is on the bus, or failed on its own account.
Answered(c, k) ==
  /\ call[c] = Begun(k)
  /\ c \notin flight[k]
  /\ \/ flight[k] = {} /\ latest[k] # NoFrame /\ Becomes(c, Done(latest[k]))
     \/ Becomes(c, Done(NoFrame))
  /\ UNCHANGED <<flight, latest>>

Uncoalesced(c, f) ==
  /\ call[c] = Alone
  /\ Becomes(c, Done(f))
  /\ UNCHANGED <<flight, latest>>

End(c) ==
  /\ \E f \in Frame \cup {NoFrame} : call[c] = Done(f)
  /\ Becomes(c, Idle)
  /\ UNCHANGED <<flight, latest>>

ANext == \E c \in Caller :
  \/ Begin(c) \/ End(c)
  \/ \E k \in Key : TakeOff(c, k) \/ Answered(c, k)
  \/ \E k \in Key, f \in Frame \cup {NoFrame} : Land(c, k, f)
  \/ \E f \in Frame \cup {NoFrame} : Uncoalesced(c, f)

ASpec == AInit /\ [][ANext]_avars
=============================================================================
