-------------------------------- MODULE Scan --------------------------------
(***************************************************************************)
(* Scan and ScanDirected (scan.go): one goroutine identifies the devices   *)
(* behind a list of target addresses while other goroutines go on using    *)
(* the registry.  Each bus exchange and each registry call of the scan is  *)
(* a step of its own, as the registry's lock is released between them; the *)
(* entry handles it keeps are pointers, so what they show is what the heap *)
(* holds when they are read.                                               *)
(*                                                                         *)
(* The bus is external: a probe may end in any class of error scan.go      *)
(* tells apart, or in any response in Answers.  A request and the pause    *)
(* after it are one step.  What the four 09 chunks spell is any of         *)
(* SerialTexts unless they are all padding.                                *)
(***************************************************************************)
EXTENDS Registry, ByteLists, Sequences

CONSTANTS
    TargetLists,     \* the target lists callers scan
    Unprobeable,     \* FrameTypeForTarget is FrameTypeUnknown (external)
    Answers,         \* Answers[t]: what the bus may answer to a probe of t
    SerialTexts,     \* SerialTexts[a]: serials the chunks of a may spell
    ShortPayload,    \* a payload of fewer than ten bytes
    MaxElsewhere     \* bound on registry calls of other goroutines, for TLC

ASSUME TargetAssumption ==
    Address \subseteq 0 .. 255 /\ TargetLists \subseteq Seq(Address)

VARIABLES
    scan,       \* the scanning goroutine
    elsewhere   \* registry calls other goroutines have made

scanVars == <<registry, scan, elsewhere>>

scanCollisionMaxPasses == 3

initiatorNibbles == {0, 1, 3, 7, 15}
IsInitiatorCapableAddress(a) == {a % 16, a \div 16} \subseteq initiatorNibbles

DefaultScanTargets == InOrder(Address \intersect 1 .. 253)

(* The first occurrence of each target. *)
FirstOccurrences(targets) ==
    {i \in DOMAIN targets : \A j \in 1 .. i - 1 : targets[j] # targets[i]}
DedupeScanTargets(targets) ==
    LET firsts == InOrder(FirstOccurrences(targets))
    IN  [k \in DOMAIN firsts |-> targets[firsts[k]]]

(* Errors a probe may end in; ErrBusCollision is told apart first. *)
RetriedErrors == {"Timeout", "DeadlineExceeded", "CRCMismatch", "ScanResponsePayload"}
SkippedErrors == RetriedErrors \union {"NoSuchDevice", "NACK"}
ScanErrors    == SkippedErrors \union {"BusCollision", "Other"}

(* A response to the probe itself, from a device that says who it is. *)
IsDirectedScanResponse(r) == r.directed /\ r.Source # 0
Identifies(r) == IsDirectedScanResponse(r) /\ r.payload # ShortPayload

(* What an answer says, with any serial the chunks may spell, is an        *)
(* observation: the scan is one of the callers that register them.         *)
ASSUME AnswerAssumption ==
    \A t \in Address : \A r \in {x \in Answers[t] : Identifies(x)} :
        /\ r.payload \in Observation
        /\ r.Source \in Address
        /\ \A serial \in SerialTexts[r.Source] \union {Missing} :
              [r.payload EXCEPT !["SerialNumber"] = serial] \in Observation

Idle ==
    [pc |-> "idle", pass |-> 0, pending |-> <<>>, collisions |-> <<>>, retries |-> <<>>,
     target |-> 0, address |-> 0, info |-> NoInfo, chunks |-> 0, spelled |-> FALSE, entry |-> Nil,
     registered |-> {}, entries |-> <<>>, canonical |-> <<>>, seen |-> {},
     display |-> 0, requested |-> {}, asked |-> [a \in Address |-> 0],
     outcome |-> [a \in Address |-> "none"],
     answered |-> {}, parted |-> {}, since |-> 0]

ScanInit ==
    /\ Init
    /\ scan = Idle
    /\ elsewhere = 0

Goto(s, pc) == [s EXCEPT !.pc = pc]

Started(s, targets) ==
    [Goto(s, "probe") EXCEPT !.pending = DedupeScanTargets(targets),
                             !.requested = {targets[i] : i \in DOMAIN targets}]

(* Scan falls back to every address; ScanDirected refuses an empty list.   *)
Begin(targets) ==
    /\ scan.pc = "idle"
    /\ scan' = Started(scan, IF targets = <<>> THEN DefaultScanTargets ELSE targets)
    /\ UNCHANGED <<registry, elsewhere>>

BeginDirected(targets) ==
    /\ scan.pc = "idle"
    /\ scan' = IF targets = <<>> THEN Goto(scan, "failed") ELSE Started(scan, targets)
    /\ UNCHANGED <<registry, elsewhere>>

-----------------------------------------------------------------------------
(* One probe.  asked, outcome, answered and parted record the run.        *)

Probeable(t) == t \notin Unprobeable /\ ~ IsInitiatorCapableAddress(t)

Asked(s, t, outcome) ==
    [s EXCEPT !.pending = Tail(@), !.asked[t] = @ + 1, !.outcome[t] = outcome]
Ineligible(s, t) == [s EXCEPT !.pending = Tail(@), !.outcome[t] = "ineligible"]
Collided(s, t)   == [Asked(s, t, "deferred") EXCEPT !.collisions = Append(@, t)]
(* Slips: a timeout is taken for an absent device, or asked again at once. *)
RetriedAtOnce(s, t) == [Asked(s, t, "deferred") EXCEPT !.pending = Append(@, t)]
NotRetried(s, t) == Asked(s, t, "deferred")
Retried(s, t)    == [Asked(s, t, "deferred") EXCEPT !.retries = Append(@, t)]
Skipped(s, t)    == Asked(s, t, "absent")
Failed(s, t)     == Goto(Idle, "failed")
Identified(s, t, r) ==
    [Asked(s, t, "answered") EXCEPT
        !.pc = IF r.payload["Manufacturer"] = "Vaillant" /\ r.payload["SerialNumber"] = Missing
               THEN "serial" ELSE "register",
        !.target = t, !.address = r.Source, !.info = r.payload,
        !.answered = @ \union {r.Source}]

AfterError(s, t, err) ==
    CASE err = "BusCollision" -> Collided(s, t)
      [] err \in RetriedErrors -> Retried(s, t)
      [] err \in SkippedErrors \ RetriedErrors -> Skipped(s, t)
      [] OTHER -> Failed(s, t)

AfterResponse(s, t, r) ==
    IF Identifies(r) THEN Identified(s, t, r) ELSE AfterError(s, t, "ScanResponsePayload")

Probe ==
    /\ scan.pc = "probe" /\ scan.pending # <<>>
    /\ Probeable(Head(scan.pending))
    /\ \/ \E err \in ScanErrors : scan' = AfterError(scan, Head(scan.pending), err)
       \/ \E r \in Answers[Head(scan.pending)] :
             scan' = AfterResponse(scan, Head(scan.pending), r)
    /\ UNCHANGED <<registry, elsewhere>>

PassOver ==
    /\ scan.pc = "probe" /\ scan.pending # <<>>
    /\ ~ Probeable(Head(scan.pending))
    /\ scan' = Ineligible(scan, Head(scan.pending))
    /\ UNCHANGED <<registry, elsewhere>>

Deferred == scan.collisions \o scan.retries

(* The end of a pass: another one over what was deferred, or the result.   *)
PassEnded  == scan.pc = "probe" /\ scan.pending = <<>>
PassesLeft == Deferred # <<>> /\ scan.pass < scanCollisionMaxPasses

NextPass ==
    /\ PassEnded /\ PassesLeft
    /\ scan' = [scan EXCEPT !.pass = @ + 1, !.pending = DedupeScanTargets(Deferred),
                            !.collisions = <<>>, !.retries = <<>>]
    /\ UNCHANGED <<registry, elsewhere>>

LastPass ==
    /\ PassEnded /\ ~ PassesLeft
    /\ scan' = [Goto(scan, "display") EXCEPT !.since = elsewhere]
    /\ UNCHANGED <<registry, elsewhere>>

(* The context may be done whenever it is looked at: before a probe, in    *)
(* the pauses and in the reads of the serial, never while an answer is     *)
(* recorded.                                                               *)
Abort ==
    /\ \/ scan.pc = "serial"
       \/ scan.pc = "probe" /\ scan.pending # <<>>
       \/ PassEnded /\ PassesLeft
    /\ scan' = Goto(Idle, "failed")
    /\ UNCHANGED <<registry, elsewhere>>

-----------------------------------------------------------------------------
(* The serial of a Vaillant device: four chunks, or none of it; chunks of  *)
(* padding spell nothing, other bytes are the serial.                      *)

ReadChunk(text) ==
    /\ scan.pc = "serial" /\ scan.chunks < 4
    /\ scan' = [scan EXCEPT !.chunks = @ + 1, !.spelled = @ \/ text]
    /\ UNCHANGED <<registry, elsewhere>>

SerialRead(s) == [Goto(s, "register") EXCEPT !.chunks = 0, !.spelled = FALSE]

ChunkMissing ==
    /\ scan.pc = "serial" /\ scan.chunks < 4
    /\ scan' = SerialRead(scan)
    /\ UNCHANGED <<registry, elsewhere>>

ReadSerial ==
    /\ scan.pc = "serial" /\ scan.chunks = 4
    /\ \E serial \in IF scan.spelled THEN SerialTexts[scan.address] ELSE {Missing} :
          scan' = [SerialRead(scan) EXCEPT !.info["SerialNumber"] = serial]
    /\ UNCHANGED <<registry, elsewhere>>

-----------------------------------------------------------------------------
(* Recording the answer: up to four calls, each its own critical section.  *)

(* DeviceRegistry.Register, which returns the entry at a either way.       *)
CallRegister(a, o) ==
    \/ Register(a, o)
    \/ RetainedConflict(registry, a, o) /\ UNCHANGED registry

(* The entries started for a face that its answer took out of its group.   *)
Parted(parted, before, a, e) ==
    CASE e \in before.order -> parted
      [] e \notin before.order /\ before.entries[a] = Nil -> parted \ {e}
      [] OTHER -> parted \union {e}

RegisterAnswer ==
    /\ scan.pc = "register"
    /\ CallRegister(scan.address, scan.info)
    /\ scan' = [Goto(scan, IF scan.address = scan.target THEN "confirm" ELSE "alias")
                EXCEPT !.entry = registry'.entries[scan.address],
                       !.parted = Parted(@, registry, scan.address, registry'.entries[scan.address])]
    /\ UNCHANGED elsewhere

RegisterAlias ==
    /\ scan.pc = "alias"
    /\ CallRegister(scan.target, scan.info)
    /\ scan' = Goto(scan, "join")
    /\ UNCHANGED elsewhere

JoinAlias ==
    /\ scan.pc = "join"
    /\ AliasAddresses(scan.address, scan.target)
    /\ scan' = Goto(scan, "reload")
    /\ UNCHANGED elsewhere

Reload ==
    /\ scan.pc = "reload"
    /\ scan' = [Goto(scan, "confirm") EXCEPT !.entry = registry.entries[scan.address]]
    /\ UNCHANGED <<registry, elsewhere>>

(* Slip: only Register's own evidence counts. *)
NotConfirmed ==
    /\ scan.pc = "confirm"
    /\ scan' = Goto(scan, "lookup")
    /\ UNCHANGED <<registry, elsewhere>>
Confirm ==
    /\ scan.pc = "confirm"
    /\ \/ ConfirmScanIdentity(scan.address)
       \/ registry.entries[scan.address] = Nil /\ UNCHANGED registry
    /\ scan' = Goto(scan, "lookup")
    /\ UNCHANGED elsewhere

LookupConfirmed ==
    /\ scan.pc = "lookup"
    /\ scan' = [Goto(scan, "collect") EXCEPT
                   !.entry = IF registry.entries[scan.address] = Nil
                             THEN @ ELSE registry.entries[scan.address]]
    /\ UNCHANGED <<registry, elsewhere>>

(* PrimaryDisplayAddress through a handle, outside the lock. *)
PrimaryDisplayAddress(e) == registry.heap[e].primaryAddress

Collected(s, canonicalAddress) ==
    IF canonicalAddress \in s.registered THEN s
    ELSE [s EXCEPT !.registered = @ \union {canonicalAddress},
                   !.entries = Append(@, s.entry)]

Collect ==
    /\ scan.pc = "collect"
    /\ scan' = [Collected(scan, PrimaryDisplayAddress(scan.entry)) EXCEPT
                   !.pc = "probe", !.target = 0, !.address = 0,
                   !.info = NoInfo, !.entry = Nil]
    /\ UNCHANGED <<registry, elsewhere>>

-----------------------------------------------------------------------------
(* canonicalizeScanEntries: each kept handle is resolved once more.        *)

ReadDisplay ==
    /\ scan.pc = "display" /\ scan.entries # <<>>
    /\ scan' = [Goto(scan, "resolve") EXCEPT
                   !.display = PrimaryDisplayAddress(Head(scan.entries)),
                   !.entries = Tail(@)]
    /\ UNCHANGED <<registry, elsewhere>>

Resolve ==
    /\ scan.pc = "resolve"
    /\ scan' = [Goto(scan, IF registry.entries[scan.display] = Nil THEN "display" ELSE "keep")
                EXCEPT !.entry = registry.entries[scan.display], !.display = 0]
    /\ UNCHANGED <<registry, elsewhere>>

(* Slip: a handle is returned as it was collected. *)
KeptAlways(s, address) == [s EXCEPT !.canonical = Append(@, s.entry)]
KeptOnce(s, address) ==
    IF address \in s.seen THEN s
    ELSE [s EXCEPT !.seen = @ \union {address}, !.canonical = Append(@, s.entry)]

Keep ==
    /\ scan.pc = "keep"
    /\ scan' = [KeptOnce(scan, PrimaryDisplayAddress(scan.entry)) EXCEPT
                   !.pc = "display", !.entry = Nil]
    /\ UNCHANGED <<registry, elsewhere>>

Return ==
    /\ scan.pc = "display" /\ scan.entries = <<>>
    /\ scan' = Goto(scan, "done")
    /\ UNCHANGED <<registry, elsewhere>>

-----------------------------------------------------------------------------
(* Another goroutine's call; bounded.  One made during a bus exchange is   *)
(* no different from one made just before the scan next uses the registry. *)
Elsewhere ==
    /\ elsewhere < MaxElsewhere
    /\ scan.pc \notin {"idle", "probe", "serial", "done", "failed"}
    /\ Next
    /\ elsewhere' = elsewhere + 1
    /\ UNCHANGED scan

ScanStep ==
    \/ \E targets \in TargetLists : Begin(targets) \/ BeginDirected(targets)
    \/ Probe \/ PassOver \/ NextPass \/ LastPass \/ Abort
    \/ \E text \in BOOLEAN : ReadChunk(text)
    \/ ChunkMissing \/ ReadSerial
    \/ RegisterAnswer \/ RegisterAlias \/ JoinAlias \/ Reload \/ Confirm
    \/ LookupConfirmed \/ Collect
    \/ ReadDisplay \/ Resolve \/ Keep \/ Return

ScanNext == ScanStep \/ Elsewhere
ScanSpec == ScanInit /\ [][ScanNext]_scanVars
=============================================================================
