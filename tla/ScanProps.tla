------------------------------ MODULE ScanProps ------------------------------
(***************************************************************************)
(* What a scan owes its caller, and what it relies on in the registry.     *)
(***************************************************************************)
EXTENDS Scan, FiniteSets

Undisturbed == scan.since = elsewhere
Returned == {scan.canonical[i] : i \in DOMAIN scan.canonical}

(* When nobody else mutated the registry while the handles were resolved,  *)
(* the scan returns live entries, each once, though groups merged or split *)
(* since they were collected.                                              *)
ReturnsLiveEntriesOnce ==
    scan.pc = "done" /\ Undisturbed =>
        /\ Returned \subseteq registry.order
        /\ Cardinality(Returned) = Len(scan.canonical)

(* When nobody else used it at all, they include the device behind every  *)
(* face that answered, but for an entry that was started for a face whose  *)
(* answer contradicted the group it was in: its address may have been      *)
(* collected for the group it left (scan.go:214).                          *)
ReturnsEachAnsweringDeviceOnce ==
    /\ ReturnsLiveEntriesOnce
    /\ scan.pc = "done" /\ elsewhere = 0 =>
          \A a \in scan.answered : registry.entries[a] \in Returned \union scan.parted

(* A scan that succeeds gave up on a target only after an absence, or      *)
(* after every pass it allows itself.                                      *)
DeferredTargetsAreAskedAgain ==
    scan.pc = "done" =>
        \A t \in scan.requested :
            \/ scan.outcome[t] \in {"ineligible", "answered", "absent"}
            \/ /\ scan.outcome[t] = "deferred"
               /\ scan.asked[t] = scanCollisionMaxPasses + 1

(* Every face that answered is confirmed when the scan returns, unless     *)
(* another goroutine said something else about it.                         *)
AnsweringFacesAreConfirmed ==
    scan.pc = "done" /\ elsewhere = 0 => \A a \in scan.answered :
        registry.addressTable[a].VerificationState = IdentityConfirmed

(* Steps left at most: a pass probes what is pending, a probe may have to  *)
(* read a serial and record an answer, which is resolved in the end.       *)
PerProbe == 20
StepsTo ==
    [p \in {"idle", "probe", "serial", "register", "alias", "join", "reload", "confirm",
            "lookup", "collect", "display", "resolve", "keep", "done", "failed"} |->
        CASE p = "serial" -> 16 [] p = "register" -> 10 [] p = "alias" -> 9
          [] p = "join" -> 8    [] p = "reload" -> 7    [] p = "confirm" -> 6
          [] p = "lookup" -> 5  [] p = "collect" -> 4   [] p = "resolve" -> 2
          [] p = "keep" -> 1    [] OTHER -> 0]
StepsLeft ==
    LET perPass == PerProbe * Cardinality(Address) + 2
        Probing == scan.pc \notin {"display", "resolve", "keep"}
    IN  CASE scan.pc \in {"done", "failed"} -> 0
          [] scan.pc = "idle" -> 6 * perPass
          [] OTHER ->
               (IF Probing THEN (scanCollisionMaxPasses - scan.pass) * perPass
                                + PerProbe * Len(scan.pending) + 1 ELSE 0)
               + StepsTo[scan.pc] - scan.chunks + 3 * Len(scan.entries) + 1

(* Every step of a scan leaves it fewer steps to take, whatever the bus    *)
(* answers and others do: passes, deferrals and duplicates are bounded.    *)
ScanComesToAnEnd == [][scan' # scan => StepsLeft' \in 0 .. StepsLeft - 1]_scan
=============================================================================
