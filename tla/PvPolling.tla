------------------------------ MODULE PvPolling ------------------------------
(***************************************************************************)
(* The fact registry fed by the pollers of the assets' energy counters.    *)
(* The meters and pollers are not in the repository: a meter counts modulo *)
(* Modulus, may be reset, and may be replaced unnoticed while nothing of   *)
(* it is retained; a poller reads it now or not at all, delivers in order, *)
(* and attests a rollover or a reset only when one has happened since the  *)
(* last reading that was accepted.  What the registry then reports as      *)
(* deltas is added up, for each asset and each meter it was read from.     *)
(***************************************************************************)
EXTENDS PvRegistryProps

CONSTANTS
    Meter,          \* identities that measure energy
    Channel,        \* the observations each meter is read as
    FirstReading,   \* what each meter shows at first
    Modulus,
    InTenths,       \* the observations whose readings are in tenths
    Others(_),      \* the other updates that may arrive at a time
    MaxProduced     \* bound on what each meter measures, for TLC; the readings a
                    \* replaced meter shows at first are bounded to the extremes

VARIABLES
    clock,     \* monotonic time
    meter,     \* the meters
    counted    \* the sums of the deltas reported, in tenths

pollVars == <<assets, clock, meter, counted>>

EnergyKey == NewFactKey("energy.active_export_total", {<<"scope", "total">>})

(* A register shows less than its modulus, and nobody but the pollers      *)
(* reports energy.                                                         *)
ASSUME PollAssumption ==
    /\ Modulus \in Nat \ {0}
    /\ FirstReading \in [Meter -> 0 .. Modulus - 1]
    /\ Channel \subseteq Meter \X Observation
    /\ \A t \in 0 .. MaxInt : \A u \in Others(t) : UpdateLists(u) /\ EnergyKey \notin Keys(u)

PollInit ==
    /\ Init
    /\ clock = 0
    /\ meter = [m \in Meter |-> [produced |-> 0, register |-> FirstReading[m],
                                 wraps |-> 0, reset |-> FALSE, readAt |-> 0]]
    /\ counted = [a \in Asset |-> [m \in Meter |-> 0]]

Tick ==
    /\ clock < MaxInt
    /\ clock' = clock + 1
    /\ UNCHANGED <<assets, meter, counted>>

Produce(m) ==
    /\ meter[m].produced < MaxProduced[m]
    /\ meter' = [meter EXCEPT
          ![m].produced = @ + 1,
          ![m].register = (@ + 1) % Modulus,
          ![m].wraps    = IF meter[m].register + 1 = Modulus THEN @ + 1 ELSE @]
    /\ UNCHANGED <<assets, clock, counted>>

Reset(m) ==
    /\ meter[m].produced > 0
    /\ meter' = [meter EXCEPT ![m].register = 0, ![m].reset = TRUE]
    /\ UNCHANGED <<assets, clock, counted>>

(* An outage longer than the retention may hide a replacement. *)
Replace(m) ==
    /\ clock >= meter[m].readAt + RetainFor["accumulator"]
    /\ \E r \in {0, Modulus - 1} :
          meter' = [meter EXCEPT ![m].register = r, ![m].wraps = 0, ![m].reset = FALSE]
    /\ UNCHANGED <<assets, clock, counted>>

(* A whole number, as itself or in tenths. *)
Whole(n)  == [coefficient |-> n, scale |-> 0]
Tenths(n) == [coefficient |-> 10 * n, scale |-> -1]

Shown(o, n) == IF o \in InTenths THEN Tenths(n) ELSE Whole(n)

Evidence(m) ==
    {NoEvidence}
    \union (IF meter[m].reset
            THEN {[NoEvidence EXCEPT !.Kind = "RESET", !.attested = TRUE]} ELSE {})
    \union (IF meter[m].wraps = 1 /\ ~ meter[m].reset
            THEN {[Kind |-> "ROLLOVER", Modulus |-> Whole(Modulus),
                   BoundaryVerified |-> TRUE, attested |-> TRUE]} ELSE {})

Reading(m, value, evidence) ==
    [ID |-> "energy.active_export_total", Dimensions |-> {<<"scope", "total">>},
     Kind |-> "decimal", Unit |-> "Wh", Value |-> value, quality |-> "GOOD",
     receipt |-> clock, policy |-> "accumulator", counter |-> evidence]

PollUpdate(a, m, o, out, value, evidence, satisfied) ==
    [asset |-> a, evaluated |-> clock, sourceTime |-> "VALID",
     source |-> [identity |-> m, observation |-> o],
     facts |-> <<Reading(m, value, evidence)>>, satisfied |-> satisfied,
     requested |-> <<<<o, out>>>>,
     report |-> <<[sourceRef |-> o, outputRef |-> out, outcome |-> "MAPPED",
                   fact |-> EnergyKey]>>]

DeltaOf(a) ==
    LET delta == assets'[a].facts[EnergyKey].continuity.Delta
    IN  IF delta = NoDecimal THEN 0 ELSE ScaledCoefficient(delta, -1)

Poll(a, m, u) ==
    /\ Commit(u)
    /\ counted' = [counted EXCEPT ![a][m] = @ + DeltaOf(a)]
    /\ meter' = [meter EXCEPT ![m].wraps = 0, ![m].reset = FALSE, ![m].readAt = clock]
    /\ UNCHANGED clock

Post(u) == Apply(u) /\ UNCHANGED <<clock, meter, counted>>

PollNext ==
    \/ Tick
    \/ \E m \in Meter : Produce(m) \/ Reset(m) \/ Replace(m)
    \/ \E a \in Asset, c \in Channel, out \in Output, satisfied \in BOOLEAN :
          \E e \in Evidence(c[1]) :
             Poll(a, c[1], PollUpdate(a, c[1], c[2], out,
                                      Shown(c[2], meter[c[1]].register), e, satisfied))
    \/ \E u \in Others(clock) : Post(u)

PollSpec == PollInit /\ [][PollNext]_pollVars

(* What is reported as increments never adds up to more than was measured, *)
(* across rollovers, resets, lost readings, changes of source, scales and  *)
(* replacements hidden by an outage (registry.go:103-121, counter.go).     *)
DeltasNeverOvercount ==
    \A a \in Asset, m \in Meter : counted[a][m] <= 10 * meter[m].produced
=============================================================================
