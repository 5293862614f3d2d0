------------------------------- MODULE PvFacts -------------------------------
(***************************************************************************)
(* The pure rules of the photovoltaic contract v1 (src/pv): what the       *)
(* catalog admits, how a fact ages, and how a counter reading follows the  *)
(* one before.  An identifier, a digest or a symbol is a value that is     *)
(* well formed already; a decimal is its coefficient and its power of ten. *)
(***************************************************************************)
EXTENDS Integers, Sequences, FiniteSets

CONSTANTS
    FreshFor, RetainFor,  \* the freshness policies, in the instance's unit of time
    MaxInt,               \* math.MaxInt64, in the same unit
    InputID, SensorID     \* opaque identifiers that validOpaqueIdentifier admits

Policy == {"telemetry.fast", "status", "accumulator", "rating"}

ASSUME PolicyAssumption ==
    /\ MaxInt \in Nat
    /\ FreshFor \in [Policy -> Nat \ {0}] /\ RetainFor \in [Policy -> Nat]
    /\ \A p \in Policy : FreshFor[p] < RetainFor[p]

-----------------------------------------------------------------------------
(* The catalog *)

NoDomain == {}
OperatingStates ==
    {"UNKNOWN", "OFF", "STANDBY", "STARTING", "OPERATING", "DERATED", "FAULT", "SHUTTING_DOWN"}
EventFlags ==
    {"GROUND_FAULT", "DC_OVER_VOLTAGE", "AC_DISCONNECT", "DC_DISCONNECT", "GRID_DISCONNECT",
     "CABINET_OPEN", "MANUAL_SHUTDOWN", "OVER_TEMPERATURE", "FREQUENCY_OUT_OF_RANGE",
     "VOLTAGE_OUT_OF_RANGE", "COMMUNICATION_FAULT", "INTERNAL_FAULT"}

Definition(kind, unit, dimension, policy, accumulator, domain) ==
    [Kind |-> kind, Unit |-> unit, Dimension |-> dimension, Policy |-> policy,
     Accumulator |-> accumulator, Domain |-> domain]
Measured(unit, dimension) ==
    Definition("decimal", unit, dimension, "telemetry.fast", FALSE, NoDomain)
Accumulated(dimension) ==
    Definition("decimal", "Wh", dimension, "accumulator", TRUE, NoDomain)

FactID ==
    {"ac.power.active", "ac.power.apparent", "ac.power.reactive", "ac.power_factor",
     "ac.frequency", "ac.current", "ac.voltage.line_to_neutral", "ac.voltage.line_to_line",
     "energy.active_export_total", "dc.current", "dc.voltage", "dc.power.active",
     "dc.energy.active_total", "temperature", "operating.state", "event.flags",
     "rating.ac.active_power"}
CatalogV1 ==
    [id \in FactID |->
        CASE id = "ac.power.active"            -> Measured("W", "scope")
          [] id = "ac.power.apparent"          -> Measured("VA", "scope")
          [] id = "ac.power.reactive"          -> Measured("var", "scope")
          [] id = "ac.power_factor"            -> Measured("1", "scope")
          [] id = "ac.frequency"               -> Measured("Hz", "scope")
          [] id = "ac.current"                 -> Measured("A", "phase")
          [] id = "ac.voltage.line_to_neutral" -> Measured("V", "phase")
          [] id = "ac.voltage.line_to_line"    -> Measured("V", "phase_pair")
          [] id = "energy.active_export_total" -> Accumulated("scope")
          [] id = "dc.current"                 -> Measured("A", "input_id")
          [] id = "dc.voltage"                 -> Measured("V", "input_id")
          [] id = "dc.power.active"            -> Measured("W", "input_id")
          [] id = "dc.energy.active_total"     -> Accumulated("input_id")
          [] id = "temperature"                -> Measured("Cel", "sensor_id")
          [] id = "operating.state" ->
                Definition("enum", "1", "scope", "status", FALSE, OperatingStates)
          [] id = "event.flags" ->
                Definition("bitfield", "1", "scope", "status", FALSE, EventFlags)
          [] id = "rating.ac.active_power" ->
                Definition("decimal", "W", "scope", "rating", FALSE, NoDomain)]

(* A fact has exactly one dimension, of the kind the catalog asks for.     *)
Dimension(kind) ==
    CASE kind = "scope"      -> {"total"}
      [] kind = "phase"      -> {"L1", "L2", "L3"}
      [] kind = "phase_pair" -> {"L1_L2", "L2_L3", "L3_L1"}
      [] kind = "input_id"   -> InputID
      [] kind = "sensor_id"  -> SensorID
ValidateDimensions(kind, dimensions) ==
    \E v \in Dimension(kind) : dimensions = {<<kind, v>>}

IsDecimal(d) == d.scale \in -18 .. 18
ValidateValue(definition, value) ==
    \/ definition.Kind = "decimal"  /\ IsDecimal(value)
    \/ definition.Kind = "enum"     /\ value \in definition.Domain
    \/ /\ definition.Kind = "bitfield"
       /\ {value[i] : i \in DOMAIN value} \subseteq definition.Domain
       /\ \A i, j \in DOMAIN value : value[i] = value[j] => i = j

ValidateCandidate(candidate) ==
    /\ candidate.ID \in FactID
    /\ candidate.Unit = CatalogV1[candidate.ID].Unit
    /\ candidate.Kind = CatalogV1[candidate.ID].Kind
    /\ ValidateDimensions(CatalogV1[candidate.ID].Dimension, candidate.Dimensions)
    /\ ValidateValue(CatalogV1[candidate.ID], candidate.Value)

NewFactKey(id, dimensions) == <<id, dimensions>>

ThreePhaseRequiredKeys ==
    {NewFactKey(id, {<<"scope", "total">>}) :
        id \in {"ac.power.active", "ac.frequency", "energy.active_export_total",
                "operating.state"}}
    \union {NewFactKey(id, {<<"phase", p>>}) :
        id \in {"ac.current", "ac.voltage.line_to_neutral"}, p \in {"L1", "L2", "L3"}}

-----------------------------------------------------------------------------
(* Ageing, on a clock of fixed width. *)

(* int64 arithmetic wraps. *)
Wrapped(n) == ((n + MaxInt + 1) % (2 * (MaxInt + 1))) - (MaxInt + 1)

FreshUntil(policy, receipt)  == Wrapped(receipt + FreshFor[policy])
RetainUntil(policy, receipt) == Wrapped(receipt + RetainFor[policy])

(* Slip: a receipt so late that its retention overflows is let through. *)
EvaluableWhenReceived(policy, receipt, evaluated) == 0 <= receipt /\ receipt <= evaluated
Evaluable(policy, receipt, evaluated) ==
    /\ 0 <= receipt /\ receipt <= evaluated
    /\ receipt <= MaxInt - RetainFor[policy]

Availability(policy, receipt, evaluated) ==
    IF evaluated >= RetainUntil(policy, receipt) THEN "UNAVAILABLE" ELSE "AVAILABLE"
Freshness(policy, receipt, evaluated) ==
    CASE evaluated >= RetainUntil(policy, receipt) -> "EXPIRED"
      [] /\ evaluated < RetainUntil(policy, receipt)
         /\ evaluated >= FreshUntil(policy, receipt) -> "STALE"
      [] OTHER -> "FRESH"

-----------------------------------------------------------------------------
(* Counters *)

ScaledCoefficient(d, scale) == d.coefficient * 10 ^ (d.scale - scale)
CommonScale(l, r)     == IF r.scale < l.scale THEN r.scale ELSE l.scale
CompareDecimal(l, r)  == ScaledCoefficient(l, CommonScale(l, r))
                         - ScaledCoefficient(r, CommonScale(l, r))
SubtractDecimal(l, r) == [coefficient |-> CompareDecimal(l, r), scale |-> CommonScale(l, r)]
AddDecimal(l, r) ==
    [coefficient |-> ScaledCoefficient(l, CommonScale(l, r))
                     + ScaledCoefficient(r, CommonScale(l, r)),
     scale |-> CommonScale(l, r)]

NoDecimal  == [coefficient |-> 0, scale |-> 99]
NoEvidence == [Kind |-> "", Modulus |-> NoDecimal, BoundaryVerified |-> FALSE, attested |-> FALSE]

Continuity(state)    == [State |-> state, Delta |-> NoDecimal]
Counted(state, delta) == [State |-> state, Delta |-> delta]
Rejected == Continuity("")

AfterReset(evidence) ==
    IF evidence.Modulus = NoDecimal /\ ~ evidence.BoundaryVerified /\ evidence.attested
    THEN Continuity("RESET") ELSE Rejected

VerifiedRollover(previous, current, evidence) ==
    /\ CompareDecimal(current, previous) < 0
    /\ evidence.Modulus # NoDecimal /\ evidence.BoundaryVerified /\ evidence.attested
    /\ IsDecimal(evidence.Modulus)
    /\ evidence.Modulus.coefficient > 0
    /\ CompareDecimal(previous, evidence.Modulus) < 0
AfterRollover(previous, current, evidence) ==
    IF VerifiedRollover(previous, current, evidence)
    THEN Counted("ROLLOVER", AddDecimal(SubtractDecimal(evidence.Modulus, previous), current))
    ELSE Rejected

(* How current follows previous, NoDecimal for none; Rejected is an error. *)
EvaluateCounter(previous, current, evidence) ==
    CASE previous = NoDecimal ->
            IF evidence = NoEvidence THEN Continuity("BASELINE") ELSE Rejected
      [] previous # NoDecimal /\ evidence = NoEvidence ->
            IF CompareDecimal(current, previous) >= 0
            THEN Counted("CONTIGUOUS", SubtractDecimal(current, previous))
            ELSE Continuity("DISCONTINUITY")
      [] previous # NoDecimal /\ evidence.Kind = "RESET"    -> AfterReset(evidence)
      [] previous # NoDecimal /\ evidence.Kind = "ROLLOVER" ->
            AfterRollover(previous, current, evidence)
      [] OTHER -> Rejected
=============================================================================
