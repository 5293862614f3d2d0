---------------------------- MODULE MCPvRegistry ----------------------------
(* One inverter, read by an energy meter that wraps and by a second source *)
(* with a register of its own, and surveyed for everything else.           *)
EXTENDS PvPolling, TLC

MCFreshFor  == [p \in Policy |-> 1]
MCRetainFor == [p \in Policy |-> 2]
MCFirstReading == "m1" :> 3 @@ "m2" :> 0
MCChannel == {<<"m1", "o1">>, <<"m1", "o2">>, <<"m2", "o2">>}
MCOutput == {EnergyKey}
MCMaxProduced  == "m1" :> 2 @@ "m2" :> 0

Input(id, dimensions, value, receipt) ==
    [ID |-> id, Dimensions |-> dimensions, Kind |-> CatalogV1[id].Kind,
     Unit |-> CatalogV1[id].Unit, Value |-> value, quality |-> "GOOD",
     receipt |-> receipt, policy |-> CatalogV1[id].Policy, counter |-> NoEvidence]
Value(id) == IF id = "operating.state" THEN "OPERATING" ELSE [coefficient |-> 0, scale |-> 0]
InputFor(k, receipt) == Input(k[1], k[2], Value(k[1]), receipt)

Mapped(o, key)   == [sourceRef |-> o, outputRef |-> key, outcome |-> "MAPPED", fact |-> key]
Withheld(o, out) == [sourceRef |-> o, outputRef |-> out, outcome |-> "WITHHELD", fact |-> <<>>]
Of(m, o, t, facts, report, satisfied) ==
    [asset |-> "inverter", evaluated |-> t, sourceTime |-> "VALID",
     source |-> [identity |-> m, observation |-> o], facts |-> facts, satisfied |-> satisfied,
     requested |-> [i \in DOMAIN report |-> ProjectionKey(report[i])], report |-> report]

(* All that three-phase telemetry asks for but the energy, and an output   *)
(* that is withheld.                                                       *)
Total(id)    == NewFactKey(id, {<<"scope", "total">>})
Phase(id, p) == NewFactKey(id, {<<"phase", p>>})
Telemetry ==
    <<Total("ac.power.active"), Total("ac.frequency"), Total("operating.state"),
      Phase("ac.current", "L1"), Phase("ac.current", "L2"), Phase("ac.current", "L3"),
      Phase("ac.voltage.line_to_neutral", "L1"), Phase("ac.voltage.line_to_neutral", "L2"),
      Phase("ac.voltage.line_to_neutral", "L3")>>
Survey(m, o, t, satisfied) ==
    Of(m, o, t, [i \in DOMAIN Telemetry |-> InputFor(Telemetry[i], t)],
       Append([i \in DOMAIN Telemetry |-> Mapped(o, Telemetry[i])], Withheld(o, <<"w">>)), satisfied)

(* One temperature, at a time that may be past.                            *)
TemperatureKey(s) == NewFactKey("temperature", {<<"sensor_id", s>>})
Temperature(m, o, s, receipt, t) ==
    Of(m, o, t, <<InputFor(TemperatureKey(s), receipt)>>, <<Mapped(o, TemperatureKey(s))>>, FALSE)

(* Updates the registry refuses: an unknown source, a fact without its     *)
(* projection, a wrong unit, evidence for what is no counter.              *)
Refused(t) ==
    LET u == Temperature("m2", "o2", "s1", t, t)
    IN  {[u EXCEPT !.source.identity = "nobody"],
         [u EXCEPT !.report = <<Withheld("o2", TemperatureKey("s1"))>>],
         [u EXCEPT !.facts[1].Unit = "W"],
         [u EXCEPT !.facts[1].counter = [NoEvidence EXCEPT !.Kind = "RESET"]]}

(* They arrive at some times only, which keeps the instance small; times   *)
(* after MaxInt - 2 are too late for a receipt.                            *)
MCOthers(t) ==
    CASE t = 0 -> {Survey("m2", "o2", t, FALSE)}
      [] t = 1 -> Refused(t) \union {Temperature("m1", "o1", "s1", 0, t)}
      [] t = 2 -> {Survey("m2", "o2", t, s) : s \in BOOLEAN}
                  \union {Temperature("m1", "o1", "s1", t, t)}
      [] OTHER -> {Temperature("m1", "o1", "s1", t, t)}
=============================================================================
