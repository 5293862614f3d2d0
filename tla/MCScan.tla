------------------------------- MODULE MCScan -------------------------------
(* An initiator/target pair and a second target, real bus addresses; the   *)
(* devices answer for themselves or for each other, and change.            *)
EXTENDS ScanProps, TLC

initiator == 3
target    == 8
other     == 21

MCAddress     == {initiator, target, other}
MCClassOf     == initiator :> "Master" @@ target :> "Slave" @@ other :> "Slave"
MCCompanionOf == initiator :> target

MCRaw  == {"", "Vaillant", "D1", "S1", "S2", "W1"}
MCNorm == [x \in MCRaw |-> x]

Info(m, d, s) ==
    [f \in Field |-> CASE f = "Manufacturer" -> m [] f = "DeviceID" -> d
                       [] f = "SerialNumber" -> s [] f = "MacAddress" -> ""
                       [] OTHER -> "W1"]
Model  == Info("Vaillant", "D1", "")
Full1  == Info("Vaillant", "D1", "S1")
Full2  == Info("Vaillant", "D1", "S2")

MCObservations == {Model, Full1, Full2}
MCMatch(p, info) == info["DeviceID"] = "D1"

Answer(from, what) == [Source |-> from, directed |-> TRUE, payload |-> what]
MCAnswers == [t \in MCAddress |->
    {Answer(target, Model), Answer(t, Model), Answer(t, ShortPayload)}]
MCSerialTexts == [a \in MCAddress |-> {"S1", "S2"}]
MCTargetLists == {<<>>, <<other, target, other>>}
=============================================================================
