----------------------------- MODULE MCRegistry -----------------------------
(* Instances of Registry: a canonical initiator/target pair and a second   *)
(* target, and observations chosen so that joins, splits and conflicts of  *)
(* identity all occur.                                                     *)
EXTENDS RegistryProps, TLC

CONSTANTS initiator, target, other

MCAddress     == {initiator, target, other}
MCClassOf     == initiator :> "Master" @@ target :> "Slave" @@ other :> "Slave"
MCCompanionOf == initiator :> target

MCRaw  == {"", "V", "v", "D1", "D2", "s1", "S1", "S2", "0", "M1", "M2", "W1", "W2"}
MCNorm == [x \in MCRaw |-> CASE x = "v" -> "V" [] x = "s1" -> "S1" [] OTHER -> x]
MCInvalidSerial == {"0"}

Info(m, d, s, mac, w) ==
    [f \in Field |-> CASE f = "Manufacturer" -> m [] f = "DeviceID" -> d
                       [] f = "SerialNumber" -> s [] f = "MacAddress" -> mac
                       [] OTHER -> w]

Full1      == Info("V", "D1", "S1", "", "W1")
Full1Mac1  == Info("v", "D1", "s1", "M1", "W1")
Full1Mac2  == Info("V", "D1", "S1", "M2", "W1")
Full2      == Info("V", "D1", "S2", "", "W1")
OtherModel == Info("V", "D2", "", "", "W2")
Model      == Info("V", "D1", "", "", "W1")
Sparse     == NoInfo
Sentinel   == Info("V", "D1", "0", "", "W1")

IdentityObservations == {Full1, Full1Mac1, Full1Mac2, Full2, Model}
FaceObservations     == {Full1, Sparse}
AliasObservations    == {Full1, Full2, OtherModel, Sparse}

MCMatch(p, info) == info["DeviceID"] = "D1"

(* The registry up to what no operation reads: the values of the generation *)
(* counters, the names of entries (a live one is known by its primary       *)
(* address) and the contents of released ones.  Two states with one view    *)
(* have the same continuations.  The comparison of the state with itself    *)
(* has TLC evaluate the functions it holds before it stores them.           *)
Named(e) == IF e \in registry.order THEN registry.heap[e].primaryAddress ELSE e
Timeless ==
    IF registry # registry THEN {} ELSE
    [registry EXCEPT
        !.observationGeneration = 0,
        !.proofGeneration = 0,
        !.entries = [a \in Address |-> Named(@[a])],
        !.addressTable = [a \in Address |->
            IF @[a] = NoSlot THEN NoSlot ELSE [@[a] EXCEPT !.Device = Named(@)]],
        !.identity = [k \in IdentityKey |-> Named(@[k])],
        !.qualifiedWitnesses = [a \in Address |-> @[a].authorityKey],
        !.order = {Named(e) : e \in @},
        !.heap = {@[e] : e \in registry.order}]
=============================================================================
