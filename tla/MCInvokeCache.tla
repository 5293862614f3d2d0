--------------------------- MODULE MCInvokeCache ---------------------------
(* Instances of InvokeCache: two cached reads with different windows and a   *)
(* write; and the system planes of two devices, which have the same name.    *)
EXTENDS InvokeCacheProps, TLC

CONSTANTS boiler, regulator

Params(class) == [class |-> class]
Call(address, name, readOnly, class) ==
  [plane |-> "system", address |-> address,
   method |-> [name |-> name, readOnly |-> readOnly], params |-> Params(class)]

StateRead  == Call(boiler, "get_operational_data", TRUE, "")
ConfigRead == Call(boiler, "get_setpoint", TRUE, "")
Override   == Call(boiler, "get_setpoint", TRUE, "state")
Write      == Call(boiler, "set_register", FALSE, "")
Elsewhere  == Call(regulator, "get_operational_data", TRUE, "")

\* A read whose parameters make its class "state", and a write.
ReadAndWrite == {Override, Write}
TwoDevices   == {StateRead, Elsewhere}

MCConfigMethod == {"get_setpoint"}
NoOverride(r)  == ""

CallersAndChannels == Permutations(Caller) \cup Permutations(Channel)
=============================================================================
