---------------------------- MODULE EbusStandard ----------------------------
(***************************************************************************)
(* The catalogue of standard eBUS services: what the loader accepts        *)
(* (loader_yaml.go, identity.go), and the provider that resolves method    *)
(* identifiers and lets a caller through by safety class (provider.go,     *)
(* internal/safetypolicy).  A document is its parsed YAML: an absent key is *)
(* Absent where the code has a pointer or a nil slice, and "" otherwise.   *)
(* A command is [ID, SafetyClass, Identity], its Identity a function of    *)
(* the fourteen axes.  Digests and descriptions are left out.              *)
(***************************************************************************)
EXTENDS Values

CatalogNamespace == "ebus_standard"

EnumValues ==
    [TelegramClass |-> {"addressed", "broadcast", "initiator_initiator", "controller_broadcast"},
     Direction |-> {"request", "response"},
     RequestOrResponseRole |-> {"initiator", "responder", "originator"},
     BroadcastOrAddressed |-> {"addressed", "broadcast"},
     AnswerPolicy |-> {"answer_required", "no_answer"},
     LengthPrefixMode |-> {"none", "fixed", "byte_prefix", "typed_payload"}]

SafetyClasses ==
    {"read_only_safe", "read_only_bus_load", "mutating", "destructive", "broadcast",
     "memory_write"}

IdentityAxes ==
    DOMAIN EnumValues \union
    {"Namespace", "PB", "SB", "SelectorPath", "SelectorDecoder", "ServiceVariant",
     "TransportCapabilityRequirements", "Version"}

(* Only the selector's path may be empty.                                  *)
IsComplete(identity) ==
    /\ \A axis \in IdentityAxes \ {"PB", "SB", "TransportCapabilityRequirements",
                                   "SelectorPath"} : identity[axis] # ""
    /\ Absent \notin {identity.PB, identity.SB, identity.TransportCapabilityRequirements}

ValidNamespace(identity) == identity.Namespace = CatalogNamespace

ValidIdentityEnums(identity) ==
    \A axis \in DOMAIN EnumValues : identity[axis] \in EnumValues[axis]

ValidCommand(service, command) ==
    /\ IsComplete(command.Identity)
    /\ ValidNamespace(command.Identity)
    /\ command.Identity.PB = service.PB
    /\ command.SafetyClass \in SafetyClasses
    /\ ValidIdentityEnums(command.Identity)

ValidService(service) ==
    /\ service.PB # Absent
    /\ service.Commands # <<>>
    /\ \A command \in Range(service.Commands) : ValidCommand(service, command)

AllCommands(catalog) == FlattenSeq([i \in DOMAIN catalog |-> catalog[i].Commands])

HasDuplicateIdentityKeys(catalog) ==
    \E i, j \in DOMAIN AllCommands(catalog) :
        i # j /\ AllCommands(catalog)[i].Identity = AllCommands(catalog)[j].Identity

(* Slip: the selector's path tells entries apart though nothing selects.   *)
SelectorAxesAsWritten(identity) ==
    <<identity.Namespace, identity.PB, identity.SB, identity.SelectorDecoder,
      identity.SelectorPath, identity.Direction, identity.RequestOrResponseRole>>

SelectorAxes(identity) ==
    LET decoder == IF identity.SelectorDecoder = "" THEN "none" ELSE identity.SelectorDecoder
    IN  <<identity.Namespace, identity.PB, identity.SB, decoder,
          IF decoder = "none" THEN "" ELSE identity.SelectorPath,
          identity.Direction, identity.RequestOrResponseRole>>

HasAmbiguousLengthSelectors(catalog) ==
    \E c, d \in Range(AllCommands(catalog)) :
        /\ SelectorAxes(c.Identity) = SelectorAxes(d.Identity)
        /\ c.Identity.LengthPrefixMode # d.Identity.LengthPrefixMode

(* The catalogue a document loads as, or Absent.                           *)
LoadCatalog(document) ==
    IF /\ document # <<>>
       /\ \A service \in Range(document) : ValidService(service)
       /\ ~ HasDuplicateIdentityKeys(document)
       /\ ~ HasAmbiguousLengthSelectors(document)
    THEN document ELSE Absent

----------------------------------------------------------------------------
(* The provider.                                                           *)

(* The switch read from the environment, as trimmed and in lower case.     *)
EnvEnabled(text) == text \notin {"0", "false"}

NewProvider(catalog, enabled) ==
    LET commands == AllCommands(catalog)
    IN  IF \/ \E c \in Range(commands) : c.ID = ""
           \/ \E i, j \in DOMAIN commands : i # j /\ commands[i].ID = commands[j].ID
        THEN Absent
        ELSE [enabled   |-> enabled,
              methodIdx |-> [id \in {c.ID : c \in Range(commands)} |->
                                CHOOSE c \in Range(commands) : c.ID = id]]

(* The caller's context is carried and not looked at.                      *)
Allow(class) == class \in {"read_only_safe", "read_only_bus_load"}

InvokeMethod(provider, methodID) ==
    CASE ~ provider.enabled                          -> "disabled"
      [] methodID \notin DOMAIN provider.methodIdx   -> "unknown method"
      [] ~ Allow(provider.methodIdx[methodID].SafetyClass) -> "denied"
      [] OTHER                                       -> "passed"

Identification(provider) == IF provider.enabled THEN [Valid |-> FALSE] ELSE Absent

(* One field of the comparison with what a device said of itself; ""       *)
(* where a side says nothing.                                              *)
CompareField(existing, told, valid) ==
    [Preferred |-> IF existing = "" /\ valid THEN told ELSE existing,
     Sources |->
        (IF existing = "" THEN {}
         ELSE {[Source |-> "device_info", Value |-> existing, Valid |-> TRUE]})
        \union
        (IF told = "" THEN {}
         ELSE {[Source |-> "ebus_standard.identification", Value |-> told, Valid |-> valid]}),
     Agreement |-> "" \in {existing, told} \/ existing = told]

CompareIdentity(existing, told, valid) ==
    [field \in DOMAIN existing |-> CompareField(existing[field], told[field], valid)]
=============================================================================
