------------------------------ MODULE FrameViews ------------------------------
(***************************************************************************)
(* The frame views together: every view of a JSON document by its name, and *)
(* what the properties compare them by.                                    *)
(***************************************************************************)
EXTENDS InterpretedViews, EvaluatedViews, FieldViews, BodyViews

EvaluateView(view, document) ==
    CASE view = "B505Sentinels"      -> B505Sentinels(document)
      [] view = "B506Parameter"      -> B506Parameter(document)
      [] view = "B507Quantity"       -> B507Quantity(document)
      [] view = "B50ERowSpans"       -> B50ERowSpans(document)
      [] view = "B50FFields"         -> B50FFields(document)
      [] view = "B510Cache"          -> B510Cache(document)
      [] view = "B511Failure"        -> B511Failure(document)
      [] view = "B512Feedback"       -> B512Feedback(document)
      [] view = "B513Information"    -> B513Information(document)
      [] view = "B514Menu"           -> B514Menu(document)
      [] view = "B519Opaque"         -> B519Opaque(document)
      [] view = "B520Actuator"       -> B520Actuator(document)
      [] view = "B522Demand"         -> B522Demand(document)
      [] view = "B523Sensors"        -> B523Sensors(document)
      [] view = "B531Capability"     -> B531Capability(document)
      [] view = "B531Limit"          -> B531Limit(document)
      [] view = "B516Cycle"          -> B516Cycle(document)
      [] view = "B555Refresh"        -> B555Refresh(document)
      [] view = "B555Gate"           -> B555Gate(document)
      [] view = "B512Fan"            -> B512Fan(document)
      [] view = "B512HeatPump"       -> B512HeatPump(document)
      [] view = "B512Emergency"      -> B512Emergency(document)
      [] view = "B509Diagnostic"     -> B509Diagnostic(document)
      [] view = "B51AMirror"         -> B51AMirror(document)
      [] view = "B523Actuator"       -> B523Actuator(document)
      [] view = "B516EnergyType"     -> B516EnergyType(document)
      [] view = "B525Quality"        -> B525Quality(document)
      [] view = "B504Candidate"      -> B504Candidate(document)
      [] view = "B505Override"       -> B505Override(document)
      [] view = "B505Conditional"    -> B505Conditional(document)
      [] view = "B503Control"        -> B503Control(document)
      [] view = "B515Period"         -> B515Period(document)
      [] view = "B517Guard"          -> B517Guard(document)
      [] view = "B521Module"         -> B521Module(document)
      [] view = "B51AHandshake"      -> B51AHandshake(document)
      [] view = "B51ADiagnostic"     -> B51ADiagnostic(document)
      [] view = "B512ValvePump"      -> B512ValvePump(document)
      [] view = "B512PowerStepper"   -> B512PowerStepper(document)
      [] view = "Standard07"         -> Standard07(document)
      [] view = "StandardFF"         -> StandardFF(document)

BodyOf(kind, key, bytes) ==
    CASE kind = "B512Dhw"    -> B512Dhw(key, bytes)
      [] kind = "Standard03" -> Standard03(key, bytes)
      [] kind = "Standard05" -> Standard05(key, bytes)
      [] kind = "body"       -> ViewBody(key, key, bytes)
      [] kind = "address"    -> ViewAddress(key, key, bytes)
      [] kind = "count"      -> ViewCount(key, key, bytes[1])

----------------------------------------------------------------------------
(* A document with a member changed, left out where it is Absent.          *)
Without(f, name) == Restrict(f, DOMAIN f \ {name})
With(object, name, value) ==
    IF value = Absent THEN Object(Without(object.object, name))
    ELSE Object((name :> value) @@ object.object)
WithPart(document, part, value) == [document EXCEPT !.root = With(@, part, value)]
WithMember(document, part, name, value) ==
    WithPart(document, part, With(document.root.object[part], name, value))
WithBytes(document, field, bytes) ==
    WithMember(document, "fields", field,
               IF bytes = Absent THEN Absent ELSE Array([i \in DOMAIN bytes |-> Plain(bytes[i])]))

(* What is claimed of the bytes of a frame, and by what members.           *)
Claims(answer) ==
    {name \in DOMAIN answer.fields :
        /\ answer.fields[name].state \in {"Hypothesis", "complete", "decoded"}
        /\ "raw" \in DOMAIN answer.fields[name] /\ answer.fields[name].raw # <<>>}
SaysAll(answer) == answer.state \in {"Hypothesis", "complete"}
Quantities == {"number", "flags", "reserved", "low_six", "unmodelled"}
Quantity(result) == Restrict(result, DOMAIN result \cap Quantities)
IsReading(result) == {"number", "flags"} \cap DOMAIN result # {} /\ "label" \notin DOMAIN result
=============================================================================
