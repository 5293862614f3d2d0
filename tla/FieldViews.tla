------------------------------ MODULE FieldViews ------------------------------
(***************************************************************************)
(* The Evaluate views of single fields, of Vaillant's frames and of the     *)
(* eBUS standard's: what a frame's fields, and the arguments that choose    *)
(* among readings, are taken to mean under one hypothesis each.  A view     *)
(* answers Absent for a document it refuses.                               *)
(***************************************************************************)
EXTENDS Documents

FiniteBytes     == Also(OpenBytes, {"infinite"})
FiniteRationals == Also(Rationals, {"infinite"})

NamedByText(document) ==
    \A name \in {"family", "variant"} :
       Member(Context(document), name) = Absent \/ Is(Member(Context(document), name), {"text"})
NothingReserved(document) ==
    DOMAIN document.root.object \cap {"state", "results", "physical", "qualified"} = {}
ArgumentNames(document) ==
    IF Arguments(document) = Absent THEN {} ELSE DOMAIN Arguments(document).object

(* What is said of the fields a view knows, beside those it does not.      *)
Beside(document, fields) == fields @@ Unread(document)

B504CandidateRead(document) ==
    /\ Readable(document, FiniteBytes) /\ NamedByText(document) /\ ArgumentsAreAnObject(document)
    /\ Argument(document, "divisor") = Absent \/ IsNumber(Argument(document, "divisor"), {"int"}, 256)
    /\ Argument(document, "role") = Absent \/ Is(Argument(document, "role"), {"text"})

B504Candidate(document) ==
    LET view       == TextOf(document, "view")
        operations == [demand |-> 32, protection |-> 33, adjustment |-> 38]
                      @@ "corrected-outside" :> 22 @@ "circuit-role" :> 13
        allowed == CASE view = "corrected-outside" -> {"divisor"} [] view = "circuit-role" -> {"role"} [] OTHER -> {}
        divisor == Argument(document, "divisor")
        role    == Argument(document, "role")
        told    == /\ ArgumentNames(document) \subseteq allowed
                   /\ view = "corrected-outside" => divisor \in {Plain(16), Plain(256)}
                   /\ view = "circuit-role" => role # Absent
        widths  == CASE view = "corrected-outside" -> [temperature |-> 2]
                     [] view = "demand"            -> [setpoint |-> 1]
                     [] view = "adjustment"        -> [adjustment |-> 1, room |-> 1]
                     [] view = "circuit-role"      ->
                           [name \in {"temperature"} \union ({"dhw_request"} \cap FieldNames(document)) |-> 1]
                     [] OTHER                      -> [temperature |-> 1]
        sensors == [burner |-> "common-sensor", mixer |-> "flow", dhw |-> "tank"]
        Said(raw, meaning) == Saying("complete", raw) @@ meaning
        Meaning(name, raw) ==
            CASE view = "corrected-outside" -> Said(raw, [number |-> Ratio(Signed16(Word(raw)), divisor.int)])
              [] view = "demand"     ->
                    Said(raw, [label |-> IF raw[1] = 0 THEN "no-demand" ELSE "offset-included-candidate"])
              [] view = "protection" ->
                    Said(raw, [label |-> IF raw[1] = 0 THEN "off" ELSE "protection-active"])
              [] name = "adjustment" /\ raw[1] = 1 -> Said(raw, [label |-> "change-permitted"])
              [] name = "room" /\ raw[1] = 255     -> Said(raw, [label |-> "unavailable-candidate"])
              [] view = "adjustment"               -> Said(raw, <<>>)
              [] name = "temperature" /\ role.text \in DOMAIN sensors ->
                    Said(raw, [label |-> sensors[role.text], number |-> raw[1]])
              [] name = "dhw_request" /\ role.text = "dhw" -> Said(raw, [label |-> "dhw"])
              [] OTHER -> Saying("Unknown", raw)
        fields  == Exactly(document, widths, Meaning)
    IN  CASE ~ B504CandidateRead(document) -> Absent
          [] ~ Frame(document, 4, Range(operations), {"positive"}, DOMAIN operations)
             \/ Selector(document, "operation") # operations[view] -> Answer("Unknown", Unread(document))
          [] ~ told -> Absent
          [] OTHER -> Answer(Overall(fields), Beside(document, fields))

B505OverrideRead(document) ==
    /\ Readable(document, Also(FiniteBytes, {"depth"})) /\ NamedByText(document)
    /\ ArgumentsAreAnObject(document) /\ ArgumentNames(document) \subseteq {"display_percent"}
    /\ NumbersBelow(document, {"display_percent"}, 256)
    /\ NothingReserved(document)
    /\ DOMAIN document.root.object \cap {"grade", "candidate_validity_seconds"} = {}

B505Override(document) ==
    LET operation == Selector(document, "operation")
        override  == Frame(document, 5, {77, 97}, {"request"}, {"override"})
        percent   == Argument(document, "display_percent")
        names     == CASE ~ override -> {"priority"}
                       [] operation = 77 -> {"sensor_status", "remote_control"} [] OTHER -> {}
        status    == 85 :> "short-circuit" @@ 170 :> "open"
        Meaning(name, raw) ==
            Saying("complete", raw) @@
            (CASE name = "priority" -> [number |-> raw[1]]
               [] name = "sensor_status" /\ raw[1] \in DOMAIN status -> [label |-> status[raw[1]]]
               [] name = "remote_control" /\ raw[1] = 1 -> [label |-> "enabled"]
               [] OTHER -> [label |-> "unmapped"])
        fields == Exactly(document, Widths(names, 1), Meaning)
        shown  == IF operation = 77 /\ percent # Absent
                  THEN [display_percent |-> [state |-> "complete", number |-> percent.int,
                                             candidate |-> percent.int \in {0, 25, 50, 75, 100}]]
                  ELSE <<>>
    IN  CASE ~ B505OverrideRead(document) -> Absent
          [] ~ override /\ ~ Frame(document, 5, {78}, {"request"}, {"priority"}) ->
                Answer("Unknown", Unread(document))
          [] operation # 77 /\ ArgumentNames(document) # {} -> Absent
          [] OTHER -> Answer(Overall(fields), Beside(document, fields @@ shown))
                         @@ [seconds |-> IF override THEN 900 ELSE Absent]

B505ConditionalRead(document) ==
    /\ Readable(document, Also(FiniteRationals, {"depth"})) /\ NamedByText(document)
    /\ ArgumentsAreAnObject(document) /\ NothingReserved(document)

B505Conditional(document) ==
    LET view  == TextOf(document, "view")
        Asked(name) == Argument(document, name)
        operations == [unchanged |-> {90, 61}] @@ "dhw-enable" :> {49} @@ "parallel-charge" :> {24, 39}
                      @@ "flow-excess" :> {23} @@ "programmed-start" :> {9}
        told == CASE view = "unchanged"       ->
                        /\ Is(Asked("replacement"), {"flag"})
                        /\ \A n \in {"previous", "requested"} :
                              Asked(n) # Absent /\ ~ Is(Asked(n), {"object", "array"})
                  [] view = "flow-excess"     ->
                        \A n \in {"demand", "excess"} : Is(Asked(n), {"int", "float", "huge"})
                  [] view = "parallel-charge" ->
                        /\ Asked("role") \in {Text("mixer"), Text("heating"), Text("dhw")}
                        /\ Is(Asked("parallel"), {"flag"})
                  [] view = "programmed-start" -> IsNumber(Asked("program_mode"), {"int", "float"}, 255)
                  [] OTHER -> TRUE
        name == CASE view = "dhw-enable" -> "enabled" [] view = "parallel-charge" -> "disable"
                  [] view = "programmed-start" -> "start" [] OTHER -> view
        (* The exact sum of two numbers is left as its terms.              *)
        argued ==
            CASE view = "flow-excess" -> [sum |-> <<Asked("demand"), Asked("excess")>>]
              [] Asked("replacement").flag -> [value |-> Asked("previous"), label |-> "unchanged"]
              [] OTHER -> [value |-> Asked("requested"), label |-> "numeric-candidate"]
        kept == IF name \in FieldNames(document) THEN [raw |-> Bytes(document, name)] ELSE <<>>
        Suppression(byte) ==
            CASE Asked("role") = Text("dhw") -> "not-applicable"
              [] byte = 0 -> "suppression-not-requested"
              [] byte # 1 -> "unmapped"
              [] Asked("parallel") = Flag(FALSE) -> "heating-suppressed"
              [] OTHER -> IF Asked("role") = Text("mixer") THEN "mixer-parallel-exception" ELSE "exemption-unknown"
        Label(raw) ==
            CASE view = "programmed-start" -> IF NumberIn(Asked("program_mode")) = 0 THEN "applicable" ELSE "ignored"
              [] view = "dhw-enable" ->
                    IF raw[1] < 2 THEN <<"frost-only-eligible", "ordinary-DHW-eligible">>[raw[1] + 1] ELSE "unmapped"
              [] OTHER -> Suppression(raw[1])
        fields == IF name = view THEN name :> ([state |-> "complete"] @@ argued @@ kept)
                  ELSE Exactly(document, name :> (IF view = "programmed-start" THEN Absent ELSE 1),
                               LAMBDA n, raw : Saying("complete", raw) @@ [label |-> Label(raw)])
    IN  CASE ~ B505ConditionalRead(document) -> Absent
          [] ~ Frame(document, 5, UNION Range(operations), {"request"}, DOMAIN operations)
             \/ Selector(document, "operation") \notin operations[view] -> Answer("Unknown", Unread(document))
          [] ~ told -> Absent
          [] OTHER -> Answer(Overall(fields), Beside(document, fields))

B503ControlRead(document) == Readable(document, OpenBytes) /\ NothingReserved(document) /\ NoArguments(document)

B503Control(document) ==
    LET view     == TextOf(document, "view")
        selected ==
            /\ {"primary", "secondary", "operation"} \subseteq DOMAIN Context(document).object
            /\ \/ Frame(document, 3, {3, 6}, {"positive"}, {"reset-acceptance"})
               \/ Frame(document, 3, {7}, {"positive"}, {"current-errors"})
               \/ Frame(document, 3, {4}, {"request"}, {"category-common"})
               \/ Frame(document, 3, {3, 6}, {"request"}, {"category-reset"})
        widths   == CASE view = "reset-acceptance" -> [acceptance |-> 1]
                      [] view = "current-errors" ->
                            [flags |-> 1, feedback |-> 1]
                            @@ Widths({"error0", "error1", "error2", "error3", "error4"}, 2)
                      [] OTHER -> [category |-> 1]
        category == IF view = "category-common" THEN 2 :> "predictive-maintenance"
                    ELSE 1 :> "error" @@ 3 :> "status"
        Meaning(name, raw) ==
            LET n == NumberOf(raw)
            IN  CASE name = "acceptance" /\ n <= 1 -> Claim(raw, [number |-> n, value |-> n = 1])
                  [] name = "feedback" -> Claim(raw, [number |-> n, label |-> IF n = 1 THEN "accepted" ELSE "rejected"])
                  [] name = "flags"    ->
                        Claim(raw, [number |-> n, reserved |-> Above(n, 5),
                                    flags |-> Flags(n, <<"bit0", "bit1", "bit2", "bit3", "bit4">>)])
                  [] name = "category" /\ n \in DOMAIN category -> Claim(raw, [number |-> n, label |-> category[n]])
                  [] name \in {"acceptance", "category"} -> Saying("Unknown", raw) @@ [number |-> n]
                  [] OTHER -> Claim(raw, [number |-> n])
        fields   == Exactly(document, widths, Meaning)
    IN  CASE ~ B503ControlRead(document) -> Absent
          [] ~ selected -> NothingSaid
          [] OTHER -> Answer(Overall(fields), fields)

B515PeriodRead(document) ==
    LET pairs == Argument(document, "pairs")
        Endpoints(pair) == IsByteArray(pair, {"int"}) /\ Len(pair.array) = 2
    IN  /\ Readable(document, FiniteBytes) /\ ArgumentsAreAnObject(document)
        /\ NumbersBelow(document, {"minutes"}, 1441)
        /\ pairs # Absent => /\ Is(pairs, {"array"}) /\ Len(pairs.array) = 3
                             /\ \A pair \in Range(pairs.array) : Endpoints(pair)

(* Periods count in tens of minutes, up to a day.                          *)
B515Period(document) ==
    LET unoperated == Member(Context(document), "operation") = Absent
        periods   == Frame(document, 21, {0}, {"request", "positive"}, {"periods"})
        minutes   == Argument(document, "minutes")
        pairs     == Argument(document, "pairs")
        Period(raw) == IF raw[1] > 144 THEN Saying("Unknown", raw)
                       ELSE Claim(raw, [number |-> raw[1] * 10, hour |-> raw[1] \div 6, minute |-> (raw[1] % 6) * 10])
        read      == Exactly(document, Widths({"period0", "period1", "period2"}, 1), LAMBDA name, raw : Period(raw))
        converted == CASE minutes = Absent -> <<>>
                       [] minutes.int % 10 = 0 ->
                             [minutes |-> [state |-> "Hypothesis", number |-> minutes.int \div 10]]
                       [] OTHER -> [minutes |-> [state |-> "Unknown"]]
        ends      == [i \in 1..3 |-> [j \in 1..2 |-> pairs.array[i].array[j].int]]
        mapped    == \A i \in 1..3, j \in 1..2 : ends[i][j] <= 144
        intervals ==
            [pairs |-> [state |-> "Hypothesis", alternatives |->
                [i \in 1..3 |-> [start |-> ends[i][1], end |-> ends[i][2],
                    label |-> IF ends[i][1] = ends[i][2] THEN "disabled" ELSE "enabled-candidate"]]],
             start_order |-> IF ~ mapped THEN [state |-> "Unknown"]
                ELSE [state |-> "Hypothesis", value |-> ends[1][1] < ends[2][1] /\ ends[2][1] < ends[3][1]]]
    IN  CASE ~ B515PeriodRead(document) -> Absent
          [] ~ unoperated \/ ~ (periods \/ Frame(document, 21, {0}, {"request"}, {"intervals"})) -> NothingSaid
          [] periods -> Answer(Overall(read), Beside(document, converted @@ read))
          [] OTHER -> IF pairs = Absent THEN Absent ELSE Answer("complete", Beside(document, intervals))

B517GuardRead(document) ==
    /\ Readable(document, Also(FiniteRationals, {"encoding", "surrogate"}))
    /\ {"primary", "secondary", "direction", "view"} \subseteq DOMAIN Context(document).object
    /\ ArgumentsAreAnObject(document)
    /\ \A name \in {"ready_state", "final_option", "received_length"} :
          Argument(document, name) # Absent =>
             IsNumber(Argument(document, name), {"int", "float"}, IF name = "received_length" THEN 65535 ELSE 255)

(* An adaptation may be answered only when every condition is known to hold.*)
B517Guard(document) ==
    LET names    == {"ready_state", "final_option", "received_length"}
        Number(name) == NumberIn(Argument(document, name))
        request  == BytesOrNone(document, "request")
        input    == BytesOrNone(document, "input")
        Begins(bytes, first, second) == Piece(bytes, 0, 2) = <<first, second>>
        whole    == Len(input) >= 5
        (* Of each condition: whether it can be told, and whether it holds.  *)
        conditions ==
            [ready_state        |-> <<TRUE, Number("ready_state") = 3>>,
             final_option       |-> <<TRUE, Number("final_option") # 0>>,
             initialized_input  |-> <<whole, TRUE>>,
             payload_length     |-> <<whole, whole /\ input[5] + 6 = Number("received_length")>>,
             initialized_length |-> <<"input" \in FieldNames(document), Number("received_length") = Len(input)>>,
             request_identity   |-> <<Len(request) >= 2, Begins(request, 181, 23)>>,
             input_identity     |-> <<Len(input) >= 2, Begins(input, 181, 24)>>]
        Holds(name) == conditions[name][1] /\ conditions[name][2]
        partial  == Len(request) < 2 \/ ~ whole
        Said(told, holds) == [state |-> IF told THEN "complete" ELSE "incomplete", flags |-> [value |-> holds]]
    IN  CASE ~ B517GuardRead(document) -> Absent
          [] ~ Frame(document, 23, {0}, {"local"}, {"adaptation-guard"})
             \/ Member(Context(document), "operation") # Absent -> NothingSaid
          [] \E name \in names : Argument(document, name) = Absent -> Absent
          [] OTHER -> Answer(IF partial THEN "partial" ELSE "complete",
                [name \in DOMAIN conditions |-> Said(conditions[name][1], Holds(name))]
                @@ [eligible |-> Said(~ partial, \A name \in DOMAIN conditions : Holds(name))])

B521ModuleRead(document) ==
    Readable(document, Also(NullableBytes, {"infinite"})) /\ ArgumentsAreAnObject(document)

B521Module(document) ==
    LET positive == TextOf(document, "direction") = "positive"
        selected == /\ Frame(document, 33, {0}, {"request", "positive"}, {"module-fields"})
                    /\ Member(Context(document), "operation") = Absent
        warm     == {"temperature0", "temperature1"}
        widths   == IF positive THEN Widths({"status0", "status1", "brine_percent", "fan_percent", "fan_speed"}, 1)
                                     @@ Widths(warm, 2)
                    ELSE Widths({"flags", "appliance_bits", "noise_percent", "frost_temperature"}, 1)
        bits     == [flags |-> <<"bit0", "bit1", "bit2", "bit3", "bit4", "bit5">>,
                     appliance_bits |-> <<"bit0", "bit1", "bit2", "bit3", "bit4">>,
                     status0 |-> <<"ready", "deicing-request", "deicing-active", "deicing-timeout-error",
                                   "deicing-with-heater", "unnamed", "unnamed", "cleaning-request">>,
                     status1 |-> <<"heater", "relay-output", "fan-running", "brine-flow-reverse", "fan-error",
                                   "safety-limiter-error", "hot-summer", "bad-weather">>]
        Named(name)    == {i \in DOMAIN bits[name] : bits[name][i] # "unnamed"}
        Left(name, n)  == n - FoldSet(LAMBDA i, sum : sum + (IF BitOf(n, i - 1) THEN 2 ^ (i - 1) ELSE 0), 0, Named(name))
        Meaning(name, raw) ==
            Saying("complete", raw) @@
            (CASE name \in DOMAIN bits  ->
                    [flags |-> [label \in {bits[name][i] : i \in Named(name)} |-> Flags(raw[1], bits[name])[label]],
                     reserved |-> Left(name, raw[1])]
               [] name \in warm         -> [number |-> Ratio(Signed16(Word(raw)), 16)]
               [] name = "fan_speed"    -> [number |-> 10 * raw[1]]
               [] OTHER                 -> [number |-> raw[1]])
        fields   == Exactly(document, widths, Meaning)
    IN  CASE ~ B521ModuleRead(document) -> Absent
          [] ~ selected -> Answer("Unknown", Unread(document))
          [] ArgumentNames(document) # {} -> Absent
          [] OTHER -> Answer(Overall(fields), Beside(document, fields))

B51AHandshakeRead(document) == Readable(document, FiniteBytes) /\ NoArguments(document)

(* A sequence number ties an answer to its request; where nothing changed,  *)
(* the positions given with the answer say nothing.                        *)
B51AHandshake(document) ==
    LET view      == TextOf(document, "view")
        positive  == TextOf(document, "direction") = "positive"
        reset     == Member(Context(document), "operation") = Absent
        handshake == ~ reset /\ Selector(document, "operation") = 1
        selected  ==
            \/ reset /\ Frame(document, 26, {0}, {"request", "positive"}, {"reset"})
            \/ handshake /\ Frame(document, 26, {1}, {"request", "positive"}, {"handshake"})
            \/ (reset \/ handshake) /\ Frame(document, 26, {0, 1}, {"pair"}, {"sequence-pair"})
        widths    == CASE view = "sequence-pair" -> Widths({"request_sequence", "response_sequence"}, 1)
                       [] view = "reset" -> [sequence |-> 1] @@ (IF positive THEN [ack |-> 1] ELSE <<>>)
                       [] OTHER -> [sequence |-> 1, flags |-> 1]
                                   @@ (IF positive THEN [family_code |-> 1] ELSE [crc |-> 2])
        bits      == IF positive THEN <<"valid", "invalid", "blocked", "change", "denied", "invalid-range",
                                        "not-user-adjustable">>
                     ELSE <<"power-on/start", "change", "CRC-support">>
        other     == BytesOrNone(document, "response_sequence")
        Meaning(name, raw) ==
            Saying("complete", raw) @@
            (CASE name = "ack"    -> [flags |-> [denied |-> BitOf(raw[1], 0)], unmodelled |-> Above(raw[1], 1)]
               [] name = "flags"  -> [flags |-> Flags(raw[1], bits), reserved |-> Above(raw[1], Len(bits))]
               [] name = "request_sequence" /\ Len(other) = 1 -> [correlated |-> raw = other]
               [] view = "sequence-pair" -> <<>>
               [] OTHER           -> [number |-> NumberOf(raw)])
        flags     == BytesOrNone(document, "flags")
        unchanged == positive /\ Len(flags) = 1 /\ ~ BitOf(flags[1], 3)
        Opaque(name) ==
            LET raw == Bytes(document, name)
            IN  (IF raw = Absent THEN <<>> ELSE [raw |-> raw])
                @@ [state |-> IF unchanged THEN "absent-unless-change"
                              ELSE IF raw = Absent THEN "Unknown" ELSE "complete"]
        places    == IF view = "handshake" THEN [name \in {"dsn", "start", "offset"} |-> Opaque(name)] ELSE <<>>
        fields    == Exactly(document, widths, Meaning)
    IN  CASE ~ B51AHandshakeRead(document) -> Absent
          [] ~ selected -> Answer("Unknown", Unread(document))
          [] OTHER -> Answer(Overall(fields), Beside(document, fields @@ places))

B51ADiagnosticRead(document) ==
    LET width == Argument(document, "value_width")
    IN  /\ Readable(document, FiniteRationals) /\ ArgumentsAreAnObject(document)
        /\ width = Absent \/ (IsNumber(width, {"int", "float"}, 2) /\ NumberIn(width) # 0)

(* A disabled point has flags and nothing else that could be read.         *)
B51ADiagnostic(document) ==
    LET view     == TextOf(document, "view")
        range    == Frame(document, 26, {5}, {"positive"}, {"range", "enum", "four-byte"})
        selected == range \/ Frame(document, 26, {4}, {"positive"}, {"enable-bits"})
                          \/ Frame(document, 26, {6}, {"positive"}, {"save"})
        width    == Argument(document, "value_width")
        widths   ==
            CASE view = "enable-bits" -> [enable |-> 13]
              [] view = "range"       -> [flags |-> 1, display_type |-> 1, value |-> 2, minimum |-> 2,
                                          maximum |-> 2, step |-> 1]
              [] view = "enum"        -> [flags |-> 1, alternatives |-> 6]
              [] view = "four-byte"   -> [flags |-> 1, value |-> 4, reserved |-> 3]
              [] OTHER                -> [status |-> 1, mirror |-> 2, symbol |-> 2, value |-> NumberIn(width)]
        flags    == BytesOrNone(document, "flags")
        known    == Len(flags) = 1
        disabled == known /\ BitOf(flags[1], 0)
        labels   == <<"value-not-saved", "point-not-found", "write-protected", "range-violation", "misconfiguration">>
        Meaning(name, raw) ==
            CASE range /\ name # "flags" /\ (~ known \/ disabled) -> Saying("Unknown", raw)
              [] name = "enable" -> Claim(raw, [flags |-> [i \in 0..103 |-> BitOf(raw[i \div 8 + 1], i % 8)]])
              [] name \in {"alternatives", "reserved"} -> Claim(raw, name :> raw)
              [] name = "flags" ->
                    Claim(raw, [number |-> raw[1],
                        flags |-> Flags(raw[1], <<"disabled", "writable", "enum-versus-range",
                                                  "additional-four-byte/no-range">>),
                        reserved |-> (raw[1] \div 16) % 4, unmodelled |-> raw[1] \div 64])
              [] name = "status" ->
                    Claim(raw, [number |-> raw[1],
                                label |-> IF raw[1] < Len(labels) THEN labels[raw[1] + 1] ELSE "unmapped"])
              [] OTHER -> Claim(raw, [number |-> raw])
        exact    == Exactly(document, widths, Meaning)
        fields   == [name \in DOMAIN exact |->
                        IF range /\ name # "flags" /\ disabled /\ name \notin FieldNames(document)
                        THEN [state |-> "Unknown"] ELSE exact[name]]
    IN  CASE ~ B51ADiagnosticRead(document) -> Absent
          [] ~ selected -> NothingSaid
          [] view = "save" /\ width = Absent -> Absent
          [] OTHER -> Answer(Overall(fields), fields)

B512ValvePumpRead(document) ==
    Readable(document, Also(FiniteBytes, {"depth"})) /\ ArgumentsAreAnObject(document)

B512ValvePump(document) ==
    LET operation == Selector(document, "operation")
        request   == TextOf(document, "direction") = "request"
        channels  == {"channel0", "channel1", "channel2"}
        selected  ==
            /\ \/ Frame(document, 18, {0, 2, 3, 4, 5}, {"request"}, {"actuator-fields"})
               \/ Frame(document, 18, {2, 3, 4}, {"positive"}, {"actuator-fields"})
            /\ HasSelector(document, "operation")
        modes     == Argument(document, "external_modes")
        told      == IF operation = 5
                     THEN /\ ArgumentNames(document) = {"external_modes"}
                          /\ IsByteArray(modes, {"int"}) /\ Len(modes.array) = 3
                     ELSE ArgumentNames(document) = {}
        ones      == CASE request /\ operation = 2 -> {"valve"} [] request /\ operation = 3 -> {"selector"}
                       [] request /\ operation = 5 -> channels   [] request -> {"setpoint"}
                       [] operation = 2 -> {"valve", "contact"}  [] operation = 3 -> {"status"}
                       [] OTHER -> {"feedback"}
        twos      == CASE request -> {} [] operation = 2 -> {"tank", "virtual_error"}
                       [] operation = 3 -> {"temperature_raw"} [] OTHER -> {}
        labels    == [valve    |-> 0 :> "CH" @@ 50 :> "midpoint" @@ 100 :> "DHW" @@ 254 :> "standby" @@ 255 :> "unchanged",
                      contact  |-> 0 :> "open" @@ 1 :> "closed",
                      virtual_error |-> 65535 :> "no-error", selector |-> 0 :> "valve-temperature-input",
                      status   |-> 0 :> "okay" @@ 1 :> "disconnected" @@ 2 :> "short-circuit"]
        Speed(n)  == CASE n = 255 /\ operation = 4 -> "no-remote-control" [] n = 255 /\ operation = 5 -> "unchanged"
                       [] n = 0 -> "off" [] n <= 100 -> "on-or-speed" [] OTHER -> "unmapped"
        ModeOf(name) == modes.array[CASE name = "channel0" -> 1 [] name = "channel1" -> 2 [] OTHER -> 3]
        Meaning(name, raw) ==
            LET n == NumberOf(raw)
            IN  Saying("complete", raw) @@
                (CASE name = "valve" /\ ~ request -> [label |-> "unresolved"]
                   [] name = "tank"               -> [number |-> Ratio(Signed16(n), 16), label |-> "Celsius"]
                   [] name = "temperature_raw"    -> [number |-> n, label |-> "raw"]
                   [] name = "feedback"           -> [number |-> n, label |-> IF n = 1 THEN "accepted" ELSE "rejected"]
                   [] name \in channels           -> [number |-> n, label |-> Speed(n),
                                                      prerequisite |-> ModeOf(name) = Plain(8)]
                   [] name = "setpoint"           -> [number |-> n, label |-> Speed(n)]
                   [] n \in DOMAIN labels[name]   -> [number |-> n, label |-> labels[name][n]]
                   [] OTHER                       -> [number |-> n, label |-> "unmapped"])
        fields    == Exactly(document, Widths(ones, 1) @@ Widths(twos, 2), Meaning)
    IN  CASE ~ B512ValvePumpRead(document) -> Absent
          [] ~ selected -> Answer("Unknown", Unread(document))
          [] ~ told -> Absent
          [] OTHER -> Answer(Overall(fields), Beside(document, fields))

B512PowerStepperRead(document) == Readable(document, FiniteBytes) /\ ArgumentsAreAnObject(document)

B512PowerStepper(document) ==
    LET operation == Selector(document, "operation")
        request   == TextOf(document, "direction") = "request"
        widths    == CASE operation = 7 -> IF request THEN <<>> ELSE [maximum_power |-> 1, minimum_power |-> 1]
                       [] operation = 8 -> [stepper |-> 1] @@ (IF request THEN [inlet |-> 2, status |-> 1]
                                                               ELSE [setpoint |-> 2])
                       [] OTHER         -> [release |-> 1]
        status    == 0 :> "valid" @@ 85 :> "short" @@ 170 :> "interruption-or-disconnected"
        Meaning(name, raw) ==
            Saying("complete", raw) @@
            (CASE name = "maximum_power" -> [number |-> raw[1]]
               [] name = "minimum_power" -> [number |-> Ratio(raw[1], 2), candidate |-> raw[1] <= 250]
               [] name \in {"inlet", "setpoint"} -> [number |-> Ratio(Signed16(Word(raw)), 16)]
               [] name = "status" -> [label |-> IF raw[1] \in DOMAIN status THEN status[raw[1]] ELSE "unmapped"]
               [] OTHER -> [flags |-> [release |-> BitOf(raw[1], 0)], reserved |-> Above(raw[1], 1)])
        fields    == Exactly(document, widths, Meaning)
    IN  CASE ~ B512PowerStepperRead(document) -> Absent
          [] ~ Frame(document, 18, 7..9, {"request", "positive"}, {"power-stepper"}) ->
                Answer("Unknown", Unread(document))
          [] OTHER -> Answer(Overall(fields), Beside(document, fields))

----------------------------------------------------------------------------
(* The eBUS standard's own services.                                       *)

Standard07Read(document) ==
    /\ Readable(document, Also(FiniteRationals, {"depth"}))
    /\ NothingReserved(document) /\ ArgumentsAreAnObject(document)

Standard07(document) ==
    LET secondary == Selector(document, "secondary")
        positive  == TextOf(document, "direction") = "positive"
        selected  == /\ Selector(document, "primary") = 7
                     /\ HasSelector(document, "secondary") /\ secondary \in {0, 2, 3, 5}
                     /\ Member(Context(document), "operation") = Absent
                     /\ TextOf(document, "view") = "field-candidates"
                     /\ TextOf(document, "direction") \in {"request", "positive"}
        calendar  == [second |-> <<0, 59>>, minute |-> <<0, 59>>, hour |-> <<0, 23>>, day |-> <<1, 31>>,
                      month |-> <<1, 12>>, year |-> <<0, 99>>]
        widths    == CASE positive      -> [version |-> 1, revision |-> 1, bitmap |-> 8]
                       [] secondary = 0 -> [temperature |-> 2, weekday |-> 1] @@ [name \in DOMAIN calendar |-> 1]
                       [] secondary = 2 -> [temperature |-> 2, duration |-> 1]
                       [] secondary = 3 -> [block |-> 1]
                       [] OTHER         -> [secondary_block |-> 1, primary_block |-> 1]
        days      == <<"Monday", "Tuesday", "Wednesday", "Thursday", "Friday", "Saturday", "Sunday">>
        Meaning(name, raw) ==
            Saying("complete", raw) @@
            (CASE name = "temperature" ->
                    LET n == Signed16(Word(raw))
                    IN  [number |-> Ratio(n, 256)]
                        @@ (IF secondary = 2 THEN [candidate |-> n \in -12800..12800] ELSE <<>>)
               [] name = "weekday"  -> [label |-> IF raw[1] < 7 THEN days[raw[1] + 1] ELSE "unmapped"]
               [] name = "duration" -> [number |-> raw[1]]
               [] name \in DOMAIN calendar -> [candidate |-> calendar[name]]
               [] OTHER -> <<>>)
        fields    == Exactly(document, widths, Meaning)
    IN  CASE ~ Standard07Read(document) -> Absent
          [] ~ selected -> Answer("Unknown", Unread(document))
          [] ArgumentNames(document) # {} -> Absent
          [] OTHER -> Answer(Overall(fields), Beside(document, fields))

StandardFFRead(document) ==
    /\ Readable(document, OpenBytes) /\ ArgumentsAreAnObject(document)
    /\ NumbersBelow(document, {"declared_length"}, 256) /\ NothingReserved(document)

(* A body is whole when it holds what its declared length promises, which   *)
(* for pairs must be one byte and then pairs.                              *)
StandardFF(document) ==
    LET secondary == Selector(document, "secondary")
        selected  == /\ Selector(document, "primary") = 255 /\ secondary \in {4, 6}
                     /\ Member(Context(document), "operation") = Absent
                     /\ TextOf(document, "direction") = "positive" /\ TextOf(document, "view") = "body-extent"
        declared  == Argument(document, "declared_length").int
        present   == "body" \in FieldNames(document)
        available == Len(BytesOrNone(document, "body"))
        tail      == declared >= 1 /\ declared % 2 = 0
        complete  == /\ present /\ available >= declared
                     /\ IF secondary = 4 THEN declared \in 2..10 ELSE declared >= 1 /\ ~ tail
        bounded   == Min({available, declared})
        extent    ==
            IF secondary = 4
            THEN [flags |-> [declared_minimum |-> declared >= 2, initialized_minimum |-> present /\ available >= 2,
                             bounded_minimum |-> complete]]
            ELSE [flags |-> [tail |-> tail, whole |-> complete],
                  declared_pairs  |-> IF declared >= 1 THEN (declared - 1) \div 2 ELSE Absent,
                  available_pairs |-> IF present /\ bounded >= 1 THEN (bounded - 1) \div 2 ELSE Absent]
        body      == (IF present THEN Saying("Unknown", Bytes(document, "body")) @@ [available |-> available]
                      ELSE [state |-> "partial"]) @@ [declared |-> declared] @@ extent
    IN  CASE ~ StandardFFRead(document) -> Absent
          [] ~ selected -> Answer("Unknown", Unread(document))
          [] ArgumentNames(document) # {"declared_length"} -> Absent
          [] OTHER -> Answer(IF complete THEN "complete" ELSE "partial", Beside(document, [body |-> body]))
=============================================================================
