--------------------------- MODULE InterpretedViews ---------------------------
(***************************************************************************)
(* The Interpret views of the research catalogue: what a frame's fields are *)
(* taken to mean under one hypothesis each.  A view answers Absent for a    *)
(* document it refuses.                                                    *)
(***************************************************************************)
EXTENDS Documents

B505SentinelsRead(document) == Readable(document, AnySelectors) /\ NoArguments(document)

B505Sentinels(document) ==
    LET Pair(raw) ==
            CASE raw = Absent     -> [state |-> "missing"]
              [] Len(raw) # 2     -> Saying("incomplete", raw)
              [] raw = <<0, 0>>   -> Claim(raw, [label |-> "circuit-default"])
              [] raw = <<0, 128>> -> Claim(raw, [label |-> "preserve-existing"])
              [] OTHER            -> Saying("Unknown", raw) @@ [label |-> "numeric-unqualified"]
        fields == [name \in {"temperature_one", "temperature_two"} |-> Pair(Bytes(document, name))]
        state  == IF Cardinality(States(fields)) = 1 /\ States(fields) \subseteq {"Hypothesis", "Unknown"}
                  THEN fields["temperature_one"].state ELSE "partial"
    IN  CASE ~ B505SentinelsRead(document) -> Absent
          [] ~ Frame(document, 5, {50}, {"request"}, {"replacement-pair"}) -> NothingSaid
          [] OTHER -> Answer(state, fields)

B506ParameterRead(document) == Readable(document, AnySelectors) /\ NoArguments(document)

B506Parameter(document) ==
    LET key     == Bytes(document, "key")
        value   == Bytes(document, "value")
        wrong   == IF key = Absent THEN [state |-> "incomplete"]
                   ELSE Saying(IF Len(key) > 1 THEN "width-conflict" ELSE "incomplete", key)
        opaque  == {0, 1, 2, 4, 5}
        Reading ==
            CASE value = Absent                    -> [state |-> "incomplete"]
              [] key[1] \in opaque                 -> Claim(value, <<>>)
              [] value = <<>>                      -> Saying("incomplete", value)
              [] Len(value) > 1                    -> Saying("width-conflict", value)
              [] key[1] = 10 /\ value[1] > 1       -> Saying("unmapped", value)
              [] key[1] = 10                       ->
                    Claim(value, [number |-> value[1], label |-> LabelAt(<<"no", "yes">>, value[1])])
              [] OTHER                             -> Claim(value, [number |-> value[1]])
    IN  CASE ~ B506ParameterRead(document) -> Absent
          [] ~ Frame(document, 6, {17}, {"request"}, {"parameter-union"}) -> NothingSaid
          [] key = Absent \/ Len(key) # 1 -> Answer("partial", [key |-> wrong])
          [] key[1] \notin 0..10 \union 32..37 -> NothingSaid
          [] OTHER -> Answer(IF Reading.state = "Hypothesis" THEN "Hypothesis" ELSE "partial",
                             [key |-> Claim(key, [number |-> key[1]]), value |-> Reading])

B507QuantityRead(document) == Readable(document, AnySelectors) /\ NoArguments(document)

B507Quantity(document) ==
    LET capacity == Frame(document, 7, {6}, {"positive"}, {"capacity"})
        name     == IF capacity THEN "capacity" ELSE "preference"
        width    == IF capacity THEN 1 ELSE 2
        raw      == Bytes(document, name)
        Reading ==
            CASE raw = Absent           -> [state |-> "incomplete"]
              [] Len(raw) # width       -> Saying("incomplete", raw)
              [] capacity               ->
                    [Claim(raw, [number |-> Ratio(raw[1], 10)]) EXCEPT
                        !.state = IF raw[1] > 250 THEN "outside-candidate-domain" ELSE @]
              [] Word(raw) = 0          -> Claim(raw, [label |-> "appliance-unavailable candidate"])
              [] Word(raw) = 65535      -> Claim(raw, [label |-> "maximum-efficiency-preference"])
              [] OTHER                  -> Saying("unmapped", raw)
    IN  CASE ~ B507QuantityRead(document) -> Absent
          [] ~ capacity /\ ~ Frame(document, 7, {8}, {"positive"}, {"preference"}) ->
                Answer("Unknown", Unread(document))
          [] OTHER -> Answer(IF Reading.state = "Hypothesis" THEN "Hypothesis" ELSE "partial",
                             (name :> Reading) @@ Unread(document))

B50ERowSpansRead(document) ==
    Readable(document, Also(IntegerSelectors, {"encoding"})) /\ NoArguments(document)

B50ERowSpans(document) ==
    LET keys    == BytesOrNone(document, "key")
        key     == keys[1]
        value   == Bytes(document, "value")
        given   == BytesOrNone(document, "value")
        width   == CASE key \in {4, 5, 11, 12, 17, 18} -> 2 [] key \in {6, 7, 13, 14} -> 4 [] OTHER -> 1
        Span(from, size) ==
            LET state == IF Len(given) < from + size THEN "incomplete" ELSE "Hypothesis"
            IN  IF value = Absent THEN [state |-> state] ELSE Saying(state, Piece(given, from, size))
        Named(span, labels) ==
            IF span.state # "Hypothesis" THEN span
            ELSE IF span.raw[1] \in DOMAIN labels THEN span @@ [label |-> labels[span.raw[1]]]
            ELSE [span EXCEPT !.state = "Unknown"]
        whole   == Span(0, width)
        Reading ==
            CASE width > 1 \/ whole.state # "Hypothesis" -> whole
              [] key = 1                                 -> [whole EXCEPT !.state = "Unknown"]
              [] key = 8                                 -> Named(whole, 15 :> "true" @@ 240 :> "false")
              [] key \in {3, 10}                         -> whole @@ [number |-> Signed8(given[1])]
              [] OTHER                                   -> whole @@ [number |-> given[1]]
        spans == (IF key \in 9..14 \union {18} THEN {"inverse"} ELSE {})
                 \union (IF key = 17 THEN {"status"} ELSE {})
        extra == [name \in spans |->
                     IF name = "inverse" THEN Span(width, width)
                     ELSE Named(Span(2, 1), 0 :> "okay" @@ 85 :> "short-circuit" @@ 170 :> "interrupted")]
        fields == [value |-> Reading] @@ extra
    IN  CASE ~ B50ERowSpansRead(document) -> Absent
          [] ~ Frame(document, 14, {2}, {"positive"}, {"row-spans"}) \/ Len(keys) # 1 -> NothingSaid
          [] key > 18 -> NothingSaid
          [] key \in {0, 15, 16} ->
                Answer("Unknown", [value |-> IF value = Absent THEN [state |-> "Unknown"]
                                             ELSE Saying("Unknown", value)])
          [] OTHER -> Answer(IF "incomplete" \in States(fields) THEN "partial" ELSE "Hypothesis", fields)

B50FFieldsRead(document) ==
    Readable(document, Also(AnySelectors, {"depth"})) /\ NoArguments(document)

B50FFields(document) ==
    LET operation == Selector(document, "operation")
        view      == TextOf(document, "view")
        third     == IF operation = 1 THEN "stack_voltage" ELSE "temperature_three"
        thermal   == {"temperature_one", "temperature_two", third}
        errors    == {"error_one", "error_two", "error_three"}
        integrity == {"integrity_one", "integrity_two"}
        declared ==
            (CASE view = "thermal-fields" -> thermal \union errors
               [] view = "demand"         -> {"demand", "feedback"}
               [] OTHER                   -> integrity)
            \union (integrity \cap FieldNames(document))
        position == CASE operation = 2 -> 11 [] operation = 3 -> 4 [] OTHER -> 12
        Meaning(name, raw) ==
            CASE name = "stack_voltage" -> Saying("unit-conflict", raw)
              [] name \in thermal       -> Saying("complete", raw) @@ [number |-> Ratio(Signed16(Word(raw)), 16)]
              [] name = "demand"        ->
                    Saying("complete", raw) @@
                       [flags |-> Flags(raw[1], <<"burner", "reformer-gas-valve", "gas-flow", "fan-power", "valve">>),
                        reserved |-> Above(raw[1], 5)]
              [] name = "feedback"      ->
                    Saying("complete", raw) @@ [label |-> IF raw[1] = 1 THEN "accepted" ELSE "rejected"]
              [] name \in integrity     ->
                    Saying("unknown-order", raw) @@
                       [position |-> position + (IF name = "integrity_one" THEN 0 ELSE 1)]
              [] OTHER                  -> Saying("complete", raw)
        Reading(name) ==
            LET raw   == Bytes(document, name)
                width == IF name \in thermal THEN 2 ELSE 1
            IN  CASE raw = Absent       -> [state |-> "missing"]
                  [] Len(raw) < width   -> Saying("incomplete", raw)
                  [] Len(raw) > width   -> Saying("unmapped", raw)
                  [] OTHER              -> Meaning(name, raw)
        fields == [name \in declared |-> Reading(name)] @@ Unread(document)
    IN  CASE ~ B50FFieldsRead(document) -> Absent
          [] ~ (\/ Frame(document, 15, {0, 1}, {"positive"}, {"thermal-fields"})
                \/ Frame(document, 15, {3}, {"positive"}, {"demand"})
                \/ Frame(document, 15, {2}, {"positive"}, {"integrity-only"}))
             \/ ~ HasSelector(document, "operation") -> Answer("Unknown", Unread(document))
          [] OTHER -> Answer(IF States(fields) = {"complete"} THEN "complete" ELSE "partial", fields)

----------------------------------------------------------------------------
(* The answer to a capability query moves a cached byte: on a feedback of 1 *)
(* to zero or to its sixth bit by the count, and else not at all.           *)
B510CacheRead(document) ==
    LET arguments == Arguments(document)
        full == IF ~ Is(document.root, {"object"}) THEN document
                ELSE [document EXCEPT !.root.object =
                         @ @@ [context |-> Object(<<>>), fields |-> Object(<<>>)]]
    IN  /\ Readable(full, [OpenIntegers EXCEPT !.selectors = {"int", "huge"}])
        /\ ArgumentsAreAnObject(document)
        /\ arguments # Absent =>
              \A name \in DOMAIN arguments.object :
                 \/ name = "parsed" /\ Is(arguments.object[name], {"flag"})
                 \/ name = "count" /\ Is(arguments.object[name], {"int", "huge"})

B510Cache(document) ==
    LET prior    == BytesOrNone(document, "prior")
        feedback == BytesOrNone(document, "feedback")
        bitSix   == BytesOrNone(document, "bit_six")
        parsed   == Argument(document, "parsed")
        count    == Argument(document, "count")
        counted  == Is(count, {"huge"}) \/ (Is(count, {"int"}) /\ NumberIn(count) >= 0)
        selected ==
            /\ Frame(document, 16, {0}, {"local"}, {"capability-query"})
            /\ Member(Context(document), "operation") = Absent
            /\ \A b \in {prior, feedback, bitSix} : Len(b) = 1
            /\ bitSix[1] \in {0, 64}
            /\ parsed # Absent /\ counted
        moved    == parsed.flag /\ feedback[1] = 1
        none     == count = Plain(0)
        few      == count \in {Plain(1), Plain(2)}
        cell     == IF ~ moved \/ none THEN prior[1] ELSE IF few THEN 0 ELSE bitSix[1]
        rule     == CASE ~ moved -> "retain" [] none -> "Unknown"
                      [] few -> "replace-zero" [] OTHER -> "replace-bit-six"
        state    == IF rule = "Unknown" THEN "Unknown" ELSE "Hypothesis"
    IN  CASE ~ B510CacheRead(document) -> Absent
          [] ~ selected -> NothingSaid
          [] OTHER -> Answer(state,
                [cache     |-> Claim(prior, [number |-> cell]),
                 freshness |-> Claim(feedback, [label |-> IF moved /\ ~ none THEN "fresh" ELSE "Unknown"]),
                 rule      |-> Saying(state, bitSix) @@ [label |-> rule]])

B511FailureRead(document) ==
    LET arguments == Arguments(document)
    IN  /\ Readable(document, OpenIntegers)
        /\ ArgumentsAreAnObject(document)
        /\ arguments # Absent =>
              \A name \in DOMAIN arguments.object :
                 \/ name = "parsed" /\ Is(arguments.object[name], {"flag"})
                 \/ /\ name \in {"index", "selector", "local_selector", "count"}
                    /\ Is(arguments.object[name], {"int"}) /\ arguments.object[name].int >= 0

B511Failure(document) ==
    LET view     == TextOf(document, "view")
        operated == Member(Context(document), "operation") # Absent
        selected ==
            /\ Selector(document, "primary") = 181 /\ Selector(document, "secondary") = 17
            /\ TextOf(document, "direction") = "local"
            /\ IF view = "refresh" THEN operated /\ Selector(document, "operation") = 1
               ELSE ~ operated /\ view \in {"initialize", "timer-consume"}
        prior  == BytesOrNone(document, "prior_failure")
        body   == BytesOrNone(document, "local_body")
        registration == BytesOrNone(document, "registration")
        known  == Len(prior) = 1
        state  == IF known THEN "Hypothesis" ELSE "partial"
        Failing(raw, failing) == [failure |-> Claim(raw, [flags |-> [failure |-> failing]])]
        kept   == IF known THEN Failing(prior, prior[1] # 0) ELSE <<>>
        path   == IF prior[1] # 0 THEN [label |-> "error", number |-> 120]
                  ELSE [label |-> "capability-path"]
        lacking ==
            \/ Len(registration) # 1
            \/ \E name \in {"index", "selector", "local_selector", "count", "parsed"} :
                  Argument(document, name) = Absent
        passedOver ==
            \/ ~ BitOf(registration[1], 0)
            \/ Argument(document, "index") = Plain(1)
            \/ Argument(document, "selector") = Argument(document, "local_selector")
            \/ Argument(document, "parsed") = Flag(FALSE)
            \/ Argument(document, "count") = Plain(0)
    IN  CASE ~ B511FailureRead(document) -> Absent
          [] ~ selected -> NothingSaid
          [] view = "initialize" -> Answer("Hypothesis", Failing(<<>>, FALSE))
          [] view = "timer-consume" ->
                IF Argument(document, "index") # Plain(0) THEN NothingSaid
                ELSE IF known THEN Answer(state, kept @@ [path |-> Claim(prior, path)])
                ELSE Answer(state, <<>>)
          [] OTHER ->
                IF lacking THEN Answer("partial", kept)
                ELSE IF passedOver THEN Answer(state, kept)
                ELSE IF Len(body) < 9 THEN Answer("partial", kept)
                ELSE Answer(state, [copied |-> Claim(Piece(body, 0, 9), <<>>)]
                                   @@ Failing(Piece(body, 0, 9), BitOf(body[9], 0)))

B512FeedbackRead(document) ==
    LET arguments == Arguments(document)
    IN  /\ Readable(document, IntegerSelectors)
        /\ ArgumentsAreAnObject(document)
        /\ arguments # Absent =>
              \A name \in DOMAIN arguments.object :
                 name = "actual_signal" /\ Is(arguments.object[name], {"flag"})

B512Feedback(document) ==
    LET relays == {"error_relay", "fume_flap"}
        names  == relays \union {"secondary_heating_pump", "circulation_pump", "solar_pump", "loading_pump"}
        signal == Argument(document, "actual_signal")
        origin == CASE signal = Absent       -> "origin-Unknown"
                    [] signal = Flag(TRUE)   -> "actual-input-candidate"
                    [] OTHER                 -> "fallback-candidate"
        Label(name, byte) ==
            CASE name \in relays /\ byte = 15  -> "state-0F"
              [] name \in relays /\ byte = 240 -> "state-F0"
              [] name \in relays               -> "no-action-candidate"
              [] byte # 255                    -> ""
              [] TextOf(document, "direction") = "request" -> "leave-unchanged"
              [] OTHER                         -> "function-unavailable"
        Reading(name) ==
            LET raw == Bytes(document, name)
            IN  CASE raw = Absent   -> [state |-> "Unknown"]
                  [] Len(raw) # 1   -> Saying("Unknown", raw)
                  [] OTHER          -> Claim(raw, [flags |-> [origin |-> origin], label |-> Label(name, raw[1])])
        fields == [name \in names |-> Reading(name)]
    IN  CASE ~ B512FeedbackRead(document) -> Absent
          [] ~ Frame(document, 18, {1}, {"request", "positive"}, {"directional-fields"}) -> NothingSaid
          [] OTHER -> Answer(IF States(fields) = {"Hypothesis"} THEN "Hypothesis" ELSE "partial", fields)

B513InformationRead(document) == Readable(document, IntegerSelectors) /\ NoArguments(document)

B513Information(document) ==
    LET object  == BytesOrNone(document, "logical_object")
        names   == <<"type", "capabilities", "fuel", "storage", "features", "pump_mode">>
        labels  == <<<<"modulating", "single-step", "two-step">>,
                     <<"floor-standing", "condensing", "fan-assisted", "open-vented",
                       "high-modulation-range", "water-heater", "step-modulation", "ECS">>,
                     <<"gas", "oil", "ABC">>,
                     <<"layer-tank", "warm-start", "external-tank", "combination">>,
                     <<"solar-compact", "basic-solar", "AAPS", "advanced-power", "partial-load",
                       "parameter-primary">>,
                     <<"pump-mode0", "pump-mode1">>>>
        Reading(i) ==
            LET raw == Piece(object, i + 2, 1)
            IN  CASE raw = <<>>      -> Saying("Unknown", raw)
                  [] i \in {1, 6}    ->
                        IF LabelAt(labels[i], raw[1]) = "" THEN Saying("Unknown", raw)
                        ELSE Claim(raw, [number |-> raw[1], label |-> LabelAt(labels[i], raw[1])])
                  [] OTHER           ->
                        Claim(raw, [number |-> raw[1], flags |-> Flags(raw[1], labels[i]),
                                    reserved |-> Above(raw[1], Len(labels[i]))])
        fields   == [name \in Range(names) |-> Reading(CHOOSE i \in 1..6 : names[i] = name)]
        feedback == BytesOrNone(document, "feedback")
        refusal  == IF Selector(document, "operation") = 5 THEN "not-accepted-or-not-supported"
                    ELSE "rejected"
        accepted == Claim(feedback, [number |-> feedback[1],
                                     label |-> IF feedback[1] = 1 THEN "accepted" ELSE refusal])
    IN  CASE ~ B513InformationRead(document) -> Absent
          [] Frame(document, 19, {7}, {"positive"}, {"information"}) ->
                Answer(IF Len(object) < 12 \/ "Unknown" \in States(fields) THEN "partial" ELSE "Hypothesis",
                       fields @@ [opaque |-> Saying("Unknown", Piece(object, 9, 3))])
          [] Frame(document, 19, {5, 6}, {"positive"}, {"feedback"}) ->
                IF Len(feedback) = 1 THEN Answer("Hypothesis", [feedback |-> accepted])
                ELSE Answer("partial", [feedback |-> Saying("Unknown", feedback)])
          [] OTHER -> NothingSaid

B514MenuRead(document) ==
    Readable(document, Also(IntegerSelectors, {"depth", "encoding"})) /\ NoArguments(document)

B514Menu(document) ==
    LET operation == Selector(document, "operation")
        view      == TextOf(document, "view")
        generic   == view = "generic-result"
        positive  == /\ Selector(document, "primary") = 245 /\ Selector(document, "secondary") = 20
                     /\ TextOf(document, "direction") = "positive"
        feedback  == BytesOrNone(document, "feedback")
        progress  == 0 :> "idle" @@ 1 :> "progress" @@ 2 :> "passed" @@ 3 :> "warning"
                     @@ 4 :> "combustion-error" @@ 5 :> "gas-type-error" @@ 6 :> "aborted"
                     @@ 255 :> "unsupported"
        Label(byte) ==
            CASE operation = 7 -> IF byte \in DOMAIN progress THEN progress[byte] ELSE ""
              [] byte = 1 -> IF generic THEN "in-progress" ELSE "not-successful"
              [] byte = 255 /\ generic -> "unsupported"
              [] byte >= 3 /\ ~ generic -> "invalid"
              [] OTHER -> ""
        raw    == Piece(feedback, 0, 1)
        result == CASE raw = <<>>            -> Saying("incomplete", raw)
                    [] Label(raw[1]) = ""    -> Saying("unmapped", raw)
                    [] OTHER                 -> Claim(raw, [label |-> Label(raw[1])])
        object == BytesOrNone(document, "logical_object")
        places == [feedback |-> <<3, 1>>, pressure |-> <<4, 2>>, minimum |-> <<6, 2>>,
                   maximum |-> <<8, 2>>, step |-> <<10, 1>>, flow |-> <<11, 2>>]
        Reading(name) ==
            LET place == places[name]
                bytes == Piece(object, place[1], place[2])
            IN  CASE Len(bytes) < place[2] -> Saying("incomplete", bytes)
                  [] name = "feedback"     -> Saying("unmapped", bytes)
                  [] name = "step"         -> Saying("unit-conflict", bytes)
                  [] OTHER -> Claim(bytes, [number |-> Ratio(Word(bytes), IF name = "flow" THEN 100 ELSE 1)])
    IN  CASE ~ B514MenuRead(document) -> Absent
          [] positive /\ \/ operation = 6 /\ view \in {"generic-result", "specific-a-result", "specific-b-result"}
                         \/ operation = 7 /\ view = "progress" ->
                Answer(IF feedback = <<>> THEN "partial" ELSE "Hypothesis", [feedback |-> result])
          [] positive /\ operation = 8 /\ view = "pressure" ->
                Answer(IF Len(object) < 13 THEN "partial" ELSE "Hypothesis",
                       [name \in DOMAIN places |-> Reading(name)])
          [] OTHER -> NothingSaid

B519OpaqueRead(document) == Readable(document, AnySelectors) /\ NoArguments(document)

B519Opaque(document) ==
    LET operation == Selector(document, "operation")
        request   == TextOf(document, "direction") = "request"
        logical   == BytesOrNone(document, "logical_object")
        selected  ==
            /\ Frame(document, 25, 0..8 \union {170}, {"request", "positive"}, {"logical-body"})
            /\ HasSelector(document, "operation")
            /\ ~ request => operation \in {3, 6, 170}
        prefixOnly == IF request THEN operation \in {0, 2, 170} ELSE operation = 6
        form    == [form |-> Claim(Piece(logical, 0, 3),
                                   [label |-> IF request THEN "no-declared-argument" ELSE "prefix-only"])]
        rest    == [unmodelled |-> Saying("Unknown", Piece(logical, 3, Len(logical)))]
        addressed == request /\ operation = 8
        Opaque(from) == [opaque |-> Claim(Piece(logical, from, Len(logical)), <<>>)]
    IN  CASE ~ B519OpaqueRead(document) -> Absent
          [] ~ selected -> NothingSaid
          [] Bytes(document, "logical_object") = Absent -> Answer("partial", <<>>)
          [] Len(logical) < 3 -> Answer("partial", [logical_prefix |-> Saying("Unknown", logical)])
          [] prefixOnly -> IF Len(logical) > 3 THEN Answer("partial", form @@ rest)
                           ELSE Answer("Hypothesis", form)
          [] addressed /\ Len(logical) = 3 -> Answer("partial", [slave_address |-> Saying("Unknown", <<>>)])
          [] addressed -> Answer("Hypothesis", [slave_address |-> Claim(Piece(logical, 3, 1), <<>>)] @@ Opaque(4))
          [] OTHER -> Answer("Hypothesis", Opaque(3))

B520ActuatorRead(document) ==
    Readable(document, Also(AnySelectors, {"encoding", "surrogate"})) /\ NoArguments(document)

B520Actuator(document) ==
    LET object   == BytesOrNone(document, "logical_object")
        given    == Bytes(document, "logical_object") # Absent
        temperatures == [temperature1 |-> <<5, 2>>, temperature2 |-> <<7, 2>>,
                         temperature3 |-> <<9, 2>>, temperature4 |-> <<11, 2>>]
        places   ==
            IF TextOf(document, "direction") = "request"
            THEN [relay |-> <<3, 1>>, PWM1 |-> <<4, 1>>, PWM2 |-> <<5, 1>>, stepper |-> <<6, 1>>,
                  LED |-> <<7, 1>>, ED |-> <<8, 1>>, table |-> <<9, 1>>]
            ELSE temperatures @@ [ADC |-> <<3, 2>>, reserved |-> <<13, 1>>, impeller |-> <<14, 2>>,
                                  vortex |-> <<16, 2>>]
        top      == [ADC |-> 1023, impeller |-> 1000, vortex |-> 350]
        Labels(name) == IF name = "LED" THEN <<"disabled", "enabled">>
                        ELSE <<"standard3K3", "extended1K", "low-temperature15K", "standard1K">>
        Meaning(name, raw, n) ==
            CASE name \in {"PWM1", "PWM2", "ED"} -> Claim(raw, [number |-> Ratio(n, 2)])
              [] name = "stepper" /\ n <= 240    -> Claim(raw, [number |-> n])
              [] name = "stepper" /\ n = 255     -> Claim(raw, [label |-> "calibrate/go-to-zero"])
              [] name \in {"LED", "table"} /\ LabelAt(Labels(name), n) # "" ->
                    Claim(raw, [label |-> LabelAt(Labels(name), n)])
              [] name \in {"stepper", "LED", "table"} -> Saying("unmapped", raw)
              [] name \in DOMAIN temperatures    ->
                    Claim(raw, [number |-> Ratio(Signed16(n), 16), candidate |-> n <= 3200])
              [] name \in DOMAIN top             -> Claim(raw, [number |-> n, candidate |-> n <= top[name]])
              [] OTHER                           -> Claim(raw, <<>>)
        Reading(name) ==
            LET raw == Piece(object, places[name][1], places[name][2])
            IN  CASE ~ given -> [state |-> "incomplete"]
                  [] Len(raw) < places[name][2] -> Saying("incomplete", raw)
                  [] OTHER -> Meaning(name, raw, IF Len(raw) = 1 THEN raw[1] ELSE Word(raw))
        fields == [name \in DOMAIN places |-> Reading(name)]
    IN  CASE ~ B520ActuatorRead(document) -> Absent
          [] ~ Frame(document, 32, {0}, {"request", "positive"}, {"logical-object"})
             \/ ~ HasSelector(document, "operation") -> NothingSaid
          [] OTHER -> Answer(IF States(fields) = {"Hypothesis"} THEN "Hypothesis" ELSE "partial", fields)

B522DemandRead(document) ==
    LET rule      == Also([AnySelectors EXCEPT !.closed = FALSE], {"depth"})
        arguments == Arguments(document)
    IN  /\ Readable(document, rule)
        /\ {"primary", "secondary", "operation", "direction", "view"} \subseteq DOMAIN Context(document).object
        /\ ArgumentsAreAnObject(document)
        /\ arguments # Absent =>
              \A name \in DOMAIN arguments.object : Is(arguments.object[name], {"int", "huge", "flag"})

B522Demand(document) ==
    LET modes == <<"no-heating-demand", "no-source-demand-sink-demand", "source-heating-demand",
                   "no-source-cooling-demand-sink-demand", "source-cooling-demand">>
        Decoded(raw, meaning) == Saying("decoded", raw) @@ meaning
        Meaning(name, raw, n) ==
            CASE name = "mode" /\ LabelAt(modes, n) = "" -> Saying("unmapped", raw)
              [] name = "mode" -> Saying(IF n = 1 THEN "label-conflict" ELSE "decoded", raw)
                                     @@ [number |-> n, label |-> LabelAt(modes, n)]
              [] name = "fan"  -> Decoded(raw, [number |-> n])
              [] name = "room_temperature" -> Decoded(raw, [number |-> Ratio(n, 2)])
              [] name = "automatic" ->
                    Decoded(raw, [number |-> n % 2, reserved |-> Above(n, 1),
                                  label |-> IF n % 2 = 1 THEN "enabled" ELSE "disabled"])
              [] OTHER -> Decoded(raw, [flags |-> [i \in 0..2 |-> BitOf(n, i)], reserved |-> Above(n, 3)])
        Reading(name) ==
            LET raw == Bytes(document, name)
            IN  CASE raw = Absent   -> [state |-> "absent"]
                  [] raw = <<>>     -> Saying("incomplete", raw)
                  [] Len(raw) > 1   -> Saying("overlong", raw)
                  [] OTHER          -> Meaning(name, raw, raw[1])
        names  == IF TextOf(document, "direction") = "request"
                  THEN {"mode", "fan", "room_temperature", "automatic"} ELSE {"positive_flags"}
        fields == [name \in names |-> Reading(name)]
    IN  CASE ~ B522DemandRead(document) -> Absent
          [] ~ Frame(document, 34, 0..255, {"request", "positive"}, {"isolated-fields"}) -> Answer("unknown", <<>>)
          [] OTHER -> Answer(CASE States(fields) = {"decoded"}     -> "complete"
                               [] "decoded" \in States(fields)     -> "partial"
                               [] OTHER                            -> "unresolved", fields)

B523SensorsRead(document) ==
    Readable(document, Also(IntegerSelectors, {"encoding"})) /\ NoArguments(document)

(* Words of sensors, two status bits for each, and the bits left over.     *)
B523Sensors(document) ==
    LET operation == Selector(document, "operation")
        object    == BytesOrNone(document, "logical_object")
        start     == IF operation = 7 THEN 8 ELSE 1
        count     == IF operation = 6 THEN 7 ELSE 6
        statusAt  == IF operation = 6 THEN 17 ELSE 16
        Sensor(i) == ToString(start + i)
        WordAt(i) == Piece(object, 3 + 2 * i + (IF operation = 7 /\ i >= 4 THEN 1 ELSE 0), 2)
        PairOf(i, byte) == (byte \div 4 ^ (i % 4)) % 4
        valid     == IF TextOf(document, "view") = "status-zero-valid-or-low"
                     THEN "valid-value-or-low-level" ELSE "valid-value"
        Temperature(raw) ==
            CASE Len(raw) < 2           -> Saying("incomplete", raw)
              [] Word(raw) = 32768      -> Claim(raw, [label |-> "replacement"])
              [] OTHER                  -> Claim(raw, [number |-> Ratio(Signed16(Word(raw)), 16)])
        Status(i, raw) ==
            IF raw = <<>> THEN Saying("incomplete", raw)
            ELSE Claim(raw, [pair |-> PairOf(i, raw[1]),
                             label |-> LabelAt(<<valid, "open-circuit", "closed-circuit", "high-level">>,
                                               PairOf(i, raw[1]))])
        reserved ==
            LET raw == Piece(object, statusAt + 1, 1)
                low == IF operation = 6 THEN 6 ELSE 4
            IN  IF raw = <<>> THEN Saying("incomplete", raw)
                ELSE Claim(raw, [reserved |-> raw[1] \div 2 ^ low])
        other ==
            LET raw == Piece(object, IF operation = 7 THEN 11 ELSE 15, 1)
            IN  CASE raw = <<>>      -> Saying("incomplete", raw)
                  [] operation = 7   -> Saying("Unknown", raw)
                  [] OTHER           -> Claim(raw, [number |-> Ratio(raw[1], 2)])
        sensors  == [i \in 0..count - 1 |-> Temperature(WordAt(i))]
        statuses == [i \in 0..count - 1 |-> Status(i, Piece(object, statusAt + i \div 4, 1))]
        fields ==
            [name \in {"S" \o Sensor(i) : i \in DOMAIN sensors} |->
                sensors[CHOOSE i \in DOMAIN sensors : name = "S" \o Sensor(i)]]
            @@ [name \in {"statusS" \o Sensor(i) : i \in DOMAIN statuses} |->
                  statuses[CHOOSE i \in DOMAIN statuses : name = "statusS" \o Sensor(i)]]
            @@ [status_reserved |-> reserved]
            @@ (IF operation = 6 THEN <<>> ELSE (IF operation = 7 THEN "opaque11" ELSE "PWM") :> other)
    IN  CASE ~ B523SensorsRead(document) -> Absent
          [] ~ Frame(document, 35, {3, 6, 7}, {"positive"}, {"status-zero-valid", "status-zero-valid-or-low"}) ->
                NothingSaid
          [] OTHER -> Answer(IF "incomplete" \in States(fields) THEN "partial" ELSE "Hypothesis", fields)
=============================================================================
