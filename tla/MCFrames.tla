------------------------------- MODULE MCFrames -------------------------------
(* Documents for every view: of each case a sound frame, the same with one   *)
(* field changed, or with one thing wrong in its text, context or arguments. *)
EXTENDS FrameViews

At181(secondary, operation, direction, view) ==
    Object([primary |-> Plain(181), secondary |-> Plain(secondary), operation |-> Plain(operation),
            direction |-> Text(direction), view |-> Text(view)])
Unoperated(context) == With(context, "operation", Absent)

Fields(bytes) == Object([f \in DOMAIN bytes |-> Array([i \in DOMAIN bytes[f] |-> Plain(bytes[f][i])])])
Uniform(n, b) == [i \in 1..n |-> b]
Counting(n)   == [i \in 1..n |-> i]

SampleBytes == {0, 1, 2, 15, 85, 127, 128, 170, 254, 255}
Variants(bytes) ==
    {Absent, bytes \o <<0>>, <<0, 128>>} \union {SubSeq(bytes, 1, k) : k \in 0..Len(bytes) - 1}
    \union {Uniform(Len(bytes), b) : b \in SampleBytes}

Case(view, context, bytes, arguments) ==
    [view |-> view, context |-> context, bytes |-> bytes, arguments |-> arguments]
NoArgs == {Absent}

DocumentOf(case, arguments) ==
    [defects |-> {},
     root |-> With(Object([context |-> case.context, fields |-> Fields(case.bytes)]), "arguments", arguments)]
Sound(case) == DocumentOf(case, CHOOSE a \in case.arguments : case.arguments # {Absent} => a # Absent)

Varied(case) ==
    LET d == Sound(case)
    IN  {DocumentOf(case, a) : a \in case.arguments}
        \union UNION {{WithBytes(d, f, v) : v \in Variants(case.bytes[f])} : f \in DOMAIN case.bytes}

WrongSelectors(case, name) ==
    LET given == NumberIn(Member(case.context, name))
        right == IF given = Absent THEN 0 ELSE given
    IN  {Absent, Null, Huge, Float(right), Plain(0), Plain(256), Text("a")}
WrongValues(value) ==
    {Null, Array(<<Float(1)>>), Array(<<Plain(256)>>), Array(<<Text("a")>>), Array(<<Null>>), value}

Wrong(case) ==
    LET d == Sound(case)
    IN  {[d EXCEPT !.defects = {defect}] :
            defect \in {"duplicate key", "trailing", "depth", "encoding", "surrogate", "infinite"}}
        \union {[d EXCEPT !.root = Array(<<>>)]}
        \union {WithPart(d, part, value) : part \in {"context", "fields"}, value \in {Absent, Null, Array(<<>>)}}
        \union {WithPart(d, "state", Null)}
        \union {WithPart(d, "arguments", a) :
                  a \in {Absent, Null, Array(<<>>), Object(<<>>), Object([other |-> Plain(0)])}}
        \union UNION {{WithMember(d, "context", name, v) : v \in WrongSelectors(case, name)} :
                        name \in {"primary", "secondary", "operation"}}
        \union {WithMember(d, "context", name, v) :
                  name \in {"direction", "view", "family"}, v \in {Absent, Null, Plain(1), Text("other")}}
        \union {WithMember(d, "fields", "other", v) : v \in WrongValues(Array(<<Plain(7)>>))}
        \union (IF Arguments(d) = Absent THEN {}
                ELSE {WithMember(d, "arguments", name, v) :
                        name \in DOMAIN Arguments(d).object,
                        v \in {Absent, Null, Huge, Float(1), Plain(0), Plain(65536), Flag(TRUE), Text("a"),
                               Array(<<>>), Object(<<>>)}})

----------------------------------------------------------------------------
(* A case of every frame a view selects.                                   *)
Twice(f, g, n) == [x \in {f, g} |-> Counting(n)]

InterpretedCases ==
    {Case("B505Sentinels", At181(5, 50, "request", "replacement-pair"),
          Twice("temperature_one", "temperature_two", 2), NoArgs),
     Case("B505Sentinels", At181(5, 50, "request", "replacement-pair"),
          [temperature_one |-> <<0, 128>>, temperature_two |-> <<0, 0>>], NoArgs)}
    \union {Case("B506Parameter", At181(6, 17, "request", "parameter-union"), [key |-> <<k>>, value |-> <<1>>],
                 NoArgs) : k \in {0, 3, 10, 33}}
    \union {Case("B507Quantity", At181(7, 6, "positive", "capacity"), [capacity |-> <<9>>], NoArgs),
            Case("B507Quantity", At181(7, 8, "positive", "preference"), [preference |-> <<0, 0>>], NoArgs)}
    \union {Case("B50ERowSpans", At181(14, 2, "positive", "row-spans"), [key |-> <<k>>, value |-> Counting(4)],
                 NoArgs) : k \in 0..19}
    \union {Case("B50FFields", At181(15, 0, "positive", "thermal-fields"),
                 Twice("temperature_one", "temperature_two", 2) @@ [temperature_three |-> <<1, 2>>, error_one |-> <<1>>,
                    error_two |-> <<2>>, error_three |-> <<3>>, integrity_one |-> <<1>>], NoArgs),
            Case("B50FFields", At181(15, 1, "positive", "thermal-fields"),
                 Twice("temperature_one", "temperature_two", 2) @@ [stack_voltage |-> <<1, 2>>], NoArgs),
            Case("B50FFields", At181(15, 3, "positive", "demand"), Twice("demand", "feedback", 1), NoArgs),
            Case("B50FFields", At181(15, 2, "positive", "integrity-only"),
                 Twice("integrity_one", "integrity_two", 1), NoArgs)}
    \union {Case("B510Cache", Unoperated(At181(16, 0, "local", "capability-query")),
                 [prior |-> <<9>>, feedback |-> <<1>>, bit_six |-> <<64>>],
                 {Object([parsed |-> Flag(p), count |-> c]) : p \in BOOLEAN, c \in {Plain(n) : n \in 0..3} \union {Huge}})}
    \union {Case("B511Failure", Unoperated(At181(17, 0, "local", "initialize")), [prior_failure |-> <<1>>], NoArgs),
            Case("B511Failure", Unoperated(At181(17, 0, "local", "timer-consume")), [prior_failure |-> <<1>>],
                 {Object([index |-> Plain(n)]) : n \in 0..1}),
            Case("B511Failure", At181(17, 1, "local", "refresh"),
                 [prior_failure |-> <<1>>, local_body |-> Counting(9), registration |-> <<1>>],
                 {Object([index |-> Plain(0), selector |-> Plain(2), local_selector |-> Plain(l), count |-> Plain(c),
                          parsed |-> Flag(p)]) : l \in {1, 2}, c \in 0..1, p \in BOOLEAN})}
    \union {Case("B512Feedback", At181(18, o, d, "directional-fields"),
                 [f \in {"error_relay", "fume_flap", "secondary_heating_pump", "circulation_pump", "solar_pump",
                         "loading_pump"} |-> <<1>>],
                 {Absent, Object([actual_signal |-> Flag(TRUE)]), Object([actual_signal |-> Flag(FALSE)])}) :
              o \in {0, 1}, d \in {"request", "positive"}}
    \union {Case("B513Information", At181(19, 7, "positive", "information"), [logical_object |-> Counting(12)], NoArgs)}
    \union {Case("B513Information", At181(19, o, "positive", "feedback"), [feedback |-> <<1>>], NoArgs) : o \in {5, 6}}
    \union {Case("B514Menu", With(At181(20, o, "positive", v), "primary", Plain(245)),
                 [feedback |-> <<1>>, logical_object |-> Counting(13)], NoArgs) :
              o \in 6..8, v \in {"generic-result", "specific-a-result", "progress", "pressure"}}
    \union {Case("B519Opaque", At181(25, o, d, "logical-body"), [logical_object |-> Counting(5)], NoArgs) :
              o \in {0, 1, 3, 6, 8, 170}, d \in {"request", "positive"}}
    \union {Case("B520Actuator", At181(32, 0, d, "logical-object"), [logical_object |-> Counting(18)], NoArgs) :
              d \in {"request", "positive"}}
    \union {Case("B522Demand", At181(34, 1, "request", "isolated-fields"),
                 Twice("mode", "fan", 1) @@ Twice("room_temperature", "automatic", 1),
                 {Absent, Object([a |-> Plain(1)]), Object([a |-> Text("a")])}),
            Case("B522Demand", At181(34, 1, "positive", "isolated-fields"), [positive_flags |-> <<1>>], NoArgs)}
    \union {Case("B523Sensors", At181(35, o, "positive", v), [logical_object |-> Counting(19)], NoArgs) :
              o \in {3, 6, 7}, v \in {"status-zero-valid", "status-zero-valid-or-low"}}

----------------------------------------------------------------------------
(* Rows and slots of which one differs from the others.                    *)
Nine(row, other, i) == Array([k \in 1..9 |-> IF k = i THEN other ELSE row])
Row3(a, b, c) == Object([a |-> Plain(a), b |-> Plain(b), c |-> Plain(c)])
Limited(registered, failure, token) ==
    Object([registered |-> Flag(registered), capable |-> Flag(TRUE), failure |-> Flag(failure),
            token |-> Plain(token), maximum |-> Plain(2)])
Slot(registered, outcome, prior, value) ==
    With(Object([registered |-> Flag(registered), capable |-> Flag(TRUE), prior_changed |-> Flag(FALSE),
                 prior |-> Plain(prior), prior_previous |-> Plain(3), outcome |-> Text(outcome)]),
         "value", IF outcome = "success" THEN Plain(value) ELSE Absent)
Slots == {Slot(TRUE, "success", p, v) : p \in {0, 1, 14, 15}, v \in {0, 1, 2, 15}}
         \union {Slot(FALSE, "success", 1, 1), Slot(TRUE, "parse-failure", 1, 1)}
Read(ok, raw) == With(Object([ok |-> Flag(ok)]), "raw", IF raw THEN Array(<<Plain(1)>>) ELSE Absent)
Day(count, slots) == Object([count |-> Plain(count), slots |-> Array(slots)])
Days == {Day(0, <<>>), Day(3, <<>>), Day(2, <<Read(TRUE, TRUE)>>), Day(2, <<Read(TRUE, TRUE), Read(FALSE, TRUE)>>),
         Day(1, <<Read(TRUE, FALSE)>>)}
Week(day, i, j) ==
    Array([k \in 1..7 |-> IF k \in {i, j} THEN day ELSE Day(1, <<Read(TRUE, TRUE), Read(FALSE, FALSE)>>)])

EvaluatedCases ==
    {Case("B531Capability", At181(49, 1, "local", "select"), [gate |-> <<1>>],
          {Object([rows |-> Nine(Row3(a, 0, 0), Row3(1, b, 2), i)]) : a \in 0..1, b \in 0..1, i \in {1, 3, 9}}
          \union {Object([rows |-> Nine(Row3(1, 1, 1), Row3(16, 1, 1), 2)])}),
     Case("B531Capability", At181(49, 1, "local", "capability"), [gate |-> <<1>>],
          {Object([registered |-> Plain(r), prior |-> Plain(p), result |-> Plain(q)]) :
             r \in 0..1, p \in {0, 1, 3, 15}, q \in {0, 1, 2, 16}}),
     Case("B531Limit", At181(49, 3, "local", "ordinary-limit"), [gate |-> <<1>>],
          {Object([limited |-> Plain(l), rows |-> Nine(Limited(r, FALSE, 1), Limited(TRUE, f, t), i)]) :
             l \in 0..1, r \in BOOLEAN, f \in BOOLEAN, t \in {1, 2, 16}, i \in {1, 2, 9}}),
     Case("B516Cycle", At181(22, 14, "local", "cycle"), [other |-> <<1>>],
          {With(Object([slots |-> Nine(s, t, i), failure_counter |-> Plain(c)]), "counter_increment", n) :
             s \in {Slot(TRUE, "success", 1, 4), Slot(FALSE, "read-failure", 1, 1)}, t \in Slots, i \in {1, 9},
             c \in {0, 15}, n \in {Absent, Plain(1), Plain(16)}}),
     Case("B555Refresh", At181(85, 164, "local", "weekly"), [weekly |-> <<1>>],
          {Object([status_ok |-> Flag(ok), slot_limit |-> Plain(2), days |-> Week(d, i, j)]) :
             ok \in BOOLEAN, d \in Days, i \in {1, 7}, j \in {3, 7}}),
     Case("B555Refresh", At181(85, 166, "local", "nonheating-shape"), <<>>,
          {Object([initial |-> Array(Uniform(n, Null)), count |-> Plain(c), slot_setpoints |-> Array(<<Plain(1), Plain(v)>>)]) :
             n \in {4, 5}, c \in 0..3, v \in {65535, 65536}}),
     Case("B555Gate", At181(85, 0, "local", "manager-gate"), [reply |-> <<3>>],
          {Object([controller_type |-> Plain(c), spn |-> Plain(385), family_match |-> m]) :
             c \in {2, 3}, m \in {Null, Flag(TRUE), Flag(FALSE)}}),
     Case("B509Diagnostic", At181(9, 52, "request", "diagnostic-get"), [address |-> Counting(4), count |-> <<1>>], NoArgs),
     Case("B509Diagnostic", At181(9, 52, "response", "diagnostic-get"), [address |-> Counting(4), data |-> Counting(3)], NoArgs),
     Case("B509Diagnostic", At181(9, 53, "request", "diagnostic-put"), [address |-> Counting(4), data |-> Counting(3)],
          {Absent, Object([requested_address |-> Plain(16)])}),
     Case("B509Diagnostic", At181(9, 53, "response", "diagnostic-put"), [status |-> <<1>>], NoArgs),
     Case("B509Diagnostic", At181(9, 53, "response", "diagnostic-put"), Twice("status", "write_status", 1), NoArgs),
     Case("B516EnergyType", With(At181(22, 0, "read-positive", "energy-type"), "operation", Null), [value |-> <<65>>], NoArgs),
     Case("B525Quality", At181(37, 3, "positive", "quality"), Twice("rssi", "quality", 1), NoArgs),
     Case("B525Quality", At181(37, 24, "request", "configuration"), [configuration |-> <<1>>, data |-> Counting(3)], NoArgs)}
    \union {Case("B512Fan", At181(18, 11, d, "fan"),
                 [f \in {"fan1", "fan2", "temperature1", "temperature2", "temperature3"} |-> <<1, 2>>]
                 @@ Twice("relay", "status", 1), NoArgs) : d \in {"request", "positive"}}
    \union {Case("B512Fan", At181(18, 12, d, "fan-control"),
                 [f \in {"pulse", "p", "i", "d", "fan_count", "feedback"} |-> <<1>>]
                 @@ Twice("minimum_pwm", "maximum_pwm", 2), NoArgs) : d \in {"request", "positive"}}
    \union {Case("B512Fan", At181(18, 13, d, "digital-air"), Twice("temperature1", "temperature2", 2) @@ [digital |-> <<1>>],
                 NoArgs) : d \in {"request", "positive"}}
    \union {Case("B512Fan", At181(18, 14, "positive", "air-quality"),
                 Twice("temperature", "humidity", 2) @@ [air_quality |-> <<1, 2>>], NoArgs)}
    \union {Case("B512HeatPump", At181(18, 15, d, "valve-io"),
                 [f \in {"output", "valve", "input", "pressure", "backup"} |-> <<1>>]
                 @@ Twice("temperature1", "temperature2", 2), {Absent, Object([a |-> Plain(16)])}) : d \in {"request", "positive"}}
    \union {Case("B512HeatPump", At181(18, 16, d, "board-io"),
                 [f \in {"adc0", "adc1", "adc2", "adc3", "adc4", "adc5", "inverse"} |-> <<1, 2>>]
                 @@ [f \in {"actuator1", "actuator2", "status", "phase1", "phase2", "board"} |-> <<1>>], NoArgs) :
              d \in {"request", "positive"}}
    \union {Case("B512Emergency", At181(18, o, d, IF o = 17 THEN "flow-io" ELSE "emergency-io"),
                 [f \in {"flags", "pressure", "flow", "pump_status", "setpoint", "switch"} |-> <<1>>]
                 @@ [f \in {"temperature1", "temperature2", "temperature3", "co2_1", "co2_2"} |-> <<1, 2>>], NoArgs) :
              o \in {17, 18}, d \in {"request", "positive"}}
    \union {Case("B51AMirror", At181(26, o, d, IF o = 2 THEN "mirror-get" ELSE "mirror-put"),
                 [f \in {"sequence", "flags", "length", "status"} |-> <<1>>]
                 @@ [f \in {"address", "mirror_address", "symbol_address", "data"} |-> <<1, 2>>], NoArgs) :
              o \in {2, 3}, d \in {"request", "positive"}}
    \union {Case("B523Actuator", At181(35, 2, d, "mixer"),
                 [f \in {"circuit", "mode", "setpoint", "feedback", "movement"} |-> <<1>>],
                 {Object([variant |-> Text("three-circuit")]), Absent}) : d \in {"request", "positive-feedback"}}
    \union {Case("B523Actuator", At181(35, o, d, IF o = 1 THEN "relay-six" ELSE "relay-twelve"),
                 [relays |-> Counting(IF o = 1 THEN 6 ELSE 12), pwm1 |-> <<1>>, pwm2 |-> <<1>>, feedback |-> <<1>>], NoArgs) :
              o \in {1, 5}, d \in {"request", "positive-feedback"}}
    \union {Case("B516EnergyType", With(At181(22, 0, d, "energy-type"), "operation", Null), [value |-> <<65>>], NoArgs) :
              d \in {"request", "write-positive"}}

FieldCases ==
    {Case("B504Candidate", At181(4, 22, "positive", "corrected-outside"), [temperature |-> <<1, 2>>],
          {Object([divisor |-> Plain(n)]) : n \in {0, 16, 256, 257}}),
     Case("B504Candidate", At181(4, 32, "positive", "demand"), [setpoint |-> <<1>>], NoArgs),
     Case("B504Candidate", At181(4, 33, "positive", "protection"), [temperature |-> <<1>>], NoArgs),
     Case("B504Candidate", At181(4, 38, "positive", "adjustment"), Twice("adjustment", "room", 1), NoArgs),
     Case("B504Candidate", At181(4, 13, "positive", "circuit-role"), Twice("temperature", "dhw_request", 1),
          {Object([role |-> Text(r)]) : r \in {"dhw", "mixer", "other"}}),
     Case("B505Override", At181(5, 77, "request", "override"), Twice("sensor_status", "remote_control", 1),
          {Absent, Object([display_percent |-> Plain(25)])}),
     Case("B505Override", At181(5, 97, "request", "override"), [sensor_status |-> <<1>>],
          {Absent, Object([display_percent |-> Plain(25)])}),
     Case("B505Override", At181(5, 78, "request", "priority"), [priority |-> <<1>>], NoArgs),
     Case("B505Conditional", At181(5, 90, "request", "unchanged"), [unchanged |-> <<1>>],
          {Object([replacement |-> Flag(r), previous |-> Plain(1), requested |-> Text("a")]) : r \in BOOLEAN}),
     Case("B505Conditional", At181(5, 23, "request", "flow-excess"), [other |-> <<1>>],
          {Object([demand |-> Plain(1), excess |-> e]) : e \in {Float(2), Huge, Null}}),
     Case("B505Conditional", At181(5, 49, "request", "dhw-enable"), [enabled |-> <<1>>], NoArgs),
     Case("B505Conditional", At181(5, 9, "request", "programmed-start"), [start |-> <<1, 2>>],
          {Object([program_mode |-> Plain(n)]) : n \in {0, 1, 256}}),
     Case("B505Conditional", At181(5, 24, "request", "parallel-charge"), [disable |-> <<1>>],
          {Object([role |-> Text(r), parallel |-> Flag(p)]) : r \in {"mixer", "heating", "dhw"}, p \in BOOLEAN}),
     Case("B503Control", At181(3, 3, "positive", "reset-acceptance"), [acceptance |-> <<1>>], NoArgs),
     Case("B503Control", At181(3, 7, "positive", "current-errors"),
          Twice("flags", "feedback", 1) @@ [f \in {"error0", "error1", "error2", "error3", "error4"} |-> <<1, 2>>], NoArgs),
     Case("B503Control", At181(3, 4, "request", "category-common"), [category |-> <<2>>], NoArgs),
     Case("B503Control", At181(3, 6, "request", "category-reset"), [category |-> <<2>>], NoArgs),
     Case("B515Period", Unoperated(At181(21, 0, "request", "periods")),
          Twice("period0", "period1", 1) @@ [period2 |-> <<144>>],
          {Absent} \union {Object([minutes |-> Plain(n)]) : n \in {0, 15, 1440, 1441}}),
     Case("B515Period", Unoperated(At181(21, 0, "request", "intervals")), [other |-> <<1>>],
          {Object([pairs |-> Array(<<Array(<<Plain(1), Plain(1)>>), Array(<<Plain(2), Plain(a)>>), Array(<<Plain(b), Plain(9)>>)>>)]) :
             a \in {3, 145}, b \in {2, 3}}),
     Case("B517Guard", Unoperated(At181(23, 0, "local", "adaptation-guard")),
          [request |-> <<181, 23>>, input |-> <<181, 24, 0, 0, 2>>],
          {Object([ready_state |-> Plain(r), final_option |-> Plain(f), received_length |-> Plain(n)]) :
             r \in {3, 4}, f \in 0..1, n \in {5, 8}}),
     Case("B521Module", Unoperated(At181(33, 0, "request", "module-fields")),
          Twice("flags", "appliance_bits", 1) @@ Twice("noise_percent", "frost_temperature", 1), NoArgs),
     Case("B521Module", Unoperated(At181(33, 0, "positive", "module-fields")),
          Twice("status0", "status1", 1) @@ Twice("brine_percent", "fan_percent", 1)
          @@ Twice("temperature0", "temperature1", 2) @@ [fan_speed |-> <<1>>], NoArgs),
     Case("B51AHandshake", At181(26, 1, "pair", "sequence-pair"), Twice("request_sequence", "response_sequence", 1), NoArgs),
     Case("B51ADiagnostic", At181(26, 4, "positive", "enable-bits"), [enable |-> Counting(13)], NoArgs),
     Case("B51ADiagnostic", At181(26, 6, "positive", "save"),
          [status |-> <<1>>, mirror |-> <<1, 2>>, symbol |-> <<1, 2>>, value |-> <<1>>],
          {Object([value_width |-> Plain(n)]) : n \in 0..3}),
     Case("B512ValvePump", At181(18, 5, "request", "actuator-fields"), [f \in {"channel0", "channel1", "channel2"} |-> <<1>>],
          {Object([external_modes |-> Array([i \in 1..n |-> Plain(8)])]) : n \in 2..3})}
    \union {Case("B51AHandshake", Unoperated(At181(26, 0, d, "reset")), Twice("sequence", "ack", 1), NoArgs) :
              d \in {"request", "positive"}}
    \union {Case("B51AHandshake", At181(26, 1, d, "handshake"),
                 Twice("sequence", "flags", 1) @@ [f \in {"dsn", "start", "offset", "crc"} |-> <<1, 2>>] @@ [family_code |-> <<1>>],
                 NoArgs) : d \in {"request", "positive"}}
    \union {Case("B51ADiagnostic", At181(26, 5, "positive", v),
                 [flags |-> <<f>>, display_type |-> <<1>>, step |-> <<1>>, minimum |-> <<1, 2>>, maximum |-> <<1, 2>>,
                  alternatives |-> Counting(6), reserved |-> Counting(3),
                  value |-> Counting(IF v = "four-byte" THEN 4 ELSE 2)], NoArgs) :
              v \in {"range", "enum", "four-byte"}, f \in {8, 9}}
    \union {Case("B512ValvePump", At181(18, o, d, "actuator-fields"),
                 [f \in {"setpoint", "valve", "selector", "contact", "status", "feedback"} |-> <<1>>]
                 @@ [f \in {"tank", "virtual_error", "temperature_raw"} |-> <<1, 2>>], NoArgs) :
              o \in {0, 2, 3, 4}, d \in {"request", "positive"}}
    \union {Case("B512PowerStepper", At181(18, o, d, "power-stepper"),
                 [f \in {"maximum_power", "minimum_power", "stepper", "status", "release"} |-> <<1>>]
                 @@ Twice("inlet", "setpoint", 2), NoArgs) : o \in 7..9, d \in {"request", "positive"}}
    \union {Case("Standard07", Unoperated(With(At181(s, 0, d, "field-candidates"), "primary", Plain(7))),
                 [f \in {"weekday", "second", "minute", "hour", "day", "month", "year", "duration", "block",
                         "secondary_block", "primary_block", "version", "revision"} |-> <<1>>]
                 @@ [temperature |-> <<1, 2>>, bitmap |-> Counting(8)], NoArgs) :
              s \in {0, 2, 3, 5}, d \in {"request", "positive"}}
    \union {Case("StandardFF", Unoperated(With(At181(s, 0, "positive", "body-extent"), "primary", Plain(255))),
                 [body |-> Counting(5)], {Object([declared_length |-> Plain(n)]) : n \in {0, 1, 2, 5, 11}}) : s \in {4, 6}}

MCFrameInputs ==
    {[view |-> c.view, documents |-> Varied(c) \union Wrong(c)] :
        c \in InterpretedCases \union EvaluatedCases \union FieldCases}

----------------------------------------------------------------------------
(* Bodies of every length a view tells apart, under the keys it selects and *)
(* under some it does not.                                                 *)
Bodied(kind, keys, bytes) == [kind : {kind}, key : keys, bytes : bytes]
Filled(prefix, n) == UNION {Prefixes(prefix \o Uniform(n, b)) : b \in SampleBytes}

DhwKeys ==
    {[family |-> f, variant |-> "b512-op06-candidate", direction |-> d] :
        f \in {"vaillant-dhw-family", "other"}, d \in {"request", "positive", "other"}}
CounterKeys ==
    {[family |-> "standard-counter", variant |-> v, function |-> 3, operation |-> o, direction |-> d,
      selector |-> IF d = "request" THEN "candidate" ELSE "standard",
      encoding |-> IF o = 4 THEN "unsigned-decimal-chunks" ELSE "unsigned-u8"] :
        v \in {"03/04", "03/05", "03/06"}, o \in 4..6, d \in {"request", "positive"}}
BurnerKeys ==
    {[family |-> "burner", variant |-> v, primary |-> 5, secondary |-> 1, operation |-> Absent,
      direction |-> "abstract-request", selector |-> "burner-five-field"] : v \in {"0501", "0502"}}
ServiceKeys(services) ==
    {[family |-> f, profile |-> "p", direction |-> d, service |-> s] :
        f \in {"", "f"}, d \in {"positive", "abstract-request"}, s \in services}

MCBodies ==
    Bodied("B512Dhw", DhwKeys, Filled(<<181, 18, 6>>, 9) \union {<<181, 18, 7, 1>>, <<>>})
    \union Bodied("Standard03", CounterKeys, Filled(<<>>, 6) \union Prefixes(<<7, 8, 9, 60, 1>>))
    \union Bodied("Standard05", BurnerKeys, Filled(<<>>, 6) \union Filled(<<85>>, 5))
    \union Bodied("body", ServiceKeys(0..4), Filled(<<9, 0>>, 2) \union Filled(<<9, 1>>, 2) \union Filled(<<9>>, 3))
    \union Bodied("address", ServiceKeys(0..4), Filled(<<1>>, 3))
    \union Bodied("count", ServiceKeys(0..4), {<<b>> : b \in SampleBytes \union {10, 11}})
=============================================================================
