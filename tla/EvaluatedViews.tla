---------------------------- MODULE EvaluatedViews ----------------------------
(***************************************************************************)
(* The Evaluate views of the research catalogue: calculations over a row or *)
(* a cycle of devices, given as arguments, and fields of a frame.  A view   *)
(* answers Absent for a document it refuses.                               *)
(***************************************************************************)
EXTENDS Documents

CONSTANT Wrap     \* one more than the largest 32-bit number

ThirtyTwo(value) == IsNumber(value, {"int"}, Wrap - 1)
FlagOf(value, name) == Member(value, name).flag
NumberAt(value, name) == Member(value, name).int

(* Nine rows, each with flags and 32-bit numbers.                          *)
NineRows(value, flags, numbers) ==
    /\ Is(value, {"array"}) /\ Len(value.array) = 9
    /\ \A row \in Range(value.array) :
          /\ Is(row, {"object"})
          /\ \A name \in flags : Is(Member(row, name), {"flag"})
          /\ \A name \in numbers : ThirtyTwo(Member(row, name))

EvaluateRead(document) == Readable(document, NullableBytes) /\ ArgumentsAreAnObject(document)

B531CapabilityRead(document) ==
    /\ EvaluateRead(document)
    /\ NumbersBelow(document, {"registered", "prior", "result"}, Wrap)
    /\ LET rows == Argument(document, "rows") IN rows # Absent => NineRows(rows, {}, {"a", "b", "c"})

B531Capability(document) ==
    LET view     == TextOf(document, "view")
        selected == /\ Frame(document, 49, {1}, {"local"}, {"capability", "select"})
        required == IF view = "select" THEN {"rows"} ELSE {"registered", "prior", "result"}
        empty    == {name \in FieldNames(document) : Bytes(document, name) = <<>>}
        fields   == [name \in FieldNames(document) |->
                        Saying(IF name \in empty THEN "incomplete" ELSE "Unknown", Bytes(document, name))]
        Number(name) == NumberAt(Arguments(document), name)
        skipped  == Number("registered") = 0
        updated  == CASE skipped -> Number("prior")
                      [] Number("result") = 0 -> 0
                      [] Number("result") = 1 /\ Number("prior") = 0 -> 1
                      [] OTHER -> Number("prior")
        outcome  == CASE skipped -> "skipped"
                      [] Number("result") = 0 -> "cleared"
                      [] Number("result") = 1 -> "admitted"
                      [] OTHER -> "Unknown"
        rows     == Argument(document, "rows").array
        full     == {i \in 1..9 : \A name \in {"a", "b", "c"} : NumberAt(rows[i], name) # 0}
        verdict  == IF view = "select" THEN [index |-> IF full = {} THEN 9 ELSE Min(full) - 1]
                    ELSE [updated |-> updated, outcome |-> outcome, bit0 |-> BitOf(updated, 0)]
    IN  CASE ~ B531CapabilityRead(document) -> Absent
          [] ~ selected -> Answer("Unknown", Unread(document))
          [] \E name \in required : Argument(document, name) = Absent -> Absent
          [] OTHER -> Answer(IF empty = {} THEN "complete" ELSE "partial", fields) @@ verdict

B531LimitRead(document) ==
    /\ EvaluateRead(document)
    /\ NumbersBelow(document, {"limited"}, Wrap)
    /\ LET rows == Argument(document, "rows")
       IN  rows # Absent => NineRows(rows, {"registered", "capable", "failure"}, {"token", "maximum"})

(* The second of the nine slots is special: once it is admitted, nothing is *)
(* said of the limit it takes part in.                                     *)
B531Limit(document) ==
    LET rows     == Argument(document, "rows").array
        gate     == Bytes(document, "gate")
        admitted == {i \in 1..9 : /\ FlagOf(rows[i], "registered") /\ FlagOf(rows[i], "capable")
                                  /\ ~ FlagOf(rows[i], "failure")}
        Sum(name) == FoldSet(LAMBDA i, sum : sum + NumberAt(rows[i], name), 0, admitted \ {2})
        special  == 2 \in admitted
        limits   == Sum("token") < Sum("maximum") /\ Argument(document, "limited") # Plain(0)
        gated    == gate # Absent /\ Len(gate) = 1
        requested ==
            CASE gate = Absent            -> [state |-> "Unknown"]
              [] gated /\ gate[1] = 0     -> Claim(gate, [number |-> 0])
              [] gated /\ ~ special       -> Claim(gate, [number |-> IF limits THEN 2 ELSE 1])
              [] OTHER                    -> Saying("Unknown", gate)
        said     == [admitted |-> admitted, tokens |-> Sum("token"), maxima |-> Sum("maximum"),
                     effective |-> IF special THEN Absent ELSE limits]
    IN  CASE ~ B531LimitRead(document) -> Absent
          [] ~ Frame(document, 49, {3}, {"local"}, {"ordinary-limit"}) -> NothingSaid
          [] {Argument(document, "limited"), Argument(document, "rows")} \cap {Absent} # {} -> Absent
          [] OTHER -> Answer(IF special \/ ~ gated THEN "partial" ELSE "complete",
                             [requested_state |-> requested]) @@ said

(* Slip: how much a counter grew is taken without regard to its wrap.       *)
GrewUnwrapped(prior, current) == prior = Wrap - 1 \/ current - prior >= 2

(* A counter changed when it was unread before or grew by two, modulo 2^32. *)
Grew(prior, current) == prior = Wrap - 1 \/ (current - prior) % Wrap >= 2

B516CycleRead(document) ==
    LET Whole(slot) ==
            /\ NineRows(Array([i \in 1..9 |-> slot]), {"registered", "capable", "prior_changed"},
                        {"prior", "prior_previous"})
            /\ Member(slot, "outcome") \in {Text("success"), Text("read-failure"), Text("parse-failure")}
            /\ IF Member(slot, "outcome") = Text("success") THEN ThirtyTwo(Member(slot, "value"))
               ELSE Member(slot, "value") = Absent
        slots == Argument(document, "slots")
    IN  /\ EvaluateRead(document)
        /\ Frame(document, 22, {14}, {"local"}, {"cycle"}) =>
              /\ ThirtyTwo(Argument(document, "failure_counter"))
              /\ NumbersBelow(document, {"counter_increment"}, Wrap)
              /\ Is(slots, {"array"}) /\ Len(slots.array) = 9
              /\ \A slot \in Range(slots.array) : Whole(slot)

B516Cycle(document) ==
    LET slots     == Argument(document, "slots").array
        increment == Argument(document, "counter_increment")
        counter   == Argument(document, "failure_counter").int
        asked     == {i \in 1..9 : FlagOf(slots[i], "registered") /\ FlagOf(slots[i], "capable")}
        answered  == {i \in asked : Member(slots[i], "outcome") = Text("success")}
        failed    == asked \ answered
        Slot(i) ==
            [previous |-> NumberAt(slots[i], IF i \in asked THEN "prior" ELSE "prior_previous"),
             current  |-> IF i \in answered THEN NumberAt(slots[i], "value") ELSE Wrap - 1,
             changed  |-> IF i \in answered THEN Grew(NumberAt(slots[i], "prior"), NumberAt(slots[i], "value"))
                          ELSE Absent]
        failures  == CASE failed = {}         -> 0
                       [] increment = Absent  -> Absent
                       [] OTHER               -> (counter + increment.int) % Wrap
        said == [slots |-> [i \in 1..9 |-> Slot(i)], failures |-> failures, partial |-> answered # 1..9,
                 sum   |-> FoldSet(LAMBDA i, sum : (sum + Slot(i).current) % Wrap, 0, answered)]
    IN  CASE ~ B516CycleRead(document) -> Absent
          [] ~ Frame(document, 22, {14}, {"local"}, {"cycle"}) -> Answer("Unknown", Unread(document))
          [] OTHER -> Answer(IF failures = Absent THEN "partial" ELSE "complete", Unread(document)) @@ said

IsWeekly(document) == Frame(document, 85, {164}, {"local"}, {"weekly"})
IsShape(document)  == Frame(document, 85, {166}, {"local"}, {"nonheating-shape"})
B555RefreshRead(document) ==
    LET IsDay(day) ==
            /\ Is(day, {"object"}) /\ IsNumber(Member(day, "count"), {"int"}, 255)
            /\ Is(Member(day, "slots"), {"array"})
            /\ \A slot \in Range(Member(day, "slots").array) :
                  /\ Is(slot, {"object"}) /\ Is(Member(slot, "ok"), {"flag"})
                  /\ Member(slot, "raw") # Absent => IsByteArray(Member(slot, "raw"), {"int"})
        days      == Argument(document, "days")
        initial   == Argument(document, "initial")
        setpoints == Argument(document, "slot_setpoints")
        count     == Argument(document, "count")
    IN  /\ EvaluateRead(document)
        /\ IsWeekly(document) =>
              /\ Is(Argument(document, "status_ok"), {"flag"})
              /\ IsNumber(Argument(document, "slot_limit"), {"int"}, 255)
              /\ Is(days, {"array"}) /\ Len(days.array) = 7
              /\ \A day \in Range(days.array) : IsDay(day)
        /\ IsShape(document) =>
              /\ Is(initial, {"array"}) /\ Len(initial.array) = 5
              /\ \A v \in Range(initial.array) : ~ Is(v, {"array", "object"})
              /\ IsNumber(count, {"int"}, 255) /\ Is(setpoints, {"array"})
              /\ \A v \in Range(setpoints.array) : IsNumber(v, {"int"}, 65535)
              /\ Len(setpoints.array) >= count.int

(* A week is read day by day and slot by slot, up to the first failure.     *)
B555Refresh(document) ==
    LET days  == Argument(document, "days").array
        limit == Argument(document, "slot_limit").int
        Count(d) == Member(days[d], "count").int
        Slots(d) == Member(days[d], "slots").array
        Good(slot) == FlagOf(slot, "ok") /\ Member(slot, "raw") # Absent
        Read(d) == Cardinality({n \in 1..Len(Slots(d)) : n <= Count(d) /\ \A k \in 1..n : Good(Slots(d)[k])})
        Ends(d) == Count(d) > limit \/ Read(d) < Count(d)
        stop    == {d \in 1..7 : Ends(d)}
        last    == Min(stop)
        done    == CASE Argument(document, "status_ok") = Flag(FALSE) -> 0
                     [] stop = {} -> 7
                     [] OTHER     -> last - 1
        reason  == CASE Argument(document, "status_ok") = Flag(FALSE) -> "status-failure"
                     [] stop = {}                         -> "complete"
                     [] Count(last) > limit               -> "count-overflow"
                     [] Read(last) = Len(Slots(last))     -> "missing-slot"
                     [] ~ FlagOf(Slots(last)[Read(last) + 1], "ok") -> "slot-failure"
                     [] OTHER                             -> "missing-slot-data"
        tried   == FoldSet(LAMBDA d, sum : sum + Count(d), 0, 1..done)
                   + (CASE reason \in {"status-failure", "complete", "count-overflow"} -> 0
                        [] reason = "missing-slot" -> Read(last)
                        [] OTHER -> Read(last) + 1)
        week    == [completed |-> done, reason |-> reason, attempts |-> tried]
        count   == Argument(document, "count").int
        shape   == [processed |-> [i \in 1..count |-> 65535],
                    unused |-> SubSeq(Argument(document, "slot_setpoints").array, count + 1,
                                      Len(Argument(document, "slot_setpoints").array))]
        Result(name, said) == (name :> (Claim(BytesOrNone(document, name), said))) @@ Unread(document)
    IN  CASE ~ B555RefreshRead(document) -> Absent
          [] IsWeekly(document) ->
                Answer(IF done = 7 THEN "complete" ELSE "partial", Result("weekly", week))
          [] IsShape(document) -> Answer("complete", Result("nonheating-shape", shape))
          [] OTHER -> Answer("Unknown", Unread(document))

B555GateRead(document) ==
    /\ EvaluateRead(document)
    /\ NumbersBelow(document, {"controller_type"}, 256)
    /\ NumbersBelow(document, {"spn"}, 65536)
    /\ Argument(document, "family_match") \in {Absent, Null, Flag(TRUE), Flag(FALSE)}

B555Gate(document) ==
    LET reply  == Bytes(document, "reply")
        family == Argument(document, "family_match")
        meaning ==
            [flags     |-> Flags(reply[1], <<"bit0", "bit1">>), reserved |-> Above(reply[1], 2),
             eligible  |-> /\ Argument(document, "controller_type") = Plain(2)
                           /\ Argument(document, "spn") = Plain(385)
                           /\ family = Flag(TRUE) /\ reply[1] % 4 = 3,
             applicable |-> IF family = Null THEN "Unknown" ELSE "Hypothesis"]
        fields == Exactly(document, [reply |-> 1], LAMBDA name, raw : Claim(raw, meaning))
    IN  CASE ~ B555GateRead(document) -> Absent
          [] ~ Frame(document, 85, {0}, {"local"}, {"manager-gate"})
             \/ ~ HasSelector(document, "operation") -> NothingSaid
          [] \E name \in {"controller_type", "spn", "family_match"} : Argument(document, name) = Absent -> Absent
          [] OTHER -> Answer(Overall(fields), fields)

----------------------------------------------------------------------------
(* Fields of fixed widths.                                                 *)

B512FanRead(document) == EvaluateRead(document)

B512Fan(document) ==
    LET view    == TextOf(document, "view")
        request == TextOf(document, "direction") = "request"
        warm    == {"temperature1", "temperature2", "temperature3"}
        kinds   ==
            CASE view = "fan" /\ request ->
                    [fan1 |-> "rpm", fan2 |-> "rpm", relay |-> "relay"]
              [] view = "fan" ->
                    [fan1 |-> "rpm", fan2 |-> "rpm", status |-> "status"] @@ [t \in warm |-> "Celsius"]
              [] view = "fan-control" /\ request ->
                    Widths({"pulse", "p", "i", "d", "fan_count"}, "u8")
                    @@ Widths({"minimum_pwm", "maximum_pwm"}, "PWM")
              [] view = "fan-control" -> [feedback |-> "feedback"]
              [] request -> <<>>
              [] view = "digital-air" ->
                    [digital |-> "digital", temperature1 |-> "Celsius", temperature2 |-> "Celsius"]
              [] OTHER -> [temperature |-> "Celsius", humidity |-> "percent", air_quality |-> "Unknown"]
        divisors == [Celsius |-> 16, PWM |-> 256, percent |-> 16, rpm |-> 1, Unknown |-> 1]
        statuses == 0 :> "idle" @@ 1 :> "running" @@ 255 :> "fault"
        Meaning(name, raw) ==
            LET n == NumberOf(raw)
                kind == kinds[name]
            IN  CASE kind = "relay" -> Claim(raw, [flags |-> Flags(n, <<"relay1", "relay2">>), reserved |-> Above(n, 2)])
                  [] kind = "status" /\ n \in DOMAIN statuses -> Claim(raw, [label |-> statuses[n]])
                  [] kind = "digital" /\ n <= 1 -> Claim(raw, [label |-> n = 1])
                  [] kind \in {"status", "digital"} -> Saying("Unknown", raw) @@ [reserved |-> n]
                  [] kind = "feedback" -> Claim(raw, [label |-> IF n = 1 THEN "accepted" ELSE "rejected"])
                  [] kind = "u8" -> Claim(raw, [number |-> n])
                  [] OTHER -> Claim(raw, [number |->
                        Ratio(IF kind \in {"Celsius", "PWM"} THEN Signed16(n) ELSE n, divisors[kind])])
        fields == Exactly(document, [name \in DOMAIN kinds |-> IF kinds[name] \in DOMAIN divisors THEN 2 ELSE 1],
                          Meaning)
        operations == [fan |-> 11] @@ "fan-control" :> 12 @@ "digital-air" :> 13 @@ "air-quality" :> 14
    IN  CASE ~ B512FanRead(document) -> Absent
          [] ~ Frame(document, 18, Range(operations), {"request", "positive"}, DOMAIN operations) \/
             Selector(document, "operation") # operations[view] -> Answer("Unknown", Unread(document))
          [] OTHER -> Answer(Overall(fields), fields @@ Unread(document))

B512HeatPumpRead(document) ==
    /\ EvaluateRead(document)
    /\ Arguments(document) # Absent =>
          \A name \in DOMAIN Arguments(document).object :
             LET value == Argument(document, name)
             IN  Is(value, {"int", "float", "huge"}) => ThirtyTwo(value)

B512HeatPump(document) ==
    LET request == TextOf(document, "direction") = "request"
        valve   == Frame(document, 18, {15}, {"request", "positive"}, {"valve-io"})
        adcs    == {"adc0", "adc1", "adc2", "adc3", "adc4", "adc5"}
        warm    == {"temperature1", "temperature2"}
        names   == CASE valve /\ request -> {"output", "valve"}
                     [] valve            -> warm \union {"input", "pressure", "backup"}
                     [] request          -> {"actuator1", "actuator2", "inverse"}
                     [] OTHER            -> adcs \union {"status", "phase1", "phase2", "board"}
        labels  == [output |-> <<"output1", "output2">>,
                    actuator1 |-> <<"cooling-valve", "passive-mixer1", "passive-mixer2", "cooling-active",
                                    "well-pump", "backup-safety", "backup1", "backup2">>,
                    actuator2 |-> <<"backup3", "external-valve", "external-backup">>,
                    status |-> <<"anode1", "anode2", "smart-grid", "well", "safety-limiter", "safety">>]
        codes   == [valve |-> 0 :> "off" @@ 1 :> "CH" @@ 2 :> "DHW",
                    input |-> 0 :> "multipurpose" @@ 1 :> "utility-contact",
                    backup |-> 0 :> "off" @@ 255 :> "replacement" @@ [n \in 1..3 |-> "step"],
                    board |-> [n \in 0..3 \union {11, 12} |-> "opaque-code-" \o ToString(n)]]
        Meaning(name, raw) ==
            LET n == NumberOf(raw)
            IN  CASE name \in warm /\ n = 32768 -> Claim(raw, [label |-> "replacement"])
                  [] name \in warm -> Claim(raw, [number |-> Ratio(Signed16(n), 16)])
                  [] name = "pressure" -> Claim(raw, [number |-> Ratio(n, 10)])
                  [] name \in adcs \union {"phase1", "phase2"} -> Claim(raw, [number |-> n])
                  [] name = "inverse" -> Saying("Unknown", raw)
                  [] name \in DOMAIN codes /\ n \in DOMAIN codes[name] -> Claim(raw, [label |-> codes[name][n]])
                  [] name \in DOMAIN codes -> Saying("Unknown", raw)
                  [] OTHER -> Claim(raw, [flags |-> Flags(n, labels[name]), reserved |-> Above(n, Len(labels[name]))])
        widths == [name \in names |-> IF name \in adcs \union warm \union {"inverse"} THEN 2 ELSE 1]
        fields == Exactly(document, widths, Meaning)
    IN  CASE ~ B512HeatPumpRead(document) -> Absent
          [] ~ valve /\ ~ Frame(document, 18, {16}, {"request", "positive"}, {"board-io"}) -> NothingSaid
          [] OTHER -> Answer(Overall(fields), fields)

B512EmergencyRead(document) == EvaluateRead(document)

B512Emergency(document) ==
    LET positive == TextOf(document, "direction") = "positive"
        flow     == Frame(document, 18, {17}, {"request", "positive"}, {"flow-io"})
        warm     == {"temperature1", "temperature2", "temperature3"}
        widths   == [flags |-> 1] @@
            (CASE positive /\ flow -> [setpoint |-> 1]
               [] positive         -> <<>>
               [] flow             -> Widths(warm, 2) @@ Widths({"pressure", "flow", "pump_status"}, 1)
               [] OTHER            -> [switch |-> 1, co2_1 |-> 2, co2_2 |-> 2])
        bits     == CASE flow /\ positive -> <<"compressor-off", "pump-relay">>
                      [] flow             -> <<"compressor-off">>
                      [] positive         -> <<"LED">>
                      [] OTHER            -> <<"emergency">>
        Meaning(name, raw) ==
            LET n == NumberOf(raw)
            IN  CASE name = "flags"    -> Claim(raw, [flags |-> Flags(n, bits), reserved |-> Above(n, Len(bits))])
                  [] name \in warm     -> Claim(raw, [number |-> Ratio(Signed16(n), 16)])
                  [] name = "pressure" -> Claim(raw, [number |-> Ratio(n, 10)])
                  [] name = "flow"     -> Claim(raw, [number |-> 10 * Signed8(n)])
                  [] name = "setpoint" -> Claim(raw, [number |-> n, candidate |-> n <= 100])
                  [] OTHER             -> Claim(raw, [number |-> n])
        fields   == Exactly(document, widths, Meaning)
    IN  CASE ~ B512EmergencyRead(document) -> Absent
          [] ~ flow /\ ~ Frame(document, 18, {18}, {"request", "positive"}, {"emergency-io"}) -> NothingSaid
          [] OTHER -> Answer(Overall(fields), fields @@ Unread(document))

B509DiagnosticRead(document) ==
    EvaluateRead(document) /\ NumbersBelow(document, {"requested_address"}, Wrap)

(* Two of the fields go by a short and a long name, but not by both at once;*)
(* an address of four bytes is kept as its bytes.                          *)
B509Diagnostic(document) ==
    LET request == TextOf(document, "direction") = "request"
        get     == Frame(document, 9, {52}, {"request", "response"}, {"diagnostic-get"})
        alias   == [count |-> "requested_count", status |-> "write_status"]
        both    == \E short \in DOMAIN alias : {short, alias[short]} \subseteq FieldNames(document)
        Named(short) == IF alias[short] \in FieldNames(document) THEN alias[short] ELSE short
        widths  == (IF request \/ get THEN [address |-> 4] ELSE <<>>) @@
                   (CASE get /\ request     -> Named("count") :> 1
                      [] ~ get /\ ~ request -> Named("status") :> 1
                      [] OTHER              -> [data |-> Absent])
        Meaning(name, raw) ==
            Saying("complete", raw) @@
               (CASE name = "data" -> [length |-> Len(raw)]
                  [] name \in {"status", "write_status"} -> [number |-> raw[1], candidate |-> raw[1] <= 6]
                  [] OTHER -> [number |-> raw])
        fields  == Exactly(document, widths, Meaning)
    IN  CASE ~ B509DiagnosticRead(document) -> Absent
          [] ~ get /\ ~ Frame(document, 9, {53}, {"request", "response"}, {"diagnostic-put"}) -> NothingSaid
          [] both -> Absent
          [] OTHER -> Answer(Overall(fields), fields @@ Unread(document))

B51AMirrorRead(document) == Readable(document, NullableRationals) /\ ArgumentsAreAnObject(document)

B51AMirror(document) ==
    LET request == TextOf(document, "direction") = "request"
        get     == Frame(document, 26, {2}, {"request", "positive"}, {"mirror-get"})
        widths  == [sequence |-> 1] @@
            (CASE request /\ get -> [flags |-> 1, length |-> 1, address |-> 2]
               [] request        -> [flags |-> 1, mirror_address |-> 2, symbol_address |-> 2, data |-> Absent]
               [] get            -> [status |-> 1, data |-> Absent]
               [] OTHER          -> [flags |-> 1])
        bits    == CASE get     -> <<"triple-storage">>
                     [] request -> <<"triple-storage", "direct-update">>
                     [] OTHER   -> <<"not-written", "invalid-symbol", "invalid-parameter", "storage-error">>
        Meaning(name, raw) ==
            CASE name = "data"   -> Claim(raw, [label |-> "opaque"])
              [] name = "status" -> Claim(raw, [number |-> raw[1], low |-> BitOf(raw[1], 0),
                                                whole |-> IF raw[1] <= 1 THEN raw[1] = 1 ELSE Absent])
              [] name = "flags"  -> Claim(raw, [number |-> raw[1], flags |-> Flags(raw[1], bits),
                                                reserved |-> Above(raw[1], Len(bits))])
              [] OTHER           -> Claim(raw, [number |-> NumberOf(raw)])
        fields  == Exactly(document, widths, Meaning)
    IN  CASE ~ B51AMirrorRead(document) -> Absent
          [] ~ get /\ ~ Frame(document, 26, {3}, {"request", "positive"}, {"mirror-put"}) -> NothingSaid
          [] OTHER -> Answer(Overall(fields), fields)

B523ActuatorRead(document) == Readable(document, NullableRationals) /\ ArgumentsAreAnObject(document)

B523Actuator(document) ==
    LET operation == Selector(document, "operation")
        direction == {"request", "positive-feedback"}
        mixer     == Frame(document, 35, {2}, direction, {"mixer"})
        selected  == \/ mixer \/ Frame(document, 35, {1}, direction, {"relay-six"})
                     \/ Frame(document, 35, {5}, direction, {"relay-twelve"})
        request   == TextOf(document, "direction") = "request"
        variant   == Argument(document, "variant")
        widths    ==
            CASE ~ request -> [feedback |-> 1] @@ (IF mixer THEN [movement |-> 1] ELSE <<>>)
              [] mixer     -> [circuit |-> 1, mode |-> 1, setpoint |-> 1]
              [] OTHER     -> IF operation = 5 THEN [relays |-> 12, pwm1 |-> 1, pwm2 |-> 1]
                              ELSE [relays |-> 6, pwm1 |-> 1]
        refusal   == IF operation = 5 THEN "rejected-or-unsupported" ELSE "rejected"
        modes     == <<"stop/pump-off/close", "heating-regulation", "cooling-regulation",
                       "pump-off/open", "pump-on/close", "pump-on/open">>
        Relay(n)  == CASE n = 0 -> "off" [] n = 254 -> "on" [] n = 255 -> "unchanged"
                       [] OTHER -> "on-for-seconds-then-off"
        mode      == BytesOrNone(document, "mode")
        Meaning(name, raw) ==
            LET n == raw[1]
                signed == Signed8(n)
            IN  CASE name = "feedback" -> [label |-> IF n = 1 THEN "accepted" ELSE refusal]
                  [] name = "movement" -> [number |-> signed,
                        label |-> CASE signed < 0 -> "closing" [] signed > 0 -> "opening" [] OTHER -> "stopped"]
                  [] name = "relays"   -> [label |-> [i \in DOMAIN raw |-> Relay(raw[i])]]
                  [] name \in {"pwm1", "pwm2"} ->
                        [number |-> Ratio(n, 2), candidate |-> n <= 250,
                         behaviour |-> IF n <= 200 THEN Ratio(n, 2) ELSE "unchanged"]
                  [] name = "circuit" ->
                        [label |-> IF n < 2 \/ (n = 2 /\ variant = Text("three-circuit"))
                                   THEN "circuit-" \o ToString(n) ELSE "ignored"]
                  [] name = "mode"     -> [label |-> IF n < Len(modes) THEN modes[n + 1] ELSE "ignored"]
                  [] OTHER             -> [number |-> Ratio(signed, 2), clamp |-> n = 190,
                        relevant |-> IF Len(mode) = 1 THEN mode[1] \in {1, 2} ELSE Absent]
        fields == Exactly(document, widths,
                     LAMBDA name, raw :
                        IF name = "movement" /\ Signed8(raw[1]) \notin -100..100 THEN Saying("Unknown", raw)
                        ELSE Saying("complete", raw) @@ Meaning(name, raw))
    IN  CASE ~ B523ActuatorRead(document) -> Absent
          [] ~ selected -> NothingSaid
          [] mixer /\ request /\ variant \notin {Text("two-circuit"), Text("three-circuit")} -> Absent
          [] OTHER -> Answer(Overall(fields), fields)

B516EnergyTypeRead(document) == EvaluateRead(document)

B516EnergyType(document) ==
    LET direction == TextOf(document, "direction")
        selected  == /\ Frame(document, 22, {0}, {"request", "read-positive", "write-positive"}, {"energy-type"})
                     /\ Member(Context(document), "operation") = Null
        Meaning(name, raw) ==
            LET n == raw[1] IN
            Claim(raw, CASE direction = "request"       -> [number |-> n]
                         [] direction = "read-positive" ->
                               [low_six |-> n % 64, flags |-> [flag6 |-> BitOf(n, 6), flag7 |-> BitOf(n, 7)]]
                         [] OTHER -> [low_six |-> n % 64, reserved |-> Above(n, 6)])
        fields == Exactly(document, [value |-> 1], Meaning)
    IN  CASE ~ B516EnergyTypeRead(document) -> Absent
          [] ~ selected -> Answer("Unknown", Unread(document))
          [] OTHER -> Answer(Overall(fields), fields @@ Unread(document))

B525QualityRead(document) ==
    /\ Readable(document, Also(NullableRationals, {"depth", "encoding", "surrogate"}))
    /\ ArgumentsAreAnObject(document)

B525Quality(document) ==
    LET quality  == Frame(document, 37, {3}, {"positive"}, {"quality"})
        bits     == [i \in 1..8 |-> IF i = 8 THEN "crc_okay" ELSE "bit" \o ToString(i - 1)]
        Meaning(name, raw) ==
            CASE name = "rssi"          -> Claim(raw, [number |-> Signed8(raw[1])])
              [] name = "quality"       -> Claim(raw, [flags |-> Flags(raw[1], bits)])
              [] name = "configuration" -> Claim(raw, [flags |-> [bit0 |-> BitOf(raw[1], 0)],
                                                       reserved |-> Above(raw[1], 1)])
              [] OTHER                  -> Claim(raw, <<>>)
        widths == IF quality THEN [rssi |-> 1, quality |-> 1] ELSE [configuration |-> 1, data |-> Absent]
        partly == Exactly(document, widths, Meaning)
        fields == [name \in DOMAIN partly |->
                      IF partly[name].state = "incomplete" THEN [partly[name] EXCEPT !.state = "Unknown"]
                      ELSE partly[name]]
    IN  CASE ~ B525QualityRead(document) -> Absent
          [] ~ quality /\ ~ Frame(document, 37, 24..27, {"request", "positive"}, {"configuration"}) -> NothingSaid
          [] OTHER -> Answer(Overall(partly), fields)
=============================================================================
