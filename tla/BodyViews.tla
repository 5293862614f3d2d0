------------------------------- MODULE BodyViews -------------------------------
(***************************************************************************)
(* The views of whole bodies and images: bytes are given under a key that   *)
(* names the hypothesis they are read by, and each is read by its place.    *)
(***************************************************************************)
EXTENDS Documents

(* The bytes of a body from a place on.                                    *)
From(body, place) == SubSeq(body, place, Len(body))
(* Reading(p) of each place p the body reaches, by its name.                *)
Reached(body, places, Reading(_, _)) ==
    [name \in {n \in DOMAIN places : places[n] <= Len(body)} |-> Reading(name, body[places[name]])]

(* An image is read from its fourth byte on, as far as it goes; the bits    *)
(* no reading uses are left over.                                          *)
B512Dhw(key, image) ==
    LET request  == key.direction = "request"
        admitted == /\ key.family = "vaillant-dhw-family" /\ key.variant = "b512-op06-candidate"
                    /\ key.direction \in {"request", "positive"} /\ Piece(image, 0, 3) = <<181, 18, 6>>
        bits     == IF request
                    THEN [flags |-> <<"task", "heat-demand", "loading", "pump-fault", "sensor0", "sensor1",
                                      "sensor2", "sensor3">>, inlet |-> <<"inlet0", "inlet1">>]
                    ELSE [flags |-> <<"loading-disabled", "internal-test", "ready", "frost-protection",
                                      "legionella", "reset">>]
        places   == IF request
                    THEN [flags |-> 4, modulation |-> 5, flow |-> 6, temperature1 |-> 7, temperature2 |-> 8,
                          temperature3 |-> 9, inlet |-> 10]
                    ELSE [flags |-> 4, setpoint |-> 5, returned |-> 6, adjustment |-> 7]
        last     == Max(Range(places))
        Reading(name, byte) ==
            CASE name \in DOMAIN bits -> [flags |-> Flags(byte, bits[name])]
              [] name = "flow"        -> [raw |-> byte, number |-> Ratio(byte, 10)]
              [] name = "adjustment"  -> [raw |-> byte, number |-> Signed8(byte), domain |-> Signed8(byte) \in -1..2]
              [] OTHER                -> [raw |-> byte, number |-> Ratio(byte, 2)]
        Over(i)  == IF i > last THEN image[i]
                    ELSE Above(image[i], Len(bits[IF i = 4 THEN "flags" ELSE "inlet"]))
        left     == {i \in DOMAIN image : i > last \/ (i \in {places[n] : n \in DOMAIN bits} /\ Over(i) # 0)}
    IN  IF ~ admitted THEN [state |-> "unknown", fields |-> <<>>, left |-> image]
        ELSE [state  |-> IF Len(image) >= last THEN "complete" ELSE "partial",
              fields |-> Reached(image, places, Reading), left |-> [i \in left |-> Over(i)]]

----------------------------------------------------------------------------
(* Service 09 of the standard: a view reads what the key it is given selects.*)
StandardState(key, raw, state) == [key |-> key, raw |-> raw, state |-> state]

Matches(selected, key, direction) ==
    /\ selected = key /\ selected.family # "" /\ selected.profile # ""
    /\ selected.direction = direction /\ selected.service \in 0..3

ViewBody(selected, key, raw) ==
    LET body == From(raw, 3)
        Seen(state, data, tail) == StandardState(key, raw, state) @@ [data |-> data, tail |-> tail]
    IN  CASE ~ Matches(selected, key, "positive") -> Seen("unknown", Absent, Absent)
          [] key.service = 2                      -> Seen("candidate", raw, Absent)
          [] Piece(raw, 0, 2) # <<9, key.service>> -> Seen("incomplete", Absent, Absent)
          [] key.service = 1 -> Seen(IF body = <<>> THEN "candidate" ELSE "unresolved", Absent, body)
          [] OTHER           -> Seen("candidate", body, Absent)

ViewAddress(selected, key, field) ==
    LET Seen(state, meaning) == StandardState(key, field, state) @@ meaning
    IN  CASE ~ Matches(selected, key, "abstract-request") -> Seen("unknown", <<>>)
          [] Len(field) # 2    -> Seen("incomplete", <<>>)
          [] key.service <= 1  -> Seen("candidate", [le |-> Word(field)])
          [] OTHER             -> Seen("candidate", [low |-> field[1], high |-> field[2]])

ViewCount(selected, key, count) ==
    LET Seen(state, meaning) == StandardState(key, <<count>>, state) @@ [value |-> count] @@ meaning
    IN  CASE ~ Matches(selected, key, "abstract-request") \/ key.service \notin {0, 2} -> Seen("unknown", <<>>)
          [] key.service = 2 -> Seen("candidate", [maximum |-> 10, conflict |-> count > 10])
          [] OTHER           -> Seen("candidate", <<>>)

----------------------------------------------------------------------------
(* Service 03: counters whose bytes are each two digits of a number.       *)
CounterLimits(selection) ==
    LET candidate == selection.selector = "candidate" /\ selection.direction = "request"
        standard  == selection.selector = "standard" /\ selection.direction = "positive"
    IN  CASE selection.family # "standard-counter" \/ selection.function # 3 \/ ~ (candidate \/ standard) -> Absent
          [] selection.variant = "03/04" /\ selection.operation = 4
             /\ selection.encoding = "unsigned-decimal-chunks" -> <<99, 99, 99>>
          [] selection.variant = "03/05" /\ selection.operation = 5 /\ candidate
             /\ selection.encoding = "unsigned-u8" -> <<59, 59, 59>>
          [] selection.variant = "03/06" /\ selection.operation = 6
             /\ selection.encoding = "unsigned-u8" -> <<59, 99, 99, 99>>
          [] OTHER -> Absent

Standard03(selection, body) ==
    LET limits == CounterLimits(selection)
        count  == Len(limits)
        valid  == {i \in 1..Min({count, Len(body)}) : body[i] <= limits[i]}
        state  == CASE valid # 1..Min({count, Len(body)}) -> "invalid"
                    [] Len(body) < count -> "incomplete"
                    [] Len(body) > count -> "extra"
                    [] OTHER             -> "complete-candidate"
        Component(i) ==
            CASE i > Len(body)  -> [state |-> "absent"]
              [] i \in valid    -> [state |-> "valid", raw |-> body[i], value |-> body[i]]
              [] OTHER          -> [state |-> "invalid", raw |-> body[i]]
        Digits(from) == body[from] + 100 * body[from + 1] + 10000 * body[from + 2]
        number == CASE state # "complete-candidate" -> <<>>
                    [] selection.variant = "03/04" -> [counter |-> Digits(1)]
                    [] selection.variant = "03/06" -> [minute |-> body[1], hours |-> Digits(2)]
                    [] OTHER                       -> <<>>
    IN  IF limits = Absent THEN [state |-> "raw-only", components |-> <<>>, remainder |-> <<>>]
        ELSE [state |-> state, components |-> [i \in 1..count |-> Component(i)],
              remainder |-> From(body, count + 1)] @@ number

----------------------------------------------------------------------------
(* Service 05: five bytes of a request to a burner.                        *)
Standard05(key, body) ==
    LET admitted == /\ key.family = "burner" /\ key.variant = "0501" /\ key.primary = 5 /\ key.secondary = 1
                    /\ key.operation = Absent /\ key.direction = "abstract-request"
                    /\ key.selector = "burner-five-field"
        names    == 0 :> "shutdown" @@ 85 :> "DHW" @@ 170 :> "heating" @@ 204 :> "emission-check"
                    @@ 238 :> "controller-stop"
        domains  == <<0..255, 0..90, 0..90, -128..127, 0..255>>
        Value(i) == IF i = 4 THEN Signed8(body[i]) ELSE body[i]
        Reading(i) ==
            CASE i > Len(body) -> [state |-> "absent", domain |-> "unknown"]
              [] i = 1 /\ body[i] \notin DOMAIN names -> [state |-> "unmapped", raw |-> body[i], domain |-> "unknown"]
              [] OTHER -> [state |-> "interpreted", raw |-> body[i], value |-> Value(i),
                           name   |-> IF i = 1 THEN names[body[i]] ELSE "",
                           domain |-> IF Value(i) \in domains[i] THEN "within-candidate-domain"
                                      ELSE "out-of-candidate-domain"]
    IN  IF ~ admitted THEN [state |-> "raw-only", complete |-> FALSE, fields |-> <<>>, remainder |-> body]
        ELSE [state |-> "candidate-body", complete |-> Len(body) = 5, fields |-> [i \in 1..5 |-> Reading(i)],
              remainder |-> From(body, 6)]
=============================================================================
