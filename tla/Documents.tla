------------------------------ MODULE Documents ------------------------------
(***************************************************************************)
(* What the frame views share: a JSON document with the context of a frame, *)
(* its fields byte by byte and arguments; the checks a view makes before it *)
(* reads one; and the records it answers with.                             *)
(*                                                                         *)
(* A JSON value is a record with one tag: int (written in plain digits),    *)
(* float (the same number with a fraction or an exponent), huge (an integer *)
(* beyond 64 bits), text, flag, null, array or object.  defects are what is *)
(* wrong with the text of the document as a whole.                         *)
(***************************************************************************)
EXTENDS Values

Plain(n)  == [int |-> n]
Float(n)  == [float |-> n]
Huge      == [huge |-> TRUE]
Text(s)   == [text |-> s]
Flag(b)   == [flag |-> b]
Null      == [null |-> TRUE]
Array(s)  == [array |-> s]
Object(f) == [object |-> f]

Is(value, tags) == value # Absent /\ DOMAIN value \subseteq tags

Member(value, name) == IF Is(value, {"object"}) THEN At(value.object, name) ELSE Absent

Context(document)   == Member(document.root, "context")
Arguments(document) == Member(document.root, "arguments")
FieldOf(document, name) == Member(Member(document.root, "fields"), name)
FieldNames(document)    == DOMAIN Member(document.root, "fields").object

NumberIn(value) == CASE Is(value, {"int"})   -> value.int
                     [] Is(value, {"float"}) -> value.float
                     [] OTHER                -> Absent

IsNumber(value, tags, most) ==
    Is(value, tags) /\ (most # Absent => NumberIn(value) # Absent /\ NumberIn(value) \in 0..most)

IsByteArray(value, tags) ==
    Is(value, {"array"}) /\ \A b \in Range(value.array) : IsNumber(b, tags, 255)

(* The checks before a document is read: refused are the defects looked for,*)
(* closed that no other member may be given, selectors and most the numbers *)
(* a context may hold, nullable that it may hold nulls, and bytes how the   *)
(* bytes of fields may be written.                                         *)
WellFormed(document, rule) ==
    /\ document.defects \cap rule.refused = {}
    /\ Is(document.root, {"object"})
    /\ rule.closed => DOMAIN document.root.object \subseteq {"context", "fields", "arguments"}

Readable(document, rule) ==
    LET Checked(name, IsRight(_)) ==
            LET value == Member(Context(document), name)
            IN  value = Absent \/ (rule.nullable /\ Is(value, {"null"})) \/ IsRight(value)
    IN  /\ WellFormed(document, rule)
        /\ Is(Context(document), {"object"})
        /\ Is(Member(document.root, "fields"), {"object"})
        /\ \A name \in {"primary", "secondary", "operation"} :
              Checked(name, LAMBDA v : IsNumber(v, rule.selectors, rule.most))
        /\ \A name \in {"direction", "view"} : Checked(name, LAMBDA v : Is(v, {"text"}))
        /\ \A name \in FieldNames(document) : IsByteArray(FieldOf(document, name), rule.bytes)

NoArguments(document) == Arguments(document) \in {Absent, Object(<<>>)}
ArgumentsAreAnObject(document) == Arguments(document) = Absent \/ Is(Arguments(document), {"object"})

(* The rules, each the one before it with a difference.                    *)
IntegerSelectors ==
    [refused |-> {"duplicate key", "trailing"}, closed |-> TRUE, selectors |-> {"int"},
     most |-> Absent, nullable |-> FALSE, bytes |-> {"int"}]
AnySelectors == [IntegerSelectors EXCEPT !.selectors = {"int", "huge"}]
OpenIntegers == [IntegerSelectors EXCEPT !.closed = FALSE]
OpenBytes    == [OpenIntegers EXCEPT !.most = 255]
NullableBytes == [OpenBytes EXCEPT !.nullable = TRUE]
Rationals    == [OpenBytes EXCEPT !.selectors = {"int", "float"}, !.bytes = {"int", "float"}]
NullableRationals == [Rationals EXCEPT !.nullable = TRUE]
Also(rule, defects) == [rule EXCEPT !.refused = @ \union defects]

----------------------------------------------------------------------------
(* What a readable document holds.                                         *)

(* A selector that is not given, or not an integer, is the zero of its type.*)
Selector(document, name) ==
    LET value == Member(Context(document), name)
    IN  IF value = Absent \/ Is(value, {"null"}) THEN 0
        ELSE IF Is(value, {"huge"}) THEN -1 ELSE NumberIn(value)
HasSelector(document, name) == Member(Context(document), name) \notin {Absent, Null}
TextOf(document, name) ==
    LET value == Member(Context(document), name)
    IN  IF Is(value, {"text"}) THEN value.text ELSE ""

Frame(document, secondary, operations, directions, views) ==
    /\ Selector(document, "primary") = 181
    /\ Selector(document, "secondary") = secondary
    /\ Selector(document, "operation") \in operations
    /\ TextOf(document, "direction") \in directions
    /\ TextOf(document, "view") \in views

Bytes(document, name) ==
    LET value == FieldOf(document, name)
    IN  IF value = Absent THEN Absent
        ELSE [i \in DOMAIN value.array |-> NumberIn(value.array[i])]
BytesOrNone(document, name) == IF Bytes(document, name) = Absent THEN <<>> ELSE Bytes(document, name)

Argument(document, name) == Member(Arguments(document), name)

----------------------------------------------------------------------------
(* Bytes, words and bits.                                                  *)

Piece(bytes, from, width) ==
    SubSeq(bytes, Min({from, Len(bytes)}) + 1, Min({from + width, Len(bytes)}))

Word(bytes) == bytes[1] + 256 * bytes[2]
Signed8(n)  == IF n >= 128 THEN n - 256 ELSE n
Signed16(n) == IF n >= 32768 THEN n - 65536 ELSE n

(* A number the code divides is kept as a ratio.                           *)
Ratio(n, d) == <<n, d>>

BitOf(n, i)  == (n \div 2 ^ i) % 2 = 1
Above(n, k)  == n - (n % (2 ^ k))
Flags(n, names) == [name \in Range(names) |-> BitOf(n, CHOOSE i \in 0..Len(names) - 1 : names[i + 1] = name)]

LabelAt(labels, n) == IF n < Len(labels) THEN labels[n + 1] ELSE ""

----------------------------------------------------------------------------
(* An answer is a state with what is said of each field: a state, the bytes *)
(* it is about (raw) and what they are taken to mean.                      *)

Answer(state, fields) == [state |-> state, fields |-> fields]
NothingSaid == Answer("Unknown", <<>>)
Saying(state, raw) == [state |-> state, raw |-> raw]
Claim(raw, meaning) == [state |-> "Hypothesis", raw |-> raw] @@ meaning
States(fields) == {fields[name].state : name \in DOMAIN fields}

(* Every field is left Unknown unless a view says more.                    *)
Unread(document) ==
    [name \in FieldNames(document) |-> Saying("Unknown", Bytes(document, name))]

(* The fields of given widths (Absent for any), read only when they are     *)
(* whole; an answer is complete when all of them are.                      *)
Exactly(document, widths, Meaning(_, _)) ==
    [name \in DOMAIN widths |->
        LET raw == Bytes(document, name)
        IN  CASE raw = Absent -> [state |-> "incomplete"]
              [] widths[name] # Absent /\ Len(raw) # widths[name] -> Saying("incomplete", raw)
              [] OTHER -> Meaning(name, raw)]

Widths(names, width) == [name \in names |-> width]
NumberOf(raw) == IF Len(raw) = 1 THEN raw[1] ELSE Word(raw)
(* Slip: an answer is complete as soon as one field is.                    *)
OverallOfAny(fields) == IF States(fields) = {"incomplete"} THEN "partial" ELSE "complete"
Overall(fields) == IF "incomplete" \in States(fields) THEN "partial" ELSE "complete"

(* The arguments that are given are numbers below a limit.                 *)
NumbersBelow(document, names, limit) ==
    \A name \in names : Argument(document, name) # Absent =>
                           IsNumber(Argument(document, name), {"int"}, limit - 1)
=============================================================================
