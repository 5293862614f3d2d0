------------------------------- MODULE Schemas -------------------------------
(***************************************************************************)
(* Payload schemas (package schema): decoding and encoding field by field,  *)
(* the choice of a schema by the target and its hardware version, and the  *)
(* loading of both from parsed JSON.  The data types are those of the bus  *)
(* library: a type is a record of its name and size; a value is the bytes  *)
(* it stands for, and BCD has no value for a byte with a digit above nine. *)
(***************************************************************************)
EXTENDS Values

SizeOf(type) == type.size

TypeDecode(type, bytes) ==
    IF type.name = "BCD" /\ (bytes[1] % 16 > 9 \/ bytes[1] \div 16 > 9) THEN Absent
    ELSE bytes

TypeEncode(type, value) == IF Len(value) = type.size THEN value ELSE Absent

----------------------------------------------------------------------------
(* A schema is a sequence of fields [Name, Type]; a type may be Absent.    *)

SizeTo(schema, n) ==
    FoldLeft(LAMBDA total, field :
                total + (IF field.Type = Absent \/ SizeOf(field.Type) <= 0
                         THEN 0 ELSE SizeOf(field.Type)),
             0, SubSeq(schema, 1, n))

Size(schema) == SizeTo(schema, Len(schema))

FieldValue(schema, i, payload) ==
    LET offset == SizeTo(schema, i - 1)
        type   == schema[i].Type
    IN  IF type = Absent \/ SizeOf(type) <= 0 \/ offset + SizeOf(type) > Len(payload)
        THEN Absent
        ELSE TypeDecode(type, SubSeq(payload, offset + 1, offset + SizeOf(type)))

(* The last field of a name keeps it.                                      *)
Decode(schema, payload) ==
    LET value(i) == FieldValue(schema, i, payload)
        named(n) == {i \in DOMAIN schema : schema[i].Name = n}
    IN  IF \E i \in DOMAIN schema : value(i) = Absent THEN Absent
        ELSE [n \in {field.Name : field \in Range(schema)} |->
                 value(CHOOSE i \in named(n) : \A j \in named(n) : j <= i)]

EncodeField(field, values) ==
    IF field.Type = Absent \/ field.Name \notin DOMAIN values THEN Absent
    ELSE LET encoded == TypeEncode(field.Type, values[field.Name])
         IN  IF encoded # Absent /\ SizeOf(field.Type) > 0 /\ Len(encoded) # SizeOf(field.Type)
             THEN Absent ELSE encoded

Encode(schema, values) ==
    IF schema = <<>> THEN <<>>
    ELSE IF values = Absent \/ \E f \in Range(schema) : EncodeField(f, values) = Absent
    THEN Absent
    ELSE FlattenSeq([i \in DOMAIN schema |-> EncodeField(schema[i], values)])

----------------------------------------------------------------------------
(* A hardware version is a sequence of characters, digits as numbers and   *)
(* anything else as Other: the digits are read as one 16-bit number.       *)

Other == 99
MaxHWVersion == 65535

ParseHWVersion(version) ==
    LET digits == SelectSeq(version, LAMBDA c : c # Other)
        number == FoldLeft(LAMBDA n, c : IF n > MaxHWVersion THEN n ELSE 10 * n + c, 0, digits)
    IN  IF digits = <<>> \/ number > MaxHWVersion THEN Absent ELSE number

(* Slip: a version that cannot be read is taken for zero.                  *)
AppliesToUnread(condition, target, hw) ==
    LET number == IF hw = Absent THEN 0 ELSE hw IN
    /\ condition.Target \in {Absent, target}
    /\ condition.MinHW # Absent => number >= condition.MinHW
    /\ condition.MaxHW # Absent => number <= condition.MaxHW

(* A condition's limits are Absent where it has none.                      *)
Applies(condition, target, hw) ==
    /\ condition.Target \in {Absent, target}
    /\ {condition.MinHW, condition.MaxHW} # {Absent} => hw # Absent
    /\ condition.MinHW # Absent => hw >= condition.MinHW
    /\ condition.MaxHW # Absent => hw <= condition.MaxHW

Select(selector, target, hwVersion) ==
    LET applying == SelectSeq(selector.Conditions,
                              LAMBDA c : Applies(c, target, ParseHWVersion(hwVersion)))
    IN  IF applying = <<>> THEN selector.Default ELSE Head(applying).Schema

----------------------------------------------------------------------------
(* Loading from JSON: a field names its type in any case.                  *)

TypeSize == [DATA1B |-> 1, DATA2C |-> 2, DATA2B |-> 2, EXP |-> 4, WORD |-> 2, BCD |-> 1]

DataTypeByName(name, size) ==
    CASE name \in DOMAIN TypeSize          -> [name |-> name, size |-> TypeSize[name]]
      [] name = "BITFIELD" /\ size > 0     -> [name |-> name, size |-> size]
      [] OTHER                             -> Absent

DecodeJSONSchema(raw) ==
    IF \E f \in Range(raw) : f.name = "" \/ f.type = "" \/ DataTypeByName(f.type, f.size) = Absent
    THEN Absent
    ELSE [i \in DOMAIN raw |->
             [Name |-> raw[i].name, Type |-> DataTypeByName(raw[i].type, raw[i].size)]]

LoadSchemaSelectorJSON(raw) ==
    LET schemas == {DecodeJSONSchema(raw.default)}
                   \union {DecodeJSONSchema(c.schema) : c \in Range(raw.conditions)}
    IN  IF Absent \in schemas THEN Absent
        ELSE [Default |-> DecodeJSONSchema(raw.default),
              Conditions |->
                 [i \in DOMAIN raw.conditions |->
                     [Target |-> raw.conditions[i].target, MinHW |-> raw.conditions[i].min_hw,
                      MaxHW |-> raw.conditions[i].max_hw,
                      Schema |-> DecodeJSONSchema(raw.conditions[i].schema)]]]
=============================================================================
