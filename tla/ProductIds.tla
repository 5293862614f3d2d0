----------------------------- MODULE ProductIds -----------------------------
(***************************************************************************)
(* The table of product numbers and what it says of a number's ability to  *)
(* control (vaillant/productids), and the table of devices seeded before   *)
(* anything is heard of them.  A row of the parsed CSV is a function from   *)
(* its columns to trimmed texts; a short row has "" in the columns it lacks.*)
(***************************************************************************)
EXTENDS Values

RequiredColumns == {"brand", "family", "product_model", "part_number", "role"}

Cell(row, column) == IF column \in DOMAIN row THEN row[column] ELSE ""

RecordOf(row) == [column \in RequiredColumns |-> Cell(row, column)]

CompleteRecord(record) == \A column \in RequiredColumns : record[column] # ""

(* Every row is kept in All; the first complete one of a number names it.  *)
ParseCatalog(header, rows) ==
    IF ~ RequiredColumns \subseteq header THEN Absent
    ELSE LET all      == [i \in DOMAIN rows |-> RecordOf(rows[i])]
             complete == SelectSeq(all, CompleteRecord)
         IN  [All |-> all,
              ByPartNumber |->
                 [number \in {r.part_number : r \in Range(complete)} |->
                     Head(SelectSeq(complete, LAMBDA r : r.part_number = number))]]

(* Roles are compared without regard to case.                              *)
ControllerCapabilityForRole(role) ==
    IF role \in {"Regulator", "Thermostat"} THEN "Present" ELSE "None"

(* Slip: rows without a role are passed over.                              *)
AfterRowSkipping(capability, role) ==
    IF role = "" THEN capability
    ELSE LET classified == ControllerCapabilityForRole(role)
         IN  CASE capability = "unset"      -> classified
               [] capability = classified   -> capability
               [] OTHER                     -> "Unknown"

(* What is known after one more row of the number; "unset" before the first *)
(* and "Unknown" for good once a row has no role or contradicts.           *)
AfterRow(capability, role) ==
    LET classified == ControllerCapabilityForRole(role)
    IN  CASE capability = "Unknown" \/ role = "" -> "Unknown"
          [] capability = "unset"                -> classified
          [] capability = classified             -> capability
          [] OTHER                               -> "Unknown"

ControllerCapability(catalog, number) ==
    LET rows == SelectSeq(catalog.All, LAMBDA r : r.part_number = number)
        read == FoldLeft(LAMBDA c, r : AfterRow(c, r.role), "unset", rows)
    IN  CASE number = "" -> "Unknown"
          [] catalog.All # <<>> -> IF read = "unset" THEN "Unknown" ELSE read
          [] number \notin DOMAIN catalog.ByPartNumber -> "Unknown"
          [] catalog.ByPartNumber[number].role = "" -> "Unknown"
          [] OTHER -> ControllerCapabilityForRole(catalog.ByPartNumber[number].role)

----------------------------------------------------------------------------
Seed(addr, role) == [Addr |-> addr, Role |-> role, Confidence |-> "candidate"]

LoadSeedTable(enabled) ==
    IF ~ enabled THEN <<>>
    ELSE <<[Manufacturer |-> "Vaillant", DeviceID |-> "NETX3",
            Addresses |-> <<Seed(241, "initiator"), Seed(246, "target"),
                            Seed(4, "target"), Seed(255, "target")>>],
           [Manufacturer |-> "Vaillant", DeviceID |-> "BASV2",
            Addresses |-> <<Seed(21, "target"), Seed(236, "target")>>]>>
=============================================================================
