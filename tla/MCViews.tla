------------------------------- MODULE MCViews -------------------------------
(* Instances for every part of Views.                                      *)
EXTENDS Views, MCFrames

Tokens == {"/", ":", "@", "->", "Service", "a"}
MCSegments ==
    {[Name |-> name, Location |-> l] : name \in BoundedSeq(Tokens, 2), l \in BOOLEAN}

(* Two Service nodes and their counterparts on a second plane, with        *)
(* identifiers that need not be theirs, in graphs of at most two planes.   *)
PathOn(plane, name) == [Plane |-> plane, Segments |-> <<[Name |-> <<name>>, Location |-> FALSE]>>]
Plane2 == <<"P">>
CanonicalPaths == {PathOn(ServicePlane, "a"), PathOn(ServicePlane, "b")}
NodesOn(plane, paths) ==
    {[ID |-> PathText(c), Path |-> p, CanonicalPath |-> d] :
        c \in CanonicalPaths, p \in paths, d \in CanonicalPaths}
Edges == {<<>>, <<NewEdge(Plane2, PathText(PathOn(ServicePlane, "a")), PathText(PathOn(ServicePlane, "b")))>>}
ServiceGraphs ==
    {[Plane |-> ServicePlane, Nodes |-> n, Edges |-> <<>>] :
        n \in BoundedSeq(NodesOn(ServicePlane, CanonicalPaths), 2)}
PlaneGraphs ==
    {[Plane |-> Plane2, Nodes |-> n, Edges |-> e] :
        n \in BoundedSeq(NodesOn(Plane2, {PathOn(Plane2, "x"), PathOn(Plane2, "y")}), 2), e \in Edges}
MCGraphs == {<<s, p>> : s \in ServiceGraphs, p \in PlaneGraphs}
            \union {<<p>> : p \in PlaneGraphs}
            \union {<<p, q>> : p \in {g \in PlaneGraphs : Len(g.Nodes) = 1},
                               q \in {g \in PlaneGraphs : Len(g.Nodes) = 1}}

(* Two commands, in one service or in two, that differ in what could tell   *)
(* them apart; or one of them with a defect.                               *)
BaseIdentity ==
    [Namespace |-> "ebus_standard", PB |-> 3, SB |-> 4, SelectorPath |-> "",
     TelegramClass |-> "addressed", Direction |-> "request",
     RequestOrResponseRole |-> "initiator", BroadcastOrAddressed |-> "addressed",
     AnswerPolicy |-> "answer_required", LengthPrefixMode |-> "fixed",
     SelectorDecoder |-> "none", ServiceVariant |-> "v1",
     TransportCapabilityRequirements |-> <<>>, Version |-> "v1"]
Command(id, class, identity) == [ID |-> id, SafetyClass |-> class, Identity |-> identity]
SoundCommands ==
    {Command(id, class, [BaseIdentity EXCEPT !.SelectorDecoder = d, !.SelectorPath = p,
                             !.LengthPrefixMode = l, !.Direction = r]) :
        id \in {"m1", "m2"}, class \in {"read_only_safe", "mutating"}, d \in {"none", "first"},
        p \in {"", "x"}, l \in {"fixed", "byte_prefix"}, r \in {"request", "response"}}
Defects ==
    {Command("", "read_only_safe", BaseIdentity), Command("m2", "unheard", BaseIdentity)}
    \union {Command("m2", "mutating", identity) : identity \in
              {[BaseIdentity EXCEPT !.PB = Absent], [BaseIdentity EXCEPT !.PB = 5],
               [BaseIdentity EXCEPT !.Namespace = "ebus"], [BaseIdentity EXCEPT !.SB = Absent],
               [BaseIdentity EXCEPT !.TransportCapabilityRequirements = Absent],
               [BaseIdentity EXCEPT !.Version = ""], [BaseIdentity EXCEPT !.Version = "v2"],
               [BaseIdentity EXCEPT !.AnswerPolicy = "perhaps"]}}
Together(c, d) == <<[PB |-> 3, Commands |-> <<c, d>>]>>
Apart(c, d)    == <<[PB |-> 3, Commands |-> <<c>>], [PB |-> 3, Commands |-> <<d>>]>>
MCCatalogues ==
    {Together(c, d) : c \in {x \in SoundCommands : x.ID = "m1"}, d \in SoundCommands \union Defects}
    \union {Apart(c, d) : c \in {x \in SoundCommands : x.ID = "m1"}, d \in SoundCommands}
    \union {<<>>, <<[PB |-> 3, Commands |-> <<>>]>>,
            <<[PB |-> Absent, Commands |-> <<Command("m1", "mutating", BaseIdentity)>>]>>}

(* Selectors with a default and up to two conditions, over schemas that     *)
(* repeat a name, name an unknown type or a bit field of no size; versions  *)
(* of five digits at the 16-bit boundary, with letters, or without digits.  *)
SchemaField(name, type, size) == [name |-> name, type |-> type, size |-> size]
RawSchemas ==
    {<<>>, <<SchemaField("a", "BCD", 0), SchemaField("b", "WORD", 0)>>,
     <<SchemaField("a", "BITFIELD", 1), SchemaField("a", "DATA1B", 0)>>}
Unloadable == {<<SchemaField("a", "BITFIELD", 0)>>, <<SchemaField("", "WORD", 0)>>, <<SchemaField("a", "FLOAT", 0)>>}
Condition(target, min, max, schema) ==
    [target |-> target, min_hw |-> min, max_hw |-> max, schema |-> schema]
Conditions ==
    {Condition(t, min, max, s) : t \in {Absent, 8}, min \in {Absent, 0, 12}, max \in {Absent, 65535},
                                 s \in RawSchemas}
MCSelectors ==
    {[default |-> d, conditions |-> <<c>>] : d \in RawSchemas, c \in Conditions}
    \union {[default |-> <<>>, conditions |-> <<c, d>>] :
              c \in {x \in Conditions : x.schema = <<>>}, d \in {x \in Conditions : x.schema # <<>>}}
    \union {[default |-> d, conditions |-> <<>>] : d \in Unloadable}
MCTargets == {8, 21}
MCVersions == {<<>>, <<Other>>, <<0>>, <<1, Other, 2>>, <<6, 5, 5, 3, 5>>, <<6, 5, 5, 3, 6>>}
MCPayloads == {<<>>, <<18>>, <<18, 26, 3>>, <<26, 18, 3>>, <<18, 1, 2, 3>>}

MCProductRows ==
    {[column \in RequiredColumns |->
         CASE column = "part_number" -> number [] column = "role" -> role
           [] column = "family" -> family [] OTHER -> "x"] :
      number \in {"", "1", "2"}, role \in {"", "Regulator", "Thermostat", "Boiler"},
      family \in {"", "x"}}
    \union {[part_number |-> "1"]}
=============================================================================
