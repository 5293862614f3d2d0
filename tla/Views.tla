-------------------------------- MODULE Views --------------------------------
(***************************************************************************)
(* The parts of the library that are functions of their input: each is     *)
(* given an input, and the invariants relate what its operators make of it. *)
(* given is the input of the last call, by the part it belongs to; a frame  *)
(* is given byte by byte.                                                   *)
(***************************************************************************)
EXTENDS Projections, EbusStandard, Schemas, ProductIds, FrameViews

CONSTANTS
    Segments,         \* path segments, as a caller may make them
    MaxSegments,
    Graphs,           \* lists of projections, as providers may make them
    Catalogues,       \* parsed catalogue documents
    Selectors,        \* parsed schema selectors
    Targets,
    Versions,         \* hardware versions, character by character
    Payloads,
    ProductRows,      \* rows of the product table
    MaxRows,
    Frames,           \* views, each with the documents of frames it is asked about
    Bodies            \* bodies, each with the view and the key it is given under

VARIABLE given

Nothing == [part |-> "nothing"]
Given(part) == given.part = part

Init == given = Nothing

PathsOf(plane) ==
    {[Plane |-> plane, Segments |-> s] : s \in BoundedSeq(Segments, MaxSegments)}

PathTexts == [q \in {p \in PathsOf(ServicePlane) : ValidPath(p)} |-> PathText(q)]

AskPath ==
    /\ Given("nothing")
    /\ \E path \in PathsOf(ServicePlane) : given' = [part |-> "path", path |-> path]

AskGraph ==
    /\ Given("nothing")
    /\ \E graph \in Graphs : given' = [part |-> "graph", graph |-> graph]

AskCatalog ==
    /\ Given("nothing")
    /\ \E document \in Catalogues : given' = [part |-> "catalog", document |-> document]

AskSchema ==
    /\ Given("nothing")
    /\ \E s \in Selectors, t \in Targets, v \in Versions, p \in Payloads :
          given' = [part |-> "schema", selector |-> s, target |-> t, version |-> v, payload |-> p]

AskProduct ==
    /\ Given("nothing")
    /\ \E rows \in BoundedSeq(ProductRows, MaxRows), number \in {"", "1", "2"} :
          given' = [part |-> "product", rows |-> rows, number |-> number]

AskFrame ==
    /\ Given("nothing")
    /\ \E frame \in Frames : \E document \in frame.documents :
          given' = [part |-> "frame", view |-> frame.view, document |-> document]

AskBody ==
    /\ Given("nothing")
    /\ \E body \in Bodies :
          given' = [part |-> "body", kind |-> body.kind, key |-> body.key, bytes |-> body.bytes]

Next == AskPath \/ AskGraph \/ AskCatalog \/ AskSchema \/ AskProduct \/ AskFrame \/ AskBody

Spec == Init /\ [][Next]_given

----------------------------------------------------------------------------
(* Two valid paths have one text only if they are the same path, and so    *)
(* have the identifiers of nodes and edges (StableNodeID, StableEdgeID,     *)
(* projection.go:89-97, 123-131): the indexes compare texts.               *)
IdentifiersAreInjective ==
    Given("path") /\ ValidPath(given.path) =>
        LET text  == PathText(given.path)
            Short == {q \in DOMAIN PathTexts : Len(q.Segments) = 1 /\ ~ q.Segments[1].Location}
            Edge(p, q) == StableEdgeID(<<"P">>, PathTexts[p], PathTexts[q])
        IN  /\ \A q \in DOMAIN PathTexts : PathTexts[q] = text => q = given.path
            /\ given.path \in Short =>
                  \A from, q, r \in Short :
                     Edge(given.path, from) = Edge(q, r) => given.path = q /\ from = r

(* Of the projections a registered device publishes (those an index was    *)
(* built for), the portal finds by a Service path exactly the node that    *)
(* stands for it on the plane, as the canonical index does, and finds that *)
(* node by its own path; an edge of it leads to a node of the plane and is *)
(* found from both ends (portal.go:81-276, projection.go:196-272).         *)
PortalAgreesWithIndex ==
    Given("graph") =>
        LET graph  == given.graph
            index  == BuildCanonicalIndex(graph)
            portal == NewPortalIndex(graph)
        IN  (index # Absent /\ portal # Absent) =>
                \A plane \in Planes(graph) : \A n \in AllNodes(graph) :
                    LET found == NodeByCanonical(portal, plane, n.CanonicalPath)
                        id    == StableNodeID(n.CanonicalPath)
                        stand == {m \in NodesOfPlane(graph, plane) :
                                     m.CanonicalPath = n.CanonicalPath}
                    IN  /\ found = TheOne(stand)
                        /\ PlanePath(index, plane, id) =
                              (IF found = Absent THEN Absent ELSE found.Path)
                        /\ found # Absent =>
                              /\ Canonical(index, id) = n.CanonicalPath
                              /\ NodeByPath(portal[plane], found.Path) = found
                              /\ \A e \in Range(EdgesFrom(portal[plane], id)) :
                                    /\ e = EdgeByID(portal, plane, e.ID)
                                    /\ NodeByID(portal[plane], e.To) # Absent
                                    /\ e \in Range(EdgesTo(portal[plane], e.To))

(* In a catalogue the loader accepts, what a receiver can see of a frame   *)
(* before it has decoded any length, the branch its selector takes         *)
(* included, settles how lengths are encoded; each command is listed under *)
(* its own service byte and told apart from every other; and where the     *)
(* provider accepts it too, a method identifier reaches the one command    *)
(* that has it, and passes only if that command changes nothing            *)
(* (loader_yaml.go:18-338, provider.go:143-227).                           *)
CatalogsAreUnambiguous ==
    Given("catalog") =>
        LET catalog  == LoadCatalog(given.document)
            provider == NewProvider(catalog, TRUE)
            Seen(k)  == <<k.PB, k.SB, k.Direction, k.RequestOrResponseRole, k.SelectorDecoder,
                          IF k.SelectorDecoder = "none" THEN "no branch" ELSE k.SelectorPath>>
        IN  catalog # Absent =>
              /\ \A s \in Range(catalog) : \A c \in Range(s.Commands) : c.Identity.PB = s.PB
              /\ \A i, j \in DOMAIN AllCommands(catalog) :
                    LET k == AllCommands(catalog)[i].Identity
                        l == AllCommands(catalog)[j].Identity
                    IN  /\ i # j => k # l
                        /\ Seen(k) = Seen(l) => k.LengthPrefixMode = l.LengthPrefixMode
              /\ provider # Absent =>
                    \A c \in Range(AllCommands(catalog)) :
                       /\ provider.methodIdx[c.ID] = c
                       /\ (InvokeMethod(provider, c.ID) = "passed") <=>
                              c.SafetyClass \notin {"mutating", "destructive", "broadcast",
                                                    "memory_write"}

(* A schema is preferred to the default only for a target and a version the *)
(* first condition with that schema admits, read as a decimal number that   *)
(* fits 16 bits; and what it decodes from a payload, if every field has its *)
(* own name, encodes to the bytes it was decoded from (schema.go:22-89,     *)
(* selector.go:21-59).                                                      *)
SchemasRoundTrip ==
    Given("schema") =>
        LET selector == LoadSchemaSelectorJSON(given.selector)
            digits   == SelectSeq(given.version, LAMBDA c : c \in 0..9)
            number   == FoldSet(LAMBDA i, sum : sum + digits[i] * 10 ^ (Len(digits) - i),
                                0, DOMAIN digits)
            fits     == digits # <<>> /\ number <= 65535
            Admits(c) ==
                /\ c.Target # Absent => c.Target = given.target
                /\ c.MinHW # Absent => fits /\ number >= c.MinHW
                /\ c.MaxHW # Absent => fits /\ number <= c.MaxHW
            admitting == {i \in DOMAIN selector.Conditions : Admits(selector.Conditions[i])}
            schema    == Select(selector, given.target, given.version)
            values    == Decode(schema, given.payload)
        IN  selector # Absent =>
              /\ schema = (IF admitting = {} THEN selector.Default
                           ELSE selector.Conditions[Min(admitting)].Schema)
              /\ values # Absent /\ IsInjective([i \in DOMAIN schema |-> schema[i].Name]) =>
                    Encode(schema, values) = SubSeq(given.payload, 1, Size(schema))

(* A product number is said to control, or not to, only when every row of   *)
(* the table that has the number says the same of it, in whatever order the *)
(* rows come (catalog.go:120-177).                                          *)
CapabilityNeedsAgreement ==
    Given("product") =>
        LET catalog  == ParseCatalog(RequiredColumns, given.rows)
            claim    == ControllerCapability(catalog, given.number)
            roles    == {r.role : r \in {x \in Range(catalog.All) : x.part_number = given.number}}
            controls == {"Regulator", "Thermostat"}
        IN  /\ claim = "Present" <=> given.number # "" /\ roles # {} /\ roles \subseteq controls
            /\ claim = "None" <=>
                  given.number # "" /\ roles # {} /\ roles \cap (controls \union {""}) = {}

(* A frame once more, with one of its fields changed.                      *)
Changes == {"none", "left out", "cut", "next", "opposite"}
Changed(document, f, change) ==
    LET bytes == Bytes(document, f)
        Moved(by) == [i \in DOMAIN bytes |-> (bytes[i] + by) % 256]
    IN  IF change = "none" THEN document
        ELSE WithBytes(document, f, CASE change = "left out" -> Absent
                                      [] change = "cut"      -> Front(bytes)
                                      [] change = "next"     -> Moved(1)
                                      [] OTHER               -> Moved(128))

(* What a view claims of a frame rests on the frame's own bytes.  Every     *)
(* claim is about a stretch of one field.  Where a field is left out, or a  *)
(* complete frame is cut, what is still claimed of the same bytes is what   *)
(* was claimed, or less, and the answer is complete no more if the field    *)
(* had a reading.  Other bytes have another reading: no bit is lost.        *)
(* Ambiguous text is refused by every view (ab01ao01_b505_sentinel_views.go:*)
(* 70-174 and the views like it).                                          *)
FramesAreReadAsGiven(answers) ==
    LET document == given.document
        answer   == answers["", "none"]
        read     == {f \in FieldNames(document) : BytesOrNone(document, f) # <<>>}
        Less(part, whole) ==
            \A m \in DOMAIN part : part[m] = Absent \/ (m \in DOMAIN whole /\ part[m] = whole[m])
        (* Claims that follow from the frame, but are not its bytes read.  *)
        derived == given.view \in {"B510Cache", "B511Failure", "B531Limit"}
        NoMoreThan(f, rest) ==
            /\ \A n \in Claims(answer) \cap Claims(rest) :
                  rest.fields[n].raw = answer.fields[n].raw => Less(rest.fields[n], answer.fields[n])
            /\ f \in Claims(answer) /\ answer.fields[f].raw = Bytes(document, f)
               /\ IsReading(answer.fields[f]) /\ SaysAll(answer) => ~ SaysAll(rest)
        ReadApart(other) ==
            \A n \in Claims(answer) \cap Claims(other) :
               LET here  == answer.fields[n]
                   there == other.fields[n]
               IN  here.raw # there.raw /\ IsReading(here) /\ DOMAIN there = DOMAIN here
                      => Quantity(there) # Quantity(here)
    IN  /\ document.defects \cap {"duplicate key", "trailing"} # {} => answer = Absent
        /\ answer # Absent =>
              \A n \in Claims(answer) :
                 \E f \in read : \E from \in 0..Len(Bytes(document, f)) :
                    answer.fields[n].raw = Piece(Bytes(document, f), from, Len(answer.fields[n].raw))
        /\ answer # Absent /\ Claims(answer) # {} =>
              \A f \in read :
                 /\ NoMoreThan(f, answers[f, "left out"])
                 /\ SaysAll(answer) => NoMoreThan(f, answers[f, "cut"])
                 /\ ~ derived => ReadApart(answers[f, "next"]) /\ ReadApart(answers[f, "opposite"])

(* A view of a body tells bodies apart: where it reads two of one key that  *)
(* differ by a byte or in length, it says something else of them, so that a *)
(* byte too many is never dropped nor a missing one made up; and more bytes *)
(* at the end change nothing it read before (ab13an13_b512_dhw_views.go:    *)
(* 65-153, ab76_standard03_candidate_views.go:72-147 and the views like it).*)
BodiesAreToldApart ==
    LET View(bytes) == BodyOf(given.kind, given.key, bytes)
        here  == View(given.bytes)
        size  == Len(given.bytes)
        Said(answer) == Restrict(answer, DOMAIN answer \ {"raw"})
        Reads(answer) == /\ answer.state \notin {"unknown", "raw-only"}
                         /\ answer.state = "incomplete" => "components" \in DOMAIN answer
        changed == {[given.bytes EXCEPT ![i] = (@ + by) % 256] : i \in 1..size, by \in {1, 128}}
        others  == changed \union (IF given.kind = "count" THEN {}
                                   ELSE {given.bytes \o <<0>>} \union (IF size = 0 THEN {} ELSE {Front(given.bytes)}))
        longer  == View(given.bytes \o <<0>>)
    IN  /\ \A other \in others : Reads(here) /\ Reads(View(other)) => Said(View(other)) # Said(here)
        /\ given.kind = "B512Dhw" =>
              \A n \in DOMAIN here.fields : longer.fields[n] = here.fields[n]

(* What a view claims rests on the bytes it was given, of a frame with its  *)
(* named fields and of a bare body alike.                                   *)
ClaimsRestOnTheirBytes ==
    /\ Given("frame") =>
          FramesAreReadAsGiven([f \in STRING, change \in Changes |->
                                   EvaluateView(given.view, Changed(given.document, f, change))])
    /\ Given("body") => BodiesAreToldApart

(* A calculation uses only what counts in it.  Whether a counter changed is *)
(* its growth, so all counters moved on together, past their wrap too, give *)
(* the same result but where one was unread; what a row adds to the sums    *)
(* does not depend on its place, if it is not the second; and nothing of    *)
(* the days after the one a week stopped at plays a role                    *)
(* (ab05ap05_b516_cycle_reducer.go:168-244, ab03ap03_b531_ordinary_limit.go:*)
(* 150-229, ab07ap07_b555_weekly_refresh.go:142-277).                       *)
CalculationsUseOnlyWhatCounts ==
    Given("frame") =>
        LET document == given.document
            WithItems(name, seq) == WithMember(document, "arguments", name, Array(seq))
            Items(name)       == Argument(document, name).array
            Swapped(seq, i, j) == [seq EXCEPT ![i] = seq[j], ![j] = seq[i]]
            Moved(slot, name, by) ==
                IF Member(slot, name) = Absent THEN slot
                ELSE With(slot, name, Plain((NumberAt(slot, name) + by) % Wrap))
            NotRead(slot, by) == NumberAt(slot, "prior") \in {Wrap - 1, (Wrap - 1 - by) % Wrap}
            CycleAgrees(answer, slots) ==
                answer # Absent /\ "slots" \in DOMAIN answer =>
                  /\ \A by \in {1, 2, Wrap \div 2} :
                        LET later == [i \in 1..9 |-> Moved(Moved(slots[i], "prior", by), "value", by)]
                            other == B516Cycle(WithItems("slots", later))
                        IN  \A i \in 1..9 : ~ NotRead(slots[i], by) =>
                               other.slots[i].changed = answer.slots[i].changed
                  /\ LET other == B516Cycle(WithItems("slots", Swapped(slots, 1, 9)))
                     IN  /\ other.sum = answer.sum /\ other.failures = answer.failures
                         /\ other.slots = Swapped(answer.slots, 1, 9)
            LimitAgrees(answer, rows) ==
                answer # Absent /\ "effective" \in DOMAIN answer =>
                  LET other == B531Limit(WithItems("rows", Swapped(rows, 1, 9)))
                  IN  /\ other.tokens = answer.tokens /\ other.maxima = answer.maxima
                      /\ other.effective = answer.effective /\ other.fields = answer.fields
            WeekAgrees(answer, days) ==
                answer # Absent /\ answer.state = "partial" =>
                  \A day \in Range(days) :
                     LET after == [d \in 1..7 |-> IF d > answer.fields["weekly"].completed + 1 THEN day ELSE days[d]]
                     IN  B555Refresh(WithItems("days", after)) = answer
        IN  /\ given.view = "B516Cycle"   => CycleAgrees(B516Cycle(document), Items("slots"))
            /\ given.view = "B531Limit"   => LimitAgrees(B531Limit(document), Items("rows"))
            /\ given.view = "B555Refresh" => WeekAgrees(B555Refresh(document), Items("days"))
=============================================================================
