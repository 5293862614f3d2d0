----------------------------- MODULE Projections -----------------------------
(***************************************************************************)
(* The graphs a plane provider publishes about a device, the index that     *)
(* registering the device builds over them, and the portal's index over the *)
(* same graphs (projection.go, portal.go).  Texts are sequences of tokens:  *)
(* the separators, "Service", "->" and others stand for themselves.  A      *)
(* lookup that finds nothing, and a builder that fails, gives Absent.       *)
(***************************************************************************)
EXTENDS Values

ServicePlane == <<"Service">>

BlankText(text)      == Range(text) \subseteq {" "}
HasSeparator(text)   == Range(text) \intersect {"/", ":"} # {}
ValidPlane(plane)    == ~ BlankText(plane) /\ ~ HasSeparator(plane)

(* Slips of the check of a segment and of the text of an edge, as the       *)
(* project's mutants.                                                      *)
ValidSegmentUnmarked(segment) == ~ BlankText(segment.Name) /\ ~ HasSeparator(segment.Name)

ValidSegment(segment) ==
    /\ ~ BlankText(segment.Name)
    /\ ~ HasSeparator(segment.Name)
    /\ segment.Name[1] # "@"

ValidPath(path) ==
    ValidPlane(path.Plane) /\ \A s \in Range(path.Segments) : ValidSegment(s)

SegmentText(segment) == IF segment.Location THEN <<"@">> \o segment.Name ELSE segment.Name

PathText(path) ==
    IF path.Plane = <<>> THEN <<>>
    ELSE path.Plane \o <<":">>
         \o (IF path.Segments = <<>> THEN <<"/">>
             ELSE FlattenSeq([i \in DOMAIN path.Segments |->
                                 <<"/">> \o SegmentText(path.Segments[i])]))

StableNodeID(canonical) ==
    IF ValidPath(canonical) /\ canonical.Plane = ServicePlane
    THEN PathText(canonical) ELSE Absent

NewNode(path, canonical) ==
    IF /\ ValidPath(path)
       /\ StableNodeID(canonical) # Absent
       /\ path.Plane = ServicePlane => PathText(path) = PathText(canonical)
    THEN [ID |-> StableNodeID(canonical), Path |-> path, CanonicalPath |-> canonical]
    ELSE Absent

StableEdgeID(plane, from, to) ==
    IF ValidPlane(plane) /\ from # <<>> /\ to # <<>>
    THEN plane \o <<":">> \o from \o <<"->">> \o to ELSE Absent

NewEdge(plane, from, to) ==
    LET id == StableEdgeID(plane, from, to)
    IN  IF id = Absent THEN Absent ELSE [ID |-> id, From |-> from, To |-> to]

----------------------------------------------------------------------------
(* A projection as its provider made it.                                   *)

NodeIDs(projection) == {n.ID : n \in Range(projection.Nodes)}

ValidNodeOf(projection, n) ==
    /\ n.ID # <<>>
    /\ ValidPath(n.Path) /\ n.Path.Plane = projection.Plane
    /\ ValidPath(n.CanonicalPath) /\ n.CanonicalPath.Plane = ServicePlane

ValidProjection(projection) ==
    LET nodes == projection.Nodes IN
    /\ ValidPlane(projection.Plane)
    /\ \A n \in Range(nodes) : ValidNodeOf(projection, n)
    /\ \A i, j \in DOMAIN nodes : i # j =>
          /\ PathText(nodes[i].Path) # PathText(nodes[j].Path)
          /\ nodes[i].ID = nodes[j].ID =>
                PathText(nodes[i].CanonicalPath) = PathText(nodes[j].CanonicalPath)
    /\ \A e \in Range(projection.Edges) :
          e.ID # <<>> /\ {e.From, e.To} \subseteq NodeIDs(projection) \ {<<>>}

----------------------------------------------------------------------------
(* The canonical index: identifiers to Service paths, and each plane's      *)
(* identifiers to its own paths.                                           *)

ValidIndexedNodeUnnamed(projection, n) ==
    /\ StableNodeID(n.CanonicalPath) # Absent
    /\ projection.Plane = ServicePlane => PathText(n.Path) = PathText(n.CanonicalPath)

ValidIndexedNode(projection, n) ==
    /\ StableNodeID(n.CanonicalPath) # Absent
    /\ n.ID = StableNodeID(n.CanonicalPath)
    /\ projection.Plane = ServicePlane => PathText(n.Path) = PathText(n.CanonicalPath)

Planes(projections) == {p.Plane : p \in Range(projections)}

NodesOfPlane(projections, plane) ==
    UNION {Range(p.Nodes) : p \in {q \in Range(projections) : q.Plane = plane}}

AllNodes(projections) == UNION {Range(p.Nodes) : p \in Range(projections)}

IDsOfPlane(projections, plane) == {n.ID : n \in NodesOfPlane(projections, plane)}

OneCanonicalEach(nodes) ==
    \A m, n \in nodes : m.ID = n.ID => PathText(m.CanonicalPath) = PathText(n.CanonicalPath)

OnePathEach(nodes) == \A m, n \in nodes : m.ID = n.ID => PathText(m.Path) = PathText(n.Path)

ServiceKnows(projections) ==
    ServicePlane \in Planes(projections) =>
        \A plane \in Planes(projections) :
            IDsOfPlane(projections, plane) \subseteq IDsOfPlane(projections, ServicePlane)

BuildCanonicalIndex(projections) ==
    IF /\ \A p \in Range(projections) :
             ValidProjection(p) /\ \A n \in Range(p.Nodes) : ValidIndexedNode(p, n)
       /\ OneCanonicalEach(AllNodes(projections))
       /\ \A plane \in Planes(projections) : OnePathEach(NodesOfPlane(projections, plane))
       /\ ServiceKnows(projections)
    THEN [canonicalByID |->
             [id \in {n.ID : n \in AllNodes(projections)} |->
                 (CHOOSE n \in AllNodes(projections) : n.ID = id).CanonicalPath],
          planePaths |->
             [plane \in Planes(projections) |->
                 [id \in IDsOfPlane(projections, plane) |->
                     (CHOOSE n \in NodesOfPlane(projections, plane) : n.ID = id).Path]]]
    ELSE Absent

Canonical(index, id) ==
    IF id \in DOMAIN index.canonicalByID THEN index.canonicalByID[id] ELSE Absent

PlanePath(index, plane, id) ==
    IF plane \in DOMAIN index.planePaths /\ id \in DOMAIN index.planePaths[plane]
    THEN index.planePaths[plane][id] ELSE Absent

PlanePaths(index, id) ==
    [plane \in {p \in DOMAIN index.planePaths : id \in DOMAIN index.planePaths[p]} |->
        index.planePaths[plane][id]]

----------------------------------------------------------------------------
(* The portal: an index for each plane.                                    *)

HasDuplicates(s) == \E i, j \in DOMAIN s : i # j /\ s[i].ID = s[j].ID

(* At most one element fits: identifiers are unique where this is used.    *)
TheOne(S) == IF S = {} THEN Absent ELSE CHOOSE x \in S : TRUE

NewPlaneIndex(projection) ==
    IF ValidProjection(projection) /\ ~ HasDuplicates(projection.Nodes)
                                   /\ ~ HasDuplicates(projection.Edges)
    THEN [plane |-> projection.Plane, nodes |-> Range(projection.Nodes),
          edges |-> projection.Edges]
    ELSE Absent

NodeByID(index, id) == TheOne({n \in index.nodes : n.ID = id})

PlaneNodeByCanonical(index, canonical) == NodeByID(index, StableNodeID(canonical))

NodeByPath(index, path) ==
    IF ValidPath(path) /\ path.Plane = index.plane
    THEN TheOne({n \in index.nodes : PathText(n.Path) = PathText(path)}) ELSE Absent

PlaneEdgeByID(index, id) == TheOne({e \in Range(index.edges) : e.ID = id})
EdgesFrom(index, id)     == SelectSeq(index.edges, LAMBDA e : e.From = id)
EdgesTo(index, id)       == SelectSeq(index.edges, LAMBDA e : e.To = id)
EdgeCount(index)         == Len(index.edges)

NewPortalIndex(projections) ==
    IF /\ \A i, j \in DOMAIN projections : i # j => projections[i].Plane # projections[j].Plane
       /\ \A p \in Range(projections) : NewPlaneIndex(p) # Absent
    THEN [plane \in Planes(projections) |->
             NewPlaneIndex(CHOOSE p \in Range(projections) : p.Plane = plane)]
    ELSE Absent

NodeByCanonical(portal, plane, canonical) ==
    IF plane \in DOMAIN portal THEN PlaneNodeByCanonical(portal[plane], canonical) ELSE Absent

EdgeByID(portal, plane, id) ==
    IF plane \in DOMAIN portal THEN PlaneEdgeByID(portal[plane], id) ELSE Absent
=============================================================================
