--------------------------- MODULE PvRegistryProps ---------------------------
(***************************************************************************)
(* What every retained asset, and every snapshot of it, satisfies.         *)
(***************************************************************************)
EXTENDS PvRegistry

(* The origins kept are those of the facts, the current source among them: *)
(* pruning drops no origin a fact refers to, and a rejected update leaves  *)
(* no source behind (registry.go:76-83, 149, 256-266).                     *)
Covers(origins, facts, source) ==
    /\ DOMAIN origins = {facts[k].origin : k \in DOMAIN facts}
    /\ source.observation \in DOMAIN origins
    /\ origins[source.observation] = source
OriginsCover(state) == Covers(state.origins, state.facts, state.source)
OriginsCoverFacts == \A a \in Asset : Retained(a) => OriginsCover(assets[a])

(* The merged accounting answers every requested output, and refers only   *)
(* to retained facts, through the observation they come from, or to the    *)
(* current source (registry.go:148, 339-425).                              *)
Accounted(state, key) ==
    LET p == state.projections[key]
    IN  /\ ProjectionKey(p) = key
        /\ p.outcome = "MAPPED" => /\ p.fact \in DOMAIN state.facts
                                  /\ p.sourceRef = state.facts[p.fact].origin
        /\ p.outcome # "MAPPED" => p.sourceRef = state.source.observation
ReportFollows(state) ==
    /\ state.requested = DOMAIN state.projections
    /\ \A key \in DOMAIN state.projections : Accounted(state, key)
ReportFollowsFacts == \A a \in Asset : Retained(a) => ReportFollows(assets[a])

(* What a snapshot says of a fact's age is true at the time it names, on   *)
(* unbounded integers: no sum in the code wraps (lifecycle.go:30-51).      *)
SnapshotsTellTheAge ==
    \A a \in Asset, t \in 0 .. MaxInt : Readable(a, t) =>
        LET seen == Snapshot(a, t).facts
        IN  \A k \in DOMAIN seen :
              LET age == t - seen[k].receipt
              IN  /\ seen[k].freshness = CASE age < FreshFor[seen[k].policy]   -> "FRESH"
                                           [] age >= RetainFor[seen[k].policy] -> "EXPIRED"
                                           [] OTHER                            -> "STALE"
                  /\ seen[k].availability = IF age < RetainFor[seen[k].policy]
                                            THEN "AVAILABLE" ELSE "UNAVAILABLE"
=============================================================================
