----------------------------- MODULE PvRegistry -----------------------------
(***************************************************************************)
(* The photovoltaic fact registry (src/pv/registry.go).  Apply takes one   *)
(* update of one asset: it works on a clone of what is retained, under the *)
(* registry's lock, and commits the clone or returns an error and drops    *)
(* it.  Nothing else changes the registry; Snapshot reads a clone.         *)
(***************************************************************************)
EXTENDS PvFacts, SequencesExt

CONSTANTS
    Asset,           \* well-formed asset references
    Observation,     \* digests of source observations
    Identity,        \* source identities, each with its registry reference
    Resolved,        \* the identities the resolver admits (external)
    Output,          \* references of requested outputs
    Update,          \* the updates callers may apply
    NoAsset,         \* nothing is retained for the asset
    MaxFacts, MaxOrigins, MaxOutputs,   \* 256, 256, 512
    MaxGeneration    \* bound on the updates of an asset, for TLC

VARIABLE assets

(* What an update lists are sequences, and a receipt is an integer. *)
UpdateLists(u) ==
    /\ u.facts = [i \in 1 .. Len(u.facts) |-> u.facts[i]]
    /\ u.requested = [i \in 1 .. Len(u.requested) |-> u.requested[i]]
    /\ u.report = [i \in 1 .. Len(u.report) |-> u.report[i]]
    /\ {Len(u.facts), Len(u.requested), Len(u.report)} \subseteq Nat
    /\ \A i \in 1 .. Len(u.facts) : u.facts[i].receipt \in Int

ASSUME UpdateAssumption == \A u \in Update : UpdateLists(u)

SourceTimeState == {"UNAVAILABLE", "VALID", "INVALID"}
Quality         == {"GOOD", "SUSPECT", "BAD"}
Outcome         == {"MAPPED", "WITHHELD", "UNREPRESENTABLE"}

Init == assets = [a \in Asset |-> NoAsset]

Empty ==
    [generation |-> 0, source |-> NoAsset, sourceTime |-> NoAsset,
     facts |-> <<>>, origins |-> <<>>, requested |-> {}, projections |-> <<>>]
Clone(a) == IF assets[a] = NoAsset THEN Empty ELSE assets[a]

KeyOf(input) == NewFactKey(input.ID, input.Dimensions)
Keys(u)      == {KeyOf(u.facts[i]) : i \in DOMAIN u.facts}
InputOf(u, k) == u.facts[CHOOSE i \in DOMAIN u.facts : KeyOf(u.facts[i]) = k]

ProjectionKey(p) == <<p.sourceRef, p.outputRef>>
ReportOf(u, key) ==
    u.report[CHOOSE i \in DOMAIN u.report : ProjectionKey(u.report[i]) = key]

-----------------------------------------------------------------------------
(* What is checked of an update before the lock is taken *)

ValidateProvenance(source) == source.identity \in Resolved

WithinInputLimits(u) ==
    /\ u.sourceTime \in SourceTimeState
    /\ Len(u.facts) \in 1 .. MaxFacts
    /\ Len(u.requested) \in 1 .. MaxOutputs
    /\ Len(u.report) = Len(u.requested)

Distinct(seq, Of(_)) == \A i, j \in DOMAIN seq : Of(seq[i]) = Of(seq[j]) => i = j

ValidProjection(u, p) ==
    /\ ProjectionKey(p) \in ToSet(u.requested)
    /\ p.sourceRef = u.source.observation
    /\ p.outcome \in Outcome
    /\ (p.outcome = "MAPPED") <=> (p.fact # <<>>)

MappedTo(u, k) == {i \in DOMAIN u.report : u.report[i].outcome = "MAPPED" /\ u.report[i].fact = k}

ValidateAccounting(u) ==
    /\ Distinct(u.requested, LAMBDA r : r)
    /\ Distinct(u.report, ProjectionKey)
    /\ \A i \in DOMAIN u.report : ValidProjection(u, u.report[i])
    /\ \A k \in Keys(u) : Cardinality(MappedTo(u, k)) = 1
    /\ \A i \in DOMAIN u.report : u.report[i].outcome = "MAPPED" => u.report[i].fact \in Keys(u)

WellFormed(u) ==
    /\ ValidateProvenance(u.source)
    /\ WithinInputLimits(u)
    /\ Distinct(u.facts, KeyOf)
    /\ ValidateAccounting(u)
    /\ u.evaluated >= 0

-----------------------------------------------------------------------------
(* What is checked and changed under it *)

FactsEvaluable(facts, evaluated) ==
    \A k \in DOMAIN facts : Evaluable(facts[k].policy, facts[k].receipt, evaluated)
EvaluatedFact(fact, evaluated) ==
    [fact EXCEPT !.availability = Availability(fact.policy, fact.receipt, evaluated),
                 !.freshness    = Freshness(fact.policy, fact.receipt, evaluated)]
EvaluateRetainedFacts(facts, evaluated) ==
    [k \in DOMAIN facts |-> EvaluatedFact(facts[k], evaluated)]

SameSourceIdentity(l, r) == l.identity = r.identity

SourceAdmitted(state, u) ==
    u.source.observation \in DOMAIN state.origins =>
        state.origins[u.source.observation] = u.source

(* Slip: whether the retained reading has expired since does not matter.   *)
AvailableWhenStored(state, k, u) ==
    /\ state.facts[k].availability = "AVAILABLE"
    /\ SameSourceIdentity(state.origins[state.facts[k].origin], u.source)
(* A counter goes on from a reading that is still retained, of one source. *)
Continues(state, k, u) ==
    /\ Availability(state.facts[k].policy, state.facts[k].receipt, u.evaluated) = "AVAILABLE"
    /\ SameSourceIdentity(state.origins[state.facts[k].origin], u.source)

ContinuityOf(state, k, u) ==
    CASE k \notin DOMAIN state.facts ->
            EvaluateCounter(NoDecimal, InputOf(u, k).Value, InputOf(u, k).counter)
      [] k \in DOMAIN state.facts /\ Continues(state, k, u) ->
            EvaluateCounter(state.facts[k].value, InputOf(u, k).Value, InputOf(u, k).counter)
      [] OTHER -> Continuity("DISCONTINUITY")

CounterAccepted(state, input, u) ==
    IF CatalogV1[input.ID].Accumulator
    THEN ContinuityOf(state, KeyOf(input), u) # Rejected
    ELSE input.counter = NoEvidence

InputAccepted(state, input, u) ==
    /\ ValidateCandidate(input)
    /\ input.policy = CatalogV1[input.ID].Policy
    /\ input.quality \in Quality
    /\ Evaluable(input.policy, input.receipt, u.evaluated)
    /\ CounterAccepted(state, input, u)

RecordedFact(state, input, u) ==
    [value        |-> input.Value,
     quality      |-> input.quality,
     policy       |-> input.policy,
     receipt      |-> input.receipt,
     availability |-> Availability(input.policy, input.receipt, u.evaluated),
     freshness    |-> Freshness(input.policy, input.receipt, u.evaluated),
     origin       |-> u.source.observation,
     continuity   |-> IF CatalogV1[input.ID].Accumulator
                      THEN ContinuityOf(state, KeyOf(input), u) ELSE Continuity("")]

RecordedFacts(state, u) ==
    [k \in DOMAIN state.facts \union Keys(u) |->
        IF k \in Keys(u) THEN RecordedFact(state, InputOf(u, k), u)
                         ELSE EvaluatedFact(state.facts[k], u.evaluated)]

(* Every retained fact is available or unavailable, so presence decides.   *)
ThreePhaseTelemetrySatisfied(keys) == ThreePhaseRequiredKeys \subseteq keys

(* What an update supersedes: the projections of the facts it brings, and  *)
(* every projection that was not mapped.                                   *)
Superseded(projections, u) ==
    {key \in DOMAIN projections :
        \/ projections[key].outcome # "MAPPED"
        \/ projections[key].fact \in Keys(u)}
Reported(u) == {ProjectionKey(u.report[i]) : i \in DOMAIN u.report}

(* Slip: what an update supersedes is kept. *)
MergeKept(projections, u) ==
    [key \in DOMAIN projections \union Reported(u) |->
        IF key \in Reported(u) THEN ReportOf(u, key) ELSE projections[key]]
MergeProjections(projections, u) ==
    [key \in (DOMAIN projections \ Superseded(projections, u)) \union Reported(u) |->
        IF key \in Reported(u) THEN ReportOf(u, key) ELSE projections[key]]
MergeRequested(state, u) ==
    (state.requested \ Superseded(state.projections, u)) \union ToSet(u.requested)

Referenced(source, facts) ==
    {source.observation} \union {facts[k].origin : k \in DOMAIN facts}
PruneOrigins(origins, source, facts) ==
    [o \in DOMAIN origins \intersect Referenced(source, facts) |-> origins[o]]
WithOrigin(origins, source) ==
    [o \in DOMAIN origins \union {source.observation} |->
        IF o = source.observation THEN source ELSE origins[o]]

Updated(state, u) ==
    [generation  |-> state.generation + 1,
     source      |-> u.source,
     sourceTime  |-> u.sourceTime,
     facts       |-> RecordedFacts(state, u),
     origins     |-> PruneOrigins(WithOrigin(state.origins, u.source), u.source,
                                  RecordedFacts(state, u)),
     requested   |-> MergeRequested(state, u),
     projections |-> MergeProjections(state.projections, u)]

Fits(state) ==
    /\ Cardinality(DOMAIN state.facts) <= MaxFacts
    /\ Cardinality(DOMAIN state.origins) <= MaxOrigins
    /\ Cardinality(state.requested) <= MaxOutputs
    /\ Cardinality(DOMAIN state.projections) <= MaxOutputs

Accepted(state, u) ==
    /\ u.satisfied = ThreePhaseTelemetrySatisfied(DOMAIN state.facts \union Keys(u))
    /\ WellFormed(u)
    /\ FactsEvaluable(state.facts, u.evaluated)
    /\ SourceAdmitted(state, u)
    /\ \A i \in DOMAIN u.facts : InputAccepted(state, u.facts[i], u)
    /\ Fits(Updated(state, u))

(* Slip: the clone's source is the retained asset's. *)
SourceLeaks(state, u) ==
    IF WellFormed(u) /\ FactsEvaluable(state.facts, u.evaluated)
    THEN [state EXCEPT !.source = u.source] ELSE state
(* The clone an error drops leaves what was retained. *)
Abandoned(state, u) == state

Commit(u) ==
    /\ assets[u.asset] # NoAsset => assets[u.asset].generation < MaxGeneration
    /\ Accepted(Clone(u.asset), u)
    /\ assets' = [assets EXCEPT ![u.asset] = Updated(Clone(u.asset), u)]
Refuse(u) ==
    /\ assets[u.asset] # NoAsset
    /\ ~ Accepted(assets[u.asset], u)
    /\ assets' = [assets EXCEPT ![u.asset] = Abandoned(@, u)]
Apply(u) == Commit(u) \/ Refuse(u)

Next == \E u \in Update : Apply(u)
Spec == Init /\ [][Next]_assets

-----------------------------------------------------------------------------
(* Snapshot: a reader's view of an asset at a time it names.               *)

Retained(a) == assets[a] # NoAsset
Readable(a, evaluated) ==
    Retained(a) /\ evaluated >= 0 /\ FactsEvaluable(assets[a].facts, evaluated)
Snapshot(a, evaluated) ==
    [assets[a] EXCEPT
        !.facts   = EvaluateRetainedFacts(@, evaluated),
        !.origins = PruneOrigins(@, assets[a].source, assets[a].facts)]
=============================================================================
