-------------------------- MODULE PvRegistryProofs --------------------------
(***************************************************************************)
(* The invariants of the retained state, for any updates, sources, limits  *)
(* and policies, and of the registry while it is polled.  Those of what is *)
(* retained are inductive once every retained fact is known to have an     *)
(* origin: an update is merged into a clone that satisfies them, or drops  *)
(* it.  What is counted of a meter is bounded by what it measured because  *)
(* the reading retained of it leaves room for what it measured since.      *)
(***************************************************************************)
EXTENDS PvPolling, FiniteSetTheorems, TLAPS

(* What an update lists, and that the checks before the lock passed.       *)
Listed(u) ==
    /\ DOMAIN u.facts = 1 .. Len(u.facts) /\ Len(u.facts) \in Nat
    /\ DOMAIN u.requested = 1 .. Len(u.requested) /\ Len(u.requested) \in Nat
    /\ DOMAIN u.report = 1 .. Len(u.report) /\ Len(u.report) \in Nat
    /\ \A i \in 1 .. Len(u.facts) : u.facts[i].receipt \in Int

HasOrigins(state) == \A k \in DOMAIN state.facts : "origin" \in DOMAIN state.facts[k]
Sound(state) == OriginsCover(state) /\ ReportFollows(state) /\ HasOrigins(state)

(* The clone an update works on: what is retained, or nothing at all.      *)
Workable(state) == state = Empty \/ Sound(state)

IInv ==
    /\ DOMAIN assets = Asset
    /\ \A a \in Asset : Retained(a) => Sound(assets[a])

LEMMA ListingIsListed ==
    ASSUME NEW u, UpdateLists(u)
    PROVE  Listed(u)
BY DEF UpdateLists, Listed

(* A sequence without repetitions has as many members as places. *)
LEMMA DistinctImage ==
    ASSUME NEW n \in Nat, NEW T, NEW f \in [1 .. n -> T],
           \A t \in T : \E i \in 1 .. n : f[i] = t,
           \A i, j \in 1 .. n : f[i] = f[j] => i = j
    PROVE  IsFiniteSet(T) /\ Cardinality(T) = n
<1>1. f \in Bijection(1 .. n, T)
  BY DEF Bijection, Injection, Surjection, IsInjective
<1>2. ExistsBijection(1 .. n, T)
  BY <1>1 DEF ExistsBijection
<1>3. QED
  BY <1>2, FS_CountingElements, FS_Bijection, FS_Interval

(* As many projections as requests, each of its own request: every request *)
(* is answered.                                                            *)
LEMMA EveryRequestIsAnswered ==
    ASSUME NEW u, Listed(u), ValidateAccounting(u), Len(u.report) = Len(u.requested)
    PROVE  ToSet(u.requested) = Reported(u)
<1> DEFINE n == Len(u.requested)
           R == {u.requested[i] : i \in 1 .. n}
           f == [i \in 1 .. n |-> u.requested[i]]
           g == [i \in 1 .. n |-> ProjectionKey(u.report[i])]
<1>1. n \in Nat /\ DOMAIN u.requested = 1 .. n /\ DOMAIN u.report = 1 .. n
  BY DEF Listed
<1>2. ToSet(u.requested) = R
  BY <1>1 DEF ToSet
<1>3. \A t \in Reported(u) : \E i \in 1 .. n : g[i] = t
  BY <1>1 DEF Reported
<1>4. \A t \in R : \E i \in 1 .. n : f[i] = t
  OBVIOUS
<1>5. \A i, j \in 1 .. n : f[i] = f[j] => i = j
  BY <1>1 DEF ValidateAccounting, Distinct
<1>6. \A i, j \in 1 .. n : g[i] = g[j] => i = j
  BY <1>1 DEF ValidateAccounting, Distinct
<1>7. Reported(u) \subseteq R
  BY <1>1, <1>2 DEF ValidateAccounting, ValidProjection, Reported
<1>8. IsFiniteSet(R) /\ Cardinality(R) = n
  <2>1. f \in [1 .. n -> R]
    OBVIOUS
  <2> HIDE DEF f, n, R
  <2>2. QED
    BY <1>1, <1>4, <1>5, <2>1, DistinctImage
<1>9. Cardinality(Reported(u)) = n
  <2>1. g \in [1 .. n -> Reported(u)]
    BY <1>1 DEF Reported
  <2> HIDE DEF g, n
  <2>2. QED
    BY <1>1, <1>3, <1>6, <2>1, DistinctImage
<1>10. QED
  BY <1>2, <1>7, <1>8, <1>9, FS_Subset

(* What a fact records of where it comes from. *)
LEMMA RecordedOrigins ==
    ASSUME NEW u, NEW state, HasOrigins(state)
    PROVE  /\ DOMAIN RecordedFacts(state, u) = DOMAIN state.facts \union Keys(u)
           /\ \A k \in Keys(u) : /\ "origin" \in DOMAIN RecordedFacts(state, u)[k]
                                 /\ RecordedFacts(state, u)[k].origin = u.source.observation
           /\ \A k \in DOMAIN state.facts : k \notin Keys(u) =>
                 /\ "origin" \in DOMAIN RecordedFacts(state, u)[k]
                 /\ RecordedFacts(state, u)[k].origin = state.facts[k].origin
<1>1. DOMAIN RecordedFacts(state, u) = DOMAIN state.facts \union Keys(u)
  BY DEF RecordedFacts
<1>2. ASSUME NEW k \in Keys(u)
      PROVE  /\ "origin" \in DOMAIN RecordedFacts(state, u)[k]
             /\ RecordedFacts(state, u)[k].origin = u.source.observation
  <2>1. RecordedFacts(state, u)[k] = RecordedFact(state, InputOf(u, k), u)
    BY DEF RecordedFacts
  <2>2. RecordedFact(state, InputOf(u, k), u).origin = u.source.observation
    BY DEF RecordedFact
  <2>3. "origin" \in DOMAIN RecordedFact(state, InputOf(u, k), u)
    BY DEF RecordedFact
  <2>4. QED
    BY <2>1, <2>2, <2>3
<1>3. ASSUME NEW k \in DOMAIN state.facts \ Keys(u)
      PROVE  /\ "origin" \in DOMAIN RecordedFacts(state, u)[k]
             /\ RecordedFacts(state, u)[k].origin = state.facts[k].origin
  <2>1. RecordedFacts(state, u)[k] = EvaluatedFact(state.facts[k], u.evaluated)
    BY DEF RecordedFacts
  <2>2. QED
    BY <2>1 DEF EvaluatedFact, HasOrigins
<1>4. QED
  BY <1>1, <1>2, <1>3

(* What holds of an empty asset too. *)
LEMMA WorkableFacts ==
    ASSUME NEW state, Workable(state)
    PROVE  /\ HasOrigins(state)
           /\ DOMAIN state.origins = {state.facts[k].origin : k \in DOMAIN state.facts}
           /\ ReportFollows(state)
<1>1. CASE state = Empty
  BY <1>1 DEF Empty, HasOrigins, ReportFollows
<1>2. CASE Sound(state)
  BY <1>2 DEF Sound, OriginsCover, Covers
<1>3. QED
  BY <1>1, <1>2 DEF Workable

(* Merging an accepted update keeps exactly the origins that are needed. *)
LEMMA UpdatedOrigins ==
    ASSUME NEW u, NEW state, Listed(u), Workable(state), Accepted(state, u)
    PROVE  OriginsCover(Updated(state, u)) /\ HasOrigins(Updated(state, u))
<1> DEFINE facts == RecordedFacts(state, u)
           merged == WithOrigin(state.origins, u.source)
           origins == PruneOrigins(merged, u.source, facts)
           obs == u.source.observation
<1>1. /\ Updated(state, u).facts = facts
      /\ Updated(state, u).origins = origins
      /\ Updated(state, u).source = u.source
  BY DEF Updated
<1>2. Keys(u) # {}
  BY DEF Accepted, WellFormed, WithinInputLimits, Listed, Keys
<1>3. /\ DOMAIN facts = DOMAIN state.facts \union Keys(u)
      /\ \A k \in Keys(u) : "origin" \in DOMAIN facts[k] /\ facts[k].origin = obs
      /\ \A k \in DOMAIN state.facts \ Keys(u) :
            "origin" \in DOMAIN facts[k] /\ facts[k].origin = state.facts[k].origin
  <2>1. HasOrigins(state)
    BY WorkableFacts
  <2> HIDE DEF facts
  <2>2. /\ DOMAIN RecordedFacts(state, u) = DOMAIN state.facts \union Keys(u)
        /\ \A k \in Keys(u) : /\ "origin" \in DOMAIN RecordedFacts(state, u)[k]
                              /\ RecordedFacts(state, u)[k].origin = obs
        /\ \A k \in DOMAIN state.facts : k \notin Keys(u) =>
              /\ "origin" \in DOMAIN RecordedFacts(state, u)[k]
              /\ RecordedFacts(state, u)[k].origin = state.facts[k].origin
    BY <2>1, RecordedOrigins
  <2>3. QED
    BY <2>2 DEF facts
<1>4. /\ DOMAIN merged = DOMAIN state.origins \union {obs}
      /\ merged[obs] = u.source
  BY DEF WithOrigin
<1>5. /\ DOMAIN origins = DOMAIN merged \intersect Referenced(u.source, facts)
      /\ obs \in DOMAIN origins => origins[obs] = merged[obs]
  BY DEF PruneOrigins
<1>6. DOMAIN state.origins = {state.facts[k].origin : k \in DOMAIN state.facts}
  BY WorkableFacts
<1> HIDE DEF facts, merged, origins
<1>7. Referenced(u.source, facts) = {facts[k].origin : k \in DOMAIN facts}
  BY <1>2, <1>3 DEF Referenced
<1>8. {facts[k].origin : k \in DOMAIN facts} \subseteq DOMAIN merged
  BY <1>3, <1>4, <1>6
<1>9. DOMAIN origins = {facts[k].origin : k \in DOMAIN facts} /\ obs \in DOMAIN origins
  BY <1>4, <1>5, <1>7, <1>8 DEF Referenced
<1>10. Covers(origins, facts, u.source)
  BY <1>4, <1>5, <1>9 DEF Covers
<1>11. HasOrigins(Updated(state, u))
  BY <1>1, <1>3 DEF HasOrigins
<1>12. QED
  BY <1>1, <1>10, <1>11 DEF OriginsCover

(* A projection the update brings is accounted for. *)
LEMMA ReportedIsAccounted ==
    ASSUME NEW u, NEW state, Listed(u), Workable(state), Accepted(state, u),
           NEW key \in Reported(u)
    PROVE  Accounted(Updated(state, u), key)
<1> DEFINE p == ReportOf(u, key)
<1>1. PICK i \in DOMAIN u.report : p = u.report[i] /\ ProjectionKey(u.report[i]) = key
  BY DEF Reported, ReportOf
<1>2. Updated(state, u).projections[key] = p
  BY DEF Updated, MergeProjections
<1>3. /\ Updated(state, u).facts = RecordedFacts(state, u)
      /\ Updated(state, u).source = u.source
  BY DEF Updated
<1>4. ValidateAccounting(u)
  BY DEF Accepted, WellFormed
<1>5. p.sourceRef = u.source.observation
  BY <1>1, <1>4 DEF ValidateAccounting, ValidProjection
<1>6. p.outcome = "MAPPED" => p.fact \in Keys(u)
  BY <1>1, <1>4 DEF ValidateAccounting
<1>7. p.outcome = "MAPPED" => /\ p.fact \in DOMAIN RecordedFacts(state, u)
                              /\ RecordedFacts(state, u)[p.fact].origin = u.source.observation
  <2>1. HasOrigins(state)
    BY WorkableFacts
  <2> HIDE DEF p
  <2>2. QED
    BY <1>6, <2>1, RecordedOrigins, ZenonT(40)
<1> HIDE DEF p
<1>8. QED
  BY <1>1, <1>2, <1>3, <1>5, <1>7 DEF Accounted

(* One it leaves alone still is. *)
LEMMA KeptIsAccounted ==
    ASSUME NEW u, NEW state, Workable(state),
           NEW key \in DOMAIN state.projections \ Superseded(state.projections, u),
           key \notin Reported(u)
    PROVE  Accounted(Updated(state, u), key)
<1> DEFINE p == state.projections[key]
<1>1. Updated(state, u).projections[key] = p
  BY DEF Updated, MergeProjections
<1>2. /\ Updated(state, u).facts = RecordedFacts(state, u)
  BY DEF Updated
<1>3. p.outcome = "MAPPED" /\ p.fact \notin Keys(u)
  BY DEF Superseded
<1>4. ProjectionKey(p) = key /\ p.fact \in DOMAIN state.facts
      /\ p.sourceRef = state.facts[p.fact].origin
  BY <1>3, WorkableFacts DEF ReportFollows, Accounted
<1>5. /\ p.fact \in DOMAIN RecordedFacts(state, u)
      /\ RecordedFacts(state, u)[p.fact].origin = state.facts[p.fact].origin
  <2>1. HasOrigins(state)
    BY WorkableFacts
  <2> DEFINE facts == RecordedFacts(state, u)
  <2>2. /\ DOMAIN facts = DOMAIN state.facts \union Keys(u)
        /\ \A k \in DOMAIN state.facts :
              k \notin Keys(u) => facts[k].origin = state.facts[k].origin
    BY <2>1, RecordedOrigins, ZenonT(30)
  <2> HIDE DEF p, facts
  <2>3. p.fact \in DOMAIN facts /\ facts[p.fact].origin = state.facts[p.fact].origin
    BY <1>3, <1>4, <2>2
  <2>4. QED
    BY <2>3 DEF facts
<1> HIDE DEF p
<1>6. QED
  BY <1>1, <1>2, <1>3, <1>4, <1>5 DEF Accounted

LEMMA UpdatedReport ==
    ASSUME NEW u, NEW state, Listed(u), Workable(state), Accepted(state, u)
    PROVE  ReportFollows(Updated(state, u))
<1>1. DOMAIN Updated(state, u).projections
      = (DOMAIN state.projections \ Superseded(state.projections, u)) \union Reported(u)
  BY DEF Updated, MergeProjections
<1>2. ToSet(u.requested) = Reported(u)
  BY EveryRequestIsAnswered DEF Accepted, WellFormed, WithinInputLimits
<1>3. Updated(state, u).requested
      = (state.requested \ Superseded(state.projections, u)) \union Reported(u)
  BY <1>2 DEF Updated, MergeRequested
<1>4. Updated(state, u).requested = DOMAIN Updated(state, u).projections
  BY <1>1, <1>3, WorkableFacts DEF ReportFollows
<1>5. \A key \in DOMAIN Updated(state, u).projections : Accounted(Updated(state, u), key)
  BY <1>1, ReportedIsAccounted, KeptIsAccounted
<1>6. QED
  BY <1>4, <1>5 DEF ReportFollows

LEMMA InitEstablishes == Init => IInv
BY DEF Init, IInv, Retained

LEMMA ApplyPreserves ==
    ASSUME IInv, NEW u, Listed(u), Apply(u)
    PROVE  IInv'
<1>1. CASE Commit(u)
  <2>1. /\ Accepted(Clone(u.asset), u)
        /\ assets' = [assets EXCEPT ![u.asset] = Updated(Clone(u.asset), u)]
    BY <1>1 DEF Commit
  <2>2. DOMAIN assets' = Asset
    BY <2>1 DEF IInv
  <2>3. ASSUME NEW a \in Asset, a = u.asset
        PROVE  Sound(assets'[a])
    <3>1. Workable(Clone(a))
      BY DEF Clone, Workable, IInv, Retained
    <3>2. assets'[a] = Updated(Clone(a), u)
      BY <2>1, <2>3 DEF IInv
    <3>3. QED
      BY <2>1, <2>3, <3>1, <3>2, UpdatedOrigins, UpdatedReport DEF Sound
  <2>4. ASSUME NEW a \in Asset, a # u.asset
        PROVE  assets'[a] = assets[a]
    BY <2>1, <2>4 DEF IInv
  <2>5. QED
    BY <2>2, <2>3, <2>4 DEF IInv, Retained
<1>2. CASE Refuse(u)
  BY <1>2 DEF Refuse, Abandoned, IInv, Retained
<1>3. QED
  BY <1>1, <1>2 DEF Apply

LEMMA StutteringPreserves ==
    ASSUME IInv, UNCHANGED assets
    PROVE  IInv'
BY DEF IInv, Retained

(* What a step of the registry, or of the pollers, does to it. *)
Applies == UNCHANGED assets \/ \E u : Listed(u) /\ Apply(u)

LEMMA NextApplies == [Next]_assets => Applies
BY UpdateAssumption, ListingIsListed DEF Next, Applies

LEMMA AppliesPreserves == IInv /\ Applies => IInv'
BY ApplyPreserves, StutteringPreserves DEF Applies

LEMMA Inductive == Spec => []IInv
BY InitEstablishes, NextApplies, AppliesPreserves, PTL DEF Spec

(* What is known of every retained fact: its policy and when it came.      *)
Ageing(fact) ==
    /\ {"policy", "receipt", "availability", "freshness"} \subseteq DOMAIN fact
    /\ fact.policy \in Policy
    /\ fact.receipt \in Int
AllAgeing(facts) == \A k \in DOMAIN facts : Ageing(facts[k])

(* Every fact of the catalog ages by one of the policies (catalog.go).     *)
LEMMA CatalogPolicies == \A id \in FactID : CatalogV1[id].Policy \in Policy
<1>1. \A unit, dimension : Measured(unit, dimension).Policy = "telemetry.fast"
  BY DEF Measured, Definition
<1>2. \A dimension : Accumulated(dimension).Policy = "accumulator"
  BY DEF Accumulated, Definition
<1>3. SUFFICES ASSUME NEW id \in FactID PROVE CatalogV1[id].Policy \in Policy
  OBVIOUS
<1>4. CASE id \in {"energy.active_export_total", "dc.energy.active_total"}
  BY <1>2, <1>4 DEF CatalogV1, Policy
<1>5. CASE id \in {"operating.state", "event.flags", "rating.ac.active_power"}
  <2>1. CASE id = "operating.state"
    BY <2>1 DEF CatalogV1, Policy, Definition
  <2>2. CASE id = "event.flags"
    BY <2>2 DEF CatalogV1, Policy, Definition
  <2>3. CASE id = "rating.ac.active_power"
    BY <2>3 DEF CatalogV1, Policy, Definition
  <2>4. QED
    BY <1>5, <2>1, <2>2, <2>3
<1>6. CASE id \in {"ac.power.active", "ac.power.apparent", "ac.power.reactive",
                   "ac.power_factor", "ac.frequency", "ac.current"}
  BY <1>1, <1>6 DEF CatalogV1, Policy
<1>7. CASE id \in {"ac.voltage.line_to_neutral", "ac.voltage.line_to_line", "dc.current",
                   "dc.voltage", "dc.power.active", "temperature"}
  BY <1>1, <1>7 DEF CatalogV1, Policy
<1>8. QED
  BY <1>4, <1>5, <1>6, <1>7 DEF FactID

(* A deadline within the range of the clock does not wrap. *)
LEMMA NoWrap ==
    ASSUME NEW n \in 0 .. MaxInt
    PROVE  Wrapped(n) = n
<1>1. MaxInt \in Nat
  BY PolicyAssumption
<1>2. ASSUME NEW m \in Nat, NEW j \in 0 .. m
      PROVE  (j + m + 1) % (2 * (m + 1)) = j + m + 1
  BY SMT
<1>3. (n + MaxInt + 1) % (2 * (MaxInt + 1)) = n + MaxInt + 1
  BY <1>1, <1>2
<1>4. QED
  BY <1>1, <1>3 DEF Wrapped

(* Evaluation tells the age of a fact that may be evaluated (lifecycle.go). *)
LEMMA EvaluationTellsTheAge ==
    ASSUME NEW policy \in Policy, NEW receipt \in Int, NEW t \in 0 .. MaxInt,
           Evaluable(policy, receipt, t)
    PROVE  LET age == t - receipt
           IN  /\ Freshness(policy, receipt, t)
                    = CASE age < FreshFor[policy]   -> "FRESH"
                        [] age >= RetainFor[policy] -> "EXPIRED"
                        [] OTHER                    -> "STALE"
               /\ Availability(policy, receipt, t)
                    = IF age < RetainFor[policy] THEN "AVAILABLE" ELSE "UNAVAILABLE"
<1>1. PICK f \in Nat, r \in Nat : FreshFor[policy] = f /\ RetainFor[policy] = r /\ f < r
  BY PolicyAssumption
<1>2. MaxInt \in Nat /\ 0 <= receipt /\ receipt <= t /\ receipt <= MaxInt - r
  BY <1>1, PolicyAssumption DEF Evaluable
<1>3. receipt + f \in 0 .. MaxInt /\ receipt + r \in 0 .. MaxInt
  BY <1>1, <1>2
<1>4. FreshUntil(policy, receipt) = receipt + f /\ RetainUntil(policy, receipt) = receipt + r
  BY <1>1, <1>3, NoWrap DEF FreshUntil, RetainUntil
<1>5. t \in Int
  BY <1>2
<1>6. QED
  BY <1>1, <1>4, <1>5 DEF Freshness, Availability

(* A merged update keeps the policies and receipts of the facts it leaves, *)
(* and its own facts have those it was admitted with (registry.go:86-146). *)
LEMMA UpdatedFactsAge ==
    ASSUME NEW u, NEW state, Listed(u), AllAgeing(state.facts), Accepted(state, u)
    PROVE  AllAgeing(RecordedFacts(state, u))
<1> SUFFICES ASSUME NEW k \in DOMAIN state.facts \union Keys(u)
             PROVE  Ageing(RecordedFacts(state, u)[k])
  BY DEF AllAgeing, RecordedFacts
<1>1. CASE k \in Keys(u)
  <2> DEFINE input == InputOf(u, k)
             fact == RecordedFact(state, input, u)
  <2>1. PICK i \in DOMAIN u.facts : input = u.facts[i]
    BY <1>1 DEF Keys, InputOf
  <2>2. DOMAIN u.facts = 1 .. Len(u.facts)
    BY DEF Listed
  <2>3. input.receipt \in Int
    BY <2>1, <2>2 DEF Listed
  <2>4. InputAccepted(state, input, u)
    BY <2>1 DEF Accepted
  <2>5. input.policy \in Policy
    BY <2>4, CatalogPolicies DEF InputAccepted, ValidateCandidate
  <2>6. RecordedFacts(state, u)[k] = fact
    BY <1>1 DEF RecordedFacts
  <2> HIDE DEF input
  <2>7. /\ {"policy", "receipt", "availability", "freshness"} \subseteq DOMAIN fact
        /\ fact.policy = input.policy /\ fact.receipt = input.receipt
    BY DEF RecordedFact
  <2> HIDE DEF fact
  <2>8. QED
    BY <2>3, <2>5, <2>6, <2>7 DEF Ageing
<1>2. CASE k \notin Keys(u)
  <2>1. RecordedFacts(state, u)[k] = EvaluatedFact(state.facts[k], u.evaluated)
    BY <1>2 DEF RecordedFacts
  <2>2. Ageing(state.facts[k])
    BY <1>2 DEF AllAgeing
  <2>3. QED
    BY <2>1, <2>2 DEF EvaluatedFact, Ageing
<1>3. QED
  BY <1>1, <1>2

(* The inductive invariant: every retained fact ages. *)
AgeInv ==
    /\ DOMAIN assets = Asset
    /\ \A a \in Asset : Retained(a) => AllAgeing(assets[a].facts)

LEMMA AgeInvIsKept == AgeInv /\ Applies => AgeInv'
<1> SUFFICES ASSUME AgeInv, Applies PROVE AgeInv'
  OBVIOUS
<1>1. ASSUME NEW u, Listed(u), Commit(u) PROVE AgeInv'
  <2>1. /\ Accepted(Clone(u.asset), u)
        /\ assets' = [assets EXCEPT ![u.asset] = Updated(Clone(u.asset), u)]
    BY <1>1 DEF Commit
  <2>2. ASSUME NEW a \in Asset, a = u.asset
        PROVE  AllAgeing(assets'[a].facts)
    <3>1. AllAgeing(Clone(a).facts)
      BY DEF Clone, Empty, AgeInv, Retained, AllAgeing
    <3>2. assets'[a].facts = RecordedFacts(Clone(a), u)
      BY <2>1, <2>2 DEF AgeInv, Updated
    <3>3. QED
      BY <1>1, <2>1, <2>2, <3>1, <3>2, UpdatedFactsAge
  <2>3. \A a \in Asset : a # u.asset => assets'[a] = assets[a]
    BY <2>1 DEF AgeInv
  <2>4. QED
    BY <2>1, <2>2, <2>3 DEF AgeInv, Retained, AllAgeing, Ageing
<1>2. ASSUME NEW u, Refuse(u) PROVE AgeInv'
  BY <1>2 DEF Refuse, Abandoned, AgeInv, Retained, AllAgeing, Ageing
<1>3. CASE UNCHANGED assets
  BY <1>3 DEF AgeInv, Retained, AllAgeing, Ageing
<1>4. QED
  BY <1>1, <1>2, <1>3 DEF Applies, Apply

(* A snapshot of facts that age tells their age. *)
LEMMA AgesFollow == AgeInv => SnapshotsTellTheAge
<1> SUFFICES ASSUME AgeInv, NEW a \in Asset, NEW t \in 0 .. MaxInt, Readable(a, t),
                    NEW k \in DOMAIN Snapshot(a, t).facts
             PROVE  LET seen == Snapshot(a, t).facts
                        age == t - seen[k].receipt
                    IN  /\ seen[k].freshness
                             = CASE age < FreshFor[seen[k].policy]   -> "FRESH"
                                 [] age >= RetainFor[seen[k].policy] -> "EXPIRED"
                                 [] OTHER                            -> "STALE"
                        /\ seen[k].availability
                             = IF age < RetainFor[seen[k].policy]
                               THEN "AVAILABLE" ELSE "UNAVAILABLE"
  BY DEF SnapshotsTellTheAge
<1> DEFINE fact == assets[a].facts[k]
           seen == Snapshot(a, t).facts[k]
<1>1. Snapshot(a, t).facts = EvaluateRetainedFacts(assets[a].facts, t)
  BY DEF Snapshot
<1>2. k \in DOMAIN assets[a].facts /\ seen = EvaluatedFact(fact, t)
  BY <1>1 DEF EvaluateRetainedFacts
<1>3. Ageing(fact) /\ Evaluable(fact.policy, fact.receipt, t)
  BY <1>2 DEF AgeInv, AllAgeing, Readable, FactsEvaluable
<1> HIDE DEF seen, fact
<1>4. /\ seen.policy = fact.policy /\ seen.receipt = fact.receipt
      /\ seen.freshness = Freshness(fact.policy, fact.receipt, t)
      /\ seen.availability = Availability(fact.policy, fact.receipt, t)
  BY <1>2, <1>3 DEF EvaluatedFact, Ageing
<1>5. fact.policy \in Policy /\ fact.receipt \in Int
  BY <1>3 DEF Ageing
<1>6. QED
  BY <1>3, <1>4, <1>5, EvaluationTellsTheAge DEF seen

LEMMA AgesInductive == Spec => []AgeInv
<1>1. Init => AgeInv
  BY DEF Init, AgeInv, Retained
<1>2. QED
  BY <1>1, NextApplies, AgeInvIsKept, PTL DEF Spec

-----------------------------------------------------------------------------
(* The registry while it is polled.                                        *)

(* A number of units, as a decimal of either scale. *)
Amount(n) == {[coefficient |-> n, scale |-> 0], [coefficient |-> 10 * n, scale |-> -1]}

LEMMA AmountInTenths ==
    ASSUME NEW n \in Int, NEW d \in Amount(n)
    PROVE  ScaledCoefficient(d, -1) = 10 * n /\ d # NoDecimal
<1>1. 10 ^ (0 - (-1)) = 10 /\ 10 ^ ((-1) - (-1)) = 1
  BY SMT
<1>2. CASE d = [coefficient |-> n, scale |-> 0]
  BY <1>1, <1>2 DEF ScaledCoefficient, NoDecimal
<1>3. CASE d = [coefficient |-> 10 * n, scale |-> -1]
  BY <1>1, <1>3 DEF ScaledCoefficient, NoDecimal
<1>4. QED
  BY <1>2, <1>3 DEF Amount

(* Decimals are added and subtracted as the amounts they are. *)
LEMMA AmountsAdd ==
    ASSUME NEW i \in Int, NEW j \in Int, NEW l \in Amount(i), NEW r \in Amount(j)
    PROVE  SubtractDecimal(l, r) \in Amount(i - j) /\ AddDecimal(l, r) \in Amount(i + j)
<1>1. 10 ^ (0 - (-1)) = 10 /\ 10 ^ ((-1) - (-1)) = 1 /\ 10 ^ (0 - 0) = 1
  BY SMT
<1> DEFINE A(n) == [coefficient |-> n, scale |-> 0]
           B(n) == [coefficient |-> 10 * n, scale |-> -1]
<1>2. CASE l = A(i) /\ r = A(j)
  BY <1>1, <1>2
  DEF SubtractDecimal, AddDecimal, CompareDecimal, CommonScale, ScaledCoefficient, Amount
<1>3. CASE l = A(i) /\ r = B(j)
  BY <1>1, <1>3
  DEF SubtractDecimal, AddDecimal, CompareDecimal, CommonScale, ScaledCoefficient, Amount
<1>4. CASE l = B(i) /\ r = A(j)
  BY <1>1, <1>4
  DEF SubtractDecimal, AddDecimal, CompareDecimal, CommonScale, ScaledCoefficient, Amount
<1>5. CASE l = B(i) /\ r = B(j)
  BY <1>1, <1>5
  DEF SubtractDecimal, AddDecimal, CompareDecimal, CommonScale, ScaledCoefficient, Amount
<1>6. QED
  BY <1>2, <1>3, <1>4, <1>5 DEF Amount

LEMMA ShownIsAmount ==
    ASSUME NEW o, NEW n \in Int
    PROVE  Shown(o, n) \in Amount(n) /\ Whole(n) \in Amount(n)
BY DEF Shown, Whole, Tenths, Amount

(* A poller attests what happened to its meter. *)
LEMMA EvidenceAttests ==
    ASSUME NEW m, NEW e \in Evidence(m)
    PROVE  /\ NoEvidence.Kind = ""
           /\ \/ e = NoEvidence
              \/ e # NoEvidence /\ e.Kind = "RESET"
              \/ /\ e # NoEvidence /\ e.Kind = "ROLLOVER" /\ e.Modulus = Whole(Modulus)
                 /\ meter[m].wraps = 1 /\ ~ meter[m].reset
<1>1. NoEvidence.Kind = ""
  BY DEF NoEvidence
<1>2. [NoEvidence EXCEPT !.Kind = "RESET", !.attested = TRUE].Kind = "RESET"
  BY DEF NoEvidence
<1>3. CASE /\ e = [Kind |-> "ROLLOVER", Modulus |-> Whole(Modulus),
                   BoundaryVerified |-> TRUE, attested |-> TRUE]
           /\ meter[m].wraps = 1 /\ ~ meter[m].reset
  <2>1. e.Kind = "ROLLOVER" /\ e.Modulus = Whole(Modulus)
    BY <1>3
  <2>2. QED
    BY <1>1, <1>3, <2>1
<1>4. QED
  BY <1>1, <1>2, <1>3 DEF Evidence

LEMMA DeltaOfContinuity ==
    /\ \A state : Continuity(state).Delta = NoDecimal
    /\ \A state, delta : Counted(state, delta).Delta = delta
BY DEF Continuity, Counted

(* The delta a reading adds, against what the reading before it showed.    *)
LEMMA CountedDelta ==
    ASSUME NEW m, NEW n \in Nat, NEW j \in Nat, NEW e \in Evidence(m),
           NEW previous \in Amount(n), NEW current \in Amount(j), Modulus \in Nat
    PROVE  LET delta == EvaluateCounter(previous, current, e).Delta
           IN  \/ delta = NoDecimal
               \/ delta \in Amount(j - n)
               \/ meter[m].wraps = 1 /\ ~ meter[m].reset /\ delta \in Amount(Modulus - n + j)
<1> n \in Int /\ j \in Int /\ Modulus \in Int /\ Modulus - n \in Int
  OBVIOUS
<1>1. previous # NoDecimal /\ NoEvidence.Kind = ""
  <2>1. previous # NoDecimal
    BY AmountInTenths
  <2>2. QED
    BY <2>1, EvidenceAttests
<1>2. CASE e = NoEvidence
  <2>1. EvaluateCounter(previous, current, e)
        = IF CompareDecimal(current, previous) >= 0
          THEN Counted("CONTIGUOUS", SubtractDecimal(current, previous))
          ELSE Continuity("DISCONTINUITY")
    BY <1>1, <1>2 DEF EvaluateCounter
  <2>2. EvaluateCounter(previous, current, e).Delta
        \in {SubtractDecimal(current, previous), NoDecimal}
    BY <2>1, DeltaOfContinuity
  <2>3. SubtractDecimal(current, previous) \in Amount(j - n)
    BY AmountsAdd
  <2>4. QED
    BY <2>2, <2>3
<1>3. CASE e # NoEvidence /\ e.Kind = "RESET"
  <2>1. EvaluateCounter(previous, current, e) = AfterReset(e)
    BY <1>1, <1>3 DEF EvaluateCounter
  <2>2. AfterReset(e) \in {Continuity("RESET"), Continuity("")}
    BY DEF AfterReset, Rejected
  <2>3. EvaluateCounter(previous, current, e).Delta = NoDecimal
    BY <2>1, <2>2, DeltaOfContinuity
  <2>4. QED
    BY <2>3
<1>4. CASE /\ e # NoEvidence /\ e.Kind = "ROLLOVER" /\ e.Modulus = Whole(Modulus)
           /\ meter[m].wraps = 1 /\ ~ meter[m].reset
  <2>1. EvaluateCounter(previous, current, e) = AfterRollover(previous, current, e)
    BY <1>1, <1>4 DEF EvaluateCounter
  <2> DEFINE sum == AddDecimal(SubtractDecimal(e.Modulus, previous), current)
  <2>2. EvaluateCounter(previous, current, e).Delta \in {NoDecimal, sum}
    <3>1. AfterRollover(previous, current, e) \in {Counted("ROLLOVER", sum), Continuity("")}
      BY DEF AfterRollover, Rejected
    <3> HIDE DEF sum
    <3>2. AfterRollover(previous, current, e).Delta \in {NoDecimal, sum}
      BY <3>1, DeltaOfContinuity
    <3>3. QED
      BY <2>1, <3>2, Zenon
  <2>3. SubtractDecimal(e.Modulus, previous) \in Amount(Modulus - n)
    BY <1>4, ShownIsAmount, AmountsAdd
  <2>4. sum \in Amount(Modulus - n + j)
    BY <2>3, AmountsAdd
  <2>5. QED
    BY <1>4, <2>2, <2>4
<1>5. QED
  BY <1>2, <1>3, <1>4, EvidenceAttests

(* A register shows less than its modulus. *)
MeterState ==
    [produced : Nat, register : 0 .. Modulus - 1, wraps : Nat, reset : BOOLEAN, readAt : Nat]
MetersRun ==
    /\ clock \in 0 .. MaxInt
    /\ meter \in [Meter -> MeterState]
    /\ \A m \in Meter : meter[m].readAt <= clock

(* What a meter has measured since its register showed n, or less, by the  *)
(* rollovers and the reset its poller knows of; and that a count made when *)
(* it showed n leaves room for that.                                       *)
Since(m, n) ==
    IF meter[m].reset THEN meter[m].register
                      ELSE meter[m].register + meter[m].wraps * Modulus - n
LeavesRoom(count, m, n) == count + 10 * Since(m, n) <= 10 * meter[m].produced

(* A step of the meters leaves room where there was room, unless it comes  *)
(* so late that no reading is retained.                                    *)
KeepsRoom(m) ==
    /\ meter'[m].readAt >= meter[m].readAt
    /\ meter'[m].produced >= meter[m].produced
    /\ \A count \in Int, n \in 0 .. Modulus - 1 :
          /\ clock < meter[m].readAt + RetainFor["accumulator"]
          /\ LeavesRoom(count, m, n) /\ count <= 10 * meter[m].produced
          => LeavesRoom(count, m, n)'

LEMMA RegisterTurns ==
    ASSUME NEW M \in Nat \ {0}, NEW r \in 0 .. M - 1, NEW w \in Nat
    PROVE  LET turned == IF r + 1 = M THEN w + 1 ELSE w
           IN  /\ (r + 1) % M \in 0 .. M - 1 /\ (r + 1) % M <= r + 1
               /\ turned \in Nat
               /\ ((r + 1) % M) + turned * M = r + w * M + 1
<1>1. CASE r + 1 = M
  <2>1. (r + 1) % M = 0
    BY <1>1, SMT
  <2>2. (w + 1) * M = w * M + M
    BY SMT
  <2>3. QED
    BY <1>1, <2>1, <2>2
<1>2. CASE r + 1 # M
  <2>1. (r + 1) % M = r + 1
    BY <1>2, SMT
  <2>2. QED
    BY <1>2, <2>1
<1>3. QED
  BY <1>1, <1>2

LEMMA WrapsAreNatural ==
    ASSUME MetersRun, NEW m \in Meter
    PROVE  meter[m].wraps * Modulus \in Nat
<1>1. \A w, M \in Nat : w * M \in Nat
  BY SMT
<1>2. QED
  BY <1>1, PollAssumption DEF MetersRun, MeterState

LEMMA ProduceKeepsRoom ==
    ASSUME MetersRun, NEW m \in Meter, Produce(m)
    PROVE  MetersRun' /\ \A k \in Meter : KeepsRoom(k)
<1> DEFINE r == meter[m].register
           w == meter[m].wraps
           turned == IF r + 1 = Modulus THEN w + 1 ELSE w
           now == [meter[m] EXCEPT !.produced = meter[m].produced + 1,
                                   !.register = (r + 1) % Modulus, !.wraps = turned]
<1>1. Modulus \in Nat \ {0} /\ r \in 0 .. Modulus - 1 /\ w \in Nat /\ meter[m] \in MeterState
  BY PollAssumption DEF MetersRun, MeterState
<1>2. meter' = [meter EXCEPT ![m] = now]
  BY DEF Produce
<1>3. /\ (r + 1) % Modulus \in 0 .. Modulus - 1 /\ (r + 1) % Modulus <= r + 1
      /\ turned \in Nat
      /\ ((r + 1) % Modulus) + turned * Modulus = r + w * Modulus + 1
  <2> HIDE DEF r, w
  <2>1. QED
    BY <1>1, RegisterTurns
<1>4. /\ now \in MeterState
      /\ now.produced = meter[m].produced + 1 /\ now.register = (r + 1) % Modulus
      /\ now.wraps = turned /\ now.reset = meter[m].reset /\ now.readAt = meter[m].readAt
  <2> HIDE DEF turned
  <2>1. /\ now.produced = meter[m].produced + 1 /\ now.register = (r + 1) % Modulus
        /\ now.wraps = turned /\ now.reset = meter[m].reset /\ now.readAt = meter[m].readAt
    BY <1>1 DEF MeterState
  <2>2. ASSUME NEW p \in Nat, NEW q \in 0 .. Modulus - 1, NEW t \in Nat
        PROVE  [meter[m] EXCEPT !.produced = p, !.register = q, !.wraps = t] \in MeterState
    BY <1>1 DEF MeterState
  <2>3. meter[m].produced + 1 \in Nat
    BY <1>1 DEF MeterState
  <2>4. now \in MeterState
    BY <1>3, <2>2, <2>3
  <2>5. QED
    BY <2>1, <2>4
<1>5. MetersRun'
  BY <1>2, <1>4 DEF MetersRun, Produce
<1>6. \A k \in Meter \ {m} : KeepsRoom(k)
  BY <1>2 DEF KeepsRoom, LeavesRoom, Since, MetersRun, MeterState
<1>7. KeepsRoom(m)
  <2>1. meter'[m] = now
    BY <1>2 DEF MetersRun
  <2>2. meter[m].produced \in Nat /\ w * Modulus \in Nat
    BY <1>1, WrapsAreNatural DEF MeterState
  <2>3. turned * Modulus = r + w * Modulus + 1 - ((r + 1) % Modulus)
    <3>1. turned * Modulus \in Int
      BY <1>1, <1>3
    <3> HIDE DEF turned
    <3>2. QED
      BY <1>1, <1>3, <2>2, <3>1
  <2> HIDE DEF r, w, turned, now
  <2>4. ASSUME NEW count \in Int, NEW n \in 0 .. Modulus - 1, LeavesRoom(count, m, n)
        PROVE  LeavesRoom(count, m, n)'
    BY <1>1, <1>3, <1>4, <2>1, <2>2, <2>3, <2>4 DEF LeavesRoom, Since, r, w
  <2>5. QED
    BY <1>1, <1>4, <2>1, <2>2, <2>4 DEF KeepsRoom, MeterState
<1>8. QED
  BY <1>5, <1>6, <1>7

LEMMA ResetKeepsRoom ==
    ASSUME MetersRun, NEW m \in Meter, Reset(m)
    PROVE  MetersRun' /\ \A k \in Meter : KeepsRoom(k)
<1>1. Modulus \in Nat \ {0} /\ meter[m] \in MeterState
  BY PollAssumption DEF MetersRun
<1> DEFINE now == [meter[m] EXCEPT !.register = 0, !.reset = TRUE]
<1>2. meter' = [meter EXCEPT ![m] = now]
  BY DEF Reset
<1>3. /\ now \in MeterState
      /\ now.produced = meter[m].produced /\ now.register = 0
      /\ now.reset = TRUE /\ now.readAt = meter[m].readAt
  <2>1. ASSUME NEW q \in 0 .. Modulus - 1, NEW b \in BOOLEAN
        PROVE  [meter[m] EXCEPT !.register = q, !.reset = b] \in MeterState
    BY <1>1 DEF MeterState
  <2>2. 0 \in 0 .. Modulus - 1
    BY <1>1
  <2>3. now \in MeterState
    BY <2>1, <2>2
  <2>4. QED
    BY <1>1, <2>3 DEF MeterState
<1>4. MetersRun'
  BY <1>2, <1>3 DEF MetersRun, Reset
<1>5. \A k \in Meter \ {m} : KeepsRoom(k)
  BY <1>2 DEF KeepsRoom, LeavesRoom, Since, MetersRun, MeterState
<1>6. KeepsRoom(m)
  <2>1. meter'[m] = now
    BY <1>2 DEF MetersRun
  <2> HIDE DEF now
  <2>2. QED
    BY <1>1, <1>3, <2>1 DEF KeepsRoom, LeavesRoom, Since, MeterState
<1>7. QED
  BY <1>4, <1>5, <1>6

(* Whatever a replaced meter shows, nothing read of it is retained. *)
LEMMA ReplaceKeepsRoom ==
    ASSUME MetersRun, NEW m \in Meter, Replace(m)
    PROVE  MetersRun' /\ \A k \in Meter : KeepsRoom(k)
<1>1. Modulus \in Nat \ {0} /\ meter[m] \in MeterState
  BY PollAssumption DEF MetersRun
<1>2. PICK r \in {0, Modulus - 1} :
         meter' = [meter EXCEPT ![m].register = r, ![m].wraps = 0, ![m].reset = FALSE]
  BY DEF Replace
<1> DEFINE now == [meter[m] EXCEPT !.register = r, !.wraps = 0, !.reset = FALSE]
<1>3. meter' = [meter EXCEPT ![m] = now]
  BY <1>2 DEF MetersRun
<1>4. /\ now \in MeterState
      /\ now.produced = meter[m].produced /\ now.readAt = meter[m].readAt
  <2>1. ASSUME NEW q \in 0 .. Modulus - 1, NEW w \in Nat, NEW b \in BOOLEAN
        PROVE  [meter[m] EXCEPT !.register = q, !.wraps = w, !.reset = b] \in MeterState
    BY <1>1 DEF MeterState
  <2>2. r \in 0 .. Modulus - 1
    BY <1>1
  <2>3. now \in MeterState
    BY <2>1, <2>2
  <2>4. QED
    BY <1>1, <2>3 DEF MeterState
<1> HIDE DEF now
<1>5. MetersRun'
  BY <1>3, <1>4 DEF MetersRun, Replace
<1>6. \A k \in Meter \ {m} : KeepsRoom(k)
  BY <1>3 DEF KeepsRoom, LeavesRoom, Since, MetersRun, MeterState
<1>7. KeepsRoom(m)
  <2>1. meter'[m] = now
    BY <1>3 DEF MetersRun
  <2>2. clock >= meter[m].readAt + RetainFor["accumulator"]
    BY DEF Replace
  <2>3. clock \in Nat /\ meter[m].readAt \in Nat /\ RetainFor["accumulator"] \in Nat
    BY <1>1, PolicyAssumption DEF MetersRun, MeterState, Policy
  <2>4. QED
    BY <1>1, <1>4, <2>1, <2>2, <2>3 DEF KeepsRoom, MeterState
<1>8. QED
  BY <1>5, <1>6, <1>7

(* A reading that is accepted clears what its poller knew. *)
LEMMA ReadingKeepsRoom ==
    ASSUME MetersRun, NEW m \in Meter, UNCHANGED clock,
           meter' = [meter EXCEPT ![m].wraps = 0, ![m].reset = FALSE, ![m].readAt = clock]
    PROVE  /\ MetersRun' /\ \A k \in Meter : KeepsRoom(k)
           /\ meter'[m].readAt = clock /\ meter'[m].produced = meter[m].produced
           /\ \A count \in Int, n \in 0 .. Modulus - 1 :
                 n = meter[m].register /\ count <= 10 * meter[m].produced
                 => LeavesRoom(count, m, n)'
<1>1. Modulus \in Nat \ {0} /\ meter[m] \in MeterState /\ clock \in Nat
  BY PollAssumption DEF MetersRun
<1> DEFINE now == [meter[m] EXCEPT !.wraps = 0, !.reset = FALSE, !.readAt = clock]
<1>2. meter' = [meter EXCEPT ![m] = now]
  BY DEF MetersRun
<1>3. /\ now \in MeterState
      /\ now.produced = meter[m].produced /\ now.register = meter[m].register
      /\ now.wraps = 0 /\ now.reset = FALSE /\ now.readAt = clock
  BY <1>1 DEF MeterState
<1> HIDE DEF now
<1>4. meter'[m] = now
  BY <1>2 DEF MetersRun
<1>5. MetersRun'
  <2>1. meter' \in [Meter -> MeterState]
    BY <1>2, <1>3 DEF MetersRun
  <2>2. \A k \in Meter \ {m} : meter'[k].readAt <= clock
    BY <1>2 DEF MetersRun
  <2>3. meter'[m].readAt <= clock
    BY <1>1, <1>3, <1>4
  <2>4. QED
    BY <2>1, <2>2, <2>3 DEF MetersRun, MeterState
<1>6. \A k \in Meter \ {m} : KeepsRoom(k)
  BY <1>2 DEF KeepsRoom, LeavesRoom, Since, MetersRun, MeterState
<1>7. KeepsRoom(m)
  <2>1. meter[m].wraps * Modulus \in Nat /\ 0 * Modulus = 0
    BY <1>1, WrapsAreNatural
  <2>2. QED
    BY <1>1, <1>3, <1>4, <2>1 DEF KeepsRoom, LeavesRoom, Since, MeterState, MetersRun
<1>8. ASSUME NEW count \in Int, NEW n \in 0 .. Modulus - 1,
             n = meter[m].register, count <= 10 * meter[m].produced
      PROVE  LeavesRoom(count, m, n)'
  <2>1. 0 * Modulus = 0
    BY <1>1
  <2>2. QED
    BY <1>1, <1>3, <1>4, <1>8, <2>1 DEF LeavesRoom, Since, MeterState
<1>9. QED
  BY <1>3, <1>4, <1>5, <1>6, <1>7, <1>8

(* What only the meters do. *)
MeterStep == Tick \/ \E m \in Meter : Produce(m) \/ Reset(m) \/ Replace(m)

LEMMA MetersKeepRoom ==
    ASSUME MetersRun, MeterStep
    PROVE  /\ UNCHANGED <<assets, counted>> /\ clock <= clock'
           /\ MetersRun' /\ \A k \in Meter : KeepsRoom(k)
<1>1. clock \in Nat /\ MaxInt \in Nat
  BY PolicyAssumption DEF MetersRun
<1>2. CASE Tick
  <2>1. clock' = clock + 1 /\ clock' \in 0 .. MaxInt /\ UNCHANGED <<assets, meter, counted>>
    BY <1>1, <1>2 DEF Tick
  <2>2. MetersRun'
    BY <1>1, <2>1 DEF MetersRun, MeterState
  <2>3. \A k \in Meter : KeepsRoom(k)
    BY <2>1 DEF KeepsRoom, LeavesRoom, Since, MetersRun, MeterState
  <2>4. QED
    BY <1>1, <2>1, <2>2, <2>3
<1>3. ASSUME NEW m \in Meter, Produce(m) \/ Reset(m) \/ Replace(m)
      PROVE  MetersRun' /\ (\A k \in Meter : KeepsRoom(k)) /\ UNCHANGED <<assets, clock, counted>>
  <2>1. UNCHANGED <<assets, clock, counted>>
    BY <1>3 DEF Produce, Reset, Replace
  <2>2. QED
    BY <1>3, <2>1, ProduceKeepsRoom, ResetKeepsRoom, ReplaceKeepsRoom
<1>4. QED
  BY <1>1, <1>2, <1>3 DEF MeterStep

(* The energy an asset retains was read from a meter, and what has been    *)
(* counted from that meter leaves room for what it measured since.         *)
FollowsMeter(a) ==
    LET fact == assets[a].facts[EnergyKey]
        m    == assets[a].origins[fact.origin].identity
    IN  /\ "value" \in DOMAIN fact
        /\ m \in Meter /\ fact.policy = "accumulator" /\ fact.receipt <= meter[m].readAt
        /\ \E n \in 0 .. Modulus - 1 :
              /\ fact.value \in Amount(n)
              /\ clock < fact.receipt + RetainFor["accumulator"]
                 => LeavesRoom(counted[a][m], m, n)
RetainsEnergy(a) == Retained(a) /\ EnergyKey \in DOMAIN assets[a].facts

CountedSoFar ==
    /\ counted \in [Asset -> [Meter -> Int]]
    /\ \A a \in Asset, m \in Meter : counted[a][m] <= 10 * meter[m].produced

(* The inductive invariant of the polled registry. *)
PollInv ==
    /\ IInv /\ AgeInv
    /\ MetersRun
    /\ CountedSoFar
    /\ \A a \in Asset : RetainsEnergy(a) => FollowsMeter(a)

(* A step that leaves the reading as it is keeps it so. *)
KeepsReading(a) ==
    LET fact == assets[a].facts[EnergyKey]
        next == assets'[a].facts[EnergyKey]
    IN  /\ RetainsEnergy(a) /\ "value" \in DOMAIN next
        /\ next.value = fact.value /\ next.policy = fact.policy /\ next.receipt = fact.receipt
        /\ assets'[a].origins[next.origin].identity = assets[a].origins[fact.origin].identity

LEMMA ReadingStillFollows ==
    ASSUME PollInv, NEW a \in Asset, KeepsReading(a), counted'[a] = counted[a],
           clock <= clock', MetersRun', \A k \in Meter : KeepsRoom(k)
    PROVE  FollowsMeter(a)'
<1> DEFINE fact == assets[a].facts[EnergyKey]
           next == assets'[a].facts[EnergyKey]
<1>1. PICK m \in Meter : m = assets[a].origins[fact.origin].identity
  BY DEF KeepsReading, PollInv, FollowsMeter
<1>2. PICK c \in Int : c = counted[a][m] /\ c = counted'[a][m] /\ c <= 10 * meter[m].produced
  BY DEF PollInv, CountedSoFar
<1>3. /\ "value" \in DOMAIN next
      /\ next.value = fact.value /\ next.policy = fact.policy /\ next.receipt = fact.receipt
      /\ assets'[a].origins[next.origin].identity = m
      /\ RetainsEnergy(a)
  BY <1>1 DEF KeepsReading
<1>4. PICK n \in 0 .. Modulus - 1 :
         /\ fact.value \in Amount(n)
         /\ clock < fact.receipt + RetainFor["accumulator"] => LeavesRoom(c, m, n)
  BY <1>1, <1>2, <1>3 DEF PollInv, FollowsMeter
<1>5. fact.policy = "accumulator" /\ fact.receipt <= meter[m].readAt /\ fact.receipt \in Int
  BY <1>1, <1>3 DEF PollInv, FollowsMeter, AgeInv, AllAgeing, Ageing, RetainsEnergy
<1>6. /\ clock \in Nat /\ clock' \in Nat /\ RetainFor["accumulator"] \in Nat
      /\ meter[m].readAt \in Nat /\ meter'[m].readAt \in Nat
  <2>1. clock \in Nat /\ meter[m].readAt \in Nat
    BY DEF PollInv, MetersRun, MeterState
  <2>2. clock' \in Nat /\ meter'[m].readAt \in Nat
    BY DEF MetersRun, MeterState
  <2>3. RetainFor["accumulator"] \in Nat
    BY PolicyAssumption DEF Policy
  <2>4. QED
    BY <2>1, <2>2, <2>3
<1>7. /\ meter'[m].readAt >= meter[m].readAt
      /\ clock < meter[m].readAt + RetainFor["accumulator"] /\ LeavesRoom(c, m, n)
         => LeavesRoom(c, m, n)'
  BY <1>2 DEF KeepsRoom
<1> HIDE DEF fact, next
<1>8. next.receipt <= meter'[m].readAt
  BY <1>3, <1>5, <1>6, <1>7
<1>9. clock' < next.receipt + RetainFor["accumulator"] => LeavesRoom(c, m, n)'
  BY <1>3, <1>4, <1>5, <1>6, <1>7
<1>10. LeavesRoom(counted[a][m], m, n)' <=> LeavesRoom(c, m, n)'
  BY <1>2 DEF LeavesRoom
<1>11. QED
  BY <1>3, <1>4, <1>5, <1>8, <1>9, <1>10 DEF FollowsMeter, fact, next

(* A fact an update does not bring stays as it was read, and so does what  *)
(* is known of its origin: an observation has one source (registry.go:76). *)
LEMMA OthersKeepReading ==
    ASSUME IInv, AgeInv, NEW a \in Asset, NEW u, Commit(u), EnergyKey \notin Keys(u), u.asset = a,
           RetainsEnergy(a), "value" \in DOMAIN assets[a].facts[EnergyKey]
    PROVE  KeepsReading(a)
<1> DEFINE state == assets[a]
           fact == state.facts[EnergyKey]
           next == RecordedFacts(state, u)[EnergyKey]
           origins == WithOrigin(state.origins, u.source)
<1>1. Accepted(state, u) /\ assets'[a] = Updated(state, u)
  BY DEF Commit, Clone, RetainsEnergy, Retained, IInv
<1>2. Sound(state) /\ AllAgeing(state.facts) /\ EnergyKey \in DOMAIN state.facts
  BY DEF IInv, AgeInv, RetainsEnergy
<1>3. next = EvaluatedFact(fact, u.evaluated)
  BY <1>2 DEF RecordedFacts
<1>4. {"value", "policy", "receipt", "origin"} \subseteq DOMAIN fact
  BY <1>2 DEF AllAgeing, Ageing, Sound, HasOrigins
<1>5. /\ "value" \in DOMAIN next /\ next.value = fact.value
      /\ next.policy = fact.policy /\ next.receipt = fact.receipt /\ next.origin = fact.origin
  <2> HIDE DEF fact, next
  <2>1. QED
    BY <1>3, <1>4 DEF EvaluatedFact
<1>6. fact.origin \in DOMAIN state.origins
  BY <1>2 DEF Sound, OriginsCover, Covers
<1>7. origins[fact.origin] = state.origins[fact.origin] /\ fact.origin \in DOMAIN origins
  <2>1. SourceAdmitted(state, u)
    BY <1>1 DEF Accepted
  <2> HIDE DEF fact
  <2>2. QED
    BY <1>6, <2>1 DEF WithOrigin, SourceAdmitted
<1>8. fact.origin \in Referenced(u.source, RecordedFacts(state, u))
  BY <1>2, <1>5 DEF Referenced, RecordedFacts
<1>9. assets'[a].facts = RecordedFacts(state, u)
      /\ assets'[a].origins = PruneOrigins(origins, u.source, RecordedFacts(state, u))
  BY <1>1 DEF Updated
<1> HIDE DEF origins
<1>10. assets'[a].origins[fact.origin] = state.origins[fact.origin]
  BY <1>7, <1>8, <1>9 DEF PruneOrigins
<1>11. QED
  BY <1>5, <1>9, <1>10 DEF KeepsReading

(* What a poller's update says. *)
LEMMA PollUpdateBrings ==
    ASSUME NEW a, NEW m, NEW o, NEW out, NEW value, NEW e, NEW satisfied, clock \in Int,
           NEW u, u = PollUpdate(a, m, o, out, value, e, satisfied)
    PROVE  /\ Listed(u) /\ u.asset = a /\ u.evaluated = clock
           /\ u.source = [identity |-> m, observation |-> o]
           /\ Keys(u) = {EnergyKey} /\ InputOf(u, EnergyKey) = Reading(m, value, e)
<1>1. /\ u.facts = <<Reading(m, value, e)>> /\ u.asset = a /\ u.evaluated = clock
      /\ u.source = [identity |-> m, observation |-> o]
      /\ u.requested = <<<<o, out>>>> /\ Len(u.report) = 1 /\ DOMAIN u.report = 1 .. 1
  BY DEF PollUpdate
<1>2. /\ Reading(m, value, e).receipt = clock
      /\ KeyOf(Reading(m, value, e)) = EnergyKey
  BY DEF Reading, KeyOf, EnergyKey
<1>3. /\ DOMAIN u.facts = 1 .. 1 /\ Len(u.facts) = 1 /\ u.facts[1] = Reading(m, value, e)
      /\ DOMAIN u.requested = 1 .. 1 /\ Len(u.requested) = 1
  BY <1>1
<1>4. Listed(u)
  BY <1>1, <1>2, <1>3 DEF Listed
<1>5. DOMAIN u.facts = {1}
  BY <1>3
<1>6. Keys(u) = {EnergyKey} /\ InputOf(u, EnergyKey) = u.facts[1]
  BY <1>2, <1>3, <1>5 DEF Keys, InputOf
<1>7. QED
  BY <1>1, <1>3, <1>4, <1>6

(* What the registry records of it. *)
LEMMA ReadingIsRecorded ==
    ASSUME IInv, NEW a \in Asset, NEW m, NEW o, NEW out, NEW value, NEW e, NEW satisfied,
           clock \in Int, NEW u, u = PollUpdate(a, m, o, out, value, e, satisfied), Commit(u)
    PROVE  LET fact == assets'[a].facts[EnergyKey]
           IN  /\ Accepted(Clone(a), u) /\ {"value", "continuity"} \subseteq DOMAIN fact
               /\ fact.value = value /\ fact.policy = "accumulator" /\ fact.receipt = clock
               /\ fact.continuity = ContinuityOf(Clone(a), EnergyKey, u)
               /\ assets'[a].origins[fact.origin].identity = m
<1> DEFINE state == Clone(a)
           input == Reading(m, value, e)
           fact == RecordedFact(state, input, u)
<1>1. /\ Listed(u) /\ u.asset = a /\ u.evaluated = clock
      /\ u.source = [identity |-> m, observation |-> o]
      /\ Keys(u) = {EnergyKey} /\ InputOf(u, EnergyKey) = input
  BY PollUpdateBrings
<1>2. Accepted(state, u) /\ assets'[a] = Updated(state, u)
  BY <1>1 DEF Commit, IInv
<1>3. assets'[a].facts[EnergyKey] = fact
  BY <1>1, <1>2 DEF Updated, RecordedFacts
<1>4. Workable(state)
  BY DEF Clone, Workable, IInv, Retained
<1>5. OriginsCover(assets'[a])
  BY <1>1, <1>2, <1>4, UpdatedOrigins
<1>6. assets'[a].origins[o].identity = m
  BY <1>1, <1>2, <1>5 DEF OriginsCover, Covers, Updated
<1>7. /\ input.ID = "energy.active_export_total" /\ KeyOf(input) = EnergyKey
      /\ input.Value = value /\ input.policy = "accumulator" /\ input.receipt = clock
  BY DEF Reading, KeyOf, EnergyKey
<1>8. CatalogV1["energy.active_export_total"].Accumulator
  BY DEF CatalogV1, FactID, Accumulated, Definition
<1> HIDE DEF state, input
<1>9. /\ {"value", "continuity"} \subseteq DOMAIN fact
      /\ fact.value = value /\ fact.policy = "accumulator" /\ fact.receipt = clock
      /\ fact.origin = o /\ fact.continuity = ContinuityOf(state, EnergyKey, u)
  BY <1>1, <1>7, <1>8 DEF RecordedFact
<1>10. QED
  BY <1>2, <1>3, <1>6, <1>9 DEF state

(* What it adds to the count was measured since the last reading.          *)
LEMMA DeltaWasMeasured ==
    ASSUME PollInv, NEW a \in Asset, NEW m \in Meter, NEW o, NEW out, NEW value, NEW satisfied,
           NEW e \in Evidence(m), value \in Amount(meter[m].register),
           NEW u, u = PollUpdate(a, m, o, out, value, e, satisfied), Commit(u)
    PROVE  /\ DeltaOf(a) \in Int
           /\ counted[a][m] + DeltaOf(a) <= 10 * meter[m].produced
<1> DEFINE state == Clone(a)
           delta == ContinuityOf(state, EnergyKey, u).Delta
<1>1. /\ clock \in 0 .. MaxInt /\ clock \in Int /\ Modulus \in Nat /\ meter[m].register \in Nat
      /\ meter[m].register \in Int /\ meter[m].produced \in Nat /\ meter[m].wraps \in Nat
  BY PollAssumption DEF PollInv, MetersRun, MeterState
<1>2. /\ Listed(u) /\ u.asset = a /\ u.evaluated = clock
      /\ u.source = [identity |-> m, observation |-> o]
      /\ InputOf(u, EnergyKey) = Reading(m, value, e)
  BY <1>1, PollUpdateBrings
<1>3. InputOf(u, EnergyKey).Value = value /\ InputOf(u, EnergyKey).counter = e
  BY <1>2 DEF Reading
<1>4. Accepted(state, u) /\ assets'[a].facts[EnergyKey].continuity.Delta = delta
  BY <1>1, ReadingIsRecorded DEF PollInv
<1>5. DeltaOf(a) = IF delta = NoDecimal THEN 0 ELSE ScaledCoefficient(delta, -1)
  BY <1>4 DEF DeltaOf
<1>6. PICK c \in Int : c = counted[a][m] /\ c <= 10 * meter[m].produced
  BY DEF PollInv, CountedSoFar
<1>7. CASE delta = NoDecimal
  BY <1>1, <1>5, <1>6, <1>7
<1>8. CASE EnergyKey \notin DOMAIN state.facts
  <2>1. ContinuityOf(state, EnergyKey, u) = EvaluateCounter(NoDecimal, value, e)
    BY <1>3, <1>8 DEF ContinuityOf
  <2>2. EvaluateCounter(NoDecimal, value, e) \in {Continuity("BASELINE"), Continuity("")}
    BY DEF EvaluateCounter, Rejected
  <2>3. QED
    BY <1>7, <2>1, <2>2, DeltaOfContinuity
<1>9. CASE EnergyKey \in DOMAIN state.facts /\ ~ Continues(state, EnergyKey, u)
  <2>1. ContinuityOf(state, EnergyKey, u) = Continuity("DISCONTINUITY")
    BY <1>9 DEF ContinuityOf
  <2>2. QED
    BY <1>7, <2>1, DeltaOfContinuity
<1>10. CASE EnergyKey \in DOMAIN state.facts /\ Continues(state, EnergyKey, u)
  <2> DEFINE fact == assets[a].facts[EnergyKey]
  <2>1. state = assets[a] /\ RetainsEnergy(a)
    BY <1>10 DEF Clone, Empty, RetainsEnergy, Retained
  <2>2. assets[a].origins[fact.origin].identity = m
    BY <1>2, <1>10, <2>1 DEF Continues, SameSourceIdentity
  <2>3. PICK n \in 0 .. Modulus - 1 :
           /\ fact.value \in Amount(n)
           /\ clock < fact.receipt + RetainFor["accumulator"] => LeavesRoom(c, m, n)
    BY <1>6, <2>1, <2>2 DEF PollInv, FollowsMeter
  <2>4. fact.policy = "accumulator" /\ fact.receipt \in Int
    BY <2>1 DEF PollInv, FollowsMeter, AgeInv, AllAgeing, Ageing, RetainsEnergy
  <2>5. LeavesRoom(c, m, n)
    <3>1. Evaluable("accumulator", fact.receipt, clock)
      BY <1>2, <1>4, <1>10, <2>1, <2>4 DEF Accepted, FactsEvaluable
    <3>2. Availability("accumulator", fact.receipt, clock) = "AVAILABLE"
      BY <1>2, <1>10, <2>1, <2>4 DEF Continues
    <3>3. "accumulator" \in Policy /\ RetainFor["accumulator"] \in Nat
      BY PolicyAssumption DEF Policy
    <3> HIDE DEF fact
    <3>4. clock - fact.receipt < RetainFor["accumulator"]
      BY <1>1, <2>4, <3>1, <3>2, <3>3, EvaluationTellsTheAge
    <3>5. QED
      BY <1>1, <2>3, <2>4, <3>3, <3>4
  <2>6. ContinuityOf(state, EnergyKey, u) = EvaluateCounter(fact.value, value, e)
    BY <1>3, <1>10, <2>1 DEF ContinuityOf
  <2> HIDE DEF fact
  <2> DEFINE j == meter[m].register
  <2>7. n \in Nat /\ n \in Int
    BY <1>1
  <2>8. \/ delta = NoDecimal
        \/ delta \in Amount(j - n)
        \/ meter[m].wraps = 1 /\ ~ meter[m].reset /\ delta \in Amount(Modulus - n + j)
    <3> HIDE DEF j
    <3>1. j \in Nat /\ value \in Amount(j)
      BY <1>1 DEF j
    <3>2. QED
      BY <1>1, <2>3, <2>6, <2>7, <3>1, CountedDelta
  <2>9. /\ meter[m].wraps * Modulus \in Nat
        /\ meter[m].wraps = 1 => meter[m].wraps * Modulus = Modulus
    BY <1>1, WrapsAreNatural DEF PollInv
  <2> HIDE DEF state, delta
  <2>10. CASE delta \in Amount(j - n)
    <3>1. j - n \in Int
      BY <1>1, <2>7
    <3>2. DeltaOf(a) = 10 * (j - n)
      <4> HIDE DEF j
      <4>1. QED
        BY <1>5, <2>10, <3>1, AmountInTenths
    <3>3. QED
      BY <1>1, <1>6, <2>5, <2>7, <2>9, <3>2 DEF LeavesRoom, Since
  <2>11. CASE meter[m].wraps = 1 /\ ~ meter[m].reset /\ delta \in Amount(Modulus - n + j)
    <3>1. Modulus - n + j \in Int
      BY <1>1, <2>7
    <3>2. DeltaOf(a) = 10 * (Modulus - n + j)
      <4> HIDE DEF j
      <4>1. QED
        BY <1>5, <2>11, <3>1, AmountInTenths
    <3>3. QED
      BY <1>1, <1>6, <2>5, <2>7, <2>9, <2>11, <3>2 DEF LeavesRoom, Since
  <2>12. QED
    BY <1>7, <2>8, <2>10, <2>11
<1>11. QED
  BY <1>8, <1>9, <1>10

LEMMA PollInitEstablishes == PollInit => PollInv
<1> SUFFICES ASSUME PollInit PROVE PollInv
  OBVIOUS
<1>1. IInv /\ AgeInv /\ \A a \in Asset : ~ Retained(a)
  BY InitEstablishes DEF PollInit, Init, AgeInv, Retained
<1>2. MetersRun /\ \A m \in Meter : meter[m].produced = 0
  BY PolicyAssumption, PollAssumption DEF PollInit, MetersRun, MeterState
<1>3. CountedSoFar
  BY <1>2 DEF PollInit, CountedSoFar
<1>4. QED
  BY <1>1, <1>2, <1>3 DEF PollInv, RetainsEnergy

LEMMA MeterStepPreserves ==
    ASSUME PollInv, MeterStep
    PROVE  PollInv' /\ UNCHANGED assets
<1>1. /\ UNCHANGED <<assets, counted>> /\ clock <= clock'
      /\ MetersRun' /\ \A k \in Meter : KeepsRoom(k)
  BY MetersKeepRoom DEF PollInv
<1>2. IInv' /\ AgeInv'
  BY <1>1, AppliesPreserves, AgeInvIsKept DEF PollInv, Applies
<1>3. CountedSoFar'
  <2>1. ASSUME NEW a \in Asset, NEW m \in Meter
        PROVE  counted[a][m] <= 10 * meter'[m].produced
    <3>1. counted[a][m] \in Int /\ counted[a][m] <= 10 * meter[m].produced
      BY DEF PollInv, CountedSoFar
    <3>2. meter[m].produced \in Nat /\ meter'[m].produced \in Nat
      BY <1>1 DEF PollInv, MetersRun, MeterState
    <3>3. QED
      BY <1>1, <3>1, <3>2 DEF KeepsRoom
  <2>2. QED
    BY <1>1, <2>1 DEF PollInv, CountedSoFar
<1>4. ASSUME NEW a \in Asset, RetainsEnergy(a)'
      PROVE  FollowsMeter(a)'
  <2>1. KeepsReading(a)
    BY <1>1, <1>4 DEF KeepsReading, RetainsEnergy, Retained, PollInv, FollowsMeter
  <2>2. QED
    BY <1>1, <2>1, ReadingStillFollows
<1>5. QED
  BY <1>1, <1>2, <1>3, <1>4 DEF PollInv

(* An update of another fact, accepted or refused. *)
LEMMA PostPreserves ==
    ASSUME PollInv, NEW u \in Others(clock), Post(u)
    PROVE  PollInv' /\ Listed(u)
<1>1. Listed(u) /\ EnergyKey \notin Keys(u)
  BY PollAssumption, ListingIsListed DEF PollInv, MetersRun
<1>2. UNCHANGED <<clock, meter, counted>> /\ Apply(u)
  BY DEF Post
<1>3. IInv' /\ AgeInv'
  BY <1>1, <1>2, AppliesPreserves, AgeInvIsKept DEF PollInv, Applies
<1>4. MetersRun' /\ \A k \in Meter : KeepsRoom(k)
  BY <1>2 DEF PollInv, MetersRun, MeterState, KeepsRoom, LeavesRoom, Since
<1>5. CountedSoFar'
  BY <1>2 DEF PollInv, CountedSoFar
<1>6. ASSUME NEW a \in Asset, RetainsEnergy(a)'
      PROVE  FollowsMeter(a)'
  <2>1. CASE assets'[a] = assets[a]
    <3>1. RetainsEnergy(a)
      BY <1>6, <2>1 DEF RetainsEnergy, Retained
    <3>2. KeepsReading(a)
      BY <2>1, <3>1 DEF KeepsReading, PollInv, FollowsMeter
    <3>3. QED
      BY <1>2, <1>4, <3>2, ReadingStillFollows DEF PollInv, MetersRun
  <2>2. CASE assets'[a] # assets[a]
    <3>1. Commit(u) /\ u.asset = a
      BY <1>2, <2>2 DEF Apply, Commit, Refuse, Abandoned, PollInv, IInv
    <3>2. assets'[a].facts = RecordedFacts(Clone(a), u)
      BY <3>1 DEF Commit, PollInv, IInv, Updated
    <3>3. EnergyKey \in DOMAIN Clone(a).facts
      BY <1>1, <1>6, <3>2 DEF RetainsEnergy, RecordedFacts
    <3>4. RetainsEnergy(a)
      BY <3>3 DEF Clone, Empty, RetainsEnergy, Retained
    <3>5. KeepsReading(a)
      BY <1>1, <3>1, <3>4, OthersKeepReading DEF PollInv, FollowsMeter
    <3>6. QED
      BY <1>2, <1>4, <3>5, ReadingStillFollows DEF PollInv, MetersRun
  <2>3. QED
    BY <2>1, <2>2
<1>7. QED
  BY <1>1, <1>3, <1>4, <1>5, <1>6 DEF PollInv

(* A reading of a meter. *)
LEMMA PollPreserves ==
    ASSUME PollInv, NEW a \in Asset, NEW m \in Meter, NEW o, NEW out, NEW satisfied,
           NEW e \in Evidence(m), NEW u,
           u = PollUpdate(a, m, o, out, Shown(o, meter[m].register), e, satisfied), Poll(a, m, u)
    PROVE  PollInv' /\ Listed(u)
<1> DEFINE shown == Shown(o, meter[m].register)
           next == assets'[a].facts[EnergyKey]
<1>1. /\ Commit(u) /\ UNCHANGED clock
      /\ counted' = [counted EXCEPT ![a][m] = @ + DeltaOf(a)]
      /\ meter' = [meter EXCEPT ![m].wraps = 0, ![m].reset = FALSE, ![m].readAt = clock]
  BY DEF Poll
<1>2. clock \in Int /\ meter[m].register \in 0 .. Modulus - 1 /\ meter[m].register \in Int
  BY PollAssumption DEF PollInv, MetersRun, MeterState
<1>3. /\ Listed(u) /\ u.asset = a /\ u.evaluated = clock
      /\ u.source = [identity |-> m, observation |-> o]
  <2>1. clock \in Int /\ u = PollUpdate(a, m, o, out, shown, e, satisfied)
    BY <1>2
  <2> HIDE DEF shown
  <2>2. QED
    BY <2>1, PollUpdateBrings
<1>4. IInv' /\ AgeInv'
  BY <1>1, <1>3, AppliesPreserves, AgeInvIsKept DEF PollInv, Applies, Apply
<1>5. /\ MetersRun' /\ \A k \in Meter : KeepsRoom(k)
      /\ meter'[m].readAt = clock /\ meter'[m].produced = meter[m].produced
      /\ \A count \in Int, n \in 0 .. Modulus - 1 :
            n = meter[m].register /\ count <= 10 * meter[m].produced
            => LeavesRoom(count, m, n)'
  BY <1>1, ReadingKeepsRoom DEF PollInv
<1>6. shown \in Amount(meter[m].register)
  BY <1>2, ShownIsAmount
<1>7. DeltaOf(a) \in Int /\ counted[a][m] + DeltaOf(a) <= 10 * meter[m].produced
  BY <1>1, <1>6, DeltaWasMeasured
<1>8. CountedSoFar'
  <2>1. counted' \in [Asset -> [Meter -> Int]] /\ counted'[a][m] = counted[a][m] + DeltaOf(a)
    BY <1>1, <1>7 DEF PollInv, CountedSoFar
  <2>2. ASSUME NEW b \in Asset, NEW k \in Meter
        PROVE  counted'[b][k] <= 10 * meter'[k].produced
    <3>1. CASE b = a /\ k = m
      BY <1>5, <1>7, <2>1, <3>1
    <3>2. CASE ~ (b = a /\ k = m)
      <4>1. counted'[b][k] = counted[b][k] /\ meter'[k].produced = meter[k].produced
        BY <1>1, <1>5, <3>2 DEF PollInv, CountedSoFar, MetersRun, MeterState
      <4>2. QED
        BY <4>1 DEF PollInv, CountedSoFar
    <3>3. QED
      BY <3>1, <3>2
  <2>3. QED
    BY <2>1, <2>2 DEF CountedSoFar
<1>9. FollowsMeter(a)'
  <2>1. /\ {"value", "continuity"} \subseteq DOMAIN next
        /\ next.value = shown /\ next.policy = "accumulator" /\ next.receipt = clock
        /\ assets'[a].origins[next.origin].identity = m
    <3> HIDE DEF shown
    <3>1. QED
      BY <1>1, <1>2, ReadingIsRecorded DEF PollInv, shown
  <2>2. PICK c \in Int : c = counted'[a][m] /\ c <= 10 * meter[m].produced
    BY <1>5, <1>8 DEF CountedSoFar
  <2>3. PICK n \in 0 .. Modulus - 1 : n = meter[m].register
    BY <1>2
  <2>4. LeavesRoom(c, m, n)'
    BY <1>5, <2>2, <2>3
  <2>5. LeavesRoom(counted[a][m], m, n)'
    BY <2>2, <2>4 DEF LeavesRoom
  <2> HIDE DEF shown
  <2>6. next.value \in Amount(n)
    BY <1>6, <2>1, <2>3
  <2>7. next.receipt <= meter'[m].readAt
    BY <1>2, <1>5, <2>1
  <2> HIDE DEF next
  <2>8. QED
    BY <2>1, <2>5, <2>6, <2>7 DEF FollowsMeter, next
<1>10. ASSUME NEW b \in Asset, b # a, RetainsEnergy(b)'
       PROVE  FollowsMeter(b)'
  <2>1. assets'[b] = assets[b] /\ counted'[b] = counted[b]
    BY <1>1, <1>3, <1>10 DEF Commit, PollInv, IInv, CountedSoFar
  <2>2. KeepsReading(b)
    BY <1>10, <2>1 DEF KeepsReading, RetainsEnergy, Retained, PollInv, FollowsMeter
  <2>3. QED
    BY <1>1, <1>2, <1>5, <2>1, <2>2, ReadingStillFollows
<1>11. QED
  BY <1>3, <1>4, <1>5, <1>8, <1>9, <1>10 DEF PollInv

LEMMA PollingPreserves == PollInv /\ [PollNext]_pollVars => PollInv'
<1> SUFFICES ASSUME PollInv, [PollNext]_pollVars PROVE PollInv'
  OBVIOUS
<1>1. CASE MeterStep
  BY <1>1, MeterStepPreserves
<1>2. ASSUME NEW a \in Asset, NEW c \in Channel, NEW out \in Output, NEW satisfied \in BOOLEAN,
             NEW e \in Evidence(c[1]),
             Poll(a, c[1], PollUpdate(a, c[1], c[2], out,
                                      Shown(c[2], meter[c[1]].register), e, satisfied))
      PROVE  PollInv'
  <2>1. c[1] \in Meter
    BY PollAssumption
  <2>2. QED
    BY <1>2, <2>1, PollPreserves
<1>3. ASSUME NEW u \in Others(clock), Post(u) PROVE PollInv'
  BY <1>3, PostPreserves
<1>4. CASE UNCHANGED pollVars
  BY <1>4 DEF pollVars, PollInv, IInv, AgeInv, AllAgeing, Ageing, MetersRun, MeterState,
              CountedSoFar, RetainsEnergy, Retained, FollowsMeter, LeavesRoom, Since
<1>5. QED
  BY <1>1, <1>2, <1>3, <1>4 DEF PollNext, MeterStep

LEMMA PollingInductive == PollSpec => []PollInv
BY PollInitEstablishes, PollingPreserves, PTL DEF PollSpec

-----------------------------------------------------------------------------
(* What holds of the registry, whoever updates it.                         *)

(* The origins an asset keeps are exactly those its facts refer to, the    *)
(* current source among them (registry.go:77-81, 256-266).                 *)
THEOREM OriginsAreCovered == Spec \/ PollSpec => []OriginsCoverFacts
<1>1. IInv => OriginsCoverFacts
  BY DEF IInv, Sound, OriginsCoverFacts
<1>2. PollInv => IInv
  BY DEF PollInv
<1>3. QED
  BY <1>1, <1>2, Inductive, PollingInductive, PTL

(* The accounting answers every requested output, and names only facts     *)
(* that are retained, by where they come from (registry.go:339-424).       *)
THEOREM ReportIsFollowed == Spec \/ PollSpec => []ReportFollowsFacts
<1>1. IInv => ReportFollowsFacts
  BY DEF IInv, Sound, ReportFollowsFacts
<1>2. PollInv => IInv
  BY DEF PollInv
<1>3. QED
  BY <1>1, <1>2, Inductive, PollingInductive, PTL

(* Whatever was merged before, a snapshot that is served for a time within *)
(* the clock's range tells the true age of every fact, on integers that do *)
(* not wrap: the receipts that would make a deadline overflow are refused  *)
(* (lifecycle.go:30-51, registry.go:162-187).                              *)
THEOREM AgesAreTold == Spec \/ PollSpec => []SnapshotsTellTheAge
<1>1. PollInv => AgeInv
  BY DEF PollInv
<1>2. QED
  BY <1>1, AgesFollow, AgesInductive, PollingInductive, PTL

(* What is reported as increments never adds up to more than was measured, *)
(* for any meters, modulus, scales, policies and other updates             *)
(* (registry.go:103-121, counter.go).                                      *)
THEOREM EnergyIsNotOvercounted == PollSpec => []DeltasNeverOvercount
<1>1. PollInv => DeltasNeverOvercount
  BY DEF PollInv, CountedSoFar, DeltasNeverOvercount
<1>2. QED
  BY <1>1, PollingInductive, PTL
=============================================================================
