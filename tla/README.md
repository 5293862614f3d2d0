# Verification of helianthus-ebusreg

TLA+ specifications of this repository's registry, bus scan, router, photovoltaic
fact registry and catalogues, the TLC instances that check them, and TLAPS proofs
of the theorems that matter most.
Line references are to files of the repository, relative to its root.

## The system

`helianthus-ebusreg` turns what is seen on an eBUS into a registry of devices,
gives each device *planes* (typed method sets with subscriptions), and routes
method invocations and broadcasts between planes and the bus.

| Component | State | Operations | Hard behaviour |
|---|---|---|---|
| **Device registry** (`registry/`) | One struct under one `RWMutex`: the 256 address slots, the address → entry map, the identity index, the topology edges, the entries in order, the qualified-identity witnesses and two generation counters | `Register`, `RegisterStaticSeed`, `RegisterPassiveObserved`, `MarkSlotStaticSeed`, `MarkSlotPassiveObserved`, `AliasAddresses`, the scan's `confirmScanIdentity`, `AdmitPassiveCompanion…`, `RegisterProvider`; lookups and snapshots | Four redundant views of who owns an address; groups that join, split and merge in any order; authority that lapses; confidence that must not regress; entries that are read without the lock while they change |
| **Bus scan** (`registry/scan.go`) | Pending targets, collisions and retries of a pass, handles of the entries found | `Scan`, `ScanDirected` | Several separately locked registry calls per answer, retries, stale handles, cancellation |
| **Router: invoke** (`router/router.go`) | Per cache key: running flag, done channel, last good frame and its time, under `invokeMu`; the bus is used outside the lock | `Invoke` | Coalescing, wake-ups, failing flights, cancellation, a cache that must not go back |
| **Router: broadcast** | The subscription table under `mu`, an event channel of 64 | `SetPlanes`, `HandleBroadcast`, `Events` | Table replaced during dispatch, full queue, stalled reader |
| **PV fact registry** (`pv/`) | Per asset: retained facts, their origins, requested outputs and projections, a generation | `Apply`, `Snapshot` | All-or-nothing update, freshness at another time than receipt, counter continuity, limits |
| **Projections and portal** (`registry/projection.go`, `portal.go`, `service_projection.go`) | none (values derived from an entry) | `BuildCanonicalIndex` and lookups over it | Malformed graphs, index and projections that disagree |
| **Schema** (`schema/`) | none | loading, selection by target and version, decoding, encoding | Versions out of range or unreadable |
| **Vaillant planes** (`vaillant/system`, `heating`, `dhw`, `solar`, `b555`) | none | build requests, decode responses and broadcasts | Byte layouts |
| **Service catalogue** (`catalog/ebus_standard`) | an immutable catalogue | load and validate, resolve a method, let it through by safety class | Commands that cannot be told apart; a mutating command let through |
| **Frame views** (`catalog/vaillant`, `catalog/ebus_standard`) | none | read a JSON document of a frame under one hypothesis | Short and long fields, sentinels, wrapping counters, ambiguous documents |
| **Product identifiers** (`vaillant/productids`) | an embedded table | capability of a product number, seeds | Rows that contradict each other |

Interaction: the scan calls the registry (never the router); the registry calls
the providers' `Match` and `CreatePlanes` while it holds its lock; whoever wires
the system hands the entries' planes to `SetPlanes`; `Invoke` calls the plane's
`BuildRequest` and `DecodeResponse` and the bus, none of them under a lock; the
gateway reads the registry through live pointers or snapshots and compares the
observation generation before it commits what it derived.

What makes each component correct:

* registry — one partition of the resolved addresses in all views; identity
  authority only for a complete, current triple; witnesses that stand exactly
  while they are earned; nobody moved or confirmed without evidence; no change a
  generation holder misses; routing that follows the slots;
* scan — every address once resolved stays resolved, each final entry is
  returned once, no target is lost between passes;
* invoke — one flight per key, no lost wake-up, every call returns, errors stay
  with the caller that got them, the cache only moves forward;
* broadcast — events are queued or counted, one table per broadcast, no waiting;
* PV — a refused update changes nothing, every fact's origin is kept, freshness
  is a function of the time asked about, deltas only between comparable readings;
* the parts without state — identifiers are injective, two indexes over one graph
  agree, what the catalogue loader accepts is unambiguous, a claim about a frame
  rests on bytes of that frame, an answer does not depend on an order that means
  nothing.

## Modules

| Module | Models | Kind |
|---|---|---|
| `DeviceIdentity` | `registry/identity.go`, the conflict rules of `registry_alias.go` | pure operators |
| `Registry` | `DeviceRegistry`: its whole state and every mutation | state machine |
| `RegistryProps` | properties of `Registry`, and its refinement of `WitnessLedger` | properties |
| `WitnessLedger` | what a consumer of identity witnesses may rely on | abstract spec |
| `RegistryProofs` | theorems about the types, witnesses and generations of `Registry` | proofs |
| `RegistryPartitionProofs` | theorems about its address groups | proofs |
| `RegistryFaceProofs` | theorems about the history and confirmation of its faces | proofs |
| `RegistryReadProofs` | theorems about its identity index and about `ServiceReader` | proofs |
| `InvokeCache` | `BusEventRouter.Invoke` | state machine |
| `InvokeCacheProps` | properties of `InvokeCache`, and its refinement of `CoalescedRead` | properties |
| `CoalescedRead` | what coalesced invocation promises its callers | abstract spec |
| `InvokeCacheProofs` | theorems about `InvokeCache` | proofs |
| `BroadcastFanout` | `SetPlanes`, `HandleBroadcast`, the event queue, with properties | state machine |
| `BroadcastFanoutProofs` | theorems about `BroadcastFanout` | proofs |
| `ByteLists` | ascending lists, shared by `Scan` and `ServiceViews` | pure operators |
| `Scan` | `Scan` and `ScanDirected` over the state of `Registry` | state machine |
| `ScanProps` | properties of `Scan` | properties |
| `ScanProofs` | theorems about `Scan` | proofs |
| `PvFacts` | the rules of the PV contract: catalogue, ageing, counters | pure operators |
| `PvRegistry` | `pv/registry.go`: `Apply`, `Snapshot` | state machine |
| `PvRegistryProps` | properties of `PvRegistry` | properties |
| `PvPolling` | meters and pollers around `PvRegistry` | composition |
| `PvRegistryProofs` | theorems about `PvRegistry` and `PvPolling` | proofs |
| `ServiceViews` | lookups, snapshots, the view of one device, method metadata | operators on `Registry`'s state |
| `ServiceReader` | a caller's list of all devices, read without the lock beside the writers of `Registry`, with its property | composition |
| `Values` | what the modules below share | pure operators |
| `Projections` | `projection.go`, `portal.go` | pure operators |
| `EbusStandard` | loader, provider and safety policy of `catalog/ebus_standard` | pure operators |
| `Schemas` | package `schema` | pure operators |
| `ProductIds` | package `vaillant/productids` | pure operators |
| `Documents` | documents of frames and the checks all views share | pure operators |
| `InterpretedViews` | the 14 `Interpret` views | pure operators |
| `EvaluatedViews` | the `Evaluate` views of a row or a cycle of devices, and of fields with arguments | pure operators |
| `FieldViews` | the `Evaluate` views of single fields, of the standard's frames too | pure operators |
| `BodyViews` | the views of whole bodies | pure operators |
| `FrameViews` | every view by its name, and what they are compared by | pure operators |
| `Views` | one question to any of the parts above, with their properties | state machine |
| `MCRegistry`, `MCReader`, `MCInvokeCache`, `MCBroadcastFanout`, `MCScan`, `MCPvRegistry`, `MCViews`, `MCFrames` | constants of the TLC instances | instances |

Operators whose comment begins with "Slip" are plausible mistakes in the code
they stand beside; each property has one that breaks it, and no specification
uses any of them.

### Registry

Every public mutation takes `r.mu` for writing, so each is one action, and
goroutines interleave the actions freely. The state is one record with the
fields of the Go struct (`registry.go:76-91`), and each `…Locked` helper is an
operator from a registry record to the record it leaves, composed in the order
the code calls them: `Register` is `RegisterLocked`, then the slot observation,
the confirmation over topology, the faces, the generation, the retirement of
witnesses and the new witness (`registry_registration.go:5-26`).

Correspondence: a `*deviceEntry` is a member of `EntryId` and `heap` holds what
it points to; a released entry keeps its last contents, as a Go pointer does,
and its name is reused only when no live entry has it. `nil` is `Nil`, `NoSlot`,
`NoIndex`. An identity key is the triple itself, since the code's encoding is
length-prefixed and so injective; normalisation is a function on spellings.

Abstractions, and why they are sound for the properties:

* `entry.addresses` and `r.order` are sets. The one place where a slice's order
  matters, the next primary address of a group that loses its own, is a choice
  of any remaining address.
* Observation times are left out: no decision reads them, except that a
  companion admission with a zero time returns at once.
* `info.Address` is always assigned together with `primaryAddress`.
* Planes, projections and the canonical index are the sets of providers they
  were built from; whether a provider matches, provides projections and provides
  a malformed one are constants.
* A registration refused for contradicting evidence changes nothing
  (`registry_registration.go:88-90`), so it is a guard.

### Invoke

The bus is used between two critical sections, so each critical section
(`Hit`, `Join`, `Lead`, `Publish`), the wait (`Wake`, `Cancel`) and the bus call
(`Send`, `SendDirectly`) are steps of their own, per caller. A nil map entry is
replaced by a zero entry before it is used (`router.go:222-225`), so the cache is
a total function. The answer of the bus is the addressed device's current
version, or an error; errors of the bus, of a nil response, of a decoder and of
the caller's own context are one value, because nothing here tells them apart.
Decoding a cached frame may fail too. Time is the age of a good frame, saturated
at `Expired`, above every window; `Tick` lets any amount of it pass.
`Change` is the device's data changing, on its own or by a write.
Channels are closed, never reopened; an identity nobody refers to may be reused.

The abstract `CoalescedRead` has no channels, waiting or age: per key a set of
callers on the bus and a good frame. `PlaceOf`, `FlightOf` and the cached
`lastFrame` map the detailed state to it.

### Broadcast

`HandleBroadcast` takes its snapshot of the table (one step), then decodes and
offers plane by plane, outside the lock: a dispatch holds the planes of the
snapshot and the position of the next. `SetPlanes` and other handlers may act
between any two of those steps. `select` with `default` is `Accept` or
`Overflow`. `decoded`, `consumed` and `surfaced` are history variables. A plane
that declares one topic twice stands twice in the table, as in the code.

### Scan

`Scan` extends `Registry`: a scan's registry calls are `Registry`'s own actions,
and between any two of them another goroutine may make any call of `Next`. Each
bus exchange and each registry call is a step, because the registry's lock is
released between them (`scan.go:188-216`): `RegisterAnswer`, `RegisterAlias`,
`JoinAlias`, `Reload`, `Confirm`, `LookupConfirmed`, `Collect`. What the code
reads through a kept handle outside the lock is read from the heap when the step
happens. A probe ends in any class of error the code tells apart, or in any
answer of the instance, from the probed address or from another. The four chunks
of a serial are read one by one, and any of them may be missing; what they spell
is a choice. `scan` also records what happened to each target (`asked`,
`outcome`, `answered`) and which entries were started for a face whose answer took
it out of its group (`parted`): history that no guard reads. Calls elsewhere
during a bus exchange are left out: they are the same as calls just before the
scan's next use of the registry.

### PV

`Apply` is one action, as it holds the lock throughout; it either commits the
clone it worked on or changes nothing, and each check it makes is a named
operator in the order of the code. A clone is a value, so that a change that
reaches the retained state through an alias would have to be modelled as one: the
code's clone copies every map and pointer (`registry.go:268-325`). Decimals are coefficient
and scale. Time is bounded by `MaxInt`, which stands for the largest `int64`
instant, so that a sum past it has to be refused as the code refuses it.
`PvPolling` adds what the repository does not contain: meters that count modulo a
register, are reset or replaced, and pollers that read them in order. Only with
them can it be said whether the reported deltas are right: `counted` adds them up for
each asset and each meter it was read from.

### Snapshots and the service projection

A lookup and a snapshot hold the read lock throughout, so `ServiceViews` states
them as operators on `Registry`'s state. Two of them in one state are two reads
with no writer between them.

A list of all devices (`ProjectRegistryDevices`) is not read in one state.
`Iterate` copies the order of the entries under the read lock, releases it and
hands out live pointers (`registry_alias.go:344-358`), whose fields are then read
one by one while writers may change them. `ServiceReader` puts such a caller beside
the writers: `BeginIterate` copies the order, `ReadEntry` projects one entry,
`GiveUp` ends the list at one that cannot be projected, and between any two of
these `Write` is any operation of the registry. An entry is read in the step that
reads its last field. If a field was written since the copy, the reads race with the
write and what they give is undefined: slices may be torn, and `removeAddress`
shifts the bytes of a list in place. The view is then `Torn`, of which nothing is
known, or the list is given up. `stale` records which entries waiting to be read
were written, counting a registration as a write of `info` and `planes` even where
it stores what was there (`registry_registration.go:194-196`).

`ListsTellOfOneRegistry` is what a caller may rely on. An entry nobody wrote before
it was read is seen with the addresses it had when the order was copied. And a list
that is complete while the observation generation is still that of the copy has each
registered address in exactly one view, and agrees with slots and snapshots. That
comparison is the caller's, outside the repository; the comment of
`WithObservationGeneration` (`registry.go:111-131`) tells callers to make it. With a
write in between nothing of the kind is claimed: one entry is read before an alias
takes an address from another, which is read after it, and the address is in two
views or in none.

### The parts without state

`Views` has one variable, the question asked. Each `Ask...` action picks an input
of one part, and the invariants relate what that part's operators make of it.
Texts are sequences of tokens where a separator in them matters and model values
elsewhere. JSON documents keep what the code tells apart: an integer, a number
with a fraction or an exponent, an integer past 64 bits, a duplicate key,
trailing text. YAML and JSON parsing itself is the libraries'.

A view's operator gives the answer document: state, fields with the bytes they
were read from, and what they are taken to mean. Labels and codes that are copied
from a constant table are reduced to an index into it; the names of fields are the
code's. Numbers with halves or tenths are pairs. `Wrap` stands for 2^32, and the
sentinel 0xffffffff for `Wrap - 1`.

## What the runs check

All runs use two workers, finish within three minutes, and give every action
a chance to fire. A property's comment in its module states it and names the code.

| Run | Question | Instance and bounds | Distinct states |
|---|---|---|---|
| `registry_identity` | Do the views of ownership, the index and the witnesses stay consistent, is nobody moved without evidence, does what resolves stay resolved? | an initiator, its companion target and another target; five observations (two spellings and two MACs of one serial, another serial, model only); every sequence of six operations; a view forgets counters, entry names and released entries | 48 thousand |
| `registry_faces` | Do faces follow slots, does routing fit the role, do history and confidence survive? | a full and an empty observation, a role, six kinds of stamp; five operations | 85 thousand |
| `registry_generations` | Are proofs ordered, does every change advance the generation, is the witness ledger implemented, what may the reader of a list of all devices rely on? | counters kept, two providers, one with a plane that cannot be projected; three operations, with a reader's steps between any of them | 543 thousand |
| `registry_topology` | Does leaving a group drop topology? (violated) | as `registry_identity` | |
| `registry_index` | Is an entry's index that of its projections? (violated) | as `registry_identity` | |
| `invoke` | Single flight, channel discipline, monotone cache, refinement of `CoalescedRead`; does every call return? | three callers, a cached read and a write, four calls, two changes of the device, five channels, no waiter obliged to cancel | 121 thousand |
| `invoke_target` | Does an answer come from the addressed device? (violated) | system planes of two devices | |
| `broadcast_fanout` | Are events accounted for, is one table used, does every broadcast complete? | two handlers, two broadcasts, two tables, capacity 2, a reader that may stall | 145 thousand |
| `broadcast_twice` | Does a plane hear a broadcast once? (violated) | the system plane's own subscriptions | |
| `scan` | Is each answering device returned once and confirmed, is no target lost, does a scan end? | an initiator, its companion and another target, a list with a repeated target and an empty one; three answers per target; one registry call elsewhere | 716 thousand |
| `pv` | Are origins and the report those of the facts, do snapshots tell the age, do deltas overcount? | one asset, two sources, a register of four values read whole and in tenths, four instants to the end of the clock, three updates | 57 thousand |
| `views` | Are identifiers injective, do the indexes agree, is a catalogue unambiguous, do schemas round-trip, do claims rest on bytes and calculations on what counts? | see below | 120 thousand |

Why the bounds are enough. Three addresses are the fewest that give a canonical
pair and a bystander: a group of two that loses one member to a third, the merge
of a group into another, and topology that outlives a group all fit. Each needs
at most four operations to arise and one or two more to show; six are explored.
Four entries suffice because at most three live at once and one is allocated.
For a list, three operations are two that make two entries and one that moves an
address between them, or merges them, after the first is read.
For `Invoke`, three callers are a leader, a waiter and a third that can overtake
the waiter; four calls let one caller come back to a key it led. Five channels
are one more than callers and keys can refer to. Two broadcasts with two
events each overflow a queue of two. In `scan`, nine entries are more than a
list of three targets can allocate; a device that answers for another address,
with a serial that changes between answers, is what joins and splits groups while
handles to them are held; one call elsewhere, at any point, reaches every
window, and interference by several is what the registry's own runs explore. In
`pv`, a register of four values wraps, is reset and is replaced with an
increment of one or two; three updates are a reading, its successor and the one
after a gap. In `views` the inputs are: paths of up to two segments over the
separators themselves; two planes of up to two nodes each, one perhaps with an
edge; catalogues of one and two commands that differ in each axis, or with a
defect; schemas of all types; up to three rows of the product table; and for each
view one document per case it tells apart, sound, with one field absent, cut at
each length, one byte too long or filled with boundary values, with one selector
wrong in each of the ways the code tells apart, or with a defect of its text. The
cfgs switch deadlock checking off where the system really stops: the registry's
operations at the bound `MaxObservationGeneration`, a finished scan, the end of
the clock in `pv`, an answered question in `views`. In the other instances the bounds `MaxCalls`,
`MaxVersion` and `MaxBroadcasts` never leave the system without a step, because
time passes and `SetPlanes` may be called again.

Fairness. `invoke` assumes weak fairness of each caller's own next step
(`Proceed`): a goroutine that can run does, and `bus.Send` returns, which is the
contract of the external bus (it honours the context it is given). It is not
assumed that anyone cancels, invokes, collects a result, or that time passes.
The bound on calls matters: with unboundedly many new callers whose flights all
fail, a woken waiter may be overtaken for ever, in the code as in the model.
`broadcast_fanout` assumes the same of each handler and nothing of the reader.
That a scan ends needs no fairness beyond running: `ScanComesToAnEnd` gives a
number that every one of its steps lowers, whatever the bus and others do.

## What is proved

Eight modules of proofs, each from the assumptions its model states on constants;
TLC evaluates those assumptions in every instance. One theorem, `IndexIsCurrent`,
has a hypothesis of its own, which is discussed with it.

### Registry: types, witnesses, generations (`RegistryProofs`)

For every set of addresses, observations, roles, providers and entries, and any
number of operations:

* `TypeCorrect`: `Spec => []TypeOK`.
* `WitnessesStayCurrent`: `Spec => []WitnessesAreCurrent`.
* `WitnessesFollowGroups`: `Spec => []WitnessesAgreeWithGroups`.
* `GenerationsAdvance`: `Spec => EveryChangeAdvancesGeneration`.
* `ProofsStayOrdered`: `Spec => []ProofsAreOrdered`.
* `RegistryImplementsLedger`: `Spec => LedgerSpec`.

The argument has three layers. First, `Yields(s, t)`: every `...Locked` helper
makes of a typed registry `s` a typed registry `t`, deallocates nothing, and
leaves both counters and all witnesses alone. It is transitive, so the lemma of a
helper follows from those of the helpers it calls, in the order of the code.
`TypeOK` alone is not inductive: a helper that writes through a pointer needs
`PointersType`, that no pointer in the address map, the slots, the index or the
order dangles. Second, `Completes`: every operation ends in one of three ways.
It advances the generation after marking only (`Unmoved`: the address map, the
index and the entries' keys are as before), or it also reconciles witnesses, or
it also records one. This is where an operation that decides about identity and
forgets to reconcile would fail. Third, `Follows`: after each of the three ways
every witness is current, and is the one before, or none, or the one just
recorded. The inductive invariant `IdentityInv` is types and current witnesses;
the order of proofs and the ledger follow from it and from `Follows`.

The assumptions used here and in the next three modules are that nulls are not
values, that observations and roles have their types, that there is an address,
that a companion is an address, that the initial providers are providers, and that
normalisation maps spellings to spellings and the empty one to itself. Of `Match`
and of the projections nothing is assumed, nor that normalisation is idempotent,
nor the bound on generations.

### Registry: groups (`RegistryPartitionProofs`)

* `GroupsPartitionAddresses`: `Spec => []AddressPartition`.
* `FacesAreCurrent`: `Spec => []FacesMirrorSlots`.
* `RoutesFitTheRole`: `Spec => []RoutedAddressesFitTheRole`.
* `NoAddressIsDropped`: `Spec => ResolvedStaysResolved`.
* `BystandersStay`: `Spec => BystandersMoveOnlyWithEvidence`.

The inductive invariant `PartitionInv` adds `Sound(registry)` to `IdentityInv`, in
four parts: the entries' address lists are those of the address map (`Groups`), the
slots point where the address map says (`Slots`), the cached faces are copies of
the slots (`Mirrors`), and no index row points outside the live entries
(`RowsWithin`); the last is needed because registration selects an entry by its
row and then gives it an address.

The helpers break these parts and mend them, so what holds between two helpers is
said exactly. A detached address has a slot that is no longer attached (`SlotsBut`)
until it has an entry again; while an entry takes an address over, its groups are
those of the map *to be* (`Resolving`); after a slot is written, the faces of one
entry are stale until they are copied (`MirrorsBut`, `SoundBut`). Helpers that
touch none of this are `Steady`. An entry that loses its primary address gets a
remaining one, or leaves the registry (`GoodHeir`). What an operation moves is
`MovesTogether`: one subject address, and whole groups into an entry that
`Corroborates` them; `NoAddressIsDropped` and `BystandersStay` follow from it.

### Registry: faces (`RegistryFaceProofs`)

* `FacesAreNotForgotten`: `Spec => FaceHistoryIsRetained`.
* `ConfirmationNeedsTopology`: `Spec => ConfirmationFollowsTopology`.

Most helpers keep the history of every face and confirm none (`FaceKept`); only an
observation stamps the face of its own address, and only
`confirmCanonicalGroupFacesLocked` confirms others, by walking the recorded
relations from the observed face. A face it reaches is reached over an edge from a
confirmed one; that the edge can also be read from the other end needs
`Symmetric`, that an explicit relation is recorded at both ends, which is
inductive with `PartitionInv`.

### Registry: what is found in it (`RegistryReadProofs`)

* `IndexIsCurrent`: `NoBlankFields` implies `Spec => []IdentityIndexIsCurrent`.
* `ListsAreSound`: `ReaderSpec => []ListsTellOfOneRegistry`.
* `ReadersDoNotInterfere`: `ReaderSpec => Spec`. Hence every theorem about the registry
  holds while lists are read.

For the index, the inductive invariant says of every live entry that its normalised identity is
that of its retained info (`Canonical`) and that a key it has published has its row
(`OwnsItsRow`), and of every row that the entry it selects has published this key
and still has it (`Carries`). While an operation stores an observation the rows of
one entry may be wrong (`IndexedBut`), until `indexIdentityLocked` mends them. An
entry may change its group before that, which deletes rows but changes no complete
triple (`KeepsTriples`).

`NoBlankFields` says that no observation has a triple field that is blank without
being empty. It is needed, and the registry does not enforce it: registration fills
a field that is *empty as spelled* from what the entry knows
(`registry/registry_registration.go:135-157`), while authority is decided over
*normalised* fields (`registry/identity.go:73-93`). A device ID of white space
alone is thus taken for missing by the decision and stored by the assignment, which
would take the triple of an entry apart while its row remains. The scan trims only
spaces and NULs off a device ID before it registers it (`registry/scan.go:299`), while
normalisation trims all white space; other callers of `Register` may pass anything. The instances of the registry's runs
satisfy the hypothesis, with two spellings of one serial.

For the reader, `ReaderInv` joins `PartitionInv` with what is known of a list in
progress. An entry that waits to be read and was not written has the addresses it
had at the copy (`WaitingAsCopied`); a write keeps that of every entry whose fields
it leaves alone. A view that is not `Torn` tells of its entry as it was copied
(`ReadAsCopied`). And while the generation is that of the copy, no entry is stale, the
entries read and those left are the live ones, and each view is what would be read
now (`CurrentSoFar`). It is inductive because every write advances the generation
(`EveryOperationFollows`), after which that part claims nothing. That each registered
address is then in one view is `AddressPartition`. The addresses of a view are
sorted: that a sorted list of a finite set exists is shown without induction, by
counting the numbers below each one (`RanksFollowNumbers`, `EveryRankIsTaken`,
`InOrderLists` in `RegistryProofs`; the scan's lists of targets rest on the same
lemmas). The assumptions are that addresses are bytes, that an absent view or
snapshot is not one of the values it stands beside, and that a torn view can be told
from those that are known.

### Scan (`ScanProofs`)

For any addresses, target lists, repetitions and answers, and any number of calls of
other goroutines at any point:

* `ScanUsesTheRegistry`: `ScanSpec => Spec`. Hence every theorem above holds while
  scans run.
* `DeferredTargetsAreAsked`: `ScanSpec => []DeferredTargetsAreAskedAgain`.
* `AnsweringFacesGetConfirmed`: `ScanSpec => []AnsweringFacesAreConfirmed`.
* `ScansEnd`: `ScanSpec => ScanComesToAnEnd`.
* `HandlesNeverDangle`: a kept handle points to an entry, perhaps a released one,
  and no lookup result that a method is called on is nil.
* `LiveEntriesAreReturnedOnce`: `ScanSpec => []ReturnsLiveEntriesOnce`, and
  `EveryAnsweringDeviceIsReturned`: `ScanSpec => []ReturnsEachAnsweringDeviceOnce`.

`ScanInv` follows the passes: a requested target is still to be asked in this one,
or waits for the next after it was asked in every earlier one, or is decided
(`Deferring`); each target is in at most one of these places because a list is
`Distinct` once it is deduplicated. Confirmation is carried over up to five
separately locked calls by `Confirming`: the faces still `Owed` a confirmation, and
that the answering address and the target share an entry over an explicit relation
(`Related`) when `confirmScanIdentity` is called. It is claimed only of a scan that
was alone (`Alone`), because another goroutine may take the address away between the
calls. For termination, `Cost` is the number that falls: three more passes, so many
steps for a target, so many for an answer; it needs that a list without duplicates
is no longer than there are addresses. `Handles` rests on `Yields`, which deallocates
nothing, and on `NoAddressIsDropped`. Entries are returned once because distinct live
entries have distinct display addresses, which is the partition again (`Kept`).

That no answering device is missing is the longest argument, because an entry is left
out whenever its display address was registered before (`scan.go:214`), and merges
and splits change which entry an address displays. `Gathered` says of every step that
each live entry is listed, in the result, in hand, or `parted`; and that an entry
about to be collected is one of these or displays an address not registered yet
(`Collectable`). It is preserved because of what the registry's operations do to
whole groups. An operation on an address moves other addresses only together with all
of their group, and so the group is gone (`MovesTogether`, `GroupsAfterMove`); at most
one entry comes to be, with that address and no other; and no other live entry
changes its display address (`Shows`, followed through every helper in
`RegistryFaceProofs`). The promise has two limits. It is made for a scan that
was alone with the registry. And an entry that `Register` starts for a face whose new
answer contradicts its group is exempt: it displays an address the group it left may
have been collected under, and the code does then omit it. TLC checked `Gathered` as
an invariant before it was proved.

The assumptions are that addresses are bytes, that target lists are lists of them,
and that what the bus answers, with any serial the chunks may spell, is an
observation.

### Invoke (`InvokeCacheProofs`)

For every set of callers, requests and channels, every refresh policy and any number
of calls. The theorems rest on the three assumptions of `InvokeCache`: there is a
request, windows are durations, nulls are not values.

* `TypeCorrect`: `Spec => []TypeOK`.
* `FlightsAreSingle`: `Spec => []SingleFlight`, and
  `ChannelsAreClosedOnce`: `Spec => []ChannelDiscipline`. Neither is inductive alone. That a new leader finds no other leader needs the
  running flag to be exact (`SingleFlight`); that publishing closes the channel
  of its own waiters and of nobody else needs leaders' channels to be distinct
  and the entry's channel to be the leader's (`ChannelDiscipline`). Their
  conjunction `FlightInv` is (`FlightsAreOrderly`). Most steps disturb neither (`UndisturbedFlights`);
  joining, leading and publishing have a lemma each.
* `CacheMovesForward`: `Spec => CacheNeverGoesBack`. The invariant behind it,
  `FrameOrder`, says that no frame is ahead of its device and that a frame about
  to be published is not behind the one its key holds. It is inductive because a
  flight is single: nobody else can replace the key's frame between a leader's
  bus call and its publishing.
* `InvokeImplementsCoalescedRead`: `Spec => CoalescedReadSpec`, one lemma per
  action. It needs `FlightInv` for the abstract take-off and landing, and that a
  call holds no answer before it has one to publish.

### PV (`PvRegistryProofs`)

For every set of assets, sources, outputs and updates, every limit and policy and
any number of updates, of callers that send what they like (`Spec`) and of pollers
around their meters (`PollSpec`):

* `OriginsAreCovered`: `Spec \/ PollSpec => []OriginsCoverFacts`.
* `ReportIsFollowed`: `Spec \/ PollSpec => []ReportFollowsFacts`.
* `AgesAreTold`: `Spec \/ PollSpec => []SnapshotsTellTheAge`.
* `EnergyIsNotOvercounted`: `PollSpec => []DeltasNeverOvercount`, for any meters read
  by any assets, any modulus and any choice of scales.

The inductive invariant of the first two is `Sound`: both properties, and that every
retained fact has an origin at all, without which the pruning of origins says nothing
(`HasOrigins`). `Workable` extends it to the empty clone a first update works on.
A refused update leaves what was retained (`Abandoned`); of an
admitted one, `UpdatedOrigins` follows the facts through the merge and the pruning,
and `UpdatedReport` the projections. `EveryRequestIsAnswered` is a counting
argument: as many projections as requests, each of a request of its own, are all of
them. For the ages, `AgeInv` says that every retained fact has a policy of the
catalogue and the receipt it came with. The sum of a receipt and a duration may then
pass the end of the clock, and what decides is that `Snapshot` refuses to answer
rather than compare with a sum that does not exist. The assumptions used are that
what an update lists are sequences, that receipts are integers, and that the
durations of a policy are in order.

What is counted of a meter is bounded by what it measured for a reason that spans
the registry and the meter, and `PollInv` states it: the reading an asset retains came
from a meter (`FollowsMeter`), and as long as it is retained, the count leaves room
for all the meter measured since, by what its poller knows of rollovers and resets
(`LeavesRoom`). Every step of a meter keeps that room (`KeepsRoom`), and a replacement
does because it comes when nothing read of the meter is retained any more.
This is where `Apply`'s own evaluation of the retained fact matters: what
was available when it was stored may be older than that. `DeltaWasMeasured` then goes
through the ways a reading may follow the one before; `Amount` says that the same
number of units in either scale is one amount, so that sums and differences of decimals
are sums and differences of amounts (`AmountsAdd`). Besides the above it is assumed
that a register shows less than its modulus, and that only pollers report energy
(`PollAssumption`).

### Broadcast (`BroadcastFanoutProofs`)

For any planes, subscriptions, tables and capacity, and any finite number of
goroutines:

* `TypesHold`: `Spec => []TypeOK`.
* `EventsAreNeverLost`: `Spec => []EventsAreAccountedFor`.
* `TablesAreNeverMixed`: `Spec => []OneTablePerBroadcast`.

The inductive invariant has three parts. `Typing`: a dispatch that holds an event is
still at the plane that decoded it, so that no broadcast returns with an event in
hand. `Counting`: events decoded are those held, queued, consumed or dropped, and the
drops counted are those returned and those still held by a dispatch. The overflows of
all dispatches are counted as the cardinality of a set of pairs rather than as a
sum, so that a step of one handler adds or removes elements. `Ordering`: two running
broadcasts have different frames, and what a running one has produced stands in its
snapshot before its current plane (`PlacedBefore`), so that the next event can be
placed behind it. That is what walking the live table instead of the snapshot breaks.

### Only model-checked

* The invariants of `Views`: pure functions over bounded inputs, most of them
  recursive or folds.
* All liveness (`EveryCallReturns`, `EveryBroadcastCompletes`), which is beyond the
  prover.

## What the checks found

* **Planes of two devices share cache entries** (`invoke_target`,
  `router/router.go:410`). The key is the plane's name, the method and the
  params; the address is in none of them. `README.md:174-180` wires the planes of
  several devices to one router, and `router/router_test.go:202,209` expects the
  addressed device's answer.
* **The system plane hears every energy broadcast twice** (`broadcast_twice`,
  `router/router.go:136`, `vaillant/system/system.go:62-63`).
  `vaillant/system/system_test.go:39-42` pins the double declaration, which
  `SetPlanes` does not merge, while `router/router_test.go:160` expects one call.
* **Topology survives a departure** (`registry_topology`,
  `registry/registry_alias.go:160`). The rule stated at line 372 holds when an
  address is detached and not when `AliasAddresses` takes it out of a group that
  survives.
* **An absorbed entry's projections come without their index**
  (`registry_index`, `registry/registry_alias.go:336`). The empty index an entry
  without projections carries has a non-nil map, so it is not replaced.

## Not modelled

* Constant data: the tables of hypotheses in `catalog/vaillant` and
  `catalog/ebus_standard`, with the interpreters that only look a code up in
  them, and the embedded product table and catalogue themselves.
* The readers of one register value (`vaillant/system/ab*.go`, the readers of single
  values in `catalog/vaillant`, `vaillant/b555/decode.go`): one value in, one
  annotated value out, by width and divisor, which the repository's table tests
  enumerate.
* The planes' request builders and response decoders: byte layouts without a
  decision that involves the state of anything. Their subscriptions and names
  are inputs of the router's modules.
* JSON, YAML and CSV parsing, which is the libraries'; the transport, which is another
  repository's; build and CI scripts.
* What callers outside the repository read at any later time through pointers kept
  from `Lookup` and `LookupSlot`. The handles a scan keeps and the entries of a list of
  all devices are modelled.
* A panic inside a flight, and other hazards listed without a property and with the
  reason. Among them, no property tells a wrong admission of a passive companion
  (`admit_passive_companion.go:40-50`) from a right one; its guards are in the model.

## Plan

1. The planes' request and response layouts, where an answer is matched to its
   request (`vaillant/system/b524_ext_register_access.go`,
   `b509_register_access.go`), as a further part of `Views`.
