# A TLA+ verification of the service-mesh control plane

The control plane keeps a registry of service instances and a store of traffic
specs in memory. A reconciler turns them once per interval into a versioned xDS
snapshot (clusters, endpoints, listeners, routes), and Envoys receive the
snapshots over gRPC. A separate program mirrors Kubernetes pods into the registry
over HTTP. The modules here model these parts and how they meet, TLC checks them
on small instances, and TLAPS proves the main invariants for every value of the
constants.

## The system

| Part | Source | Module |
| --- | --- | --- |
| Registry | `internal/registry/registry.go` | `Registry` |
| Route store | `internal/routing/route.go` | `Routing` |
| Snapshot builder, reconciliation pass, HTTP handlers | `internal/xds/snapshot.go`, `internal/reconciliation/reconciler.go`, `internal/api/*_handlers.go` | `Reconciler` |
| What a pass promises to Envoys | | `Publisher`, implemented by `Reconciler` through `Publication` |
| Loop of Run and its backoff | `internal/reconciliation/reconciler.go` | `RetryLoop` |
| Stream tracker | `internal/xds/tracker.go` | `Tracker` |
| Process lifecycle, readiness, xDS server | `internal/controlplane/controlplane.go`, `internal/api/server.go`, `internal/xds/server.go` | `ControlPlane`, which extends the two above |
| Delivery of snapshots to an Envoy | go-control-plane and Envoy, external | `Mesh` |
| Kubernetes watcher | `cmd/k8s-watcher/main.go` | `Watcher` |

HTTP handlers write the registry and the route store, and the reconciler reads
them, each call under its own lock. No lock is held from one call to the next, so
handlers run between any two steps of a pass. That interleaving is one source of
trouble. The others are the error paths of a pass, two separate tests for
staleness, the goroutines of a shutdown, restarts that lose all memory, and the
watcher's unreliable connection. `PROJECT.json` lists each hazard with its line
and the properties that cover it.

## The modules

### Registry, Routing

The map of maps is the total function `svcs`, with `NoInstance` for a missing
entry; `now` is the clock. Each method runs under the mutex and is one action. A
name is the sequence of its slash-separated parts, so `key` is concatenation and
collides exactly where the joined strings do. Requests the code refuses take no
step.

`Validate` adds the weights modulo `UintModulus`, which is 2^32 in the code.
Timeouts and circuit-breaker numbers are copied and never decided upon; they are
left out.

### Reconciler

A `Caller` is a goroutine inside `Reconcile`; the shipped program has one,
`Reconciler.Run`. `pass[c]` holds its program counter, the locals of
`BuildSnapshot` and the snapshot under construction.

| Action | Code |
| --- | --- |
| `Sweep` | SweepStale at the head of Reconcile |
| `NextVersion` | version.Add(1) |
| `List` | ListServices |
| `GetRoute` | routes.Get for the next service in sorted order |
| `ReadSplit` | HealthyInstances and filterByVersion for one split |
| `AddListener` | route configuration and listener of the service |
| `BuildFails` | any error of BuildSnapshot |
| `SetSnapshot`, `SetSnapshotFails` | the publish; a failing one may or may not have stored |
| `Record` | lastSnapshot, then return |

`outSince`, `inSince` and `specSince` are history variables: the version counter
when an instance last stopped being healthy, when it last became discoverable or
changed its version, and when a service's spec last changed. They let a property
compare a snapshot with the past. No guard reads them.

Resource names are records of service and version, so a service name that
contains `::` is outside the model. `Consistent` is external and compares what the
library compares: clusters with load assignments, listeners with route
configurations. It does not compare routes with clusters. The metrics set after
recording are left out.

`handleDebugConfig` makes two reads. `DebugGapExplained` puts one step of the
system between them.

### Publisher and Publication

`Publisher` is a specification in five variables: numbers are issued one by one, a
publish uses the latest number and only endpoints live since it was issued, and the
debug page shows what is served. `Publication` gives the refinement mapping from
`Reconciler` with one caller. An endpoint is live while it is registered and not
marked unhealthy, and `EndpointsSince` is read off `outSince`.

### Tracker, RetryLoop, ControlPlane

`Tracker` splits a callback where the code releases the lock: first the table,
then the gauge. `RetryLoop` is the loop of `Run` with a signed word that wraps;
`backoff` is the set of delays it may return, empty when `rand.Int63n` panics. A
panic in any goroutine ends the process.

`ControlPlane` composes both with `Run` (`main`), the two server goroutines
(`http`, `xds`) and their one-slot channels, the readiness flag, a request in
flight and the signal. Every blocking call of the drain is a step of its own. The
behaviour of `http.Server` and `grpc.Server` is external and stated at the head of
the module.

### Mesh

A pass is reduced to what `RemovalReflected` and `AdditionReflected` say of it,
and the module adds the cache's watches, the response on its way, the Envoy's
acknowledged snapshot, broken streams and restarts of either side. `version` is the
reconciler's counter: a pass takes the next number, a pass that fails has spent
its own, and a restart sets the counter back to zero, so numbers of an earlier
process come back. An Envoy that rejects a response (NACK) is left out: nothing in
the repository reacts to one.

### Watcher

An HTTP call is sent, served and answered in separate steps. It can be refused,
time out before or after it was served, and arrive late, after newer calls. The
watcher and the control plane can restart, and the read of the Endpoints object
can fail. The registry keeps the age of each heartbeat, in poll intervals; the
theorem `DiscoveryIgnoresSweep` is why the sweep can be left out here. Any order
of the map iterations of `reconcile` is allowed. `orphaned` is a history variable:
the watcher restarted, or a registration was served whose answer it never saw.

## What the runs check

| Run | Instance | Result |
| --- | --- | --- |
| `registry` | namespaces `a`, `a/b` and `b`, services `c` and `b/c`, 1 instance, clock 0..3 | holds |
| `reconcile` | 1 service, 1 instance, 2 versions, a canary whose weights wrap, its completion and two refused specs, 1 caller, 2 passes, clock 0..2, fairness | holds |
| `reconcile_services` | 2 services, one with a route, 2 passes | holds |
| `control_plane` | 2 streams, 1 node id, 6 failures in a row, fairness | holds |
| `watcher` | 2 pods, 2 changes, 3 faults, 1 late request, fairness | holds |
| `mesh` | 2 instances, 5 passes per process, no bound on restarts, fairness | holds |
| `thresholds` | StaleAfter 2, readers' threshold 1 | `SweepAndReadAgree` violated |
| `shutdown_streams` | 1 stream, fairness | `ShutdownBounded` violated |
| `backoff_overflow` | one more failure in a row | `BackoffAsDocumented` violated |
| `pod_address` | 1 pod with 2 addresses, no faults, fairness | `AddressesConverge` violated |
| `restart_versions` | 2 instances, 4 passes per process | `VersionNeverReused` violated |
| `readiness_drain` | 1 stream | `UnreadyWhileDraining` violated |

### The properties, in words

Registry:

- `UnhealthyIsStale`: an instance is marked unhealthy only while it is stale.
- `NamespaceIsolation`: an operation on one namespace changes nothing another sees,
  unless one is nested in the other, as `a/b` is in `a`.

The pass:

- `RemovalReflected`: no snapshot numbered after a removal lists the instance.
- `AdditionReflected`: an instance discoverable since before a snapshot's number
  is served by it.
- `SplitsDisjoint`: an instance that kept its version is in one versioned cluster.
- `RouteReflected`: a spec in place since before the number is the one the route
  follows.
- `RoutesResolve`: routes name clusters of their own snapshot, and listeners take
  consecutive ports from 20000.
- `WeightsTotal100OrWrap`: published weights sum to 100, or to an amount that a
  uint32 total takes for 100.
- `VersionsIncrease`: the cache never goes back or repeats a version.
- `DebugNeverAhead`, `DebugGapExplained`: the debug page shows nothing newer than
  the cache, and disagrees with the store only if the spec changed.
- `SweepAndReadAgree`: right after a sweep, marked healthy means handed out.
- `ImplementsPublisher`: the refinement.
- `PassTerminates`: a pass that has started returns.

The process:

- `GaugeFollowsTable`: the gauge is off by the hooks still to be called.
- `NodeIDSticks`: a stream's node id is not erased by requests without one.
- `BackoffAsDocumented`: the delay is 2^n seconds, capped, with less than 20%
  jitter, and there is one.
- `NilMeansDrained`: a nil result means a completed drain.
- `DeadServerEndsRun`: a server that stops ends the process.
- `DrainsOnceEnvoysLeave`: after a signal Run returns, if Envoys leave.

Delivery and watcher:

- `VersionNamesContent`: within a process, the same version means the same content.
- `EnvoysConverge`: an Envoy that stays connected ends up with the live instances.
- `NothingForgotten`: unless `orphaned`, the watcher remembers every instance.
- `DiscoveryConverges`: once changes and faults stop, discovery hands out exactly
  the pods that are there.
- `ScaleDownReflected`: if nothing was orphaned, the entries of gone pods go too.

### The six violated runs

Each contradicts a sentence of the repository, quoted in `findings`.

- `thresholds`: the readers use a constant of 15 seconds. The disagreement shows
  when `CP_STALE_AFTER` is above it; below, the sweep has already cleared the mark.
- `shutdown_streams`: `GracefulStop` has no deadline and comes before the bounded
  `Shutdown`, so one Envoy that stays connected blocks the return.
- `backoff_overflow`: at the 34th failure in a row the product leaves the int64
  before the cap is applied, and `rand.Int63n` panics. With the 30 second cap that
  takes 16 to 19 minutes of failing passes.
- `pod_address`: a heartbeat carries no address, so a pod that keeps its name and
  moves stays registered under the old address.
- `restart_versions`: the counter starts again at zero. `EnvoysConverge` holds all
  the same, since the next pass has another number.
- `readiness_drain`: the HTTP goroutine sets readiness to true when it first runs. If
  the signal is handled before that, `Run` has set it to false already, and
  `/readyz` answers ready until `Shutdown`, that is for as long as `GracefulStop`
  waits for Envoys.

### Four more observations

The first two are visible in the runs, and the properties there say exactly how far
the code goes. The others are visible with other constants of the same modules.

- With slashes in names two pairs share a key: namespace `a`, service `b/c` and
  namespace `a/b`, service `c`; and what `a/b` registers, `a` lists. The API accepts
  such names in the body and the query. ADR-002 claims isolation without a
  condition; `registry` offers such names, and `NamespaceIsolation` holds there
  because it leaves out nested namespaces.
- Weights such as 255 and 101 with `UintModulus` 256 pass `Validate`, as weights
  that sum to 2^32 + 100 do in the code, and are published. The comment on `Validate`
  says "exactly 100"; `reconcile` offers these weights, and `WeightsTotal100OrWrap`
  names them as the one exception.
- With two callers of Reconcile `VersionsIncrease` fails: the one with the older
  number may store last. The shipped program has one caller, and ADR-004 leaves
  other triggers to a later release; the theorem assumes `SingleCaller`.
- An instance that registers again under another version between the reads for two
  splits is published in both clusters. `SplitsDisjoint` leaves out instances whose
  version changed during the pass.

### Bounds

`MaxTime` stops the clock; two or three ticks with a threshold of one give fresh,
boundary and stale heartbeats. `MaxVersion` bounds the passes: two let a pass meet
what the previous one published, or half published before it failed. Three passes
with the canary alone (764,496 states, three minutes) have no violation either, and
are left out of the runs for their length. One instance
per service is enough for the reads, which treat instances one by one; two meet
only in `ListServices`. Both bounds leave the handlers enabled, so no run of
`Reconciler` deadlocks. Instance ids and callers are symmetric where no liveness is
checked. `reconcile_services` identifies states that differ only in `outSince` and
`specSince` (VIEW), which neither its guards nor its properties read.

TLC's integers have 32 bits, so words are scaled down. `UintModulus` is 256. A
Duration has 10 bits and a second 5 units: the cap is reached at the third failure
instead of the fifth and the overflow at the seventh instead of the thirty-fourth,
in the same order. `MCControlPlane` states that relation as an assumption.
`MaxFailures` keeps `control_plane` below the overflow.

`watcher` allows two changes of the Endpoints object and three faults. A pod can go
and come back, and a lost answer, a restart and a late request can combine.
`StaleAfter` 3 and `Timeout` 2 let one timed-out call leave an instance fresh and
two make it stale.

`mesh` bounds the passes of a process with its own `MaxVersion`, and nothing else.
The last pass stands for those that go on for ever once the registry has settled:
registrations, failing passes and restarts come before it (`BeforeLast`), so that no
behaviour ends with a change that no pass can publish, or with an Envoy that holds the
last number from an earlier process. Five passes leave room for a number that comes
back after a restart, for failed passes and for passes that repair it.

`CHECK_DEADLOCK FALSE` is set for `ControlPlane` only, where the process ends.

### Fairness

- `Reconciler`: weak fairness of the steps of a running pass, per caller. A
  goroutine that can run is scheduled and no call of a pass blocks for ever.
  Nothing is asked of clients, the clock or the start of a pass.
- `ControlPlane`: weak fairness of Run, of each server goroutine and of callbacks
  under way. The timeout of Shutdown ends as part of Run. Nothing is asked of
  Envoys, clients or the signal; `DrainsOnceEnvoysLeave` has its assumption about
  Envoys in the formula.
- `Watcher`: weak fairness of the watcher's steps and of serving the outstanding
  call. Faults are bounded, late requests need not arrive.
- `Mesh`: weak fairness of starting a pass and of the Envoy and its stream; strong
  fairness of publishing, which says that passes do not all fail.

## What is proved

For every value of the constants that meets the named assumptions
(`RegistryAssumption`, `RoutingAssumption`, `ReconcilerAssumption`,
`TrackerAssumption`, `RetryLoopAssumption`, `MeshAssumption`, `WatcherAssumption`:
ranges of numbers, markers that are not ordinary values, `Rank` ordering the service
names, finiteness of the sets that are counted, and a second and a backoff cap of
at least five units, so that a fifth of them, the jitter, is not zero). Every
safety property that a run checks with success has a theorem. Where the property
needs a condition, the condition is a hypothesis of the theorem and named below
(`SweepNoLater`, `SumsFit`, `Fits`, `SingleCaller`). A violated run or one of the
observations above shows what happens without it.

`StateProofs`
- `RegistryTypeCorrect`, `UnhealthyIsStaleAlways`: by induction, one case per
  operation. The clock only moves away from a heartbeat, and every write of a
  heartbeat sets the mark.
- `DiscoveryIgnoresSweep`: with equal thresholds a read does not depend on the
  sweep.
- `NamespacesAreIsolated`: `NamespaceIsolation`, for any names. Two namespaces that
  are not nested differ in a part that both have, every key begins with its
  namespace, and an operation touches one key.
- `TypeCorrect`: the types of `Reconciler`, with the facts that a pass reads
  instances only for a listed service and that no snapshot is numbered beyond the
  counter.
- `ReconcilerUsesRegistry`: `Reconciler` implements `RegistrySpec`, each step being
  a registry operation or a stutter. `UnhealthyIsStaleThroughout` follows.
- `SweepAndReadAgreeThen`: `SweepAndReadAgree`, if the sweep's threshold is not zero
  and at most the readers', or the readers have none (`SweepNoLater`). The run
  `thresholds` has a larger one.

`ReconcilerProofs`, any number of callers
- `RemovalAlwaysReflected`. The property speaks of the snapshots being built as
  well, which makes it inductive with `TypeOK`: a step that makes an instance
  unhealthy stamps `outSince` with a counter that is at least the number of every
  existing snapshot. The module also has a lemma per step of a pass, which the
  next four modules use.
- `PassNearsItsEnd`: each step of a pass lowers the triple of stages, listed services
  and splits left in a well-founded lexicographic order, and nothing else touches a pass that has begun. A pass thus takes
  finitely many steps. That lists are finite is `FiniteInv`: a registration occupies
  one more key. What is left of `PassTerminates` for TLC is that a pass under way can
  always take a step, and fairness.

`SnapshotProofs`, any number of callers
- `AdditionAlwaysReflected`, from `AdditionInv`: for an instance steady since a
  pass's number, every cluster built so far that takes it lists it, and its service
  has a listener or is still to come. An instance that is discoverable keeps its
  service in the list.
- `SplitsAlwaysDisjoint`, from `ApartInv`: a versioned cluster lists kept instances
  under their present version only.

`RouteProofs`, any number of callers
- `RoutesAlwaysResolve`, from `ResolveInv`: routes resolve in the snapshot under
  construction, the weighted clusters of the service in hand do too, and the ports
  used are those below the index. The ports are counted with the cardinality lemmas.
- `RouteAlwaysReflected`, from `FollowInv`: for a spec unaltered since the number,
  the weighted clusters followed by the splits still to do make up the spec.

`PassProofs`, any number of callers. All rest on `AssemblyInv`: stored
specs are valid; in every snapshot, and in those under construction but for the
service in hand, clusters and load assignments are the same, routes and listeners
are of the same services, the clusters of a service are those its route names, and a
route spreads a valid spec, or none. The service in hand is not listed again, which
is why its clusters cannot be another route's.
- `ConsistencyNeverFails`: what a pass has built is always `Consistent`. That check
  is a safety net which no interleaving reaches.
- `WeightsAlwaysTotal100OrWrap`, whatever clients send.
- `WeightsTotal100IfTheyFit`: published weights sum to exactly 100, if no spec sent overflows the word
  (`SumsFit`). The sums are functions defined by recursion on the length of the
  sequence. They exist, agree modulo the word and survive the translation of splits
  into weighted clusters by induction, with `LeastNumber` in place of the library's
  induction theorems.
- `DebugGapAlwaysExplained`: `DebugGapExplained`, with `LastFollows`, which is
  `FollowInv` for the snapshot that the debug page keeps.

`PublicationProofs`, one caller (`SingleCaller`)
- `VersionsIncreaseAlone`, `DebugNeverAheadAlone`, from `OrderInv`: a pass with a
  number is ahead of the cache, and a pass about to record is what the cache holds.
- `ReconcilerImplementsPublisher`: initial states map to initial states and every
  step to a step or a stutter, from `OrderInv`, `RemovalReflected` and `TypeOK`.

`EdgeProofs`, on `Watcher`
- `TypeCorrect`, with `CallInv` on what a call is for, and `NothingIsForgotten` with
  `DeregisteredIsGone`: a deregistration answered with success has taken effect, so
  forgetting the pod is right.

`EdgeProofs`, on `Mesh`
- `MeshTypeCorrect`, and `VersionAlwaysNamesContent` from `NumbersDiffer`: no two
  snapshots of the process that can still be met share a number. That is inductive
  with two facts about the counter: it is at least the number of each of them, and
  above it while a pass that has taken its number has not published.
- `QuietWatchAlwaysHidesNothing`, from `WatchIsAnswered`: an Envoy whose watch is
  left open has what is served, if it got it from this process. This is the part of
  `EnvoysConverge` that needs no fairness.

`ControlPlaneProofs`
- `GaugeAlwaysFollowsTable`, `NodeIDAlwaysSticks`, from `TableInv` (an entry exists
  exactly from the opening of a stream to its close).
- `TypeCorrect`, and `NilAlwaysMeansDrained` from `DrainInv`:
  what each stage of the drain has already seen end stays ended.
- `BackoffBeforeOverflow`: `BackoffAsDocumented`, as long as the product of the
  failures so far fits the signed word (`Fits`). The run `backoff_overflow` has the
  first that does not.
- `RunNeverWaitsInVain`, from `ResultsKept`: where `Run` selects or joins, a server
  that has ended has left its result in the channel. This is the part of
  `DeadServerEndsRun` and `DrainsOnceEnvoysLeave` that needs no fairness.

Only model-checked is liveness, which is outside the prover: `PassTerminates`,
`DeadServerEndsRun`, `DrainsOnceEnvoysLeave`, `DiscoveryConverges`,
`ScaleDownReflected`, `EnvoysConverge`.

## Not modelled

- Configuration (`internal/config`): read once, no state. Its durations are
  constants or timeouts of the models.
- Metrics and logging, but for the connections gauge: collectors are set or counted
  up and never read by the program. The attempts and failures counters likewise.
- Path routing, correlation IDs and the request metrics of the HTTP server, and the
  answers of `/v1/debug/services` and `/v1/debug/envoys`, which print reads that are
  modelled.
- Addresses, ports, timeouts, retry policies and circuit breakers inside the xDS
  resources: copied from the input and never decided upon. `Watcher` keeps the
  address, where it can be stale.
- The demo service: it keeps no state.
- Overflow of the uint64 version counter, which takes longer than any process runs.
