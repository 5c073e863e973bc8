----------------------------- MODULE Reconciler -----------------------------
(***************************************************************************)
(* The reconciliation pass (internal/reconciliation/reconciler.go) and the *)
(* snapshot it builds (internal/xds/snapshot.go), running against the      *)
(* registry and the route store while the HTTP handlers                    *)
(* (internal/api/*_handlers.go) change both.                               *)
(*                                                                         *)
(* A pass holds no lock from one call to the next.  Each call into the     *)
(* registry, the store, the version counter, the snapshot cache and the    *)
(* lastSnapshot field is a step of its own, and the handlers run between   *)
(* any two of them.  Caller is the set of goroutines inside Reconcile: the *)
(* shipped program has one, the loop of Reconciler.Run.                    *)
(*                                                                         *)
(* Resource names are records of the service and the split's version; the  *)
(* model leaves out service names that contain "::".                       *)
(***************************************************************************)
EXTENDS Registry, Routing, FiniteSets

CONSTANTS
    Caller,            \* the goroutines that call Reconcile
    DefaultNamespace,  \* xds.Namespace
    Unversioned,       \* the empty version string
    Rank,              \* position of each service name in sorted order
    NoSnapshot,        \* marks a cache that holds nothing for the node
    MaxVersion         \* bound: no pass starts once this many versions are used

VARIABLES
    version,       \* Reconciler.version
    pass,          \* the locals of each running Reconcile and BuildSnapshot
    cache,         \* what the SnapshotCache serves
    lastSnapshot,  \* Reconciler.lastSnapshot
    outSince,      \* history: version when an instance last stopped being healthy
    inSince,       \* history: version when an instance last became discoverable
    specSince      \* history: version when a service's spec last changed

passVars == <<version, pass, cache, lastSnapshot>>
historyVars == <<outSince, inSince, specSince>>
vars == <<svcs, now, specs, version, pass, cache, lastSnapshot,
          outSince, inSince, specSince>>

\* The names ListServices can return for the default namespace.
ServiceName ==
    {SubSeq(k, Len(DefaultNamespace) + 1, Len(k)) :
        k \in {k \in Key : /\ Len(k) > Len(DefaultNamespace)
                          /\ SubSeq(k, 1, Len(DefaultNamespace)) = DefaultNamespace}}

\* The resources of a snapshot: clusters (CDS), load assignments and their
\* endpoints (EDS), listeners (LDS) and route configurations (RDS).
Cluster == [svc : ServiceName, version : SplitLabel]
WeightedCluster == [cluster : Cluster, weight : Nat]

Snapshot ==
    [version : Nat,
     clusters : SUBSET Cluster,
     assignments : SUBSET Cluster,
     endpoints : SUBSET [cluster : Cluster, id : InstanceID],
     listeners : SUBSET [svc : ServiceName, port : Nat],
     routes : SUBSET [svc : ServiceName, weighted : Seq(WeightedCluster)]]

ASSUME ReconcilerAssumption ==
    /\ NoSnapshot \notin Snapshot
    /\ DefaultNamespace \in Namespace
    /\ Unversioned \in SplitLabel
    /\ MaxVersion \in Nat
    /\ Rank \in [ServiceName -> Nat]
    /\ \A s, t \in ServiceName : Rank[s] = Rank[t] => s = t

-----------------------------------------------------------------------------
\* Resources.

basePort == 20000

\* The split of a service without a spec: all traffic to one cluster.
noVersionSplit == <<[version |-> Unversioned, weight |-> 100]>>

clusterName(svc, label) == [svc |-> svc, version |-> label]

EmptySnapshot(v) ==
    [version |-> v, clusters |-> {}, assignments |-> {}, endpoints |-> {},
     listeners |-> {}, routes |-> {}]

\* The cluster of one split and the load assignment with its endpoints.
AddSplit(snap, cluster, ids) ==
    [snap EXCEPT
        !.clusters = @ \cup {cluster},
        !.assignments = @ \cup {cluster},
        !.endpoints = @ \cup {[cluster |-> cluster, id |-> id] : id \in ids}]

\* The route configuration of a service and its listener.
AddService(snap, svc, weighted, port) ==
    [snap EXCEPT
        !.routes = @ \cup {[svc |-> svc, weighted |-> weighted]},
        !.listeners = @ \cup {[svc |-> svc, port |-> port]}]

\* Snapshot.Consistent of go-control-plane: clusters and load assignments
\* name each other, and so do listeners and route configurations.
Consistent(snap) ==
    /\ snap.clusters = snap.assignments
    /\ {l.svc : l \in snap.listeners} = {r.svc : r \in snap.routes}

IdlePass ==
    [pc |-> "idle", todo |-> {}, index |-> 0, svc |-> <<>>, splits |-> <<>>,
     weighted |-> <<>>, snap |-> EmptySnapshot(0)]

\* The next service in the sorted list.
First(todo) == CHOOSE s \in todo : \A t \in todo : Rank[s] <= Rank[t]

\* Discovery may hand out the instance now.
Discoverable(k, id) ==
    /\ Registered(k, id)
    /\ svcs[k][id].healthy
    /\ ~ Lapsed(svcs[k][id], DiscoveryStaleAfter)

\* The instance is registered and not marked unhealthy.
Healthy(k, id) == Registered(k, id) /\ svcs[k][id].healthy

-----------------------------------------------------------------------------
\* The HTTP handlers.

handleRegisterService(ns, name, id, label, address) ==
    LET k == key(ns, name) IN
    /\ Register(ns, name, id, label, address)
    /\ inSince' = IF Discoverable(k, id) /\ svcs[k][id].version = label
                  THEN inSince
                  ELSE [inSince EXCEPT ![k][id] = version]
    /\ UNCHANGED <<specs, passVars, outSince, specSince>>

handleDeregisterInstance(ns, name, id) ==
    LET k == key(ns, name) IN
    /\ Deregister(ns, name, id)
    /\ outSince' = IF Healthy(k, id)
                   THEN [outSince EXCEPT ![k][id] = version]
                   ELSE outSince
    /\ UNCHANGED <<specs, passVars, inSince, specSince>>

handleHeartbeat(ns, name, id) ==
    LET k == key(ns, name) IN
    /\ Heartbeat(ns, name, id)
    /\ inSince' = IF Discoverable(k, id)
                  THEN inSince
                  ELSE [inSince EXCEPT ![k][id] = version]
    /\ UNCHANGED <<specs, passVars, outSince, specSince>>

\* The history of a service's spec, after a request that may change it.
SpecMarked(service) ==
    specSince' = IF specs' = specs THEN specSince ELSE [specSince EXCEPT ![service] = version]

handlePutRoute(service, spec) ==
    /\ PutRoute(service, spec)
    /\ SpecMarked(service)
    /\ UNCHANGED <<registryVars, passVars, outSince, inSince>>

handleDeleteRoute(service) ==
    /\ DeleteRoute(service)
    /\ SpecMarked(service)
    /\ UNCHANGED <<registryVars, passVars, outSince, inSince>>

Time == Tick /\ UNCHANGED <<specs, passVars, historyVars>>

-----------------------------------------------------------------------------
\* The pass.

\* Reconcile begins with the health sweep.
Sweep(c) ==
    /\ pass[c].pc = "idle"
    /\ version + Cardinality({d \in Caller : pass[d].pc = "swept"}) < MaxVersion
    /\ SweepStale
    /\ pass' = [pass EXCEPT ![c].pc = "swept"]
    /\ outSince' = [k \in Key |-> [id \in InstanceID |->
                       IF SweptOut(k, id) THEN version ELSE outSince[k][id]]]
    /\ UNCHANGED <<specs, version, cache, lastSnapshot, inSince, specSince>>

\* Mutant of NextVersion: every pass publishes under the same version.
NextVersion_Reuses(c) ==
    /\ pass[c].pc = "swept"
    /\ version' = 1
    /\ pass' = [pass EXCEPT ![c].pc = "list", ![c].snap = EmptySnapshot(1)]
    /\ UNCHANGED <<registryVars, specs, cache, lastSnapshot, historyVars>>

\* The pass takes the next version.
NextVersion(c) ==
    /\ pass[c].pc = "swept"
    /\ version' = version + 1
    /\ pass' = [pass EXCEPT ![c].pc = "list", ![c].snap = EmptySnapshot(version + 1)]
    /\ UNCHANGED <<registryVars, specs, cache, lastSnapshot, historyVars>>

\* BuildSnapshot lists the services once.
List(c) ==
    /\ pass[c].pc = "list"
    /\ pass' = [pass EXCEPT ![c].pc = "service",
                            ![c].todo = ListServices(DefaultNamespace)]
    /\ UNCHANGED <<registryVars, specs, version, cache, lastSnapshot, historyVars>>

\* The splits BuildSnapshot works through for a spec, or for its absence.
SplitsOf(spec) == IF spec = NoSpec THEN noVersionSplit ELSE spec.splits

\* It reads the spec of the next service.
GetRoute(c) ==
    /\ pass[c].pc = "service"
    /\ pass[c].todo # {}
    /\ LET svc == First(pass[c].todo)
       IN  pass' = [pass EXCEPT
                      ![c].pc = "split",
                      ![c].todo = pass[c].todo \ {svc},
                      ![c].svc = svc,
                      ![c].splits = SplitsOf(Get(svc)),
                      ![c].weighted = <<>>]
    /\ UNCHANGED <<registryVars, specs, version, cache, lastSnapshot, historyVars>>

\* Mutant of FilterByVersion: the unversioned split filters too.
FilterByVersion_Always(svc, ids, label) ==
    {id \in ids : svcs[key(DefaultNamespace, svc)][id].version = label}

\* Mutant of FilterByVersion: it never filters.
FilterByVersion_Never(svc, ids, label) == ids

\* filterByVersion, for a split that names a version.
FilterByVersion(svc, ids, label) ==
    IF label = Unversioned
    THEN ids
    ELSE {id \in ids : svcs[key(DefaultNamespace, svc)][id].version = label}

\* It reads the healthy instances, again for each split.
ReadSplit(c) ==
    /\ pass[c].pc = "split"
    /\ pass[c].splits # <<>>
    /\ LET svc == pass[c].svc
           split == Head(pass[c].splits)
           cluster == clusterName(svc, split.version)
           ids == FilterByVersion(svc,
                      HealthyInstances(DefaultNamespace, svc, DiscoveryStaleAfter),
                      split.version)
       IN  pass' = [pass EXCEPT
                      ![c].splits = Tail(pass[c].splits),
                      ![c].weighted = Append(pass[c].weighted,
                                             [cluster |-> cluster, weight |-> split.weight]),
                      ![c].snap = AddSplit(pass[c].snap, cluster, ids)]
    /\ UNCHANGED <<registryVars, specs, version, cache, lastSnapshot, historyVars>>

\* Mutant of AddListener: the index is not advanced.
AddListener_SamePort(c) ==
    /\ pass[c].pc = "split"
    /\ pass[c].splits = <<>>
    /\ pass' = [pass EXCEPT
                  ![c].pc = "service",
                  ![c].snap = AddService(pass[c].snap, pass[c].svc, pass[c].weighted,
                                         basePort)]
    /\ UNCHANGED <<registryVars, specs, version, cache, lastSnapshot, historyVars>>

\* Mutant of AddListener: the route is built from a second read of the spec.
AddListener_ReadsSpecAgain(c) ==
    /\ pass[c].pc = "split"
    /\ pass[c].splits = <<>>
    /\ LET svc == pass[c].svc
           splits == SplitsOf(Get(svc))
           weighted == [i \in DOMAIN splits |->
                           [cluster |-> clusterName(svc, splits[i].version),
                            weight |-> splits[i].weight]]
       IN  pass' = [pass EXCEPT
                      ![c].pc = "service",
                      ![c].index = pass[c].index + 1,
                      ![c].snap = AddService(pass[c].snap, svc, weighted,
                                             basePort + pass[c].index)]
    /\ UNCHANGED <<registryVars, specs, version, cache, lastSnapshot, historyVars>>

\* It adds the route configuration and the listener, on the port numbered by
\* the service's place in the list.
AddListener(c) ==
    /\ pass[c].pc = "split"
    /\ pass[c].splits = <<>>
    /\ pass' = [pass EXCEPT
                  ![c].pc = "service",
                  ![c].index = pass[c].index + 1,
                  ![c].snap = AddService(pass[c].snap, pass[c].svc, pass[c].weighted,
                                         basePort + pass[c].index)]
    /\ UNCHANGED <<registryVars, specs, version, cache, lastSnapshot, historyVars>>

Built(c) == pass[c].pc = "service" /\ pass[c].todo = {}

\* Mutant of BuildFails: the build is retried on the spot instead of leaving the
\* retry to the loop of Run.
BuildFails_RetriesNow(c) ==
    /\ Built(c) \/ (pass[c].pc = "split" /\ pass[c].splits = <<>>)
    /\ pass' = [pass EXCEPT ![c] = [IdlePass EXCEPT
                   !.pc = "list", !.snap = EmptySnapshot(pass[c].snap.version)]]
    /\ UNCHANGED <<registryVars, specs, version, cache, lastSnapshot, historyVars>>

\* BuildSnapshot returns an error: a listener could not be built, NewSnapshot
\* failed, or the snapshot is not consistent.  The version stays used.
BuildFails(c) ==
    /\ Built(c) \/ (pass[c].pc = "split" /\ pass[c].splits = <<>>)
    /\ pass' = [pass EXCEPT ![c] = IdlePass]
    /\ UNCHANGED <<registryVars, specs, version, cache, lastSnapshot, historyVars>>

\* Mutant of SetSnapshot: the version is taken after the build.
SetSnapshot_VersionsLate(c) ==
    /\ Built(c)
    /\ Consistent(pass[c].snap)
    /\ version' = version + 1
    /\ cache' = [pass[c].snap EXCEPT !.version = version + 1]
    /\ pass' = [pass EXCEPT ![c].pc = "record"]
    /\ UNCHANGED <<registryVars, specs, lastSnapshot, historyVars>>

\* Mutant of SetSnapshot: the endpoints are added to those already served.
SetSnapshot_Merges(c) ==
    /\ Built(c)
    /\ Consistent(pass[c].snap)
    /\ cache' = IF cache = NoSnapshot
                THEN pass[c].snap
                ELSE [pass[c].snap EXCEPT !.endpoints = @ \cup cache.endpoints]
    /\ pass' = [pass EXCEPT ![c].pc = "record"]
    /\ UNCHANGED <<registryVars, specs, version, lastSnapshot, historyVars>>

\* SetSnapshot replaces what the cache serves.
SetSnapshot(c) ==
    /\ Built(c)
    /\ Consistent(pass[c].snap)
    /\ cache' = pass[c].snap
    /\ pass' = [pass EXCEPT ![c].pc = "record"]
    /\ UNCHANGED <<registryVars, specs, version, lastSnapshot, historyVars>>

\* Mutant of SetSnapshotFails: the version of a failed publish is given back.
SetSnapshotFails_ReturnsVersion(c) ==
    /\ Built(c)
    /\ Consistent(pass[c].snap)
    /\ cache' \in {cache, pass[c].snap}
    /\ version' = version - 1
    /\ pass' = [pass EXCEPT ![c] = IdlePass]
    /\ UNCHANGED <<registryVars, specs, lastSnapshot, historyVars>>

\* Mutant of SetSnapshotFails: the error is not returned.
SetSnapshotFails_FallsThrough(c) ==
    /\ Built(c)
    /\ Consistent(pass[c].snap)
    /\ cache' \in {cache, pass[c].snap}
    /\ pass' = [pass EXCEPT ![c].pc = "record"]
    /\ UNCHANGED <<registryVars, specs, version, lastSnapshot, historyVars>>

\* SetSnapshot returns an error, with or without having replaced it.
SetSnapshotFails(c) ==
    /\ Built(c)
    /\ Consistent(pass[c].snap)
    /\ cache' \in {cache, pass[c].snap}
    /\ pass' = [pass EXCEPT ![c] = IdlePass]
    /\ UNCHANGED <<registryVars, specs, version, lastSnapshot, historyVars>>

\* The pass keeps the snapshot for LastSnapshot and returns.
Record(c) ==
    /\ pass[c].pc = "record"
    /\ lastSnapshot' = pass[c].snap
    /\ pass' = [pass EXCEPT ![c] = IdlePass]
    /\ UNCHANGED <<registryVars, specs, version, cache, historyVars>>

PassStep(c) ==
    \/ NextVersion(c)
    \/ List(c)
    \/ GetRoute(c)
    \/ ReadSplit(c)
    \/ AddListener(c)
    \/ BuildFails(c)
    \/ SetSnapshot(c)
    \/ SetSnapshotFails(c)
    \/ Record(c)

-----------------------------------------------------------------------------
Init ==
    /\ RegistryInit
    /\ RoutingInit
    /\ version = 0
    /\ pass = [c \in Caller |-> IdlePass]
    /\ cache = NoSnapshot
    /\ lastSnapshot = NoSnapshot
    /\ outSince = [k \in Key |-> [id \in InstanceID |-> 0]]
    /\ inSince = [k \in Key |-> [id \in InstanceID |-> 0]]
    /\ specSince = [service \in RouteService |-> 0]

HandlerStep ==
    \/ \E ns \in Namespace, name \in Service, id \in InstanceID :
          \/ \E label \in Version, address \in Address :
                handleRegisterService(ns, name, id, label, address)
          \/ handleDeregisterInstance(ns, name, id)
          \/ handleHeartbeat(ns, name, id)
    \/ \E service \in RouteService :
          \/ \E spec \in SpecInput : handlePutRoute(service, spec)
          \/ handleDeleteRoute(service)

Next ==
    \/ HandlerStep
    \/ Time
    \/ \E c \in Caller : Sweep(c)
    \/ \E c \in Caller : PassStep(c)

Spec == Init /\ [][Next]_vars

\* A goroutine inside Reconcile keeps running; nothing makes a client call.
FairSpec == Spec /\ \A c \in Caller : WF_vars(PassStep(c))

-----------------------------------------------------------------------------
\* Properties.

Pass ==
    [pc : {"idle", "swept", "list", "service", "split", "record"},
     todo : SUBSET ServiceName,
     index : Nat,
     svc : ServiceName \cup {<<>>},
     splits : Seq(VersionWeight),
     weighted : Seq(WeightedCluster),
     snap : Snapshot]

\* The state is well formed; a pass reads instances only for a service it
\* listed, and no snapshot carries a version that was not yet handed out
\* (Reconcile, BuildSnapshot).
TypeOK ==
    /\ RegistryTypeOK
    /\ specs \in [RouteService -> SpecInput \cup {NoSpec}]
    /\ version \in Nat
    /\ pass \in [Caller -> Pass]
    /\ \A c \in Caller :
          /\ pass[c].pc = "split" => pass[c].svc \in ServiceName
          /\ pass[c].snap.version <= version
    /\ cache \in Snapshot \cup {NoSnapshot}
    /\ cache # NoSnapshot => cache.version <= version
    /\ lastSnapshot \in Snapshot \cup {NoSnapshot}
    /\ outSince \in [Key -> [InstanceID -> Nat]]
    /\ inSince \in [Key -> [InstanceID -> Nat]]
    /\ specSince \in [RouteService -> Nat]

\* No endpoint of the snapshot was already out, by its version.
NoneLingers(snap) ==
    \A e \in snap.endpoints :
        LET k == key(DefaultNamespace, e.cluster.svc)
        IN  ~ Healthy(k, e.id) => snap.version <= outSince[k][e.id]

\* Once an instance is deregistered, or the sweep has marked it unhealthy, no
\* snapshot numbered after that moment lists it, published or still being
\* built, whatever interleaving of passes and handlers produced the snapshot:
\* the reason Reconcile sweeps, then takes the version, then reads.
RemovalReflected ==
    /\ \A c \in Caller : NoneLingers(pass[c].snap)
    /\ cache # NoSnapshot => NoneLingers(cache)

\* The snapshot gives the service a listener, and lists the instance unless
\* no split of its route takes the instance's version.
Serves(snap, svc, id) ==
    /\ \E l \in snap.listeners : l.svc = svc
    /\ \/ \E e \in snap.endpoints : e.cluster.svc = svc /\ e.id = id
       \/ \A cl \in snap.clusters :
             cl.svc = svc
                 => cl.version \notin {Unversioned, svcs[key(DefaultNamespace, svc)][id].version}

\* Every instance that has been discoverable without interruption since before
\* a snapshot's version was taken is served by that snapshot (ListServices,
\* routes.Get and HealthyInstances are read one after the other, with no lock
\* held in between).
AdditionReflected ==
    cache # NoSnapshot =>
        \A svc \in Service, id \in InstanceID :
            LET k == key(DefaultNamespace, svc)
            IN  (Discoverable(k, id) /\ cache.version > inSince[k][id])
                    => Serves(cache, svc, id)

\* In every published snapshot a route only names clusters of the same
\* snapshot, and the listeners take the ports from basePort on, one each;
\* Consistent() checks neither, so the first rests on BuildSnapshot reading
\* each spec exactly once.
RoutesResolve ==
    cache # NoSnapshot =>
        /\ \A r \in cache.routes : \A i \in DOMAIN r.weighted :
              r.weighted[i].cluster \in cache.clusters
        /\ {l.port : l \in cache.listeners}
              = basePort .. basePort + Cardinality(cache.listeners) - 1

\* The sum of the weights of a route, as integers.
WeightSum(weighted) ==
    LET sum[i \in 0 .. Len(weighted)] ==
            IF i = 0 THEN 0 ELSE sum[i - 1] + weighted[i].weight
    IN  sum[Len(weighted)]

\* A sum that is 100 in the code's arithmetic: 100, or one that a uint32 total
\* wraps to 100.
WrapsTo100(total) ==
    total = 100 \/ (total >= UintModulus /\ total % UintModulus = 100)

\* The weights of every published route sum to 100, unless they sum to so much
\* that the uint32 total of Spec.Validate wraps to 100: the comment on Validate
\* asks for "exactly 100", and the wrap is the only way past it.
WeightsTotal100OrWrap ==
    cache # NoSnapshot => \A r \in cache.routes : WrapsTo100(WeightSum(r.weighted))

\* The cache never goes back to an older version or repeats one (version.Add
\* and SetSnapshot in Reconcile).
VersionsIncrease ==
    [][cache' # cache => (cache = NoSnapshot \/ cache'.version > cache.version)]_vars

\* The snapshot shown by /debug/config is never newer than what the cache
\* serves: lastSnapshot is written only after SetSnapshot succeeded.
DebugNeverAhead ==
    lastSnapshot # NoSnapshot =>
        cache # NoSnapshot /\ lastSnapshot.version <= cache.version

\* Right after a sweep, an instance is marked healthy exactly when discovery
\* hands it out: the two notions of staleness do not disagree.
SweepAndReadAgree ==
    [][\A c \in Caller : Sweep(c) =>
          \A svc \in Service, id \in InstanceID :
              LET k == key(DefaultNamespace, svc)
              IN  Healthy(k, id)' <=>
                      id \in HealthyInstances(DefaultNamespace, svc, DiscoveryStaleAfter)']_vars

\* An instance that kept its version since a snapshot's number was taken is in
\* at most one cluster that a split names, although every split reads the
\* instances again (filterByVersion, once per split).
SplitsDisjoint ==
    cache # NoSnapshot =>
        \A e, f \in cache.endpoints :
            (/\ e.id = f.id /\ e.cluster.svc = f.cluster.svc
             /\ Unversioned \notin {e.cluster.version, f.cluster.version}
             /\ inSince[key(DefaultNamespace, e.cluster.svc)][e.id] < cache.version)
                => e = f

\* The version when the spec of a service last changed.
SpecChanged(svc) == IF svc \in RouteService THEN specSince[svc] ELSE 0

\* A spec that was in place, or absent, since before a snapshot's number was
\* taken is the one the snapshot's route follows, clusters and weights in its
\* order (routes.Get is called once per service and pass).
RouteReflected ==
    cache # NoSnapshot =>
        \A r \in cache.routes :
            SpecChanged(r.svc) < cache.version =>
                LET splits == SplitsOf(Get(r.svc))
                IN  r.weighted = [i \in DOMAIN splits |->
                                     [cluster |-> clusterName(r.svc, splits[i].version),
                                      weight |-> splits[i].weight]]

\* What GET /v1/debug/config/{service} answers, from the last snapshot and then
\* from the route store.
handleDebugConfig(service, snap, spec) ==
    [version |-> snap.version,
     clusters |-> {cl \in snap.clusters : cl.svc = service},
     endpoints |-> {cl \in snap.assignments : cl.svc = service},
     hasRoute |-> \E r \in snap.routes : r.svc = service,
     hasListener |-> \E l \in snap.listeners : l.svc = service,
     spec |-> spec]

\* The debug page shows a service whole or not at all, and the clusters it
\* takes from the last snapshot are those of the spec it takes from the store,
\* unless the spec changed since the snapshot's number was taken.  Another
\* handler or a pass may run between the two reads (handleDebugConfig).
DebugGapExplained ==
    [][lastSnapshot # NoSnapshot =>
          \A service \in ServiceName :
              LET answer == handleDebugConfig(service, lastSnapshot, Get(service)')
                  splits == SplitsOf(answer.spec)
              IN  /\ answer.clusters = answer.endpoints
                  /\ answer.hasRoute <=> answer.hasListener
                  /\ answer.hasRoute <=> answer.clusters # {}
                  /\ (answer.hasRoute /\ SpecChanged(service)' < answer.version) =>
                        answer.clusters = {clusterName(service, splits[i].version) :
                                              i \in DOMAIN splits}]_vars

\* A pass that has started returns, however often clients change the registry
\* and the routes while it runs (the service list is read once).
PassTerminates ==
    \A c \in Caller : pass[c].pc # "idle" ~> pass[c].pc = "idle"

=============================================================================
