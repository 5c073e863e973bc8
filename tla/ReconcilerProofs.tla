-------------------------- MODULE ReconcilerProofs --------------------------
(***************************************************************************)
(* Proofs about Reconciler with any number of concurrent callers of        *)
(* Reconcile: what each step of a pass does, that removals are reflected,  *)
(* what the handlers, the clock and sweeps do to the instances, and that   *)
(* every step of a pass brings it nearer to its end.                       *)
(***************************************************************************)
EXTENDS StateProofs, FiniteSetTheorems

\* What each step of a pass does to the pass, field by field.

\* A step of one pass is invisible to the others and to the registry, the
\* specs and the histories (Reconcile, BuildSnapshot).
LEMMA PassFrame ==
    ASSUME TypeOK, NEW c \in Caller, PassStep(c)
    PROVE  /\ UNCHANGED <<svcs, now, specs, inSince, specSince>>
           /\ \A d \in Caller \ {c} : pass'[d] = pass[d]
<1>1. UNCHANGED <<registryVars, specs, historyVars>>
  BY ZenonT(30) DEF PassStep, NextVersion, List, GetRoute, ReadSplit, AddListener,
         BuildFails, SetSnapshot, SetSnapshotFails, Record
<1>2. \E q : pass' = [pass EXCEPT ![c] = q]
  BY ZenonT(30) DEF PassStep, NextVersion, List, GetRoute, ReadSplit, AddListener,
         BuildFails, SetSnapshot, SetSnapshotFails, Record
<1>3. pass \in [Caller -> Pass]
  BY DEF TypeOK
<1> QED BY <1>1, <1>2, <1>3 DEF registryVars, historyVars

\* The pass starts from an empty snapshot under a new number (version.Add).
LEMMA NextVersionStep ==
    ASSUME TypeOK, NEW c \in Caller, NextVersion(c)
    PROVE  /\ pass'[c].pc = "list" /\ pass'[c].index = pass[c].index
           /\ pass'[c].snap = EmptySnapshot(version + 1)
           /\ cache' = cache
<1>1. pass \in [Caller -> Pass] /\ pass[c] \in Pass
  BY PassFacts
<1> QED BY <1>1 DEF NextVersion, Pass

\* The services are listed (ListServices).
LEMMA ListStep ==
    ASSUME TypeOK, NEW c \in Caller, List(c)
    PROVE  /\ pass[c].pc = "list"
           /\ pass'[c].pc = "service" /\ pass'[c].todo = ListServices(DefaultNamespace)
           /\ pass'[c].snap = pass[c].snap /\ pass'[c].index = pass[c].index
           /\ cache' = cache
<1>1. pass \in [Caller -> Pass] /\ pass[c] \in Pass
  BY PassFacts
<1> QED BY <1>1 DEF List, Pass

\* One service moves from the list to the build (routes.Get).
LEMMA GetRouteStep ==
    ASSUME TypeOK, NEW c \in Caller, GetRoute(c)
    PROVE  /\ pass[c].pc = "service"
           /\ pass'[c].pc = "split"
           /\ pass'[c].svc \in ServiceName /\ pass'[c].svc \in pass[c].todo
           /\ pass'[c].todo = pass[c].todo \ {pass'[c].svc}
           /\ pass'[c].splits = SplitsOf(Get(pass'[c].svc))
           /\ pass'[c].weighted = <<>>
           /\ pass'[c].snap = pass[c].snap /\ pass'[c].index = pass[c].index
           /\ cache' = cache
<1> DEFINE p == pass[c]
           svc == First(p.todo)
           splits == SplitsOf(Get(svc))
           q == [p EXCEPT !.pc = "split", !.todo = p.todo \ {svc}, !.svc = svc,
                          !.splits = splits, !.weighted = <<>>]
<1>1. pass \in [Caller -> Pass] /\ p \in Pass
  BY PassFacts
<1>2. svc \in ServiceName /\ svc \in p.todo
  BY Zenon, <1>1, FirstIsListed DEF GetRoute, Pass
<1>3. pass' = [pass EXCEPT ![c] = q] /\ p.pc = "service" /\ cache' = cache
  BY Zenon DEF GetRoute
<1> HIDE DEF svc
<1>4. /\ q.pc = "split" /\ q.svc = svc /\ q.todo = p.todo \ {svc} /\ q.splits = splits
      /\ q.weighted = <<>> /\ q.snap = p.snap /\ q.index = p.index
  BY Zenon, <1>1 DEF Pass
<1> HIDE DEF q, splits
<1>5. pass'[c] = q
  BY <1>1, <1>3
<1>6. splits = SplitsOf(Get(q.svc))
  BY <1>4 DEF splits
<1> QED BY <1>2, <1>3, <1>4, <1>5, <1>6

\* One split's cluster and endpoints are added (HealthyInstances).
LEMMA ReadSplitStep ==
    ASSUME TypeOK, NEW c \in Caller, ReadSplit(c)
    PROVE  LET p == pass[c]
               split == Head(p.splits)
               cluster == clusterName(p.svc, split.version)
               ids == FilterByVersion(p.svc,
                          HealthyInstances(DefaultNamespace, p.svc, DiscoveryStaleAfter),
                          split.version)
           IN  /\ p.pc = "split" /\ p.svc \in ServiceName /\ p.splits # <<>>
               /\ cluster \in Cluster /\ ids \subseteq InstanceID
               /\ pass'[c].pc = p.pc /\ pass'[c].svc = p.svc /\ pass'[c].todo = p.todo
               /\ pass'[c].index = p.index
               /\ pass'[c].splits = Tail(p.splits)
               /\ pass'[c].weighted
                     = Append(p.weighted, [cluster |-> cluster, weight |-> split.weight])
               /\ pass'[c].snap.version = p.snap.version
               /\ pass'[c].snap.listeners = p.snap.listeners
               /\ pass'[c].snap.routes = p.snap.routes
               /\ pass'[c].snap.clusters = p.snap.clusters \cup {cluster}
               /\ pass'[c].snap.assignments = p.snap.assignments \cup {cluster}
               /\ pass'[c].snap.endpoints
                     = p.snap.endpoints \cup {[cluster |-> cluster, id |-> id] : id \in ids}
               /\ cache' = cache
<1> DEFINE p == pass[c]
           split == Head(p.splits)
           cluster == clusterName(p.svc, split.version)
           ids == FilterByVersion(p.svc,
                      HealthyInstances(DefaultNamespace, p.svc, DiscoveryStaleAfter),
                      split.version)
           t == AddSplit(p.snap, cluster, ids)
           w == Append(p.weighted, [cluster |-> cluster, weight |-> split.weight])
           q == [p EXCEPT !.splits = Tail(p.splits), !.weighted = w, !.snap = t]
<1>1. pass \in [Caller -> Pass] /\ p \in Pass /\ p.snap \in Snapshot
  BY PassFacts
<1>2. p.pc = "split" /\ p.splits # <<>> /\ cache' = cache
  BY ZenonT(30) DEF ReadSplit
<1>3. pass' = [pass EXCEPT ![c] = q]
  BY ZenonT(30) DEF ReadSplit
<1>4. p.svc \in ServiceName
  BY <1>2 DEF TypeOK
<1>5. cluster \in Cluster
  <2>1. p.splits \in Seq(VersionWeight)
    BY <1>1 DEF Pass
  <2>2. split \in VersionWeight
    BY <1>2, <2>1
  <2> QED BY <1>4, <2>2 DEF clusterName, Cluster, VersionWeight
<1>6. ids \subseteq InstanceID
  BY ReadType
<1> SUFFICES /\ pass'[c].pc = p.pc /\ pass'[c].svc = p.svc /\ pass'[c].todo = p.todo
             /\ pass'[c].index = p.index
             /\ pass'[c].splits = Tail(p.splits)
             /\ pass'[c].weighted = w
             /\ pass'[c].snap.version = p.snap.version
             /\ pass'[c].snap.listeners = p.snap.listeners
             /\ pass'[c].snap.routes = p.snap.routes
             /\ pass'[c].snap.clusters = p.snap.clusters \cup {cluster}
             /\ pass'[c].snap.assignments = p.snap.assignments \cup {cluster}
             /\ pass'[c].snap.endpoints
                   = p.snap.endpoints \cup {[cluster |-> cluster, id |-> id] : id \in ids}
  BY Zenon, <1>2, <1>4, <1>5, <1>6
<1> HIDE DEF split, cluster, ids
<1>7. /\ t.version = p.snap.version /\ t.listeners = p.snap.listeners
      /\ t.routes = p.snap.routes /\ t.clusters = p.snap.clusters \cup {cluster}
      /\ t.assignments = p.snap.assignments \cup {cluster}
      /\ t.endpoints = p.snap.endpoints \cup {[cluster |-> cluster, id |-> id] : id \in ids}
  BY Zenon, <1>1 DEF AddSplit, Snapshot
<1> HIDE DEF t, w
<1>8. /\ q.pc = p.pc /\ q.svc = p.svc /\ q.todo = p.todo /\ q.index = p.index
      /\ q.splits = Tail(p.splits) /\ q.weighted = w /\ q.snap = t
  BY Zenon, <1>1 DEF Pass
<1> HIDE DEF q
<1>9. pass'[c] = q
  BY Zenon, <1>1, <1>3
<1> QED BY Zenon, <1>7, <1>8, <1>9

\* The service's route and listener are added, on the next port (BuildSnapshot).
LEMMA AddListenerStep ==
    ASSUME TypeOK, NEW c \in Caller, AddListener(c)
    PROVE  LET p == pass[c]
           IN  /\ p.pc = "split" /\ p.svc \in ServiceName /\ p.splits = <<>>
               /\ pass'[c].pc = "service" /\ pass'[c].todo = p.todo
               /\ pass'[c].index = p.index + 1
               /\ pass'[c].snap.version = p.snap.version
               /\ pass'[c].snap.clusters = p.snap.clusters
               /\ pass'[c].snap.assignments = p.snap.assignments
               /\ pass'[c].snap.endpoints = p.snap.endpoints
               /\ pass'[c].snap.listeners
                     = p.snap.listeners \cup {[svc |-> p.svc, port |-> basePort + p.index]}
               /\ pass'[c].snap.routes
                     = p.snap.routes \cup {[svc |-> p.svc, weighted |-> p.weighted]}
               /\ cache' = cache
<1> DEFINE p == pass[c]
           t == AddService(p.snap, p.svc, p.weighted, basePort + p.index)
           q == [p EXCEPT !.pc = "service", !.index = p.index + 1, !.snap = t]
<1>1. pass \in [Caller -> Pass] /\ p \in Pass /\ p.snap \in Snapshot
  BY PassFacts
<1>2. p.pc = "split" /\ p.splits = <<>> /\ cache' = cache /\ pass' = [pass EXCEPT ![c] = q]
  BY ZenonT(30) DEF AddListener
<1>3. p.svc \in ServiceName
  BY <1>2 DEF TypeOK
<1>4. /\ t.version = p.snap.version /\ t.clusters = p.snap.clusters
      /\ t.assignments = p.snap.assignments /\ t.endpoints = p.snap.endpoints
      /\ t.listeners = p.snap.listeners \cup {[svc |-> p.svc, port |-> basePort + p.index]}
      /\ t.routes = p.snap.routes \cup {[svc |-> p.svc, weighted |-> p.weighted]}
  BY Zenon, <1>1 DEF AddService, Snapshot
<1> HIDE DEF t
<1>5. q.pc = "service" /\ q.todo = p.todo /\ q.index = p.index + 1 /\ q.snap = t
  BY Zenon, <1>1 DEF Pass
<1> HIDE DEF q
<1>6. pass'[c] = q
  BY Zenon, <1>1, <1>2
<1> QED BY Zenon, <1>2, <1>3, <1>4, <1>5, <1>6

\* The last steps publish the snapshot as built, or leave the cache, and the
\* pass keeps its snapshot or ends (SetSnapshot, error returns of Reconcile).
LEMMA FinalStep ==
    ASSUME TypeOK, NEW c \in Caller,
           BuildFails(c) \/ SetSnapshot(c) \/ SetSnapshotFails(c) \/ Record(c)
    PROVE  /\ cache' = cache \/ (Built(c) /\ cache' = pass[c].snap)
           /\ \/ pass'[c] = IdlePass
              \/ /\ pass'[c].pc = "record" /\ pass[c].pc = "service"
                 /\ pass'[c].snap = pass[c].snap /\ pass'[c].index = pass[c].index
                 /\ pass'[c].todo = pass[c].todo
<1>1. pass \in [Caller -> Pass] /\ pass[c] \in Pass
  BY PassFacts
<1>2. CASE SetSnapshot(c)
  BY <1>1, <1>2 DEF SetSnapshot, Built, Pass
<1>3. CASE BuildFails(c) \/ SetSnapshotFails(c) \/ Record(c)
  BY <1>1, <1>3 DEF BuildFails, SetSnapshotFails, Record
<1> QED BY <1>2, <1>3

-----------------------------------------------------------------------------
\* Removals.

\* What a handler, the clock or a sweep does to one instance: afterwards it is
\* healthy, or it was out before and its mark is unchanged, or it went out now
\* and carries the current version.
Accounted(k, id) ==
    \/ Healthy(k, id)'
    \/ outSince'[k][id] = version
    \/ ~ Healthy(k, id) /\ outSince'[k][id] = outSince[k][id]

\* Every handler accounts for every instance (api handlers, registry).
LEMMA HandlerAccounts ==
    ASSUME TypeOK, HandlerStep \/ Time, NEW k \in Key, NEW id \in InstanceID
    PROVE  Accounted(k, id)
<1> USE DEF TypeOK, RegistryTypeOK
<1> DEFINE Kept == svcs'[k][id] = svcs[k][id] /\ outSince'[k][id] = outSince[k][id]
<1>1. Kept => Accounted(k, id)
  BY DEF Accounted, Healthy, Registered
<1>2. ASSUME NEW ns \in Namespace, NEW name \in Service, NEW i \in InstanceID,
             NEW label \in Version, NEW address \in Address,
             handleRegisterService(ns, name, i, label, address)
      PROVE  Accounted(k, id)
  <2>1. key(ns, name) \in Key
    BY KeyKnown
  <2> DEFINE new == [version |-> label, address |-> address,
                     healthy |-> TRUE, lastHeartbeat |-> now]
  <2>2. new \in Instance /\ new # NoInstance /\ new.healthy
    <3>1. new \in Instance
      BY DEF Instance
    <3>2. new # NoInstance
      BY ZenonT(30), <3>1, RegistryAssumption
    <3>3. new.healthy
      OBVIOUS
    <3> QED BY <3>1, <3>2, <3>3
  <2>3. svcs' = [svcs EXCEPT ![key(ns, name)][i] = new] /\ outSince' = outSince
    BY <1>2 DEF handleRegisterService, Register
  <2> HIDE DEF new
  <2>4. CASE k = key(ns, name) /\ id = i
    BY <2>1, <2>2, <2>3, <2>4 DEF Accounted, Healthy, Registered
  <2>5. CASE ~ (k = key(ns, name) /\ id = i)
    BY <2>1, <2>3, <2>5, <1>1
  <2> QED BY <2>4, <2>5
<1>3. ASSUME NEW ns \in Namespace, NEW name \in Service, NEW i \in InstanceID,
             handleDeregisterInstance(ns, name, i)
      PROVE  Accounted(k, id)
  <2>1. key(ns, name) \in Key
    BY KeyKnown
  <2>2. CASE k = key(ns, name) /\ id = i
    BY <1>3, <2>1, <2>2 DEF handleDeregisterInstance, Accounted
  <2>3. CASE ~ (k = key(ns, name) /\ id = i)
    BY <1>1, <1>3, <2>1, <2>3 DEF handleDeregisterInstance, Deregister
  <2> QED BY <2>2, <2>3
<1>4. ASSUME NEW ns \in Namespace, NEW name \in Service, NEW i \in InstanceID,
             handleHeartbeat(ns, name, i)
      PROVE  Accounted(k, id)
  <2>1. key(ns, name) \in Key
    BY KeyKnown
  <2> DEFINE new == [svcs[key(ns, name)][i] EXCEPT !.lastHeartbeat = now, !.healthy = TRUE]
  <2>2. svcs[key(ns, name)][i] \in Instance
    BY <1>4, <2>1 DEF handleHeartbeat, Heartbeat, Registered
  <2>3. new \in Instance /\ new # NoInstance /\ new.healthy
    BY ZenonT(30), <2>2, RegistryAssumption DEF Instance
  <2>4. svcs' = [svcs EXCEPT ![key(ns, name)][i] = new] /\ outSince' = outSince
    BY <1>4 DEF handleHeartbeat, Heartbeat
  <2> HIDE DEF new
  <2>5. CASE k = key(ns, name) /\ id = i
    BY <2>1, <2>3, <2>4, <2>5 DEF Accounted, Healthy, Registered
  <2>6. CASE ~ (k = key(ns, name) /\ id = i)
    BY <2>1, <2>4, <2>6, <1>1
  <2> QED BY <2>5, <2>6
<1>5. ASSUME NEW service \in RouteService,
             \/ handleDeleteRoute(service)
             \/ \E spec \in SpecInput : handlePutRoute(service, spec)
      PROVE  Accounted(k, id)
  BY <1>1, <1>5 DEF handleDeleteRoute, handlePutRoute, registryVars
<1>6. CASE Time
  BY <1>1, <1>6 DEF Time, Tick, historyVars
<1> HIDE DEF Kept
<1> QED BY <1>2, <1>3, <1>4, <1>5, <1>6 DEF HandlerStep

\* So does a sweep (SweepStale).
LEMMA SweepAccounts ==
    ASSUME TypeOK, NEW c \in Caller, Sweep(c), NEW k \in Key, NEW id \in InstanceID
    PROVE  Accounted(k, id)
<1>1. CASE SweptOut(k, id)
  BY <1>1 DEF TypeOK, Sweep, Accounted
<1>2. CASE ~ SweptOut(k, id)
  BY <1>2 DEF TypeOK, Sweep, SweepStale, Accounted, Healthy, Registered
<1> QED BY <1>1, <1>2

\* A snapshot that lists nobody who is out keeps that property while its
\* instances change, because its version was handed out already.
LEMMA NoneLingersKept ==
    ASSUME TypeOK, NEW snap \in Snapshot, snap.version <= version, NoneLingers(snap),
           \A k \in Key, id \in InstanceID : Accounted(k, id)
    PROVE  NoneLingers(snap)'
<1> SUFFICES ASSUME NEW e \in snap.endpoints,
                    ~ Healthy(key(DefaultNamespace, e.cluster.svc), e.id)'
             PROVE  snap.version <= outSince'[key(DefaultNamespace, e.cluster.svc)][e.id]
  BY DEF NoneLingers
<1> DEFINE k == key(DefaultNamespace, e.cluster.svc)
<1>1. e.cluster.svc \in ServiceName /\ e.id \in InstanceID
  BY DEF Snapshot, Cluster
<1>2. k \in Key
  BY <1>1, KeyOfListed
<1>3. Accounted(k, e.id)
  BY <1>1, <1>2
<1>4. ~ Healthy(k, e.id) => snap.version <= outSince[k][e.id]
  BY DEF NoneLingers
<1> HIDE DEF k
<1> QED BY <1>3, <1>4 DEF Accounted, k

\* RemovalReflected survives every step of a pass: only ReadSplit adds
\* endpoints, and it adds instances that are healthy at that moment.
LEMMA PassKeepsRemoval ==
    ASSUME TypeOK, RemovalReflected, NEW c \in Caller, PassStep(c)
    PROVE  RemovalReflected'
<1> DEFINE p == pass[c]
<1>u. UNCHANGED <<registryVars, historyVars>>
  BY ZenonT(30) DEF PassStep, NextVersion, List, GetRoute, ReadSplit, AddListener,
         BuildFails, SetSnapshot, SetSnapshotFails, Record
<1>o. (\A d \in Caller : NoneLingers(pass[d].snap)) /\ (cache # NoSnapshot => NoneLingers(cache))
  BY DEF RemovalReflected
<1> SUFFICES /\ NoneLingers(pass'[c].snap)
             /\ cache' = cache \/ cache' = p.snap
  <2>1. \A d \in Caller : NoneLingers(pass'[d].snap)
    BY <1>o, PassFrame
  <2>2. cache' # NoSnapshot => NoneLingers(cache')
    BY <1>o
  <2> QED BY <1>u, <2>1, <2>2 DEF RemovalReflected, NoneLingers, Healthy, Registered,
         registryVars, historyVars
<1>s. \A s, t : (s.version = t.version /\ s.endpoints = t.endpoints /\ NoneLingers(t))
                   => NoneLingers(s)
  BY DEF NoneLingers
<1>e. \A s : s.endpoints = {} => NoneLingers(s)
  BY DEF NoneLingers
<1>1. CASE NextVersion(c)
  <2>1. pass'[c].snap = EmptySnapshot(version + 1) /\ cache' = cache
    BY <1>1, NextVersionStep
  <2> QED BY <1>e, <2>1 DEF EmptySnapshot
<1>2. CASE List(c) \/ GetRoute(c)
  <2>1. pass'[c].snap = p.snap /\ cache' = cache
    BY <1>2, ListStep, GetRouteStep
  <2> QED BY <1>o, <2>1
<1>3. CASE ReadSplit(c)
  <2> DEFINE label == Head(p.splits).version
             cluster == clusterName(p.svc, label)
             ids == FilterByVersion(p.svc,
                        HealthyInstances(DefaultNamespace, p.svc, DiscoveryStaleAfter), label)
             t == pass'[c].snap
  <2>1. /\ cache' = cache /\ t.version = p.snap.version
        /\ t.endpoints = p.snap.endpoints \cup {[cluster |-> cluster, id |-> id] : id \in ids}
    BY ZenonT(30), <1>3, ReadSplitStep
  <2>2. \A id \in ids : Healthy(key(DefaultNamespace, p.svc), id)
    BY DEF FilterByVersion, HealthyInstances, Healthy
  <2>3. cluster.svc = p.svc
    BY DEF clusterName
  <2> HIDE DEF cluster, ids, t
  <2>4. NoneLingers(t)
    <3> SUFFICES ASSUME NEW e \in t.endpoints,
                        ~ Healthy(key(DefaultNamespace, e.cluster.svc), e.id)
                 PROVE  t.version <= outSince[key(DefaultNamespace, e.cluster.svc)][e.id]
      BY DEF NoneLingers
    <3>1. e \in p.snap.endpoints
      BY <2>1, <2>2, <2>3
    <3> QED BY <1>o, <2>1, <3>1 DEF NoneLingers
  <2> QED BY <2>1, <2>4 DEF t
<1>4. CASE AddListener(c)
  <2>1. /\ pass'[c].snap.version = p.snap.version
        /\ pass'[c].snap.endpoints = p.snap.endpoints
        /\ cache' = cache
    BY ZenonT(30), <1>4, AddListenerStep
  <2> QED BY <1>o, <1>s, <2>1
<1>5. CASE BuildFails(c) \/ SetSnapshot(c) \/ SetSnapshotFails(c) \/ Record(c)
  <2>1. /\ cache' = cache \/ cache' = p.snap
        /\ pass'[c] = IdlePass \/ pass'[c].snap = p.snap
    BY <1>5, FinalStep
  <2> QED BY <1>e, <1>o, <2>1, IdlePassType
<1> QED BY <1>1, <1>2, <1>3, <1>4, <1>5 DEF PassStep

\* Any change to the registry or the clock keeps every snapshot sound.
LEMMA EnvironmentKeepsRemoval ==
    ASSUME TypeOK, RemovalReflected,
           \/ HandlerStep \/ Time
           \/ \E c \in Caller : Sweep(c)
    PROVE  RemovalReflected'
<1>1. \A k \in Key, id \in InstanceID : Accounted(k, id)
  BY HandlerAccounts, SweepAccounts
<1>2. cache' = cache /\ \A d \in Caller : pass'[d].snap = pass[d].snap
  <2>1. CASE HandlerStep \/ Time
    BY <2>1 DEF HandlerStep, Time, handleRegisterService, handleDeregisterInstance,
           handleHeartbeat, handlePutRoute, handleDeleteRoute, passVars
  <2>2. ASSUME NEW c \in Caller, Sweep(c)
        PROVE  cache' = cache /\ \A d \in Caller : pass'[d].snap = pass[d].snap
    BY <2>2 DEF Sweep, TypeOK, Pass
  <2> QED BY <2>1, <2>2
<1>3. \A snap \in Snapshot :
        (snap.version <= version /\ NoneLingers(snap)) => NoneLingers(snap)'
  BY <1>1, NoneLingersKept
<1>4. \A d \in Caller : NoneLingers(pass[d].snap)'
  <2> SUFFICES ASSUME NEW d \in Caller PROVE NoneLingers(pass[d].snap)'
    OBVIOUS
  <2>1. /\ pass[d].snap \in Snapshot /\ pass[d].snap.version <= version
        /\ NoneLingers(pass[d].snap)
    BY PassFacts DEF RemovalReflected
  <2> QED BY <1>2, <1>3, <2>1 DEF NoneLingers
<1>5. (cache # NoSnapshot => NoneLingers(cache))'
  <2>1. cache # NoSnapshot => cache \in Snapshot /\ cache.version <= version /\ NoneLingers(cache)
    BY PublishedFacts DEF RemovalReflected
  <2> QED BY <1>2, <1>3, <2>1 DEF NoneLingers
<1> QED BY <1>4, <1>5 DEF RemovalReflected

\* No snapshot numbered after an instance was deregistered or swept out lists
\* it, with any number of concurrent passes (RemovalReflected).
THEOREM RemovalAlwaysReflected == Spec => []RemovalReflected
<1>1. Init => RemovalReflected
  BY IdlePassType DEF Init, RemovalReflected, NoneLingers
<1>2. TypeOK /\ RemovalReflected /\ [Next]_vars => RemovalReflected'
  <2> SUFFICES ASSUME TypeOK, RemovalReflected, [Next]_vars PROVE RemovalReflected'
    OBVIOUS
  <2>1. CASE UNCHANGED vars
    BY <2>1 DEF vars, RemovalReflected, NoneLingers, Healthy, Registered
  <2> QED BY <2>1, EnvironmentKeepsRemoval, PassKeepsRemoval DEF Next
<1> QED BY <1>1, <1>2, TypeCorrect, PTL DEF Spec

-----------------------------------------------------------------------------
\* Introductions.

\* What a handler, the clock or a sweep does to one instance: it is marked with
\* the current version, or it is registered afterwards only if it was before,
\* with the same version label, and discoverable only if it was before.
Introduced(k, id) ==
    \/ inSince'[k][id] = version
    \/ /\ inSince'[k][id] = inSince[k][id]
       /\ Registered(k, id)' =>
             Registered(k, id) /\ svcs'[k][id].version = svcs[k][id].version
       /\ Discoverable(k, id)' => Discoverable(k, id)

\* Every handler introduces what it makes discoverable (api handlers, registry).
LEMMA HandlerIntroduces ==
    ASSUME TypeOK, HandlerStep, NEW k \in Key, NEW id \in InstanceID
    PROVE  Introduced(k, id)
<1> USE DEF TypeOK, RegistryTypeOK
<1> DEFINE Kept == /\ svcs'[k][id] = svcs[k][id] /\ inSince'[k][id] = inSince[k][id]
                   /\ now' = now
<1>1. Kept => Introduced(k, id)
  BY DEF Introduced, Discoverable, Registered, Lapsed
<1>2. ASSUME NEW ns \in Namespace, NEW name \in Service, NEW i \in InstanceID,
             NEW label \in Version, NEW address \in Address,
             handleRegisterService(ns, name, i, label, address)
      PROVE  Introduced(k, id)
  <2>1. key(ns, name) \in Key
    BY KeyKnown
  <2>2. CASE k = key(ns, name) /\ id = i
    <3>1. CASE Discoverable(k, id) /\ svcs[k][id].version = label
      <4>1. inSince' = inSince
        BY <1>2, <2>2, <3>1 DEF handleRegisterService
      <4>2. svcs'[k][id].version = label
        BY <1>2, <2>1, <2>2 DEF handleRegisterService, Register
      <4>3. Registered(k, id)
        BY <3>1 DEF Discoverable
      <4> QED BY <3>1, <4>1, <4>2, <4>3 DEF Introduced
    <3>2. CASE ~ (Discoverable(k, id) /\ svcs[k][id].version = label)
      <4>1. inSince' = [inSince EXCEPT ![k][id] = version]
        BY <1>2, <2>2, <3>2 DEF handleRegisterService
      <4> QED BY <4>1 DEF Introduced
    <3> QED BY <3>1, <3>2
  <2>3. CASE ~ (k = key(ns, name) /\ id = i)
    <3>1. inSince'[k][id] = inSince[k][id]
      BY <1>2, <2>1, <2>3 DEF handleRegisterService
    <3>2. svcs'[k][id] = svcs[k][id] /\ now' = now
      BY <1>2, <2>1, <2>3 DEF handleRegisterService, Register
    <3> QED BY <1>1, <3>1, <3>2
  <2> QED BY <2>2, <2>3
<1>3. ASSUME NEW ns \in Namespace, NEW name \in Service, NEW i \in InstanceID,
             handleDeregisterInstance(ns, name, i)
      PROVE  Introduced(k, id)
  <2>1. key(ns, name) \in Key
    BY KeyKnown
  <2>2. CASE k = key(ns, name) /\ id = i
    <3>1. svcs'[k][id] = NoInstance /\ inSince' = inSince
      BY <1>3, <2>1, <2>2 DEF handleDeregisterInstance, Deregister
    <3>2. ~ Registered(k, id)'
      BY <3>1 DEF Registered
    <3> QED BY <3>1, <3>2 DEF Introduced, Discoverable
  <2>3. CASE ~ (k = key(ns, name) /\ id = i)
    BY <1>1, <1>3, <2>1, <2>3 DEF handleDeregisterInstance, Deregister
  <2> QED BY <2>2, <2>3
<1>4. ASSUME NEW ns \in Namespace, NEW name \in Service, NEW i \in InstanceID,
             handleHeartbeat(ns, name, i)
      PROVE  Introduced(k, id)
  <2>1. key(ns, name) \in Key
    BY KeyKnown
  <2> DEFINE new == [svcs[key(ns, name)][i] EXCEPT !.lastHeartbeat = now, !.healthy = TRUE]
  <2>2. svcs[key(ns, name)][i] \in Instance
    BY <1>4, <2>1 DEF handleHeartbeat, Heartbeat, Registered
  <2>3. new.version = svcs[key(ns, name)][i].version
    BY <2>2 DEF Instance
  <2>4. svcs' = [svcs EXCEPT ![key(ns, name)][i] = new] /\ now' = now
    BY <1>4 DEF handleHeartbeat, Heartbeat
  <2> HIDE DEF new
  <2>5. CASE k = key(ns, name) /\ id = i
    <3>1. CASE Discoverable(k, id)
      <4>1. inSince' = inSince
        BY <1>4, <2>5, <3>1 DEF handleHeartbeat
      <4>2. Registered(k, id)
        BY <3>1 DEF Discoverable
      <4> QED BY <2>1, <2>3, <2>4, <2>5, <3>1, <4>1, <4>2 DEF Introduced
    <3>2. CASE ~ Discoverable(k, id)
      <4>1. inSince' = [inSince EXCEPT ![k][id] = version]
        BY <1>4, <2>5, <3>2 DEF handleHeartbeat
      <4> QED BY <4>1 DEF Introduced
    <3> QED BY <3>1, <3>2
  <2>6. CASE ~ (k = key(ns, name) /\ id = i)
    <3>1. inSince'[k][id] = inSince[k][id]
      BY <1>4, <2>1, <2>6 DEF handleHeartbeat
    <3> QED BY <1>1, <2>1, <2>4, <2>6, <3>1
  <2> QED BY <2>5, <2>6
<1>5. ASSUME NEW service \in RouteService,
             \/ handleDeleteRoute(service)
             \/ \E spec \in SpecInput : handlePutRoute(service, spec)
      PROVE  Introduced(k, id)
  BY <1>1, <1>5 DEF handleDeleteRoute, handlePutRoute, registryVars
<1> QED BY <1>2, <1>3, <1>4, <1>5 DEF HandlerStep

\* The clock and a sweep introduce nothing (SweepStale).
LEMMA OthersIntroduce ==
    ASSUME TypeOK, Time \/ \E c \in Caller : Sweep(c), NEW k \in Key, NEW id \in InstanceID
    PROVE  Introduced(k, id)
<1>t. svcs[k][id] \in Instance \cup {NoInstance} /\ now \in Nat
  BY RegistryAssumption DEF TypeOK, RegistryTypeOK
<1>1. CASE Time
  <2>1. now' = now + 1 /\ svcs' = svcs /\ inSince' = inSince
    BY <1>1 DEF Time, Tick, historyVars
  <2>2. Registered(k, id) => svcs[k][id].lastHeartbeat \in Int
    BY <1>t, RegistryAssumption DEF Registered, Instance
  <2> QED BY <1>t, <2>1, <2>2, RegistryAssumption DEF Introduced, Discoverable, Registered, Lapsed
<1>2. ASSUME NEW c \in Caller, Sweep(c) PROVE Introduced(k, id)
  <2>1. now' = now /\ inSince' = inSince
    BY <1>2 DEF Sweep, SweepStale
  <2>2. svcs'[k][id] = IF SweptOut(k, id) THEN [svcs[k][id] EXCEPT !.healthy = FALSE]
                       ELSE svcs[k][id]
    BY SMTT(20), <1>2 DEF Sweep, SweepStale
  <2>3. CASE SweptOut(k, id)
    <3>1. svcs[k][id] \in Instance
      BY <1>t, <2>3 DEF SweptOut, Registered
    <3>2. ~ svcs'[k][id].healthy /\ svcs'[k][id].version = svcs[k][id].version
      BY <2>2, <2>3, <3>1 DEF Instance
    <3>3. Registered(k, id)
      BY <2>3 DEF SweptOut
    <3> QED BY <2>1, <3>2, <3>3 DEF Introduced, Discoverable
  <2>4. CASE ~ SweptOut(k, id)
    BY <2>1, <2>2, <2>4 DEF Introduced, Discoverable, Registered, Lapsed
  <2> QED BY <2>3, <2>4
<1> QED BY <1>1, <1>2

-----------------------------------------------------------------------------
\* A pass ends.

\* The keys under which something is registered.
Occupied == {k \in Key : \E id \in InstanceID : Registered(k, id)}

\* The registry holds finitely many services, so every list of them is finite.
FiniteInv ==
    /\ IsFiniteSet(Occupied)
    /\ \A c \in Caller : IsFiniteSet(pass[c].todo)

\* A step occupies at most one more key (Register).
LEMMA OccupiedGrows ==
    ASSUME TypeOK, [Next]_vars
    PROVE  \E k : Occupied' \subseteq Occupied \cup {k}
<1> USE DEF TypeOK, RegistryTypeOK
<1> DEFINE Goal == \E k : Occupied' \subseteq Occupied \cup {k}
<1>1. ASSUME svcs' = svcs PROVE Goal
  BY <1>1 DEF Occupied, Registered
<1>2. ASSUME NEW ns \in Namespace, NEW name \in Service, NEW id \in InstanceID, NEW new,
             svcs' = [svcs EXCEPT ![key(ns, name)][id] = new]
      PROVE  Goal
  <2>1. key(ns, name) \in Key
    BY KeyKnown
  <2>2. Occupied' \subseteq Occupied \cup {key(ns, name)}
    BY <1>2, <2>1 DEF Occupied, Registered
  <2> QED BY Zenon, <2>2
<1>3. CASE HandlerStep
  <2>1. ASSUME NEW ns \in Namespace, NEW name \in Service, NEW id \in InstanceID,
               \/ \E label \in Version, address \in Address :
                     handleRegisterService(ns, name, id, label, address)
               \/ handleDeregisterInstance(ns, name, id)
               \/ handleHeartbeat(ns, name, id)
        PROVE  Goal
    <3>1. \E new : svcs' = [svcs EXCEPT ![key(ns, name)][id] = new]
      BY Zenon, <2>1 DEF handleRegisterService, handleDeregisterInstance, handleHeartbeat,
             Register, Deregister, Heartbeat
    <3> QED BY Zenon, <1>2, <3>1
  <2>2. ASSUME NEW service \in RouteService,
               \/ \E spec \in SpecInput : handlePutRoute(service, spec)
               \/ handleDeleteRoute(service)
        PROVE  Goal
    BY Zenon, <1>1, <2>2 DEF handlePutRoute, handleDeleteRoute, registryVars
  <2> QED BY Zenon, <1>3, <2>1, <2>2 DEF HandlerStep
<1>4. CASE Time \/ UNCHANGED vars
  BY Zenon, <1>1, <1>4 DEF Time, Tick, vars
<1>5. ASSUME NEW c \in Caller, Sweep(c) PROVE Goal
  <2>1. \A k \in Key, id \in InstanceID : SweptOut(k, id) => Registered(k, id)
    BY DEF SweptOut
  <2>2. \A k \in Key, id \in InstanceID : svcs'[k][id] = svcs[k][id] \/ SweptOut(k, id)
    BY <1>5 DEF Sweep, SweepStale
  <2> QED BY Zenon, <2>1, <2>2 DEF Occupied, Registered
<1>6. ASSUME NEW c \in Caller, PassStep(c) PROVE Goal
  BY Zenon, <1>1, <1>6, PassFrame
<1> QED BY Zenon, <1>3, <1>4, <1>5, <1>6 DEF Next

\* So a list is finite (ListServices).
LEMMA ListIsFinite ==
    ASSUME IsFiniteSet(Occupied)
    PROVE  IsFiniteSet(ListServices(DefaultNamespace))
<1> DEFINE n == Len(DefaultNamespace)
           matching == {k \in Key : /\ Len(k) > n
                                    /\ SubSeq(k, 1, n) = DefaultNamespace
                                    /\ \E id \in InstanceID : Registered(k, id)}
           Name(k) == SubSeq(k, n + 1, Len(k))
           named == [k \in matching |-> Name(k)]
<1>1. matching \subseteq Occupied
  BY DEF Occupied
<1>2. IsFiniteSet(matching)
  BY Zenon, <1>1, FS_Subset
<1>3. ListServices(DefaultNamespace) = {Name(k) : k \in matching}
  BY Zenon DEF ListServices
<1> HIDE DEF matching
<1>4. named \in Surjection(matching, {Name(k) : k \in matching})
  <2> HIDE DEF Name
  <2> QED BY DEF Surjection
<1> QED BY Zenon, <1>2, <1>3, <1>4, FS_Surjection

\* A pass only lists, and then takes services off its list.
LEMMA PassKeepsFinite ==
    ASSUME TypeOK, FiniteInv, NEW c \in Caller, PassStep(c)
    PROVE  IsFiniteSet(pass'[c].todo)
<1> DEFINE todo == pass[c].todo
<1>1. IsFiniteSet(todo)
  BY DEF FiniteInv
<1> HIDE DEF todo
<1>2. CASE NextVersion(c)
  <2>1. pass'[c].todo = todo
    BY <1>2, PassFacts DEF NextVersion, Pass, todo
  <2> QED BY <1>1, <2>1
<1>3. CASE List(c)
  BY <1>3, ListStep, ListIsFinite DEF FiniteInv
<1>4. CASE GetRoute(c)
  <2>1. pass'[c].todo = todo \ {pass'[c].svc}
    BY <1>4, GetRouteStep DEF todo
  <2>2. \A svc : IsFiniteSet(todo \ {svc})
    BY Zenon, <1>1, FS_RemoveElement
  <2> QED BY Zenon, <2>1, <2>2
<1>5. CASE ReadSplit(c)
  BY ZenonT(30), <1>1, <1>5, ReadSplitStep DEF todo
<1>6. CASE AddListener(c)
  BY ZenonT(30), <1>1, <1>6, AddListenerStep DEF todo
<1>7. CASE BuildFails(c) \/ SetSnapshot(c) \/ SetSnapshotFails(c) \/ Record(c)
  <2>1. IdlePass.todo = {} /\ IsFiniteSet({})
    BY FS_EmptySet DEF IdlePass
  <2> QED BY Zenon, <1>1, <1>7, <2>1, FinalStep DEF todo
<1> QED BY <1>2, <1>3, <1>4, <1>5, <1>6, <1>7 DEF PassStep

\* Everything else leaves a pass alone, but for the sweep that begins it.
LEMMA OthersLeavePass ==
    ASSUME TypeOK, [Next]_vars, NEW c \in Caller, ~ PassStep(c)
    PROVE  \/ pass'[c] = pass[c]
           \/ pass[c].pc = "idle" /\ pass'[c].todo = pass[c].todo
<1>1. CASE HandlerStep \/ Time \/ UNCHANGED vars
  BY <1>1 DEF HandlerStep, Time, handleRegisterService, handleDeregisterInstance,
         handleHeartbeat, handlePutRoute, handleDeleteRoute, passVars, vars
<1>2. ASSUME NEW d \in Caller, Sweep(d)
      PROVE  \/ pass'[c] = pass[c]
             \/ pass[c].pc = "idle" /\ pass'[c].todo = pass[c].todo
  BY <1>2 DEF Sweep, TypeOK, Pass
<1>3. ASSUME NEW d \in Caller, PassStep(d) PROVE pass'[c] = pass[c]
  BY <1>3, PassFrame
<1> QED BY <1>1, <1>2, <1>3 DEF Next

\* Lists are finite throughout.
LEMMA FiniteAlways == Spec => []FiniteInv
<1>1. Init => FiniteInv
  <2> SUFFICES ASSUME Init PROVE FiniteInv
    OBVIOUS
  <2>1. Occupied = {}
    BY DEF Init, RegistryInit, Occupied, Registered
  <2>2. \A c \in Caller : pass[c].todo = {}
    BY DEF Init, IdlePass
  <2> QED BY <2>1, <2>2, FS_EmptySet DEF FiniteInv
<1>2. TypeOK /\ FiniteInv /\ [Next]_vars => FiniteInv'
  <2> SUFFICES ASSUME TypeOK, FiniteInv, [Next]_vars PROVE FiniteInv'
    OBVIOUS
  <2>1. IsFiniteSet(Occupied')
    <3>1. PICK k : Occupied' \subseteq Occupied \cup {k}
      BY OccupiedGrows
    <3>2. IsFiniteSet(Occupied \cup {k})
      BY Zenon, FS_AddElement DEF FiniteInv
    <3> QED BY Zenon, <3>1, <3>2, FS_Subset
  <2>2. \A c \in Caller : IsFiniteSet(pass'[c].todo)
    BY Zenon, PassKeepsFinite, OthersLeavePass DEF FiniteInv
  <2> QED BY <2>1, <2>2 DEF FiniteInv
<1> QED BY <1>1, <1>2, TypeCorrect, PTL DEF Spec

\* What a pass still has before it: the stages up to its return, the services
\* to take off its list, and the splits of the service in hand.
Stage == [idle |-> 0, record |-> 1, service |-> 2, split |-> 2, list |-> 3, swept |-> 4]

Remaining(p) ==
    <<Stage[p.pc],
      <<Cardinality(p.todo), IF p.pc = "split" THEN Len(p.splits) + 1 ELSE 0>>>>

\* The lexicographic order of what remains.
Smaller == OpToRel(<, Nat)
SmallerPair == LexPairOrdering(Smaller, Smaller, Nat, Nat)
Nearer == LexPairOrdering(Smaller, SmallerPair, Nat, Nat \X Nat)

\* The order has no infinite descent: a pass cannot come nearer to its end for
\* ever (the loops over services and splits in BuildSnapshot).
LEMMA NearerIsWellFounded == IsWellFoundedOn(Nearer, Nat \X (Nat \X Nat))
<1>1. IsWellFoundedOn(Smaller, Nat)
  BY Zenon, NatLessThanWellFounded DEF Smaller
<1>2. IsWellFoundedOn(SmallerPair, Nat \X Nat)
  BY <1>1, WFLexPairOrdering DEF SmallerPair
<1> QED BY <1>1, <1>2, WFLexPairOrdering DEF Nearer

\* When one triple is nearer than another.
LEMMA NearerTriple ==
    ASSUME NEW a \in Nat, NEW b \in Nat, NEW d \in Nat,
           NEW x \in Nat, NEW y \in Nat, NEW z \in Nat,
           a < x \/ (a = x /\ (b < y \/ (b = y /\ d < z)))
    PROVE  <<<<a, <<b, d>>>>, <<x, <<y, z>>>>>> \in Nearer
<1>1. \A m, n \in Nat : m < n => <<m, n>> \in Smaller
  BY DEF Smaller, OpToRel
<1>2. (b < y \/ (b = y /\ d < z)) => <<<<b, d>>, <<y, z>>>> \in SmallerPair
  BY <1>1 DEF SmallerPair, LexPairOrdering
<1> QED BY <1>1, <1>2 DEF Nearer, LexPairOrdering

Nears(p, q) == <<Remaining(q), Remaining(p)>> \in Nearer

\* Comparing two passes whose lists are finite.
LEMMA NearsIf ==
    ASSUME NEW p \in Pass, NEW q \in Pass, IsFiniteSet(p.todo), IsFiniteSet(q.todo),
           \/ Stage[q.pc] < Stage[p.pc]
           \/ /\ Stage[q.pc] = Stage[p.pc]
              /\ Cardinality(q.todo) < Cardinality(p.todo)
           \/ /\ Stage[q.pc] = Stage[p.pc] /\ q.todo = p.todo
              /\ p.pc = "split" /\ q.pc = "split" /\ Len(q.splits) < Len(p.splits)
           \/ /\ Stage[q.pc] = Stage[p.pc] /\ q.todo = p.todo
              /\ p.pc = "split" /\ q.pc # "split"
    PROVE  Nears(p, q)
<1> DEFINE Left(r) == IF r.pc = "split" THEN Len(r.splits) + 1 ELSE 0
<1>1. Stage[p.pc] \in Nat /\ Stage[q.pc] \in Nat
  BY DEF Pass, Stage
<1>2. Cardinality(p.todo) \in Nat /\ Cardinality(q.todo) \in Nat
  BY FS_CardinalityType
<1>3. Len(p.splits) \in Nat /\ Len(q.splits) \in Nat
  BY DEF Pass
<1>4. Left(p) \in Nat /\ Left(q) \in Nat
  BY <1>3
<1>5. \/ Stage[q.pc] < Stage[p.pc]
      \/ /\ Stage[q.pc] = Stage[p.pc]
         /\ \/ Cardinality(q.todo) < Cardinality(p.todo)
            \/ Cardinality(q.todo) = Cardinality(p.todo) /\ Left(q) < Left(p)
  BY <1>3
<1>6. Remaining(p) = <<Stage[p.pc], <<Cardinality(p.todo), Left(p)>>>>
  BY Zenon DEF Remaining
<1>7. Remaining(q) = <<Stage[q.pc], <<Cardinality(q.todo), Left(q)>>>>
  BY Zenon DEF Remaining
<1> HIDE DEF Left
<1>8. <<<<Stage[q.pc], <<Cardinality(q.todo), Left(q)>>>>,
        <<Stage[p.pc], <<Cardinality(p.todo), Left(p)>>>>>> \in Nearer
  BY Zenon, <1>1, <1>2, <1>4, <1>5, NearerTriple
<1> QED BY Zenon, <1>6, <1>7, <1>8 DEF Nears

\* Every step of a pass, successful or not, brings it nearer to its end
\* (Reconcile, BuildSnapshot and its loops over services and splits).
LEMMA StepNears ==
    ASSUME TypeOK, TypeOK', FiniteInv, NEW c \in Caller, PassStep(c)
    PROVE  Nears(pass[c], pass'[c])
<1> DEFINE p == pass[c]
           q == pass'[c]
<1>1. p \in Pass /\ q \in Pass
  BY DEF TypeOK
<1>2. IsFiniteSet(p.todo) /\ IsFiniteSet(q.todo)
  BY PassKeepsFinite DEF FiniteInv
<1>s. /\ Stage["idle"] = 0 /\ Stage["record"] = 1 /\ Stage["service"] = 2
      /\ Stage["split"] = 2 /\ Stage["list"] = 3 /\ Stage["swept"] = 4
  BY DEF Stage
<1>3. CASE NextVersion(c)
  <2>1. p.pc = "swept" /\ q.pc = "list"
    BY Zenon, <1>3, NextVersionStep DEF NextVersion
  <2> QED BY <1>1, <1>2, <1>s, <2>1, NearsIf
<1>4. CASE List(c)
  <2>1. p.pc = "list" /\ q.pc = "service"
    BY <1>4, ListStep
  <2> QED BY <1>1, <1>2, <1>s, <2>1, NearsIf
<1>5. CASE GetRoute(c)
  <2>1. p.pc = "service" /\ q.pc = "split" /\ q.svc \in p.todo /\ q.todo = p.todo \ {q.svc}
    BY <1>5, GetRouteStep
  <2>2. Cardinality(q.todo) = Cardinality(p.todo) - 1
    <3> DEFINE T == p.todo
               x == q.svc
    <3>1. x \in T /\ IsFiniteSet(T)
      BY <1>2, <2>1
    <3> HIDE DEF T, x
    <3>2. Cardinality(T \ {x}) = Cardinality(T) - 1
      BY <3>1, FS_RemoveElement
    <3> QED BY <2>1, <3>2 DEF T, x
  <2>3. Cardinality(p.todo) \in Nat
    BY <1>2, FS_CardinalityType
  <2>4. Cardinality(q.todo) < Cardinality(p.todo)
    BY <2>2, <2>3
  <2> QED BY Zenon, <1>1, <1>2, <1>s, <2>1, <2>4, NearsIf
<1>6. CASE ReadSplit(c)
  <2>1. /\ p.pc = "split" /\ q.pc = "split" /\ q.todo = p.todo
        /\ p.splits # <<>> /\ q.splits = Tail(p.splits)
    BY ZenonT(30), <1>6, ReadSplitStep
  <2>2. p.splits \in Seq(VersionWeight)
    BY <1>1 DEF Pass
  <2>3. Len(q.splits) < Len(p.splits)
    BY <2>1, <2>2
  <2> QED BY Zenon, <1>1, <1>2, <1>s, <2>1, <2>3, NearsIf
<1>7. CASE AddListener(c)
  <2>1. p.pc = "split" /\ q.pc = "service" /\ q.todo = p.todo
    BY ZenonT(30), <1>7, AddListenerStep
  <2> QED BY <1>1, <1>2, <1>s, <2>1, NearsIf
<1>8. CASE BuildFails(c) \/ SetSnapshot(c) \/ SetSnapshotFails(c) \/ Record(c)
  <2>1. p.pc \in {"service", "split", "record"}
    BY <1>8 DEF BuildFails, SetSnapshot, SetSnapshotFails, Record, Built
  <2>2. q.pc = "idle" \/ (p.pc = "service" /\ q.pc = "record")
    BY <1>8, FinalStep, IdlePassType
  <2>3. Stage[q.pc] < Stage[p.pc]
    BY <1>s, <2>1, <2>2
  <2> QED BY <1>1, <1>2, <2>3, NearsIf
<1> QED BY <1>3, <1>4, <1>5, <1>6, <1>7, <1>8 DEF PassStep

\* Every step of a pass brings it nearer to its return, and while it has not
\* returned nothing anybody else does, no registration, no deleted spec, no
\* other pass, sets it back (the service list and each spec are read once).
NothingSetsPassBack ==
    [][\A c \in Caller :
          /\ PassStep(c) => Nears(pass[c], pass'[c])
          /\ (pass[c].pc # "idle" /\ ~ PassStep(c)) => pass'[c] = pass[c]]_vars

\* So a pass takes only finitely many steps, for any number of services, splits
\* and callers, with NearerIsWellFounded (NothingSetsPassBack).
THEOREM PassNearsItsEnd == Spec => NothingSetsPassBack
<1> DEFINE A == \A c \in Caller :
                  /\ PassStep(c) => Nears(pass[c], pass'[c])
                  /\ (pass[c].pc # "idle" /\ ~ PassStep(c)) => pass'[c] = pass[c]
<1>1. ASSUME TypeOK, TypeOK', FiniteInv, [Next]_vars PROVE A
  BY Zenon, <1>1, StepNears, OthersLeavePass
<1> QED BY <1>1, TypeCorrect, FiniteAlways, PTL DEF Spec, NothingSetsPassBack

=============================================================================
