----------------------------- MODULE StateProofs ----------------------------
(***************************************************************************)
(* Proofs about Registry alone, for every choice of names, thresholds and  *)
(* clock, and type correctness of Reconciler, for any number of services,  *)
(* instances, specs and concurrent callers of Reconcile.                   *)
(***************************************************************************)
EXTENDS Reconciler, SequenceTheorems, WellFoundedInduction, TLAPS

\* A key built from a known namespace and a known name is a known key (key).
LEMMA KeyKnown ==
    ASSUME NEW ns \in Namespace, NEW name \in Service
    PROVE  key(ns, name) \in Key
BY DEF Key

\* Each operation keeps the map well formed (Register, Deregister, Heartbeat,
\* SweepStale).
LEMMA RegistryTypeStep ==
    RegistryTypeOK /\ RegistryNext => RegistryTypeOK'
<1> SUFFICES ASSUME RegistryTypeOK, RegistryNext PROVE RegistryTypeOK'
  OBVIOUS
<1> USE RegistryAssumption DEF RegistryTypeOK, Instance
<1>1. ASSUME NEW ns \in Namespace, RegisterAny(ns) PROVE RegistryTypeOK'
  <2>1. PICK name \in Service, id \in InstanceID, label \in Version, address \in Address :
            Register(ns, name, id, label, address)
    BY <1>1 DEF RegisterAny
  <2> QED BY <2>1, KeyKnown DEF Register
<1>2. ASSUME NEW ns \in Namespace, DeregisterAny(ns) PROVE RegistryTypeOK'
  BY <1>2, KeyKnown DEF DeregisterAny, Deregister
<1>3. ASSUME NEW ns \in Namespace, HeartbeatAny(ns) PROVE RegistryTypeOK'
  <2>1. PICK name \in Service, id \in InstanceID : Heartbeat(ns, name, id)
    BY <1>3 DEF HeartbeatAny
  <2> DEFINE k == key(ns, name)
             beat == [svcs[k][id] EXCEPT !.lastHeartbeat = now, !.healthy = TRUE]
  <2>2. k \in Key
    BY KeyKnown
  <2>3. svcs[k][id] \in Instance
    BY <2>1, <2>2 DEF Heartbeat, Registered
  <2>4. beat \in Instance
    BY Zenon, <2>3
  <2>5. svcs' = [svcs EXCEPT ![k][id] = beat] /\ now' = now
    BY <2>1 DEF Heartbeat
  <2> HIDE DEF k, beat, Instance
  <2> QED BY <2>2, <2>4, <2>5
<1>4. CASE SweepStale
  <2> SUFFICES ASSUME NEW k \in Key, NEW id \in InstanceID
               PROVE  (IF SweptOut(k, id)
                       THEN [svcs[k][id] EXCEPT !.healthy = FALSE]
                       ELSE svcs[k][id]) \in Instance \cup {NoInstance}
    BY <1>4 DEF SweepStale
  <2>1. SweptOut(k, id) => svcs[k][id] \in Instance
    BY DEF SweptOut, Registered
  <2> QED BY Zenon, <2>1
<1>5. CASE Tick
  BY <1>5 DEF Tick
<1> QED BY <1>1, <1>2, <1>3, <1>4, <1>5 DEF RegistryNext

\* The map stays well formed (all operations of InMemory).
THEOREM RegistryTypeCorrect == RegistrySpec => []RegistryTypeOK
<1>1. RegistryInit => RegistryTypeOK
  BY RegistryAssumption DEF RegistryInit, RegistryTypeOK
<1>2. RegistryTypeOK /\ [RegistryNext]_registryVars => RegistryTypeOK'
  BY RegistryTypeStep DEF RegistryTypeOK, registryVars
<1> QED BY <1>1, <1>2, PTL DEF RegistrySpec

\* No operation, and no passing of time, leaves an unhealthy mark on an
\* instance whose heartbeat is recent (Register, Heartbeat, SweepStale).
LEMMA UnhealthyIsStaleStep ==
    RegistryTypeOK /\ UnhealthyIsStale /\ RegistryNext => UnhealthyIsStale'
<1> SUFFICES ASSUME RegistryTypeOK, UnhealthyIsStale, RegistryNext,
                    NEW k \in Key, NEW id \in InstanceID,
                    Registered(k, id)', ~ svcs'[k][id].healthy
             PROVE  Lapsed(svcs[k][id], StaleAfter)'
  BY DEF UnhealthyIsStale
<1> USE RegistryAssumption
<1> DEFINE Unchanged == svcs'[k][id] = svcs[k][id] /\ now' = now
<1>1. ASSUME Unchanged PROVE Lapsed(svcs[k][id], StaleAfter)'
  BY <1>1 DEF UnhealthyIsStale, Registered, Lapsed
<1>2. ASSUME NEW ns \in Namespace, RegisterAny(ns) PROVE Unchanged
  <2>1. PICK n \in Service, i \in InstanceID, label \in Version, address \in Address :
            Register(ns, n, i, label, address)
    BY <1>2 DEF RegisterAny
  <2>2. key(ns, n) \in Key
    BY KeyKnown
  <2>3. ~ (k = key(ns, n) /\ id = i)
    BY <2>1, <2>2 DEF Register, RegistryTypeOK
  <2> QED BY <2>1, <2>2, <2>3 DEF Register, RegistryTypeOK
<1>3. ASSUME NEW ns \in Namespace, DeregisterAny(ns) PROVE Unchanged
  <2>1. PICK n \in Service, i \in InstanceID : Deregister(ns, n, i)
    BY <1>3 DEF DeregisterAny
  <2>2. key(ns, n) \in Key
    BY KeyKnown
  <2>3. ~ (k = key(ns, n) /\ id = i)
    BY <2>1, <2>2 DEF Deregister, RegistryTypeOK, Registered
  <2> QED BY <2>1, <2>2, <2>3 DEF Deregister, RegistryTypeOK
<1>4. ASSUME NEW ns \in Namespace, HeartbeatAny(ns) PROVE Unchanged
  <2>1. PICK n \in Service, i \in InstanceID : Heartbeat(ns, n, i)
    BY <1>4 DEF HeartbeatAny
  <2>2. key(ns, n) \in Key
    BY KeyKnown
  <2>3. svcs[key(ns, n)][i] \in Instance
    BY <2>1, <2>2 DEF Heartbeat, Registered, RegistryTypeOK
  <2>4. ~ (k = key(ns, n) /\ id = i)
    BY <2>1, <2>2, <2>3 DEF Heartbeat, RegistryTypeOK, Instance
  <2> QED BY <2>1, <2>2, <2>4 DEF Heartbeat, RegistryTypeOK
<1>5. ASSUME SweepStale PROVE Lapsed(svcs[k][id], StaleAfter)'
  <2>1. CASE SweptOut(k, id)
    <3>1. svcs[k][id] \in Instance
      BY <2>1 DEF SweptOut, Registered, RegistryTypeOK
    <3>2. svcs'[k][id].lastHeartbeat = svcs[k][id].lastHeartbeat /\ now' = now
      BY <1>5, <2>1, <3>1 DEF SweepStale, Instance
    <3> QED BY <2>1, <3>2 DEF SweptOut, Lapsed
  <2>2. CASE ~ SweptOut(k, id)
    BY <1>5, <2>2, <1>1 DEF SweepStale
  <2> QED BY <2>1, <2>2
<1>6. ASSUME Tick PROVE Lapsed(svcs[k][id], StaleAfter)'
  <2>1. svcs[k][id] \in Instance /\ Lapsed(svcs[k][id], StaleAfter)
    BY <1>6 DEF Tick, UnhealthyIsStale, Registered, RegistryTypeOK
  <2> QED BY <1>6, <2>1 DEF Tick, Lapsed, Instance, RegistryTypeOK
<1> HIDE DEF Unchanged
<1> QED BY <1>1, <1>2, <1>3, <1>4, <1>5, <1>6 DEF RegistryNext

\* An instance is marked unhealthy only while it really is stale
\* (UnhealthyIsStale), for any threshold, names and order of calls.
THEOREM UnhealthyIsStaleAlways == RegistrySpec => []UnhealthyIsStale
<1>1. RegistryInit => UnhealthyIsStale
  BY DEF RegistryInit, UnhealthyIsStale, Registered
<1>2. RegistryTypeOK /\ UnhealthyIsStale /\ [RegistryNext]_registryVars => UnhealthyIsStale'
  <2>1. CASE UNCHANGED registryVars
    BY <2>1 DEF registryVars, UnhealthyIsStale, Registered, Lapsed
  <2> QED BY <2>1, UnhealthyIsStaleStep
<1> QED BY <1>1, <1>2, RegistryTypeCorrect, PTL DEF RegistrySpec

\* When a reader uses the sweep's own threshold, what HealthyInstances returns
\* does not depend on when, or whether, the sweep last ran: it is exactly the
\* registered instances with a recent heartbeat (HealthyInstances, SweepStale).
THEOREM DiscoveryIgnoresSweep ==
    ASSUME UnhealthyIsStale, NEW ns \in Namespace, NEW name \in Service
    PROVE  HealthyInstances(ns, name, StaleAfter)
             = {id \in InstanceID : /\ Registered(key(ns, name), id)
                                    /\ ~ Lapsed(svcs[key(ns, name)][id], StaleAfter)}
BY KeyKnown DEF UnhealthyIsStale, HealthyInstances

\* A request in one namespace touches the instances of one key of it (Register,
\* Deregister, Heartbeat).
LEMMA OneKeyTouched ==
    ASSUME RegistryTypeOK, NEW ns \in Namespace,
           RegisterAny(ns) \/ DeregisterAny(ns) \/ HeartbeatAny(ns)
    PROVE  \E name \in Service : \A k \in Key \ {key(ns, name)} : svcs'[k] = svcs[k]
<1>1. PICK name \in Service, id \in InstanceID :
           \E inst : svcs' = [svcs EXCEPT ![key(ns, name)][id] = inst]
  BY ZenonT(30) DEF RegisterAny, DeregisterAny, HeartbeatAny, Register, Deregister, Heartbeat
<1> QED BY <1>1 DEF RegistryTypeOK

\* A key begins with the namespace it was made from (key).
LEMMA KeyBegins ==
    ASSUME NEW ns \in Namespace, NEW name \in Service
    PROVE  /\ ns \in Seq(STRING) /\ key(ns, name) \in Seq(STRING)
           /\ \A i \in 1 .. Len(ns) : key(ns, name)[i] = ns[i]
<1>1. ns \in Seq(STRING) /\ name \in Seq(STRING)
  BY RegistryAssumption
<1>2. /\ ns \o name \in Seq(STRING)
      /\ \A i \in 1 .. Len(ns) + Len(name) :
             (ns \o name)[i] = IF i <= Len(ns) THEN ns[i] ELSE name[i - Len(ns)]
  BY ZenonT(30), <1>1, ConcatProperties
<1>3. Len(ns) \in Nat /\ Len(name) \in Nat
  BY <1>1
<1> QED BY <1>1, <1>2, <1>3 DEF key

\* A request in one namespace changes nothing that another can list or get,
\* unless one is nested in the other, for any namespaces and service names,
\* slashes included (NamespaceIsolation): two such namespaces differ in a part
\* that both have, and so does every key the one writes from every key the
\* other sees.
THEOREM NamespacesAreIsolated == RegistrySpec => NamespaceIsolation
<1>1. ASSUME RegistryTypeOK, NEW ns \in Namespace,
             RegisterAny(ns) \/ DeregisterAny(ns) \/ HeartbeatAny(ns),
             NEW other \in Namespace, ~ Nested(ns, other)
      PROVE  NamespaceView(other)' = NamespaceView(other)
  <2>1. PICK name \in Service : \A k \in Key \ {key(ns, name)} : svcs'[k] = svcs[k]
    BY <1>1, OneKeyTouched
  <2>2. ns \in Seq(STRING) /\ other \in Seq(STRING)
    BY <2>1, KeyBegins
  <2>3. PICK i \in Nat : /\ i \in 1 .. Len(ns) /\ i \in 1 .. Len(other)
                         /\ ns[i] # other[i]
    BY <1>1, <2>2 DEF Nested
  <2>4. key(ns, name)[i] = ns[i]
    BY <2>1, <2>3, KeyBegins
  <2>5. \A svc \in Service : svcs'[key(other, svc)] = svcs[key(other, svc)]
    <3> SUFFICES ASSUME NEW svc \in Service
                 PROVE  svcs'[key(other, svc)] = svcs[key(other, svc)]
      OBVIOUS
    <3>1. key(other, svc)[i] = other[i] /\ key(other, svc) \in Key
      BY <2>3, KeyBegins, KeyKnown
    <3> QED BY <2>1, <2>3, <2>4, <3>1
  <2>6. ListServices(other)' = ListServices(other)
    <3>1. ASSUME NEW k \in Key, Len(k) > Len(other), SubSeq(k, 1, Len(other)) = other
          PROVE  svcs'[k] = svcs[k]
      <4>1. k \in Seq(STRING)
        <5>1. PICK n \in Namespace, m \in Service : k = key(n, m)
          BY DEF Key
        <5> QED BY <5>1, KeyBegins
      <4>2. k[i] = other[i]
        BY <2>2, <2>3, <3>1, <4>1
      <4> QED BY <2>1, <2>3, <2>4, <4>2
    <3>2. \A k \in Key : (Len(k) > Len(other) /\ SubSeq(k, 1, Len(other)) = other)
             => ((\E id \in InstanceID : Registered(k, id))'
                    <=> (\E id \in InstanceID : Registered(k, id)))
      BY <3>1 DEF Registered
    <3> QED BY <3>2 DEF ListServices
  <2>7. \A svc \in Service, id \in InstanceID :
           svcs'[key(other, svc)][id] = svcs[key(other, svc)][id]
    BY <2>5
  <2> QED BY Zenon, <2>6, <2>7 DEF NamespaceView
<1>2. RegistryTypeOK /\ [RegistryNext]_registryVars =>
        [\A ns \in Namespace :
            (RegisterAny(ns) \/ DeregisterAny(ns) \/ HeartbeatAny(ns))
                => \A other \in Namespace :
                      ~ Nested(ns, other)
                          => NamespaceView(other)' = NamespaceView(other)]_registryVars
  BY Zenon, <1>1
<1> QED BY <1>2, RegistryTypeCorrect, PTL DEF RegistrySpec, NamespaceIsolation

-----------------------------------------------------------------------------
\* Types of the composed system.

\* A listed name, joined with the default namespace again, is the key it was
\* cut from (key, ListServices).
LEMMA KeyOfListed ==
    ASSUME NEW s \in ServiceName
    PROVE  key(DefaultNamespace, s) \in Key
<1> DEFINE n == Len(DefaultNamespace)
<1>1. PICK k \in Key : /\ Len(k) > n
                       /\ SubSeq(k, 1, n) = DefaultNamespace
                       /\ s = SubSeq(k, n + 1, Len(k))
  BY DEF ServiceName
<1>2. k \in Seq(STRING)
  <2>1. PICK ns \in Namespace, name \in Service : k = ns \o name
    BY DEF Key, key
  <2>2. ns \in Seq(STRING) /\ name \in Seq(STRING)
    BY RegistryAssumption
  <2> QED BY ZenonT(30), <2>1, <2>2, ConcatProperties
<1>3. n \in Nat /\ Len(k) \in Nat
  <2>1. DefaultNamespace \in Seq(STRING)
    BY RegistryAssumption, ReconcilerAssumption
  <2> QED BY <1>2, <2>1, LenProperties
<1>4. SubSeq(k, 1, n) \o SubSeq(k, n + 1, Len(k)) = SubSeq(k, 1, Len(k))
  <2>1. 1 \in 1 .. Len(k) + 1 /\ n \in 1 - 1 .. Len(k) /\ Len(k) \in n .. Len(k)
    BY <1>1, <1>3
  <2> HIDE DEF n
  <2> QED BY ZenonT(30), <1>2, <2>1, ConcatAdjacentSubSeq
<1>5. SubSeq(k, 1, Len(k)) = k
  BY <1>2, SubSeqFull
<1> QED BY Zenon, <1>1, <1>4, <1>5 DEF key

\* What the listing returns is a known name (ListServices).
LEMMA ListedAreNames == ListServices(DefaultNamespace) \subseteq ServiceName
BY DEF ListServices, ServiceName

\* A set of numbers that is not empty has a least one.
LEMMA LeastNumber ==
    ASSUME NEW M \in SUBSET Nat, M # {}
    PROVE  \E n \in M : \A m \in M : n <= m
<1>1. PICK n \in M : \A m \in M : <<m, n>> \notin OpToRel(<, Nat)
  BY ZenonT(30), WFMin, NatLessThanWellFounded
<1>2. \A m \in M : ~ (m < n)
  BY ZenonT(30), <1>1 DEF OpToRel
<1> QED BY <1>2

\* The next service of a non-empty list is one of the list (BuildSnapshot).
LEMMA FirstIsListed ==
    ASSUME NEW todo \in SUBSET ServiceName, todo # {}
    PROVE  First(todo) \in todo
<1> DEFINE ranks == {Rank[s] : s \in todo}
<1>1. ranks \in SUBSET Nat /\ ranks # {}
  BY ReconcilerAssumption
<1>2. PICK r \in ranks : \A q \in ranks : r <= q
  <2> HIDE DEF ranks
  <2> QED BY Zenon, <1>1, LeastNumber
<1>3. \E s \in todo : \A t \in todo : Rank[s] <= Rank[t]
  BY <1>2
<1> QED BY <1>3 DEF First

\* A handler that changes the registry takes a registry step (api handlers).
LEMMA HandlersStepRegistry ==
    ASSUME NEW ns \in Namespace, NEW name \in Service, NEW id \in InstanceID
    PROVE  /\ \A label \in Version, address \in Address :
                 handleRegisterService(ns, name, id, label, address) => RegistryNext
           /\ handleDeregisterInstance(ns, name, id) => RegistryNext
           /\ handleHeartbeat(ns, name, id) => RegistryNext
BY DEF handleRegisterService, handleDeregisterInstance, handleHeartbeat,
       RegistryNext, RegisterAny, DeregisterAny, HeartbeatAny

\* A snapshot that holds nothing yet is well formed (BuildSnapshot).
LEMMA EmptySnapshotType ==
    ASSUME NEW v \in Nat
    PROVE  EmptySnapshot(v) \in Snapshot
BY DEF EmptySnapshot, Snapshot

\* Where a pass begins and ends (Reconcile).
LEMMA IdlePassType ==
    /\ IdlePass \in Pass
    /\ IdlePass.pc = "idle"
    /\ IdlePass.snap.version = 0
    /\ IdlePass.snap.endpoints = {}
<1>1. EmptySnapshot(0) \in Snapshot
  BY EmptySnapshotType
<1>2. <<>> \in Seq(VersionWeight) /\ <<>> \in Seq(WeightedCluster)
  OBVIOUS
<1> QED BY <1>1, <1>2 DEF IdlePass, Pass, EmptySnapshot

\* The handlers and the clock leave the passes alone.
LEMMA HandlerTypeStep ==
    TypeOK /\ (HandlerStep \/ Time) => TypeOK'
<1> SUFFICES ASSUME TypeOK, HandlerStep \/ Time PROVE TypeOK'
  OBVIOUS
<1> USE DEF TypeOK
<1>1. ASSUME NEW ns \in Namespace, NEW name \in Service, NEW id \in InstanceID,
             NEW label \in Version, NEW address \in Address,
             handleRegisterService(ns, name, id, label, address)
      PROVE  TypeOK'
  <2>1. RegistryTypeOK'
    BY <1>1, HandlersStepRegistry, RegistryTypeStep
  <2>2. key(ns, name) \in Key
    BY KeyKnown
  <2>3. inSince' \in [Key -> [InstanceID -> Nat]]
    BY <1>1, <2>2 DEF handleRegisterService
  <2> QED BY <1>1, <2>1, <2>3 DEF handleRegisterService, passVars
<1>2. ASSUME NEW ns \in Namespace, NEW name \in Service, NEW id \in InstanceID,
             handleDeregisterInstance(ns, name, id)
      PROVE  TypeOK'
  <2>1. RegistryTypeOK'
    BY <1>2, HandlersStepRegistry, RegistryTypeStep
  <2>2. key(ns, name) \in Key
    BY KeyKnown
  <2>3. outSince' \in [Key -> [InstanceID -> Nat]]
    BY <1>2, <2>2 DEF handleDeregisterInstance
  <2> QED BY <1>2, <2>1, <2>3 DEF handleDeregisterInstance, passVars
<1>3. ASSUME NEW ns \in Namespace, NEW name \in Service, NEW id \in InstanceID,
             handleHeartbeat(ns, name, id)
      PROVE  TypeOK'
  <2>1. RegistryTypeOK'
    BY <1>3, HandlersStepRegistry, RegistryTypeStep
  <2>2. key(ns, name) \in Key
    BY KeyKnown
  <2>3. inSince' \in [Key -> [InstanceID -> Nat]]
    BY <1>3, <2>2 DEF handleHeartbeat
  <2> QED BY <1>3, <2>1, <2>3 DEF handleHeartbeat, passVars
<1>4. ASSUME NEW service \in RouteService, NEW spec \in SpecInput,
             handlePutRoute(service, spec)
      PROVE  TypeOK'
  BY <1>4 DEF handlePutRoute, PutRoute, SpecMarked, registryVars, passVars, RegistryTypeOK
<1>5. ASSUME NEW service \in RouteService, handleDeleteRoute(service) PROVE TypeOK'
  BY <1>5 DEF handleDeleteRoute, DeleteRoute, SpecMarked, registryVars, passVars, RegistryTypeOK
<1>6. CASE Time
  <2>1. RegistryTypeOK'
    BY <1>6, RegistryTypeStep DEF Time, RegistryNext
  <2> QED BY <1>6, <2>1 DEF Time, passVars, historyVars
<1> QED BY <1>1, <1>2, <1>3, <1>4, <1>5, <1>6 DEF HandlerStep

\* The splits a pass works through are those of a stored spec or the single
\* unversioned one (routes.Get in BuildSnapshot).
LEMMA SplitsType ==
    ASSUME TypeOK, NEW svc
    PROVE  SplitsOf(Get(svc)) \in Seq(VersionWeight)
<1>1. Get(svc) # NoSpec => Get(svc) \in TrafficSpec
  BY RoutingAssumption DEF TypeOK, Get
<1>2. noVersionSplit \in Seq(VersionWeight)
  BY ReconcilerAssumption DEF noVersionSplit, VersionWeight
<1> QED BY <1>1, <1>2 DEF TrafficSpec, SplitsOf

\* The instances read for a split are known ones (HealthyInstances,
\* filterByVersion).
LEMMA ReadType ==
    ASSUME NEW svc, NEW label
    PROVE  FilterByVersion(svc,
               HealthyInstances(DefaultNamespace, svc, DiscoveryStaleAfter), label)
             \subseteq InstanceID
BY SMTT(30) DEF FilterByVersion, HealthyInstances

\* Adding a split's resources keeps a snapshot well formed (BuildSnapshot).
LEMMA AddSplitType ==
    ASSUME NEW snap \in Snapshot, NEW cluster \in Cluster, NEW ids \in SUBSET InstanceID
    PROVE  /\ AddSplit(snap, cluster, ids) \in Snapshot
           /\ AddSplit(snap, cluster, ids).version = snap.version
           /\ AddSplit(snap, cluster, ids).endpoints
                = snap.endpoints \cup {[cluster |-> cluster, id |-> id] : id \in ids}
<1> DEFINE new == {[cluster |-> cluster, id |-> id] : id \in ids}
<1>1. new \subseteq [cluster : Cluster, id : InstanceID]
  OBVIOUS
<1> HIDE DEF new
<1>2. snap.endpoints \cup new \subseteq [cluster : Cluster, id : InstanceID]
  BY <1>1 DEF Snapshot
<1>3. AddSplit(snap, cluster, ids)
        = [snap EXCEPT !.clusters = @ \cup {cluster},
                       !.assignments = @ \cup {cluster},
                       !.endpoints = @ \cup new]
  BY DEF AddSplit, new
<1> QED BY ZenonT(30), <1>2, <1>3 DEF Snapshot, new

\* Adding a service's route and listener does too (BuildSnapshot).
LEMMA AddServiceType ==
    ASSUME NEW snap \in Snapshot, NEW svc \in ServiceName,
           NEW weighted \in Seq(WeightedCluster), NEW port \in Nat
    PROVE  /\ AddService(snap, svc, weighted, port) \in Snapshot
           /\ AddService(snap, svc, weighted, port).version = snap.version
           /\ AddService(snap, svc, weighted, port).endpoints = snap.endpoints
<1>1. [svc |-> svc, weighted |-> weighted]
        \in [svc : ServiceName, weighted : Seq(WeightedCluster)]
  OBVIOUS
<1>2. [svc |-> svc, port |-> port] \in [svc : ServiceName, port : Nat]
  OBVIOUS
<1> QED BY ZenonT(30), <1>1, <1>2 DEF AddService, Snapshot

\* Every step of a pass keeps the state well formed (Reconcile, BuildSnapshot).
LEMMA PassTypeStep ==
    ASSUME TypeOK, NEW c \in Caller, PassStep(c)
    PROVE  TypeOK'
<1> DEFINE p == pass[c]
<1> USE DEF TypeOK
<1>p. p \in Pass
  OBVIOUS
<1>r. registryVars' = registryVars => RegistryTypeOK'
  BY DEF registryVars, RegistryTypeOK
<1>1. CASE NextVersion(c)
  <2>1. EmptySnapshot(version + 1) \in Snapshot
    BY EmptySnapshotType
  <2> DEFINE q == [p EXCEPT !.pc = "list", !.snap = EmptySnapshot(version + 1)]
  <2>7. pass' = [pass EXCEPT ![c] = q]
    BY Zenon, <1>1 DEF NextVersion
  <2>8. q \in Pass /\ q.pc = "list" /\ q.snap = EmptySnapshot(version + 1)
    BY ZenonT(30), <1>p, <2>1 DEF Pass
  <2> HIDE DEF q
  <2>2. pass' \in [Caller -> Pass]
    BY <2>7, <2>8
  <2>3. /\ pass'[c].pc = "list" /\ pass'[c].snap.version = version + 1
        /\ \A d \in Caller \ {c} : pass'[d] = pass[d]
    BY <2>7, <2>8 DEF EmptySnapshot
  <2>4. pass'[c].snap.version <= version' /\ version' \in Nat
    BY <1>1, <2>3 DEF NextVersion
  <2>5. \A d \in Caller : /\ pass'[d].pc = "split" => pass'[d].svc \in ServiceName
                          /\ pass'[d].snap.version <= version'
    <3> SUFFICES ASSUME NEW d \in Caller, d # c
                 PROVE  pass[d].snap.version <= version'
      BY <2>3, <2>4
    <3> QED BY <1>1 DEF NextVersion, Pass, Snapshot
  <2>6. cache # NoSnapshot => cache.version <= version'
    BY <1>1 DEF NextVersion, Snapshot
  <2> QED BY SMTT(30), <1>1, <1>r, <2>2, <2>4, <2>5, <2>6 DEF NextVersion, historyVars
<1>2. CASE List(c)
  <2> DEFINE q == [p EXCEPT !.pc = "service", !.todo = ListServices(DefaultNamespace)]
  <2>3. pass' = [pass EXCEPT ![c] = q]
    BY Zenon, <1>2 DEF List
  <2>4. q \in Pass /\ q.pc = "service" /\ q.snap = p.snap
    BY ZenonT(30), <1>p, ListedAreNames DEF Pass
  <2> HIDE DEF q
  <2>1. pass' \in [Caller -> Pass]
    BY <2>3, <2>4
  <2>2. \A d \in Caller : /\ pass'[d].pc = "split" => pass'[d].svc \in ServiceName
                          /\ pass'[d].snap.version <= version
    BY <2>3, <2>4
  <2> QED BY <1>2, <1>r, <2>1, <2>2 DEF List, historyVars
<1>3. CASE GetRoute(c)
  <2> DEFINE svc == First(p.todo)
             splits == SplitsOf(Get(svc))
             q == [p EXCEPT !.pc = "split", !.todo = p.todo \ {svc}, !.svc = svc,
                            !.splits = splits, !.weighted = <<>>]
  <2>1. svc \in ServiceName
    BY Zenon, <1>3, <1>p, FirstIsListed DEF GetRoute, Pass
  <2>2. splits \in Seq(VersionWeight)
    BY SplitsType
  <2>3. pass' = [pass EXCEPT ![c] = q]
    BY Zenon, <1>3 DEF GetRoute
  <2>4. <<>> \in Seq(WeightedCluster)
    OBVIOUS
  <2> HIDE DEF svc, splits
  <2>5. q \in Pass /\ q.svc = svc /\ q.snap = p.snap
    BY Zenon, <1>p, <2>1, <2>2, <2>4 DEF Pass
  <2> HIDE DEF q
  <2>6. pass' \in [Caller -> Pass]
    BY <2>3, <2>5
  <2>7. \A d \in Caller : /\ pass'[d].pc = "split" => pass'[d].svc \in ServiceName
                          /\ pass'[d].snap.version <= version
    BY SMTT(30), <2>1, <2>3, <2>5
  <2>8. UNCHANGED <<registryVars, specs, version, cache, lastSnapshot, historyVars>>
    BY Zenon, <1>3 DEF GetRoute
  <2> QED BY <1>r, <2>6, <2>7, <2>8 DEF historyVars
<1>4. CASE ReadSplit(c)
  <2> DEFINE split == Head(p.splits)
             cluster == clusterName(p.svc, split.version)
             ids == FilterByVersion(p.svc,
                        HealthyInstances(DefaultNamespace, p.svc, DiscoveryStaleAfter),
                        split.version)
             t == AddSplit(p.snap, cluster, ids)
             w == Append(p.weighted, [cluster |-> cluster, weight |-> split.weight])
             q == [p EXCEPT !.splits = Tail(p.splits), !.weighted = w, !.snap = t]
  <2>1. p.splits \in Seq(VersionWeight) /\ p.splits # <<>>
    BY <1>4, <1>p DEF ReadSplit, Pass
  <2>2. split \in VersionWeight /\ Tail(p.splits) \in Seq(VersionWeight)
    BY <2>1
  <2>3. cluster \in Cluster
    BY <1>4, <2>2 DEF ReadSplit, clusterName, Cluster, VersionWeight
  <2>4. ids \subseteq InstanceID
    BY ReadType
  <2>5. pass' = [pass EXCEPT ![c] = q]
    BY ZenonT(30), <1>4 DEF ReadSplit
  <2>6. [cluster |-> cluster, weight |-> split.weight] \in WeightedCluster
    BY <2>2, <2>3 DEF WeightedCluster, VersionWeight
  <2>7. w \in Seq(WeightedCluster)
    BY <1>p, <2>6 DEF Pass
  <2> HIDE DEF split, cluster, ids, w
  <2>8. t \in Snapshot /\ t.version = p.snap.version
    BY SMTT(30), <1>p, <2>3, <2>4, AddSplitType DEF Pass
  <2> HIDE DEF t
  <2>9. q \in Pass /\ q.svc = p.svc /\ q.pc = p.pc /\ q.snap = t
    BY ZenonT(30), <1>p, <2>2, <2>7, <2>8 DEF Pass
  <2> HIDE DEF q
  <2>10. pass' \in [Caller -> Pass]
    BY <2>5, <2>9
  <2>11. \A d \in Caller : /\ pass'[d].pc = "split" => pass'[d].svc \in ServiceName
                           /\ pass'[d].snap.version <= version
    BY <2>5, <2>8, <2>9
  <2> QED BY ZenonT(30), <1>4, <1>r, <2>10, <2>11 DEF ReadSplit, historyVars
<1>5. CASE AddListener(c)
  <2> DEFINE t == AddService(p.snap, p.svc, p.weighted, basePort + p.index)
             q == [p EXCEPT !.pc = "service", !.index = p.index + 1, !.snap = t]
  <2>1. pass' = [pass EXCEPT ![c] = q]
    BY ZenonT(30), <1>5 DEF AddListener
  <2>2. p.svc \in ServiceName /\ p.index \in Nat
    BY <1>5, <1>p DEF AddListener, Pass
  <2>3. basePort + p.index \in Nat /\ p.index + 1 \in Nat
    BY <2>2 DEF basePort
  <2>4. p.snap \in Snapshot /\ p.weighted \in Seq(WeightedCluster)
    BY <1>p DEF Pass
  <2>5. t \in Snapshot /\ t.version = p.snap.version
    BY SMTT(30), <2>2, <2>3, <2>4, AddServiceType
  <2> HIDE DEF t
  <2>6. q \in Pass /\ q.pc = "service" /\ q.snap = t
    BY ZenonT(30), <1>p, <2>3, <2>5 DEF Pass
  <2> HIDE DEF q
  <2>7. pass' \in [Caller -> Pass]
    BY <2>1, <2>6
  <2>8. \A d \in Caller : /\ pass'[d].pc = "split" => pass'[d].svc \in ServiceName
                          /\ pass'[d].snap.version <= version
    BY <2>1, <2>5, <2>6
  <2> QED BY SMTT(30), <1>5, <1>r, <2>7, <2>8 DEF AddListener, historyVars
<1>6. CASE BuildFails(c)
  BY <1>6, <1>r, IdlePassType DEF BuildFails, historyVars
<1>7. CASE SetSnapshot(c)
  BY ZenonT(30), <1>7, <1>r, <1>p DEF SetSnapshot, historyVars, Pass, Built
<1>8. CASE SetSnapshotFails(c)
  BY <1>8, <1>r, <1>p, IdlePassType DEF SetSnapshotFails, historyVars, Pass
<1>9. CASE Record(c)
  BY SMTT(30), <1>9, <1>r, <1>p, IdlePassType DEF Record, historyVars, Pass
<1> QED BY ZenonT(30), <1>1, <1>2, <1>3, <1>4, <1>5, <1>6, <1>7, <1>8, <1>9 DEF PassStep

\* The sweep that opens a pass does too (SweepStale in Reconcile).
LEMMA SweepTypeStep ==
    ASSUME TypeOK, NEW c \in Caller, Sweep(c)
    PROVE  TypeOK'
<1>1. RegistryTypeOK'
  BY RegistryTypeStep DEF TypeOK, Sweep, RegistryNext
<1>2. outSince' \in [Key -> [InstanceID -> Nat]]
  BY DEF TypeOK, Sweep
<1>3. pass' \in [Caller -> Pass]
  <2> DEFINE q == [pass[c] EXCEPT !.pc = "swept"]
  <2>1. pass' = [pass EXCEPT ![c] = q] /\ pass \in [Caller -> Pass]
    BY DEF TypeOK, Sweep
  <2>2. q \in Pass
    BY ZenonT(30), <2>1 DEF Pass
  <2> HIDE DEF q
  <2> QED BY <2>1, <2>2
<1>4. \A d \in Caller : /\ pass'[d].pc = "split" => pass'[d].svc \in ServiceName
                        /\ pass'[d].snap = pass[d].snap
  BY DEF TypeOK, Sweep, Pass
<1> QED BY SMTT(30), <1>1, <1>2, <1>3, <1>4 DEF TypeOK, Sweep

\* The state of the reconciler stays well formed, and no snapshot carries a
\* version that was not handed out (Reconcile, BuildSnapshot).
THEOREM TypeCorrect == Spec => []TypeOK
<1>1. Init => TypeOK
  <2> SUFFICES ASSUME Init PROVE TypeOK
    OBVIOUS
  <2>1. RegistryTypeOK
    BY RegistryAssumption DEF Init, RegistryInit, RegistryTypeOK
  <2> QED BY <2>1, IdlePassType DEF Init, RoutingInit, TypeOK
<1>2. TypeOK /\ [Next]_vars => TypeOK'
  <2> SUFFICES ASSUME TypeOK, [Next]_vars PROVE TypeOK'
    OBVIOUS
  <2>1. CASE UNCHANGED vars
    BY SMTT(30), <2>1 DEF vars, TypeOK, RegistryTypeOK
  <2> QED BY <2>1, HandlerTypeStep, SweepTypeStep, PassTypeStep DEF Next
<1> QED BY <1>1, <1>2, PTL DEF Spec

\* What the type invariant says of the pass of one caller (Reconcile).
LEMMA PassFacts ==
    ASSUME TypeOK, NEW c \in Caller
    PROVE  /\ pass \in [Caller -> Pass]
           /\ pass[c] \in Pass
           /\ pass[c].snap \in Snapshot /\ pass[c].snap # NoSnapshot
           /\ pass[c].snap.version \in Nat /\ pass[c].snap.version <= version
           /\ version \in Nat
<1>1. /\ pass \in [Caller -> Pass] /\ pass[c] \in Pass
      /\ pass[c].snap.version <= version /\ version \in Nat
  BY DEF TypeOK
<1>2. pass[c].snap \in Snapshot
  BY <1>1 DEF Pass
<1>3. pass[c].snap.version \in Nat
  BY <1>2 DEF Snapshot
<1>4. pass[c].snap # NoSnapshot
  BY <1>2, ReconcilerAssumption
<1> QED BY <1>1, <1>2, <1>3, <1>4

\* What it says of the published snapshots (SetSnapshot, LastSnapshot).
LEMMA PublishedFacts ==
    ASSUME TypeOK
    PROVE  /\ cache # NoSnapshot => /\ cache \in Snapshot
                                   /\ cache.version \in Nat
                                   /\ cache.version <= version
           /\ lastSnapshot # NoSnapshot => lastSnapshot.version \in Nat
<1>1. /\ cache # NoSnapshot => cache \in Snapshot /\ cache.version <= version
      /\ lastSnapshot # NoSnapshot => lastSnapshot \in Snapshot
  BY DEF TypeOK
<1> QED BY <1>1 DEF Snapshot

-----------------------------------------------------------------------------
\* The registry inside the composed system.

\* A pass reads the registry and never writes it; its sweep is a step of the
\* registry (Reconcile).
LEMMA OnlyRegistrySteps == [Next]_vars => [RegistryNext]_registryVars
<1> SUFFICES ASSUME [Next]_vars PROVE [RegistryNext]_registryVars
  OBVIOUS
<1>1. CASE HandlerStep
  <2>1. ASSUME NEW service \in RouteService,
               \/ \E spec \in SpecInput : handlePutRoute(service, spec)
               \/ handleDeleteRoute(service)
        PROVE  UNCHANGED registryVars
    BY <2>1 DEF handlePutRoute, handleDeleteRoute
  <2> QED BY ZenonT(30), <1>1, <2>1, HandlersStepRegistry DEF HandlerStep
<1>2. CASE Time
  BY Zenon, <1>2 DEF Time, RegistryNext
<1>3. ASSUME NEW c \in Caller, Sweep(c) PROVE RegistryNext
  BY Zenon, <1>3 DEF Sweep, RegistryNext
<1>4. ASSUME NEW c \in Caller, PassStep(c) PROVE UNCHANGED registryVars
  BY ZenonT(30), <1>4 DEF PassStep, NextVersion, List, GetRoute, ReadSplit, AddListener,
         BuildFails, SetSnapshot, SetSnapshotFails, Record
<1>5. CASE UNCHANGED vars
  BY <1>5 DEF vars, registryVars
<1> QED BY Zenon, <1>1, <1>2, <1>3, <1>4, <1>5 DEF Next

\* Whatever passes and handlers do, the registry inside the running control
\* plane behaves as the registry alone: what is proved of Registry holds of the
\* composed system (Reconcile, api handlers).
THEOREM ReconcilerUsesRegistry == Spec => RegistrySpec
<1>1. Init => RegistryInit
  BY DEF Init
<1> QED BY <1>1, OnlyRegistrySteps, PTL DEF Spec, RegistrySpec

\* While passes and handlers interleave, too, an instance is marked unhealthy
\* only while it is stale (UnhealthyIsStale).
THEOREM UnhealthyIsStaleThroughout == Spec => []UnhealthyIsStale
BY ReconcilerUsesRegistry, UnhealthyIsStaleAlways, PTL

\* The sweep comes no later than the threshold discovery is built with, unless
\* discovery does not look at the time at all.
SweepNoLater == DiscoveryStaleAfter = 0 \/ StaleAfter \in 1 .. DiscoveryStaleAfter

\* Then, right after a sweep, being marked healthy and being handed out are the
\* same (SweepAndReadAgree).
THEOREM SweepAndReadAgreeThen == SweepNoLater => (Spec => SweepAndReadAgree)
<1> SUFFICES ASSUME SweepNoLater PROVE Spec => SweepAndReadAgree
  OBVIOUS
<1>1. ASSUME TypeOK, NEW c \in Caller, Sweep(c), NEW svc \in Service, NEW id \in InstanceID,
             NEW k \in Key, k = key(DefaultNamespace, svc)
      PROVE  /\ now' = now
             /\ Registered(k, id)' /\ svcs'[k][id].healthy
                  => ~ (DiscoveryStaleAfter > 0
                        /\ now - svcs'[k][id].lastHeartbeat > DiscoveryStaleAfter)
  <2>1. /\ now' = now
        /\ svcs'[k][id] = IF SweptOut(k, id) THEN [svcs[k][id] EXCEPT !.healthy = FALSE]
                          ELSE svcs[k][id]
    BY <1>1 DEF Sweep, SweepStale
  <2>2. now \in Nat /\ (svcs[k][id] # NoInstance => svcs[k][id] \in Instance)
    BY <1>1, RegistryAssumption DEF TypeOK, RegistryTypeOK
  <2>3. CASE SweptOut(k, id)
    <3>1. svcs[k][id] \in Instance
      BY <2>2, <2>3 DEF SweptOut, Registered
    <3>2. svcs'[k][id].healthy = FALSE
      BY Zenon, <2>1, <2>3, <3>1 DEF Instance
    <3> QED BY Zenon, <2>1, <3>2
  <2>4. CASE ~ SweptOut(k, id)
    <3> SUFFICES ASSUME svcs[k][id] # NoInstance, svcs[k][id].healthy,
                        DiscoveryStaleAfter > 0
                 PROVE  ~ (now - svcs[k][id].lastHeartbeat > DiscoveryStaleAfter)
      BY Zenon, <2>1, <2>4 DEF Registered
    <3>1. svcs[k][id].lastHeartbeat \in Nat
      BY <2>2, RegistryAssumption DEF Instance
    <3>2. ~ (StaleAfter > 0 /\ now - svcs[k][id].lastHeartbeat > StaleAfter)
      BY Zenon, <2>4 DEF SweptOut, Registered, Lapsed
    <3> QED BY <2>2, <3>1, <3>2, RegistryAssumption DEF SweepNoLater
  <2> QED BY Zenon, <2>3, <2>4
<1>2. ASSUME TypeOK, NEW c \in Caller, Sweep(c), NEW svc \in Service, NEW id \in InstanceID
      PROVE  LET k == key(DefaultNamespace, svc)
             IN  Healthy(k, id)' <=>
                    id \in HealthyInstances(DefaultNamespace, svc, DiscoveryStaleAfter)'
  <2>1. key(DefaultNamespace, svc) \in Key
    BY KeyKnown, ReconcilerAssumption
  <2> QED BY ZenonT(30), <1>1, <1>2, <2>1 DEF Healthy, HealthyInstances, Registered, Lapsed
<1>3. TypeOK /\ [Next]_vars =>
        [\A c \in Caller : Sweep(c) =>
            \A svc \in Service, id \in InstanceID :
                LET k == key(DefaultNamespace, svc)
                IN  Healthy(k, id)' <=>
                       id \in HealthyInstances(DefaultNamespace, svc, DiscoveryStaleAfter)']_vars
  BY Zenon, <1>2
<1> QED BY <1>3, TypeCorrect, PTL DEF Spec, SweepAndReadAgree

=============================================================================
