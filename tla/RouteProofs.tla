----------------------------- MODULE RouteProofs ----------------------------
(***************************************************************************)
(* Proofs about the routes and listeners of published snapshots, for any   *)
(* number of services and specs and of concurrent callers of Reconcile:    *)
(* routes name clusters of their snapshot and follow the specs, and every  *)
(* listener has a port of its own.                                         *)
(***************************************************************************)
EXTENDS ReconcilerProofs

\* Routes and ports.

Resolves(weighted, snap) ==
    \A i \in DOMAIN weighted : weighted[i].cluster \in snap.clusters

\* The snapshot has n listeners, on the first n ports.
Numbered(snap, n) ==
    /\ IsFiniteSet(snap.listeners)
    /\ Cardinality(snap.listeners) = n
    /\ {l.port : l \in snap.listeners} = basePort .. basePort + n - 1

Sound(snap, n) ==
    /\ \A r \in snap.routes : Resolves(r.weighted, snap)
    /\ Numbered(snap, n)

\* What a pass has built so far: the index counts the listeners, and the splits
\* already worked through have their clusters.
Building(p) ==
    /\ Sound(p.snap, p.index)
    /\ p.pc \in {"idle", "swept"} => p.index = 0
    /\ p.pc = "split" => Resolves(p.weighted, p.snap)

ResolveInv ==
    /\ \A c \in Caller : Building(pass[c])
    /\ cache # NoSnapshot => Sound(cache, Cardinality(cache.listeners))

\* An empty snapshot is sound, and so is a pass that has not begun.
LEMMA EmptyIsSound ==
    /\ \A v : Sound(EmptySnapshot(v), 0)
    /\ Building(IdlePass)
<1>1. \A v : EmptySnapshot(v).routes = {} /\ EmptySnapshot(v).listeners = {}
  BY DEF EmptySnapshot
<1>2. IsFiniteSet({}) /\ Cardinality({}) = 0
  BY FS_EmptySet
<1>3. {l.port : l \in {}} = basePort .. basePort + 0 - 1
  BY DEF basePort
<1>4. \A v : Sound(EmptySnapshot(v), 0)
  BY ZenonT(30), <1>1, <1>2, <1>3 DEF Sound, Numbered
<1>5. IdlePass.pc = "idle" /\ IdlePass.index = 0 /\ IdlePass.snap = EmptySnapshot(0)
  BY DEF IdlePass
<1> QED BY <1>4, <1>5 DEF Building

\* The next listener takes the next port, which no other listener has
\* (basePort + i in BuildSnapshot).
LEMMA NextPort ==
    ASSUME NEW snap, NEW n \in Nat, Numbered(snap, n), NEW svc, NEW next,
           next.listeners = snap.listeners \cup {[svc |-> svc, port |-> basePort + n]}
    PROVE  Numbered(next, n + 1)
<1> DEFINE l == [svc |-> svc, port |-> basePort + n]
<1>1. l.port = basePort + n /\ basePort \in Nat
  BY DEF basePort
<1> HIDE DEF l
<1>2. l \notin snap.listeners
  <2>1. basePort + n \notin basePort .. basePort + n - 1
    BY <1>1
  <2> QED BY <1>1, <2>1 DEF Numbered
<1>3. next.listeners = snap.listeners \cup {l}
  BY DEF l
<1>4. IsFiniteSet(next.listeners) /\ Cardinality(next.listeners) = n + 1
  <2>1. IsFiniteSet(snap.listeners) /\ Cardinality(snap.listeners) = n
    BY DEF Numbered
  <2> DEFINE L == snap.listeners
  <2>2. IsFiniteSet(L \cup {l}) /\ Cardinality(L \cup {l}) = Cardinality(L) + 1
    <3> HIDE DEF L
    <3> QED BY ZenonT(30), <1>2, <2>1, FS_AddElement DEF L
  <2> QED BY ZenonT(30), <1>3, <2>1, <2>2
<1>5. {m.port : m \in next.listeners} = {m.port : m \in snap.listeners} \cup {l.port}
  BY <1>3
<1>6. basePort .. basePort + (n + 1) - 1 = (basePort .. basePort + n - 1) \cup {basePort + n}
  BY <1>1
<1> QED BY <1>1, <1>4, <1>5, <1>6 DEF Numbered

\* A pass keeps the invariant: the clusters only grow while it builds, each
\* split adds its cluster before the route names it, and the spec is read once.
LEMMA PassKeepsResolve ==
    ASSUME TypeOK, ResolveInv, NEW c \in Caller, PassStep(c)
    PROVE  ResolveInv'
<1> DEFINE p == pass[c]
           q == pass'[c]
<1>u. \A d \in Caller \ {c} : pass'[d] = pass[d]
  BY PassFrame
<1>p. p \in Pass /\ p.index \in Nat /\ p.weighted \in Seq(WeightedCluster)
  <2>1. p \in Pass
    BY PassFacts
  <2> QED BY <2>1 DEF Pass
<1>o. Building(p) /\ Sound(p.snap, p.index)
  BY DEF ResolveInv, Building
<1> SUFFICES /\ Building(q)
             /\ cache' # cache => Sound(cache', Cardinality(cache'.listeners))
  <2>1. \A d \in Caller : Building(pass'[d])
    BY <1>u DEF ResolveInv
  <2>2. cache' # NoSnapshot => Sound(cache', Cardinality(cache'.listeners))
    BY DEF ResolveInv
  <2> QED BY <2>1, <2>2 DEF ResolveInv, Building, Sound, Numbered, Resolves
<1>1. CASE NextVersion(c)
  <2>1. q.pc = "list" /\ q.index = p.index /\ q.snap = EmptySnapshot(version + 1) /\ cache' = cache
    BY <1>1, NextVersionStep
  <2>2. p.index = 0
    BY <1>1, <1>o DEF NextVersion, Building
  <2> QED BY <2>1, <2>2, EmptyIsSound DEF Building
<1>2. CASE List(c)
  <2>1. q.pc = "service" /\ q.index = p.index /\ q.snap = p.snap /\ cache' = cache
    BY <1>2, ListStep
  <2> QED BY <1>o, <2>1 DEF Building
<1>3. CASE GetRoute(c)
  <2>1. /\ q.pc = "split" /\ q.index = p.index /\ q.snap = p.snap /\ q.weighted = <<>>
        /\ cache' = cache
    BY <1>3, GetRouteStep
  <2>2. Resolves(<<>>, p.snap)
    BY DEF Resolves
  <2> QED BY <1>o, <2>1, <2>2 DEF Building
<1>4. CASE ReadSplit(c)
  <2> DEFINE split == Head(p.splits)
             cluster == clusterName(p.svc, split.version)
             wc == [cluster |-> cluster, weight |-> split.weight]
  <2>1. /\ p.pc = "split" /\ q.pc = "split" /\ q.index = p.index
        /\ q.weighted = Append(p.weighted, wc)
        /\ q.snap.listeners = p.snap.listeners /\ q.snap.routes = p.snap.routes
        /\ q.snap.clusters = p.snap.clusters \cup {cluster}
        /\ cache' = cache
    BY ZenonT(30), <1>4, ReadSplitStep
  <2>2. wc.cluster = cluster
    OBVIOUS
  <2> HIDE DEF wc, cluster
  <2>3. \A w : Resolves(w, p.snap) => Resolves(w, q.snap)
    BY <2>1 DEF Resolves
  <2>4. Sound(q.snap, q.index)
    BY <1>o, <2>1, <2>3 DEF Sound, Numbered
  <2>5. Resolves(p.weighted, q.snap)
    BY <1>o, <2>1, <2>3 DEF Building
  <2>6. Resolves(q.weighted, q.snap)
    <3> SUFFICES ASSUME NEW i \in DOMAIN q.weighted
                 PROVE  q.weighted[i].cluster \in q.snap.clusters
      BY DEF Resolves
    <3>1. CASE i \in DOMAIN p.weighted
      <4>1. q.weighted[i] = p.weighted[i]
        <5> HIDE DEF p, q
        <5> QED BY <1>p, <2>1, <3>1
      <4> QED BY <2>5, <3>1, <4>1 DEF Resolves
    <3>2. CASE i \notin DOMAIN p.weighted
      <4>1. q.weighted[i] = wc
        <5> HIDE DEF p, q
        <5> QED BY <1>p, <2>1, <3>2
      <4> QED BY <2>1, <2>2, <4>1
    <3> QED BY <3>1, <3>2
  <2> QED BY <2>1, <2>4, <2>6 DEF Building
<1>5. CASE AddListener(c)
  <2> DEFINE r == [svc |-> p.svc, weighted |-> p.weighted]
  <2>1. /\ p.pc = "split" /\ q.pc = "service" /\ q.index = p.index + 1
        /\ q.snap.clusters = p.snap.clusters
        /\ q.snap.listeners
             = p.snap.listeners \cup {[svc |-> p.svc, port |-> basePort + p.index]}
        /\ q.snap.routes = p.snap.routes \cup {r}
        /\ cache' = cache
    BY ZenonT(30), <1>5, AddListenerStep
  <2>2. r.weighted = p.weighted
    OBVIOUS
  <2> HIDE DEF r
  <2>3. \A w : Resolves(w, p.snap) => Resolves(w, q.snap)
    BY <2>1 DEF Resolves
  <2>4. \A s \in q.snap.routes : Resolves(s.weighted, q.snap)
    BY <1>o, <2>1, <2>2, <2>3 DEF Building, Sound
  <2>5. Numbered(q.snap, q.index)
    <3>1. Numbered(p.snap, p.index)
      BY <1>o DEF Sound
    <3>2. p.index \in Nat /\ q.index = p.index + 1
          /\ q.snap.listeners
               = p.snap.listeners \cup {[svc |-> p.svc, port |-> basePort + p.index]}
      BY Zenon, <1>p, <2>1
    <3>3. Numbered(q.snap, p.index + 1)
      <4> HIDE DEF p, q
      <4> QED BY Zenon, <3>1, <3>2, NextPort
    <3> QED BY Zenon, <3>2, <3>3
  <2> QED BY <2>1, <2>4, <2>5 DEF Building, Sound
<1>6. CASE BuildFails(c) \/ SetSnapshot(c) \/ SetSnapshotFails(c) \/ Record(c)
  <2>1. /\ cache' = cache \/ cache' = p.snap
        /\ q = IdlePass \/ (q.pc = "record" /\ q.snap = p.snap /\ q.index = p.index)
    BY <1>6, FinalStep
  <2>2. Sound(p.snap, Cardinality(p.snap.listeners))
    BY <1>o DEF Sound, Numbered
  <2>3. Building(q)
    BY <1>o, <2>1, EmptyIsSound DEF Building
  <2> QED BY <2>1, <2>2, <2>3
<1> QED BY <1>1, <1>2, <1>3, <1>4, <1>5, <1>6 DEF PassStep

\* In every published snapshot the routes name clusters of the snapshot and the
\* listeners take the ports from basePort on, one each (BuildSnapshot): what
\* Consistent() does not check.
THEOREM RoutesAlwaysResolve == Spec => []RoutesResolve
<1>1. Init => ResolveInv
  BY EmptyIsSound DEF Init, ResolveInv
<1>2. TypeOK /\ ResolveInv /\ [Next]_vars => ResolveInv'
  <2> SUFFICES ASSUME TypeOK, ResolveInv, [Next]_vars PROVE ResolveInv'
    OBVIOUS
  <2>1. ASSUME UNCHANGED <<pass, cache>> PROVE ResolveInv'
    BY <2>1 DEF ResolveInv, Building, Sound, Numbered, Resolves
  <2>2. CASE HandlerStep \/ Time \/ UNCHANGED vars
    BY <2>1, <2>2 DEF vars, HandlerStep, Time, handleRegisterService, handleDeregisterInstance,
           handleHeartbeat, handlePutRoute, handleDeleteRoute, passVars
  <2>3. ASSUME NEW c \in Caller, Sweep(c) PROVE ResolveInv'
    <3>1. /\ cache' = cache /\ \A d \in Caller \ {c} : pass'[d] = pass[d]
          /\ pass[c].pc = "idle" /\ pass'[c].pc = "swept"
          /\ pass'[c].snap = pass[c].snap /\ pass'[c].index = pass[c].index
      BY <2>3 DEF Sweep, TypeOK, Pass
    <3>2. \A d \in Caller : Building(pass'[d])
      BY <3>1 DEF ResolveInv, Building
    <3> QED BY <3>1, <3>2 DEF ResolveInv, Building, Sound, Numbered, Resolves
  <2> QED BY <2>2, <2>3, PassKeepsResolve DEF Next
<1>3. ResolveInv => RoutesResolve
  BY DEF ResolveInv, RoutesResolve, Sound, Numbered, Resolves
<1> QED BY <1>1, <1>2, <1>3, TypeCorrect, PTL DEF Spec

-----------------------------------------------------------------------------
\* Routes follow the specs.

Share(svc, split) == [cluster |-> clusterName(svc, split.version), weight |-> split.weight]

Spread(svc, splits) == [i \in DOMAIN splits |-> Share(svc, splits[i])]

\* The splits done and the splits left make up the whole.
PartWay(svc, weighted, splits, all) ==
    /\ Len(weighted) + Len(splits) = Len(all)
    /\ \A i \in 1 .. Len(weighted) : weighted[i] = Share(svc, all[i])
    /\ \A i \in 1 .. Len(splits) : splits[i] = all[Len(weighted) + i]

\* The spec of the service is the one of before the snapshot's number.
Unaltered(snap, svc) == SpecChanged(svc) < snap.version

RoutesFollow(snap) ==
    \A r \in snap.routes :
        Unaltered(snap, r.svc) => r.weighted = Spread(r.svc, SplitsOf(Get(r.svc)))

InProgress(p) ==
    (p.pc = "split" /\ Unaltered(p.snap, p.svc)) =>
        PartWay(p.svc, p.weighted, p.splits, SplitsOf(Get(p.svc)))

\* What is published follows the specs, and so does what is being built.
FollowInv ==
    /\ \A c \in Caller : RoutesFollow(pass[c].snap) /\ InProgress(pass[c])
    /\ cache # NoSnapshot => RoutesFollow(cache)

\* Nothing done is the beginning (BuildSnapshot).
LEMMA PartWayBegins ==
    ASSUME NEW svc, NEW all \in Seq(VersionWeight)
    PROVE  PartWay(svc, <<>>, all, all)
BY DEF PartWay

\* One split further (the loop over splits in BuildSnapshot).
LEMMA PartWayAdvances ==
    ASSUME NEW svc, NEW all \in Seq(VersionWeight), NEW splits \in Seq(VersionWeight),
           NEW weighted \in Seq(WeightedCluster), splits # <<>>,
           PartWay(svc, weighted, splits, all),
           Share(svc, Head(splits)) \in WeightedCluster
    PROVE  PartWay(svc, Append(weighted, Share(svc, Head(splits))), Tail(splits), all)
<1> DEFINE wc == Share(svc, Head(splits))
           w == Append(weighted, wc)
           s == Tail(splits)
<1>1. Len(splits) > 0 /\ Len(splits) \in Nat /\ Len(weighted) \in Nat /\ Len(all) \in Nat
  OBVIOUS
<1>2. Len(s) = Len(splits) - 1 /\ \A i \in 1 .. Len(s) : s[i] = splits[i + 1]
  OBVIOUS
<1>3. wc = Share(svc, all[Len(weighted) + 1])
  <2>1. Head(splits) = splits[1]
    OBVIOUS
  <2>2. splits[1] = all[Len(weighted) + 1]
    BY <1>1 DEF PartWay
  <2> QED BY <2>1, <2>2
<1> HIDE DEF wc
<1>4. /\ Len(w) = Len(weighted) + 1 /\ w[Len(weighted) + 1] = wc
      /\ \A i \in 1 .. Len(weighted) : w[i] = weighted[i]
  BY DEF wc
<1> HIDE DEF w, s
<1>5. Len(w) + Len(s) = Len(all)
  BY <1>1, <1>2, <1>4 DEF PartWay
<1>6. \A i \in 1 .. Len(w) : w[i] = Share(svc, all[i])
  <2> SUFFICES ASSUME NEW i \in 1 .. Len(w) PROVE w[i] = Share(svc, all[i])
    OBVIOUS
  <2>1. CASE i \in 1 .. Len(weighted)
    BY <1>4, <2>1 DEF PartWay
  <2>2. CASE i = Len(weighted) + 1
    BY <1>3, <1>4, <2>2
  <2> QED BY <1>1, <1>4, <2>1, <2>2
<1>7. \A i \in 1 .. Len(s) : s[i] = all[Len(w) + i]
  <2> SUFFICES ASSUME NEW i \in 1 .. Len(s) PROVE s[i] = all[Len(w) + i]
    OBVIOUS
  <2>1. i + 1 \in 1 .. Len(splits) /\ Len(weighted) + (i + 1) = Len(w) + i
    BY <1>1, <1>2, <1>4
  <2>2. splits[i + 1] = all[Len(weighted) + (i + 1)]
    BY <2>1 DEF PartWay
  <2> QED BY <1>2, <2>1, <2>2
<1> QED BY <1>5, <1>6, <1>7 DEF PartWay, w, s, wc

\* Nothing left is the end (the route configuration in BuildSnapshot).
LEMMA PartWayEnds ==
    ASSUME NEW svc, NEW all \in Seq(VersionWeight), NEW weighted \in Seq(WeightedCluster),
           PartWay(svc, weighted, <<>>, all)
    PROVE  weighted = Spread(svc, all)
<1>1. Len(weighted) = Len(all) /\ Len(all) \in Nat
  BY DEF PartWay
<1>2. DOMAIN weighted = 1 .. Len(all) /\ DOMAIN all = 1 .. Len(all)
  BY <1>1
<1>3. \A i \in 1 .. Len(all) : weighted[i] = Share(svc, all[i])
  BY <1>1 DEF PartWay
<1>4. weighted = [i \in 1 .. Len(all) |-> weighted[i]]
  BY <1>1, <1>2
<1> QED BY <1>2, <1>3, <1>4 DEF Spread

\* A step of the environment marks every spec it changes (handlePutRoute,
\* handleDeleteRoute).
LEMMA SpecsMarked ==
    ASSUME TypeOK, HandlerStep \/ Time \/ \E c \in Caller : Sweep(c), NEW svc
    PROVE  \/ SpecChanged(svc)' = version
           \/ SpecChanged(svc)' = SpecChanged(svc) /\ Get(svc)' = Get(svc)
<1>t. specSince \in [RouteService -> Nat] /\ DOMAIN specs = RouteService
  BY DEF TypeOK
<1> DEFINE Goal == \/ SpecChanged(svc)' = version
                   \/ SpecChanged(svc)' = SpecChanged(svc) /\ Get(svc)' = Get(svc)
<1>1. ASSUME UNCHANGED <<specs, specSince>> PROVE Goal
  BY <1>1 DEF SpecChanged, Get
<1>2. ASSUME NEW service \in RouteService, NEW new,
             specs' = [specs EXCEPT ![service] = new], SpecMarked(service)
      PROVE  Goal
  <2>1. CASE specs' = specs
    BY <1>1, <1>2, <2>1 DEF SpecMarked
  <2>2. CASE specs' # specs
    <3>1. specSince' = [specSince EXCEPT ![service] = version]
      BY <1>2, <2>2 DEF SpecMarked
    <3>2. CASE svc = service
      BY <1>t, <1>2, <3>1, <3>2 DEF SpecChanged
    <3>3. CASE svc # service
      BY <1>t, <1>2, <3>1, <3>3 DEF SpecChanged, Get
    <3> QED BY <3>2, <3>3
  <2> QED BY <2>1, <2>2
<1>3. ASSUME NEW ns \in Namespace, NEW name \in Service, NEW id \in InstanceID,
             \/ \E label \in Version, address \in Address :
                   handleRegisterService(ns, name, id, label, address)
             \/ handleDeregisterInstance(ns, name, id)
             \/ handleHeartbeat(ns, name, id)
      PROVE  Goal
  BY <1>1, <1>3 DEF handleRegisterService, handleDeregisterInstance, handleHeartbeat
<1>4. ASSUME NEW service \in RouteService,
             \/ \E spec \in SpecInput : handlePutRoute(service, spec)
             \/ handleDeleteRoute(service)
      PROVE  Goal
  BY <1>2, <1>4 DEF handlePutRoute, handleDeleteRoute, PutRoute, DeleteRoute
<1>5. CASE Time \/ \E c \in Caller : Sweep(c)
  BY ZenonT(30), <1>1, <1>5 DEF Time, Sweep, historyVars
<1>6. CASE HandlerStep
  <2>1. CASE \E ns \in Namespace, name \in Service, id \in InstanceID :
                \/ \E label \in Version, address \in Address :
                      handleRegisterService(ns, name, id, label, address)
                \/ handleDeregisterInstance(ns, name, id)
                \/ handleHeartbeat(ns, name, id)
    BY Zenon, <1>3, <2>1
  <2>2. CASE \E service \in RouteService :
                \/ \E spec \in SpecInput : handlePutRoute(service, spec)
                \/ handleDeleteRoute(service)
    BY Zenon, <1>4, <2>2
  <2> QED BY Zenon, <1>6, <2>1, <2>2 DEF HandlerStep
<1> QED BY Zenon, <1>5, <1>6

\* A spec that is still older than a snapshot after such a step was so before,
\* and is the same (handlePutRoute, handleDeleteRoute).
LEMMA UnalteredKept ==
    ASSUME TypeOK, HandlerStep \/ Time \/ \E c \in Caller : Sweep(c),
           NEW snap \in Snapshot, snap.version <= version, NEW svc,
           SpecChanged(svc)' < snap.version
    PROVE  Unaltered(snap, svc) /\ Get(svc)' = Get(svc)
<1>1. snap.version \in Nat /\ version \in Nat
  BY DEF TypeOK, Snapshot
<1>2. SpecChanged(svc)' # version
  BY <1>1
<1>3. SpecChanged(svc)' = SpecChanged(svc) /\ Get(svc)' = Get(svc)
  BY <1>2, SpecsMarked
<1> QED BY <1>3 DEF Unaltered

\* So a snapshot whose routes follow the specs goes on doing so.
LEMMA FollowKept ==
    ASSUME TypeOK, HandlerStep \/ Time \/ \E c \in Caller : Sweep(c),
           NEW snap \in Snapshot, snap.version <= version, RoutesFollow(snap)
    PROVE  RoutesFollow(snap)'
<1> SUFFICES ASSUME NEW r \in snap.routes, SpecChanged(r.svc)' < snap.version
             PROVE  r.weighted = Spread(r.svc, SplitsOf(Get(r.svc)'))
  BY DEF RoutesFollow, Unaltered, Spread, Share, SplitsOf, clusterName
<1>1. Unaltered(snap, r.svc) /\ Get(r.svc)' = Get(r.svc)
  BY UnalteredKept
<1> QED BY <1>1 DEF RoutesFollow

\* Handlers, the clock and sweeps keep what is built and published in step with
\* every spec they leave alone.
LEMMA EnvironmentKeepsFollow ==
    ASSUME TypeOK, FollowInv, HandlerStep \/ Time \/ \E c \in Caller : Sweep(c)
    PROVE  FollowInv'
<1>1. /\ cache' = cache
      /\ \A d \in Caller : pass'[d].snap = pass[d].snap
      /\ \A d \in Caller : pass'[d] = pass[d] \/ pass'[d].pc = "swept"
  <2>1. CASE HandlerStep \/ Time
    BY <2>1 DEF HandlerStep, Time, handleRegisterService, handleDeregisterInstance,
           handleHeartbeat, handlePutRoute, handleDeleteRoute, passVars
  <2>2. ASSUME NEW c \in Caller, Sweep(c)
        PROVE  /\ cache' = cache
               /\ \A d \in Caller : pass'[d].snap = pass[d].snap
               /\ \A d \in Caller : pass'[d] = pass[d] \/ pass'[d].pc = "swept"
    BY <2>2 DEF Sweep, TypeOK, Pass
  <2> QED BY <2>1, <2>2
<1>2. ASSUME NEW d \in Caller PROVE RoutesFollow(pass[d].snap)' /\ InProgress(pass[d])'
  <2>1. /\ pass[d].snap \in Snapshot /\ pass[d].snap.version <= version
        /\ RoutesFollow(pass[d].snap) /\ InProgress(pass[d])
    BY PassFacts DEF FollowInv
  <2>2. RoutesFollow(pass[d].snap)'
    BY <1>1, <2>1, FollowKept DEF RoutesFollow, Unaltered
  <2>3. InProgress(pass[d])'
    <3>1. CASE pass'[d].pc = "swept"
      BY <3>1 DEF InProgress
    <3>2. CASE pass'[d] = pass[d]
      <4> DEFINE p == pass[d]
                 Since(svc) == IF svc \in RouteService THEN specSince'[svc] ELSE 0
                 After(svc) == IF svc \in RouteService THEN specs'[svc] ELSE NoSpec
      <4>1. \A svc : Since(svc) < p.snap.version =>
                       Unaltered(p.snap, svc) /\ After(svc) = Get(svc)
        BY <2>1, UnalteredKept DEF SpecChanged, Get
      <4> HIDE DEF p
      <4>2. (p.pc = "split" /\ Since(p.svc) < p.snap.version) =>
               PartWay(p.svc, p.weighted, p.splits, SplitsOf(After(p.svc)))
        <5> HIDE DEF Since, After
        <5> QED BY Zenon, <2>1, <4>1 DEF InProgress, p
      <4>3. pass'[d] = p
        BY <3>2 DEF p
      <4> QED BY ZenonT(30), <4>2, <4>3 DEF InProgress, Unaltered, SpecChanged, Get
    <3> QED BY <1>1, <3>1, <3>2
  <2> QED BY <2>2, <2>3
<1>3. ASSUME cache' # NoSnapshot PROVE RoutesFollow(cache)'
  <2>1. cache \in Snapshot /\ cache.version <= version /\ RoutesFollow(cache)
    BY <1>1, <1>3, PublishedFacts DEF FollowInv
  <2> QED BY <1>1, <2>1, FollowKept DEF RoutesFollow, Unaltered
<1> QED BY Zenon, <1>2, <1>3 DEF FollowInv

\* A pass keeps it: one read of the spec is carried through to the route.
LEMMA PassKeepsFollow ==
    ASSUME TypeOK, FollowInv, NEW c \in Caller, PassStep(c)
    PROVE  FollowInv'
<1> DEFINE p == pass[c]
           q == pass'[c]
           all == SplitsOf(Get(p.svc))
<1>u. /\ UNCHANGED <<specs, specSince>>
      /\ \A d \in Caller \ {c} : pass'[d] = pass[d]
  BY PassFrame
<1>p. p.splits \in Seq(VersionWeight) /\ p.weighted \in Seq(WeightedCluster)
  <2>1. p \in Pass
    BY PassFacts
  <2> QED BY <2>1 DEF Pass
<1>a. all \in Seq(VersionWeight)
  BY SplitsType
<1>o. RoutesFollow(p.snap) /\ InProgress(p)
  BY DEF FollowInv
<1>s. \A s, t : (RoutesFollow(s) /\ t.version = s.version /\ t.routes = s.routes)
                   => RoutesFollow(t)
  BY DEF RoutesFollow, Unaltered
<1> SUFFICES /\ RoutesFollow(q.snap) /\ InProgress(q)
             /\ cache' # cache => RoutesFollow(cache')
  <2>1. \A d \in Caller : RoutesFollow(pass'[d].snap) /\ InProgress(pass'[d])
    BY <1>u DEF FollowInv
  <2>2. cache' # NoSnapshot => RoutesFollow(cache')
    BY DEF FollowInv
  <2>3. \A svc : SpecChanged(svc)' = SpecChanged(svc) /\ Get(svc)' = Get(svc)
    BY <1>u DEF SpecChanged, Get
  <2>4. \A d \in Caller : RoutesFollow(pass[d].snap)'
    BY <2>1, <2>3 DEF RoutesFollow, Unaltered
  <2>5. \A d \in Caller : InProgress(pass[d])'
    BY <2>1, <2>3 DEF InProgress, Unaltered
  <2>6. (cache # NoSnapshot => RoutesFollow(cache))'
    BY <2>2, <2>3 DEF RoutesFollow, Unaltered
  <2> QED BY ZenonT(30), <2>4, <2>5, <2>6 DEF FollowInv
<1>1. CASE NextVersion(c)
  <2>1. q.pc = "list" /\ q.snap = EmptySnapshot(version + 1) /\ cache' = cache
    BY <1>1, NextVersionStep
  <2>2. q.snap.routes = {}
    BY <2>1 DEF EmptySnapshot
  <2> QED BY <2>1, <2>2 DEF RoutesFollow, InProgress
<1>2. CASE List(c)
  <2>1. q.pc = "service" /\ q.snap = p.snap /\ cache' = cache
    BY <1>2, ListStep
  <2> QED BY <1>o, <2>1 DEF InProgress
<1>3. CASE GetRoute(c)
  <2>1. /\ q.splits = SplitsOf(Get(q.svc)) /\ q.weighted = <<>>
        /\ q.snap = p.snap /\ cache' = cache
    BY Zenon, <1>3, GetRouteStep
  <2>2. SplitsOf(Get(q.svc)) \in Seq(VersionWeight)
    BY SplitsType
  <2>3. PartWay(q.svc, <<>>, SplitsOf(Get(q.svc)), SplitsOf(Get(q.svc)))
    BY <2>2, PartWayBegins
  <2> QED BY Zenon, <1>o, <2>1, <2>3 DEF InProgress
<1>4. CASE ReadSplit(c)
  <2> DEFINE split == Head(p.splits)
             cluster == clusterName(p.svc, split.version)
  <2>1. /\ p.pc = "split" /\ p.splits # <<>> /\ cluster \in Cluster
        /\ q.pc = p.pc /\ q.svc = p.svc /\ q.splits = Tail(p.splits)
        /\ q.weighted = Append(p.weighted, [cluster |-> cluster, weight |-> split.weight])
        /\ q.snap.version = p.snap.version /\ q.snap.routes = p.snap.routes
        /\ cache' = cache
    BY ZenonT(30), <1>4, ReadSplitStep
  <2>2. q.weighted = Append(p.weighted, Share(p.svc, split))
    BY ZenonT(30), <2>1 DEF Share
  <2>3. Share(p.svc, split) \in WeightedCluster
    <3>1. split \in VersionWeight
      BY <1>p, <2>1
    <3> QED BY <2>1, <3>1 DEF Share, WeightedCluster, VersionWeight
  <2>4. PartWay(p.svc, p.weighted, p.splits, all)
           => PartWay(q.svc, q.weighted, q.splits, all)
    <3>1. PartWay(p.svc, p.weighted, p.splits, all)
           => PartWay(p.svc, Append(p.weighted, Share(p.svc, split)), Tail(p.splits), all)
      <4> HIDE DEF p, all
      <4> QED BY ZenonT(30), <1>p, <1>a, <2>1, <2>3, PartWayAdvances
    <3> QED BY Zenon, <2>1, <2>2, <3>1
  <2>5. RoutesFollow(q.snap)
    BY Zenon, <1>o, <1>s, <2>1
  <2>6. InProgress(q)
    <3>1. Unaltered(q.snap, q.svc) => Unaltered(p.snap, p.svc)
      BY <2>1 DEF Unaltered
    <3> QED BY ZenonT(30), <1>o, <2>1, <2>4, <3>1 DEF InProgress
  <2> QED BY Zenon, <2>1, <2>5, <2>6
<1>5. CASE AddListener(c)
  <2> DEFINE r == [svc |-> p.svc, weighted |-> p.weighted]
  <2>1. /\ p.pc = "split" /\ p.splits = <<>> /\ q.pc = "service"
        /\ q.snap.version = p.snap.version /\ q.snap.routes = p.snap.routes \cup {r}
        /\ cache' = cache
    BY ZenonT(30), <1>5, AddListenerStep
  <2>2. r.svc = p.svc /\ r.weighted = p.weighted
    OBVIOUS
  <2> HIDE DEF r
  <2>3. Unaltered(p.snap, p.svc) => p.weighted = Spread(p.svc, all)
    <3>1. Unaltered(p.snap, p.svc) => PartWay(p.svc, p.weighted, <<>>, all)
      BY Zenon, <1>o, <2>1 DEF InProgress
    <3> HIDE DEF p, all
    <3> QED BY ZenonT(30), <1>p, <1>a, <3>1, PartWayEnds
  <2>4. RoutesFollow(q.snap)
    <3> SUFFICES ASSUME NEW s \in q.snap.routes, Unaltered(q.snap, s.svc)
                 PROVE  s.weighted = Spread(s.svc, SplitsOf(Get(s.svc)))
      BY DEF RoutesFollow
    <3>1. Unaltered(p.snap, s.svc)
      BY <2>1 DEF Unaltered
    <3>2. CASE s = r
      BY Zenon, <2>2, <2>3, <3>1, <3>2
    <3>3. CASE s \in p.snap.routes
      BY ZenonT(30), <1>o, <3>1, <3>3 DEF RoutesFollow
    <3> QED BY ZenonT(30), <2>1, <3>2, <3>3
  <2> QED BY <2>1, <2>4 DEF InProgress
<1>6. CASE BuildFails(c) \/ SetSnapshot(c) \/ SetSnapshotFails(c) \/ Record(c)
  <2>1. /\ cache' = cache \/ cache' = p.snap
        /\ q = IdlePass \/ (q.pc = "record" /\ q.snap = p.snap)
    BY <1>6, FinalStep
  <2>2. RoutesFollow(IdlePass.snap) /\ InProgress(IdlePass)
    BY DEF IdlePass, EmptySnapshot, RoutesFollow, InProgress
  <2>3. RoutesFollow(q.snap) /\ InProgress(q)
    BY <1>o, <2>1, <2>2 DEF InProgress
  <2> QED BY <1>o, <2>1, <2>3
<1> QED BY <1>1, <1>2, <1>3, <1>4, <1>5, <1>6 DEF PassStep

\* What is published and what is being built follow the specs throughout
\* (routes.Get, once per service and pass).
LEMMA FollowAlways == Spec => []FollowInv
<1>1. Init => FollowInv
  BY DEF Init, FollowInv, RoutesFollow, InProgress, IdlePass, EmptySnapshot
<1>2. TypeOK /\ FollowInv /\ [Next]_vars => FollowInv'
  <2> SUFFICES ASSUME TypeOK, FollowInv, [Next]_vars PROVE FollowInv'
    OBVIOUS
  <2>1. CASE UNCHANGED vars
    <3>1. UNCHANGED <<specs, specSince, pass, cache>>
      BY <2>1 DEF vars
    <3>2. \A svc : SpecChanged(svc)' = SpecChanged(svc) /\ Get(svc)' = Get(svc)
      BY <3>1 DEF SpecChanged, Get
    <3> QED BY SMTT(30), <3>1, <3>2 DEF FollowInv, RoutesFollow, InProgress, Unaltered
  <2> QED BY <2>1, EnvironmentKeepsFollow, PassKeepsFollow DEF Next
<1> QED BY <1>1, <1>2, TypeCorrect, PTL DEF Spec

\* A spec in place since before a snapshot's number is the one its route
\* follows, split by split (RouteReflected).
THEOREM RouteAlwaysReflected == Spec => []RouteReflected
<1>1. FollowInv => RouteReflected
  BY DEF FollowInv, RoutesFollow, Unaltered, RouteReflected, Spread, Share
<1> QED BY <1>1, FollowAlways, PTL

=============================================================================
