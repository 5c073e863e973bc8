-------------------------- MODULE PublicationProofs -------------------------
(***************************************************************************)
(* Reconciler with one caller of Reconcile, as shipped: published versions *)
(* are in order and Publisher is implemented, for every set of services,   *)
(* instances and specs.                                                    *)
(***************************************************************************)
EXTENDS Publication, ReconcilerProofs

\* At most one goroutine is inside Reconcile, as in the shipped program.
SingleCaller == \A c, d \in Caller : c = d

\* A pass that took its version is ahead of the cache, a pass that published is
\* what the cache holds, and what /debug/config shows is not ahead of it.
OrderInv ==
    /\ \A c \in Caller :
          /\ (pass[c].pc \in {"list", "service", "split"} /\ cache # NoSnapshot)
                => cache.version < pass[c].snap.version
          /\ pass[c].pc = "record" => cache = pass[c].snap
    /\ DebugNeverAhead

\* The steps that build a snapshot leave its version and what is published
\* (BuildSnapshot).
LEMMA BuildingKeepsVersion ==
    ASSUME TypeOK, NEW c \in Caller,
           List(c) \/ GetRoute(c) \/ ReadSplit(c) \/ AddListener(c)
    PROVE  /\ pass[c].pc \in {"list", "service", "split"}
           /\ pass'[c].pc \in {"service", "split"}
           /\ pass'[c].snap.version = pass[c].snap.version
           /\ version' = version /\ cache' = cache /\ lastSnapshot' = lastSnapshot
<1>u. version' = version /\ cache' = cache /\ lastSnapshot' = lastSnapshot
  BY DEF List, GetRoute, ReadSplit, AddListener
<1>1. CASE List(c)
  BY <1>1, <1>u, ListStep
<1>2. CASE GetRoute(c)
  BY <1>2, <1>u, GetRouteStep
<1>3. CASE ReadSplit(c)
  <2>1. pass[c].pc = "split" /\ pass'[c].pc = pass[c].pc
        /\ pass'[c].snap.version = pass[c].snap.version
    BY ZenonT(30), <1>3, ReadSplitStep
  <2> QED BY <1>u, <2>1
<1>4. CASE AddListener(c)
  <2>1. pass[c].pc = "split" /\ pass'[c].pc = "service"
        /\ pass'[c].snap.version = pass[c].snap.version
    BY ZenonT(30), <1>4, AddListenerStep
  <2> QED BY <1>u, <2>1
<1> QED BY <1>1, <1>2, <1>3, <1>4

\* With one caller, a pass keeps the published versions in order (Reconcile).
LEMMA PassKeepsOrder ==
    ASSUME SingleCaller, TypeOK, OrderInv, NEW c \in Caller, PassStep(c)
    PROVE  /\ OrderInv'
           /\ cache' # cache => (cache = NoSnapshot \/ cache'.version > cache.version)
<1> DEFINE p == pass[c]
<1>p. /\ p \in Pass /\ p.snap \in Snapshot /\ p.snap # NoSnapshot
      /\ p.snap.version \in Nat /\ p.snap.version <= version /\ version \in Nat
  BY PassFacts
<1>f. pass \in [Caller -> Pass]
  BY DEF TypeOK
<1>s. \A d \in Caller : d = c
  BY DEF SingleCaller
<1>k. cache # NoSnapshot => cache.version \in Nat /\ cache.version <= version
  BY PublishedFacts
<1>l. lastSnapshot # NoSnapshot => lastSnapshot.version \in Nat
  BY PublishedFacts
<1>1. CASE NextVersion(c)
  <2>1. pass'[c].pc = "list" /\ pass'[c].snap.version = version + 1
    BY <1>1, <1>p DEF NextVersion, TypeOK, Pass, EmptySnapshot
  <2>2. cache' = cache /\ lastSnapshot' = lastSnapshot
    BY <1>1 DEF NextVersion
  <2> QED BY <1>s, <1>k, <1>p, <2>1, <2>2 DEF OrderInv, DebugNeverAhead
<1>2. CASE List(c) \/ GetRoute(c) \/ ReadSplit(c) \/ AddListener(c)
  <2>1. /\ p.pc \in {"list", "service", "split"}
        /\ pass'[c].pc \in {"service", "split"}
        /\ pass'[c].snap.version = p.snap.version
    BY <1>2, BuildingKeepsVersion
  <2>2. cache' = cache /\ lastSnapshot' = lastSnapshot
    BY <1>2, BuildingKeepsVersion
  <2> QED BY <1>s, <2>1, <2>2 DEF OrderInv, DebugNeverAhead
<1>3. CASE BuildFails(c)
  <2>1. pass'[c] = IdlePass /\ cache' = cache /\ lastSnapshot' = lastSnapshot
    BY <1>3 DEF BuildFails, TypeOK
  <2> QED BY <1>s, <2>1, IdlePassType DEF OrderInv, DebugNeverAhead
<1>4. CASE SetSnapshot(c)
  <2>1. /\ p.pc = "service" /\ cache' = p.snap /\ lastSnapshot' = lastSnapshot
        /\ pass'[c].pc = "record" /\ pass'[c].snap = p.snap
    BY <1>4 DEF SetSnapshot, Built, TypeOK, Pass
  <2>2. cache # NoSnapshot => cache.version < p.snap.version
    BY <2>1 DEF OrderInv
  <2> QED BY <1>s, <1>p, <1>k, <1>l, <2>1, <2>2 DEF OrderInv, DebugNeverAhead
<1>5. CASE SetSnapshotFails(c)
  <2>1. /\ p.pc = "service" /\ cache' \in {cache, p.snap} /\ lastSnapshot' = lastSnapshot
        /\ pass'[c] = IdlePass
    BY <1>5 DEF SetSnapshotFails, Built, TypeOK, Pass
  <2>2. cache # NoSnapshot => cache.version < p.snap.version
    BY <2>1 DEF OrderInv
  <2> QED BY <1>s, <1>p, <1>k, <1>l, <2>1, <2>2, IdlePassType DEF OrderInv, DebugNeverAhead
<1>6. CASE Record(c)
  <2>1. /\ p.pc = "record" /\ cache' = cache /\ lastSnapshot' = p.snap
        /\ pass'[c] = IdlePass
    BY <1>6 DEF Record, TypeOK
  <2>2. cache = p.snap
    BY <2>1 DEF OrderInv
  <2> QED BY <1>s, <1>p, <2>1, <2>2, IdlePassType DEF OrderInv, DebugNeverAhead
<1> QED BY <1>1, <1>2, <1>3, <1>4, <1>5, <1>6 DEF PassStep

\* Handlers, the clock and sweeps publish nothing.
LEMMA EnvironmentKeepsOrder ==
    ASSUME TypeOK, OrderInv,
           \/ HandlerStep \/ Time
           \/ \E c \in Caller : Sweep(c)
    PROVE  OrderInv' /\ cache' = cache
<1>1. CASE HandlerStep \/ Time
  <2>1. UNCHANGED passVars
    BY <1>1 DEF HandlerStep, Time, handleRegisterService, handleDeregisterInstance,
           handleHeartbeat, handlePutRoute, handleDeleteRoute
  <2> QED BY <2>1 DEF passVars, OrderInv, DebugNeverAhead
<1>2. ASSUME NEW c \in Caller, Sweep(c) PROVE OrderInv' /\ cache' = cache
  <2>1. /\ cache' = cache /\ lastSnapshot' = lastSnapshot
        /\ pass'[c].pc = "swept"
        /\ \A d \in Caller \ {c} : pass'[d] = pass[d]
    BY <1>2 DEF Sweep, TypeOK, Pass
  <2> QED BY <2>1 DEF OrderInv, DebugNeverAhead
<1> QED BY <1>1, <1>2

\* The published versions are in order throughout, with one caller.
LEMMA OrderAlways == SingleCaller => (Spec => []OrderInv)
<1> SUFFICES ASSUME SingleCaller PROVE Spec => []OrderInv
  OBVIOUS
<1>1. Init => OrderInv
  BY IdlePassType DEF Init, OrderInv, DebugNeverAhead
<1>2. TypeOK /\ OrderInv /\ [Next]_vars => OrderInv'
  <2> SUFFICES ASSUME TypeOK, OrderInv, [Next]_vars PROVE OrderInv'
    OBVIOUS
  <2>1. CASE UNCHANGED vars
    BY <2>1 DEF vars, OrderInv, DebugNeverAhead
  <2> QED BY <2>1, EnvironmentKeepsOrder, PassKeepsOrder DEF Next
<1> QED BY <1>1, <1>2, TypeCorrect, PTL DEF Spec

\* As long as only one goroutine calls Reconcile, the cache never repeats a
\* version or goes back to an older one (VersionsIncrease).
THEOREM VersionsIncreaseAlone == SingleCaller => (Spec => VersionsIncrease)
<1> SUFFICES ASSUME SingleCaller PROVE Spec => VersionsIncrease
  OBVIOUS
<1>1. TypeOK /\ OrderInv /\ [Next]_vars
        => [cache' # cache => (cache = NoSnapshot \/ cache'.version > cache.version)]_vars
  <2> SUFFICES ASSUME TypeOK, OrderInv, Next
               PROVE  cache' # cache => (cache = NoSnapshot \/ cache'.version > cache.version)
    OBVIOUS
  <2> QED BY EnvironmentKeepsOrder, PassKeepsOrder DEF Next
<1> QED BY <1>1, TypeCorrect, OrderAlways, PTL DEF Spec, VersionsIncrease

\* As long as only one goroutine calls Reconcile, /debug/config never shows a
\* snapshot newer than the one the cache serves (DebugNeverAhead).
THEOREM DebugNeverAheadAlone == SingleCaller => (Spec => []DebugNeverAhead)
<1>1. OrderInv => DebugNeverAhead
  BY DEF OrderInv
<1> QED BY <1>1, OrderAlways, PTL

-----------------------------------------------------------------------------
\* The refinement.

\* What a handler, the clock or a sweep does to the mark of one instance: it is
\* kept, unless the instance was in and goes out now.
Marked(k, id) ==
    \/ outSince'[k][id] = outSince[k][id]
    \/ Healthy(k, id) /\ outSince'[k][id] = version

\* Only an instance that was in is marked (handleDeregisterInstance,
\* SweepStale).
LEMMA EnvironmentMarks ==
    ASSUME TypeOK,
           \/ HandlerStep \/ Time
           \/ \E c \in Caller : Sweep(c),
           NEW k \in Key, NEW id \in InstanceID
    PROVE  Marked(k, id)
<1>1. ASSUME NEW ns \in Namespace, NEW name \in Service, NEW i \in InstanceID,
             handleDeregisterInstance(ns, name, i)
      PROVE  Marked(k, id)
  <2>1. CASE Healthy(key(ns, name), i)
    <3>1. outSince' = [outSince EXCEPT ![key(ns, name)][i] = version]
      BY <1>1, <2>1 DEF handleDeregisterInstance
    <3> QED BY <2>1, <3>1 DEF Marked, TypeOK
  <2>2. CASE ~ Healthy(key(ns, name), i)
    BY <1>1, <2>2 DEF handleDeregisterInstance, Marked
  <2> QED BY <2>1, <2>2
<1>2. ASSUME NEW c \in Caller, Sweep(c)
      PROVE  Marked(k, id)
  BY <1>2 DEF Sweep, Marked, TypeOK, SweptOut, Healthy
<1>3. ASSUME \/ Time
             \/ \E service \in RouteService :
                   \/ \E spec \in SpecInput : handlePutRoute(service, spec)
                   \/ handleDeleteRoute(service)
             \/ \E ns \in Namespace, name \in Service, i \in InstanceID :
                   \/ \E label \in Version, address \in Address :
                         handleRegisterService(ns, name, i, label, address)
                   \/ handleHeartbeat(ns, name, i)
      PROVE  Marked(k, id)
  BY <1>3 DEF Time, handlePutRoute, handleDeleteRoute, handleRegisterService,
         handleHeartbeat, historyVars, Marked
<1> QED BY <1>1, <1>2, <1>3 DEF HandlerStep

\* Handlers, the clock and sweeps leave the version and what is published.
LEMMA EnvironmentKeepsPublished ==
    ASSUME TypeOK,
           \/ HandlerStep \/ Time
           \/ \E c \in Caller : Sweep(c)
    PROVE  /\ UNCHANGED <<version, cache, lastSnapshot>>
           /\ \A c \in Caller :
                 pass'[c] = pass[c] \/ pass'[c].pc = "swept"
<1>1. CASE HandlerStep \/ Time
  BY <1>1 DEF HandlerStep, Time, handleRegisterService, handleDeregisterInstance,
         handleHeartbeat, handlePutRoute, handleDeleteRoute, passVars
<1>2. ASSUME NEW c \in Caller, Sweep(c)
      PROVE  /\ UNCHANGED <<version, cache, lastSnapshot>>
             /\ \A d \in Caller : pass'[d] = pass[d] \/ pass'[d].pc = "swept"
  BY <1>2 DEF Sweep, TypeOK, Pass
<1> QED BY <1>1, <1>2

-----------------------------------------------------------------------------
\* No mark is ahead of the version, and a pass that is building works for the
\* version handed out last.
LatestInv ==
    /\ \A k \in Key, id \in InstanceID : outSince[k][id] <= version
    /\ \A c \in Caller :
          pass[c].pc \in {"list", "service", "split"} =>
              version > 0 /\ pass[c].snap.version = version

\* A step of a pass keeps that, with one caller (Reconcile).
LEMMA PassKeepsLatest ==
    ASSUME SingleCaller, TypeOK, LatestInv, NEW c \in Caller, PassStep(c)
    PROVE  LatestInv'
<1> DEFINE p == pass[c]
<1>p. /\ p \in Pass /\ p.snap \in Snapshot /\ version \in Nat
  BY PassFacts
<1>f. pass \in [Caller -> Pass]
  BY DEF TypeOK
<1>s. \A d \in Caller : d = c
  BY DEF SingleCaller
<1>u. outSince' = outSince
  BY ZenonT(30) DEF PassStep, NextVersion, List, GetRoute, ReadSplit, AddListener,
         BuildFails, SetSnapshot, SetSnapshotFails, Record, historyVars
<1>1. CASE NextVersion(c)
  <2>1. pass'[c].snap.version = version + 1
    BY <1>1, <1>p DEF NextVersion, TypeOK, Pass, EmptySnapshot
  <2>2. version' = version + 1
    BY <1>1 DEF NextVersion
  <2>3. \A k \in Key, id \in InstanceID : outSince[k][id] \in Nat
    BY DEF TypeOK
  <2> QED BY <1>p, <1>s, <1>u, <2>1, <2>2, <2>3 DEF LatestInv
<1>2. CASE List(c) \/ GetRoute(c) \/ ReadSplit(c) \/ AddListener(c)
  <2>1. /\ p.pc \in {"list", "service", "split"}
        /\ pass'[c].snap.version = p.snap.version
    BY <1>2, BuildingKeepsVersion
  <2>2. version' = version
    BY <1>2, BuildingKeepsVersion
  <2> QED BY <1>s, <1>u, <2>1, <2>2 DEF LatestInv
<1>3. CASE BuildFails(c) \/ SetSnapshotFails(c) \/ Record(c)
  <2>1. pass'[c] = IdlePass /\ version' = version
    BY <1>3, <1>f DEF BuildFails, SetSnapshotFails, Record
  <2> QED BY <1>s, <1>u, <2>1, IdlePassType DEF LatestInv
<1>4. CASE SetSnapshot(c)
  <2>1. pass'[c].pc = "record" /\ version' = version
    BY <1>4, <1>p DEF SetSnapshot, TypeOK, Pass
  <2> QED BY <1>s, <1>u, <2>1 DEF LatestInv
<1> QED BY <1>1, <1>2, <1>3, <1>4 DEF PassStep

\* Handlers, the clock and sweeps keep it as well.
LEMMA EnvironmentKeepsLatest ==
    ASSUME TypeOK, LatestInv,
           \/ HandlerStep \/ Time
           \/ \E c \in Caller : Sweep(c)
    PROVE  LatestInv'
<1>1. version' = version /\ version \in Nat
  BY EnvironmentKeepsPublished DEF TypeOK
<1>2. \A k \in Key, id \in InstanceID : outSince'[k][id] <= version'
  <2> SUFFICES ASSUME NEW k \in Key, NEW id \in InstanceID
               PROVE  outSince'[k][id] <= version'
    OBVIOUS
  <2>1. Marked(k, id)
    BY EnvironmentMarks
  <2>2. outSince[k][id] <= version
    BY DEF LatestInv
  <2> QED BY <1>1, <2>1, <2>2 DEF Marked
<1>3. \A c \in Caller :
        pass'[c].pc \in {"list", "service", "split"} =>
            version' > 0 /\ pass'[c].snap.version = version'
  BY <1>1, EnvironmentKeepsPublished DEF LatestInv
<1> QED BY <1>2, <1>3 DEF LatestInv

\* It holds throughout, with one caller.
LEMMA LatestAlways == SingleCaller => (Spec => []LatestInv)
<1> SUFFICES ASSUME SingleCaller PROVE Spec => []LatestInv
  OBVIOUS
<1>1. Init => LatestInv
  BY IdlePassType DEF Init, LatestInv
<1>2. TypeOK /\ LatestInv /\ [Next]_vars => LatestInv'
  <2> SUFFICES ASSUME TypeOK, LatestInv, [Next]_vars PROVE LatestInv'
    OBVIOUS
  <2>1. CASE UNCHANGED vars
    BY <2>1 DEF vars, LatestInv
  <2> QED BY <2>1, EnvironmentKeepsLatest, PassKeepsLatest DEF Next
<1> QED BY <1>1, <1>2, TypeCorrect, PTL DEF Spec

-----------------------------------------------------------------------------
\* A step of a handler, the clock or a sweep is a Change: an endpoint counts as
\* live since the version was taken if it did before or is live afterwards.
LEMMA EnvironmentChanges ==
    ASSUME TypeOK,
           \/ HandlerStep \/ Time
           \/ \E c \in Caller : Sweep(c)
    PROVE  P!Change
<1>1. UNCHANGED <<version, cache, lastSnapshot>> /\ version \in Nat
  BY EnvironmentKeepsPublished DEF TypeOK
<1>2. ASSUME NEW x \in Endpoint
      PROVE  x \in EndpointsSince' <=> (x \in EndpointsSince \/ x \in LiveEndpoints')
  <2> DEFINE k == x[1]
             id == x[2]
  <2>1. k \in Key /\ id \in InstanceID
    BY DEF Endpoint
  <2>2. Accounted(k, id) /\ Marked(k, id)
    BY <2>1, EnvironmentMarks, HandlerAccounts, SweepAccounts
  <2>3. outSince[k][id] \in Nat
    BY <2>1 DEF TypeOK
  <2>4. /\ x \in EndpointsSince' <=> (Healthy(k, id)' \/ outSince'[k][id] >= version')
        /\ x \in EndpointsSince <=> (Healthy(k, id) \/ outSince[k][id] >= version)
        /\ x \in LiveEndpoints' <=> Healthy(k, id)'
    BY DEF EndpointsSince, LiveEndpoints
  <2> HIDE DEF k, id
  <2> QED BY <1>1, <2>2, <2>3, <2>4 DEF Accounted, Marked
<1>3. LiveEndpoints' \in SUBSET Endpoint
  BY DEF LiveEndpoints
<1>4. EndpointsSince' = EndpointsSince \cup LiveEndpoints'
  BY <1>2, <1>3 DEF EndpointsSince
<1>5. Published(cache)' = Published(cache) /\ Published(lastSnapshot)' = Published(lastSnapshot)
  BY <1>1 DEF Published
<1> QED BY <1>1, <1>3, <1>4, <1>5 DEF P!Change

\* What is live depends on nothing a pass writes after its sweep.
LEMMA PassKeepsLive ==
    ASSUME NEW c \in Caller, PassStep(c)
    PROVE  /\ outSince' = outSince
           /\ \A k, id : Healthy(k, id)' <=> Healthy(k, id)
           /\ LiveEndpoints' = LiveEndpoints
           /\ version' = version => EndpointsSince' = EndpointsSince
<1>1. UNCHANGED <<registryVars, historyVars>>
  BY ZenonT(30) DEF PassStep, NextVersion, List, GetRoute, ReadSplit, AddListener,
         BuildFails, SetSnapshot, SetSnapshotFails, Record
<1>2. outSince' = outSince /\ \A k, id : Healthy(k, id)' <=> Healthy(k, id)
  BY <1>1 DEF registryVars, historyVars, Healthy, Registered
<1>3. LiveEndpoints' = LiveEndpoints
  BY <1>2 DEF LiveEndpoints
<1>4. version' = version => EndpointsSince' = EndpointsSince
  BY <1>2 DEF EndpointsSince
<1> QED BY <1>2, <1>3, <1>4

\* A complete snapshot of the latest version may be published: it lists only
\* endpoints that were live since the version was taken (SetSnapshot).
LEMMA CacheReplacedPublishes ==
    ASSUME SingleCaller, TypeOK, RemovalReflected, OrderInv, LatestInv,
           NEW c \in Caller, PassStep(c), pass[c].pc = "service",
           cache' = pass[c].snap, UNCHANGED <<version, lastSnapshot>>
    PROVE  P!Publish
<1> DEFINE snap == pass[c].snap
           ids == {<<key(DefaultNamespace, e.cluster.svc), e.id>> : e \in snap.endpoints}
<1>1. snap \in Snapshot /\ snap # NoSnapshot
  BY PassFacts
<1>2. version > 0 /\ snap.version = version
  BY DEF LatestInv
<1>3. cache # NoSnapshot => cache.version < version
  BY <1>2 DEF OrderInv
<1>4. Published(cache) = NoSnapshot \/ Published(cache).version < version
  BY <1>3 DEF Published
<1>5. ids \in SUBSET EndpointsSince
  <2> SUFFICES ASSUME NEW e \in snap.endpoints
               PROVE  <<key(DefaultNamespace, e.cluster.svc), e.id>> \in EndpointsSince
    OBVIOUS
  <2> DEFINE k == key(DefaultNamespace, e.cluster.svc)
  <2>1. e.cluster.svc \in ServiceName /\ e.id \in InstanceID
    BY <1>1 DEF Snapshot, Cluster
  <2>2. k \in Key
    BY <2>1, KeyOfListed
  <2>3. ~ Healthy(k, e.id) => snap.version <= outSince[k][e.id]
    BY DEF RemovalReflected, NoneLingers
  <2>4. outSince[k][e.id] \in Nat /\ version \in Nat
    BY <2>1, <2>2 DEF TypeOK
  <2>5. Healthy(k, e.id) \/ outSince[k][e.id] >= version
    BY <1>2, <2>3, <2>4
  <2> HIDE DEF k
  <2> QED BY <2>1, <2>2, <2>5 DEF EndpointsSince, Endpoint, k
<1>6. Published(cache)' = [version |-> version, ids |-> ids]
  BY <1>1, <1>2 DEF Published
<1>7. /\ UNCHANGED <<version, LiveEndpoints, EndpointsSince>>
      /\ Published(lastSnapshot)' = Published(lastSnapshot)
  BY PassKeepsLive DEF Published
<1> HIDE DEF ids
<1> QED BY <1>2, <1>4, <1>5, <1>6, <1>7 DEF P!Publish

\* Every step of a pass is a step of Publisher or changes nothing of it.
LEMMA PassPublishes ==
    ASSUME SingleCaller, TypeOK, RemovalReflected, OrderInv, LatestInv,
           NEW c \in Caller, PassStep(c)
    PROVE  [P!Next]_(P!vars)
<1>f. pass \in [Caller -> Pass] /\ version \in Nat
  BY DEF TypeOK
<1>k. /\ outSince' = outSince /\ LiveEndpoints' = LiveEndpoints
      /\ version' = version => EndpointsSince' = EndpointsSince
  BY PassKeepsLive
<1>n. ASSUME UNCHANGED <<version, cache, lastSnapshot>>
      PROVE  UNCHANGED P!vars
  BY <1>n, <1>k DEF P!vars, Published
<1>1. CASE NextVersion(c)
  <2>1. version' = version + 1 /\ UNCHANGED <<cache, lastSnapshot>>
    BY <1>1 DEF NextVersion
  <2>2. \A x \in Endpoint : ~ (outSince[x[1]][x[2]] >= version + 1)
    <3> SUFFICES ASSUME NEW x \in Endpoint PROVE ~ (outSince[x[1]][x[2]] >= version + 1)
      OBVIOUS
    <3>1. x[1] \in Key /\ x[2] \in InstanceID
      BY DEF Endpoint
    <3>2. outSince[x[1]][x[2]] \in Nat /\ outSince[x[1]][x[2]] <= version
      BY <3>1 DEF TypeOK, LatestInv
    <3> QED BY <1>f, <3>2
  <2>3. EndpointsSince' = LiveEndpoints
    BY <2>1, <2>2, PassKeepsLive DEF EndpointsSince, LiveEndpoints
  <2>4. UNCHANGED <<Published(cache), Published(lastSnapshot)>>
    BY <2>1 DEF Published
  <2> QED BY <1>k, <2>1, <2>3, <2>4 DEF P!Issue, P!Next
<1>2. CASE List(c) \/ GetRoute(c) \/ ReadSplit(c) \/ AddListener(c)
  <2>1. UNCHANGED <<version, cache, lastSnapshot>>
    BY <1>2, BuildingKeepsVersion
  <2> QED BY <1>n, <2>1
<1>3. CASE BuildFails(c)
  <2>1. UNCHANGED <<version, cache, lastSnapshot>>
    BY <1>3 DEF BuildFails
  <2> QED BY <1>n, <2>1
<1>4. CASE SetSnapshot(c) \/ SetSnapshotFails(c)
  <2>1. /\ pass[c].pc = "service" /\ UNCHANGED <<version, lastSnapshot>>
        /\ cache' = cache \/ cache' = pass[c].snap
    BY <1>4 DEF SetSnapshot, SetSnapshotFails, Built
  <2>2. CASE cache' = cache
    BY <1>n, <2>1, <2>2
  <2>3. CASE cache' = pass[c].snap
    <3>1. P!Publish
      BY <2>1, <2>3, CacheReplacedPublishes
    <3> QED BY <3>1 DEF P!Next
  <2> QED BY <2>1, <2>2, <2>3
<1>5. CASE Record(c)
  <2>1. lastSnapshot' = cache /\ UNCHANGED <<version, cache>>
    BY <1>5 DEF Record, OrderInv
  <2>2. Published(lastSnapshot)' = Published(cache) /\ Published(cache)' = Published(cache)
    BY <2>1 DEF Published
  <2> QED BY <1>k, <2>1, <2>2 DEF P!Show, P!Next
<1> QED BY <1>1, <1>2, <1>3, <1>4, <1>5 DEF PassStep

\* As long as only one goroutine calls Reconcile, what reconciliation does is
\* what Publisher promises: versions come one by one, none is published twice,
\* a snapshot only lists endpoints that were live since its version was taken,
\* and the debug page shows what was served (ImplementsPublisher).
THEOREM ReconcilerImplementsPublisher == SingleCaller => (Spec => ImplementsPublisher)
<1> SUFFICES ASSUME SingleCaller PROVE Spec => ImplementsPublisher
  OBVIOUS
<1>1. Init => P!Init
  <2> SUFFICES ASSUME Init PROVE P!Init
    OBVIOUS
  <2>1. version = 0 /\ Published(cache) = NoSnapshot /\ Published(lastSnapshot) = NoSnapshot
    BY DEF Init, Published
  <2>2. LiveEndpoints = {}
    BY DEF Init, RegistryInit, LiveEndpoints, Healthy, Registered, Endpoint
  <2>3. EndpointsSince \in SUBSET Endpoint
    BY DEF EndpointsSince
  <2> QED BY <2>1, <2>2, <2>3 DEF P!Init
<1>2. TypeOK /\ RemovalReflected /\ OrderInv /\ LatestInv /\ [Next]_vars
        => [P!Next]_(P!vars)
  <2> SUFFICES ASSUME TypeOK, RemovalReflected, OrderInv, LatestInv, [Next]_vars
               PROVE  [P!Next]_(P!vars)
    OBVIOUS
  <2>1. CASE UNCHANGED vars
    BY <2>1 DEF vars, P!vars, Published, LiveEndpoints, EndpointsSince, Healthy, Registered
  <2>2. ASSUME \/ HandlerStep \/ Time
               \/ \E c \in Caller : Sweep(c)
        PROVE  [P!Next]_(P!vars)
    BY <2>2, EnvironmentChanges DEF P!Next
  <2>3. ASSUME NEW c \in Caller, PassStep(c)
        PROVE  [P!Next]_(P!vars)
    BY <2>3, PassPublishes
  <2> QED BY <2>1, <2>2, <2>3 DEF Next
<1> QED
  BY <1>1, <1>2, TypeCorrect, RemovalAlwaysReflected, OrderAlways, LatestAlways, PTL
     DEF Spec, ImplementsPublisher, P!Spec

=============================================================================
