--------------------------- MODULE SnapshotProofs ---------------------------
(***************************************************************************)
(* Proofs about the endpoints of published snapshots, for any number of    *)
(* services, instances and specs and of concurrent callers of Reconcile:   *)
(* whatever was discoverable since a snapshot's version was taken is       *)
(* served by it, and in one versioned cluster only.                        *)
(***************************************************************************)
EXTENDS ReconcilerProofs

\* Additions.

\* A service with an instance is listed under its own name (ListServices).
LEMMA RegisteredIsListed ==
    ASSUME NEW svc \in Service, NEW id \in InstanceID,
           Registered(key(DefaultNamespace, svc), id)
    PROVE  svc \in ListServices(DefaultNamespace)
<1> DEFINE n == DefaultNamespace
           k == key(n, svc)
<1>1. n \in Seq(STRING) /\ svc \in Seq(STRING) /\ svc # <<>>
  BY RegistryAssumption, ReconcilerAssumption
<1>2. k \in Key
  BY ReconcilerAssumption, KeyKnown
<1>3. Len(k) = Len(n) + Len(svc) /\ Len(n) \in Nat /\ Len(svc) \in Nat
  BY <1>1, ConcatProperties, LenProperties DEF key
<1>4. Len(svc) > 0
  BY <1>1
<1>5. SubSeq(k, 1, Len(n)) = n
  BY <1>1, SubSeqOfConcat1, SubSeqFull DEF key
<1>6. SubSeq(k, Len(n) + 1, Len(k)) = svc
  BY <1>1, <1>3, SubSeqOfConcat2, SubSeqFull DEF key
<1>7. Len(k) > Len(n)
  BY <1>3, <1>4
<1> HIDE DEF k, n
<1> QED BY Zenon, <1>2, <1>5, <1>6, <1>7 DEF ListServices, k, n

\* The instance has been discoverable since before the snapshot's version.
Steady(snap, svc, id) ==
    LET k == key(DefaultNamespace, svc)
    IN  Discoverable(k, id) /\ snap.version > inSince[k][id]

\* Every cluster of the snapshot that takes the instance lists it.
Takes(snap, svc, id) ==
    \A cl \in snap.clusters :
        (/\ cl.svc = svc
         /\ cl.version \in {Unversioned, svcs[key(DefaultNamespace, svc)][id].version})
            => [cluster |-> cl, id |-> id] \in snap.endpoints

Listens(snap, svc) == \E l \in snap.listeners : l.svc = svc

\* The pass has a listener for the service or has yet to build it.
Covers(p, svc) ==
    p.pc \in {"service", "split"} =>
        \/ Listens(p.snap, svc)
        \/ svc \in p.todo
        \/ p.pc = "split" /\ p.svc = svc

\* A snapshot being built takes every steady instance in the clusters it has,
\* and has or will have its service's listener; a published one has both.
AdditionInv ==
    \A svc \in Service, id \in InstanceID :
        /\ \A c \in Caller :
              Steady(pass[c].snap, svc, id) => Takes(pass[c].snap, svc, id) /\ Covers(pass[c], svc)
        /\ (cache # NoSnapshot /\ Steady(cache, svc, id)) =>
              Takes(cache, svc, id) /\ Listens(cache, svc)

\* The invariant is what the property needs.
LEMMA AdditionInvSuffices == AdditionInv => AdditionReflected
<1> SUFFICES ASSUME AdditionInv, cache # NoSnapshot,
                    NEW svc \in Service, NEW id \in InstanceID, Steady(cache, svc, id)
             PROVE  Serves(cache, svc, id)
  BY DEF AdditionReflected, Steady
<1>1. Takes(cache, svc, id) /\ Listens(cache, svc)
  BY DEF AdditionInv
<1>2. CASE \E cl \in cache.clusters :
              /\ cl.svc = svc
              /\ cl.version \in {Unversioned, svcs[key(DefaultNamespace, svc)][id].version}
  <2>1. PICK cl \in cache.clusters :
              /\ cl.svc = svc
              /\ cl.version \in {Unversioned, svcs[key(DefaultNamespace, svc)][id].version}
    BY <1>2
  <2> DEFINE e == [cluster |-> cl, id |-> id]
  <2>2. e \in cache.endpoints /\ e.cluster.svc = svc /\ e.id = id
    BY <1>1, <2>1 DEF Takes
  <2> QED BY Zenon, <1>1, <2>2 DEF Serves, Listens
<1>3. CASE ~ \E cl \in cache.clusters :
              /\ cl.svc = svc
              /\ cl.version \in {Unversioned, svcs[key(DefaultNamespace, svc)][id].version}
  BY Zenon, <1>1, <1>3 DEF Serves, Listens
<1> QED BY <1>2, <1>3

\* An instance that is steady after a step of the environment was so before,
\* with the same label, for a snapshot whose number was already handed out.
LEMMA SteadyBefore ==
    ASSUME TypeOK, HandlerStep \/ Time \/ \E c \in Caller : Sweep(c),
           NEW svc \in Service, NEW id \in InstanceID,
           NEW snap \in Snapshot, snap.version <= version,
           Discoverable(key(DefaultNamespace, svc), id)',
           snap.version > inSince'[key(DefaultNamespace, svc)][id]
    PROVE  /\ Steady(snap, svc, id)
           /\ svcs'[key(DefaultNamespace, svc)][id].version
                = svcs[key(DefaultNamespace, svc)][id].version
<1> DEFINE k == key(DefaultNamespace, svc)
<1>1. k \in Key
  BY ReconcilerAssumption, KeyKnown
<1>2. Introduced(k, id)
  BY <1>1, HandlerIntroduces, OthersIntroduce
<1>3. snap.version \in Nat /\ version \in Nat
  BY DEF TypeOK, Snapshot
<1>4. Registered(k, id)'
  BY DEF Discoverable
<1>5. inSince'[k][id] # version
  BY <1>3
<1>6. Discoverable(k, id) /\ inSince'[k][id] = inSince[k][id]
      /\ svcs'[k][id].version = svcs[k][id].version
  BY <1>2, <1>4, <1>5 DEF Introduced
<1> QED BY <1>6 DEF Steady

\* Handlers, the clock and sweeps keep the invariant.
LEMMA EnvironmentKeepsAddition ==
    ASSUME TypeOK, AdditionInv, HandlerStep \/ Time \/ \E c \in Caller : Sweep(c)
    PROVE  AdditionInv'
<1>1. /\ cache' = cache
      /\ \A d \in Caller : pass'[d].snap = pass[d].snap
      /\ \A d \in Caller : pass'[d] = pass[d] \/ pass'[d].pc = "swept"
  <2>1. CASE HandlerStep \/ Time
    BY <2>1 DEF HandlerStep, Time, handleRegisterService, handleDeregisterInstance,
           handleHeartbeat, handlePutRoute, handleDeleteRoute, passVars
  <2>2. ASSUME NEW c \in Caller, Sweep(c)
        PROVE  /\ cache' = cache
               /\ \A d \in Caller : pass'[d].snap = pass[d].snap
               /\ \A d \in Caller : pass'[d] = pass[d] \/ pass'[d].pc = "swept"
    BY <2>2 DEF Sweep, TypeOK, Pass
  <2> QED BY <2>1, <2>2
<1> SUFFICES ASSUME NEW svc \in Service, NEW id \in InstanceID
             PROVE  /\ \A c \in Caller :
                          Steady(pass[c].snap, svc, id)' =>
                              Takes(pass[c].snap, svc, id)' /\ Covers(pass[c], svc)'
                    /\ (cache # NoSnapshot /\ Steady(cache, svc, id))' =>
                          Takes(cache, svc, id)' /\ Listens(cache, svc)'
  BY ZenonT(30) DEF AdditionInv
<1>2. ASSUME NEW c \in Caller, Steady(pass[c].snap, svc, id)'
      PROVE  Takes(pass[c].snap, svc, id)' /\ Covers(pass[c], svc)'
  <2>1. pass[c].snap \in Snapshot /\ pass[c].snap.version <= version
    BY PassFacts
  <2>2. /\ Discoverable(key(DefaultNamespace, svc), id)'
        /\ pass[c].snap.version > inSince'[key(DefaultNamespace, svc)][id]
    BY <1>1, <1>2 DEF Steady
  <2>3. /\ Steady(pass[c].snap, svc, id)
        /\ svcs'[key(DefaultNamespace, svc)][id].version
             = svcs[key(DefaultNamespace, svc)][id].version
    BY <2>1, <2>2, SteadyBefore
  <2>4. Takes(pass[c].snap, svc, id) /\ Covers(pass[c], svc)
    BY <2>3 DEF AdditionInv
  <2> QED BY <1>1, <2>3, <2>4 DEF Takes, Covers, Listens
<1>3. ASSUME cache' # NoSnapshot, Steady(cache, svc, id)'
      PROVE  Takes(cache, svc, id)' /\ Listens(cache, svc)'
  <2>1. cache \in Snapshot /\ cache.version <= version
    BY <1>1, <1>3, PublishedFacts
  <2>2. /\ Discoverable(key(DefaultNamespace, svc), id)'
        /\ cache.version > inSince'[key(DefaultNamespace, svc)][id]
    BY <1>1, <1>3 DEF Steady
  <2>3. /\ Steady(cache, svc, id)
        /\ svcs'[key(DefaultNamespace, svc)][id].version
             = svcs[key(DefaultNamespace, svc)][id].version
    BY <2>1, <2>2, SteadyBefore
  <2>4. Takes(cache, svc, id) /\ Listens(cache, svc)
    BY <1>1, <1>3, <2>3 DEF AdditionInv
  <2> QED BY <1>1, <2>3, <2>4 DEF Takes, Listens
<1> QED BY <1>2, <1>3

\* A pass keeps it: the list holds every service with an instance, every split
\* reads the registry anew, and a service leaves the list only to be built.
LEMMA PassKeepsAddition ==
    ASSUME TypeOK, AdditionInv, NEW c \in Caller, PassStep(c)
    PROVE  AdditionInv'
<1> DEFINE p == pass[c]
           q == pass'[c]
<1>u. /\ UNCHANGED <<svcs, now, inSince>>
      /\ \A d \in Caller \ {c} : pass'[d] = pass[d]
  BY PassFrame
<1> SUFFICES ASSUME NEW svc \in Service, NEW id \in InstanceID
             PROVE  /\ \A d \in Caller :
                          Steady(pass[d].snap, svc, id)' =>
                              Takes(pass[d].snap, svc, id)' /\ Covers(pass[d], svc)'
                    /\ (cache # NoSnapshot /\ Steady(cache, svc, id))' =>
                          Takes(cache, svc, id)' /\ Listens(cache, svc)'
  BY Zenon DEF AdditionInv
<1> SUFFICES /\ \A d \in Caller :
                   Steady(pass'[d].snap, svc, id) =>
                       Takes(pass'[d].snap, svc, id) /\ Covers(pass'[d], svc)
             /\ (cache' # NoSnapshot /\ Steady(cache', svc, id)) =>
                   Takes(cache', svc, id) /\ Listens(cache', svc)
  <2>1. Discoverable(key(DefaultNamespace, svc), id)'
          <=> Discoverable(key(DefaultNamespace, svc), id)
    BY <1>u DEF Discoverable, Registered, Lapsed
  <2>2. /\ Steady(cache, svc, id)' <=> Steady(cache', svc, id)
        /\ \A d \in Caller : Steady(pass[d].snap, svc, id)' <=> Steady(pass'[d].snap, svc, id)
    BY <1>u, <2>1 DEF Steady
  <2>3. /\ Takes(cache, svc, id)' <=> Takes(cache', svc, id)
        /\ \A d \in Caller : Takes(pass[d].snap, svc, id)' <=> Takes(pass'[d].snap, svc, id)
    BY <1>u DEF Takes
  <2>4. /\ Listens(cache, svc)' <=> Listens(cache', svc)
        /\ \A d \in Caller : Covers(pass[d], svc)' <=> Covers(pass'[d], svc)
    BY DEF Listens, Covers
  <2> QED BY ZenonT(30), <2>2, <2>3, <2>4
<1> DEFINE Good(r) == Steady(r.snap, svc, id) => Takes(r.snap, svc, id) /\ Covers(r, svc)
           Served(snap) == Steady(snap, svc, id) => Takes(snap, svc, id) /\ Listens(snap, svc)
<1>o. (\A d \in Caller : Good(pass[d])) /\ (cache # NoSnapshot => Served(cache))
  BY DEF AdditionInv
<1> SUFFICES Good(q) /\ (cache' # cache => Served(cache'))
  BY <1>u, <1>o
<1>1. CASE NextVersion(c)
  <2>1. q.pc = "list" /\ q.snap = EmptySnapshot(version + 1) /\ cache' = cache
    BY <1>1, NextVersionStep
  <2>2. q.snap.clusters = {}
    BY <2>1 DEF EmptySnapshot
  <2> QED BY <2>1, <2>2 DEF Takes, Covers
<1>2. CASE List(c)
  <2>1. /\ q.pc = "service" /\ q.todo = ListServices(DefaultNamespace) /\ q.snap = p.snap
        /\ cache' = cache
    BY <1>2, ListStep
  <2>2. Steady(q.snap, svc, id) => svc \in q.todo
    BY <2>1, RegisteredIsListed DEF Steady, Discoverable
  <2> QED BY <1>o, <2>1, <2>2 DEF Covers
<1>3. CASE GetRoute(c)
  <2>1. /\ p.pc = "service" /\ q.pc = "split" /\ q.todo = p.todo \ {q.svc}
        /\ q.snap = p.snap /\ cache' = cache
    BY <1>3, GetRouteStep
  <2> QED BY <1>o, <2>1 DEF Covers
<1>4. CASE ReadSplit(c)
  <2> DEFINE label == Head(p.splits).version
             cluster == clusterName(p.svc, label)
             ids == FilterByVersion(p.svc,
                        HealthyInstances(DefaultNamespace, p.svc, DiscoveryStaleAfter), label)
  <2>1. /\ p.pc = "split" /\ q.pc = p.pc /\ q.svc = p.svc /\ q.todo = p.todo
        /\ q.snap.version = p.snap.version /\ q.snap.listeners = p.snap.listeners
        /\ q.snap.clusters = p.snap.clusters \cup {cluster}
        /\ q.snap.endpoints
             = p.snap.endpoints \cup {[cluster |-> cluster, id |-> i] : i \in ids}
        /\ cache' = cache
    BY ZenonT(30), <1>4, ReadSplitStep
  <2>2. (Discoverable(key(DefaultNamespace, p.svc), id)
          /\ label \in {Unversioned, svcs[key(DefaultNamespace, p.svc)][id].version})
            => id \in ids
    BY DEF Discoverable, HealthyInstances, FilterByVersion
  <2>3. cluster.svc = p.svc /\ cluster.version = label
    BY DEF clusterName
  <2> HIDE DEF ids, cluster, label
  <2>4. Steady(q.snap, svc, id) =>
           Steady(p.snap, svc, id) /\ Discoverable(key(DefaultNamespace, svc), id)
    BY <2>1 DEF Steady
  <2>5. ASSUME Steady(q.snap, svc, id) PROVE Takes(q.snap, svc, id)
    <3> SUFFICES ASSUME NEW cl \in q.snap.clusters, cl.svc = svc,
                        cl.version \in {Unversioned, svcs[key(DefaultNamespace, svc)][id].version}
                 PROVE  [cluster |-> cl, id |-> id] \in q.snap.endpoints
      BY DEF Takes
    <3>1. CASE cl \in p.snap.clusters
      BY SMTT(30), <1>o, <2>1, <2>4, <2>5, <3>1 DEF Takes
    <3>2. CASE cl = cluster
      BY SMTT(30), <2>1, <2>2, <2>3, <2>4, <2>5, <3>2
    <3> QED BY ZenonT(30), <2>1, <3>1, <3>2
  <2> QED BY SMTT(30), <1>o, <2>1, <2>4, <2>5 DEF Covers, Listens
<1>5. CASE AddListener(c)
  <2> DEFINE l == [svc |-> p.svc, port |-> basePort + p.index]
  <2>1. /\ p.pc = "split" /\ q.pc = "service" /\ q.todo = p.todo
        /\ q.snap.version = p.snap.version /\ q.snap.clusters = p.snap.clusters
        /\ q.snap.endpoints = p.snap.endpoints
        /\ q.snap.listeners = p.snap.listeners \cup {l}
        /\ cache' = cache
    BY ZenonT(30), <1>5, AddListenerStep
  <2>2. l.svc = p.svc
    OBVIOUS
  <2> HIDE DEF l
  <2> QED BY <1>o, <2>1, <2>2 DEF Steady, Takes, Covers, Listens
<1>6. CASE BuildFails(c) \/ SetSnapshot(c) \/ SetSnapshotFails(c) \/ Record(c)
  <2>1. /\ cache' = cache \/ (Built(c) /\ cache' = p.snap)
        /\ q = IdlePass \/ (q.pc = "record" /\ q.snap = p.snap)
    BY <1>6, FinalStep
  <2>2. Good(IdlePass)
    <3>1. IdlePass.pc = "idle" /\ IdlePass.snap.clusters = {}
      BY DEF IdlePass, EmptySnapshot
    <3> QED BY <3>1 DEF Takes, Covers
  <2>3. Good(q)
    BY <1>o, <2>1, <2>2 DEF Covers
  <2>4. Built(c) => Served(p.snap)
    BY <1>o DEF Built, Covers
  <2> QED BY <2>1, <2>3, <2>4
<1> QED BY <1>1, <1>2, <1>3, <1>4, <1>5, <1>6 DEF PassStep

\* Every instance discoverable since before a snapshot's version was taken is
\* served by it, although a pass reads the list, the spec and the instances one
\* after the other with no lock in between (BuildSnapshot).
THEOREM AdditionAlwaysReflected == Spec => []AdditionReflected
<1>1. Init => AdditionInv
  <2>1. IdlePass.pc = "idle" /\ IdlePass.snap.clusters = {}
    BY DEF IdlePass, EmptySnapshot
  <2> QED BY SMTT(30), <2>1 DEF Init, AdditionInv, Takes, Covers
<1>2. TypeOK /\ AdditionInv /\ [Next]_vars => AdditionInv'
  <2> SUFFICES ASSUME TypeOK, AdditionInv, [Next]_vars PROVE AdditionInv'
    OBVIOUS
  <2>1. CASE UNCHANGED vars
    <3>1. UNCHANGED <<svcs, now, inSince, pass, cache>>
      BY <2>1 DEF vars
    <3>2. \A k, id : Discoverable(k, id)' <=> Discoverable(k, id)
      BY <3>1 DEF Discoverable, Registered, Lapsed
    <3>3. \A snap, svc, id : Takes(snap, svc, id)' <=> Takes(snap, svc, id)
      BY <3>1 DEF Takes
    <3>4. \A snap, svc, id : Steady(snap, svc, id)' <=> Steady(snap, svc, id)
      BY <3>1, <3>2 DEF Steady
    <3> QED BY SMTT(30), <3>1, <3>3, <3>4 DEF AdditionInv, Covers, Listens
  <2> QED BY <2>1, EnvironmentKeepsAddition, PassKeepsAddition DEF Next
<1>3. AdditionInv => AdditionReflected
  BY AdditionInvSuffices
<1> QED BY ZenonT(30), <1>1, <1>2, <1>3, TypeCorrect, PTL DEF Spec

-----------------------------------------------------------------------------
\* Splits.

\* The instance kept its version since before the snapshot's number.
Kept(snap, e) == inSince[key(DefaultNamespace, e.cluster.svc)][e.id] < snap.version

\* An endpoint of a versioned cluster has the version its instance has.
Labelled(snap) ==
    \A e \in snap.endpoints :
        (/\ Kept(snap, e)
         /\ Registered(key(DefaultNamespace, e.cluster.svc), e.id)
         /\ e.cluster.version # Unversioned)
            => e.cluster.version = svcs[key(DefaultNamespace, e.cluster.svc)][e.id].version

Disjoint(snap) ==
    \A e, f \in snap.endpoints :
        (/\ e.id = f.id /\ e.cluster.svc = f.cluster.svc
         /\ Unversioned \notin {e.cluster.version, f.cluster.version}
         /\ Kept(snap, e))
            => e = f

Apart(snap) == Labelled(snap) /\ Disjoint(snap)

\* Every snapshot, being built or published, keeps the clusters apart.
ApartInv ==
    /\ \A c \in Caller : Apart(pass[c].snap)
    /\ cache # NoSnapshot => Apart(cache)

\* A step of the environment relabels no instance a snapshot counts as kept.
LEMMA EnvironmentKeepsApart ==
    ASSUME TypeOK, HandlerStep \/ Time \/ \E c \in Caller : Sweep(c),
           NEW snap \in Snapshot, snap.version <= version, Apart(snap)
    PROVE  Apart(snap)'
<1>1. snap.version \in Nat /\ version \in Nat
  BY DEF TypeOK, Snapshot
<1>2. ASSUME NEW e \in snap.endpoints, Kept(snap, e)'
      PROVE  LET k == key(DefaultNamespace, e.cluster.svc)
             IN  /\ Kept(snap, e)
                 /\ Registered(k, e.id)' =>
                       Registered(k, e.id) /\ svcs'[k][e.id].version = svcs[k][e.id].version
  <2> DEFINE k == key(DefaultNamespace, e.cluster.svc)
  <2>1. e.cluster.svc \in ServiceName /\ e.id \in InstanceID
    BY DEF Snapshot, Cluster
  <2>2. k \in Key
    BY <2>1, KeyOfListed
  <2>3. Introduced(k, e.id)
    BY <2>1, <2>2, HandlerIntroduces, OthersIntroduce
  <2>4. inSince'[k][e.id] < snap.version
    BY <1>2 DEF Kept
  <2>5. inSince'[k][e.id] # version
    BY <1>1, <2>4
  <2> HIDE DEF k
  <2>6. /\ inSince'[k][e.id] = inSince[k][e.id]
        /\ Registered(k, e.id)' =>
              Registered(k, e.id) /\ svcs'[k][e.id].version = svcs[k][e.id].version
    BY Zenon, <2>3, <2>5 DEF Introduced
  <2> QED BY <2>4, <2>6 DEF Kept, k
<1>3. Labelled(snap)'
  <2> SUFFICES ASSUME NEW e \in snap.endpoints, Kept(snap, e)',
                      Registered(key(DefaultNamespace, e.cluster.svc), e.id)',
                      e.cluster.version # Unversioned
               PROVE  e.cluster.version
                        = svcs'[key(DefaultNamespace, e.cluster.svc)][e.id].version
    BY Zenon DEF Labelled
  <2> QED BY Zenon, <1>2 DEF Apart, Labelled
<1>4. Disjoint(snap)'
  <2> SUFFICES ASSUME NEW e \in snap.endpoints, NEW f \in snap.endpoints,
                      e.id = f.id, e.cluster.svc = f.cluster.svc,
                      Unversioned \notin {e.cluster.version, f.cluster.version},
                      Kept(snap, e)'
               PROVE  e = f
    BY Zenon DEF Disjoint
  <2>1. Kept(snap, e)
    BY Zenon, <1>2
  <2> QED BY Zenon, <2>1 DEF Apart, Disjoint
<1> QED BY <1>3, <1>4 DEF Apart

\* Reading one more split keeps the clusters apart: whoever it adds carries the
\* split's version at that moment (filterByVersion).
LEMMA ReadKeepsApart ==
    ASSUME TypeOK, NEW c \in Caller, ReadSplit(c), Apart(pass[c].snap)
    PROVE  Apart(pass'[c].snap)
<1> DEFINE p == pass[c]
           label == Head(p.splits).version
           cluster == clusterName(p.svc, label)
           ids == FilterByVersion(p.svc,
                      HealthyInstances(DefaultNamespace, p.svc, DiscoveryStaleAfter), label)
           s == p.snap
           t == pass'[c].snap
           new == {[cluster |-> cluster, id |-> i] : i \in ids}
<1>1. t.version = s.version /\ t.endpoints = s.endpoints \cup new
  BY ZenonT(30), ReadSplitStep
<1>2. cluster.svc = p.svc /\ cluster.version = label
  BY DEF clusterName
<1>3. \A i \in ids : /\ Registered(key(DefaultNamespace, p.svc), i)
                     /\ label # Unversioned =>
                           svcs[key(DefaultNamespace, p.svc)][i].version = label
  BY DEF HealthyInstances, FilterByVersion
<1>4. s.endpoints \subseteq [cluster : Cluster, id : InstanceID] /\ cluster \in Cluster
  <2>1. s \in Snapshot
    BY PassFacts
  <2>2. cluster \in Cluster
    BY ZenonT(30), ReadSplitStep
  <2> QED BY <2>1, <2>2 DEF Snapshot
<1> HIDE DEF ids, cluster, label
<1>5. \A e \in new : /\ e.cluster = cluster /\ e.id \in ids /\ e = [cluster |-> cluster, id |-> e.id]
  OBVIOUS
<1>6. \A e \in s.endpoints : e.cluster \in Cluster /\ e = [cluster |-> e.cluster, id |-> e.id]
  BY <1>4
<1> HIDE DEF s, t, new
<1>k. \A e : Kept(t, e) <=> Kept(s, e)
  BY <1>1 DEF Kept
<1>l. Labelled(s) /\ Disjoint(s)
  BY DEF Apart, s
<1>7. ASSUME NEW e \in t.endpoints, Kept(t, e),
             Registered(key(DefaultNamespace, e.cluster.svc), e.id),
             e.cluster.version # Unversioned
      PROVE  e.cluster.version = svcs[key(DefaultNamespace, e.cluster.svc)][e.id].version
  <2>1. CASE e \in s.endpoints
    BY Zenon, <1>7, <1>k, <1>l, <2>1 DEF Labelled
  <2>2. CASE e \in new
    BY Zenon, <1>2, <1>3, <1>5, <1>7, <2>2
  <2> QED BY Zenon, <1>1, <2>1, <2>2
<1>8. ASSUME NEW e \in t.endpoints, NEW f \in t.endpoints, e.id = f.id,
             e.cluster.svc = f.cluster.svc,
             Unversioned \notin {e.cluster.version, f.cluster.version}, Kept(t, e)
      PROVE  e = f
  <2>0. Kept(t, f) /\ e.cluster.version # Unversioned /\ f.cluster.version # Unversioned
    BY <1>8 DEF Kept
  <2>1. CASE e \in s.endpoints /\ f \in s.endpoints
    BY Zenon, <1>8, <1>k, <1>l, <2>1 DEF Disjoint
  <2>2. CASE e \in new \/ f \in new
    <3>1. Registered(key(DefaultNamespace, e.cluster.svc), e.id)
      BY Zenon, <1>2, <1>3, <1>5, <1>8, <2>2
    <3>2. e.cluster.version = f.cluster.version
      BY Zenon, <1>7, <1>8, <2>0, <3>1
    <3>3. e.cluster \in Cluster /\ f.cluster \in Cluster
      BY ZenonT(30), <1>1, <1>4, <1>5, <1>6
    <3>4. e.cluster = f.cluster
      BY <1>8, <3>2, <3>3 DEF Cluster
    <3>5. e = [cluster |-> e.cluster, id |-> e.id] /\ f = [cluster |-> f.cluster, id |-> f.id]
      BY Zenon, <1>1, <1>5, <1>6
    <3> QED BY Zenon, <1>8, <3>4, <3>5
  <2> QED BY ZenonT(30), <1>1, <2>1, <2>2
<1>9. Labelled(t) /\ Disjoint(t)
  BY ZenonT(30), <1>7, <1>8 DEF Labelled, Disjoint
<1> QED BY <1>9 DEF Apart, t

\* An instance that kept its version since before a snapshot's number is in at
\* most one of the snapshot's versioned clusters (filterByVersion).
THEOREM SplitsAlwaysDisjoint == Spec => []SplitsDisjoint
<1>e. \A snap : snap.endpoints = {} => Apart(snap)
  BY DEF Apart, Labelled, Disjoint
<1>1. Init => ApartInv
  BY <1>e, IdlePassType DEF Init, ApartInv
<1>2. ASSUME TypeOK, ApartInv, NEW c \in Caller, PassStep(c) PROVE ApartInv'
  <2> DEFINE p == pass[c]
             q == pass'[c]
  <2>1. /\ UNCHANGED <<svcs, now, inSince>>
        /\ \A d \in Caller \ {c} : pass'[d] = pass[d]
    BY <1>2, PassFrame
  <2>2. Apart(p.snap)
    BY <1>2 DEF ApartInv
  <2>s. \A s, t : (Apart(s) /\ t.version = s.version /\ t.endpoints = s.endpoints) => Apart(t)
    BY DEF Apart, Labelled, Disjoint, Kept
  <2>3. Apart(q.snap)
    <3>1. CASE NextVersion(c)
      <4>1. q.snap = EmptySnapshot(version + 1)
        BY <1>2, <3>1, NextVersionStep
      <4>2. q.snap.endpoints = {}
        BY <4>1 DEF EmptySnapshot
      <4> QED BY <1>e, <4>2
    <3>2. CASE List(c) \/ GetRoute(c)
      <4>1. q.snap = p.snap
        BY <1>2, <3>2, ListStep, GetRouteStep
      <4> QED BY <2>2, <4>1
    <3>3. CASE ReadSplit(c)
      BY <1>2, <2>2, <3>3, ReadKeepsApart
    <3>4. CASE AddListener(c)
      <4>1. q.snap.version = p.snap.version /\ q.snap.endpoints = p.snap.endpoints
        BY ZenonT(30), <1>2, <3>4, AddListenerStep
      <4> QED BY <2>2, <2>s, <4>1
    <3>5. CASE BuildFails(c) \/ SetSnapshot(c) \/ SetSnapshotFails(c) \/ Record(c)
      <4>1. q = IdlePass \/ q.snap = p.snap
        BY <1>2, <3>5, FinalStep
      <4>2. Apart(IdlePass.snap)
        BY <1>e, IdlePassType
      <4> QED BY <2>2, <4>1, <4>2
    <3> QED BY <1>2, <3>1, <3>2, <3>3, <3>4, <3>5 DEF PassStep
  <2>4. cache' = cache \/ cache' = p.snap
    BY ZenonT(30), <1>2 DEF PassStep, NextVersion, List, GetRoute, ReadSplit, AddListener, BuildFails,
           SetSnapshot, SetSnapshotFails, Record
  <2>5. \A d \in Caller : Apart(pass'[d].snap)
    BY <1>2, <2>1, <2>3 DEF ApartInv
  <2>6. cache' # NoSnapshot => Apart(cache')
    BY <1>2, <2>2, <2>4 DEF ApartInv
  <2> HIDE DEF p, q
  <2>7. \A snap : Apart(snap) => Apart(snap)'
    BY <2>1 DEF Apart, Labelled, Disjoint, Kept, Registered
  <2> QED BY ZenonT(30), <2>1, <2>5, <2>6, <2>7 DEF ApartInv, Apart, Labelled, Disjoint, Kept
<1>3. ASSUME TypeOK, ApartInv, HandlerStep \/ Time \/ \E c \in Caller : Sweep(c)
      PROVE  ApartInv'
  <2>1. cache' = cache /\ \A d \in Caller : pass'[d].snap = pass[d].snap
    <3>1. CASE HandlerStep \/ Time
      BY <3>1 DEF HandlerStep, Time, handleRegisterService, handleDeregisterInstance,
             handleHeartbeat, handlePutRoute, handleDeleteRoute, passVars
    <3>2. ASSUME NEW c \in Caller, Sweep(c)
          PROVE  cache' = cache /\ \A d \in Caller : pass'[d].snap = pass[d].snap
      BY <1>3, <3>2 DEF Sweep, TypeOK, Pass
    <3> QED BY <1>3, <3>1, <3>2
  <2>2. ASSUME NEW d \in Caller PROVE Apart(pass[d].snap)'
    <3> DEFINE s == pass[d].snap
    <3>1. s \in Snapshot /\ s.version <= version /\ Apart(s)
      BY <1>3, PassFacts DEF ApartInv
    <3>2. \A snap \in Snapshot : (snap.version <= version /\ Apart(snap)) => Apart(snap)'
      BY <1>3, EnvironmentKeepsApart
    <3> QED BY ZenonT(30), <2>1, <3>1, <3>2 DEF Apart, Labelled, Disjoint, Kept
  <2>3. ASSUME cache # NoSnapshot PROVE Apart(cache)'
    <3>1. cache \in Snapshot /\ cache.version <= version /\ Apart(cache)
      BY <1>3, <2>3, PublishedFacts DEF ApartInv
    <3>2. \A snap \in Snapshot : (snap.version <= version /\ Apart(snap)) => Apart(snap)'
      BY <1>3, EnvironmentKeepsApart
    <3> QED BY ZenonT(30), <2>1, <3>1, <3>2 DEF Apart, Labelled, Disjoint, Kept
  <2> QED BY ZenonT(30), <2>1, <2>2, <2>3 DEF ApartInv
<1>4. TypeOK /\ ApartInv /\ [Next]_vars => ApartInv'
  <2> SUFFICES ASSUME TypeOK, ApartInv, [Next]_vars PROVE ApartInv'
    OBVIOUS
  <2>1. CASE UNCHANGED vars
    <3>1. svcs' = svcs /\ inSince' = inSince /\ pass' = pass /\ cache' = cache
      BY <2>1 DEF vars
    <3>2. \A snap : Apart(snap) => Apart(snap)'
      BY <3>1 DEF Apart, Labelled, Disjoint, Kept, Registered
    <3>3. \A d \in Caller : Apart(pass'[d].snap)
      BY <3>1 DEF ApartInv
    <3>4. cache' # NoSnapshot => Apart(cache')
      BY <3>1 DEF ApartInv
    <3> QED BY ZenonT(30), <3>2, <3>3, <3>4 DEF ApartInv, Apart, Labelled, Disjoint, Kept
  <2> QED BY <1>2, <1>3, <2>1 DEF Next
<1>5. ApartInv => SplitsDisjoint
  BY DEF ApartInv, Apart, Disjoint, Kept, SplitsDisjoint
<1> QED BY <1>1, <1>4, <1>5, TypeCorrect, PTL DEF Spec

=============================================================================
