----------------------------- MODULE PassProofs -----------------------------
(***************************************************************************)
(* Proofs about what a pass leaves behind, for any number of services,     *)
(* specs and concurrent callers of Reconcile: the weights of every route   *)
(* add up, and every snapshot is consistent and shows a service whole or   *)
(* not at all.                                                             *)
(***************************************************************************)
EXTENDS RouteProofs

-----------------------------------------------------------------------------
\* The sum of the weights of a route, and Validate's uint32 total of it.

\* A set of numbers with zero that has, with each number, the next one.
LEMMA Induction ==
    ASSUME NEW D \in SUBSET Nat, 0 \in D, \A n \in D : n + 1 \in D
    PROVE  \A n \in Nat : n \in D
<1> SUFFICES ASSUME Nat \ D # {} PROVE FALSE
  OBVIOUS
<1>1. PICK n \in Nat \ D : \A m \in Nat \ D : n <= m
  BY Zenon, LeastNumber
<1>2. n # 0 /\ n - 1 \in Nat
  BY <1>1
<1>3. n - 1 \in D
  BY <1>1, <1>2
<1>4. (n - 1) + 1 \in D
  BY <1>3
<1> QED BY <1>1, <1>4

\* The remainder of a sum is the remainder of the sum of remainders.
LEMMA ModuloOfSum ==
    ASSUME NEW m \in Nat \ {0}, NEW x \in Nat, NEW y \in Nat
    PROVE  ((x % m) + y) % m = (x + y) % m
<1> DEFINE r == x % m
           k == x \div m
           d == (r + y) \div m
           e == (r + y) % m
           D == (x + y) \div m
           E == (x + y) % m
<1>1. x = m * k + r /\ r \in 0 .. m - 1 /\ k \in Nat
  OBVIOUS
<1>2. r + y = m * d + e /\ e \in 0 .. m - 1 /\ d \in Nat
  BY <1>1
<1>3. x + y = m * D + E /\ E \in 0 .. m - 1 /\ D \in Nat
  OBVIOUS
<1> HIDE DEF r, k, d, e, D, E
<1>4. e - E = m * (D - k - d)
  BY <1>1, <1>2, <1>3
<1>5. D - k - d = 0
  <2> DEFINE t == D - k - d
  <2>1. t \in Int /\ m * t < m /\ m * t > -m
    BY <1>1, <1>2, <1>3, <1>4
  <2> HIDE DEF t
  <2>2. (t >= 1 => m * t >= m) /\ (t <= -1 => m * t <= -m)
    BY <2>1
  <2> QED BY <2>1, <2>2 DEF t
<1>6. e = E
  BY <1>1, <1>2, <1>3, <1>4, <1>5
<1> QED BY <1>6 DEF e, E, r

\* f is the running sum of the first n weights, and the running total.
Sums(f, w, n) ==
    f = [i \in 0 .. n |-> IF i = 0 THEN 0 ELSE f[i - 1] + w[i].weight]

Totals(f, w, n) ==
    f = [i \in 0 .. n |-> IF i = 0 THEN 0 ELSE (f[i - 1] + w[i].weight) % UintModulus]

\* The first n weights of w and v are the same numbers.
SameWeights(w, v, n) ==
    \A i \in 1 .. n : w[i].weight \in Nat /\ v[i].weight = w[i].weight

\* Weights have a running sum.
LEMMA SumExists ==
    ASSUME NEW w, NEW n \in Nat
    PROVE  \E f : Sums(f, w, n)
<1> DEFINE D == {k \in Nat : \E f : Sums(f, w, k)}
<1>1. 0 \in D
  <2> DEFINE f == [i \in 0 .. 0 |-> 0]
  <2>1. Sums(f, w, 0)
    BY DEF Sums
  <2> QED BY <2>1
<1>2. ASSUME NEW k \in D PROVE k + 1 \in D
  <2>1. PICK f : Sums(f, w, k)
    BY <1>2
  <2> DEFINE g == [i \in 0 .. k + 1 |-> IF i = k + 1 THEN f[k] + w[k + 1].weight ELSE f[i]]
  <2>2. \A i \in 0 .. k : g[i] = f[i]
    OBVIOUS
  <2>3. \A i \in 0 .. k : f[i] = IF i = 0 THEN 0 ELSE f[i - 1] + w[i].weight
    BY <2>1 DEF Sums
  <2>4. \A i \in 0 .. k + 1 : g[i] = IF i = 0 THEN 0 ELSE g[i - 1] + w[i].weight
    <3> SUFFICES ASSUME NEW i \in 0 .. k + 1
                 PROVE  g[i] = IF i = 0 THEN 0 ELSE g[i - 1] + w[i].weight
      OBVIOUS
    <3>1. CASE i = k + 1
      <4>1. g[i] = f[k] + w[k + 1].weight /\ i # 0 /\ i - 1 = k /\ k \in 0 .. k
        BY <3>1
      <4> HIDE DEF g
      <4> QED BY <2>2, <3>1, <4>1
    <3>2. CASE i \in 0 .. k
      <4>1. i # 0 => i - 1 \in 0 .. k
        BY <3>2
      <4> HIDE DEF g
      <4> QED BY <2>2, <2>3, <3>2, <4>1
    <3> QED BY <3>1, <3>2
  <2>5. g = [i \in 0 .. k + 1 |-> g[i]]
    OBVIOUS
  <2> HIDE DEF g
  <2>6. Sums(g, w, k + 1)
    BY Zenon, <2>4, <2>5 DEF Sums
  <2> QED BY <2>6
<1>3. D \in SUBSET Nat
  OBVIOUS
<1> HIDE DEF D
<1>4. n \in D
  BY Zenon, <1>1, <1>2, <1>3, Induction
<1> QED BY <1>4 DEF D

\* A running sum of weights is a number.
LEMMA SumIsNat ==
    ASSUME NEW w, NEW n \in Nat, NEW f, Sums(f, w, n), \A i \in 1 .. n : w[i].weight \in Nat
    PROVE  \A i \in 0 .. n : f[i] \in Nat
<1> DEFINE D == {k \in Nat : k <= n => f[k] \in Nat}
<1>1. 0 \in D
  BY DEF Sums
<1>2. ASSUME NEW k \in D PROVE k + 1 \in D
  <2> SUFFICES ASSUME k + 1 <= n PROVE f[k + 1] \in Nat
    OBVIOUS
  <2>1. f[k] \in Nat /\ k + 1 \in 1 .. n /\ (k + 1) - 1 = k
    OBVIOUS
  <2>2. f[k + 1] = f[k] + w[k + 1].weight
    BY <2>1 DEF Sums
  <2> QED BY <2>1, <2>2
<1>3. D \in SUBSET Nat
  OBVIOUS
<1> HIDE DEF D
<1>4. \A k \in Nat : k \in D
  BY Zenon, <1>1, <1>2, <1>3, Induction
<1> QED BY <1>4 DEF D

\* The running total is what is left of the running sum in a uint32 (Validate).
LEMMA TotalIsSum ==
    ASSUME NEW w, NEW v, NEW n \in Nat, NEW f, NEW g, Sums(f, w, n), Totals(g, v, n),
           SameWeights(w, v, n)
    PROVE  \A i \in 0 .. n : f[i] \in Nat /\ g[i] = f[i] % UintModulus
<1> DEFINE D == {k \in Nat : k <= n => f[k] \in Nat /\ g[k] = f[k] % UintModulus}
<1>m. UintModulus \in Nat \ {0}
  BY RoutingAssumption
<1>0. /\ f[0] = 0 /\ g[0] = 0
      /\ \A i \in 1 .. n : /\ f[i] = f[i - 1] + w[i].weight
                           /\ g[i] = (g[i - 1] + v[i].weight) % UintModulus
  BY DEF Sums, Totals
<1>1. 0 \in D
  BY <1>m, <1>0
<1>2. ASSUME NEW k \in D PROVE k + 1 \in D
  <2> SUFFICES ASSUME k + 1 <= n
               PROVE  f[k + 1] \in Nat /\ g[k + 1] = f[k + 1] % UintModulus
    OBVIOUS
  <2>1. f[k] \in Nat /\ g[k] = f[k] % UintModulus
    OBVIOUS
  <2>2. k + 1 \in 1 .. n /\ (k + 1) - 1 = k
    OBVIOUS
  <2>3. /\ f[k + 1] = f[k] + w[k + 1].weight
        /\ g[k + 1] = (g[k] + v[k + 1].weight) % UintModulus
    BY <1>0, <2>2
  <2>4. w[k + 1].weight \in Nat /\ v[k + 1].weight = w[k + 1].weight
    BY <2>2 DEF SameWeights
  <2>5. \A x, y \in Nat : ((x % UintModulus) + y) % UintModulus = (x + y) % UintModulus
    BY Zenon, <1>m, ModuloOfSum
  <2>6. f[k + 1] \in Nat
    BY <2>1, <2>3, <2>4
  <2>7. g[k + 1] = ((f[k] % UintModulus) + w[k + 1].weight) % UintModulus
    BY Zenon, <2>1, <2>3, <2>4
  <2>8. g[k + 1] = (f[k] + w[k + 1].weight) % UintModulus
    BY Zenon, <2>1, <2>4, <2>5, <2>7
  <2> QED BY Zenon, <2>3, <2>6, <2>8
<1>3. D \in SUBSET Nat
  OBVIOUS
<1> HIDE DEF D
<1>4. \A k \in Nat : k \in D
  BY Zenon, <1>1, <1>2, <1>3, Induction
<1> QED BY <1>4 DEF D

\* What Validate totals is the sum of the weights, as far as a uint32 holds it
\* (Validate).
LEMMA TotalOfWeights ==
    ASSUME NEW all \in Seq(VersionWeight)
    PROVE  /\ WeightSum(all) \in Nat
           /\ WeightTotal(all) = WeightSum(all) % UintModulus
<1> DEFINE n == Len(all)
           f == CHOOSE h : Sums(h, all, n)
           g == CHOOSE h : Totals(h, all, n)
<1>1. n \in Nat /\ DOMAIN all = 1 .. n
  OBVIOUS
<1>2. \A i \in 1 .. n : all[i].weight \in Nat
  <2>1. \A i \in 1 .. n : all[i] \in VersionWeight
    BY <1>1
  <2>2. \A split \in VersionWeight : split.weight \in Nat
    BY DEF VersionWeight
  <2> HIDE DEF n
  <2> QED BY Zenon, <2>1, <2>2
<1>3. WeightSum(all) = f[n]
  BY Zenon DEF WeightSum, Sums
<1>4. WeightTotal(all) = g[n]
  BY Zenon DEF WeightTotal, Totals
<1> HIDE DEF n
<1>5. Sums(f, all, n)
  BY Zenon, <1>1, SumExists
<1> HIDE DEF f
<1>6. Totals(g, all, n)
  <2> DEFINE h == [i \in 0 .. n |-> f[i] % UintModulus]
  <2>1. \A i \in 0 .. n : f[i] = IF i = 0 THEN 0 ELSE f[i - 1] + all[i].weight
    BY Zenon, <1>5 DEF Sums
  <2>2. \A i \in 0 .. n : f[i] \in Nat
    BY Zenon, <1>1, <1>2, <1>5, SumIsNat
  <2>3. \A i \in 0 .. n : h[i] = IF i = 0 THEN 0
                                ELSE (h[i - 1] + all[i].weight) % UintModulus
    <3> SUFFICES ASSUME NEW i \in 0 .. n
                 PROVE  h[i] = IF i = 0 THEN 0 ELSE (h[i - 1] + all[i].weight) % UintModulus
      OBVIOUS
    <3>m. UintModulus \in Nat \ {0}
      BY RoutingAssumption
    <3>1. CASE i = 0
      BY <1>1, <2>1, <3>1, <3>m
    <3>2. CASE i # 0
      <4>1. i \in 1 .. n /\ i - 1 \in 0 .. n
        BY <1>1, <3>2
      <4>2. h[i] = (f[i - 1] + all[i].weight) % UintModulus
        BY <1>2, <2>1, <3>2, <4>1
      <4>3. h[i - 1] = f[i - 1] % UintModulus
        BY <4>1
      <4> HIDE DEF h
      <4>4. f[i - 1] \in Nat /\ all[i].weight \in Nat
        BY <1>2, <2>2, <4>1
      <4>5. ((f[i - 1] % UintModulus) + all[i].weight) % UintModulus
              = (f[i - 1] + all[i].weight) % UintModulus
        BY Zenon, <3>m, <4>4, ModuloOfSum
      <4> QED BY Zenon, <3>2, <4>2, <4>3, <4>5
    <3> QED BY <3>1, <3>2
  <2>4. h = [i \in 0 .. n |-> h[i]]
    OBVIOUS
  <2> HIDE DEF h
  <2>5. Totals(h, all, n)
    BY Zenon, <2>3, <2>4 DEF Totals
  <2> QED BY Zenon, <2>5
<1> HIDE DEF g
<1>7. f[n] \in Nat /\ g[n] = f[n] % UintModulus
  <2>1. \A i \in 0 .. n : f[i] \in Nat /\ g[i] = f[i] % UintModulus
    <3>1. SameWeights(all, all, n)
      BY <1>2 DEF SameWeights
    <3> QED BY <1>1, <1>5, <1>6, <3>1, TotalIsSum
  <2> QED BY <1>1, <2>1
<1> QED BY Zenon, <1>3, <1>4, <1>7

\* A route has the weights of the splits it is spread over (BuildSnapshot).
LEMMA SumOfSpread ==
    ASSUME NEW svc, NEW all \in Seq(VersionWeight)
    PROVE  WeightSum(Spread(svc, all)) = WeightSum(all)
<1> DEFINE w == Spread(svc, all)
           n == Len(all)
<1>1. n \in Nat /\ DOMAIN all = 1 .. n /\ DOMAIN w = 1 .. n /\ Len(w) = n
  BY DEF Spread
<1>2. \A i \in 1 .. n : w[i].weight = all[i].weight
  <2>1. \A i \in 1 .. n : w[i] = Share(svc, all[i])
    BY <1>1 DEF Spread
  <2>2. \A split : Share(svc, split).weight = split.weight
    BY DEF Share
  <2> HIDE DEF w, n
  <2> QED BY Zenon, <2>1, <2>2
<1>3. \A f : Sums(f, w, n) <=> Sums(f, all, n)
  <2> SUFFICES ASSUME NEW f PROVE Sums(f, w, n) <=> Sums(f, all, n)
    OBVIOUS
  <2>1. [i \in 0 .. n |-> IF i = 0 THEN 0 ELSE f[i - 1] + w[i].weight]
          = [i \in 0 .. n |-> IF i = 0 THEN 0 ELSE f[i - 1] + all[i].weight]
    <3> HIDE DEF w, n
    <3> QED BY <1>1, <1>2
  <2> QED BY <2>1 DEF Sums
<1>4. (CHOOSE f : Sums(f, w, n)) = (CHOOSE f : Sums(f, all, n))
  <2> HIDE DEF w, n
  <2> QED BY Zenon, <1>3
<1>5. WeightSum(w) = (CHOOSE f : Sums(f, w, n))[n]
  BY Zenon, <1>1 DEF WeightSum, Sums
<1>6. WeightSum(all) = (CHOOSE f : Sums(f, all, n))[n]
  BY Zenon DEF WeightSum, Sums
<1> QED BY Zenon, <1>4, <1>5, <1>6

\* The split of a service without a spec (noVersionSplit).
LEMMA SumOfOne == WeightSum(noVersionSplit) = 100
<1> DEFINE s == noVersionSplit
           n == Len(s)
           f == CHOOSE h : Sums(h, s, n)
<1>1. n = 1 /\ s[1].weight = 100
  BY DEF noVersionSplit
<1>2. WeightSum(s) = f[n]
  BY Zenon DEF WeightSum, Sums
<1> HIDE DEF n, s
<1>3. Sums(f, s, n)
  <2>1. n \in Nat
    BY <1>1
  <2> QED BY Zenon, <2>1, SumExists
<1> HIDE DEF f
<1>4. f[1] = f[0] + s[1].weight /\ f[0] = 0
  BY <1>1, <1>3 DEF Sums
<1> QED BY <1>1, <1>2, <1>4 DEF s

-----------------------------------------------------------------------------
\* What a snapshot is made of.

\* The splits a pass can read: those of a valid spec, or of none.
Readable == {noVersionSplit} \cup {spec.splits : spec \in {s \in SpecInput : Validate(s)}}

Named(weighted) == {weighted[i].cluster : i \in DOMAIN weighted}

ClustersOf(snap, svc) == {cl \in snap.clusters : cl.svc = svc}

\* The snapshot is consistent, a service with a route has the clusters that its
\* route names and no others, the route is spread over splits that could be
\* read, and every cluster belongs to a route, but for those of the service in
\* hand.
Assembled(snap, inHand) ==
    /\ Consistent(snap)
    /\ \A r \in snap.routes :
          /\ ClustersOf(snap, r.svc) = Named(r.weighted)
          /\ \E all \in Readable : r.weighted = Spread(r.svc, all)
    /\ \A cl \in snap.clusters \ inHand : \E r \in snap.routes : r.svc = cl.svc

\* The service in hand has no route yet, the clusters of the splits done, and
\* splits that could be read.
SplitsInHand(p) ==
    /\ p.svc \notin p.todo
    /\ \A r \in p.snap.routes : r.svc # p.svc
    /\ ClustersOf(p.snap, p.svc) = Named(p.weighted)
    /\ \E all \in Readable : PartWay(p.svc, p.weighted, p.splits, all)

Assembling(p) ==
    /\ Assembled(p.snap, IF p.pc = "split" THEN Named(p.weighted) ELSE {})
    /\ p.pc \in {"idle", "swept", "list"} => p.snap.routes = {}
    /\ \A r \in p.snap.routes : r.svc \notin p.todo
    /\ p.pc = "split" => SplitsInHand(p)

AssemblyInv ==
    /\ \A service \in RouteService : specs[service] # NoSpec => Validate(specs[service])
    /\ \A c \in Caller : Assembling(pass[c])
    /\ cache # NoSnapshot => Assembled(cache, {})
    /\ lastSnapshot # NoSnapshot => Assembled(lastSnapshot, {})

\* What can be read is a sequence of splits, and not an empty one (Validate).
LEMMA ReadableType ==
    ASSUME NEW all \in Readable
    PROVE  all \in Seq(VersionWeight) /\ all # <<>>
<1>1. CASE all = noVersionSplit
  <2>1. [version |-> Unversioned, weight |-> 100] \in VersionWeight
    BY ReconcilerAssumption DEF VersionWeight
  <2> QED BY <1>1, <2>1 DEF noVersionSplit
<1>2. ASSUME NEW spec \in SpecInput, Validate(spec), all = spec.splits
      PROVE  all \in Seq(VersionWeight) /\ all # <<>>
  <2>1. spec \in TrafficSpec
    BY RoutingAssumption
  <2>2. spec.splits \in Seq(VersionWeight)
    BY <2>1 DEF TrafficSpec
  <2> QED BY <1>2, <2>2 DEF Validate
<1> QED BY Zenon, <1>1, <1>2 DEF Readable

\* A snapshot that holds nothing, and a pass that has not begun.
LEMMA EmptyIsAssembled ==
    /\ \A v : Assembled(EmptySnapshot(v), {}) /\ EmptySnapshot(v).routes = {}
    /\ Assembling(IdlePass)
<1>1. \A v : /\ EmptySnapshot(v).clusters = {} /\ EmptySnapshot(v).assignments = {}
             /\ EmptySnapshot(v).listeners = {} /\ EmptySnapshot(v).routes = {}
  BY DEF EmptySnapshot
<1>2. \A v : Assembled(EmptySnapshot(v), {})
  BY Zenon, <1>1 DEF Assembled, Consistent
<1>3. IdlePass.pc = "idle" /\ IdlePass.snap = EmptySnapshot(0)
  BY DEF IdlePass
<1> QED BY <1>1, <1>2, <1>3 DEF Assembling

\* The spec a pass reads is one of the stored ones, which are valid (routes.Get).
LEMMA ReadsReadable ==
    ASSUME TypeOK, AssemblyInv, NEW svc
    PROVE  SplitsOf(Get(svc)) \in Readable
<1>1. CASE Get(svc) = NoSpec
  BY <1>1 DEF SplitsOf, Readable
<1>2. CASE Get(svc) # NoSpec
  <2>1. svc \in RouteService /\ Get(svc) = specs[svc]
    BY <1>2 DEF Get
  <2>2. specs[svc] \in SpecInput /\ Validate(specs[svc])
    BY <1>2, <2>1 DEF TypeOK, AssemblyInv
  <2> QED BY <1>2, <2>1, <2>2 DEF SplitsOf, Readable
<1> QED BY <1>1, <1>2

\* The cluster of the next split is added to the snapshot and to the route in
\* hand (the loop over splits in BuildSnapshot).
LEMMA SplitAssembles ==
    ASSUME TypeOK, AssemblyInv, NEW c \in Caller, ReadSplit(c)
    PROVE  Assembling(pass'[c])
<1> DEFINE p == pass[c]
           q == pass'[c]
           split == Head(p.splits)
           cluster == clusterName(p.svc, split.version)
           wc == Share(p.svc, split)
<1>p. p.splits \in Seq(VersionWeight) /\ p.weighted \in Seq(WeightedCluster)
  <2>1. p \in Pass
    BY PassFacts
  <2> QED BY <2>1 DEF Pass
<1>1. /\ p.pc = "split" /\ p.splits # <<>> /\ cluster \in Cluster
      /\ q.pc = "split" /\ q.svc = p.svc /\ q.todo = p.todo /\ q.splits = Tail(p.splits)
      /\ q.weighted = Append(p.weighted, [cluster |-> cluster, weight |-> split.weight])
      /\ q.snap.routes = p.snap.routes /\ q.snap.listeners = p.snap.listeners
      /\ q.snap.clusters = p.snap.clusters \cup {cluster}
      /\ q.snap.assignments = p.snap.assignments \cup {cluster}
  BY ZenonT(30), ReadSplitStep
<1>2. cluster.svc = p.svc /\ wc.cluster = cluster
  BY DEF clusterName, Share
<1>3. q.weighted = Append(p.weighted, wc) /\ wc \in WeightedCluster
  <2>1. split \in VersionWeight
    BY <1>p, <1>1
  <2> QED BY <1>1, <2>1 DEF Share, WeightedCluster, VersionWeight
<1>4. Named(q.weighted) = Named(p.weighted) \cup {cluster}
  <2> DEFINE w == p.weighted
             v == Append(w, wc)
  <2>1. /\ DOMAIN v = DOMAIN w \cup {Len(w) + 1} /\ v[Len(w) + 1] = wc
        /\ \A i \in DOMAIN w : v[i] = w[i]
    <3> HIDE DEF p, wc
    <3> QED BY <1>p, <1>3
  <2> HIDE DEF v, w, wc
  <2>2. Named(v) = Named(w) \cup {wc.cluster}
    BY <2>1 DEF Named
  <2> QED BY <1>2, <1>3, <2>2 DEF v, w
<1>5. Assembling(p) /\ SplitsInHand(p) /\ Assembled(p.snap, Named(p.weighted))
  BY <1>1 DEF AssemblyInv, Assembling
<1> HIDE DEF p, q, cluster, wc
<1>6. ClustersOf(q.snap, q.svc) = Named(q.weighted)
  BY <1>1, <1>2, <1>4, <1>5 DEF SplitsInHand, ClustersOf
<1>7. \E all \in Readable : PartWay(q.svc, q.weighted, q.splits, all)
  <2>1. PICK all \in Readable : PartWay(p.svc, p.weighted, p.splits, all)
    BY <1>5 DEF SplitsInHand
  <2>2. all \in Seq(VersionWeight)
    BY ReadableType
  <2>3. PartWay(p.svc, Append(p.weighted, wc), Tail(p.splits), all)
    BY ZenonT(30), <1>p, <1>1, <1>3, <2>1, <2>2, PartWayAdvances DEF wc
  <2> QED BY Zenon, <1>1, <1>3, <2>3
<1>8. \A r \in q.snap.routes : ClustersOf(q.snap, r.svc) = ClustersOf(p.snap, r.svc)
  BY <1>1, <1>2, <1>5 DEF SplitsInHand, ClustersOf
<1>9. Consistent(q.snap)
  BY <1>1, <1>5 DEF Assembled, Consistent
<1>10. \A cl \in q.snap.clusters \ Named(q.weighted) : \E r \in q.snap.routes : r.svc = cl.svc
  BY <1>1, <1>4, <1>5 DEF Assembled
<1>11. Assembled(q.snap, Named(q.weighted))
  BY Zenon, <1>1, <1>5, <1>8, <1>9, <1>10 DEF Assembled
<1>12. SplitsInHand(q)
  BY Zenon, <1>1, <1>5, <1>6, <1>7 DEF SplitsInHand
<1>13. \A r \in q.snap.routes : r.svc \notin q.todo
  BY Zenon, <1>1, <1>5 DEF Assembling
<1>14. Assembling(q)
  BY <1>1, <1>11, <1>12, <1>13 DEF Assembling
<1> QED BY <1>14 DEF q

\* The service in hand gets its route and its listener together, and its
\* clusters belong to that route from then on (BuildSnapshot).
LEMMA ListenerAssembles ==
    ASSUME TypeOK, AssemblyInv, NEW c \in Caller, AddListener(c)
    PROVE  Assembling(pass'[c])
<1> DEFINE p == pass[c]
           q == pass'[c]
           r == [svc |-> p.svc, weighted |-> p.weighted]
           l == [svc |-> p.svc, port |-> basePort + p.index]
<1>p. p.weighted \in Seq(WeightedCluster)
  <2>1. p \in Pass
    BY PassFacts
  <2> QED BY <2>1 DEF Pass
<1>1. /\ p.pc = "split" /\ p.splits = <<>> /\ q.pc = "service" /\ q.todo = p.todo
      /\ q.snap.routes = p.snap.routes \cup {r}
      /\ q.snap.listeners = p.snap.listeners \cup {l}
      /\ q.snap.clusters = p.snap.clusters
      /\ q.snap.assignments = p.snap.assignments
  BY ZenonT(30), AddListenerStep
<1>2. r.svc = p.svc /\ r.weighted = p.weighted /\ l.svc = p.svc
  OBVIOUS
<1>3. Assembling(p) /\ SplitsInHand(p) /\ Assembled(p.snap, Named(p.weighted))
  BY <1>1 DEF AssemblyInv, Assembling
<1> HIDE DEF p, q, r, l
<1>4. \E all \in Readable : r.weighted = Spread(r.svc, all)
  <2>1. PICK all \in Readable : PartWay(p.svc, p.weighted, <<>>, all)
    BY Zenon, <1>1, <1>3 DEF SplitsInHand
  <2>2. all \in Seq(VersionWeight)
    BY ReadableType
  <2>3. p.weighted = Spread(p.svc, all)
    BY ZenonT(30), <1>p, <2>1, <2>2, PartWayEnds
  <2> QED BY Zenon, <1>2, <2>3
<1>5. \A svc : ClustersOf(q.snap, svc) = ClustersOf(p.snap, svc)
  BY <1>1 DEF ClustersOf
<1>6. \A s \in q.snap.routes : /\ ClustersOf(q.snap, s.svc) = Named(s.weighted)
                               /\ \E all \in Readable : s.weighted = Spread(s.svc, all)
  <2> SUFFICES ASSUME NEW s \in q.snap.routes
               PROVE  /\ ClustersOf(q.snap, s.svc) = Named(s.weighted)
                      /\ \E all \in Readable : s.weighted = Spread(s.svc, all)
    OBVIOUS
  <2>1. CASE s = r
    BY Zenon, <1>2, <1>3, <1>4, <1>5, <2>1 DEF SplitsInHand
  <2>2. CASE s \in p.snap.routes
    BY Zenon, <1>3, <1>5, <2>2 DEF Assembled
  <2> QED BY <1>1, <2>1, <2>2
<1>7. Consistent(q.snap)
  <2>1. /\ p.snap.clusters = p.snap.assignments
        /\ {m.svc : m \in p.snap.listeners} = {s.svc : s \in p.snap.routes}
    BY <1>3 DEF Assembled, Consistent
  <2>2. {m.svc : m \in q.snap.listeners} = {m.svc : m \in p.snap.listeners} \cup {l.svc}
    BY <1>1
  <2>3. {s.svc : s \in q.snap.routes} = {s.svc : s \in p.snap.routes} \cup {r.svc}
    BY <1>1
  <2> QED BY Zenon, <1>1, <1>2, <2>1, <2>2, <2>3 DEF Consistent
<1>8. \A cl \in q.snap.clusters : \E s \in q.snap.routes : s.svc = cl.svc
  <2> SUFFICES ASSUME NEW cl \in p.snap.clusters
               PROVE  \E s \in q.snap.routes : s.svc = cl.svc
    BY <1>1
  <2>1. CASE cl \in Named(p.weighted)
    <3>1. cl.svc = p.svc
      BY <1>3, <2>1 DEF SplitsInHand, ClustersOf
    <3> QED BY <1>1, <1>2, <3>1
  <2>2. CASE cl \notin Named(p.weighted)
    BY <1>1, <1>3, <2>2 DEF Assembled
  <2> QED BY <2>1, <2>2
<1>9. Assembled(q.snap, {})
  BY Zenon, <1>6, <1>7, <1>8 DEF Assembled
<1>10. \A s \in q.snap.routes : s.svc \notin q.todo
  BY <1>1, <1>2, <1>3 DEF Assembling, SplitsInHand
<1>11. Assembling(q)
  BY <1>1, <1>9, <1>10 DEF Assembling
<1> QED BY <1>11 DEF q

\* Only Record writes the snapshot for LastSnapshot (Reconcile).
LEMMA LastStep ==
    ASSUME NEW c \in Caller, PassStep(c)
    PROVE  \/ lastSnapshot' = lastSnapshot
           \/ pass[c].pc = "record" /\ lastSnapshot' = pass[c].snap
BY ZenonT(30) DEF PassStep, NextVersion, List, GetRoute, ReadSplit, AddListener,
       BuildFails, SetSnapshot, SetSnapshotFails, Record

\* A pass keeps the invariant.
LEMMA PassKeepsAssembly ==
    ASSUME TypeOK, AssemblyInv, NEW c \in Caller, PassStep(c)
    PROVE  AssemblyInv'
<1> DEFINE p == pass[c]
           q == pass'[c]
<1>u. specs' = specs /\ \A d \in Caller \ {c} : pass'[d] = pass[d]
  BY PassFrame
<1>o. Assembling(p)
  BY DEF AssemblyInv
<1>l. lastSnapshot' = lastSnapshot \/ Assembled(lastSnapshot', {})
  <2>1. p.pc = "record" => Assembled(p.snap, {})
    BY <1>o DEF Assembling
  <2> QED BY Zenon, <2>1, LastStep
<1> SUFFICES /\ Assembling(q)
             /\ cache' = cache \/ Assembled(cache', {})
  <2>1. \A d \in Caller : Assembling(pass'[d])
    BY Zenon, <1>u DEF AssemblyInv
  <2> HIDE DEF Assembling, Assembled, p, q
  <2> QED BY Zenon, <1>u, <1>l, <2>1 DEF AssemblyInv
<1>1. CASE NextVersion(c)
  <2>1. q.pc = "list" /\ q.snap = EmptySnapshot(version + 1) /\ cache' = cache
    BY <1>1, NextVersionStep
  <2> QED BY <2>1, EmptyIsAssembled DEF Assembling
<1>2. CASE List(c)
  <2>1. /\ p.pc = "list" /\ q.pc = "service" /\ q.snap = p.snap /\ cache' = cache
    BY <1>2, ListStep
  <2> QED BY <1>o, <2>1 DEF Assembling
<1>3. CASE GetRoute(c)
  <2>1. /\ p.pc = "service" /\ q.pc = "split" /\ q.svc \in p.todo
        /\ q.todo = p.todo \ {q.svc} /\ q.splits = SplitsOf(Get(q.svc)) /\ q.weighted = <<>>
        /\ q.snap = p.snap /\ cache' = cache
    BY Zenon, <1>3, GetRouteStep
  <2>2. Named(q.weighted) = {}
    BY <2>1 DEF Named
  <2>3. Assembled(p.snap, {}) /\ \A r \in p.snap.routes : r.svc \notin p.todo
    BY <1>o, <2>1 DEF Assembling
  <2>4. SplitsOf(Get(q.svc)) \in Readable
    BY ReadsReadable
  <2>5. PartWay(q.svc, <<>>, SplitsOf(Get(q.svc)), SplitsOf(Get(q.svc)))
    BY <2>4, ReadableType, PartWayBegins
  <2>6. \E all \in Readable : PartWay(q.svc, q.weighted, q.splits, all)
    BY Zenon, <2>1, <2>4, <2>5
  <2> HIDE DEF p, q
  <2>7. ClustersOf(q.snap, q.svc) = {}
    BY <2>1, <2>3 DEF ClustersOf, Assembled
  <2>8. SplitsInHand(q)
    BY <2>1, <2>2, <2>3, <2>6, <2>7 DEF SplitsInHand
  <2> QED BY Zenon, <2>1, <2>2, <2>3, <2>8 DEF Assembling
<1>4. CASE ReadSplit(c)
  <2>1. cache' = cache
    BY <1>4 DEF ReadSplit
  <2> QED BY <1>4, <2>1, SplitAssembles
<1>5. CASE AddListener(c)
  <2>1. cache' = cache
    BY <1>5 DEF AddListener
  <2> QED BY <1>5, <2>1, ListenerAssembles
<1>6. CASE BuildFails(c) \/ SetSnapshot(c) \/ SetSnapshotFails(c) \/ Record(c)
  <2>1. /\ cache' = cache \/ (p.pc = "service" /\ cache' = p.snap)
        /\ \/ q = IdlePass
           \/ /\ q.pc = "record" /\ p.pc = "service"
              /\ q.snap = p.snap /\ q.todo = p.todo
    BY <1>6, FinalStep DEF Built
  <2>2. p.pc = "service" => Assembled(p.snap, {}) /\ \A r \in p.snap.routes : r.svc \notin p.todo
    BY <1>o DEF Assembling
  <2> QED BY <2>1, <2>2, EmptyIsAssembled DEF Assembling
<1> QED BY <1>1, <1>2, <1>3, <1>4, <1>5, <1>6 DEF PassStep

\* The invariant holds throughout: handlers store valid specs only, and neither
\* they nor sweeps touch a snapshot (handlePutRoute, Store.Set).
LEMMA AssemblyAlways == Spec => []AssemblyInv
<1>1. Init => AssemblyInv
  BY EmptyIsAssembled DEF Init, RoutingInit, AssemblyInv
<1>2. TypeOK /\ AssemblyInv /\ [Next]_vars => AssemblyInv'
  <2> SUFFICES ASSUME TypeOK, AssemblyInv, [Next]_vars PROVE AssemblyInv'
    OBVIOUS
  <2> DEFINE Valid(sp) == \A service \in RouteService :
                              sp[service] # NoSpec => Validate(sp[service])
  <2>1. ASSUME Valid(specs'), UNCHANGED <<pass, cache, lastSnapshot>> PROVE AssemblyInv'
    <3> HIDE DEF Assembling, Assembled
    <3> QED BY Zenon, <2>1 DEF AssemblyInv
  <2>2. Valid(specs) /\ specs \in [RouteService -> SpecInput \cup {NoSpec}]
    BY DEF AssemblyInv, TypeOK
  <2>3. CASE HandlerStep
    <3>1. UNCHANGED <<pass, cache, lastSnapshot>>
      BY ZenonT(30), <2>3 DEF HandlerStep, handleRegisterService, handleDeregisterInstance,
             handleHeartbeat, handlePutRoute, handleDeleteRoute, passVars
    <3>2. \/ specs' = specs
          \/ \E service \in RouteService : \E new :
                /\ specs' = [specs EXCEPT ![service] = new]
                /\ new # NoSpec => Validate(new)
      BY ZenonT(30), <2>3 DEF HandlerStep, handleRegisterService, handleDeregisterInstance,
             handleHeartbeat, handlePutRoute, handleDeleteRoute, PutRoute, DeleteRoute
    <3>3. Valid(specs')
      BY <2>2, <3>2
    <3> QED BY <2>1, <3>1, <3>3
  <2>4. CASE Time \/ UNCHANGED vars
    BY <2>1, <2>2, <2>4 DEF Time, passVars, vars
  <2>5. ASSUME NEW c \in Caller, Sweep(c) PROVE AssemblyInv'
    <3>1. /\ UNCHANGED <<specs, cache, lastSnapshot>>
          /\ \A d \in Caller \ {c} : pass'[d] = pass[d]
          /\ pass[c].pc = "idle" /\ pass'[c].pc = "swept"
          /\ pass'[c].snap = pass[c].snap /\ pass'[c].todo = pass[c].todo
      BY <2>5 DEF Sweep, TypeOK, Pass
    <3>2. Assembling(pass[c]) => Assembling(pass'[c])
      BY <3>1 DEF Assembling
    <3>3. \A d \in Caller : Assembling(pass'[d])
      BY Zenon, <3>1, <3>2 DEF AssemblyInv
    <3> QED BY Zenon, <3>1, <3>3 DEF AssemblyInv
  <2> QED BY <2>3, <2>4, <2>5, PassKeepsAssembly DEF Next
<1> QED BY <1>1, <1>2, TypeCorrect, PTL DEF Spec

\* The check of Snapshot.Consistent at the end of BuildSnapshot never fails: no
\* interleaving with handlers and other passes makes a pass build clusters
\* without load assignments or listeners without routes.
CheckNeverFails == \A c \in Caller : Built(c) => Consistent(pass[c].snap)

\* The Consistent check at the end of BuildSnapshot succeeds in every pass, so
\* only a library error makes a build fail (CheckNeverFails).
THEOREM ConsistencyNeverFails == Spec => []CheckNeverFails
<1>1. AssemblyInv => CheckNeverFails
  BY DEF AssemblyInv, Assembling, Assembled, Built, CheckNeverFails
<1> QED BY <1>1, AssemblyAlways, PTL

-----------------------------------------------------------------------------
\* The weights of published routes.

\* The weights that can be read sum to 100, up to what a uint32 cannot see
\* (Validate).
LEMMA ReadableSum ==
    ASSUME NEW all \in Readable
    PROVE  WeightSum(all) \in Nat /\ WrapsTo100(WeightSum(all))
<1>m. UintModulus \in Nat \ {0}
  BY RoutingAssumption
<1>1. WeightSum(all) \in Nat /\ WeightTotal(all) = WeightSum(all) % UintModulus
  BY ReadableType, TotalOfWeights
<1>2. CASE all = noVersionSplit
  BY <1>2, SumOfOne DEF WrapsTo100
<1>3. CASE WeightTotal(all) = 100
  <2>1. WeightSum(all) % UintModulus = 100
    BY <1>1, <1>3
  <2>2. WeightSum(all) < UintModulus => WeightSum(all) = 100
    BY <1>m, <1>1, <2>1
  <2> QED BY <1>m, <1>1, <2>1, <2>2 DEF WrapsTo100
<1>4. all = noVersionSplit \/ WeightTotal(all) = 100
  BY DEF Readable, Validate
<1> QED BY <1>1, <1>2, <1>3, <1>4

\* Whatever weights clients send, those of every published route sum to 100 or
\* wrap to it, while specs are written, replaced and deleted under the pass
\* (WeightsTotal100OrWrap, Validate).
THEOREM WeightsAlwaysTotal100OrWrap == Spec => []WeightsTotal100OrWrap
<1>1. AssemblyInv => WeightsTotal100OrWrap
  BY ReadableType, SumOfSpread, ReadableSum
     DEF AssemblyInv, Assembled, WeightsTotal100OrWrap
<1> QED BY <1>1, AssemblyAlways, PTL

\* No client sends weights that a uint32 cannot add.
SumsFit == \A spec \in SpecInput : WeightSum(spec.splits) < UintModulus

\* The weights of every published route sum to exactly 100.
WeightsTotal100 ==
    cache # NoSnapshot => \A r \in cache.routes : WeightSum(r.weighted) = 100

\* If no total wraps, the weights of every published route really sum to 100,
\* as the comment on Validate asks (WeightsTotal100).
THEOREM WeightsTotal100IfTheyFit == SumsFit => (Spec => []WeightsTotal100)
<1> SUFFICES ASSUME SumsFit PROVE Spec => []WeightsTotal100
  OBVIOUS
<1>1. \A all \in Readable : all = noVersionSplit \/ WeightSum(all) < UintModulus
  BY DEF Readable, SumsFit
<1>2. \A all \in Readable : WeightSum(all) = 100
  BY <1>1, SumOfOne, ReadableSum, RoutingAssumption DEF WrapsTo100
<1>3. AssemblyInv => WeightsTotal100
  BY <1>2, ReadableType, SumOfSpread DEF AssemblyInv, Assembled, WeightsTotal100
<1> QED BY <1>3, AssemblyAlways, PTL

-----------------------------------------------------------------------------
\* The debug page.

\* The snapshot of the debug page follows the specs, and its number was handed
\* out.
LastFollows ==
    lastSnapshot # NoSnapshot => lastSnapshot.version <= version /\ RoutesFollow(lastSnapshot)

\* Handlers, the clock and sweeps leave the snapshot of the debug page alone.
LEMMA EnvironmentKeepsLast ==
    ASSUME TypeOK, LastFollows, HandlerStep \/ Time \/ \E c \in Caller : Sweep(c)
    PROVE  LastFollows'
<1>1. version' = version /\ lastSnapshot' = lastSnapshot
  BY ZenonT(30) DEF HandlerStep, Time, Sweep, handleRegisterService,
         handleDeregisterInstance, handleHeartbeat, handlePutRoute, handleDeleteRoute, passVars
<1>2. CASE lastSnapshot # NoSnapshot
  <2>1. lastSnapshot \in Snapshot /\ lastSnapshot.version <= version /\ RoutesFollow(lastSnapshot)
    BY <1>2 DEF TypeOK, LastFollows
  <2> DEFINE snap == lastSnapshot
  <2>2. RoutesFollow(snap)'
    <3>1. \A s \in Snapshot : s.version <= version /\ RoutesFollow(s) => RoutesFollow(s)'
      BY FollowKept
    <3> QED BY <1>1, <2>1, <3>1 DEF RoutesFollow, Unaltered
  <2> QED BY <1>1, <2>1, <2>2 DEF LastFollows
<1>3. CASE lastSnapshot = NoSnapshot
  BY <1>1, <1>3 DEF LastFollows
<1> QED BY <1>2, <1>3

\* A pass leaves it alone too, or puts the snapshot it published in its place
\* (Reconcile).
LEMMA PassKeepsLast ==
    ASSUME TypeOK, FollowInv, LastFollows, NEW c \in Caller, PassStep(c)
    PROVE  LastFollows'
<1>1. UNCHANGED <<specs, specSince>>
  BY PassFrame
<1>2. version \in Nat /\ version' \in {version, version + 1}
  BY ZenonT(30) DEF TypeOK, PassStep, NextVersion, List, GetRoute, ReadSplit, AddListener,
         BuildFails, SetSnapshot, SetSnapshotFails, Record
<1>3. \A svc : SpecChanged(svc)' = SpecChanged(svc) /\ Get(svc)' = Get(svc)
  BY <1>1 DEF SpecChanged, Get
<1>4. pass[c].snap \in Snapshot /\ pass[c].snap.version <= version /\ RoutesFollow(pass[c].snap)
  BY PassFacts DEF FollowInv
<1>5. lastSnapshot' # NoSnapshot =>
          /\ lastSnapshot' \in Snapshot /\ lastSnapshot'.version <= version
          /\ RoutesFollow(lastSnapshot')
  <2>1. lastSnapshot # NoSnapshot => lastSnapshot \in Snapshot
    BY DEF TypeOK
  <2>2. CASE lastSnapshot' = lastSnapshot
    BY Zenon, <2>1, <2>2 DEF LastFollows
  <2>3. CASE lastSnapshot' = pass[c].snap
    BY Zenon, <1>4, <2>3
  <2> QED BY <2>2, <2>3, LastStep
<1>6. lastSnapshot' \in Snapshot => lastSnapshot'.version \in Nat
  BY DEF Snapshot
<1>7. lastSnapshot' # NoSnapshot => lastSnapshot'.version <= version'
  BY <1>2, <1>5, <1>6
<1> QED BY <1>3, <1>5, <1>7 DEF LastFollows, RoutesFollow, Unaltered

\* So it holds throughout.
LEMMA LastAlwaysFollows == Spec => []LastFollows
<1>1. Init => LastFollows
  BY DEF Init, LastFollows
<1>2. TypeOK /\ FollowInv /\ LastFollows /\ [Next]_vars => LastFollows'
  <2> SUFFICES ASSUME TypeOK, FollowInv, LastFollows, [Next]_vars PROVE LastFollows'
    OBVIOUS
  <2>1. CASE UNCHANGED vars
    <3>1. UNCHANGED <<specs, specSince, version, lastSnapshot>>
      BY <2>1 DEF vars
    <3>2. \A svc : SpecChanged(svc)' = SpecChanged(svc) /\ Get(svc)' = Get(svc)
      BY <3>1 DEF SpecChanged, Get
    <3> QED BY <3>1, <3>2 DEF LastFollows, RoutesFollow, Unaltered
  <2> QED BY <2>1, EnvironmentKeepsLast, PassKeepsLast DEF Next
<1> QED BY <1>1, <1>2, TypeCorrect, FollowAlways, PTL DEF Spec

\* A service with a route in an assembled snapshot has at least one cluster
\* (Validate refuses a spec without splits).
LEMMA RoutedHasCluster ==
    ASSUME NEW snap, Assembled(snap, {}), NEW r \in snap.routes
    PROVE  ClustersOf(snap, r.svc) # {}
<1>1. PICK all \in Readable : r.weighted = Spread(r.svc, all)
  BY DEF Assembled
<1>2. 1 \in DOMAIN all
  BY ReadableType
<1>3. r.weighted[1].cluster \in Named(r.weighted)
  BY <1>1, <1>2 DEF Named, Spread
<1> QED BY <1>3 DEF Assembled

\* What the debug page shows of a service, whichever step runs between its two
\* reads (handleDebugConfig).
LEMMA DebugGap ==
    ASSUME TypeOK, AssemblyInv, lastSnapshot # NoSnapshot, NEW service \in ServiceName,
           NEW spec, NEW since,
           since < lastSnapshot.version =>
               \A r \in lastSnapshot.routes :
                   r.svc = service => r.weighted = Spread(service, SplitsOf(spec))
    PROVE  LET answer == handleDebugConfig(service, lastSnapshot, spec)
               splits == SplitsOf(answer.spec)
           IN  /\ answer.clusters = answer.endpoints
               /\ answer.hasRoute <=> answer.hasListener
               /\ answer.hasRoute <=> answer.clusters # {}
               /\ (answer.hasRoute /\ since < answer.version) =>
                     answer.clusters = {clusterName(service, splits[i].version) :
                                           i \in DOMAIN splits}
<1> DEFINE snap == lastSnapshot
           answer == handleDebugConfig(service, snap, spec)
           splits == SplitsOf(spec)
<1>1. Assembled(snap, {})
  BY DEF AssemblyInv
<1>2. /\ answer.version = snap.version
      /\ answer.clusters = ClustersOf(snap, service)
      /\ answer.endpoints = {cl \in snap.assignments : cl.svc = service}
      /\ answer.hasRoute = \E r \in snap.routes : r.svc = service
      /\ answer.hasListener = \E l \in snap.listeners : l.svc = service
      /\ answer.spec = spec
  BY Zenon DEF handleDebugConfig, ClustersOf
<1> HIDE DEF answer, snap
<1>3. answer.clusters = answer.endpoints
  BY Zenon, <1>1, <1>2 DEF Assembled, Consistent, ClustersOf
<1>4. answer.hasRoute <=> answer.hasListener
  <2>1. {l.svc : l \in snap.listeners} = {r.svc : r \in snap.routes}
    BY <1>1 DEF Assembled, Consistent
  <2>2. (\E r \in snap.routes : r.svc = service) <=> \E l \in snap.listeners : l.svc = service
    BY <2>1
  <2> QED BY Zenon, <1>2, <2>2
<1>5. answer.hasRoute <=> answer.clusters # {}
  <2>1. (\E r \in snap.routes : r.svc = service) => ClustersOf(snap, service) # {}
    BY <1>1, RoutedHasCluster
  <2>2. ClustersOf(snap, service) # {} => \E r \in snap.routes : r.svc = service
    BY <1>1 DEF Assembled, ClustersOf
  <2> QED BY Zenon, <1>2, <2>1, <2>2
<1>6. ASSUME answer.hasRoute, since < snap.version
      PROVE  answer.clusters = {clusterName(service, splits[i].version) : i \in DOMAIN splits}
  <2>1. PICK r \in snap.routes : r.svc = service
    BY Zenon, <1>2, <1>6
  <2>2. r.weighted = Spread(service, splits)
    BY <1>6, <2>1 DEF snap
  <2>3. answer.clusters = Named(Spread(service, splits))
    BY Zenon, <1>1, <1>2, <2>1, <2>2 DEF Assembled
  <2>4. Named(Spread(service, splits))
          = {clusterName(service, splits[i].version) : i \in DOMAIN splits}
    BY DEF Named, Spread, Share
  <2> QED BY <2>3, <2>4
<1> QED BY Zenon, <1>2, <1>3, <1>4, <1>5, <1>6 DEF answer, snap

\* The debug page shows a service whole or not at all and agrees with the spec
\* it shows beside it, unless that spec changed since the snapshot's number was
\* taken (DebugGapExplained).
THEOREM DebugGapAlwaysExplained == Spec => DebugGapExplained
<1> DEFINE A == lastSnapshot # NoSnapshot =>
                  \A service \in ServiceName :
                      LET answer == handleDebugConfig(service, lastSnapshot, Get(service)')
                          splits == SplitsOf(answer.spec)
                      IN  /\ answer.clusters = answer.endpoints
                          /\ answer.hasRoute <=> answer.hasListener
                          /\ answer.hasRoute <=> answer.clusters # {}
                          /\ (answer.hasRoute /\ SpecChanged(service)' < answer.version) =>
                                answer.clusters = {clusterName(service, splits[i].version) :
                                                      i \in DOMAIN splits}
<1>1. ASSUME TypeOK, AssemblyInv, LastFollows, [Next]_vars PROVE A
  <2> SUFFICES ASSUME lastSnapshot # NoSnapshot, NEW service \in ServiceName
               PROVE  SpecChanged(service)' < lastSnapshot.version =>
                         \A r \in lastSnapshot.routes :
                             r.svc = service => r.weighted = Spread(service, SplitsOf(Get(service)'))
    BY ZenonT(30), <1>1, DebugGap
  <2>1. /\ lastSnapshot \in Snapshot /\ lastSnapshot.version <= version
        /\ RoutesFollow(lastSnapshot)
    BY <1>1 DEF TypeOK, LastFollows
  <2>2. SpecChanged(service)' < lastSnapshot.version =>
            Unaltered(lastSnapshot, service) /\ Get(service)' = Get(service)
    <3>1. CASE UNCHANGED <<specs, specSince>>
      BY <3>1 DEF SpecChanged, Get, Unaltered
    <3>2. CASE HandlerStep \/ Time \/ \E c \in Caller : Sweep(c)
      BY <1>1, <2>1, <3>2, UnalteredKept
    <3>3. UNCHANGED vars => UNCHANGED <<specs, specSince>>
      BY DEF vars
    <3>4. ASSUME NEW c \in Caller, PassStep(c) PROVE UNCHANGED <<specs, specSince>>
      BY <1>1, <3>4, PassFrame
    <3> QED BY <1>1, <3>1, <3>2, <3>3, <3>4 DEF Next
  <2> QED BY <2>1, <2>2 DEF RoutesFollow
<1> QED BY <1>1, TypeCorrect, AssemblyAlways, LastAlwaysFollows, PTL DEF Spec, DebugGapExplained

=============================================================================
