------------------------------ MODULE Registry ------------------------------
(***************************************************************************)
(* The in-memory service registry (internal/registry/registry.go).         *)
(*                                                                         *)
(* Every operation of the registry runs under one RWMutex, so each is one  *)
(* atomic step.  The two-level Go map is modelled as a total function that *)
(* holds NoInstance where the map has no entry: an inner map that is empty *)
(* and one that was never created cannot be told apart by any operation.   *)
(*                                                                         *)
(* A name is a non-empty sequence of the parts between its slashes, so     *)
(* joining two strings with "/" is concatenating two sequences: the name   *)
(* "default" is <<"default">>, and "a/b" is <<"a", "b">>.                  *)
(***************************************************************************)
EXTENDS Integers, Sequences

CONSTANTS
    Namespace,            \* the namespaces callers use
    Service,              \* the service names callers use
    InstanceID,           \* the instance IDs callers use
    Version,              \* the values of Instance.Version
    Address,              \* the values of Instance.Address
    NoInstance,           \* marks a missing map entry
    StaleAfter,           \* Config.StaleAfter, the argument of SweepStale
    DiscoveryStaleAfter,  \* the constant xds.staleAfter and api.defaultStaleAfter
    MaxTime               \* bound: the clock stops here

VARIABLES
    svcs,  \* InMemory.svcs
    now    \* what time.Now() returns

registryVars == <<svcs, now>>

\* Mutant of key: the namespace is left out.
key_NameOnly(ns, name) == name

\* key joins namespace and name with a slash.
key(ns, name) == ns \o name

Key == {key(ns, name) : ns \in Namespace, name \in Service}

\* A registered Instance.  RegisteredAt, Port, Protocol and Metadata are
\* copied through and never decided upon.
Instance == [version : Version, address : Address, healthy : BOOLEAN,
             lastHeartbeat : 0 .. MaxTime]

ASSUME RegistryAssumption ==
    /\ MaxTime \in Nat
    /\ StaleAfter \in Nat
    /\ DiscoveryStaleAfter \in Nat
    /\ Namespace \subseteq Seq(STRING) \ {<<>>}
    /\ Service \subseteq Seq(STRING) \ {<<>>}
    /\ NoInstance \notin Instance

-----------------------------------------------------------------------------
\* What readers see.

Registered(k, id) == svcs[k][id] # NoInstance

\* The instance missed its heartbeats for longer than staleAfter; a
\* staleAfter of zero switches the test off.
Lapsed(inst, staleAfter) ==
    /\ staleAfter > 0
    /\ now - inst.lastHeartbeat > staleAfter

\* The instances GetService returns; it returns ErrNotFound when there are none.
GetService(ns, name) ==
    {id \in InstanceID : Registered(key(ns, name), id)}

\* Mutant of HealthyInstances: an instance exactly staleAfter old is dropped.
HealthyInstances_OneEarly(ns, name, staleAfter) ==
    {id \in InstanceID :
        /\ Registered(key(ns, name), id)
        /\ svcs[key(ns, name)][id].healthy
        /\ now - svcs[key(ns, name)][id].lastHeartbeat < staleAfter}

\* The instances HealthyInstances returns.
HealthyInstances(ns, name, staleAfter) ==
    {id \in InstanceID :
        /\ Registered(key(ns, name), id)
        /\ svcs[key(ns, name)][id].healthy
        /\ ~ Lapsed(svcs[key(ns, name)][id], staleAfter)}

\* ListServices scans every key for the prefix "ns/" and returns what
\* follows it, skipping services that have no instance left.
ListServices(ns) ==
    LET matching == {k \in Key : /\ Len(k) > Len(ns)
                                 /\ SubSeq(k, 1, Len(ns)) = ns
                                 /\ \E id \in InstanceID : Registered(k, id)}
    IN  {SubSeq(k, Len(ns) + 1, Len(k)) : k \in matching}

-----------------------------------------------------------------------------
\* The operations.  Requests with an empty service name or instance ID are
\* refused before the registry changes and take no step.

\* Mutant of Register: it stamps the time the instance will go stale.
Register_StampsExpiry(ns, name, id, version, address) ==
    /\ svcs' = [svcs EXCEPT ![key(ns, name)][id] =
                   [version |-> version, address |-> address,
                    healthy |-> TRUE, lastHeartbeat |-> now + StaleAfter]]
    /\ UNCHANGED now

Register(ns, name, id, version, address) ==
    /\ svcs' = [svcs EXCEPT ![key(ns, name)][id] =
                   [version |-> version, address |-> address,
                    healthy |-> TRUE, lastHeartbeat |-> now]]
    /\ UNCHANGED now

Deregister(ns, name, id) ==
    /\ svcs' = [svcs EXCEPT ![key(ns, name)][id] = NoInstance]
    /\ UNCHANGED now

\* A heartbeat for an instance that is not there returns ErrNotFound and
\* takes no step.
Heartbeat(ns, name, id) ==
    /\ Registered(key(ns, name), id)
    /\ svcs' = [svcs EXCEPT ![key(ns, name)][id] =
                   [@ EXCEPT !.lastHeartbeat = now, !.healthy = TRUE]]
    /\ UNCHANGED now

\* Mutant of SweptOut: a sweep that also takes an instance whose last
\* heartbeat is exactly StaleAfter old.
SweptOut_OneEarly(k, id) ==
    /\ Registered(k, id)
    /\ svcs[k][id].healthy
    /\ StaleAfter > 0
    /\ now - svcs[k][id].lastHeartbeat >= StaleAfter

\* The sweep marks k/id unhealthy.
SweptOut(k, id) ==
    /\ Registered(k, id)
    /\ svcs[k][id].healthy
    /\ Lapsed(svcs[k][id], StaleAfter)

SweepStale ==
    /\ svcs' = [k \in Key |-> [id \in InstanceID |->
                   IF SweptOut(k, id)
                   THEN [svcs[k][id] EXCEPT !.healthy = FALSE]
                   ELSE svcs[k][id]]]
    /\ UNCHANGED now

Tick ==
    /\ now < MaxTime
    /\ now' = now + 1
    /\ UNCHANGED svcs

RegistryInit ==
    /\ svcs = [k \in Key |-> [id \in InstanceID |-> NoInstance]]
    /\ now = 0

RegisterAny(ns) ==
    \E name \in Service, id \in InstanceID, version \in Version, address \in Address :
        Register(ns, name, id, version, address)

DeregisterAny(ns) ==
    \E name \in Service, id \in InstanceID : Deregister(ns, name, id)

HeartbeatAny(ns) ==
    \E name \in Service, id \in InstanceID : Heartbeat(ns, name, id)

RegistryNext ==
    \/ \E ns \in Namespace : RegisterAny(ns)
    \/ \E ns \in Namespace : DeregisterAny(ns)
    \/ \E ns \in Namespace : HeartbeatAny(ns)
    \/ SweepStale
    \/ Tick

RegistrySpec == RegistryInit /\ [][RegistryNext]_registryVars

-----------------------------------------------------------------------------
\* Properties.

\* Every entry of the map is an instance or missing, and the clock is bounded.
RegistryTypeOK ==
    /\ svcs \in [Key -> [InstanceID -> Instance \cup {NoInstance}]]
    /\ now \in 0 .. MaxTime

\* An instance carries Healthy = false only while its last heartbeat really is
\* older than StaleAfter: whatever order sweeps, heartbeats and registrations
\* come in, no sweep leaves behind a mark that a later heartbeat should have
\* cleared (Register, Heartbeat, SweepStale).
UnhealthyIsStale ==
    \A k \in Key, id \in InstanceID :
        (Registered(k, id) /\ ~ svcs[k][id].healthy)
            => Lapsed(svcs[k][id], StaleAfter)

\* What one namespace shows of itself.
NamespaceView(ns) ==
    <<ListServices(ns),
      [name \in Service |-> [id \in InstanceID |-> svcs[key(ns, name)][id]]]>>

\* One namespace continues the other behind a slash, as "a/b" continues "a".
Nested(ns, other) ==
    \A i \in DOMAIN ns \cap DOMAIN other : ns[i] = other[i]

\* A registration, deregistration or heartbeat made in one namespace changes
\* nothing another namespace can list or get, unless one of the two is nested
\* in the other (key, ListServices).  Keying on namespace + "/" + name does
\* no more than that: namespace "a" with service "b/c" and namespace "a/b"
\* with service "c" share an entry.
NamespaceIsolation ==
    [][\A ns \in Namespace :
          (RegisterAny(ns) \/ DeregisterAny(ns) \/ HeartbeatAny(ns))
              => \A other \in Namespace :
                    ~ Nested(ns, other)
                        => NamespaceView(other)' = NamespaceView(other)]_registryVars

=============================================================================
