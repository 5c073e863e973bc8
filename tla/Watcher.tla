------------------------------- MODULE Watcher -------------------------------
(***************************************************************************)
(* The Kubernetes watcher (cmd/k8s-watcher/main.go), which mirrors the     *)
(* pods behind a Service into the registry over HTTP.                      *)
(*                                                                         *)
(* An HTTP call is sent, served and answered in separate steps.  It can be *)
(* refused, it can time out before or after the control plane has served   *)
(* it, and a request given up on can still arrive later, after newer ones. *)
(* The watcher and the control plane can restart, each losing its memory,  *)
(* and reading the Endpoints object can fail.                              *)
(*                                                                         *)
(* The registry holds the age of each instance's last heartbeat instead of *)
(* a time stamp: discovery looks at nothing else (the theorem              *)
(* DiscoveryIgnoresSweep of StateProofs shows that the sweep does not      *)
(* matter).  Ages are in poll intervals and stop growing once stale.  Time *)
(* passes while the watcher sleeps and while a call times out.             *)
(***************************************************************************)
EXTENDS Integers, FiniteSets

CONSTANTS
    Pod,         \* instance ids: the names of pods
    IP,          \* pod addresses
    Gone,        \* marks a pod that is not among the ready addresses
    NoInstance,  \* marks a missing registry entry
    NoCall,      \* marks that no HTTP call is outstanding
    StaleAfter,  \* the staleness of discovery, in poll intervals
    Timeout,     \* the timeout of the HTTP client, in poll intervals
    MaxMoves,    \* bound: changes of the Endpoints object
    MaxFaults,   \* bound: faults
    MaxLate      \* bound: requests given up on and still on their way

VARIABLES
    pods,        \* the ready address of each pod in the Endpoints object
    registry,    \* the control plane's instances of the watched service
    registered,  \* watcher.registered
    at,          \* where reconcile is
    current,     \* the Endpoints object as reconcile read it
    todo,        \* what is left of the loop reconcile is in
    call,        \* the outstanding HTTP call
    late,        \* requests given up on and still on their way
    orphaned,    \* history: an instance may exist that the watcher forgot
    moves,       \* how often the Endpoints object changed
    faults       \* how many faults happened

watcherVars == <<registered, at, current, todo>>
boundVars == <<moves, faults>>
vars == <<pods, registry, registered, at, current, todo, call, late, orphaned, moves, faults>>

Age == 0 .. StaleAfter + 1
Instance == [address : IP, age : Age]
Request == [op : {"register", "heartbeat", "deregister"}, pod : Pod, address : IP \cup {Gone}]
Call == [req : Request, status : {"sent", "ok", "error"}]

ASSUME WatcherAssumption ==
    /\ StaleAfter \in Nat \ {0}
    /\ {Timeout, MaxMoves, MaxFaults, MaxLate} \subseteq Nat
    /\ Gone \notin IP
    /\ NoInstance \notin Instance
    /\ NoCall \notin Call
    /\ IsFiniteSet(Pod)

Init ==
    /\ pods \in [Pod -> IP \cup {Gone}]
    /\ registry = [p \in Pod |-> NoInstance]
    /\ registered = {}
    /\ at = "list"
    /\ current = [p \in Pod |-> Gone]
    /\ todo = {}
    /\ call = NoCall
    /\ late = {}
    /\ orphaned = FALSE
    /\ moves = 0
    /\ faults = 0

\* The registry after n poll intervals without a call.
Aged(n) ==
    [p \in Pod |->
        IF registry[p] = NoInstance THEN NoInstance
        ELSE [registry[p] EXCEPT !.age = IF @ + n > StaleAfter THEN StaleAfter + 1 ELSE @ + n]]

\* Discovery hands the instance out.
Discoverable(p) == registry[p] # NoInstance /\ registry[p].age <= StaleAfter

-----------------------------------------------------------------------------
\* The control plane.

\* The registry after a request: handleRegisterService, handleHeartbeat and
\* handleDeregisterInstance.
After(req) ==
    [registry EXCEPT ![req.pod] =
        CASE req.op = "register" -> [address |-> req.address, age |-> 0]
          [] req.op = "heartbeat" /\ @ # NoInstance -> [@ EXCEPT !.age = 0]
          [] req.op = "heartbeat" /\ @ = NoInstance -> NoInstance
          [] req.op = "deregister" -> NoInstance]

\* The status: 404 for a heartbeat of an instance that is not there.
Answer(req) ==
    IF req.op = "heartbeat" /\ registry[req.pod] = NoInstance THEN "error" ELSE "ok"

\* The outstanding request arrives and is served.
Serve ==
    /\ call # NoCall /\ call.status = "sent"
    /\ registry' = After(call.req)
    /\ call' = [call EXCEPT !.status = Answer(call.req)]
    /\ UNCHANGED <<pods, watcherVars, late, orphaned, boundVars>>

\* A request given up on arrives and is served; nobody reads the answer.
ServeLate(req) ==
    /\ req \in late
    /\ registry' = After(req)
    /\ late' = late \ {req}
    /\ orphaned' = (orphaned \/ req.op = "register")
    /\ UNCHANGED <<pods, watcherVars, call, boundVars>>

-----------------------------------------------------------------------------
\* The watcher.

send(op, p) == call' = [req |-> [op |-> op, pod |-> p, address |-> current[p]], status |-> "sent"]

\* reconcile reads the Endpoints object.
List ==
    /\ at = "list"
    /\ current' = pods
    /\ todo' = {p \in Pod : pods[p] # Gone}
    /\ at' = "register"
    /\ UNCHANGED <<pods, registry, registered, call, late, orphaned, boundVars>>

\* The first call for a pod that is there.
Visit(p) ==
    /\ at = "register" /\ p \in todo
    /\ call = NoCall
    /\ send(IF p \in registered THEN "heartbeat" ELSE "register", p)
    /\ UNCHANGED <<pods, registry, watcherVars, late, orphaned, boundVars>>

\* The loop goes on to the next pod.
Done(p) == call' = NoCall /\ todo' = todo \ {p}

\* Mutant of HeartbeatReturns: a failed heartbeat is only logged.
HeartbeatReturns_NoRetry(p) ==
    /\ call.req.op = "heartbeat"
    /\ Done(p)
    /\ UNCHANGED registered

\* A heartbeat that failed is followed by a registration.
HeartbeatReturns(p) ==
    /\ call.req.op = "heartbeat"
    /\ IF call.status = "ok"
       THEN Done(p)
       ELSE send("register", p) /\ UNCHANGED todo
    /\ UNCHANGED registered

RegisterReturns(p) ==
    /\ call.req.op = "register"
    /\ Done(p)
    /\ registered' = IF call.status = "ok" THEN registered \cup {p} ELSE registered

\* Mutant of DeregisterReturns: the instance is forgotten although the call failed.
DeregisterReturns_Forgets(p) ==
    /\ call.req.op = "deregister"
    /\ Done(p)
    /\ registered' = registered \ {p}

DeregisterReturns(p) ==
    /\ call.req.op = "deregister"
    /\ Done(p)
    /\ registered' = IF call.status = "ok" THEN registered \ {p} ELSE registered

\* The call has an answer or an error.
Return ==
    /\ call # NoCall /\ call.status # "sent"
    /\ \/ HeartbeatReturns(call.req.pod)
       \/ RegisterReturns(call.req.pod)
       \/ DeregisterReturns(call.req.pod)
    /\ UNCHANGED <<pods, registry, at, current, late, orphaned, boundVars>>

\* Mutant of StartDeregister: it visits every instance that is not listed.
StartDeregister_All ==
    /\ at = "register" /\ todo = {}
    /\ at' = "deregister"
    /\ todo' = {p \in Pod : current[p] = Gone}
    /\ UNCHANGED <<pods, registry, registered, current, call, late, orphaned, boundVars>>

\* The second loop, over the instances the watcher remembers.
StartDeregister ==
    /\ at = "register" /\ todo = {}
    /\ at' = "deregister"
    /\ todo' = {p \in registered : current[p] = Gone}
    /\ UNCHANGED <<pods, registry, registered, current, call, late, orphaned, boundVars>>

VisitGone(p) ==
    /\ at = "deregister" /\ p \in todo
    /\ call = NoCall
    /\ send("deregister", p)
    /\ UNCHANGED <<pods, registry, watcherVars, late, orphaned, boundVars>>

\* reconcile returns, and main sleeps for a poll interval.
Finish ==
    /\ at = "deregister" /\ todo = {}
    /\ at' = "sleep"
    /\ UNCHANGED <<pods, registry, registered, current, todo, call, late, orphaned, boundVars>>

Sleep ==
    /\ at = "sleep"
    /\ at' = "list"
    /\ registry' = Aged(1)
    /\ UNCHANGED <<pods, registered, current, todo, call, late, orphaned, boundVars>>

WatcherStep ==
    \/ List
    \/ \E p \in Pod : Visit(p) \/ VisitGone(p)
    \/ Return
    \/ StartDeregister
    \/ Finish
    \/ Sleep

-----------------------------------------------------------------------------
\* The environment: pods come and go, and things fail.

PodChanges(p) ==
    /\ moves < MaxMoves
    /\ moves' = moves + 1
    /\ \E address \in (IP \cup {Gone}) \ {pods[p]} : pods' = [pods EXCEPT ![p] = address]
    /\ UNCHANGED <<registry, watcherVars, call, late, orphaned, faults>>

Fault ==
    /\ faults < MaxFaults
    /\ faults' = faults + 1
    /\ UNCHANGED <<pods, moves>>

\* The Endpoints object cannot be read.
ListFails ==
    /\ Fault
    /\ at = "list"
    /\ at' = "sleep"
    /\ UNCHANGED <<registry, registered, current, todo, call, late, orphaned>>

\* The call fails without reaching the registry.
Refuse ==
    /\ Fault
    /\ call # NoCall /\ call.status = "sent"
    /\ call' = [call EXCEPT !.status = "error"]
    /\ UNCHANGED <<registry, watcherVars, late, orphaned>>

\* The request is given up on: it is lost, or arrives late.
GiveUp ==
    \/ UNCHANGED late
    \/ Cardinality(late) < MaxLate /\ late' = late \cup {call.req}

\* The client's timeout ends before the request is served.
TimesOut ==
    /\ Fault
    /\ call # NoCall /\ call.status = "sent"
    /\ GiveUp
    /\ call' = [call EXCEPT !.status = "error"]
    /\ registry' = Aged(Timeout)
    /\ UNCHANGED <<watcherVars, orphaned>>

\* The request was served and its answer is lost.
AnswerLost ==
    /\ Fault
    /\ call # NoCall /\ call.status = "ok"
    /\ call' = [call EXCEPT !.status = "error"]
    /\ registry' = Aged(Timeout)
    /\ orphaned' = (orphaned \/ call.req.op = "register")
    /\ UNCHANGED <<watcherVars, late>>

\* The watcher restarts and remembers nothing.
WatcherRestarts ==
    /\ Fault
    /\ registered' = {} /\ at' = "list" /\ todo' = {}
    /\ current' = [p \in Pod |-> Gone]
    /\ call' = NoCall
    /\ IF call # NoCall /\ call.status = "sent" THEN GiveUp ELSE UNCHANGED late
    /\ orphaned' = TRUE
    /\ UNCHANGED registry

\* The control plane restarts with an empty registry.
ControlPlaneRestarts ==
    /\ Fault
    /\ registry' = [p \in Pod |-> NoInstance]
    /\ UNCHANGED <<watcherVars, call, late, orphaned>>

Environment ==
    \/ \E p \in Pod : PodChanges(p)
    \/ \E req \in late : ServeLate(req)
    \/ ListFails
    \/ Refuse
    \/ TimesOut
    \/ AnswerLost
    \/ WatcherRestarts
    \/ ControlPlaneRestarts

Next == WatcherStep \/ Serve \/ Environment

Spec == Init /\ [][Next]_vars

\* The watcher keeps running and the control plane serves what reaches it.
FairSpec == Spec /\ WF_vars(WatcherStep) /\ WF_vars(Serve)

-----------------------------------------------------------------------------
\* Properties.

\* The state is well formed; a call is only outstanding for the pod a loop is
\* at, and the second loop only visits instances the watcher remembers and did
\* not find in the Endpoints object (reconcile).
TypeOK ==
    /\ pods \in [Pod -> IP \cup {Gone}]
    /\ registry \in [Pod -> Instance \cup {NoInstance}]
    /\ registered \subseteq Pod
    /\ at \in {"list", "register", "deregister", "sleep"}
    /\ current \in [Pod -> IP \cup {Gone}]
    /\ todo \subseteq Pod
    /\ call \in Call \cup {NoCall}
    /\ call # NoCall => call.req.pod \in todo
    /\ at = "deregister" => \A p \in todo : p \in registered /\ current[p] = Gone
    /\ late \subseteq Request
    /\ orphaned \in BOOLEAN
    /\ moves \in 0 .. MaxMoves
    /\ faults \in 0 .. MaxFaults

\* Every instance in the registry is one the watcher remembers, or is about to
\* once it reads the answer, unless the watcher restarted or a registration
\* was served whose answer it never saw: failed calls and restarts of the
\* control plane leave no instance behind that nobody will deregister.
NothingForgotten ==
    ~ orphaned =>
        \A p \in Pod : registry[p] # NoInstance =>
            \/ p \in registered
            \/ call # NoCall /\ call.req.op = "register" /\ call.req.pod = p /\ call.status = "ok"

\* Once pods stop changing and faults stop happening, discovery hands out
\* exactly the pods that are there, whatever was lost, repeated or delayed
\* before: instances nobody deregisters go stale, and those the control plane
\* lost are registered again ("heartbeat failed, re-registering").
DiscoveryConverges ==
    <>[](\A p \in Pod : Discoverable(p) <=> pods[p] # Gone)

\* If no instance was forgotten, the registry itself ends without an entry for
\* any pod that is gone: a failed deregistration is retried at every poll.
ScaleDownReflected ==
    []~ orphaned => <>[](\A p \in Pod : pods[p] = Gone => registry[p] = NoInstance)

\* Once pods stop changing, every pod is registered under its address:
\* reconcile "lists the current ready pod IPs behind the watched Service and
\* converges the registry to match".
AddressesConverge ==
    <>[](\A p \in Pod : pods[p] # Gone =>
            registry[p] # NoInstance /\ registry[p].address = pods[p])

=============================================================================
