-------------------------------- MODULE Mesh --------------------------------
(***************************************************************************)
(* From the registry to an Envoy: passes publish snapshots, the xDS server *)
(* pushes them, the Envoy applies and acknowledges them, streams break,    *)
(* and the control plane and the Envoy restart.                            *)
(*                                                                         *)
(* A pass is abstracted to its promise: a snapshot lists no instance that  *)
(* was out all the time since its number was taken (RemovalReflected of    *)
(* Reconciler) and every instance that was in all that time                *)
(* (AdditionReflected, for a service whose route leaves no version out).   *)
(* The four resource types of a snapshot carry one version and are one     *)
(* resource here.  Envoys do not affect each other; there is one.          *)
(*                                                                         *)
(* The version string is the number of the pass, which is all that the     *)
(* xDS protocol compares.  Numbers of an earlier process come back: the    *)
(* counter restarts at zero.  A process makes MaxVersion passes; the last  *)
(* stands for the passes that go on for ever once the registry has         *)
(* settled.  Nothing changes, fails or restarts after it but the Envoy and *)
(* its stream, and no Envoy holds its number from an earlier process.      *)
(***************************************************************************)
EXTENDS Naturals

CONSTANTS
    MeshInstance,  \* the instances of the mesh
    MaxVersion,    \* bound: the passes of one process
    None           \* marks a missing snapshot, and a pass that has no number

VARIABLES
    live,     \* the instances the registry holds to be healthy
    version,  \* Reconciler.version
    number,   \* the number of the pass under way
    since,    \* instances that were live at some time since it was taken
    steady,   \* instances that were live all the time since it was taken
    served,   \* what the snapshot cache serves
    stream,   \* the ADS stream of the Envoy
    push,     \* the response on its way to the Envoy
    held,     \* the snapshot the Envoy applied last
    mine      \* history: held was published by the running process

passVars == <<version, number, since, steady>>
envoyVars == <<stream, push, held, mine>>
meshVars == <<live, version, number, since, steady, served, stream, push, held, mine>>

Number == 1 .. MaxVersion
Snapshot == [number : Number, ids : SUBSET MeshInstance]

ASSUME MeshAssumption ==
    /\ MaxVersion \in Nat \ {0}
    /\ None \notin Number \cup Snapshot

MeshInit ==
    /\ live = {}
    /\ version = 0 /\ number = None /\ since = {} /\ steady = {}
    /\ served = None
    /\ stream = "down" /\ push = None
    /\ held = None /\ mine = FALSE

\* The last pass has not begun.
BeforeLast == version < MaxVersion

\* Instances register and heartbeat, or deregister and go stale.
Change ==
    /\ BeforeLast
    /\ live' \in SUBSET MeshInstance \ {live}
    /\ since' = since \cup live'
    /\ steady' = steady \cap live'
    /\ UNCHANGED <<version, number, served, envoyVars>>

-----------------------------------------------------------------------------
\* A pass.

\* Mutant of NextVersion: the counter is read and not advanced.
NextVersion_LoadsOnly ==
    /\ number = None
    /\ BeforeLast
    /\ number' = version + 1
    /\ since' = live /\ steady' = live
    /\ UNCHANGED <<live, version, served, envoyVars>>

\* version.Add(1).
NextVersion ==
    /\ number = None
    /\ BeforeLast
    /\ version' = version + 1
    /\ number' = version'
    /\ since' = live /\ steady' = live
    /\ UNCHANGED <<live, served, envoyVars>>

\* The pass ends in an error before it replaces the snapshot, and its number
\* is spent; one that fails after that has taken the step SetSnapshot.
PassFails ==
    /\ number # None
    /\ BeforeLast
    /\ number' = None
    /\ UNCHANGED <<live, version, since, steady, served, envoyVars>>

\* Mutant of Respond: a watch is answered only while the Envoy has nothing.
Respond_FirstOnly(snap) ==
    IF stream = "watch" /\ held = None
    THEN stream' = "push" /\ push' = snap
    ELSE UNCHANGED <<stream, push>>

\* The cache answers the open watch if the version differs from the one the
\* Envoy reported.
Respond(snap) ==
    IF stream = "watch" /\ (held = None \/ held.number # snap.number)
    THEN stream' = "push" /\ push' = snap
    ELSE UNCHANGED <<stream, push>>

\* SetSnapshot replaces the snapshot and answers the watch.
SetSnapshot ==
    /\ number # None
    /\ \E ids \in SUBSET since :
          /\ steady \subseteq ids
          /\ served' = [number |-> number, ids |-> ids]
    /\ Respond(served')
    /\ number' = None
    /\ UNCHANGED <<live, version, since, steady, held, mine>>

-----------------------------------------------------------------------------
\* The Envoy and its stream.

\* The Envoy opens a stream and asks, with the version it holds.
Connect ==
    /\ stream = "down"
    /\ stream' = "request"
    /\ UNCHANGED <<live, passVars, served, push, held, mine>>

\* The cache answers a request at once if it can, or keeps a watch.
CreateWatch ==
    /\ stream = "request"
    /\ IF served # None /\ (held = None \/ held.number # served.number)
       THEN stream' = "push" /\ push' = served
       ELSE stream' = "watch" /\ UNCHANGED push
    /\ UNCHANGED <<live, passVars, served, held, mine>>

\* The Envoy applies the response and acknowledges it with the next request.
Apply ==
    /\ stream = "push"
    /\ held' = push /\ mine' = TRUE
    /\ stream' = "request" /\ push' = None
    /\ UNCHANGED <<live, passVars, served>>

\* Mutant of Disconnect: the response under way is not dropped.
Disconnect_KeepsResponse ==
    /\ stream # "down"
    /\ stream' = "down"
    /\ UNCHANGED <<live, passVars, served, push, held, mine>>

\* The stream breaks; the Envoy keeps its configuration.
Disconnect ==
    /\ stream # "down"
    /\ stream' = "down" /\ push' = None
    /\ UNCHANGED <<live, passVars, served, held, mine>>

\* The Envoy restarts without configuration.
EnvoyRestarts ==
    /\ held # None
    /\ stream' = "down" /\ push' = None
    /\ held' = None /\ mine' = FALSE
    /\ UNCHANGED <<live, passVars, served>>

\* The control plane restarts: registry, cache and counter are new.
Restart ==
    /\ BeforeLast
    /\ live' = {}
    /\ version' = 0 /\ number' = None /\ since' = {} /\ steady' = {}
    /\ served' = None
    /\ stream' = "down" /\ push' = None
    /\ mine' = FALSE
    /\ UNCHANGED held

MeshNext ==
    \/ Change
    \/ NextVersion \/ PassFails \/ SetSnapshot
    \/ Connect \/ CreateWatch \/ Apply \/ Disconnect
    \/ EnvoyRestarts \/ Restart

MeshSpec == MeshInit /\ [][MeshNext]_meshVars

\* The loop of Run starts pass after pass and they do not all fail; the xDS
\* server handles requests, and an Envoy applies what it receives and
\* reconnects.
FairMeshSpec ==
    /\ MeshSpec
    /\ WF_meshVars(NextVersion)
    /\ SF_meshVars(SetSnapshot)
    /\ WF_meshVars(Connect \/ CreateWatch \/ Apply)

-----------------------------------------------------------------------------
\* Properties.

\* The Envoy reports the version the cache serves.
InSync == held # None /\ served # None /\ held.number = served.number

\* The state is well formed; a response is under way exactly on a stream that
\* is being answered (SetSnapshot, CreateWatch).
MeshTypeOK ==
    /\ {live, since, steady} \subseteq SUBSET MeshInstance
    /\ version \in 0 .. MaxVersion
    /\ number \in Number \cup {None}
    /\ {served, push, held} \subseteq Snapshot \cup {None}
    /\ stream \in {"down", "request", "watch", "push"}
    /\ push # None <=> stream = "push"
    /\ mine \in BOOLEAN
    /\ mine => held # None

\* An Envoy that acknowledged the version the cache serves has the content the
\* cache serves, so a watch the cache leaves unanswered hides nothing, as long
\* as both come from the same process: a pass that fails, before or after the
\* cache took its snapshot, does not give its number to another one
\* (version.Add in Reconcile).
VersionNamesContent ==
    (InSync /\ mine) => held = served

\* If the registry settles and the Envoy eventually stays connected, it ends
\* up with exactly the live instances, whatever restarts, broken streams,
\* failed passes and reused version numbers came before: every pass publishes
\* a full snapshot under a new number.
EnvoysConverge ==
    \A ids \in SUBSET MeshInstance :
        <>[](live = ids /\ stream # "down") => <>[](held # None /\ held.ids = ids)

\* The same without regard to restarts: a version number is "never reused"
\* and lets Envoy detect staleness.
VersionNeverReused ==
    InSync => held = served

=============================================================================
