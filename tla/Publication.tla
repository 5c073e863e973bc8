----------------------------- MODULE Publication -----------------------------
(***************************************************************************)
(* Reconciler, with one caller of Reconcile, implements Publisher.         *)
(*                                                                         *)
(* An endpoint is an instance under its registry key.  It is live while it *)
(* is registered and not marked unhealthy.  The history variable outSince  *)
(* tells which endpoints went out since the current version was taken.     *)
(***************************************************************************)
EXTENDS Reconciler

Endpoint == Key \X InstanceID

LiveEndpoints == {x \in Endpoint : Healthy(x[1], x[2])}

EndpointsSince ==
    {x \in Endpoint : Healthy(x[1], x[2]) \/ outSince[x[1]][x[2]] >= version}

\* A snapshot as Publisher sees it.
Published(snap) ==
    IF snap = NoSnapshot
    THEN NoSnapshot
    ELSE [version |-> snap.version,
          ids |-> {<<key(DefaultNamespace, e.cluster.svc), e.id>> : e \in snap.endpoints}]

P == INSTANCE Publisher
        WITH None <- NoSnapshot,
             issued <- version,
             live <- LiveEndpoints,
             since <- EndpointsSince,
             served <- Published(cache),
             shown <- Published(lastSnapshot)

\* Passes that interleave with any handlers, fail at any point and leave the
\* cache replaced or not still publish what Publisher promises (Reconcile,
\* BuildSnapshot, SetSnapshot).
ImplementsPublisher == P!Spec

=============================================================================
