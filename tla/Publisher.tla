------------------------------ MODULE Publisher ------------------------------
(***************************************************************************)
(* What reconciliation promises to the Envoys, whatever it reads and in    *)
(* whatever order: version numbers are handed out one by one, a published  *)
(* snapshot carries the latest of them and no number is published twice, a *)
(* snapshot only lists endpoints that were live at some time since its     *)
(* number was handed out, and the debug page shows what has been served.   *)
(*                                                                         *)
(* The module Publication shows that Reconciler implements this.           *)
(***************************************************************************)
EXTENDS Naturals

CONSTANTS
    Endpoint,  \* the endpoints a snapshot may list
    None       \* marks that nothing was published

VARIABLES
    issued,  \* the latest version number
    live,    \* the endpoints that are live
    since,   \* the endpoints that were live at some time since issued was handed out
    served,  \* what Envoys are served
    shown    \* what the debug page shows

vars == <<issued, live, since, served, shown>>

\* Before the first number, since is of no consequence.
Init ==
    /\ issued = 0
    /\ live = {}
    /\ since \in SUBSET Endpoint
    /\ served = None
    /\ shown = None

Change ==
    /\ live' \in SUBSET Endpoint
    /\ since' = since \cup live'
    /\ UNCHANGED <<issued, served, shown>>

Issue ==
    /\ issued' = issued + 1
    /\ since' = live
    /\ UNCHANGED <<live, served, shown>>

Publish ==
    /\ issued > 0
    /\ served = None \/ served.version < issued
    /\ \E ids \in SUBSET since : served' = [version |-> issued, ids |-> ids]
    /\ UNCHANGED <<issued, live, since, shown>>

Show ==
    /\ shown' = served
    /\ UNCHANGED <<issued, live, since, served>>

Next == Change \/ Issue \/ Publish \/ Show

Spec == Init /\ [][Next]_vars

=============================================================================
