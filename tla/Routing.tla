------------------------------- MODULE Routing -------------------------------
(***************************************************************************)
(* Traffic specs and their store (internal/routing/route.go), and the      *)
(* route handlers that write it (internal/api/routing_handlers.go).        *)
(*                                                                         *)
(* A spec keeps what Validate and the snapshot builder decide upon: its    *)
(* version splits and its retry policy.  Timeout and circuit-breaker       *)
(* values are copied into the xDS resources and never decided upon.        *)
(***************************************************************************)
EXTENDS Integers, Sequences

CONSTANTS
    RouteService,   \* the service names routes are written for
    SplitLabel,     \* the version labels of splits
    SpecInput,      \* the specs clients send
    NoSpec,         \* marks a service without a spec
    UintModulus     \* 2^32 in the code: the weights are summed in a uint32

VARIABLE specs      \* Store.specs

\* VersionWeight and Spec.
VersionWeight == [version : SplitLabel, weight : Nat]
TrafficSpec == [splits : Seq(VersionWeight), retryOn : BOOLEAN, numRetries : Nat]

ASSUME RoutingAssumption ==
    /\ SpecInput \subseteq TrafficSpec
    /\ UintModulus \in Nat \ {0}
    /\ NoSpec \notin SpecInput

\* The total of the weights, as Validate's uint32 accumulator holds it.
WeightTotal(splits) ==
    LET total[i \in 0 .. Len(splits)] ==
            IF i = 0 THEN 0 ELSE (total[i - 1] + splits[i].weight) % UintModulus
    IN  total[Len(splits)]

\* Mutant of Validate: the total is not looked at.
Validate_AnyTotal(spec) ==
    /\ spec.splits # <<>>
    /\ \A i, j \in DOMAIN spec.splits :
           spec.splits[i].version = spec.splits[j].version => i = j
    /\ spec.retryOn => spec.numRetries > 0

\* Mutant of Validate: a spec without splits is not refused.
Validate_NoSplits(spec) ==
    /\ \A i, j \in DOMAIN spec.splits :
           spec.splits[i].version = spec.splits[j].version => i = j
    /\ spec.splits # <<>> => WeightTotal(spec.splits) = 100
    /\ spec.retryOn => spec.numRetries > 0

\* Spec.Validate: the spec has a split, no version twice, weights that total
\* 100, and a retry count if it has a retry condition.
Validate(spec) ==
    /\ spec.splits # <<>>
    /\ \A i, j \in DOMAIN spec.splits :
           spec.splits[i].version = spec.splits[j].version => i = j
    /\ WeightTotal(spec.splits) = 100
    /\ spec.retryOn => spec.numRetries > 0

\* PUT /v1/routes/{service}: Store.Set keeps a spec only if it is valid; an
\* invalid one is answered with 400 and changes nothing.
PutRoute(service, spec) ==
    /\ Validate(spec)
    /\ specs' = [specs EXCEPT ![service] = spec]

\* DELETE /v1/routes/{service}.
DeleteRoute(service) ==
    specs' = [specs EXCEPT ![service] = NoSpec]

\* Store.Get: NoSpec stands for a missing entry.
Get(service) == IF service \in RouteService THEN specs[service] ELSE NoSpec

RoutingInit == specs = [service \in RouteService |-> NoSpec]

=============================================================================
