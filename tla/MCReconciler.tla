---------------------------- MODULE MCReconciler ----------------------------
(***************************************************************************)
(* Small instances of Reconciler.                                          *)
(***************************************************************************)
EXTENDS Publication, TLC

DefaultOnly == {<<"default">>}
Default == <<"default">>

OneService == {<<"api">>}
TwoServices == {<<"api">>, <<"web">>}
SortedRank == [s \in ServiceName |-> IF s = <<"api">> THEN 1 ELSE 2]

Split(label, weight) == [version |-> label, weight |-> weight]
Plain(splits) == [splits |-> splits, retryOn |-> FALSE, numRetries |-> 0]

\* A canary whose weights sum to 356, which is 100 in a word of 8 bits, and the
\* spec that completes it; and two specs Validate refuses: one whose weights are
\* short of 100 and one without splits.
CanarySpecs == {Plain(<<Split("v1", 255), Split("v2", 101)>>),
                Plain(<<Split("v2", 100)>>),
                Plain(<<Split("v1", 90)>>),
                Plain(<<>>)}

\* One valid canary.
CanaryOnly == {Plain(<<Split("v1", 90), Split("v2", 10)>>)}

\* The state without the histories of removals and of specs, which no guard
\* reads: for the run whose properties do not speak of them.
WithoutHistories == <<svcs, now, specs, version, pass, cache, lastSnapshot, inSince>>

\* Instance IDs and callers are only compared for equality.
Symmetry == Permutations(InstanceID) \cup Permutations(Caller)

=============================================================================
