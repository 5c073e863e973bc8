------------------------------ MODULE RetryLoop ------------------------------
(***************************************************************************)
(* The loop of Reconciler.Run and its backoff                              *)
(* (internal/reconciliation/reconciler.go).  A pass is one step here; what *)
(* it does is the module Reconciler.                                       *)
(*                                                                         *)
(* A time.Duration is a signed word, and the shift and the product of      *)
(* backoff wrap.  The constants scale the word and the second down; a      *)
(* second and the cap stay divisible into fifths for the jitter.           *)
(***************************************************************************)
EXTENDS Integers

CONSTANTS
    WordModulus,  \* values of a Duration: 2^64 in the program
    Second,       \* time.Second in the unit of a Duration
    maxBackoff,   \* the cap on the delay before jitter
    MaxFailures   \* bound: passes that fail in a row

ASSUME RetryLoopAssumption ==
    /\ WordModulus \in Nat \ {0}
    /\ Second \in Nat /\ Second >= 5
    /\ maxBackoff \in Nat /\ maxBackoff >= 5
    /\ MaxFailures \in Nat

VARIABLES
    loop,     \* where Run is: in a pass, waiting, returned, or panicked
    failures  \* consecutiveFailures

loopVars == <<loop, failures>>

\* The signed word with the bits of n.
Wrap(n) ==
    LET m == n % WordModulus
    IN  IF m < WordModulus \div 2 THEN m ELSE m - WordModulus

\* Go's division by a positive constant truncates towards zero.
Quotient(n, d) == IF n >= 0 THEN n \div d ELSE -((-n) \div d)

\* Mutant of base: the cap is dropped.
base_Uncapped(attempt) == Wrap(Wrap(2^attempt) * Second)

\* The delay before jitter.
base(attempt) ==
    LET delay == Wrap(Wrap(2^attempt) * Second)
    IN  IF delay > maxBackoff THEN maxBackoff ELSE delay

\* rand.Int63n(n), which panics (no result) unless n > 0.
Int63n(n) == 0 .. n - 1

\* The delays backoff may return; none when it panics.
backoff(attempt) ==
    {base(attempt) + jitter : jitter \in Int63n(Quotient(base(attempt), 5))}

LoopInit ==
    /\ loop = "pass"
    /\ failures = 0

\* Reconcile succeeds, which resets the backoff.
PassSucceeds ==
    /\ loop = "pass"
    /\ loop' = "waiting"
    /\ failures' = 0

\* Reconcile fails: the wait is the interval and the backoff.
PassFails ==
    /\ loop = "pass"
    /\ failures < MaxFailures
    /\ failures' = failures + 1
    /\ loop' = IF backoff(failures + 1) = {} THEN "panicked" ELSE "waiting"

\* The wait is over.
NextPass ==
    /\ loop = "waiting"
    /\ loop' = "pass"
    /\ UNCHANGED failures

\* The context is done first.
LoopStops ==
    /\ loop = "waiting"
    /\ loop' = "returned"
    /\ UNCHANGED failures

-----------------------------------------------------------------------------
LoopTypeOK ==
    /\ loop \in {"pass", "waiting", "returned", "panicked"}
    /\ failures \in 0 .. MaxFailures

\* After n failures in a row the loop waits 2^n seconds, capped at maxBackoff,
\* plus less than 20% jitter, and it goes on: the comments on backoff and
\* maxBackoff, which bound how long a fixed fault delays recovery.
BackoffAsDocumented ==
    /\ loop # "panicked"
    /\ (loop = "waiting" /\ failures > 0) =>
          LET delay == IF 2^failures * Second > maxBackoff
                       THEN maxBackoff ELSE 2^failures * Second
          IN  \A d \in backoff(failures) : d >= delay /\ 5 * (d - delay) < delay

=============================================================================
