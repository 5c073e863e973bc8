------------------------- MODULE ControlPlaneProofs -------------------------
(***************************************************************************)
(* Proofs about ControlPlane and the Tracker and RetryLoop it extends: the *)
(* connections gauge never drifts, a nil result means a completed drain,   *)
(* readiness is not announced twice, the backoff is the documented one     *)
(* until it overflows, and Run never waits for a result that was lost, for *)
(* any streams, nodes, words and bounds.                                   *)
(***************************************************************************)
EXTENDS ControlPlane, FiniteSetTheorems, TLAPS

\* A stream is in the table from its open to its close callback
\* (StreamOpenFunc, StreamClosedFunc).
TableInv ==
    \A s \in Stream : streams[s] # NoEntry <=> stream[s] \in {"opening", "open"}

\* The streams at a given place.
At(place) == {s \in Stream : stream[s] = place}

\* Adding one stream to a set, or taking one out, counts one.
LEMMA CountOne ==
    ASSUME NEW S \in SUBSET Stream, NEW s \in Stream
    PROVE  /\ Cardinality(S) \in Nat
           /\ s \notin S => Cardinality(S \cup {s}) = Cardinality(S) + 1
           /\ s \in S => Cardinality(S \ {s}) = Cardinality(S) - 1
           /\ s \notin S => S \ {s} = S
<1>1. IsFiniteSet(S)
  BY TrackerAssumption, FS_Subset
<1>2. Cardinality(S) \in Nat
  BY <1>1, FS_CardinalityType
<1>3. s \notin S => Cardinality(S \cup {s}) = Cardinality(S) + 1
  BY <1>1, FS_AddElement
<1>4. s \in S => Cardinality(S \ {s}) = Cardinality(S) - 1
  BY <1>1, FS_RemoveElement
<1> QED BY <1>2, <1>3, <1>4

\* The gauge in terms of At.
Gauge == gauge = Count - Cardinality(At("opening")) + Cardinality(At("closing"))

\* Every callback and hook keeps the gauge right (the tracker's callbacks).
LEMMA TrackerStepKeepsGauge ==
    ASSUME TrackerTypeOK, TableInv, Gauge, TrackerStep
    PROVE  TrackerTypeOK' /\ TableInv' /\ Gauge'
<1>c. \A S \in SUBSET Stream : Cardinality(S) \in Nat
  BY TrackerAssumption, FS_Subset, FS_CardinalityType
<1>s. /\ Connected \in SUBSET Stream
      /\ \A place : At(place) \in SUBSET Stream
  BY DEF Connected, At
<1>n. NoNode # NoEntry /\ NoEntry \notin Node
  BY TrackerAssumption
<1>g. gauge \in Int
  BY DEF TrackerTypeOK
<1>1. ASSUME NEW s \in Stream, StreamOpen(s)
      PROVE  TrackerTypeOK' /\ TableInv' /\ Gauge'
  <2>1. TrackerTypeOK'
    BY <1>1 DEF StreamOpen, TrackerTypeOK
  <2>2. TableInv'
    BY <1>1, <1>n DEF StreamOpen, TrackerTypeOK, TableInv
  <2>3. s \notin Connected /\ s \notin At("opening") /\ s \notin At("closing")
    BY <1>1 DEF StreamOpen, TableInv, Connected, At
  <2>4. Connected' = Connected \cup {s}
    BY <1>1, <1>n DEF StreamOpen, TrackerTypeOK, Connected
  <2>5. At("opening")' = At("opening") \cup {s} /\ At("closing")' = At("closing")
    BY <1>1 DEF StreamOpen, TrackerTypeOK, At
  <2>6. /\ Cardinality(Connected') = Cardinality(Connected) + 1
        /\ Cardinality(At("opening")') = Cardinality(At("opening")) + 1
    BY <1>s, <2>3, <2>4, <2>5, CountOne
  <2>7. gauge' = gauge
    BY <1>1 DEF StreamOpen
  <2> QED BY <1>c, <1>s, <1>g, <2>1, <2>2, <2>5, <2>6, <2>7 DEF Gauge, Count
<1>2. ASSUME NEW s \in Stream, OnOpen(s)
      PROVE  TrackerTypeOK' /\ TableInv' /\ Gauge'
  <2>1. TrackerTypeOK'
    BY <1>2 DEF OnOpen, TrackerTypeOK
  <2>2. TableInv' /\ Connected' = Connected
    BY <1>2 DEF OnOpen, TrackerTypeOK, TableInv, Connected
  <2>3. s \in At("opening") /\ s \notin At("closing")
    BY <1>2 DEF OnOpen, At
  <2>4. At("opening")' = At("opening") \ {s} /\ At("closing")' = At("closing")
    BY <1>2 DEF OnOpen, TrackerTypeOK, At
  <2>5. Cardinality(At("opening")') = Cardinality(At("opening")) - 1
    BY <1>s, <2>3, <2>4, CountOne
  <2>6. gauge' = gauge + 1
    BY <1>2 DEF OnOpen
  <2> QED BY <1>c, <1>s, <1>g, <2>1, <2>2, <2>4, <2>5, <2>6 DEF Gauge, Count
<1>3. ASSUME NEW s \in Stream, NEW node \in Node \cup {NoNode}, StreamRequest(s, node)
      PROVE  TrackerTypeOK' /\ TableInv' /\ Gauge'
  <2>1. TrackerTypeOK' /\ stream' = stream /\ gauge' = gauge
    BY <1>3 DEF StreamRequest, TrackerTypeOK
  <2>2. \A t \in Stream : streams'[t] # NoEntry <=> streams[t] # NoEntry
    BY <1>3, <1>n DEF StreamRequest, TrackerTypeOK
  <2> QED BY <2>1, <2>2 DEF TableInv, Gauge, Count, Connected, At
<1>4. ASSUME NEW s \in Stream, StreamClosed(s)
      PROVE  TrackerTypeOK' /\ TableInv' /\ Gauge'
  <2>1. TrackerTypeOK'
    BY <1>4 DEF StreamClosed, TrackerTypeOK
  <2>2. TableInv'
    BY <1>4, <1>n DEF StreamClosed, TrackerTypeOK, TableInv
  <2>3. s \in Connected /\ s \notin At("opening") /\ s \notin At("closing")
    BY <1>4 DEF StreamClosed, TableInv, Connected, At
  <2>4. Connected' = Connected \ {s}
    BY <1>4 DEF StreamClosed, TrackerTypeOK, Connected
  <2>5. At("closing")' = At("closing") \cup {s} /\ At("opening")' = At("opening")
    BY <1>4 DEF StreamClosed, TrackerTypeOK, At
  <2>6. /\ Cardinality(Connected') = Cardinality(Connected) - 1
        /\ Cardinality(At("closing")') = Cardinality(At("closing")) + 1
    BY <1>s, <2>3, <2>4, <2>5, CountOne
  <2>7. gauge' = gauge
    BY <1>4 DEF StreamClosed
  <2> QED BY <1>c, <1>s, <1>g, <2>1, <2>2, <2>5, <2>6, <2>7 DEF Gauge, Count
<1>5. ASSUME NEW s \in Stream, OnClose(s)
      PROVE  TrackerTypeOK' /\ TableInv' /\ Gauge'
  <2>1. TrackerTypeOK'
    BY <1>5 DEF OnClose, TrackerTypeOK
  <2>2. TableInv' /\ Connected' = Connected
    BY <1>5 DEF OnClose, TrackerTypeOK, TableInv, Connected
  <2>3. s \in At("closing") /\ s \notin At("opening")
    BY <1>5 DEF OnClose, At
  <2>4. At("closing")' = At("closing") \ {s} /\ At("opening")' = At("opening")
    BY <1>5 DEF OnClose, TrackerTypeOK, At
  <2>5. Cardinality(At("closing")') = Cardinality(At("closing")) - 1
    BY <1>s, <2>3, <2>4, CountOne
  <2>6. gauge' = gauge - 1
    BY <1>5 DEF OnClose
  <2> QED BY <1>c, <1>s, <1>g, <2>1, <2>2, <2>4, <2>5, <2>6 DEF Gauge, Count
<1> QED BY <1>1, <1>2, <1>3, <1>4, <1>5 DEF TrackerStep, Callback

\* Whatever the process does, the tracker takes a step of its own or none.
LEMMA TrackerAlone ==
    ASSUME [Next]_vars
    PROVE  [TrackerStep]_trackerVars
<1>1. CASE EnvoyStep
  BY <1>1 DEF EnvoyStep, EnvoyConnects, TrackerStep
<1>2. CASE CallbackStep
  BY <1>2 DEF CallbackStep, TrackerStep
<1>3. CASE MainStep \/ HTTPStep \/ XDSStep \/ LoopStep
  BY <1>3 DEF MainStep, HTTPStep, XDSStep, LoopStep
<1>4. CASE Request \/ ListenerFails \/ Cancel
  BY <1>4 DEF Request, ListenerFails, Cancel
<1>5. CASE UNCHANGED vars
  BY <1>5 DEF vars, trackerVars
<1> QED BY <1>1, <1>2, <1>3, <1>4, <1>5 DEF Next

\* The tracker's part of the state is in order throughout.
LEMMA TrackerAlways == Spec => [](TrackerTypeOK /\ TableInv /\ Gauge)
<1>1. Init => TrackerTypeOK /\ TableInv /\ Gauge
  <2> SUFFICES ASSUME TrackerInit PROVE TrackerTypeOK /\ TableInv /\ Gauge
    BY DEF Init
  <2>1. TrackerTypeOK /\ TableInv
    BY TrackerAssumption DEF TrackerInit, TrackerTypeOK, TableInv
  <2>2. Connected = {} /\ At("opening") = {} /\ At("closing") = {}
    BY DEF TrackerInit, Connected, At
  <2> QED BY <2>1, <2>2, FS_EmptySet DEF TrackerInit, Gauge, Count
<1>2. (TrackerTypeOK /\ TableInv /\ Gauge) /\ [Next]_vars
        => (TrackerTypeOK /\ TableInv /\ Gauge)'
  <2> SUFFICES ASSUME TrackerTypeOK, TableInv, Gauge, [Next]_vars
               PROVE  TrackerTypeOK' /\ TableInv' /\ Gauge'
    OBVIOUS
  <2>1. CASE TrackerStep
    BY <2>1, TrackerStepKeepsGauge
  <2>2. CASE UNCHANGED trackerVars
    BY <2>2 DEF trackerVars, TrackerTypeOK, TableInv, Gauge, Count, Connected, At
  <2> QED BY <2>1, <2>2, TrackerAlone
<1> QED BY <1>1, <1>2, PTL DEF Spec

\* However the callbacks of different streams interleave with each other and
\* with the life of the process, the connections gauge differs from the table
\* by the callbacks under way and by nothing else (GaugeFollowsTable).
THEOREM GaugeAlwaysFollowsTable == Spec => []GaugeFollowsTable
<1>1. Gauge => GaugeFollowsTable
  BY DEF Gauge, GaugeFollowsTable, At
<1> QED BY <1>1, TrackerAlways, PTL

\* A stream that named its Envoy goes on naming one until it closes
\* (NodeIDSticks).
THEOREM NodeIDAlwaysSticks == Spec => NodeIDSticks
<1>1. (TrackerTypeOK /\ TableInv /\ Gauge) /\ [Next]_vars
        => [\A s \in Stream : streams[s] \in Node => streams'[s] \in Node \cup {NoEntry}]_trackerVars
  <2> SUFFICES ASSUME TrackerTypeOK, TableInv, TrackerStep, NEW t \in Stream,
                      streams[t] \in Node
               PROVE  streams'[t] \in Node \cup {NoEntry}
    BY TrackerAlone
  <2>1. ASSUME NEW s \in Stream, StreamOpen(s)
        PROVE  streams'[t] \in Node \cup {NoEntry}
    <3>1. streams[s] = NoEntry
      BY <2>1 DEF StreamOpen, TableInv
    <3>2. t # s
      BY <3>1, TrackerAssumption
    <3> QED BY <2>1, <3>2 DEF StreamOpen, TrackerTypeOK
  <2>2. ASSUME NEW s \in Stream, NEW node \in Node \cup {NoNode}, StreamRequest(s, node)
        PROVE  streams'[t] \in Node \cup {NoEntry}
    BY <2>2 DEF StreamRequest, TrackerTypeOK
  <2>3. ASSUME NEW s \in Stream, StreamClosed(s)
        PROVE  streams'[t] \in Node \cup {NoEntry}
    BY <2>3 DEF StreamClosed, TrackerTypeOK
  <2>4. Callback => streams' = streams
    BY DEF Callback, OnOpen, OnClose
  <2> QED BY <2>1, <2>2, <2>3, <2>4 DEF TrackerStep
<1> QED BY <1>1, TrackerAlways, PTL DEF Spec, NodeIDSticks

-----------------------------------------------------------------------------
\* The process outside the tracker is well formed (Run, its goroutines and the
\* loop).
RunTypeOK ==
    /\ LoopTypeOK
    /\ cancelled \in BOOLEAN
    /\ main \in {"select", "unready", "stopping", "draining", "shutdown", "closing",
                 "joinHTTP", "joinXDS", "returned"}
    /\ result \in {"none", "nil", "error"}
    /\ ready \in BOOLEAN
    /\ http \in {"starting", "binding", "serving", "done"}
    /\ xds \in {"starting", "serving", "done"}
    /\ httpErrCh \in {"empty", "nil", "error"}
    /\ xdsErrCh \in {"empty", "nil", "error"}
    /\ httpErrCh # "empty" => http = "done"
    /\ xdsErrCh # "empty" => xds = "done"
    /\ busy \in BOOLEAN

\* Every step keeps it so.
LEMMA RunTypeStep ==
    ASSUME RunTypeOK, [Next]_vars
    PROVE  RunTypeOK'
<1> USE DEF RunTypeOK, mainVars, httpVars, xdsVars, loopVars, LoopTypeOK
<1>1. CASE MainStep
  <2>1. UNCHANGED <<cancelled, http, busy, xds, loopVars>>
    BY <1>1 DEF MainStep
  <2>2. CASE SelectDone \/ Unready \/ Stop \/ GracefulStop \/ Shutdown \/ ShutdownReturns
    <3>1. ready' \in BOOLEAN
      BY Zenon, <2>2 DEF SelectDone, Unready, Stop, GracefulStop, Shutdown, ShutdownReturns
    <3>2. /\ main' \in {"unready", "stopping", "draining", "shutdown", "closing", "joinHTTP"}
          /\ UNCHANGED <<result, httpErrCh, xdsErrCh>>
      BY Zenon, <2>2 DEF SelectDone, Unready, Stop, GracefulStop, Shutdown, ShutdownReturns
    <3> QED BY <2>1, <3>1, <3>2
  <2>3. CASE SelectHTTP \/ SelectXDS
    BY <2>1, <2>3 DEF SelectHTTP, SelectXDS, return
  <2>4. CASE ShutdownTimesOut \/ JoinHTTP \/ JoinXDS
    BY <2>1, <2>4 DEF ShutdownTimesOut, JoinHTTP, JoinXDS, return
  <2> QED BY <1>1, <2>2, <2>3, <2>4 DEF MainStep
<1>2. CASE HTTPStep
  <2>1. ready' \in BOOLEAN
    BY Zenon, <1>2 DEF HTTPStep, Announce, Bind, HTTPCloses
  <2>2. /\ UNCHANGED <<cancelled, mainVars, xdsVars, loopVars, busy>>
        /\ http # "done"
        /\ \/ http' \in {"binding", "serving"} /\ httpErrCh' = httpErrCh
           \/ http' = "done" /\ httpErrCh' = "nil"
    BY Zenon, <1>2 DEF HTTPStep, Announce, Bind, HTTPCloses
  <2> QED BY <2>1, <2>2
<1>3. CASE XDSStep
  BY <1>3 DEF XDSStep, XDSServe, XDSStops
<1>4. CASE LoopStep
  <2>1. UNCHANGED <<cancelled, mainVars, ready, httpVars, xdsVars>>
    BY <1>4 DEF LoopStep
  <2>2. LoopTypeOK'
    BY <1>4, RetryLoopAssumption DEF LoopStep, PassSucceeds, PassFails, NextPass, LoopStops
  <2> QED BY <2>1, <2>2
<1>5. CASE CallbackStep \/ EnvoyStep
  BY <1>5 DEF CallbackStep, EnvoyStep
<1>6. CASE Request
  <2>1. busy' \in BOOLEAN
    BY Zenon, <1>6 DEF Request, RequestArrives, RequestDone
  <2>2. UNCHANGED <<cancelled, mainVars, ready, http, httpErrCh, xdsVars, loopVars>>
    BY <1>6 DEF Request
  <2> QED BY <2>1, <2>2
<1>7. CASE ListenerFails
  BY <1>7 DEF ListenerFails, HTTPFails, XDSFails
<1>8. CASE Cancel
  BY <1>8 DEF Cancel
<1>9. CASE UNCHANGED vars
  BY <1>9 DEF vars
<1> QED BY <1>1, <1>2, <1>3, <1>4, <1>5, <1>6, <1>7, <1>8, <1>9 DEF Next

\* It is so throughout.
LEMMA RunTypeAlways == Spec => []RunTypeOK
<1>1. Init => RunTypeOK
  <2> SUFFICES ASSUME Init PROVE RunTypeOK
    OBVIOUS
  <2>1. cancelled \in BOOLEAN /\ ready \in BOOLEAN /\ busy \in BOOLEAN
    BY Zenon DEF Init
  <2>2. LoopTypeOK
    BY RetryLoopAssumption DEF Init, LoopInit, LoopTypeOK
  <2> QED BY <2>1, <2>2 DEF Init, RunTypeOK
<1>2. RunTypeOK /\ [Next]_vars => RunTypeOK'
  BY RunTypeStep
<1> QED BY <1>1, <1>2, PTL DEF Spec

\* The state of the whole process is well formed throughout: a server goroutine
\* that has sent its result has ended (TypeOK).
THEOREM TypeCorrect == Spec => []TypeOK
<1>1. TrackerTypeOK /\ RunTypeOK => TypeOK
  BY DEF RunTypeOK, TypeOK
<1> QED BY <1>1, RunTypeAlways, TrackerAlways, PTL

-----------------------------------------------------------------------------
\* What Run has established at each point of its way to a nil result.
DrainInv ==
    /\ main \notin {"select", "returned"} => cancelled
    /\ Stopped => Held = {}
    /\ main \in {"joinHTTP", "joinXDS"} => ~ busy
    /\ main = "joinXDS" => http = "done"
    /\ httpErrCh = "nil" => Closing \/ main = "returned"
    /\ xdsErrCh = "nil" => Stopped \/ main = "returned"
    /\ main # "returned" => result = "none"
    /\ result = "nil" => cancelled /\ http = "done" /\ xds = "done" /\ ~ busy /\ Held = {}

\* Run's own steps keep it (the select and the drain in Run).
LEMMA MainKeepsDrain ==
    ASSUME RunTypeOK, DrainInv, MainStep
    PROVE  DrainInv'
<1>u. UNCHANGED <<cancelled, http, busy, xds, stream>> /\ main # "returned"
  BY DEF MainStep, trackerVars, Alive
<1>h. Held' = Held
  BY <1>u DEF Held
<1> USE DEF DrainInv, Closing, Stopped
<1>1. CASE SelectDone \/ Unready \/ Stop
  BY <1>u, <1>h, <1>1 DEF SelectDone, Unready, Stop
<1>2. CASE SelectHTTP
  <2>1. httpErrCh # "nil" /\ main' = "returned" /\ result' = httpErrCh
    BY <1>2 DEF SelectHTTP, return
  <2> QED BY <1>u, <1>h, <2>1
<1>3. CASE SelectXDS
  <2>1. xdsErrCh # "nil" /\ main' = "returned" /\ result' = xdsErrCh
    BY <1>3 DEF SelectXDS, return
  <2> QED BY <1>u, <1>h, <2>1
<1>4. CASE GracefulStop \/ Shutdown
  BY <1>u, <1>h, <1>4 DEF GracefulStop, Shutdown
<1>5. CASE ShutdownReturns
  BY <1>u, <1>h, <1>5 DEF ShutdownReturns
<1>6. CASE ShutdownTimesOut
  BY <1>u, <1>h, <1>6 DEF ShutdownTimesOut, return
<1>7. CASE JoinHTTP
  BY <1>u, <1>h, <1>7 DEF JoinHTTP, RunTypeOK
<1>8. CASE JoinXDS
  BY <1>u, <1>h, <1>8 DEF JoinXDS, return, RunTypeOK
<1> QED BY <1>1, <1>2, <1>3, <1>4, <1>5, <1>6, <1>7, <1>8 DEF MainStep

\* So does everything that runs beside it.
LEMMA OthersKeepDrain ==
    ASSUME RunTypeOK, DrainInv, Next, ~ MainStep
    PROVE  DrainInv'
<1>u. main # "returned" /\ result = "none" /\ UNCHANGED <<main, result>>
  BY DEF Next, HTTPStep, XDSStep, LoopStep, CallbackStep, Request, EnvoyStep, ListenerFails,
         Cancel, Alive, mainVars, DrainInv
<1>c. cancelled => cancelled'
  BY DEF Next, HTTPStep, XDSStep, LoopStep, CallbackStep, Request, EnvoyStep, ListenerFails,
         Cancel
<1>h. Stopped => Held' = {}
  <2> SUFFICES ASSUME Stopped PROVE Held' = {}
    OBVIOUS
  <2>1. Held = {} /\ Stopping
    BY DEF DrainInv, Stopped, Stopping
  <2>2. CASE EnvoyStep
    BY <2>1, <2>2 DEF EnvoyStep, EnvoyConnects, StreamRequest, StreamClosed, Held
  <2>3. CASE CallbackStep
    BY <2>1, <2>3 DEF CallbackStep, Callback, OnOpen, OnClose, Held
  <2>4. CASE HTTPStep \/ XDSStep \/ LoopStep \/ Request \/ ListenerFails \/ Cancel
    <3>1. stream' = stream
      BY <2>4 DEF HTTPStep, XDSStep, LoopStep, Request, ListenerFails, Cancel, trackerVars
    <3> QED BY <2>1, <3>1 DEF Held
  <2> QED BY <2>2, <2>3, <2>4 DEF Next
<1>b. main \in {"joinHTTP", "joinXDS"} => ~ busy'
  <2> SUFFICES ASSUME main \in {"joinHTTP", "joinXDS"} PROVE ~ busy'
    OBVIOUS
  <2>1. ~ busy /\ Closing
    BY DEF DrainInv, Closing
  <2>2. CASE Request
    BY <2>1, <2>2 DEF Request, RequestArrives, RequestDone
  <2>3. CASE ~ Request
    <3>1. busy' = busy
      BY <2>3 DEF Next, HTTPStep, Announce, Bind, HTTPCloses, XDSStep, LoopStep, CallbackStep,
             EnvoyStep, ListenerFails, HTTPFails, Cancel, httpVars
    <3> QED BY <2>1, <3>1
  <2> QED BY <2>2, <2>3
<1>t. /\ http = "done" => http' = "done"
      /\ httpErrCh' = "nil" => httpErrCh = "nil" \/ Closing
  <2>1. CASE HTTPStep
    BY <2>1 DEF HTTPStep, Announce, Bind, HTTPCloses
  <2>2. CASE ListenerFails
    BY <2>2 DEF ListenerFails, HTTPFails, httpVars
  <2>3. CASE XDSStep \/ LoopStep \/ CallbackStep \/ Request \/ EnvoyStep \/ Cancel
    BY <2>3 DEF XDSStep, LoopStep, CallbackStep, Request, EnvoyStep, Cancel, httpVars
  <2> QED BY <2>1, <2>2, <2>3 DEF Next
<1>x. xdsErrCh' = "nil" => xdsErrCh = "nil" \/ Stopped
  <2>1. CASE XDSStep
    BY <2>1 DEF XDSStep, XDSServe, XDSStops
  <2>2. CASE ListenerFails
    BY <2>2 DEF ListenerFails, XDSFails, xdsVars
  <2>3. CASE HTTPStep \/ LoopStep \/ CallbackStep \/ Request \/ EnvoyStep \/ Cancel
    BY <2>3 DEF HTTPStep, LoopStep, CallbackStep, Request, EnvoyStep, Cancel, xdsVars
  <2> QED BY <2>1, <2>2, <2>3 DEF Next
<1>s. (Stopped' <=> Stopped) /\ (Closing' <=> Closing)
  BY <1>u DEF Stopped, Closing
<1> QED BY <1>u, <1>c, <1>h, <1>b, <1>t, <1>x, <1>s DEF DrainInv

\* When Run returns nil, a signal came, both servers have ended, no request is
\* in flight, no stream is in the table and the gauge is zero
\* (NilMeansDrained).
THEOREM NilAlwaysMeansDrained == Spec => []NilMeansDrained
<1>1. Init => DrainInv
  BY DEF Init, DrainInv, Closing, Stopped
<1>2. RunTypeOK /\ DrainInv /\ [Next]_vars => DrainInv'
  <2> SUFFICES ASSUME RunTypeOK, DrainInv, [Next]_vars PROVE DrainInv'
    OBVIOUS
  <2>1. CASE UNCHANGED vars
    BY <2>1 DEF vars, DrainInv, Closing, Stopped, Held
  <2> QED BY <2>1, MainKeepsDrain, OthersKeepDrain
<1>3. (TrackerTypeOK /\ TableInv /\ Gauge) /\ DrainInv => NilMeansDrained
  <2> SUFFICES ASSUME TrackerTypeOK, TableInv, Gauge, DrainInv, result = "nil"
               PROVE  /\ cancelled /\ http = "done" /\ xds = "done" /\ ~ busy
                      /\ Connected = {} /\ gauge = 0
    BY DEF NilMeansDrained
  <2>1. cancelled /\ http = "done" /\ xds = "done" /\ ~ busy /\ Held = {}
    BY DEF DrainInv
  <2>2. Connected = {} /\ At("opening") = {} /\ At("closing") = {}
    BY <2>1 DEF TableInv, Held, Connected, At
  <2>3. gauge = 0
    BY <2>2, FS_EmptySet DEF Gauge, Count
  <2> QED BY <2>1, <2>2, <2>3
<1> QED BY <1>1, <1>2, <1>3, RunTypeAlways, TrackerAlways, PTL DEF Spec

-----------------------------------------------------------------------------
\* The wait after a failed pass.

\* The delay after n failures, in seconds as documented, fits in a Duration.
Fits(n) == 2^n * Second \in Second .. (WordModulus \div 2) - 1

\* While it fits, neither the shift nor the product wraps, and the delay before
\* jitter is the documented one (backoff).
LEMMA BaseBeforeOverflow ==
    ASSUME NEW n \in Nat, Fits(n)
    PROVE  /\ base(n) = IF 2^n * Second > maxBackoff THEN maxBackoff ELSE 2^n * Second
           /\ base(n) \in Nat /\ base(n) >= 5
<1> DEFINE x == 2^n
           W == WordModulus
<1>1. x \in Int /\ W \in Nat \ {0} /\ Second \in Nat /\ Second >= 5
  BY RetryLoopAssumption
<1>2. x * Second \in Int /\ x * Second >= Second /\ x * Second <= (W \div 2) - 1
  BY <1>1 DEF Fits
<1> HIDE DEF x, W
<1>3. x >= 1
  <2>1. x <= 0 => x * Second <= 0
    BY <1>1
  <2> QED BY <1>1, <1>2, <2>1
<1>4. x <= x * Second
  BY <1>1, <1>3
<1>5. \A m \in Nat : m < W \div 2 => Wrap(m) = m
  <2> SUFFICES ASSUME NEW m \in Nat, m < W \div 2 PROVE Wrap(m) = m
    OBVIOUS
  <2>1. m % W = m
    BY <1>1
  <2> QED BY <2>1 DEF Wrap, W
<1>6. Wrap(x) = x /\ Wrap(x * Second) = x * Second
  BY <1>1, <1>2, <1>3, <1>4, <1>5
<1>7. base(n) = IF x * Second > maxBackoff THEN maxBackoff ELSE x * Second
  BY <1>6 DEF base, x
<1> QED BY <1>1, <1>2, <1>7, RetryLoopAssumption DEF x

\* The jitter then is less than a fifth of it, and Int63n does not panic
\* (backoff).
LEMMA JitterBeforeOverflow ==
    ASSUME NEW n \in Nat, Fits(n)
    PROVE  /\ backoff(n) # {}
           /\ \A d \in backoff(n) : d >= base(n) /\ 5 * (d - base(n)) < base(n)
<1> DEFINE b == base(n)
<1>1. b \in Nat /\ b >= 5
  BY BaseBeforeOverflow
<1> HIDE DEF b
<1>2. Quotient(b, 5) = b \div 5 /\ b \div 5 \in Nat /\ b \div 5 > 0 /\ 5 * (b \div 5) <= b
  BY <1>1 DEF Quotient
<1>3. backoff(n) = {b + jitter : jitter \in 0 .. (b \div 5) - 1}
  BY <1>2 DEF backoff, Int63n, b
<1>4. 0 \in 0 .. (b \div 5) - 1
  BY <1>2
<1>5. \A j \in 0 .. (b \div 5) - 1 : b + j >= b /\ 5 * ((b + j) - b) < b
  BY <1>1, <1>2
<1> QED BY <1>3, <1>4, <1>5 DEF b

\* The loop panics only on a delay that does not fit (PassFails).
PanicExplained == loop = "panicked" => ~ Fits(failures)

\* As long as the delay after so many failures fits in a Duration, the wait is
\* the documented one and the loop goes on, for any second, cap and word
\* (BackoffAsDocumented).
THEOREM BackoffBeforeOverflow == Spec => [](Fits(failures) => BackoffAsDocumented)
<1>1. Init => PanicExplained
  BY DEF Init, LoopInit, PanicExplained
<1>2. RunTypeOK /\ PanicExplained /\ [Next]_vars => PanicExplained'
  <2> SUFFICES ASSUME RunTypeOK, PanicExplained, [Next]_vars PROVE PanicExplained'
    OBVIOUS
  <2>1. CASE UNCHANGED loopVars
    BY <2>1 DEF loopVars, PanicExplained, Fits
  <2>2. CASE LoopStep
    <3>1. CASE PassFails
      <4>1. failures' = failures + 1 /\ failures + 1 \in Nat
        BY <3>1, RetryLoopAssumption DEF PassFails, RunTypeOK, LoopTypeOK
      <4>2. loop' = "panicked" => backoff(failures + 1) = {}
        BY <3>1 DEF PassFails
      <4>3. loop' = "panicked" => ~ Fits(failures + 1)
        BY <4>1, <4>2, JitterBeforeOverflow
      <4> QED BY <4>1, <4>3 DEF PanicExplained, Fits
    <3>2. CASE PassSucceeds \/ NextPass \/ LoopStops
      <4>1. loop' # "panicked"
        BY <3>2 DEF PassSucceeds, NextPass, LoopStops
      <4> QED BY <4>1 DEF PanicExplained
    <3> QED BY <2>2, <3>1, <3>2 DEF LoopStep
  <2> QED BY <2>1, <2>2 DEF Next, MainStep, HTTPStep, XDSStep, CallbackStep, Request,
             EnvoyStep, ListenerFails, Cancel, vars, loopVars
<1>3. RunTypeOK /\ PanicExplained => (Fits(failures) => BackoffAsDocumented)
  <2> SUFFICES ASSUME RunTypeOK, PanicExplained, Fits(failures) PROVE BackoffAsDocumented
    OBVIOUS
  <2>1. failures \in Nat
    BY RetryLoopAssumption DEF RunTypeOK, LoopTypeOK
  <2> QED BY <2>1, BaseBeforeOverflow, JitterBeforeOverflow
          DEF PanicExplained, BackoffAsDocumented
<1> QED BY <1>1, <1>2, <1>3, RunTypeAlways, PTL DEF Spec

-----------------------------------------------------------------------------
\* No result is lost on its way to Run.

\* The result of a goroutine that has ended is in its channel until Run has
\* received it.
ResultsKept ==
    /\ http = "done" => httpErrCh # "empty" \/ main \in {"joinXDS", "returned"}
    /\ xds = "done" => xdsErrCh # "empty" \/ main = "returned"

\* Run never waits for a result that will not come: where it selects or joins,
\* a server goroutine that has ended has left its result in the channel that
\* Run receives from, whichever goroutine failed, closed or started last.
NeverWaitsInVain ==
    /\ (main = "select" /\ (http = "done" \/ xds = "done"))
          => httpErrCh # "empty" \/ xdsErrCh # "empty"
    /\ (main = "joinHTTP" /\ http = "done") => httpErrCh # "empty"
    /\ (main = "joinXDS" /\ xds = "done") => xdsErrCh # "empty"

\* Each receive of Run takes the result of the goroutine it is about, and each
\* goroutine sends before it ends (the sends and receives of Run).
LEMMA StepKeepsResults ==
    ASSUME ResultsKept, [Next]_vars
    PROVE  ResultsKept'
<1> USE DEF ResultsKept
<1>1. CASE MainStep
  <2>1. UNCHANGED <<http, xds>> /\ main # "returned"
    BY <1>1 DEF MainStep, Alive
  <2>2. CASE SelectDone \/ Unready \/ Stop \/ GracefulStop \/ Shutdown \/ ShutdownReturns
    <3>1. UNCHANGED <<httpErrCh, xdsErrCh>> /\ main # "joinXDS"
      BY <2>2 DEF SelectDone, Unready, Stop, GracefulStop, Shutdown, ShutdownReturns
    <3> QED BY <2>1, <3>1
  <2>3. CASE SelectHTTP \/ SelectXDS \/ ShutdownTimesOut
    BY <2>1, <2>3 DEF SelectHTTP, SelectXDS, ShutdownTimesOut, return
  <2>4. CASE JoinHTTP \/ JoinXDS
    BY <2>1, <2>4 DEF JoinHTTP, JoinXDS, return
  <2> QED BY <1>1, <2>2, <2>3, <2>4 DEF MainStep
<1>2. CASE HTTPStep
  BY <1>2 DEF HTTPStep, Announce, Bind, HTTPCloses, mainVars, xdsVars
<1>3. CASE XDSStep
  BY <1>3 DEF XDSStep, XDSServe, XDSStops, mainVars, httpVars
<1>4. CASE ListenerFails
  BY <1>4 DEF ListenerFails, HTTPFails, XDSFails, mainVars, httpVars, xdsVars
<1>5. CASE LoopStep \/ CallbackStep \/ Request \/ EnvoyStep \/ Cancel \/ UNCHANGED vars
  <2>1. UNCHANGED <<main, http, httpErrCh, xds, xdsErrCh>>
    BY <1>5 DEF LoopStep, CallbackStep, Request, EnvoyStep, Cancel, vars, mainVars, httpVars,
           xdsVars
  <2> QED BY <2>1
<1> QED BY <1>1, <1>2, <1>3, <1>4, <1>5 DEF Next

\* The part of DeadServerEndsRun and DrainsOnceEnvoysLeave that does not need
\* fairness: Run never waits for a result that was sent and lost
\* (NeverWaitsInVain).
THEOREM RunNeverWaitsInVain == Spec => []NeverWaitsInVain
<1>1. Init => ResultsKept
  BY DEF Init, ResultsKept
<1>2. ResultsKept => NeverWaitsInVain
  BY DEF ResultsKept, NeverWaitsInVain
<1> QED BY <1>1, <1>2, StepKeepsResults, PTL DEF Spec

=============================================================================
