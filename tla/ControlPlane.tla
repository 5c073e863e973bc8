----------------------------- MODULE ControlPlane -----------------------------
(***************************************************************************)
(* The life of the control-plane process: ControlPlane.Run                 *)
(* (internal/controlplane/controlplane.go) with its HTTP goroutine, its    *)
(* xDS goroutine and the reconciliation loop, the readiness flag           *)
(* (internal/api/server.go), the xDS server (internal/xds/server.go) and   *)
(* the streams Envoys hold open on it.                                     *)
(*                                                                         *)
(* External, modelled from how Run uses them:                              *)
(*  - http.Server: ListenAndServe returns ErrServerClosed once Shutdown    *)
(*    has been called, even before it binds; Shutdown returns when no      *)
(*    request is in flight or its context ends.                            *)
(*  - grpc.Server: GracefulStop refuses new streams and returns when every *)
(*    open stream has ended; a Serve that is accepting then returns nil,   *)
(*    one that starts later returns an error.                              *)
(* When Run returns, main returns, and every goroutine ends with it; so    *)
(* does a panic in any goroutine.                                          *)
(***************************************************************************)
EXTENDS Tracker, RetryLoop

VARIABLES
    cancelled,  \* the signal context is done
    main,       \* where Run is
    result,     \* what Run returned
    ready,      \* AtomicReadiness.ready
    http,       \* where the HTTP goroutine is
    httpErrCh,  \* the buffered channel of the HTTP goroutine
    xds,        \* where the xDS goroutine is
    xdsErrCh,   \* the buffered channel of the xDS goroutine
    busy        \* an HTTP request is being handled

mainVars == <<main, result>>
httpVars == <<http, httpErrCh, busy>>
xdsVars == <<xds, xdsErrCh>>
vars == <<cancelled, main, result, ready, http, httpErrCh, xds, xdsErrCh, busy,
          stream, streams, gauge, loop, failures>>

\* The process is running.
Alive == main # "returned" /\ loop # "panicked"

\* GracefulStop has been called, and has returned.
Stopping == main \in {"draining", "shutdown", "closing", "joinHTTP", "joinXDS"}
Stopped == main \in {"shutdown", "closing", "joinHTTP", "joinXDS"}

\* Shutdown has been called.
Closing == main \in {"closing", "joinHTTP", "joinXDS"}

\* A stream on which a callback has run and whose handler has not returned.
Held == {s \in Stream : stream[s] \in {"opening", "open", "closing"}}

Init ==
    /\ TrackerInit
    /\ LoopInit
    /\ cancelled = FALSE
    /\ main = "select"
    /\ result = "none"
    /\ ready = FALSE
    /\ http = "starting" /\ httpErrCh = "empty" /\ busy = FALSE
    /\ xds = "starting" /\ xdsErrCh = "empty"

-----------------------------------------------------------------------------
\* Run.

return(value) ==
    /\ main' = "returned"
    /\ result' = value

\* The select takes ctx.Done().
SelectDone ==
    /\ main = "select"
    /\ cancelled
    /\ main' = "unready"
    /\ UNCHANGED <<result, ready, httpErrCh, xdsErrCh>>

\* The select takes what a server goroutine sent.
SelectHTTP ==
    /\ main = "select"
    /\ httpErrCh # "empty"
    /\ return(httpErrCh)
    /\ httpErrCh' = "empty"
    /\ UNCHANGED <<ready, xdsErrCh>>

SelectXDS ==
    /\ main = "select"
    /\ xdsErrCh # "empty"
    /\ return(xdsErrCh)
    /\ xdsErrCh' = "empty"
    /\ UNCHANGED <<ready, httpErrCh>>

\* SetReady(false).
Unready ==
    /\ main = "unready"
    /\ ready' = FALSE
    /\ main' = "stopping"
    /\ UNCHANGED <<result, httpErrCh, xdsErrCh>>

\* stopReconcile changes nothing, its parent context being done; GracefulStop
\* is called.
Stop ==
    /\ main = "stopping"
    /\ main' = "draining"
    /\ UNCHANGED <<result, ready, httpErrCh, xdsErrCh>>

\* GracefulStop returns: every stream has ended.
GracefulStop ==
    /\ main = "draining"
    /\ Held = {}
    /\ main' = "shutdown"
    /\ UNCHANGED <<result, ready, httpErrCh, xdsErrCh>>

\* Shutdown is called, with ShutdownTimeout.
Shutdown ==
    /\ main = "shutdown"
    /\ main' = "closing"
    /\ UNCHANGED <<result, ready, httpErrCh, xdsErrCh>>

\* No request is in flight any more.
ShutdownReturns ==
    /\ main = "closing"
    /\ ~ busy
    /\ main' = "joinHTTP"
    /\ UNCHANGED <<result, ready, httpErrCh, xdsErrCh>>

\* The timeout ends first.
ShutdownTimesOut ==
    /\ main = "closing"
    /\ return("error")
    /\ UNCHANGED <<ready, httpErrCh, xdsErrCh>>

JoinHTTP ==
    /\ main = "joinHTTP"
    /\ httpErrCh # "empty"
    /\ httpErrCh' = "empty"
    /\ main' = "joinXDS"
    /\ UNCHANGED <<result, ready, xdsErrCh>>

\* Mutant of JoinXDS: Run returns without waiting for the xDS goroutine.
JoinXDS_Skipped ==
    /\ main = "joinXDS"
    /\ return("nil")
    /\ UNCHANGED <<ready, httpErrCh, xdsErrCh>>

JoinXDS ==
    /\ main = "joinXDS"
    /\ xdsErrCh # "empty"
    /\ xdsErrCh' = "empty"
    /\ return("nil")
    /\ UNCHANGED <<ready, httpErrCh>>

MainStep ==
    /\ Alive
    /\ \/ SelectDone \/ SelectHTTP \/ SelectXDS
       \/ Unready \/ Stop \/ GracefulStop
       \/ Shutdown \/ ShutdownReturns \/ ShutdownTimesOut
       \/ JoinHTTP \/ JoinXDS
    /\ UNCHANGED <<cancelled, http, busy, xds, trackerVars, loopVars>>

-----------------------------------------------------------------------------
\* The HTTP goroutine.

\* SetReady(true), before the listener is bound.
Announce ==
    /\ http = "starting"
    /\ ready' = TRUE
    /\ http' = "binding"
    /\ UNCHANGED <<httpErrCh, busy>>

\* ListenAndServe binds the address.
Bind ==
    /\ http = "binding"
    /\ ~ Closing
    /\ http' = "serving"
    /\ UNCHANGED <<httpErrCh, busy, ready>>

\* Mutant of HTTPFails: the goroutine logs the error and sends nothing.
HTTPFails_Silent ==
    /\ http \in {"binding", "serving"}
    /\ ~ Closing
    /\ http' = "done"
    /\ UNCHANGED <<ready, httpErrCh, busy>>

\* Mutant of HTTPFails: the goroutine goes on after sending the error.
HTTPFails_NoReturn ==
    /\ http \in {"binding", "serving"}
    /\ ~ Closing
    /\ http' = "serving"
    /\ httpErrCh' = "error"
    /\ UNCHANGED <<ready, busy>>

\* ListenAndServe fails: the address is taken, or accepting broke.
HTTPFails ==
    /\ http \in {"binding", "serving"}
    /\ ~ Closing
    /\ http' = "done"
    /\ httpErrCh' = "error"
    /\ UNCHANGED <<ready, busy>>

\* ListenAndServe returns ErrServerClosed.
HTTPCloses ==
    /\ http \in {"binding", "serving"}
    /\ Closing
    /\ http' = "done"
    /\ httpErrCh' = "nil"
    /\ UNCHANGED <<ready, busy>>

HTTPStep ==
    /\ Alive
    /\ Announce \/ Bind \/ HTTPCloses
    /\ UNCHANGED <<cancelled, mainVars, xdsVars, trackerVars, loopVars>>

\* A client's request arrives; its handler returns.
RequestArrives ==
    /\ http = "serving" /\ ~ Closing
    /\ ~ busy
    /\ busy' = TRUE

RequestDone ==
    /\ busy
    /\ busy' = FALSE

Request ==
    /\ Alive
    /\ RequestArrives \/ RequestDone
    /\ UNCHANGED <<cancelled, mainVars, ready, http, httpErrCh, xdsVars, trackerVars, loopVars>>

-----------------------------------------------------------------------------
\* The xDS goroutine.

\* Mutant of XDSServe: Serve after GracefulStop waits to be stopped.
XDSServe_Blocks ==
    /\ xds = "starting"
    /\ ~ Stopping
    /\ xds' = "serving"
    /\ UNCHANGED xdsErrCh

\* Serve listens, and accepts unless the server was stopped before.
XDSServe ==
    /\ xds = "starting"
    /\ IF Stopping
       THEN xds' = "done" /\ xdsErrCh' = "error"
       ELSE xds' = "serving" /\ UNCHANGED xdsErrCh

\* Listening or accepting fails.
XDSFails ==
    /\ xds \in {"starting", "serving"}
    /\ ~ Stopping
    /\ xds' = "done"
    /\ xdsErrCh' = "error"

\* Serve returns nil once the server has stopped.
XDSStops ==
    /\ xds = "serving"
    /\ Stopped
    /\ xds' = "done"
    /\ xdsErrCh' = "nil"

XDSStep ==
    /\ Alive
    /\ XDSServe \/ XDSStops
    /\ UNCHANGED <<cancelled, mainVars, ready, httpVars, trackerVars, loopVars>>

-----------------------------------------------------------------------------
\* Envoys, faults and the signal.

\* A stream opens on a server that accepts it.
EnvoyConnects(s) == xds = "serving" /\ ~ Stopping /\ StreamOpen(s)

EnvoyStep ==
    /\ Alive
    /\ \E s \in Stream :
          \/ EnvoyConnects(s)
          \/ \E node \in Node \cup {NoNode} : StreamRequest(s, node)
          \/ StreamClosed(s)
    /\ UNCHANGED <<cancelled, mainVars, ready, httpVars, xdsVars, loopVars>>

CallbackStep ==
    /\ Alive
    /\ Callback
    /\ UNCHANGED <<cancelled, mainVars, ready, httpVars, xdsVars, loopVars>>

ListenerFails ==
    /\ Alive
    /\ \/ HTTPFails /\ UNCHANGED xdsVars
       \/ XDSFails /\ UNCHANGED <<ready, httpVars>>
    /\ UNCHANGED <<cancelled, mainVars, trackerVars, loopVars>>

LoopStep ==
    /\ Alive
    /\ \/ PassSucceeds
       \/ PassFails
       \/ NextPass
       \/ cancelled /\ LoopStops
    /\ UNCHANGED <<cancelled, mainVars, ready, httpVars, xdsVars, trackerVars>>

\* SIGINT or SIGTERM (signal.NotifyContext in main).
Cancel ==
    /\ Alive
    /\ ~ cancelled
    /\ cancelled' = TRUE
    /\ UNCHANGED <<mainVars, ready, httpVars, xdsVars, trackerVars, loopVars>>

Next ==
    \/ MainStep \/ HTTPStep \/ XDSStep \/ LoopStep \/ CallbackStep
    \/ Request \/ EnvoyStep \/ ListenerFails \/ Cancel

Spec == Init /\ [][Next]_vars

\* Every goroutine of the process that can run does so eventually, and the
\* timeout of Shutdown ends.  Nothing is assumed of clients, of Envoys, of the
\* network or of who sends the signal.
FairSpec ==
    /\ Spec
    /\ WF_vars(MainStep)
    /\ WF_vars(HTTPStep)
    /\ WF_vars(XDSStep)
    /\ WF_vars(CallbackStep)

-----------------------------------------------------------------------------
\* Properties.

\* The state is well formed; a server goroutine sends one result and ends, so
\* the one slot of its channel is enough (the sends in Run).
TypeOK ==
    /\ TrackerTypeOK
    /\ LoopTypeOK
    /\ cancelled \in BOOLEAN
    /\ main \in {"select", "unready", "stopping", "draining", "shutdown", "closing",
                 "joinHTTP", "joinXDS", "returned"}
    /\ result \in {"none", "nil", "error"}
    /\ ready \in BOOLEAN
    /\ http \in {"starting", "binding", "serving", "done"}
    /\ xds \in {"starting", "serving", "done"}
    /\ {httpErrCh, xdsErrCh} \subseteq {"empty", "nil", "error"}
    /\ httpErrCh # "empty" => http = "done"
    /\ xdsErrCh # "empty" => xds = "done"
    /\ busy \in BOOLEAN

\* Run returns nil only after a signal, with both server goroutines finished,
\* no HTTP request in flight, no xDS stream in the table and the connections
\* gauge back at zero: a zero exit code means a drain that completed.
NilMeansDrained ==
    result = "nil" =>
        /\ cancelled
        /\ http = "done" /\ xds = "done"
        /\ ~ busy
        /\ Connected = {} /\ gauge = 0

\* A server that stops on its own ends the process: Run returns, unless a
\* signal comes first (the two error cases of the select).
DeadServerEndsRun ==
    (http = "done" \/ xds = "done") ~> (~ Alive \/ cancelled)

\* After a signal Run returns, provided that every Envoy eventually closes its
\* stream: no order in which the goroutines start, fail and finish leaves Run
\* waiting on a channel nobody sends on.
DrainsOnceEnvoysLeave ==
    <>[](Held = {}) => (cancelled ~> ~ Alive)

\* After a signal Run returns, whatever Envoys do: "a graceful shutdown bounded
\* by cfg.ShutdownTimeout".
ShutdownBounded ==
    cancelled ~> ~ Alive

\* Once Run has set readiness to false for a drain, /readyz does not answer that
\* the process is ready: on cancellation it "flips readiness false immediately
\* (so a load balancer stops routing new traffic)".
UnreadyWhileDraining ==
    (main = "stopping" \/ Stopping) => ~ (http = "serving" /\ ready)

=============================================================================
