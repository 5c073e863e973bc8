------------------------------- MODULE Tracker -------------------------------
(***************************************************************************)
(* The table of open xDS streams (internal/xds/tracker.go) and the gauge   *)
(* its onOpen and onClose hooks drive.                                     *)
(*                                                                         *)
(* go-control-plane runs the callbacks of one stream one after the other,  *)
(* and those of different streams concurrently.  The hooks run after the   *)
(* callback has released the tracker's lock, so the table and the gauge    *)
(* change in two steps.                                                    *)
(***************************************************************************)
EXTENDS Integers, FiniteSets

CONSTANTS
    Stream,   \* stream ids; go-control-plane never reuses one
    Node,     \* node ids that Envoys report
    NoNode,   \* the empty node id
    NoEntry   \* marks a stream that is not in the table

ASSUME TrackerAssumption ==
    /\ NoNode \notin Node
    /\ NoEntry \notin Node \cup {NoNode}
    /\ IsFiniteSet(Stream)

VARIABLES
    stream,   \* how far each stream has got
    streams,  \* ConnectionTracker.streams: the node id of each entry
    gauge     \* metrics.EnvoyConnectionsTotal

trackerVars == <<stream, streams, gauge>>

TrackerInit ==
    /\ stream = [s \in Stream |-> "new"]
    /\ streams = [s \in Stream |-> NoEntry]
    /\ gauge = 0

\* The streams with an entry in the table (Connected and Count).
Connected == {s \in Stream : streams[s] # NoEntry}

Count == Cardinality(Connected)

\* StreamOpenFunc inserts the entry under the lock.
StreamOpen(s) ==
    /\ stream[s] = "new"
    /\ stream' = [stream EXCEPT ![s] = "opening"]
    /\ streams' = [streams EXCEPT ![s] = NoNode]
    /\ UNCHANGED gauge

\* It then calls onOpen without it.
OnOpen(s) ==
    /\ stream[s] = "opening"
    /\ stream' = [stream EXCEPT ![s] = "open"]
    /\ gauge' = gauge + 1
    /\ UNCHANGED streams

\* Mutant of StreamRequest: an empty node id overwrites the entry's.
StreamRequest_Overwrites(s, node) ==
    /\ stream[s] = "open"
    /\ streams' = IF streams[s] # NoEntry
                  THEN [streams EXCEPT ![s] = node]
                  ELSE streams
    /\ UNCHANGED <<stream, gauge>>

\* StreamRequestFunc, for a request that carries the node id or leaves it out.
StreamRequest(s, node) ==
    /\ stream[s] = "open"
    /\ streams' = IF streams[s] # NoEntry /\ node # NoNode
                  THEN [streams EXCEPT ![s] = node]
                  ELSE streams
    /\ UNCHANGED <<stream, gauge>>

\* StreamClosedFunc deletes the entry under the lock.
StreamClosed(s) ==
    /\ stream[s] = "open"
    /\ stream' = [stream EXCEPT ![s] = "closing"]
    /\ streams' = [streams EXCEPT ![s] = NoEntry]
    /\ UNCHANGED gauge

\* Mutant of OnClose: the gauge is lowered only while entries are left.
OnClose_LastIsKept(s) ==
    /\ stream[s] = "closing"
    /\ stream' = [stream EXCEPT ![s] = "closed"]
    /\ gauge' = IF Connected # {} THEN gauge - 1 ELSE gauge
    /\ UNCHANGED streams

\* It then calls onClose without it.
OnClose(s) ==
    /\ stream[s] = "closing"
    /\ stream' = [stream EXCEPT ![s] = "closed"]
    /\ gauge' = gauge - 1
    /\ UNCHANGED streams

\* A callback that has begun.
Callback == \E s \in Stream : OnOpen(s) \/ OnClose(s)

TrackerStep ==
    \/ Callback
    \/ \E s \in Stream :
          \/ StreamOpen(s)
          \/ \E node \in Node \cup {NoNode} : StreamRequest(s, node)
          \/ StreamClosed(s)

TrackerSpec == TrackerInit /\ [][TrackerStep]_trackerVars

-----------------------------------------------------------------------------
TrackerTypeOK ==
    /\ stream \in [Stream -> {"new", "opening", "open", "closing", "closed"}]
    /\ streams \in [Stream -> Node \cup {NoNode, NoEntry}]
    /\ gauge \in Int

\* The connections gauge is off from the table by exactly the callbacks that
\* have released the lock and not yet called their hook, so it is right
\* whenever none is under way and never drifts, however the callbacks of
\* different streams interleave (StreamOpenFunc, StreamClosedFunc).
GaugeFollowsTable ==
    gauge = Count - Cardinality({s \in Stream : stream[s] = "opening"})
                  + Cardinality({s \in Stream : stream[s] = "closing"})

\* An entry that names its Envoy names one until the stream closes, although
\* an Envoy sends its node id only with the first request of a stream
\* (StreamRequestFunc).
NodeIDSticks ==
    [][\A s \in Stream : streams[s] \in Node => streams'[s] \in Node \cup {NoEntry}]_trackerVars

=============================================================================
