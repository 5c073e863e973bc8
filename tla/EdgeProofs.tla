----------------------------- MODULE EdgeProofs -----------------------------
(***************************************************************************)
(* Proofs about the two edges of the control plane.                        *)
(*                                                                         *)
(* Watcher, where instances come in: no instance is left behind that the   *)
(* watcher does not remember, for any pods, addresses, time-outs and       *)
(* numbers of faults and of late requests.                                 *)
(*                                                                         *)
(* Mesh, where snapshots go out: within the life of one control plane a    *)
(* version number names one content, and a watch that is left unanswered   *)
(* hides nothing, for any instances and any number of passes.              *)
(***************************************************************************)
EXTENDS Watcher, Mesh, TLAPS

-----------------------------------------------------------------------------
\* Watcher.

\* Time leaves the instances where they are and their addresses alone (the age
\* saturates once an instance is stale).
LEMMA AgedType ==
    ASSUME TypeOK, NEW n \in Nat
    PROVE  /\ Aged(n) \in [Pod -> Instance \cup {NoInstance}]
           /\ \A p \in Pod : Aged(n)[p] = NoInstance <=> registry[p] = NoInstance
<1>1. ASSUME NEW p \in Pod, registry[p] # NoInstance
      PROVE  Aged(n)[p] \in Instance
  <2>1. registry[p] \in Instance /\ registry[p].age \in 0 .. StaleAfter + 1
    BY <1>1 DEF TypeOK, Instance, Age
  <2> DEFINE a == IF registry[p].age + n > StaleAfter
                  THEN StaleAfter + 1 ELSE registry[p].age + n
  <2>2. a \in Age
    BY <2>1, WatcherAssumption DEF Age
  <2>3. Aged(n)[p] = [registry[p] EXCEPT !.age = a]
    BY <1>1 DEF Aged
  <2> HIDE DEF a
  <2> QED BY <2>1, <2>2, <2>3 DEF Instance
<1>2. \A p \in Pod : registry[p] = NoInstance => Aged(n)[p] = NoInstance
  BY DEF Aged
<1>3. Aged(n) = [p \in Pod |-> Aged(n)[p]]
  BY DEF Aged
<1>4. \A p \in Pod : Aged(n)[p] \in Instance \cup {NoInstance}
  BY <1>1, <1>2
<1>5. \A p \in Pod : Aged(n)[p] = NoInstance <=> registry[p] = NoInstance
  BY <1>1, <1>2, WatcherAssumption
<1> HIDE DEF Aged
<1> QED BY <1>3, <1>4, <1>5

\* What a request does to the registry (the HTTP handlers).
LEMMA AfterType ==
    ASSUME TypeOK, NEW req \in Request, req.op = "register" => req.address \in IP
    PROVE  /\ After(req) \in [Pod -> Instance \cup {NoInstance}]
           /\ \A p \in Pod \ {req.pod} : After(req)[p] = registry[p]
           /\ req.op = "register" => After(req)[req.pod] # NoInstance
           /\ req.op = "heartbeat" =>
                 (After(req)[req.pod] = NoInstance <=> registry[req.pod] = NoInstance)
           /\ req.op = "deregister" => After(req)[req.pod] = NoInstance
<1> DEFINE r == registry[req.pod]
           new == CASE req.op = "register" -> [address |-> req.address, age |-> 0]
                    [] req.op = "heartbeat" /\ r # NoInstance -> [r EXCEPT !.age = 0]
                    [] req.op = "heartbeat" /\ r = NoInstance -> NoInstance
                    [] req.op = "deregister" -> NoInstance
<1>1. req.pod \in Pod /\ req.op \in {"register", "heartbeat", "deregister"}
  BY DEF Request
<1>2. registry \in [Pod -> Instance \cup {NoInstance}] /\ 0 \in Age
  BY WatcherAssumption DEF TypeOK, Age
<1>3. After(req) = [registry EXCEPT ![req.pod] = new]
  BY DEF After
<1>4. CASE req.op = "register"
  <2>1. new = [address |-> req.address, age |-> 0]
    BY <1>4
  <2>2. new \in Instance
    BY <1>2, <1>4, <2>1 DEF Instance
  <2> HIDE DEF new
  <2> QED BY <1>1, <1>2, <1>3, <1>4, <2>2, WatcherAssumption
<1>5. CASE req.op = "heartbeat" /\ r # NoInstance
  <2>1. new = [r EXCEPT !.age = 0]
    BY <1>5
  <2>2. new \in Instance
    BY <1>1, <1>2, <1>5, <2>1 DEF Instance
  <2> HIDE DEF new
  <2> QED BY <1>1, <1>2, <1>3, <1>5, <2>2, WatcherAssumption
<1>6. CASE req.op = "deregister" \/ (req.op = "heartbeat" /\ r = NoInstance)
  <2>1. new = NoInstance
    BY <1>6
  <2> HIDE DEF new
  <2> QED BY <1>1, <1>2, <1>3, <1>6, <2>1
<1> QED BY <1>1, <1>4, <1>5, <1>6

-----------------------------------------------------------------------------
\* The first loop only visits pods that have an address, a call belongs to the
\* loop reconcile is in, and a registration carries an address.
CallInv ==
    /\ at = "register" => \A p \in todo : current[p] # Gone
    /\ call # NoCall =>
          /\ at \in {"register", "deregister"}
          /\ call.req.op = "deregister" <=> at = "deregister"
          /\ call.req.op = "register" => call.req.address \in IP
    /\ \A req \in late : req.op = "register" => req.address \in IP

\* A request that is sent is a call (register, heartbeat, deregister).
LEMMA SendType ==
    ASSUME TypeOK, NEW op \in {"register", "heartbeat", "deregister"}, NEW p \in Pod,
           send(op, p)
    PROVE  /\ call' \in Call /\ call' # NoCall /\ call'.status = "sent"
           /\ call'.req.op = op /\ call'.req.pod = p /\ call'.req.address = current[p]
BY WatcherAssumption DEF TypeOK, send, Call, Request

\* An answer or an error changes the status of the call only.
LEMMA StatusType ==
    ASSUME TypeOK, call # NoCall, NEW status \in {"sent", "ok", "error"},
           call' = [call EXCEPT !.status = status]
    PROVE  /\ call' \in Call /\ call' # NoCall /\ call'.status = status
           /\ call'.req = call.req /\ call.req \in Request
BY WatcherAssumption DEF TypeOK, Call

\* The steps of the watcher keep the state well formed (reconcile).
LEMMA WatcherTypeStep ==
    ASSUME TypeOK, CallInv, WatcherStep
    PROVE  TypeOK' /\ CallInv'
<1> USE DEF watcherVars, boundVars
<1>1. CASE List
  <2>1. call = NoCall
    BY <1>1 DEF List, CallInv
  <2> QED BY <1>1, <2>1 DEF List, TypeOK, CallInv
<1>2. ASSUME NEW p \in Pod, Visit(p)
      PROVE  TypeOK' /\ CallInv'
  <2> DEFINE op == IF p \in registered THEN "heartbeat" ELSE "register"
  <2>1. send(op, p) /\ op \in {"register", "heartbeat"}
    BY <1>2 DEF Visit
  <2>2. /\ call' \in Call /\ call' # NoCall
        /\ call'.req.op = op /\ call'.req.pod = p /\ call'.req.address = current[p]
    BY <2>1, SendType
  <2>3. current[p] \in IP
    BY <1>2 DEF Visit, CallInv, TypeOK
  <2> HIDE DEF op
  <2>4. TypeOK'
    BY <1>2, <2>2 DEF Visit, TypeOK
  <2> QED BY <1>2, <2>1, <2>2, <2>3, <2>4 DEF Visit, CallInv
<1>3. ASSUME NEW p \in Pod, VisitGone(p)
      PROVE  TypeOK' /\ CallInv'
  <2>1. /\ call' \in Call /\ call' # NoCall
        /\ call'.req.op = "deregister" /\ call'.req.pod = p
    BY <1>3, SendType DEF VisitGone
  <2>2. TypeOK'
    BY <1>3, <2>1 DEF VisitGone, TypeOK
  <2> QED BY <1>3, <2>1, <2>2 DEF VisitGone, CallInv
<1>4. CASE Return
  <2> DEFINE p == call.req.pod
  <2>1. /\ call # NoCall /\ p \in todo /\ p \in Pod
        /\ at \in {"register", "deregister"}
        /\ call.req.op = "deregister" <=> at = "deregister"
    BY <1>4 DEF Return, TypeOK, CallInv
  <2>2. CASE Done(p)
    <3>1. call' = NoCall /\ todo' = todo \ {p}
      BY <2>2 DEF Done
    <3>2. /\ registered' \subseteq Pod
          /\ call.req.op = "deregister" => registered \ {p} \subseteq registered'
          /\ UNCHANGED <<pods, registry, at, current, late, orphaned, boundVars>>
      BY <1>4, <2>1 DEF Return, HeartbeatReturns, RegisterReturns, DeregisterReturns, TypeOK
    <3> HIDE DEF p
    <3>3. TypeOK'
      BY <2>1, <3>1, <3>2 DEF TypeOK
    <3> QED BY <3>1, <3>2, <3>3 DEF CallInv
  <2>3. CASE call.req.op = "heartbeat" /\ send("register", p)
    <3>1. /\ call' \in Call /\ call' # NoCall
          /\ call'.req.op = "register" /\ call'.req.pod = p
          /\ call'.req.address = current[p]
      BY <2>1, <2>3, SendType
    <3>2. UNCHANGED <<pods, registry, at, current, late, orphaned, boundVars, registered>>
      BY <1>4, <2>3 DEF Return, HeartbeatReturns, RegisterReturns, DeregisterReturns
    <3>3. todo' \subseteq todo /\ p \in todo'
      BY <1>4, <2>1, <2>3, <3>1 DEF Return, HeartbeatReturns, RegisterReturns,
             DeregisterReturns, Done
    <3>4. at = "register" /\ current[p] \in IP
      BY <2>1, <2>3 DEF TypeOK, CallInv
    <3> HIDE DEF p
    <3>5. TypeOK'
      BY <3>1, <3>2, <3>3, <3>4 DEF TypeOK
    <3> QED BY <3>1, <3>2, <3>3, <3>4, <3>5 DEF CallInv
  <2> QED BY <1>4, <2>2, <2>3 DEF Return, HeartbeatReturns, RegisterReturns, DeregisterReturns
<1>5. CASE StartDeregister
  <2>1. call = NoCall
    BY <1>5 DEF StartDeregister, TypeOK
  <2> QED BY <1>5, <2>1 DEF StartDeregister, TypeOK, CallInv
<1>6. CASE Finish
  <2>1. call = NoCall
    BY <1>6 DEF Finish, TypeOK
  <2> QED BY <1>6, <2>1 DEF Finish, TypeOK, CallInv
<1>7. CASE Sleep
  <2>1. call = NoCall
    BY <1>7 DEF Sleep, CallInv
  <2>2. Aged(1) \in [Pod -> Instance \cup {NoInstance}]
    BY AgedType
  <2> QED BY <1>7, <2>1, <2>2 DEF Sleep, TypeOK, CallInv
<1> QED BY <1>1, <1>2, <1>3, <1>4, <1>5, <1>6, <1>7 DEF WatcherStep

\* So do the steps of the control plane and every fault.
LEMMA OutsideTypeStep ==
    ASSUME TypeOK, CallInv, Serve \/ Environment
    PROVE  TypeOK' /\ CallInv'
<1> USE DEF watcherVars, boundVars
<1>1. CASE Serve
  <2>1. /\ call # NoCall /\ call.req \in Request
        /\ call.req.op = "register" => call.req.address \in IP
    BY <1>1 DEF Serve, TypeOK, Call, CallInv
  <2>2. Answer(call.req) \in {"sent", "ok", "error"}
    BY DEF Answer
  <2>3. call' \in Call /\ call' # NoCall /\ call'.req = call.req
    BY <1>1, <2>1, <2>2, StatusType DEF Serve
  <2>4. registry' \in [Pod -> Instance \cup {NoInstance}]
    BY <1>1, <2>1, AfterType DEF Serve
  <2>5. UNCHANGED <<pods, watcherVars, late, orphaned, boundVars>>
    BY <1>1 DEF Serve
  <2>6. TypeOK'
    BY <2>1, <2>3, <2>4, <2>5 DEF TypeOK
  <2> QED BY <2>1, <2>3, <2>5, <2>6 DEF CallInv
<1>2. ASSUME NEW req \in late, ServeLate(req)
      PROVE  TypeOK' /\ CallInv'
  <2>1. req \in Request /\ (req.op = "register" => req.address \in IP)
    BY DEF TypeOK, CallInv
  <2>2. registry' \in [Pod -> Instance \cup {NoInstance}]
    BY <1>2, <2>1, AfterType DEF ServeLate
  <2> QED BY <1>2, <2>2 DEF ServeLate, TypeOK, CallInv
<1>3. ASSUME NEW p \in Pod, PodChanges(p)
      PROVE  TypeOK' /\ CallInv'
  <2>1. pods' \in [Pod -> IP \cup {Gone}] /\ moves' \in 0 .. MaxMoves
    BY <1>3, WatcherAssumption DEF PodChanges, TypeOK
  <2> QED BY <1>3, <2>1 DEF PodChanges, TypeOK, CallInv
<1>4. Fault => UNCHANGED <<pods, moves>> /\ faults' \in 0 .. MaxFaults
  BY WatcherAssumption DEF Fault, TypeOK
<1>5. CASE ListFails
  <2>1. call = NoCall
    BY <1>5 DEF ListFails, CallInv
  <2> QED BY <1>4, <1>5, <2>1 DEF ListFails, TypeOK, CallInv
<1>6. CASE Refuse \/ TimesOut \/ AnswerLost
  <2>1. /\ Fault /\ call # NoCall /\ call' = [call EXCEPT !.status = "error"]
        /\ UNCHANGED watcherVars
        /\ registry' = registry \/ registry' = Aged(Timeout)
        /\ late' = late \/ late' = late \cup {call.req}
        /\ orphaned' \in BOOLEAN
    BY <1>6 DEF Refuse, TimesOut, AnswerLost, GiveUp, TypeOK
  <2>2. call' \in Call /\ call' # NoCall /\ call'.req = call.req /\ call.req \in Request
    BY <2>1, StatusType
  <2>3. registry' \in [Pod -> Instance \cup {NoInstance}]
    BY <2>1, AgedType, WatcherAssumption DEF TypeOK
  <2>4. TypeOK'
    BY <1>4, <2>1, <2>2, <2>3 DEF TypeOK
  <2> QED BY <2>1, <2>2, <2>4 DEF CallInv
<1>7. CASE WatcherRestarts
  <2>1. late' = late \/ (call # NoCall /\ late' = late \cup {call.req})
    BY <1>7 DEF WatcherRestarts, GiveUp
  <2>2. call # NoCall => call.req \in Request
    BY DEF TypeOK, Call
  <2>3. TypeOK'
    BY <1>4, <1>7, <2>1, <2>2 DEF WatcherRestarts, TypeOK
  <2>4. \A req \in late' : req.op = "register" => req.address \in IP
    BY <2>1 DEF CallInv
  <2> QED BY <1>7, <2>3, <2>4 DEF WatcherRestarts, CallInv
<1>8. CASE ControlPlaneRestarts
  BY <1>4, <1>8 DEF ControlPlaneRestarts, TypeOK, CallInv
<1> QED BY <1>1, <1>2, <1>3, <1>5, <1>6, <1>7, <1>8 DEF Environment

\* Both parts hold throughout.
LEMMA CallsWellFormed == Spec => [](TypeOK /\ CallInv)
<1>1. Init => TypeOK /\ CallInv
  <2> SUFFICES ASSUME Init PROVE TypeOK /\ CallInv
    OBVIOUS
  <2>1. orphaned \in BOOLEAN
    BY Zenon DEF Init
  <2>2. moves \in 0 .. MaxMoves /\ faults \in 0 .. MaxFaults
    BY WatcherAssumption DEF Init
  <2> QED BY <2>1, <2>2 DEF Init, TypeOK, CallInv
<1>2. TypeOK /\ CallInv /\ [Next]_vars => TypeOK' /\ CallInv'
  <2> SUFFICES ASSUME TypeOK, CallInv, [Next]_vars PROVE TypeOK' /\ CallInv'
    OBVIOUS
  <2>1. CASE UNCHANGED vars
    BY <2>1 DEF vars, TypeOK, CallInv
  <2> QED BY <2>1, WatcherTypeStep, OutsideTypeStep DEF Next
<1> QED BY <1>1, <1>2, PTL DEF Spec

\* The state stays well formed: the second loop of reconcile only visits
\* instances the watcher remembers (TypeOK).
THEOREM TypeCorrect == Spec => []TypeOK
BY CallsWellFormed, PTL

-----------------------------------------------------------------------------
\* While nothing was orphaned, an instance whose deregistration was answered is
\* not in the registry: nobody registered it behind the watcher's back.
DeregisteredIsGone ==
    (~ orphaned /\ call # NoCall /\ call.req.op = "deregister" /\ call.status = "ok")
        => registry[call.req.pod] = NoInstance

\* The watcher's own steps keep both (reconcile).
LEMMA WatcherRemembers ==
    ASSUME TypeOK, CallInv, NothingForgotten, DeregisteredIsGone, WatcherStep
    PROVE  NothingForgotten' /\ DeregisteredIsGone'
<1> USE DEF watcherVars
<1>o. orphaned' = orphaned
  BY DEF WatcherStep, List, Visit, VisitGone, Return, StartDeregister, Finish, Sleep
<1>1. CASE List \/ StartDeregister \/ Finish
  BY <1>1 DEF List, StartDeregister, Finish, NothingForgotten, DeregisteredIsGone
<1>2. ASSUME NEW p \in Pod, Visit(p) \/ VisitGone(p)
      PROVE  NothingForgotten' /\ DeregisteredIsGone'
  <2>1. /\ call = NoCall /\ UNCHANGED <<registry, registered>>
        /\ call'.status = "sent"
    BY <1>2 DEF Visit, VisitGone, send
  <2> QED BY <1>o, <2>1 DEF NothingForgotten, DeregisteredIsGone
<1>3. CASE Return
  <2> DEFINE p == call.req.pod
  <2>1. call # NoCall /\ p \in Pod /\ registry' = registry
    BY <1>3 DEF Return, TypeOK
  <2>2. CASE HeartbeatReturns(p)
    <3>1. /\ call.req.op = "heartbeat" /\ registered' = registered
          /\ call' = NoCall \/ call'.status = "sent"
      BY <2>2 DEF HeartbeatReturns, Done, send
    <3> QED BY <1>o, <2>1, <3>1 DEF NothingForgotten, DeregisteredIsGone
  <2>3. CASE RegisterReturns(p)
    <3>1. /\ call.req.op = "register" /\ call' = NoCall
          /\ registered' = IF call.status = "ok" THEN registered \cup {p} ELSE registered
      BY <2>3 DEF RegisterReturns, Done
    <3> QED BY <1>o, <2>1, <3>1 DEF NothingForgotten, DeregisteredIsGone
  <2>4. CASE DeregisterReturns(p)
    <3>1. /\ call.req.op = "deregister" /\ call' = NoCall
          /\ registered' = IF call.status = "ok" THEN registered \ {p} ELSE registered
      BY <2>4 DEF DeregisterReturns, Done
    <3> QED BY <1>o, <2>1, <3>1 DEF NothingForgotten, DeregisteredIsGone
  <2> QED BY <1>3, <2>2, <2>3, <2>4 DEF Return
<1>4. CASE Sleep
  <2>1. \A p \in Pod : registry'[p] = NoInstance <=> registry[p] = NoInstance
    BY <1>4, AgedType DEF Sleep
  <2>2. call = NoCall /\ UNCHANGED <<call, registered>>
    BY <1>4 DEF Sleep, CallInv
  <2> QED BY <1>o, <2>1, <2>2 DEF NothingForgotten, DeregisteredIsGone
<1> QED BY <1>1, <1>2, <1>3, <1>4 DEF WatcherStep

\* So do the control plane and every fault: what they put into the registry
\* without the watcher learning of it counts as orphaned.
LEMMA OutsideRemembers ==
    ASSUME TypeOK, CallInv, NothingForgotten, DeregisteredIsGone, Serve \/ Environment
    PROVE  NothingForgotten' /\ DeregisteredIsGone'
<1> USE DEF watcherVars
<1>1. CASE Serve
  <2>1. /\ call # NoCall /\ call.status = "sent" /\ call.req \in Request
        /\ call.req.op = "register" => call.req.address \in IP
    BY <1>1 DEF Serve, TypeOK, Call, CallInv
  <2>2. Answer(call.req) \in {"ok", "error"}
    BY DEF Answer
  <2>3. call' # NoCall /\ call'.req = call.req /\ call'.status = Answer(call.req)
    BY <1>1, <2>1, <2>2, StatusType DEF Serve
  <2>4. /\ registry' = After(call.req) /\ UNCHANGED <<registered, orphaned>>
    BY <1>1 DEF Serve
  <2>5. /\ \A p \in Pod \ {call.req.pod} : registry'[p] = registry[p]
        /\ call.req.op = "heartbeat" =>
              (registry'[call.req.pod] = NoInstance <=> registry[call.req.pod] = NoInstance)
        /\ call.req.op = "deregister" => registry'[call.req.pod] = NoInstance
    BY <2>1, <2>4, AfterType
  <2>6. call.req.op = "register" => Answer(call.req) = "ok"
    BY DEF Answer
  <2>7. call.req.pod \in Pod /\ call.req.op \in {"register", "heartbeat", "deregister"}
    BY <2>1 DEF Request
  <2>8. NothingForgotten'
    BY <2>1, <2>3, <2>4, <2>5, <2>6, <2>7 DEF NothingForgotten
  <2> QED BY <2>3, <2>5, <2>8 DEF DeregisteredIsGone
<1>2. ASSUME NEW req \in late, ServeLate(req)
      PROVE  NothingForgotten' /\ DeregisteredIsGone'
  <2>1. req \in Request /\ (req.op = "register" => req.address \in IP)
    BY DEF TypeOK, CallInv
  <2>2. /\ registry' = After(req) /\ UNCHANGED <<call, registered>>
        /\ orphaned' = (orphaned \/ req.op = "register")
    BY <1>2 DEF ServeLate
  <2>3. req.op \in {"register", "heartbeat", "deregister"} /\ req.pod \in Pod
    BY <2>1 DEF Request
  <2>4. ~ orphaned' => ~ orphaned /\ \A p \in Pod :
            registry[p] = NoInstance => registry'[p] = NoInstance
    BY <2>1, <2>2, <2>3, AfterType
  <2>5. call # NoCall => call.req.pod \in Pod
    BY DEF TypeOK
  <2> QED BY <2>2, <2>4, <2>5 DEF NothingForgotten, DeregisteredIsGone
<1>3. ASSUME NEW p \in Pod, PodChanges(p)
      PROVE  NothingForgotten' /\ DeregisteredIsGone'
  BY <1>3 DEF PodChanges, NothingForgotten, DeregisteredIsGone
<1>4. CASE ListFails
  BY <1>4 DEF ListFails, NothingForgotten, DeregisteredIsGone
<1>5. CASE Refuse \/ TimesOut \/ AnswerLost
  <2>1. /\ call # NoCall /\ call' = [call EXCEPT !.status = "error"]
        /\ registered' = registered
        /\ registry' = registry \/ registry' = Aged(Timeout)
    BY <1>5 DEF Refuse, TimesOut, AnswerLost
  <2>4. ~ orphaned' => ~ orphaned /\ ~ (call.req.op = "register" /\ call.status = "ok")
    <3>1. CASE AnswerLost
      BY Zenon, <3>1 DEF AnswerLost
    <3>2. CASE Refuse \/ TimesOut
      <4>1. orphaned' = orphaned /\ call.status = "sent"
        BY Zenon, <3>2 DEF Refuse, TimesOut
      <4> QED BY <4>1
    <3> QED BY <1>5, <3>1, <3>2
  <2>2. call'.status = "error"
    BY <2>1, StatusType
  <2>3. \A p \in Pod : registry'[p] = NoInstance <=> registry[p] = NoInstance
    BY <2>1, AgedType, WatcherAssumption
  <2> QED BY <2>1, <2>2, <2>3, <2>4 DEF NothingForgotten, DeregisteredIsGone
<1>6. CASE WatcherRestarts
  BY <1>6 DEF WatcherRestarts, NothingForgotten, DeregisteredIsGone
<1>7. CASE ControlPlaneRestarts
  <2>1. call # NoCall => call.req.pod \in Pod
    BY DEF TypeOK
  <2> QED BY <1>7, <2>1 DEF ControlPlaneRestarts, NothingForgotten, DeregisteredIsGone
<1> QED BY <1>1, <1>2, <1>3, <1>4, <1>5, <1>6, <1>7 DEF Environment

\* Refused, lost, late and repeated calls and restarts of the control plane
\* leave no instance behind that the watcher will not deregister
\* (NothingForgotten).
THEOREM NothingIsForgotten == Spec => []NothingForgotten
<1>1. Init => NothingForgotten /\ DeregisteredIsGone
  BY DEF Init, NothingForgotten, DeregisteredIsGone
<1>2. /\ TypeOK /\ CallInv /\ NothingForgotten /\ DeregisteredIsGone /\ [Next]_vars
      => NothingForgotten' /\ DeregisteredIsGone'
  <2> SUFFICES ASSUME TypeOK, CallInv, NothingForgotten, DeregisteredIsGone, [Next]_vars
               PROVE  NothingForgotten' /\ DeregisteredIsGone'
    OBVIOUS
  <2>1. CASE UNCHANGED vars
    BY <2>1 DEF vars, NothingForgotten, DeregisteredIsGone
  <2> QED BY <2>1, WatcherRemembers, OutsideRemembers DEF Next
<1> QED BY <1>1, <1>2, CallsWellFormed, PTL DEF Spec

-----------------------------------------------------------------------------
\* Mesh.

\* The type invariant is inductive (Mesh).
THEOREM MeshTypeCorrect == MeshSpec => []MeshTypeOK
<1>m. 0 \in 0 .. MaxVersion
  BY MeshAssumption
<1>1. MeshInit => MeshTypeOK
  BY <1>m DEF MeshInit, MeshTypeOK
<1>2. MeshTypeOK /\ [MeshNext]_meshVars => MeshTypeOK'
  <2> SUFFICES ASSUME MeshTypeOK, [MeshNext]_meshVars PROVE MeshTypeOK'
    OBVIOUS
  <2> USE DEF MeshTypeOK, passVars, envoyVars
  <2>1. CASE Change
    BY <2>1 DEF Change
  <2>2. CASE NextVersion
    <3>1. version' \in 0 .. MaxVersion /\ number' \in Number
      BY <2>2, MeshAssumption DEF NextVersion, BeforeLast, Number
    <3> QED BY <2>2, <3>1 DEF NextVersion
  <2>3. CASE PassFails
    BY <2>3 DEF PassFails
  <2>4. CASE SetSnapshot
    <3>1. number \in Number /\ served' \in Snapshot
      BY <2>4 DEF SetSnapshot, Snapshot
    <3>2. served' # None
      BY <3>1, MeshAssumption
    <3> QED BY <2>4, <3>1, <3>2 DEF SetSnapshot, Respond
  <2>5. CASE Connect
    BY <2>5 DEF Connect
  <2>6. CASE CreateWatch
    BY <2>6 DEF CreateWatch
  <2>7. CASE Apply
    BY <2>7 DEF Apply
  <2>8. CASE Disconnect
    BY <2>8 DEF Disconnect
  <2>9. CASE EnvoyRestarts
    BY <2>9 DEF EnvoyRestarts
  <2>10. CASE Restart
    BY <1>m, <2>10 DEF Restart
  <2>11. CASE UNCHANGED meshVars
    BY <2>11 DEF meshVars
  <2> QED BY <2>1, <2>2, <2>3, <2>4, <2>5, <2>6, <2>7, <2>8, <2>9, <2>10, <2>11 DEF MeshNext
<1> QED BY <1>1, <1>2, PTL DEF MeshSpec

\* The snapshots of the running process that can still be met: what the cache
\* serves, what is on its way, and what the Envoy holds.
Current == ({served, push} \cup (IF mine THEN {held} ELSE {})) \ {None}

\* The counter is ahead of them all, and no two of them share a number.  The
\* pass under way has the last number given out, which none of them carries
\* yet; that is what makes the first two facts inductive (version.Add).
NumbersDiffer ==
    /\ number # None => number = version
    /\ \A x \in Current : x.number <= version
    /\ \A x \in Current : number # None => x.number < version
    /\ \A x, y \in Current : x.number = y.number => x = y

\* A snapshot that can be met has a number (MeshTypeOK).
LEMMA CurrentNumber ==
    ASSUME MeshTypeOK, NEW x \in Current PROVE x.number \in Nat
<1>1. x \in Snapshot
  BY DEF MeshTypeOK, Current
<1>2. x.number \in Number
  BY <1>1 DEF Snapshot
<1> QED BY <1>2, MeshAssumption DEF Number

\* A step that brings in no snapshot and takes no number keeps that.
LEMMA FewerKeepsNumbers ==
    ASSUME NumbersDiffer, Current' \subseteq Current, version' = version,
           number' = number \/ number' = None
    PROVE  NumbersDiffer'
BY DEF NumbersDiffer

\* Every step keeps it: a pass takes a number above all others, and its snapshot
\* is the first to carry it (NextVersion, SetSnapshot).
LEMMA StepKeepsNumbers ==
    ASSUME MeshTypeOK, NumbersDiffer, [MeshNext]_meshVars
    PROVE  NumbersDiffer'
<1> USE DEF passVars, envoyVars
<1>v. version \in Nat
  BY MeshAssumption DEF MeshTypeOK
<1>1. CASE NextVersion
  <2>1. Current' = Current /\ version' = version + 1 /\ number' = version'
    BY <1>1 DEF NextVersion, Current
  <2>2. \A x \in Current : x.number \in Nat /\ x.number <= version
    BY CurrentNumber DEF NumbersDiffer
  <2> QED BY <1>v, <2>1, <2>2 DEF NumbersDiffer
<1>2. CASE SetSnapshot
  <2>1. /\ number = version /\ number' = None /\ version' = version
        /\ held' = held /\ mine' = mine
    BY <1>2 DEF SetSnapshot, NumbersDiffer
  <2>2. served'.number = version
    BY <1>2, <2>1 DEF SetSnapshot
  <2>3. push' = push \/ push' = served'
    BY <1>2 DEF SetSnapshot, Respond
  <2>4. Current' \subseteq Current \cup {served'}
    BY <2>1, <2>3 DEF Current
  <2>5. \A x \in Current : x.number \in Nat /\ x.number < version
    BY <1>2, CurrentNumber DEF SetSnapshot, NumbersDiffer
  <2>6. \A x \in Current' : x.number <= version'
    BY <1>v, <2>1, <2>2, <2>4, <2>5
  <2>7. \A x, y \in Current' : x.number = y.number => x = y
    BY <1>v, <2>2, <2>4, <2>5 DEF NumbersDiffer
  <2> QED BY <2>1, <2>6, <2>7 DEF NumbersDiffer
<1>3. CASE Change \/ PassFails \/ Connect \/ CreateWatch
  <2>1. Current' \subseteq Current
    BY <1>3 DEF Change, PassFails, Connect, CreateWatch, Current
  <2>2. version' = version /\ (number' = number \/ number' = None)
    BY <1>3 DEF Change, PassFails, Connect, CreateWatch
  <2> QED BY <2>1, <2>2, FewerKeepsNumbers
<1>4. CASE Apply \/ Disconnect \/ EnvoyRestarts
  <2>1. Current' \subseteq Current
    BY <1>4 DEF Apply, Disconnect, EnvoyRestarts, Current
  <2>2. version' = version /\ number' = number
    BY <1>4 DEF Apply, Disconnect, EnvoyRestarts
  <2> QED BY <2>1, <2>2, FewerKeepsNumbers
<1>5. CASE Restart
  <2>1. Current' = {} /\ number' = None
    BY <1>5 DEF Restart, Current
  <2> QED BY <2>1 DEF NumbersDiffer
<1>6. CASE UNCHANGED meshVars
  BY <1>6 DEF meshVars, NumbersDiffer, Current
<1> QED BY <1>1, <1>2, <1>3, <1>4, <1>5, <1>6 DEF MeshNext

\* An Envoy that acknowledged the version the cache serves, both from the same
\* process, has the content the cache serves, however passes, failures, pushes,
\* broken streams and restarts interleave, because the counter only grows
\* (VersionNamesContent, version.Add).
THEOREM VersionAlwaysNamesContent == MeshSpec => []VersionNamesContent
<1>1. MeshInit => NumbersDiffer
  BY DEF MeshInit, NumbersDiffer, Current
<1>2. MeshTypeOK /\ NumbersDiffer /\ [MeshNext]_meshVars => NumbersDiffer'
  BY StepKeepsNumbers
<1>3. NumbersDiffer => VersionNamesContent
  BY DEF NumbersDiffer, VersionNamesContent, InSync, Current
<1> QED BY <1>1, <1>2, <1>3, MeshTypeCorrect, PTL DEF MeshSpec

\* A watch the cache leaves open has nothing to report: the Envoy behind it
\* acknowledged the version that is served.
WatchIsAnswered == (stream = "watch" /\ served # None) => InSync

\* An Envoy whose watch is open has what the cache serves, if both come from
\* the running process.
QuietWatchHidesNothing ==
    (stream = "watch" /\ served # None /\ mine) => held = served

\* A snapshot set while the watch is open answers it, and a watch opens only
\* when there is nothing to answer (Respond, CreateWatch).
LEMMA StepKeepsWatch ==
    ASSUME WatchIsAnswered, [MeshNext]_meshVars
    PROVE  WatchIsAnswered'
<1> USE DEF WatchIsAnswered, InSync, passVars, envoyVars
<1>1. CASE SetSnapshot
  <2>1. held' = held /\ served'.number = number
    BY <1>1 DEF SetSnapshot
  <2>2. CASE stream = "watch" /\ (held = None \/ held.number # served'.number)
    <3>1. stream' = "push"
      BY <1>1, <2>2 DEF SetSnapshot, Respond
    <3> QED BY <3>1
  <2>3. CASE ~ (stream = "watch" /\ (held = None \/ held.number # served'.number))
    <3>1. stream' = stream
      BY <1>1, <2>3 DEF SetSnapshot, Respond
    <3> QED BY <2>1, <2>3, <3>1
  <2> QED BY <2>2, <2>3
<1>2. CASE CreateWatch
  BY <1>2 DEF CreateWatch
<1>3. CASE Change \/ NextVersion \/ PassFails
  BY <1>3 DEF Change, NextVersion, PassFails
<1>4. CASE Connect \/ Apply \/ Disconnect \/ EnvoyRestarts \/ Restart
  <2>1. stream' # "watch"
    BY <1>4 DEF Connect, Apply, Disconnect, EnvoyRestarts, Restart
  <2> QED BY <2>1
<1>5. CASE UNCHANGED meshVars
  BY <1>5 DEF meshVars
<1> QED BY <1>1, <1>2, <1>3, <1>4, <1>5 DEF MeshNext

\* While the cache leaves the watch of an Envoy unanswered, that Envoy has the
\* snapshot the cache serves, whatever passes, broken streams and restarts came
\* before, as long as it got its snapshot from the running process.  This is the
\* part of EnvoysConverge that does not need fairness.
THEOREM QuietWatchAlwaysHidesNothing == MeshSpec => []QuietWatchHidesNothing
<1>1. MeshInit => WatchIsAnswered
  BY DEF MeshInit, WatchIsAnswered
<1>2. WatchIsAnswered /\ VersionNamesContent => QuietWatchHidesNothing
  BY DEF WatchIsAnswered, VersionNamesContent, QuietWatchHidesNothing
<1> QED BY <1>1, <1>2, StepKeepsWatch, VersionAlwaysNamesContent, PTL DEF MeshSpec

=============================================================================
