--------------------------- MODULE HubRegistryProofs ---------------------------
(***************************************************************************)
(* Proofs about HubRegistry for every set of agents, administrators,       *)
(* connections and requests.  The inductive invariant is TypeOK together   *)
(* with TaskOK (a task past its first step knows its agent, a request its  *)
(* administrator, and broadcast_agent its way back) and RegistrationIsAlive.*)
(***************************************************************************)
EXTENDS HubRegistry, TLAPS

\* Where the tasks of the two kinds can be, and what they know there.
TaskOK ==
  /\ \A c \in Conns :
       /\ pc[c] \notin {"request", "release", "address"}
       /\ pc[c] # "idle" /\ pc[c] # "done" => agent[c] \in Agents /\ caddr[c] \in Addrs
       /\ pc[c] \in Broadcasting => ret[c] \in {"serving", "done"}
  /\ \A r \in Reqs :
       /\ pc[r] \in {"idle", "request", "release", "address"} \cup Broadcasting
       /\ pc[r] # "idle" => agent[r] \in Agents /\ radmin[r] \in Admins
       /\ pc[r] \in Broadcasting => ret[r] = "idle"

\* The inductive invariant: RegistrationIsAlive alone is not inductive, because a
\* task at an unknown place or without its agent could overwrite a registration.
IInv == TypeOK /\ TaskOK /\ RegistrationIsAlive

\* The empty maps of AppState::new, with no task started, satisfy the invariant.
LEMMA InitInv == Init => IInv
  BY HubConstants DEF Init, IInv, TypeOK, TaskOK, RegistrationIsAlive, Registered,
     Tasks, Labels, Broadcasting, View, Offline, Replies, NoReply

--------------------------------------------------------------------------------
\* Every critical section of a connection's or a request's task leaves the hub's
\* maps well-typed.
LEMMA TypeStep == IInv /\ [Next]_vars => TypeOK'
<1> SUFFICES ASSUME TypeOK, TaskOK, [Next]_vars PROVE TypeOK'
  BY DEF IInv
<1> USE HubConstants DEF TypeOK, Tasks, Labels, View, Offline, Replies, NoReply, Answer,
        Goto, Broadcast, Return, hubVars, taskVars
<1>1. ASSUME NEW c \in Conns, NEW a \in Agents, NEW addr \in Addrs, Hello(c, a, addr)
      PROVE  TypeOK'
  BY <1>1 DEF Hello
<1>2. ASSUME NEW c \in Conns, RejectHello(c) PROVE TypeOK'
  BY <1>2 DEF RejectHello
<1>3. ASSUME NEW c \in Conns, NEW s \in Statuses, Status(c, s) PROVE TypeOK'
  BY <1>3 DEF Status
<1>4. ASSUME NEW c \in Conns, Disconnect(c) PROVE TypeOK'
  BY <1>4 DEF Disconnect
<1>5. ASSUME NEW r \in Reqs, NEW m \in Admins, NEW a \in Agents,
             NEW op \in {"request", "release"}, StartRequest(r, m, a, op)
      PROVE  TypeOK'
  BY <1>5 DEF StartRequest
<1>6. ASSUME NEW c \in Conns, ConnStep(c) PROVE TypeOK'
  <2>1. CASE Register(c)       BY <2>1 DEF Register
  <2>2. CASE PublishAddr(c)    BY <2>2 DEF PublishAddr
  <2>3. CASE SendHelloOk(c)    BY <2>3 DEF SendHelloOk
  <2>4. CASE HelloOkFails(c)   BY <2>4 DEF HelloOkFails
  <2>5. CASE CleanupOnline(c)  BY <2>5 DEF CleanupOnline
  <2>6. CASE CleanupAddr(c)    BY <2>6 DEF CleanupAddr
  <2>7. CASE CleanupSession(c) BY <2>7 DEF CleanupSession
  <2>8. CASE ViewOnline(c)     BY <2>8 DEF ViewOnline, TaskOK
  <2>9. CASE ViewSession(c)    BY <2>9 DEF ViewSession, TaskOK
  <2>10. CASE SendView(c)      BY <2>10 DEF SendView, TaskOK
  <2> QED BY <1>6, <2>1, <2>2, <2>3, <2>4, <2>5, <2>6, <2>7, <2>8, <2>9, <2>10 DEF ConnStep
<1>7. ASSUME NEW r \in Reqs, ReqStep(r) PROVE TypeOK'
  <2>1. CASE RequestUnknown(r)  BY <2>1 DEF RequestUnknown
  <2>2. CASE RequestConflict(r) BY <2>2 DEF RequestConflict
  <2>3. CASE RequestGrant(r)    BY <2>3 DEF RequestGrant
  <2>4. CASE RequestAddress(r)  BY <2>4 DEF RequestAddress, TaskOK
  <2>5. CASE Release(r)         BY <2>5 DEF Release
  <2>6. CASE ReleaseNothing(r)  BY <2>6 DEF ReleaseNothing
  <2>7. CASE ViewOnline(r)      BY <2>7 DEF ViewOnline, TaskOK
  <2>8. CASE ViewSession(r)     BY <2>8 DEF ViewSession, TaskOK
  <2>9. CASE Respond(r)         BY <2>9 DEF Respond, TaskOK
  <2> QED BY <1>7, <2>1, <2>2, <2>3, <2>4, <2>5, <2>6, <2>7, <2>8, <2>9 DEF ReqStep
<1>8. CASE UNCHANGED vars
  BY <1>8 DEF vars
<1> HIDE DEF TypeOK
<1> QED
  BY <1>1, <1>2, <1>3, <1>4, <1>5, <1>6, <1>7, <1>8 DEF Next, Environment

\* Every step keeps tasks where handle_socket, cleanup and the request handlers
\* can be, with their agent, administrator and way back from broadcast_agent.
LEMMA TaskStep == IInv /\ [Next]_vars => TaskOK'
<1> SUFFICES ASSUME TypeOK, TaskOK, [Next]_vars PROVE TaskOK'
  BY DEF IInv
<1> USE HubConstants DEF TypeOK, TaskOK, Tasks, Broadcasting, Goto, Broadcast, Return,
        hubVars, taskVars
<1>1. ASSUME NEW c \in Conns, NEW a \in Agents, NEW addr \in Addrs, Hello(c, a, addr)
      PROVE  TaskOK'
  BY <1>1 DEF Hello
<1>2. ASSUME NEW c \in Conns, RejectHello(c) PROVE TaskOK'
  BY <1>2 DEF RejectHello
<1>3. ASSUME NEW c \in Conns, NEW s \in Statuses, Status(c, s) PROVE TaskOK'
  BY <1>3 DEF Status
<1>4. ASSUME NEW c \in Conns, Disconnect(c) PROVE TaskOK'
  BY <1>4 DEF Disconnect
<1>5. ASSUME NEW r \in Reqs, NEW m \in Admins, NEW a \in Agents,
             NEW op \in {"request", "release"}, StartRequest(r, m, a, op)
      PROVE  TaskOK'
  BY <1>5 DEF StartRequest
<1>6. ASSUME NEW c \in Conns, ConnStep(c) PROVE TaskOK'
  <2>1. CASE Register(c)       BY <2>1 DEF Register
  <2>2. CASE PublishAddr(c)    BY <2>2 DEF PublishAddr
  <2>3. CASE SendHelloOk(c)    BY <2>3 DEF SendHelloOk
  <2>4. CASE HelloOkFails(c)   BY <2>4 DEF HelloOkFails
  <2>5. CASE CleanupOnline(c)  BY <2>5 DEF CleanupOnline
  <2>6. CASE CleanupAddr(c)    BY <2>6 DEF CleanupAddr
  <2>7. CASE CleanupSession(c) BY <2>7 DEF CleanupSession
  <2>8. CASE ViewOnline(c)     BY <2>8 DEF ViewOnline
  <2>9. CASE ViewSession(c)    BY <2>9 DEF ViewSession
  <2>10. CASE SendView(c)      BY <2>10 DEF SendView
  <2> QED BY <1>6, <2>1, <2>2, <2>3, <2>4, <2>5, <2>6, <2>7, <2>8, <2>9, <2>10 DEF ConnStep
<1>7. ASSUME NEW r \in Reqs, ReqStep(r) PROVE TaskOK'
  <2>1. CASE RequestUnknown(r)  BY <2>1 DEF RequestUnknown
  <2>2. CASE RequestConflict(r) BY <2>2 DEF RequestConflict
  <2>3. CASE RequestGrant(r)    BY <2>3 DEF RequestGrant
  <2>4. CASE RequestAddress(r)  BY <2>4 DEF RequestAddress
  <2>5. CASE Release(r)         BY <2>5 DEF Release
  <2>6. CASE ReleaseNothing(r)  BY <2>6 DEF ReleaseNothing
  <2>7. CASE ViewOnline(r)      BY <2>7 DEF ViewOnline
  <2>8. CASE ViewSession(r)     BY <2>8 DEF ViewSession
  <2>9. CASE Respond(r)         BY <2>9 DEF Respond
  <2> QED BY <1>7, <2>1, <2>2, <2>3, <2>4, <2>5, <2>6, <2>7, <2>8, <2>9 DEF ReqStep
<1>8. CASE UNCHANGED vars
  BY <1>8 DEF vars
<1> HIDE DEF TaskOK
<1> QED
  BY <1>1, <1>2, <1>3, <1>4, <1>5, <1>6, <1>7, <1>8 DEF Next, Environment

--------------------------------------------------------------------------------
\* A connection's step either leaves the registration alone and the registered
\* connections registered, or is the registration or its removal.
LEMMA AliveStep == IInv /\ [Next]_vars => RegistrationIsAlive'
<1> SUFFICES ASSUME TypeOK, TaskOK, RegistrationIsAlive, [Next]_vars
             PROVE  RegistrationIsAlive'
  BY DEF IInv
<1> USE HubConstants DEF TypeOK, TaskOK, Tasks, RegistrationIsAlive, Registered, Broadcasting,
        Goto, Broadcast, Return, hubVars, taskVars
<1>1. ASSUME NEW c \in Conns, NEW a \in Agents, NEW addr \in Addrs, Hello(c, a, addr)
      PROVE  RegistrationIsAlive'
  BY <1>1 DEF Hello
<1>2. ASSUME NEW c \in Conns, RejectHello(c) PROVE RegistrationIsAlive'
  BY <1>2 DEF RejectHello
<1>3. ASSUME NEW c \in Conns, NEW s \in Statuses, Status(c, s) PROVE RegistrationIsAlive'
  BY <1>3 DEF Status
<1>4. ASSUME NEW c \in Conns, Disconnect(c) PROVE RegistrationIsAlive'
  BY <1>4 DEF Disconnect
<1>5. ASSUME NEW r \in Reqs, NEW m \in Admins, NEW a \in Agents,
             NEW op \in {"request", "release"}, StartRequest(r, m, a, op)
      PROVE  RegistrationIsAlive'
  BY <1>5 DEF StartRequest
<1>6. ASSUME NEW c \in Conns, ConnStep(c) PROVE RegistrationIsAlive'
  <2>1. CASE Register(c)       BY <2>1 DEF Register
  <2>2. CASE PublishAddr(c)    BY <2>2 DEF PublishAddr
  <2>3. CASE SendHelloOk(c)    BY <2>3 DEF SendHelloOk
  <2>4. CASE HelloOkFails(c)   BY <2>4 DEF HelloOkFails
  <2>5. CASE CleanupOnline(c)  BY <2>5 DEF CleanupOnline
  <2>6. CASE CleanupAddr(c)    BY <2>6 DEF CleanupAddr
  <2>7. CASE CleanupSession(c) BY <2>7 DEF CleanupSession
  <2>8. CASE ViewOnline(c)     BY <2>8 DEF ViewOnline
  <2>9. CASE ViewSession(c)    BY <2>9 DEF ViewSession
  <2>10. CASE SendView(c)      BY <2>10 DEF SendView
  <2> QED BY <1>6, <2>1, <2>2, <2>3, <2>4, <2>5, <2>6, <2>7, <2>8, <2>9, <2>10 DEF ConnStep
<1>7. ASSUME NEW r \in Reqs, ReqStep(r) PROVE RegistrationIsAlive'
  <2>1. CASE RequestUnknown(r)  BY <2>1 DEF RequestUnknown
  <2>2. CASE RequestConflict(r) BY <2>2 DEF RequestConflict
  <2>3. CASE RequestGrant(r)    BY <2>3 DEF RequestGrant
  <2>4. CASE RequestAddress(r)  BY <2>4 DEF RequestAddress
  <2>5. CASE Release(r)         BY <2>5 DEF Release
  <2>6. CASE ReleaseNothing(r)  BY <2>6 DEF ReleaseNothing
  <2>7. CASE ViewOnline(r)      BY <2>7 DEF ViewOnline
  <2>8. CASE ViewSession(r)     BY <2>8 DEF ViewSession
  <2>9. CASE Respond(r)         BY <2>9 DEF Respond
  <2> QED BY <1>7, <2>1, <2>2, <2>3, <2>4, <2>5, <2>6, <2>7, <2>8, <2>9 DEF ReqStep
<1>8. CASE UNCHANGED vars
  BY <1>8 DEF vars
<1> HIDE DEF RegistrationIsAlive
<1> QED
  BY <1>1, <1>2, <1>3, <1>4, <1>5, <1>6, <1>7, <1>8 DEF Next, Environment
--------------------------------------------------------------------------------
\* The three conjuncts together are an invariant of every behaviour of the hub.
LEMMA Invariance == Spec => []IInv
<1>1. IInv /\ [Next]_vars => IInv'
  BY TypeStep, TaskStep, AliveStep DEF IInv
<1> QED
  BY InitInv, <1>1, PTL DEF Spec

\* The hub's maps and tasks keep their types, for any number of agents,
\* connections, administrators and requests.
THEOREM TypeCorrect == Spec => []TypeOK
<1>1. IInv => TypeOK
  BY DEF IInv
<1> QED
  BY Invariance, <1>1, PTL

\* No zombie registration, for any number of connections of any number of
\* agents: a listed connection belongs to its agent and is still to clean up.
THEOREM RegistrationAlive == Spec => []RegistrationIsAlive
<1>1. IInv => RegistrationIsAlive
  BY DEF IInv
<1> QED
  BY Invariance, <1>1, PTL

--------------------------------------------------------------------------------
\* An agent goes offline only by the cleanup of its registered connection,
\* however many connections it has had.
THEOREM OfflineOnlyByOwn == Spec => OfflineByOwnConn
<1> DEFINE P == \A a \in Agents : online[a] # None /\ online'[a] = None
                  => pc[online[a]] = "c_online" /\ pc'[online[a]] = "c_addr"
<1>1. ASSUME IInv, [Next]_vars PROVE P
  <2> USE HubConstants DEF hubVars
  <2> TypeOK /\ TaskOK
    BY <1>1 DEF IInv
  <2>1. ASSUME NEW c \in Conns, ConnStep(c) PROVE P
    <3>1. CASE CleanupOnline(c)
      BY <3>1 DEF CleanupOnline, TypeOK, TaskOK, Tasks
    <3>2. CASE Register(c)
      BY <3>2 DEF Register, Goto, TypeOK, TaskOK, Tasks
    <3>3. CASE online' = online
      BY <3>3
    <3> QED
      BY <2>1, <3>1, <3>2, <3>3
      DEF ConnStep, PublishAddr, SendHelloOk, HelloOkFails, CleanupAddr, CleanupSession,
          ViewOnline, ViewSession, SendView
  <2>2. CASE online' = online
    BY <2>2
  <2> HIDE DEF P
  <2> QED
    BY <1>1, <2>1, <2>2
    DEF Next, Environment, Hello, RejectHello, Status, Disconnect, StartRequest,
        ReqStep, RequestUnknown, RequestConflict, RequestGrant, RequestAddress, Release,
        ReleaseNothing, ViewOnline, ViewSession, Respond, vars
<1> QED
  BY Invariance, <1>1, PTL DEF Spec, OfflineByOwnConn

--------------------------------------------------------------------------------
\* While an agent stays registered its last status is not lost, whichever
\* connection replaces which and whoever reports or cleans up in between.
THEOREM StatusSurvives == Spec => StatusSurvivesReplacement
<1> DEFINE P == \A a \in Agents : online[a] # None /\ online'[a] # None /\ last_status[a] # None
                  => last_status'[a] # None
<1>1. ASSUME IInv, [Next]_vars PROVE P
  <2> USE HubConstants DEF hubVars
  <2> TypeOK /\ TaskOK
    BY <1>1 DEF IInv
  <2>1. ASSUME NEW c \in Conns, CleanupOnline(c) PROVE P
    BY <2>1 DEF CleanupOnline, TypeOK
  <2>2. ASSUME NEW c \in Conns, NEW s \in Statuses, Status(c, s) PROVE P
    BY <2>2 DEF Status, TypeOK
  <2>3. CASE last_status' = last_status
    BY <2>3
  <2> HIDE DEF P
  <2> QED
    BY <1>1, <2>1, <2>2, <2>3
    DEF Next, Environment, ConnStep, ReqStep, Hello, RejectHello, Disconnect, StartRequest,
        Register, PublishAddr, SendHelloOk, HelloOkFails, CleanupAddr, CleanupSession,
        ViewOnline, ViewSession, SendView, RequestUnknown, RequestConflict, RequestGrant,
        RequestAddress, Release, ReleaseNothing, Respond, vars
<1> QED
  BY Invariance, <1>1, PTL DEF Spec, StatusSurvivesReplacement

--------------------------------------------------------------------------------
\* The control sessions of the hub implement the lock of ControlLock.
THEOREM SessionsImplementLock == Spec => SessionsAreALock
<1>1. Init => Lock!Init
  BY DEF Init, Lock!Init
<1>2. ASSUME IInv, [Next]_vars PROVE [Lock!Next]_sessions
  <2> USE HubConstants DEF hubVars, taskVars
  <2> TypeOK /\ TaskOK
    BY <1>2 DEF IInv
  <2>1. ASSUME NEW c \in Conns, CleanupSession(c) PROVE [Lock!Next]_sessions
    <3>1. agent[c] \in Agents
      BY <2>1 DEF CleanupSession, Broadcast, Goto, TaskOK
    <3>2. CASE sessions[agent[c]] = None
      BY <2>1, <3>1, <3>2 DEF CleanupSession, TypeOK
    <3>3. CASE sessions[agent[c]] # None
      BY <2>1, <3>1, <3>3 DEF CleanupSession, Lock!Next, Lock!Revoke
    <3> QED BY <3>2, <3>3
  <2>2. ASSUME NEW r \in Reqs, RequestGrant(r) PROVE Lock!Next
    <3>1. agent[r] \in Agents /\ radmin[r] \in Admins
      BY <2>2 DEF RequestGrant, Goto, TaskOK
    <3>2. Lock!Acquire(radmin[r], agent[r])
      BY <2>2 DEF RequestGrant, Lock!Acquire
    <3> QED BY <3>1, <3>2 DEF Lock!Next
  <2>3. ASSUME NEW r \in Reqs, Release(r) PROVE Lock!Next
    <3>1. agent[r] \in Agents /\ radmin[r] \in Admins
      BY <2>3 DEF Release, Broadcast, Goto, TaskOK
    <3>2. Lock!Release(radmin[r], agent[r])
      BY <2>3 DEF Release, Lock!Release
    <3> QED BY <3>1, <3>2 DEF Lock!Next
  <2>4. CASE UNCHANGED sessions
    BY <2>4
  <2> QED
    BY <1>2, <2>1, <2>2, <2>3, <2>4
    DEF Next, Environment, ConnStep, ReqStep, Hello, RejectHello, Status, Disconnect,
        StartRequest, Register, PublishAddr, SendHelloOk, HelloOkFails, CleanupOnline,
        CleanupAddr, ViewOnline, ViewSession, SendView, RequestUnknown,
        RequestConflict, RequestAddress, ReleaseNothing, Respond, vars
<1> QED
  BY Invariance, <1>1, <1>2, PTL DEF Spec, SessionsAreALock, Lock!Spec
================================================================================
