------------------------------ MODULE HubRegistry ------------------------------
(***************************************************************************)
(* The hub's registry of connected laptops and its control sessions        *)
(* (kmc-hub: agent_ws.rs, state.rs, the session handlers of routes.rs).    *)
(*                                                                         *)
(* Every WebSocket connection of an agent and every HTTP request is a task *)
(* of a multi-threaded runtime.  The tasks share the maps of AppState,     *)
(* each behind a mutex of its own, so a handler that touches three maps    *)
(* can be interleaved with the others between the three.  One action is    *)
(* one critical section.  The maps:                                        *)
(*   online[a]       the conn_id of the registered connection, or None     *)
(*   last_status[a]  the status stored in that registration                *)
(*   agent_addr[a]   the address an administrator is told to stream from   *)
(*   sessions[a]     the administrator in control                          *)
(*   feed[a]         the last AgentUpdated view broadcast about a          *)
(* A connection stands for its own conn_id: NEXT_CONN_ID only makes them   *)
(* different, and the code only compares them for equality.                *)
(***************************************************************************)
CONSTANTS
  Agents,    \* agent ids a request may name
  Laptops,   \* the agent ids with a row in the laptops table
  Admins,    \* administrators holding a token
  Conns,     \* agent WebSocket connections (bounds how many there ever are)
  Reqs,      \* slots for HTTP requests being handled at the same time
  Addrs,     \* stream addresses
  Statuses,  \* contents of a status report
  None

ASSUME HubConstants ==
  /\ Laptops \subseteq Agents
  /\ Conns \cap Reqs = {}
  /\ None \notin Agents \cup Admins \cup Conns \cup Addrs \cup Statuses

VARIABLES online, last_status, agent_addr, sessions, feed,
          pc,      \* where each task stands
          agent,   \* the agent the task is about
          view,    \* the AgentView the task is putting together
          ret,     \* where the task goes after broadcast_agent
          caddr,   \* connection: the address it will publish
          radmin,  \* request: the authenticated administrator
          reply    \* request: the answer sent to the administrator

hubVars  == <<online, last_status, agent_addr, sessions, feed>>
taskVars == <<pc, agent, view, ret, caddr, radmin, reply>>
vars     == <<hubVars, taskVars>>

Tasks == Conns \cup Reqs

\* AgentView: what an administrator's table shows of a laptop.
View == [online        : BOOLEAN,
         status        : Statuses \cup {None},
         controlled_by : Admins \cup {None}]
Offline == [online |-> FALSE, status |-> None, controlled_by |-> None]

Labels == {"idle", "insert", "publish", "hello_ok", "b_online", "b_sessions",
           "b_send", "serving", "c_online", "c_addr", "c_sessions",
           "request", "release", "address", "done"}
Replies == [code : {"none", "granted", "conflict", "unknown", "forbidden", "ok"},
            addr : Addrs \cup {None}]
NoReply == [code |-> "none", addr |-> None]

Answer(code, addr) == [code |-> code, addr |-> addr]

Init ==
  /\ online      = [a \in Agents |-> None]
  /\ last_status = [a \in Agents |-> None]
  /\ agent_addr  = [a \in Agents |-> None]
  /\ sessions    = [a \in Agents |-> None]
  /\ feed        = [a \in Agents |-> Offline]
  /\ pc     = [t \in Tasks |-> "idle"]
  /\ agent  = [t \in Tasks |-> None]
  /\ view   = [t \in Tasks |-> Offline]
  /\ ret    = [t \in Tasks |-> "done"]
  /\ caddr  = [c \in Conns |-> None]
  /\ radmin = [r \in Reqs |-> None]
  /\ reply  = [r \in Reqs |-> NoReply]

Goto(t, from, to) ==
  /\ pc[t] = from
  /\ pc' = [pc EXCEPT ![t] = to]

\* Enter broadcast_agent and continue at `after' when it has returned.
Broadcast(t, from, after) ==
  /\ Goto(t, from, "b_online")
  /\ ret' = [ret EXCEPT ![t] = after]

--------------------------------------------------------------------------------
(* agent_ws::handle_socket *)

\* The first text frame is a Hello whose id and token match a laptops row.
\* addr is the reported tailnet address, or the peer address when none is.
Hello(c, a, addr) ==
  /\ a \in Laptops
  /\ Goto(c, "idle", "insert")
  /\ agent' = [agent EXCEPT ![c] = a]
  /\ caddr' = [caddr EXCEPT ![c] = addr]
  /\ UNCHANGED <<hubVars, view, ret, radmin, reply>>

\* No valid Hello: wrong id or token, another first frame, a close, an error.
RejectHello(c) ==
  /\ Goto(c, "idle", "done")
  /\ UNCHANGED <<hubVars, agent, view, ret, caddr, radmin, reply>>

\* Mutant of Register: the previous status is not handed over.
RegisterBlank(c) ==
  /\ Goto(c, "insert", "publish")
  /\ online' = [online EXCEPT ![agent[c]] = c]
  /\ last_status' = [last_status EXCEPT ![agent[c]] = None]
  /\ UNCHANGED <<agent_addr, sessions, feed, agent, view, ret, caddr, radmin, reply>>

\* online.insert: this connection replaces the registered one, if there is
\* one, and inherits its last status (a missing entry has status None).
Register(c) ==
  /\ Goto(c, "insert", "publish")
  /\ online' = [online EXCEPT ![agent[c]] = c]
  /\ UNCHANGED <<last_status, agent_addr, sessions, feed,
                 agent, view, ret, caddr, radmin, reply>>

\* agent_addr.insert.
PublishAddr(c) ==
  /\ Goto(c, "publish", "hello_ok")
  /\ agent_addr' = [agent_addr EXCEPT ![agent[c]] = caddr[c]]
  /\ UNCHANGED <<online, last_status, sessions, feed,
                 agent, view, ret, caddr, radmin, reply>>

\* HelloOk reached the socket: announce the agent, then serve.
SendHelloOk(c) ==
  /\ Broadcast(c, "hello_ok", "serving")
  /\ UNCHANGED <<hubVars, agent, view, caddr, radmin, reply>>

\* Mutant of HelloOkFails: return without cleanup.
HelloOkFailsNoCleanup(c) ==
  /\ Goto(c, "hello_ok", "done")
  /\ UNCHANGED <<hubVars, agent, view, ret, caddr, radmin, reply>>

\* Mutant of HelloOkFails: broadcast before looking at the send's result.
HelloOkFailsAnnounced(c) ==
  /\ Broadcast(c, "hello_ok", "c_online")
  /\ UNCHANGED <<hubVars, agent, view, caddr, radmin, reply>>

\* The socket failed before HelloOk.
HelloOkFails(c) ==
  /\ Goto(c, "hello_ok", "c_online")
  /\ UNCHANGED <<hubVars, agent, view, ret, caddr, radmin, reply>>

\* A status report: stored in whatever registration the agent has now, even
\* one that replaced this connection, then broadcast.
Status(c, s) ==
  /\ Broadcast(c, "serving", "serving")
  /\ last_status' = [last_status EXCEPT ![agent[c]] =
                       IF online[agent[c]] # None THEN s ELSE @]
  /\ UNCHANGED <<online, agent_addr, sessions, feed,
                 agent, view, caddr, radmin, reply>>

\* Mutant of Disconnect: a receive error returns without cleanup.
DisconnectNoCleanup(c) ==
  /\ Goto(c, "serving", "done")
  /\ UNCHANGED <<hubVars, agent, view, ret, caddr, radmin, reply>>

\* The socket closed or failed: the receive loop ends.
Disconnect(c) ==
  /\ Goto(c, "serving", "c_online")
  /\ UNCHANGED <<hubVars, agent, view, ret, caddr, radmin, reply>>

--------------------------------------------------------------------------------
(* agent_ws::cleanup *)

\* Mutant of CleanupOnline: the conn_id is not compared.
CleanupOnlineAny(c) ==
  /\ Goto(c, "c_online", "c_addr")
  /\ online' = [online EXCEPT ![agent[c]] = None]
  /\ last_status' = [last_status EXCEPT ![agent[c]] = None]
  /\ UNCHANGED <<agent_addr, sessions, feed, agent, view, ret, caddr, radmin, reply>>

\* Still the registered connection: the registration (its status with it)
\* goes away.  Replaced or already gone: nothing is touched.
CleanupOnline(c) ==
  LET a == agent[c] IN
  /\ pc[c] = "c_online"
  /\ \/ /\ online[a] = c
        /\ online' = [online EXCEPT ![a] = None]
        /\ last_status' = [last_status EXCEPT ![a] = None]
        /\ pc' = [pc EXCEPT ![c] = "c_addr"]
     \/ /\ online[a] # c
        /\ pc' = [pc EXCEPT ![c] = "done"]
        /\ UNCHANGED <<online, last_status>>
  /\ UNCHANGED <<agent_addr, sessions, feed, agent, view, ret, caddr, radmin, reply>>

CleanupAddr(c) ==
  /\ Goto(c, "c_addr", "c_sessions")
  /\ agent_addr' = [agent_addr EXCEPT ![agent[c]] = None]
  /\ UNCHANGED <<online, last_status, sessions, feed,
                 agent, view, ret, caddr, radmin, reply>>

CleanupSession(c) ==
  /\ Broadcast(c, "c_sessions", "done")
  /\ sessions' = [sessions EXCEPT ![agent[c]] = None]
  /\ UNCHANGED <<online, last_status, agent_addr, feed,
                 agent, view, caddr, radmin, reply>>

--------------------------------------------------------------------------------
(* state::build_agent_view and broadcast: two maps read one after the      *)
(* other, then the send; the three are three steps.                        *)

ViewOnline(t) ==
  /\ Goto(t, "b_online", "b_sessions")
  /\ view' = [view EXCEPT ![t] = [online |-> online[agent[t]] # None,
                                  status |-> last_status[agent[t]],
                                  controlled_by |-> None]]
  /\ UNCHANGED <<hubVars, agent, ret, caddr, radmin, reply>>

ViewSession(t) ==
  /\ Goto(t, "b_sessions", "b_send")
  /\ view' = [view EXCEPT ![t] = [online |-> view[t].online,
                                  status |-> view[t].status,
                                  controlled_by |-> sessions[agent[t]]]]
  /\ UNCHANGED <<hubVars, agent, ret, caddr, radmin, reply>>

SendView(c) ==
  /\ Goto(c, "b_send", ret[c])
  /\ feed' = [feed EXCEPT ![agent[c]] = view[c]]
  /\ view' = [view EXCEPT ![c] = Offline]
  /\ ret'  = [ret EXCEPT ![c] = "done"]
  /\ UNCHANGED <<online, last_status, agent_addr, sessions, agent, caddr, radmin, reply>>

--------------------------------------------------------------------------------
(* routes::session_request and routes::session_release *)

StartRequest(r, m, a, op) ==
  /\ Goto(r, "idle", op)
  /\ agent'  = [agent EXCEPT ![r] = a]
  /\ radmin' = [radmin EXCEPT ![r] = m]
  /\ reply'  = [reply EXCEPT ![r] = NoReply]
  /\ UNCHANGED <<hubVars, view, ret, caddr>>

\* The handler returns from where it stands; its locals are gone.
Return(r, from) ==
  /\ Goto(r, from, "idle")
  /\ agent'  = [agent EXCEPT ![r] = None]
  /\ radmin' = [radmin EXCEPT ![r] = None]

\* The agent has no laptops row.
RequestUnknown(r) ==
  /\ Return(r, "request")
  /\ agent[r] \notin Laptops
  /\ reply' = [reply EXCEPT ![r] = Answer("unknown", None)]
  /\ UNCHANGED <<hubVars, view, ret, caddr>>

\* Another administrator is in control.
RequestConflict(r) ==
  /\ Return(r, "request")
  /\ agent[r] \in Laptops
  /\ sessions[agent[r]] \notin {None, radmin[r]}
  /\ reply' = [reply EXCEPT ![r] = Answer("conflict", None)]
  /\ UNCHANGED <<hubVars, view, ret, caddr>>

\* Mutant of RequestGrant: the owner of the session is not compared.
RequestGrantAny(r) ==
  /\ Goto(r, "request", "address")
  /\ agent[r] \in Laptops
  /\ sessions' = [sessions EXCEPT ![agent[r]] = radmin[r]]
  /\ UNCHANGED <<online, last_status, agent_addr, feed,
                 agent, view, ret, caddr, radmin, reply>>

\* Check and insertion happen under one lock; whether the agent is online
\* is not looked at.
RequestGrant(r) ==
  /\ Goto(r, "request", "address")
  /\ agent[r] \in Laptops
  /\ sessions[agent[r]] \in {None, radmin[r]}
  /\ sessions' = [sessions EXCEPT ![agent[r]] = radmin[r]]
  /\ UNCHANGED <<online, last_status, agent_addr, feed,
                 agent, view, ret, caddr, radmin, reply>>

\* The address goes into the answer; then the change is broadcast.
RequestAddress(r) ==
  /\ Broadcast(r, "address", "idle")
  /\ reply' = [reply EXCEPT ![r] = Answer("granted", agent_addr[agent[r]])]
  /\ UNCHANGED <<hubVars, agent, view, caddr, radmin>>

\* Released by its owner, and broadcast.
Release(r) ==
  /\ Broadcast(r, "release", "idle")
  /\ sessions[agent[r]] = radmin[r]
  /\ sessions' = [sessions EXCEPT ![agent[r]] = None]
  /\ reply' = [reply EXCEPT ![r] = Answer("ok", None)]
  /\ UNCHANGED <<online, last_status, agent_addr, feed, agent, view, caddr, radmin>>

\* Nothing to release, or somebody else's session: answered, no broadcast.
ReleaseNothing(r) ==
  /\ Return(r, "release")
  /\ sessions[agent[r]] # radmin[r]
  /\ reply' = [reply EXCEPT ![r] =
       Answer(IF sessions[agent[r]] = None THEN "ok" ELSE "forbidden", None)]
  /\ UNCHANGED <<hubVars, view, ret, caddr>>

\* The end of broadcast_agent in a request, and of the request.
Respond(r) ==
  /\ Return(r, "b_send")
  /\ feed' = [feed EXCEPT ![agent[r]] = view[r]]
  /\ view' = [view EXCEPT ![r] = Offline]
  /\ ret'  = [ret EXCEPT ![r] = "done"]
  /\ UNCHANGED <<online, last_status, agent_addr, sessions, caddr, reply>>

--------------------------------------------------------------------------------
\* What a connection's task does by itself once it has been accepted.
ConnStep(c) ==
  \/ Register(c) \/ PublishAddr(c) \/ SendHelloOk(c) \/ HelloOkFails(c)
  \/ CleanupOnline(c) \/ CleanupAddr(c) \/ CleanupSession(c)
  \/ ViewOnline(c) \/ ViewSession(c) \/ SendView(c)

\* What a request's handler does by itself once it has started.
ReqStep(r) ==
  \/ RequestUnknown(r) \/ RequestConflict(r) \/ RequestGrant(r)
  \/ RequestAddress(r) \/ Release(r) \/ ReleaseNothing(r)
  \/ ViewOnline(r) \/ ViewSession(r) \/ Respond(r)

\* What agents, administrators and the network do.
Environment ==
  \/ \E c \in Conns :
       \/ \E a \in Agents, addr \in Addrs : Hello(c, a, addr)
       \/ RejectHello(c)
       \/ \E s \in Statuses : Status(c, s)
       \/ Disconnect(c)
  \/ \E r \in Reqs, m \in Admins, a \in Agents, op \in {"request", "release"} :
       StartRequest(r, m, a, op)

Next ==
  \/ Environment
  \/ \E c \in Conns : ConnStep(c)
  \/ \E r \in Reqs : ReqStep(r)

\* The runtime runs every task that can run; agents and people owe nothing.
Fairness ==
  /\ \A c \in Conns : WF_vars(ConnStep(c))
  /\ \A r \in Reqs : WF_vars(ReqStep(r))

Spec     == Init /\ [][Next]_vars
FairSpec == Spec /\ Fairness
--------------------------------------------------------------------------------
(* Properties *)

Broadcasting == {"b_online", "b_sessions", "b_send"}

\* Every variable keeps the shape the hub's maps and tasks have in the code.
TypeOK ==
  /\ online      \in [Agents -> Conns \cup {None}]
  /\ last_status \in [Agents -> Statuses \cup {None}]
  /\ agent_addr  \in [Agents -> Addrs \cup {None}]
  /\ sessions    \in [Agents -> Admins \cup {None}]
  /\ feed        \in [Agents -> View]
  /\ pc     \in [Tasks -> Labels]
  /\ agent  \in [Tasks -> Agents \cup {None}]
  /\ view   \in [Tasks -> View]
  /\ ret    \in [Tasks -> {"serving", "done", "idle"}]
  /\ caddr  \in [Conns -> Addrs \cup {None}]
  /\ radmin \in [Reqs -> Admins \cup {None}]
  /\ reply  \in [Reqs -> Replies]

\* The task of connection c is between its registration and the first line
\* of its cleanup.
Registered(c) ==
  \/ pc[c] \in {"publish", "hello_ok", "serving", "c_online"}
  \/ pc[c] \in Broadcasting /\ ret[c] = "serving"

\* No zombie registration (agent_ws.rs, registration and cleanup): the
\* connection under which an agent is listed belongs to that agent and its
\* task is still running, so it will take the entry away when the socket ends.
RegistrationIsAlive ==
  \A a \in Agents : online[a] # None => agent[online[a]] = a /\ Registered(online[a])

\* Cleanup is per connection (agent_ws::cleanup): an agent goes offline only
\* when the very connection it is registered under cleans up, never when a
\* replaced connection of the same agent ends late.
OfflineByOwnConn ==
  [][\A a \in Agents : online[a] # None /\ online'[a] = None
        => pc[online[a]] = "c_online" /\ pc'[online[a]] = "c_addr"]_vars

\* A reconnect does not blank the table (agent_ws.rs, prev.last_status): while
\* an agent stays registered, a known status is never lost, whichever
\* connection is registered before and after.
StatusSurvivesReplacement ==
  [][\A a \in Agents : online[a] # None /\ online'[a] # None /\ last_status[a] # None
        => last_status'[a] # None]_vars

\* The task of connection c is between its hello and the end of its receive
\* loop.
Live(c) ==
  \/ pc[c] \in {"insert", "publish", "hello_ok", "serving"}
  \/ pc[c] \in Broadcasting /\ ret[c] = "serving"

\* An agent none of whose connections is being set up or served is taken off
\* the online map (agent_ws::cleanup reaches the registered connection,
\* whatever order the connections ended in), unless it says hello again.
EventuallyOffline ==
  \A a \in Laptops :
    (\A c \in Conns : agent[c] = a => ~Live(c))
      ~> (online[a] = None \/ \E c \in Conns : agent[c] = a /\ Live(c))

\* Control sessions are a lock: routes::session_request, session_release and
\* cleanup together implement ControlLock (nobody takes over a held session,
\* nobody releases another's).
Lock == INSTANCE ControlLock WITH holder <- sessions
SessionsAreALock == Lock!Spec

(* What a comment says and the code does not keep: checked in a run of its   *)
(* own, which shows the counterexample.                                     *)

\* agent_ws.rs:190 says a connection that ends late must not delete the
\* address of the live connection that replaced it.
ServingHasAddress ==
  \A a \in Agents : online[a] # None /\ pc[online[a]] = "serving" => agent_addr[a] # None
================================================================================
