------------------------------ MODULE HubCommands ------------------------------
(***************************************************************************)
(* A remote command, from the HTTP request to the laptop and back          *)
(* (kmc-hub: routes::run_command, the send task and the receive loop of    *)
(* agent_ws.rs; kmc-agent: connect_once of run.rs, exec.rs), for one agent *)
(* that may lose its connection and come back on another one.              *)
(*                                                                         *)
(* A request stands for its command_id.  A command travels                 *)
(*   queue[c] -> wire[c] -> running[c] -> results[c] -> handing[c]         *)
(* through the connection c it was sent on; the sets do not keep the order *)
(* because every command is executed by a task of its own.  The oneshot    *)
(* sender of the result is in pending, then in handing; `delivered' are    *)
(* the commands whose result is in the oneshot channel.                    *)
(***************************************************************************)
EXTENDS Naturals

CONSTANTS
  Reqs,      \* run_command requests (bounds how many there ever are)
  Conns,     \* connections of the agent (bounds how many there ever are)
  None

ASSUME CommandConstants == None \notin Reqs \cup Conns

VARIABLES
  online,     \* the registered connection
  conn,       \* hub: where handle_socket of each connection stands
  sender,     \* hub: the send task of each connection, owner of rx
  sockup,     \* the socket works
  agentup,    \* agent: connect_once of the connection has not returned
  queue, wire, running, results,
  handing,    \* hub: the result whose oneshot sender was just taken
  pending,    \* pending_cmds
  delivered,
  pc, held,   \* request: where it stands, the connection whose tx it holds
  answer,     \* request: the response
  starts      \* history: how often each command was started on the laptop

connVars == <<online, conn, sender, sockup, agentup>>
cmdVars  == <<queue, wire, running, results, handing>>
reqVars  == <<pending, delivered, pc, held, answer, starts>>
vars     == <<connVars, cmdVars, reqVars>>

Answers == {"none", "result", "not_online", "closed", "timeout", "aborted"}

Init ==
  /\ online  = None
  /\ conn    = [c \in Conns |-> "new"]
  /\ sender  = [c \in Conns |-> "none"]
  /\ sockup  = [c \in Conns |-> TRUE]
  /\ agentup = [c \in Conns |-> TRUE]
  /\ queue   = [c \in Conns |-> {}]
  /\ wire    = [c \in Conns |-> {}]
  /\ running = [c \in Conns |-> {}]
  /\ results = [c \in Conns |-> {}]
  /\ handing = [c \in Conns |-> None]
  /\ pending   = {}
  /\ delivered = {}
  /\ pc     = [r \in Reqs |-> "idle"]
  /\ held   = [r \in Reqs |-> None]
  /\ answer = [r \in Reqs |-> "none"]
  /\ starts = [r \in Reqs |-> 0]

Put(f, c, r)  == [f EXCEPT ![c] = @ \cup {r}]
Take(f, c, r) == [f EXCEPT ![c] = @ \ {r}]

--------------------------------------------------------------------------------
(* The connection (agent_ws.rs) *)

\* The hello was accepted: channel created, registered, maybe a replacement.
Connect(c) ==
  /\ conn[c] = "new"
  /\ conn' = [conn EXCEPT ![c] = "hello"]
  /\ online' = c
  /\ UNCHANGED <<sender, sockup, agentup, cmdVars, reqVars>>

\* HelloOk was sent; the send task starts.
StartSender(c) ==
  /\ conn[c] = "hello"
  /\ conn' = [conn EXCEPT ![c] = "open"]
  /\ sender' = [sender EXCEPT ![c] = "running"]
  /\ UNCHANGED <<online, sockup, agentup, cmdVars, reqVars>>

\* HelloOk could not be sent.
HelloFails(c) ==
  /\ conn[c] = "hello"
  /\ ~sockup[c]
  /\ conn' = [conn EXCEPT ![c] = "closing"]
  /\ UNCHANGED <<online, sender, sockup, agentup, cmdVars, reqVars>>

\* The receive loop ends and aborts the send task, which stops when it next
\* reaches an await.
RecvEnds(c) ==
  /\ conn[c] = "open"
  /\ ~sockup[c]
  /\ handing[c] = None
  /\ conn' = [conn EXCEPT ![c] = "closing"]
  /\ sender' = [sender EXCEPT ![c] = IF @ = "running" THEN "aborting" ELSE @]
  /\ UNCHANGED <<online, sockup, agentup, cmdVars, reqVars>>

\* Mutant of Cleanup: all waiting commands are forgotten.
CleanupDropsPending(c) ==
  /\ conn[c] = "closing"
  /\ conn' = [conn EXCEPT ![c] = "ended"]
  /\ online' = IF online = c THEN None ELSE online
  /\ pending' = {}
  /\ sender' = [sender EXCEPT ![c] = IF @ = "none" THEN "ended" ELSE @]
  /\ queue' = [queue EXCEPT ![c] = IF sender[c] = "none" THEN {} ELSE @]
  /\ UNCHANGED <<sockup, agentup, wire, running, results, handing,
                 delivered, pc, held, answer, starts>>

\* cleanup, and the end of handle_socket: rx is dropped here when no send
\* task was given it.  Waiting commands are left to their timeout.
Cleanup(c) ==
  /\ conn[c] = "closing"
  /\ conn' = [conn EXCEPT ![c] = "ended"]
  /\ online' = IF online = c THEN None ELSE online
  /\ sender' = [sender EXCEPT ![c] = IF @ = "none" THEN "ended" ELSE @]
  /\ queue' = [queue EXCEPT ![c] = IF sender[c] = "none" THEN {} ELSE @]
  /\ UNCHANGED <<sockup, agentup, wire, running, results, handing, reqVars>>

\* Mutant of SenderSends: the message is sent again by the next round.
SenderSendsAgain(c, r) ==
  /\ sender[c] \in {"running", "aborting"}
  /\ r \in queue[c]
  /\ wire' = IF sockup[c] THEN Put(wire, c, r) ELSE wire
  /\ UNCHANGED <<connVars, queue, running, results, handing, reqVars>>

\* The send task writes a command; a broken socket may still accept it.
SenderSends(c, r) ==
  /\ sender[c] \in {"running", "aborting"}
  /\ r \in queue[c]
  /\ queue' = Take(queue, c, r)
  /\ wire' = IF sockup[c] THEN Put(wire, c, r) ELSE wire
  /\ UNCHANGED <<connVars, running, results, handing, reqVars>>

\* A command or a keepalive ping cannot be written, or the abort takes
\* effect: rx is dropped and with it every queued command.
SenderStops(c) ==
  /\ \/ sender[c] = "running" /\ ~sockup[c]
     \/ sender[c] = "aborting"
  /\ sender' = [sender EXCEPT ![c] = "ended"]
  /\ queue' = [queue EXCEPT ![c] = {}]
  /\ UNCHANGED <<online, conn, sockup, agentup, wire, running, results, handing, reqVars>>

\* Mutant of SenderDrained: the handler keeps a tx of its own.
SenderDrainedAtEnd(c) ==
  /\ sender[c] = "running"
  /\ queue[c] = {}
  /\ online # c
  /\ conn[c] = "ended"
  /\ \A r \in Reqs : held[r] # c
  /\ sender' = [sender EXCEPT ![c] = "ended"]
  /\ UNCHANGED <<online, conn, sockup, agentup, cmdVars, reqVars>>

\* rx.recv() returns None: the queue is empty and no tx is left, neither in
\* the registry nor in a request.
SenderDrained(c) ==
  /\ sender[c] = "running"
  /\ queue[c] = {}
  /\ online # c
  /\ \A r \in Reqs : held[r] # c
  /\ sender' = [sender EXCEPT ![c] = "ended"]
  /\ UNCHANGED <<online, conn, sockup, agentup, cmdVars, reqVars>>

\* The connection is lost with everything in flight on it.
LoseSocket(c) ==
  /\ conn[c] \in {"hello", "open"}
  /\ sockup[c]
  /\ sockup' = [sockup EXCEPT ![c] = FALSE]
  /\ wire' = [wire EXCEPT ![c] = {}]
  /\ results' = [results EXCEPT ![c] = {}]
  /\ UNCHANGED <<online, conn, sender, agentup, queue, running, handing, reqVars>>

--------------------------------------------------------------------------------
(* The agent (connect_once, exec::run) *)

\* RunCommand received: a task of its own executes it.
AgentStarts(c, r) ==
  /\ agentup[c]
  /\ r \in wire[c]
  /\ wire' = Take(wire, c, r)
  /\ running' = Put(running, c, r)
  /\ starts' = [starts EXCEPT ![r] = @ + 1]
  /\ UNCHANGED <<connVars, queue, results, handing,
                 pending, delivered, pc, held, answer>>

\* The command ended: its result goes to the connection it came from, which
\* may be gone (connect_once returned, or the socket is broken).
AgentFinishes(c, r) ==
  /\ r \in running[c]
  /\ running' = Take(running, c, r)
  /\ results' = IF agentup[c] /\ sockup[c] THEN Put(results, c, r) ELSE results
  /\ UNCHANGED <<connVars, queue, wire, handing, reqVars>>

\* The agent's receive loop ends; the commands it started go on.
AgentConnEnds(c) ==
  /\ agentup[c]
  /\ ~sockup[c]
  /\ agentup' = [agentup EXCEPT ![c] = FALSE]
  /\ UNCHANGED <<online, conn, sender, sockup, cmdVars, reqVars>>

--------------------------------------------------------------------------------
(* A CommandResult at the hub *)

\* pending_cmds.remove: the waiter's oneshot sender, if the command is still
\* waited for; otherwise the result is dropped.
TakeSender(c, r) ==
  /\ conn[c] = "open"
  /\ handing[c] = None
  /\ r \in results[c]
  /\ results' = Take(results, c, r)
  /\ pending' = pending \ {r}
  /\ handing' = [handing EXCEPT ![c] = IF r \in pending THEN r ELSE None]
  /\ UNCHANGED <<connVars, queue, wire, running, delivered, pc, held, answer, starts>>

\* tx.send, without effect when the waiter is gone.
HandResult(c) ==
  /\ handing[c] # None
  /\ handing' = [handing EXCEPT ![c] = None]
  /\ delivered' = IF pc[handing[c]] = "waiting"
                    THEN delivered \cup {handing[c]} ELSE delivered
  /\ UNCHANGED <<connVars, queue, wire, running, results, pending, pc, held, answer, starts>>

--------------------------------------------------------------------------------
(* routes::run_command *)

\* Respond and drop the request's tx.
Respond(r, code) ==
  /\ pc' = [pc EXCEPT ![r] = "answered"]
  /\ held' = [held EXCEPT ![r] = None]
  /\ answer' = [answer EXCEPT ![r] = code]

CloneTx(r) ==
  /\ pc[r] = "idle"
  /\ online # None
  /\ pc' = [pc EXCEPT ![r] = "cloned"]
  /\ held' = [held EXCEPT ![r] = online]
  /\ UNCHANGED <<connVars, cmdVars, pending, delivered, answer, starts>>

NotOnline(r) ==
  /\ pc[r] = "idle"
  /\ online = None
  /\ Respond(r, "not_online")
  /\ UNCHANGED <<connVars, cmdVars, pending, delivered, starts>>

\* pending_cmds.insert, under the new command's id.
InsertPending(r) ==
  /\ pc[r] = "cloned"
  /\ pc' = [pc EXCEPT ![r] = "inserted"]
  /\ pending' = pending \cup {r}
  /\ UNCHANGED <<connVars, cmdVars, delivered, held, answer, starts>>

\* tx.send succeeds exactly while rx exists.
SendCommand(r) ==
  /\ pc[r] = "inserted"
  /\ sender[held[r]] # "ended"
  /\ queue' = Put(queue, held[r], r)
  /\ pc' = [pc EXCEPT ![r] = "waiting"]
  /\ UNCHANGED <<connVars, wire, running, results, handing,
                 pending, delivered, held, answer, starts>>

\* Mutant of SendFails: a connection that was replaced counts as closed even
\* when the command was queued on it.
SendFailsReplaced(r) ==
  /\ pc[r] \in {"inserted", "waiting"}
  /\ sender[held[r]] = "ended" \/ (pc[r] = "waiting" /\ online # held[r])
  /\ pending' = pending \ {r}
  /\ Respond(r, "closed")
  /\ UNCHANGED <<connVars, cmdVars, delivered, starts>>

SendFails(r) ==
  /\ pc[r] = "inserted"
  /\ sender[held[r]] = "ended"
  /\ pending' = pending \ {r}
  /\ Respond(r, "closed")
  /\ UNCHANGED <<connVars, cmdVars, delivered, starts>>

GetResult(r) ==
  /\ pc[r] = "waiting"
  /\ r \in delivered
  /\ delivered' = delivered \ {r}
  /\ Respond(r, "result")
  /\ UNCHANGED <<connVars, cmdVars, pending, starts>>

\* Mutant of Timeout: the waiter goes away without its entry.
TimeoutLeaks(r) ==
  /\ pc[r] = "waiting"
  /\ r \notin delivered
  /\ Respond(r, "timeout")
  /\ UNCHANGED <<connVars, cmdVars, pending, delivered, starts>>

\* Mutant of Timeout: only given up when the agent is offline.
TimeoutOffline(r) ==
  /\ pc[r] = "waiting"
  /\ r \notin delivered
  /\ online = None
  /\ pending' = pending \ {r}
  /\ Respond(r, "timeout")
  /\ UNCHANGED <<connVars, cmdVars, delivered, starts>>

\* 30 s without a result.  timeout() looks at the channel before the timer,
\* so a result that is there wins.
Timeout(r) ==
  /\ pc[r] = "waiting"
  /\ r \notin delivered
  /\ pending' = pending \ {r}
  /\ Respond(r, "timeout")
  /\ UNCHANGED <<connVars, cmdVars, delivered, starts>>

\* The HTTP client went away: the handler is dropped at its only await and
\* runs no code after it.
ClientGone(r) ==
  /\ pc[r] = "waiting"
  /\ delivered' = delivered \ {r}
  /\ Respond(r, "aborted")
  /\ UNCHANGED <<connVars, cmdVars, pending, starts>>

--------------------------------------------------------------------------------
ConnTask(c) == StartSender(c) \/ HelloFails(c) \/ RecvEnds(c) \/ Cleanup(c)
SendTask(c) == (\E r \in Reqs : SenderSends(c, r)) \/ SenderStops(c) \/ SenderDrained(c)
RecvTask(c) == (\E r \in Reqs : TakeSender(c, r)) \/ HandResult(c)
Handler(r)  == \/ InsertPending(r) \/ SendCommand(r) \/ SendFails(r)
               \/ GetResult(r) \/ Timeout(r)

Next ==
  \/ \E c \in Conns :
       \/ Connect(c) \/ LoseSocket(c) \/ AgentConnEnds(c)
       \/ ConnTask(c) \/ SendTask(c) \/ RecvTask(c)
       \/ \E r \in Reqs : AgentStarts(c, r) \/ AgentFinishes(c, r)
  \/ \E r \in Reqs : Handler(r) \/ CloneTx(r) \/ NotOnline(r) \/ ClientGone(r)

\* The runtime runs ready tasks and the 30 s timer fires.  (Each task has
\* finitely many steps, so fairness for all tasks of a kind together is enough.)
\* Nothing is owed by the agent, the network or the client.
Fairness ==
  /\ WF_vars(\E c \in Conns : ConnTask(c))
  /\ WF_vars(\E c \in Conns : SendTask(c))
  /\ WF_vars(\E c \in Conns : RecvTask(c))
  /\ WF_vars(\E r \in Reqs : Handler(r))

Spec     == Init /\ [][Next]_vars
FairSpec == Spec /\ Fairness
--------------------------------------------------------------------------------
(* Properties *)

\* Every variable keeps the shape of the code's maps, channels and tasks.
TypeOK ==
  /\ online  \in Conns \cup {None}
  /\ conn    \in [Conns -> {"new", "hello", "open", "closing", "ended"}]
  /\ sender  \in [Conns -> {"none", "running", "aborting", "ended"}]
  /\ sockup  \in [Conns -> BOOLEAN]
  /\ agentup \in [Conns -> BOOLEAN]
  /\ queue   \in [Conns -> SUBSET Reqs]
  /\ wire    \in [Conns -> SUBSET Reqs]
  /\ running \in [Conns -> SUBSET Reqs]
  /\ results \in [Conns -> SUBSET Reqs]
  /\ handing \in [Conns -> Reqs \cup {None}]
  /\ pending   \in SUBSET Reqs
  /\ delivered \in SUBSET Reqs
  /\ pc     \in [Reqs -> {"idle", "cloned", "inserted", "waiting", "answered"}]
  /\ held   \in [Reqs -> Conns \cup {None}]
  /\ answer \in [Reqs -> Answers]
  /\ starts \in [Reqs -> Nat]

\* The "command channel dropped" branch (routes.rs:219) is never taken: a
\* request that waits always has the sending half of its oneshot channel
\* somewhere, or the result in it, whichever connections came and went.
WaiterHasChannel ==
  \A r \in Reqs : pc[r] = "waiting" =>
    r \in pending \/ r \in delivered \/ \E c \in Conns : handing[c] = r

\* A 409 means the command did not and will not run (routes.rs:200, 214), so
\* the administrator may repeat it.
RefusedNeverRuns ==
  \A r \in Reqs : answer[r] \in {"not_online", "closed"} =>
    /\ starts[r] = 0
    /\ \A c \in Conns : r \notin queue[c] \cup wire[c]

\* A command is started at most once, and a result that reaches an
\* administrator is that of a command that was started: replacing connections
\* never resends what a queue still held.
AtMostOnce ==
  \A r \in Reqs : starts[r] <= 1 /\ (answer[r] = "result" => starts[r] = 1)

\* pending_cmds only holds commands that are being waited for, except those
\* whose client went away (the handler is dropped before its remove).
PendingHasWaiter ==
  \A r \in pending : pc[r] \in {"inserted", "waiting"} \/ answer[r] = "aborted"

\* Every accepted request is answered (or its client left), for good: the 30 s
\* timeout covers a lost connection, a hung command and a lost result alike.
EveryRequestAnswered == []<>(\A r \in Reqs : pc[r] \in {"idle", "answered"})

\* A replaced connection's send task ends by itself (agent_ws.rs:75), also
\* when requests still hold a clone of its tx at the replacement.
ReplacedSenderEnds ==
  []<>(\A c \in Conns : sender[c] \in {"running", "aborting"} => online = c)
================================================================================
