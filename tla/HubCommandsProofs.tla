--------------------------- MODULE HubCommandsProofs ---------------------------
(***************************************************************************)
(* Proofs about HubCommands for every set of requests and connections.     *)
(* The inductive invariant adds to the properties what the code relies on  *)
(* without saying it: RequestOK (a handler past CloneTx holds a tx, its    *)
(* entry is in pending_cmds before it sends, a taken or delivered sender   *)
(* is not in pending_cmds any more) and OneCopy (a command exists in at    *)
(* most one place before it is started, and nowhere before it is sent).    *)
(***************************************************************************)
EXTENDS HubCommands, TLAPS

\* The handler has not sent its command, or was refused and never will.
Unsent(r) ==
  pc[r] \in {"idle", "cloned", "inserted"} \/ answer[r] \in {"not_online", "closed"}

\* What a request knows at each of its steps.
RequestOK ==
  /\ \A r \in Reqs :
       /\ pc[r] \in {"cloned", "inserted", "waiting"} => held[r] \in Conns
       /\ pc[r] = "answered" <=> answer[r] # "none"
       /\ pc[r] = "inserted" => r \in pending
       /\ r \in delivered => r \notin pending /\ pc[r] = "waiting"
  /\ \A c \in Conns : handing[c] \notin pending

\* Where the copies of a command are, and that what comes from the laptop was
\* started there.
OneCopy ==
  /\ \A r \in Reqs :
       /\ starts[r] <= 1
       /\ Unsent(r) => starts[r] = 0
       /\ r \in delivered \/ answer[r] = "result" => starts[r] = 1
  /\ \A c \in Conns :
       /\ \A r \in queue[c] : starts[r] = 0 /\ ~Unsent(r)
       /\ \A r \in wire[c] : starts[r] = 0 /\ ~Unsent(r)
       /\ \A r \in running[c] \cup results[c] : starts[r] = 1
       /\ handing[c] # None => starts[handing[c]] = 1
  /\ \A c, d \in Conns :
       /\ queue[c] \cap wire[d] = {}
       /\ c # d => queue[c] \cap queue[d] = {} /\ wire[c] \cap wire[d] = {}

\* The inductive invariant.  WaiterHasChannel and PendingHasWaiter are kept as
\* conjuncts; RefusedNeverRuns and AtMostOnce follow from OneCopy.
IInv == TypeOK /\ RequestOK /\ OneCopy /\ WaiterHasChannel /\ PendingHasWaiter

\* The fresh state of AppState, with no connection and no request, satisfies it.
LEMMA InitInv == Init => IInv
  BY CommandConstants DEF Init, IInv, TypeOK, RequestOK, OneCopy, WaiterHasChannel,
     PendingHasWaiter, Unsent, Answers

--------------------------------------------------------------------------------
\* Every step of a connection, of the agent or of a request leaves the hub's maps
\* and channels well-typed.
LEMMA TypeStep == IInv /\ [Next]_vars => TypeOK'
<1> SUFFICES ASSUME TypeOK, RequestOK, [Next]_vars PROVE TypeOK'
  BY DEF IInv
<1> USE CommandConstants DEF TypeOK, Answers, Put, Take, connVars, cmdVars, reqVars
<1>1. ASSUME NEW c \in Conns, Connect(c) PROVE TypeOK'
  BY <1>1 DEF Connect
<1>2. ASSUME NEW c \in Conns, StartSender(c) PROVE TypeOK'
  BY <1>2 DEF StartSender
<1>3. ASSUME NEW c \in Conns, HelloFails(c) PROVE TypeOK'
  BY <1>3 DEF HelloFails
<1>4. ASSUME NEW c \in Conns, RecvEnds(c) PROVE TypeOK'
  BY <1>4 DEF RecvEnds
<1>5. ASSUME NEW c \in Conns, Cleanup(c) PROVE TypeOK'
  BY <1>5 DEF Cleanup
<1>6. ASSUME NEW c \in Conns, SenderStops(c) PROVE TypeOK'
  BY <1>6 DEF SenderStops
<1>7. ASSUME NEW c \in Conns, SenderDrained(c) PROVE TypeOK'
  BY <1>7 DEF SenderDrained
<1>8. ASSUME NEW c \in Conns, LoseSocket(c) PROVE TypeOK'
  BY <1>8 DEF LoseSocket
<1>9. ASSUME NEW c \in Conns, AgentConnEnds(c) PROVE TypeOK'
  BY <1>9 DEF AgentConnEnds
<1>10. ASSUME NEW c \in Conns, HandResult(c) PROVE TypeOK'
  BY <1>10 DEF HandResult
<1>11. ASSUME NEW c \in Conns, NEW r \in Reqs, SenderSends(c, r) PROVE TypeOK'
  BY <1>11 DEF SenderSends
<1>12. ASSUME NEW c \in Conns, NEW r \in Reqs, AgentStarts(c, r) PROVE TypeOK'
  BY <1>12 DEF AgentStarts
<1>13. ASSUME NEW c \in Conns, NEW r \in Reqs, AgentFinishes(c, r) PROVE TypeOK'
  BY <1>13 DEF AgentFinishes
<1>14. ASSUME NEW c \in Conns, NEW r \in Reqs, TakeSender(c, r) PROVE TypeOK'
  BY <1>14 DEF TakeSender
<1>15. ASSUME NEW r \in Reqs, CloneTx(r) PROVE TypeOK'
  BY <1>15 DEF CloneTx
<1>16. ASSUME NEW r \in Reqs, NotOnline(r) PROVE TypeOK'
  BY <1>16 DEF NotOnline, Respond
<1>17. ASSUME NEW r \in Reqs, InsertPending(r) PROVE TypeOK'
  BY <1>17 DEF InsertPending
<1>18. ASSUME NEW r \in Reqs, SendCommand(r) PROVE TypeOK'
  BY <1>18 DEF SendCommand, RequestOK
<1>19. ASSUME NEW r \in Reqs, SendFails(r) PROVE TypeOK'
  BY <1>19 DEF SendFails, Respond
<1>20. ASSUME NEW r \in Reqs, GetResult(r) PROVE TypeOK'
  BY <1>20 DEF GetResult, Respond
<1>21. ASSUME NEW r \in Reqs, Timeout(r) PROVE TypeOK'
  BY <1>21 DEF Timeout, Respond
<1>22. ASSUME NEW r \in Reqs, ClientGone(r) PROVE TypeOK'
  BY <1>22 DEF ClientGone, Respond
<1>23. CASE UNCHANGED vars
  BY <1>23 DEF vars
<1> HIDE DEF TypeOK
<1> QED
BY <1>1, <1>2, <1>3, <1>4, <1>5, <1>6, <1>7, <1>8, <1>9, <1>10, <1>11, <1>12, <1>13,
     <1>14, <1>15, <1>16, <1>17, <1>18, <1>19, <1>20, <1>21, <1>22, <1>23 DEF Next,
     ConnTask, SendTask, RecvTask, Handler

--------------------------------------------------------------------------------
\* A handler keeps the connection it cloned, and its entry in pending_cmds until
\* its own removal or the result's: a result cannot come before the command is
\* sent, because what is in results was started (OneCopy).
LEMMA RequestStep == IInv /\ [Next]_vars => RequestOK'
<1> SUFFICES ASSUME TypeOK, RequestOK, OneCopy, [Next]_vars PROVE RequestOK'
  BY DEF IInv
<1> USE CommandConstants DEF TypeOK, RequestOK, Put, Take, connVars, cmdVars, reqVars
<1>1. ASSUME NEW c \in Conns, NEW r \in Reqs, TakeSender(c, r) PROVE RequestOK'
  BY <1>1 DEF TakeSender, OneCopy, Unsent
<1>2. ASSUME NEW c \in Conns, HandResult(c) PROVE RequestOK'
  BY <1>2 DEF HandResult
<1>3. ASSUME NEW r \in Reqs, CloneTx(r) PROVE RequestOK'
  BY <1>3 DEF CloneTx
<1>4. ASSUME NEW r \in Reqs, NotOnline(r) PROVE RequestOK'
  BY <1>4 DEF NotOnline, Respond
<1>5. ASSUME NEW r \in Reqs, InsertPending(r) PROVE RequestOK'
  BY <1>5 DEF InsertPending, OneCopy, Unsent
<1>6. ASSUME NEW r \in Reqs, SendCommand(r) PROVE RequestOK'
  BY <1>6 DEF SendCommand
<1>7. ASSUME NEW r \in Reqs, SendFails(r) PROVE RequestOK'
  BY <1>7 DEF SendFails, Respond
<1>8. ASSUME NEW r \in Reqs, GetResult(r) PROVE RequestOK'
  BY <1>8 DEF GetResult, Respond
<1>9. ASSUME NEW r \in Reqs, Timeout(r) PROVE RequestOK'
  BY <1>9 DEF Timeout, Respond
<1>10. ASSUME NEW r \in Reqs, ClientGone(r) PROVE RequestOK'
  BY <1>10 DEF ClientGone, Respond
<1>11. CASE UNCHANGED <<pc, held, answer, pending, delivered, handing>>
  BY <1>11
<1> HIDE DEF RequestOK
<1> QED
BY <1>1, <1>2, <1>3, <1>4, <1>5, <1>6, <1>7, <1>8, <1>9, <1>10, <1>11 DEF Next,
     ConnTask, SendTask, RecvTask, Handler, vars, Connect, StartSender, HelloFails,
     RecvEnds, Cleanup, SenderStops, SenderDrained, LoseSocket, AgentConnEnds,
     SenderSends, AgentStarts, AgentFinishes

--------------------------------------------------------------------------------
\* A command moves from the queue to the wire to its one start: no step copies it,
\* whichever connections are replaced, lost or cleaned up in between.
LEMMA CopyStep == IInv /\ [Next]_vars => OneCopy'
<1> SUFFICES ASSUME TypeOK, RequestOK, OneCopy, [Next]_vars PROVE OneCopy'
  BY DEF IInv
<1> USE CommandConstants DEF TypeOK, OneCopy, Unsent, Put, Take, connVars, cmdVars, reqVars
<1>1. ASSUME NEW c \in Conns, Cleanup(c) PROVE OneCopy'
  BY <1>1 DEF Cleanup
<1>2. ASSUME NEW c \in Conns, SenderStops(c) PROVE OneCopy'
  BY <1>2 DEF SenderStops
<1>3. ASSUME NEW c \in Conns, LoseSocket(c) PROVE OneCopy'
  BY <1>3 DEF LoseSocket
<1>4. ASSUME NEW c \in Conns, HandResult(c) PROVE OneCopy'
  BY <1>4 DEF HandResult, RequestOK
<1>5. ASSUME NEW c \in Conns, NEW r \in Reqs, SenderSends(c, r) PROVE OneCopy'
  BY <1>5 DEF SenderSends
<1>6. ASSUME NEW c \in Conns, NEW r \in Reqs, AgentStarts(c, r) PROVE OneCopy'
  BY <1>6 DEF AgentStarts
<1>7. ASSUME NEW c \in Conns, NEW r \in Reqs, AgentFinishes(c, r) PROVE OneCopy'
  BY <1>7 DEF AgentFinishes
<1>8. ASSUME NEW c \in Conns, NEW r \in Reqs, TakeSender(c, r) PROVE OneCopy'
  BY <1>8 DEF TakeSender
<1>9. ASSUME NEW r \in Reqs, CloneTx(r) PROVE OneCopy'
  BY <1>9 DEF CloneTx, RequestOK
<1>10. ASSUME NEW r \in Reqs, NotOnline(r) PROVE OneCopy'
  BY <1>10 DEF NotOnline, Respond, RequestOK
<1>11. ASSUME NEW r \in Reqs, InsertPending(r) PROVE OneCopy'
  BY <1>11 DEF InsertPending, RequestOK
<1>12. ASSUME NEW r \in Reqs, SendCommand(r) PROVE OneCopy'
  <2> DEFINE h == held[r]
  <2>1. h \in Conns /\ Unsent(r) /\ answer[r] = "none"
    BY <1>12 DEF SendCommand, RequestOK
  <2>2. \A d \in Conns : r \notin queue[d] /\ r \notin wire[d]
    BY <2>1
  <2>3. /\ queue' = [queue EXCEPT ![h] = @ \cup {r}]
        /\ pc' = [pc EXCEPT ![r] = "waiting"]
        /\ UNCHANGED <<wire, running, results, handing, delivered, answer, starts>>
    BY <1>12 DEF SendCommand
  <2> HIDE DEF h
  <2>4. \A q \in Reqs : Unsent(q)' <=> (Unsent(q) /\ q # r)
    BY <2>1, <2>3
  <2> QED
    BY <2>1, <2>2, <2>3, <2>4
<1>13. ASSUME NEW r \in Reqs, SendFails(r) PROVE OneCopy'
  BY <1>13 DEF SendFails, Respond, RequestOK
<1>14. ASSUME NEW r \in Reqs, GetResult(r) PROVE OneCopy'
  BY <1>14 DEF GetResult, Respond, RequestOK
<1>15. ASSUME NEW r \in Reqs, Timeout(r) PROVE OneCopy'
  BY <1>15 DEF Timeout, Respond, RequestOK
<1>16. ASSUME NEW r \in Reqs, ClientGone(r) PROVE OneCopy'
  BY <1>16 DEF ClientGone, Respond, RequestOK
<1>17. CASE UNCHANGED <<pc, answer, delivered, starts, cmdVars>>
  BY <1>17
<1> HIDE DEF OneCopy
<1> QED
BY <1>1, <1>2, <1>3, <1>4, <1>5, <1>6, <1>7, <1>8, <1>9, <1>10, <1>11, <1>12, <1>13,
     <1>14, <1>15, <1>16, <1>17 DEF Next, ConnTask, SendTask, RecvTask, Handler,
     vars, Connect, StartSender, HelloFails, RecvEnds, SenderDrained, AgentConnEnds

--------------------------------------------------------------------------------
\* The sending half of a waiter's oneshot channel only moves from pending_cmds
\* to the receive loop that took it, and from there into the channel.
LEMMA ChannelStep == IInv /\ [Next]_vars => WaiterHasChannel'
<1> SUFFICES ASSUME TypeOK, RequestOK, WaiterHasChannel, [Next]_vars
             PROVE  WaiterHasChannel'
  BY DEF IInv
<1> USE CommandConstants DEF TypeOK, WaiterHasChannel, connVars, cmdVars, reqVars
<1>1. ASSUME NEW c \in Conns, NEW r \in Reqs, TakeSender(c, r) PROVE WaiterHasChannel'
  BY <1>1 DEF TakeSender
<1>2. ASSUME NEW c \in Conns, HandResult(c) PROVE WaiterHasChannel'
  BY <1>2 DEF HandResult
<1>3. ASSUME NEW r \in Reqs, CloneTx(r) PROVE WaiterHasChannel'
  BY <1>3 DEF CloneTx
<1>4. ASSUME NEW r \in Reqs, NotOnline(r) PROVE WaiterHasChannel'
  BY <1>4 DEF NotOnline, Respond
<1>5. ASSUME NEW r \in Reqs, InsertPending(r) PROVE WaiterHasChannel'
  BY <1>5 DEF InsertPending
<1>6. ASSUME NEW r \in Reqs, SendCommand(r) PROVE WaiterHasChannel'
  BY <1>6 DEF SendCommand, RequestOK
<1>7. ASSUME NEW r \in Reqs, SendFails(r) PROVE WaiterHasChannel'
  BY <1>7 DEF SendFails, Respond
<1>8. ASSUME NEW r \in Reqs, GetResult(r) PROVE WaiterHasChannel'
  BY <1>8 DEF GetResult, Respond
<1>9. ASSUME NEW r \in Reqs, Timeout(r) PROVE WaiterHasChannel'
  BY <1>9 DEF Timeout, Respond
<1>10. ASSUME NEW r \in Reqs, ClientGone(r) PROVE WaiterHasChannel'
  BY <1>10 DEF ClientGone, Respond
<1>11. CASE UNCHANGED <<pc, pending, delivered, handing>>
  BY <1>11
<1> HIDE DEF WaiterHasChannel
<1> QED
BY <1>1, <1>2, <1>3, <1>4, <1>5, <1>6, <1>7, <1>8, <1>9, <1>10, <1>11 DEF Next,
     ConnTask, SendTask, RecvTask, Handler, vars, Connect, StartSender, HelloFails,
     RecvEnds, Cleanup, SenderStops, SenderDrained, LoseSocket, AgentConnEnds,
     SenderSends, AgentStarts, AgentFinishes

\* An entry of pending_cmds is removed with its waiter, except by the handler
\* that is dropped with its client.
LEMMA PendingStep == IInv /\ [Next]_vars => PendingHasWaiter'
<1> SUFFICES ASSUME TypeOK, RequestOK, PendingHasWaiter, [Next]_vars
             PROVE  PendingHasWaiter'
  BY DEF IInv
<1> USE CommandConstants DEF TypeOK, PendingHasWaiter, connVars, cmdVars, reqVars
<1>1. ASSUME NEW c \in Conns, NEW r \in Reqs, TakeSender(c, r) PROVE PendingHasWaiter'
  BY <1>1 DEF TakeSender
<1>2. ASSUME NEW r \in Reqs, CloneTx(r) PROVE PendingHasWaiter'
  BY <1>2 DEF CloneTx
<1>3. ASSUME NEW r \in Reqs, NotOnline(r) PROVE PendingHasWaiter'
  BY <1>3 DEF NotOnline, Respond, RequestOK
<1>4. ASSUME NEW r \in Reqs, InsertPending(r) PROVE PendingHasWaiter'
  BY <1>4 DEF InsertPending
<1>5. ASSUME NEW r \in Reqs, SendCommand(r) PROVE PendingHasWaiter'
  BY <1>5 DEF SendCommand
<1>6. ASSUME NEW r \in Reqs, SendFails(r) PROVE PendingHasWaiter'
  BY <1>6 DEF SendFails, Respond
<1>7. ASSUME NEW r \in Reqs, GetResult(r) PROVE PendingHasWaiter'
  BY <1>7 DEF GetResult, Respond, RequestOK
<1>8. ASSUME NEW r \in Reqs, Timeout(r) PROVE PendingHasWaiter'
  BY <1>8 DEF Timeout, Respond
<1>9. ASSUME NEW r \in Reqs, ClientGone(r) PROVE PendingHasWaiter'
  BY <1>9 DEF ClientGone, Respond
<1>10. CASE UNCHANGED <<pc, pending, answer>>
  BY <1>10
<1> HIDE DEF PendingHasWaiter
<1> QED
BY <1>1, <1>2, <1>3, <1>4, <1>5, <1>6, <1>7, <1>8, <1>9, <1>10 DEF Next, ConnTask,
     SendTask, RecvTask, Handler, vars, Connect, StartSender, HelloFails, RecvEnds,
     Cleanup, SenderStops, SenderDrained, LoseSocket, AgentConnEnds, HandResult,
     SenderSends, AgentStarts, AgentFinishes

--------------------------------------------------------------------------------
\* The five conjuncts together are an invariant of every behaviour.
LEMMA Invariance == Spec => []IInv
<1>1. IInv /\ [Next]_vars => IInv'
  BY TypeStep, RequestStep, CopyStep, ChannelStep, PendingStep DEF IInv
<1> QED
  BY InitInv, <1>1, PTL DEF Spec

\* The registry, the channels, the tasks and pending_cmds keep their types.
THEOREM TypeCorrect == Spec => []TypeOK
<1>1. IInv => TypeOK
  BY DEF IInv
<1> QED
  BY Invariance, <1>1, PTL

\* The "command channel dropped" branch of run_command (routes.rs:219) is dead
\* code, for any number of requests and of connections that replace each other.
THEOREM ChannelNeverDropped == Spec => []WaiterHasChannel
<1>1. IInv => WaiterHasChannel
  BY DEF IInv
<1> QED
  BY Invariance, <1>1, PTL

\* A 409 of run_command is final: the command did not run and is on no queue or
\* wire from which it still could.
THEOREM RefusedIsFinal == Spec => []RefusedNeverRuns
<1>1. IInv => RefusedNeverRuns
  BY DEF IInv, OneCopy, Unsent, RefusedNeverRuns
<1> QED
  BY Invariance, <1>1, PTL

\* No number of reconnects makes the laptop execute a command twice, and a result
\* handed to an administrator comes from an execution.
THEOREM ExecutedAtMostOnce == Spec => []AtMostOnce
<1>1. IInv => AtMostOnce
  BY DEF IInv, OneCopy, AtMostOnce
<1> QED
  BY Invariance, <1>1, PTL

\* pending_cmds leaks an entry only for a client that went away.
THEOREM PendingOnlyLeaksAborted == Spec => []PendingHasWaiter
<1>1. IInv => PendingHasWaiter
  BY DEF IInv
<1> QED
  BY Invariance, <1>1, PTL

--------------------------------------------------------------------------------
(* What EveryRequestAnswered and ReplacedSenderEnds rest on.                    *)

\* A connection that is not registered any more stays so; no request gets a clone
\* of its tx, and only requests that hold one put commands into its queue.
ReplacedStaysReplaced ==
  \A c \in Conns : conn[c] # "new" /\ online # c =>
    /\ online' # c
    /\ \A r \in Reqs : held'[r] = c => held[r] = c
    /\ queue'[c] \subseteq queue[c] \cup {r \in Reqs : held[r] = c}

\* The senders of a replaced connection only become fewer (agent_ws.rs:75: the
\* registry's entry was the only other one), so that rx.recv() can return None:
\* the safety half of ReplacedSenderEnds.
THEOREM ReplacedIsFinal == Spec => [][ReplacedStaysReplaced]_vars
<1>1. ASSUME IInv, [Next]_vars PROVE [ReplacedStaysReplaced]_vars
  <2>0. TypeOK /\ RequestOK
    BY <1>1 DEF IInv
  <2> USE DEF ReplacedStaysReplaced, connVars, cmdVars, reqVars
  <2>1. ASSUME UNCHANGED <<online, held, queue>> PROVE ReplacedStaysReplaced
    BY <2>1
  <2>2. ASSUME NEW c \in Conns, Connect(c) PROVE ReplacedStaysReplaced
    BY <2>2 DEF Connect
  <2>3. ASSUME NEW c \in Conns, Cleanup(c) PROVE ReplacedStaysReplaced
    <3>1. \A d \in Conns : queue'[d] \subseteq queue[d]
      BY <2>0, <2>3 DEF Cleanup, TypeOK
    <3>2. held' = held /\ online' \in {online, None} /\ None \notin Conns
      BY <2>3, CommandConstants DEF Cleanup
    <3> QED
      BY <3>1, <3>2
  <2>4. ASSUME NEW c \in Conns, SendTask(c) PROVE ReplacedStaysReplaced
    <3>1. \A d \in Conns : queue'[d] \subseteq queue[d]
      BY <2>0, <2>4 DEF SendTask, SenderSends, SenderStops, SenderDrained, Take, TypeOK
    <3>2. UNCHANGED <<online, held>>
      BY <2>4 DEF SendTask, SenderSends, SenderStops, SenderDrained
    <3> QED
      BY <3>1, <3>2
  <2>5. ASSUME NEW r \in Reqs, CloneTx(r) PROVE ReplacedStaysReplaced
    BY <2>0, <2>5 DEF CloneTx, TypeOK
  <2>6. ASSUME NEW r \in Reqs, SendCommand(r) PROVE ReplacedStaysReplaced
    <3>1. held[r] \in Conns
      BY <2>0, <2>6 DEF SendCommand, RequestOK
    <3>2. \A d \in Conns : queue'[d] = IF d = held[r] THEN queue[d] \cup {r} ELSE queue[d]
      BY <2>0, <2>6, <3>1 DEF SendCommand, Put, TypeOK
    <3> QED
      BY <2>6, <3>2 DEF SendCommand
  <2>7. ASSUME NEW r \in Reqs, NEW code, Respond(r, code), UNCHANGED <<online, queue>>
        PROVE  ReplacedStaysReplaced
    BY <2>0, <2>7, CommandConstants DEF Respond, TypeOK
  <2>8. ASSUME NEW r \in Reqs, NotOnline(r) \/ SendFails(r) \/ GetResult(r) \/ Timeout(r)
                                 \/ ClientGone(r)
        PROVE  ReplacedStaysReplaced
    BY <2>7, <2>8 DEF NotOnline, SendFails, GetResult, Timeout, ClientGone
  <2>9. ASSUME NEW r \in Reqs, InsertPending(r) PROVE ReplacedStaysReplaced
    BY <2>1, <2>9 DEF InsertPending
  <2>10. ASSUME NEW c \in Conns,
                \/ StartSender(c) \/ HelloFails(c) \/ RecvEnds(c)
                \/ LoseSocket(c) \/ AgentConnEnds(c) \/ RecvTask(c)
         PROVE  ReplacedStaysReplaced
    BY <2>1, <2>10 DEF StartSender, HelloFails, RecvEnds, LoseSocket, AgentConnEnds,
       RecvTask, TakeSender, HandResult
  <2>11. ASSUME NEW c \in Conns, NEW r \in Reqs, AgentStarts(c, r) \/ AgentFinishes(c, r)
         PROVE  ReplacedStaysReplaced
    BY <2>1, <2>11 DEF AgentStarts, AgentFinishes
  <2> HIDE DEF ReplacedStaysReplaced
  <2> QED
    BY <1>1, <2>2, <2>3, <2>4, <2>5, <2>6, <2>8, <2>9, <2>10, <2>11
       DEF Next, ConnTask, Handler
<1> QED
  BY <1>1, Invariance, PTL DEF Spec

\* A response is final, and nothing the hub does later reaches its request: its
\* result is not delivered, and it holds no channel.
AnswerStands ==
  \A r \in Reqs : pc[r] = "answered" =>
    /\ pc'[r] = "answered" /\ answer'[r] = answer[r]
    /\ held'[r] = held[r] /\ r \notin delivered'

\* Every request has one response, whatever races between the result, the timeout,
\* the end of the connection and the client's own end (routes.rs, run_command): with
\* EveryRequestAnswered, each is answered once and for good.
THEOREM AnsweredOnce == Spec => [][AnswerStands]_vars
<1>1. ASSUME IInv, [Next]_vars PROVE [AnswerStands]_vars
  <2>0. TypeOK /\ RequestOK
    BY <1>1 DEF IInv
  <2>1. ASSUME NEW r \in Reqs, pc[r] = "answered" PROVE r \notin delivered
    BY <2>0, <2>1 DEF RequestOK
  <2> USE DEF AnswerStands, connVars, cmdVars, reqVars
  <2>2. ASSUME UNCHANGED <<pc, answer, held, delivered>> PROVE AnswerStands
    BY <2>1, <2>2
  <2>3. ASSUME NEW c \in Conns, HandResult(c) PROVE AnswerStands
    BY <2>0, <2>1, <2>3 DEF HandResult, TypeOK
  <2>4. ASSUME NEW r \in Reqs, pc[r] # "answered", delivered' \subseteq delivered,
               \A q \in Reqs \ {r} :
                  pc'[q] = pc[q] /\ answer'[q] = answer[q] /\ held'[q] = held[q]
        PROVE  AnswerStands
    BY <2>1, <2>4
  <2>5. ASSUME NEW r \in Reqs, CloneTx(r) \/ InsertPending(r) \/ SendCommand(r)
        PROVE  AnswerStands
    BY <2>0, <2>4, <2>5 DEF CloneTx, InsertPending, SendCommand, TypeOK
  <2>6. ASSUME NEW r \in Reqs, NotOnline(r) \/ SendFails(r) \/ GetResult(r) \/ Timeout(r)
                                 \/ ClientGone(r)
        PROVE  AnswerStands
    BY <2>0, <2>4, <2>6 DEF NotOnline, SendFails, GetResult, Timeout, ClientGone, Respond,
       TypeOK
  <2>7. ASSUME NEW c \in Conns,
                \/ Connect(c) \/ ConnTask(c) \/ SendTask(c) \/ LoseSocket(c)
                \/ AgentConnEnds(c) \/ \E r \in Reqs : TakeSender(c, r)
        PROVE  AnswerStands
    BY <2>2, <2>7 DEF Connect, ConnTask, StartSender, HelloFails, RecvEnds, Cleanup, SendTask,
       SenderSends, SenderStops, SenderDrained, LoseSocket, AgentConnEnds, TakeSender
  <2>8. ASSUME NEW c \in Conns, NEW r \in Reqs, AgentStarts(c, r) \/ AgentFinishes(c, r)
        PROVE  AnswerStands
    BY <2>2, <2>8 DEF AgentStarts, AgentFinishes
  <2> HIDE DEF AnswerStands
  <2> QED
    BY <1>1, <2>3, <2>5, <2>6, <2>7, <2>8 DEF Next, RecvTask, Handler
<1> QED
  BY <1>1, Invariance, PTL DEF Spec
================================================================================
