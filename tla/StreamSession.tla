--------------------------- MODULE StreamSession ---------------------------
(***************************************************************************)
(* Setting up, using and ending a stream: the `start` and `stop` commands   *)
(* of the administrator's application (stream.rs), the client library       *)
(* behind them (pair::launch, rtsp.rs, session.rs, control.rs of            *)
(* kmc-moonclient) and the host's side (webserver.rs, session.rs, rtsp.rs,  *)
(* control.rs and the PLAY hook of host.rs of kmc-streamhost).              *)
(*                                                                         *)
(* A session is one call of `start`.  The button that calls it stays        *)
(* enabled while a call runs, so calls overlap; they share the slot of the  *)
(* current session, the static CONTROL, and the host.  Each session is a    *)
(* chain of exchanges (one connection each), then an ENet connection that   *)
(* a task of its own runtime serves.                                        *)
(*                                                                         *)
(* net[s] is what the reliable, ordered ENet connection of s carries to the *)
(* host; what is encrypted with the key of launch s decrypts exactly while  *)
(* that launch is the host's last.                                          *)
(***************************************************************************)
EXTENDS Naturals, Sequences, FiniteSets

CONSTANTS NumSessions,  \* bound: calls of start
          MaxInputs,    \* bound: input events
          MaxFaults     \* bound: failures of a link and restarts of the host

ASSUME SessionAssumption ==
    NumSessions \in Nat /\ MaxInputs \in Nat /\ MaxFaults \in Nat

Sessions == 1 .. NumSessions
None == 0

VARIABLES
    phase,    \* client: where the call of start stands
    wire,     \* the connection of the exchange it is at
    current,  \* StreamState.session
    control,  \* the static CONTROL
    typing,   \* input thread: found this session's channel alive
    given,    \* input events put into each queue
    task,     \* the task that owns the session's ENet host
    alive,    \* Shared.alive
    outq,     \* the queue from the handles to the task
    doomed,   \* sessions whose runtime is being shut down
    limit,    \* history: events given when the session was dropped
    link,     \* the ENet connection
    net,      \* messages on it
    key,      \* host: the last launch (SessionState)
    hook,     \* host: the PLAY hook
    peers,    \* host: connected ENet peers
    injected, \* host: input events of each session given to the system
    faults

app     == <<phase, current, control>>
input   == <<typing, given>>
handle  == <<alive, outq, doomed, limit>>
enet    == <<link, net, peers>>
stream  == <<key, hook>>
vars    == <<app, wire, input, task, handle, enet, stream, injected, faults>>

\* The exchanges.  SETUP stands for OPTIONS, DESCRIBE, the three SETUPs and
\* ANNOUNCE: their answers are constants, and all they leave at the host are
\* the stream parameters, which are data here.
Steps == <<"serverinfo", "launch", "SETUP", "PLAY">>

NoWire  == [step |-> 0, at |-> "none"]
Asks(i) == [step |-> i, at |-> "request"]

Init ==
    /\ phase = [s \in Sessions |-> "idle"]
    /\ wire = [s \in Sessions |-> NoWire]
    /\ current = None /\ control = None /\ typing = None
    /\ given = [s \in Sessions |-> 0]
    /\ task = [s \in Sessions |-> "none"]
    /\ alive = [s \in Sessions |-> FALSE]
    /\ outq = [s \in Sessions |-> <<>>]
    /\ doomed = {}
    /\ limit = [s \in Sessions |-> MaxInputs]
    /\ link = [s \in Sessions |-> "none"]
    /\ net = [s \in Sessions |-> <<>>]
    /\ key = None /\ hook = "idle"
    /\ peers = {} /\ injected = [s \in Sessions |-> <<>>] /\ faults = 0

\* Messages: control messages and numbered input events.
Msg(t)   == [type |-> t, nr |-> 0]
Event(n) == [type |-> "input", nr |-> n]

-----------------------------------------------------------------------------
(* The commands start and stop.                                            *)

\* tx.send fails once the task, and with it rx, is gone.
Queue(s, m) == IF task[s] = "ended" THEN outq[s] ELSE Append(outq[s], m)

\* Mutant: the replaced session is forgotten instead of dropped.
DropCurrentNot ==
    UNCHANGED handle

\* StreamSession::drop of the session in the slot: shutdown() of its control
\* channel, and a thread that shuts its runtime down.
DropCurrent ==
    LET s == current IN
    IF s = None THEN UNCHANGED handle
    ELSE /\ alive' = [alive EXCEPT ![s] = FALSE]
         /\ outq' = [outq EXCEPT ![s] = Queue(s, Msg("shutdown"))]
         /\ doomed' = doomed \cup {s}
         /\ limit' = [limit EXCEPT ![s] = given[s]]

\* stop(), then the first exchange.
Begin(s) ==
    /\ phase[s] = "idle" /\ (s > 1 => phase[s - 1] # "idle")
    /\ DropCurrent /\ current' = None
    /\ phase' = [phase EXCEPT ![s] = "asking"]
    /\ wire' = [wire EXCEPT ![s] = Asks(1)]
    /\ UNCHANGED <<control, input, task, enet, stream, injected, faults>>

Answered(s, i) == phase[s] = "asking" /\ wire[s] = [step |-> i, at |-> "answer"]

NextExchange(s) ==
    /\ wire' = [wire EXCEPT ![s] = Asks(@.step + 1)]
    /\ UNCHANGED <<app, input, task, handle, enet, stream, injected, faults>>

\* query_server_info (over HTTPS, else HTTP; one exchange, it leaves nothing at
\* the host), then launch.
ReadInfo(s) == Answered(s, 1) /\ NextExchange(s)

\* launch has the session URL, and the key it sent is in use.
ReadLaunch(s) == Answered(s, 2) /\ NextExchange(s)

\* An RTSP answer with status 200: the next request, on a new connection.
ReadSetup(s) == Answered(s, 3) /\ NextExchange(s)

\* After PLAY the receivers are started and ENet connects.
ReadPlay(s) ==
    /\ Answered(s, Len(Steps))
    /\ wire' = [wire EXCEPT ![s] = NoWire]
    /\ phase' = [phase EXCEPT ![s] = "connecting"]
    /\ UNCHANGED <<current, control, input, task, handle, enet, stream,
                   injected, faults>>

\* The connection failed, was closed without an answer or the timeout ran out
\* (10 s, 15 s for the HTTP requests).  The request may still be at the host.
ClientGivesUp(s) ==
    /\ phase[s] = "asking"
    /\ phase' = [phase EXCEPT ![s] = "failed"]
    /\ wire' = [wire EXCEPT ![s] = IF @.at = "request" THEN @ ELSE NoWire]
    /\ UNCHANGED <<current, control, input, task, handle, enet,
                   stream, injected, faults>>

\* The ENet handshake is complete, StartB is sent and flushed, and the task starts.
Connected(s) ==
    /\ phase[s] = "connecting"
    /\ phase' = [phase EXCEPT ![s] = "linked"]
    /\ link' = [link EXCEPT ![s] = "up"]
    /\ net' = [net EXCEPT ![s] = <<Msg("connect"), Msg("StartB")>>]
    /\ task' = [task EXCEPT ![s] = "running"]
    /\ alive' = [alive EXCEPT ![s] = TRUE]
    /\ UNCHANGED <<wire, current, control, input, outq, doomed, limit, peers,
                   stream, injected, faults>>

\* The handshake is complete, and StartB cannot be sent or flushed: the call fails
\* without a disconnect.  The host has its peer, and StartB may have gone out.
StartBFails(s) ==
    /\ phase[s] = "connecting"
    /\ phase' = [phase EXCEPT ![s] = "abandoned"]
    /\ link' = [link EXCEPT ![s] = "up"]
    /\ \E sent \in {<<Msg("connect")>>, <<Msg("connect"), Msg("StartB")>>} :
          net' = [net EXCEPT ![s] = sent]
    /\ UNCHANGED <<wire, current, control, input, task, handle, peers, stream,
                   injected, faults>>

\* start_stream is out of block_on, while the task runs already: CONTROL is
\* replaced, whoever's channel it holds.
Publish(s) ==
    /\ phase[s] = "linked"
    /\ phase' = [phase EXCEPT ![s] = "connected"]
    /\ control' = s
    /\ UNCHANGED <<wire, current, input, task, handle, enet, stream, injected,
                   faults>>

\* A socket cannot be bound, or no handshake within CONNECT_TIMEOUT.
ConnectFails(s) ==
    /\ phase[s] = "connecting"
    /\ phase' = [phase EXCEPT ![s] = "failed"]
    /\ UNCHANGED <<wire, current, control, input, task, handle, enet,
                   stream, injected, faults>>

\* The end of StreamState::start; the assignment drops what the slot held.
Store(s) ==
    /\ phase[s] = "connected"
    /\ phase' = [phase EXCEPT ![s] = "stored"]
    /\ DropCurrent /\ current' = s
    /\ UNCHANGED <<wire, control, input, task, enet, stream, injected,
                   faults>>

Stop ==
    /\ current # None
    /\ DropCurrent /\ current' = None
    /\ UNCHANGED <<phase, wire, control, input, task, enet, stream,
                   injected, faults>>

-----------------------------------------------------------------------------
(* Input and the task that owns the ENet host.                             *)

Given == Cardinality({p \in Sessions \X (1 .. MaxInputs) :
                                        p[2] <= given[p[1]]})

\* send_input: the channel in CONTROL, and enqueue's look at alive.
TypeBegin ==
    /\ typing = None /\ control # None /\ alive[control]
    /\ Given < MaxInputs
    /\ typing' = control
    /\ UNCHANGED <<app, wire, given, task, handle, enet, stream, injected,
                   faults>>

\* enqueue's send.
TypeEnd ==
    /\ typing # None
    /\ typing' = None
    /\ given' = [given EXCEPT ![typing] = @ + 1]
    /\ outq' = [outq EXCEPT ![typing] = Queue(typing, Event(given[typing] + 1))]
    /\ UNCHANGED <<app, wire, task, alive, doomed, limit, enet, stream,
                   injected, faults>>

\* Mutant: input is sent as the loss reports are, Unsequenced.
CarriedUnsequenced(q, m) == {q, Append(q, m)}

\* What ENet may make of a message sent ReliableSequenced.
Carried(q, m) == {Append(q, m)}

\* queue_msg for the next command of the queue.
TaskTakes(s) ==
    /\ task[s] = "running" /\ outq[s] # <<>> /\ Head(outq[s]).type # "shutdown"
    /\ outq' = [outq EXCEPT ![s] = Tail(@)]
    /\ IF link[s] = "up"
       THEN \E q \in Carried(net[s], Head(outq[s])) : net' = [net EXCEPT ![s] = q]
       ELSE UNCHANGED net
    /\ UNCHANGED <<app, wire, input, task, alive, doomed, limit, link, peers,
                   stream, injected, faults>>

\* The loop is left and the peer, if connected, told; disconnect drops what
\* ENet has not sent yet.
Leave(s) ==
    /\ task' = [task EXCEPT ![s] = "closing"]
    /\ alive' = [alive EXCEPT ![s] = FALSE]
    /\ IF link[s] = "up"
       THEN \E k \in 0 .. Len(net[s]) :
               net' = [net EXCEPT ![s] = Append(SubSeq(@, 1, k), Msg("bye"))]
       ELSE UNCHANGED net
    /\ UNCHANGED <<app, wire, input, doomed, limit, link, peers, stream,
                   injected, faults>>

\* Mutant: Shutdown is noted and the rest of the queue sent first.
TaskShutsDownLate(s) ==
    /\ task[s] = "running" /\ outq[s] # <<>> /\ Head(outq[s]).type = "shutdown"
    /\ outq' = [outq EXCEPT ![s] = <<>>]
    /\ task' = [task EXCEPT ![s] = "closing"]
    /\ alive' = [alive EXCEPT ![s] = FALSE]
    /\ net' = IF link[s] = "up" THEN [net EXCEPT ![s] = @ \o Tail(outq[s])] ELSE net
    /\ UNCHANGED <<app, wire, input, doomed, limit, link, peers, stream,
                   injected, faults>>

TaskShutsDown(s) ==
    /\ task[s] = "running" /\ outq[s] # <<>> /\ Head(outq[s]).type = "shutdown"
    /\ outq' = [outq EXCEPT ![s] = Tail(@)]
    /\ Leave(s)

\* Event::Disconnect, the host's or ENet's own after a silence.
TaskDisconnected(s) ==
    /\ task[s] = "running" /\ link[s] = "cut"
    /\ UNCHANGED outq
    /\ Leave(s)

\* The task is gone, and with it its end of the queue.
Ended(s) ==
    /\ task' = [task EXCEPT ![s] = "ended"]
    /\ outq' = [outq EXCEPT ![s] = <<>>]
    /\ UNCHANGED <<app, wire, input, alive, doomed, limit, enet, stream,
                   injected, faults>>

\* The acknowledgement, or SHUTDOWN_GRACE; the ENet host is dropped.
TaskEnds(s) ==
    /\ task[s] = "closing"
    /\ Ended(s)

\* shutdown_timeout drops a task of the runtime at its next await.
RuntimeDrops(s) ==
    /\ s \in doomed /\ task[s] \in {"running", "closing"}
    /\ Ended(s)

-----------------------------------------------------------------------------
(* The host.                                                               *)

Asked(s, m) == wire[s].at = "request" /\ Steps[wire[s].step] = m

\* What the host writes into the connection, if somebody still reads it.
Reply(s, r) ==
    wire' = [wire EXCEPT ![s] = IF phase[s] = "asking" THEN [@ EXCEPT !.at = r]
                                                       ELSE NoWire]

Answer(s) == Reply(s, "answer")

HostOnly == UNCHANGED <<app, input, task, handle, enet, injected, faults>>

\* GET /serverinfo.
HostInfo(s) ==
    /\ Asked(s, "serverinfo")
    /\ Answer(s) /\ HostOnly /\ UNCHANGED stream

\* GET /launch or /resume: the session of whoever came last.
HostLaunch(s) ==
    /\ Asked(s, "launch")
    /\ key' = s
    /\ Answer(s) /\ HostOnly /\ UNCHANGED hook

Rtsp(s, m) == Asked(s, m) /\ key # None

\* handle_connection without an active session.
HostRefuses(s) ==
    /\ wire[s].at = "request" /\ Steps[wire[s].step] \notin {"serverinfo", "launch"}
    /\ key = None
    /\ Reply(s, "closed")
    /\ HostOnly /\ UNCHANGED stream

HostNegotiates(s) ==
    /\ Rtsp(s, "SETUP")
    /\ Answer(s) /\ HostOnly /\ UNCHANGED stream

\* The hook is spawned; only the first PLAY builds the pipeline (the others'
\* session switch belongs to StreamHost).
HostPlay(s) ==
    /\ Rtsp(s, "PLAY")
    /\ hook' = IF hook = "idle" THEN "starting" ELSE hook
    /\ Answer(s) /\ HostOnly /\ UNCHANGED key

\* video::start fails, or it and audio::start are done and the task waits.
HookStarts ==
    /\ hook = "starting"
    /\ hook' \in {"idle", "waiting"}
    /\ HostOnly /\ UNCHANGED <<wire, key>>

Arrives(s, t) == net[s] # <<>> /\ Head(net[s]).type = t

Received(s) == net' = [net EXCEPT ![s] = Tail(@)]

\* Mutant: the other peers stay connected.
HostConnectKeeps(s) ==
    /\ Arrives(s, "connect") /\ Received(s)
    /\ peers' = peers \cup {s}
    /\ UNCHANGED <<app, wire, input, task, handle, link, stream, injected, faults>>

\* Event::Connect: every other connected peer is disconnected at once.
HostConnect(s) ==
    /\ Arrives(s, "connect")
    /\ peers' = {s}
    /\ link' = [o \in Sessions |-> IF o \in peers \ {s} THEN "cut" ELSE link[o]]
    /\ net' = [o \in Sessions |-> IF o = s THEN Tail(net[o])
                                  ELSE IF o \in peers THEN <<>> ELSE net[o]]
    /\ UNCHANGED <<app, wire, input, task, handle, stream, injected, faults>>

\* notify_waiters: only a task that waits now.
Triggered == IF hook = "waiting" THEN "running" ELSE hook

\* decrypt_message: the key of the last launch authenticates the message.
Decrypts(s) == key = s

\* handle_packet, StartB; dropped when it does not decrypt.
HostStartB(s) ==
    /\ Arrives(s, "StartB") /\ Received(s)
    /\ hook' = IF Decrypts(s) THEN Triggered ELSE hook
    /\ UNCHANGED <<app, wire, input, task, handle, link, peers, key,
                   injected, faults>>

\* inject: the event is given to the system at once.
inject(s, e) == injected' = [injected EXCEPT ![s] = Append(@, e.nr)]

\* Mutant: the control loop waits for the video before it serves input.
HostInputStreaming(s) ==
    /\ Arrives(s, "input") /\ hook = "running" /\ Received(s)
    /\ IF Decrypts(s) THEN inject(s, Head(net[s])) ELSE UNCHANGED injected
    /\ UNCHANGED <<app, wire, input, task, handle, link, peers, stream, faults>>

\* handle_packet, InputData; dropped when it does not decrypt.
HostInput(s) ==
    /\ Arrives(s, "input") /\ Received(s)
    /\ IF Decrypts(s) THEN inject(s, Head(net[s])) ELSE UNCHANGED injected
    /\ UNCHANGED <<app, wire, input, task, handle, link, peers, stream, faults>>

\* Event::Disconnect.
HostBye(s) ==
    /\ Arrives(s, "bye") /\ Received(s)
    /\ peers' = peers \ {s}
    /\ link' = [link EXCEPT ![s] = "cut"]
    /\ UNCHANGED <<app, wire, input, task, handle, stream, injected, faults>>

HostControl(s) == HostConnect(s) \/ HostStartB(s) \/ HostInput(s) \/ HostBye(s)

HostWeb(s) == \/ HostInfo(s) \/ HostLaunch(s) \/ HostRefuses(s)
              \/ HostNegotiates(s) \/ HostPlay(s)

-----------------------------------------------------------------------------
(* The network and the host process.                                       *)

\* ENet gives a peer up: the network fails, or the other end's socket is gone.
LinkFails(s) ==
    /\ link[s] = "up" /\ faults < MaxFaults
    /\ faults' = faults + 1
    /\ link' = [link EXCEPT ![s] = "cut"]
    /\ net' = [net EXCEPT ![s] = <<>>]
    /\ peers' = peers \ {s}
    /\ UNCHANGED <<app, wire, input, task, handle, stream, injected>>

\* host::start: no session, no hook, a control channel without peers.
HostStarts == key' = None /\ hook' = "idle" /\ peers' = {}

\* The agent is restarted: everything the host held is gone.
HostRestart ==
    /\ faults < MaxFaults
    /\ faults' = faults + 1
    /\ HostStarts
    /\ link' = [s \in Sessions |-> IF link[s] = "up" THEN "cut" ELSE link[s]]
    /\ net' = [s \in Sessions |-> <<>>]
    /\ wire' = [s \in Sessions |-> IF wire[s].at # "request" THEN wire[s]
                                 ELSE IF phase[s] = "asking"
                                 THEN [wire[s] EXCEPT !.at = "closed"]
                                 ELSE NoWire]
    /\ UNCHANGED <<app, input, task, handle, injected>>

Starting(s) == \/ ReadInfo(s) \/ ReadLaunch(s) \/ ReadSetup(s) \/ ReadPlay(s)
               \/ ClientGivesUp(s) \/ Connected(s) \/ StartBFails(s) \/ ConnectFails(s)
               \/ Publish(s) \/ Store(s)

Task(s) == TaskTakes(s) \/ TaskShutsDown(s) \/ TaskDisconnected(s) \/ TaskEnds(s)

Next ==
    \/ \E s \in Sessions :
          \/ Begin(s) \/ Starting(s) \/ Task(s) \/ RuntimeDrops(s)
          \/ HostWeb(s) \/ HostControl(s) \/ LinkFails(s)
    \/ Stop \/ TypeBegin \/ TypeEnd \/ HookStarts \/ HostRestart

Spec == Init /\ [][Next]_vars

\* The tasks that own the ENet hosts run, on the client and on the host.  (There
\* are finitely many messages, so fairness for all tasks together is enough.)
\* The user, the network and the host's web side owe nothing.
Fairness ==
    /\ WF_vars(\E s \in Sessions : Task(s))
    /\ WF_vars(\E s \in Sessions : HostControl(s))

FairSpec == Spec /\ Fairness

-----------------------------------------------------------------------------
(* Properties.                                                             *)

Messages == {Msg(t) : t \in {"connect", "StartB", "bye", "shutdown"}}
              \cup {Event(n) : n \in 1 .. MaxInputs}

\* The variables keep the shape their Rust types give them; the host's control
\* loop keeps one connection at a time (HostConnect drops the others).
TypeOK ==
    /\ phase \in [Sessions -> {"idle", "asking", "connecting", "linked",
                               "connected", "stored", "failed", "abandoned"}]
    /\ wire \in [Sessions -> [step : 0 .. Len(Steps),
                               at : {"none", "request", "answer", "closed"}]]
    /\ {current, control, typing, key}
          \subseteq Sessions \cup {None}
    /\ task \in [Sessions -> {"none", "running", "closing", "ended"}]
    /\ alive \in [Sessions -> BOOLEAN]
    /\ doomed \subseteq Sessions
    /\ link \in [Sessions -> {"none", "up", "cut"}]
    /\ hook \in {"idle", "starting", "waiting", "running"}
    /\ given \in [Sessions -> 0 .. MaxInputs]
    /\ \A s \in Sessions :
          /\ \A i \in DOMAIN outq[s] : outq[s][i] \in Messages
          /\ \A i \in DOMAIN net[s] : net[s][i] \in Messages
    /\ peers \subseteq Sessions /\ Cardinality(peers) <= 1

\* What the host injects for a session is a prefix of what was typed into it:
\* nothing is lost between two events that arrive, repeated or swapped
\* (control.rs, ReliableSequenced), even when another launch silences the
\* session, the link fails, or the session is stopped.
InputPrefix ==
    \A s \in Sessions :
        /\ Len(injected[s]) <= given[s]
        /\ \A i \in DOMAIN injected[s] : injected[s][i] = i

\* Nothing typed after the session was dropped reaches the laptop, even when
\* the input thread found the channel alive just before (session.rs, drop;
\* control.rs, enqueue and the Shutdown arm).
StoppedIsSilent ==
    \A s \in Sessions : \A i \in DOMAIN injected[s] : injected[s][i] <= limit[s]

\* Its connection is gone, or another session (or none) is in the slot.
Orphan(s) ==
    /\ task[s] = "running"
    /\ link[s] = "cut" \/ (phase[s] = "stored" /\ current # s)

\* No task is left running without its connection or behind the session in the
\* slot, also when calls of start overlap (control.rs, Event::Disconnect;
\* stream.rs, the assignment drops what it replaces; session.rs, drop).
NoOrphanTask == []<>(\A s \in Sessions : ~Orphan(s))

\* An event was accepted, is not injected, and nothing excuses it: neither the
\* connection nor the key (another launch) nor the task is lost.
Owed(s) ==
    /\ given[s] > Len(injected[s])
    /\ link[s] = "up" /\ key = s /\ task[s] = "running"

\* An event the channel accepted is injected, whatever the video does.
InputArrives == []<>(\A s \in Sessions : ~Owed(s))

(* What a comment says and the code does not keep: a run of its own.         *)

\* session.rs:149: when start_stream returns the host has already started to
\* stream.  Weaker: the pipeline that waits for this session starts capturing,
\* unless the session ends or another one takes the host over.
StartedIsStreamed ==
    \A s \in Sessions :
        (phase[s] = "stored" /\ hook = "waiting") ~>
            \/ hook = "running" \/ current # s \/ key # s \/ link[s] # "up"
=============================================================================
