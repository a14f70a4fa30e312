# kmcontrol in TLA+

kmcontrol lets the administrators of a classroom see, control and run commands
on the students' laptops. This directory holds TLA+ modules that model the parts
of it whose correctness depends on the order in which things happen, the TLC
configurations that check them on small instances, and TLAPS proofs of the
properties that were worth proving for every instance. `PROJECT.json` maps every
definition to the source lines it translates and lists the runs, the mutants,
the hazards and the findings.

    tlc -workers 2 -config Hub.cfg MCHubRegistry      # a run
    tlapm HubRegistryProofs.tla                       # the proofs of a module

## 1. The system

| part | source | state | operations | talks to |
|---|---|---|---|---|
| hub: registry and control sessions | kmc-hub `agent_ws.rs`, `state.rs`, `routes.rs` | `online`, `agent_addr`, `sessions`, each behind its own mutex; a broadcast channel | hello, status, disconnect and cleanup; request and release of control | agents (WebSocket), administrators (HTTP, WebSocket) |
| hub: remote commands | `routes.rs` `run_command`, `agent_ws.rs`; agent `run.rs`, `exec.rs` | `pending_cmds`, one mpsc queue per connection, one oneshot per command | send, execute, hand the result back, time out after 30 s | both ends of an agent's connection |
| hub: identities | `routes.rs` `provision`, `db.rs`; agent `provision.rs`, `run.rs` | the laptops table; the agent's state file and its copy in memory | provision, verify, reconnect, re-provision | HTTP and WebSocket |
| hub: administrators' feed | `admin_ws.rs`, `state.rs` `snapshot` | the receiver of the broadcast channel | snapshot, forward, resynchronise | admin application, MCP server |
| input capture | kmc-keyhook `main.rs`; kmc-admin `keyhook.rs`, `lib.rs` | atomics shared by the hook thread and the stdin thread; two pipes; the stream session | key and button events, focus, rectangle, start and stop of the stream | Windows hooks, the client session |
| streaming host life cycle | kmc-streamhost `host.rs`, `control.rs`, `capture.rs`, `video/mod.rs` | the pipeline guard and slot, thread flags, the registered client, the frame counters | PLAY, StartB, ping, encode, send, tear-down | client over RTSP, ENet and UDP |
| adaptive bitrate | kmc-streamhost `bitrate.rs` | atomics and one mutex with timing | configure, on_loss, on_rtt, poll_target | control task, sender task, encode thread |
| stream set-up and control | kmc-admin `stream.rs`; kmc-moonclient `session.rs`, `rtsp.rs`, `pair.rs`, `control.rs`; kmc-streamhost `webserver.rs`, `session.rs`, `rtsp.rs`, `control.rs`, `input.rs` | the application's session slot and static `CONTROL`; a queue and an ENet host per session; the host's last launch, its hook and its peers | start, stop, the chain of HTTP and RTSP exchanges, connect, type, shut down, inject | both ends of HTTP, RTSP and ENet |
| video transport | kmc-streamhost `video/packetizer.rs`, `video/mod.rs`; kmc-gsproto; kmc-moonclient `video.rs` | sequence numbers; frames in assembly, the watermark of retired ones | cut into blocks and shards, put together, recover, expire, report loss | UDP |
| key frame requests | kmc-moonclient `session.rs`, kmc-admin `stream.rs`, kmc-streamhost `control.rs`, `capture.rs`, `gpu_encode.rs`, `qsv.rs` | `idr_req`, the frame channel, the rate limit of requests | signal a loss, ask, encode a key frame, drain, send | client and host |
| audio | kmc-streamhost `audio.rs`, kmc-moonclient `audio.rs` | the registered client and its sequence number; the sequence tracker and its statistics | PING, take over, time out, send, receive, re-open the device | UDP |
| pairing, GPU conversion, input coordinates | kmc-streamhost | certificates, driver handles | | client |
| administrator's application, MCP server | kmc-admin, kmc-mcp | view of the laptops, tokens | login, table, commands | hub, client |

What is hard here: tasks of a multi-threaded runtime that interleave between
critical sections of *different* mutexes (hub); timeouts that race results
(commands); a process that may die anywhere between a server's commit and its
own save (identities); values read outside the lock under which they are used
(bitrate, views); global hooks whose gate changes between a key's DOWN and its
UP (input capture); three threads that have to be gone before three new ones
start (streaming host); calls of `start` that overlap, each with a runtime, a
queue and a connection of its own (sessions); datagrams in any order with
counters that wrap (video, audio); a request that must not get lost on a way
with a rate limit, a flag and a draining channel (key frames). `PROJECT.json`, "hazards", lists each at its line.

What makes each part correct:

- registry: a listed laptop has a living connection; only its own connection
  takes it off the list; control has at most one holder; the administrators'
  tables converge.
- commands: every request is answered once; a refused command never runs, none
  runs twice; nothing is leaked in `pending_cmds`.
- identities: one row per machine and one name per row; no machine changes an
  identity the hub knows; a running agent always finds its way back.
- input: what goes down on one side comes up on that side.
- streaming: never two pipelines; a watched stream flows, an unwatched one
  stops; frame numbers a client can follow.
- bitrate: inside its limits, whatever interleaving of reports and polls.
- sessions: what is typed arrives in order, once, and never after the stop; no
  task is left behind; what was started streams.
- video: a frame of which something arrives is handed over whole or reported
  lost, once; loss reports tell the truth; a lost frame is followed by a key
  frame.
- audio: a receiver that is alone is served; the loss statistics are exact.

## 2. The modules

| module | models | run as |
|---|---|---|
| `ControlLock` | abstract: control of a laptop as a lock | property of `hub` |
| `HubRegistry` | `handle_socket`, `cleanup`, `broadcast_agent`, `session_request`, `session_release` | `MCHubRegistry` |
| `HubRegistryProofs` | theorems about `HubRegistry` | tlapm |
| `HubCommands` | `run_command`, send task and receive loop, `connect_once`, command execution | `MCHubCommands` |
| `HubCommandsProofs` | theorems about `HubCommands` | tlapm |
| `Keyhook` | `kbd_proc`, `mouse_proc`, `stdin_loop`, `release_all_remote`, `handle_line`, `start_stream`, `stop_stream` | `MCKeyhook` |
| `KeyhookProofs` | theorems about `Keyhook` | tlapm |
| `Provision` | `provision` on both sides, `get_or_create_laptop`, `verify_agent`, the reconnect loop | `MCProvision` |
| `ProvisionProofs` | theorems about `Provision` | tlapm |
| `StreamHost` | PLAY hook, watcher loop, sender task, capture and encode threads, supervisor | `MCStreamHost` |
| `StreamHostProofs` | theorems about `StreamHost` | tlapm |
| `Bitrate` | `configure`, `on_loss`, `on_rtt`, `poll_target` | `MCBitrate` |
| `BitrateProofs` | theorems about `Bitrate` | tlapm |
| `StreamSession` | `StreamState::start`/`stop`, `launch`, `play_all`, `start_stream`, `ControlChannel`, the host's web server, RTSP server, PLAY hook and control loop | `MCStreamSession` |
| `StreamSessionProofs` | theorems about `StreamSession` | tlapm |
| `VideoWire` | `packetize_frame` and the bit fields of kmc-gsproto, as operators | through `VideoStream` |
| `FrameFate` | abstract: what the transport promises about frames | property of `video`, base of `KeyFrames` |
| `VideoStream` | sender, UDP, `Depacketizer`, the receive loop | `MCVideoStream` |
| `KeyFrames` | `pump_lost`, `RequestIdrFrame`, both encode loops, the drain of the sender | `MCKeyFrames` |
| `AudioStream` | capture thread, sending task, `SeqTracker`, the client's receive loop | `MCAudioStream` |
| `MediaStreamProofs` | theorems about `VideoStream` and `AudioStream`, which share the arithmetic of numbers that wrap | tlapm |

`VideoStream` implements `FrameFate`; `KeyFrames` is composed with `FrameFate`
and not with the shards below it, so the two levels are checked apart.

A definition whose comment begins with "Mutant" is a wrong version of the one that
follows it. No specification uses it; it exists to show that the property it is
listed with in `PROJECT.json` fails when the code is changed that way.

### HubRegistry

One action is one critical section. Every connection and every HTTP request is a
task with a program counter `pc`; `view` and `ret` are the locals of
`broadcast_agent`, which reads `online`, then `sessions`, then sends: three
steps. A connection stands for its own `conn_id`. `Register` replaces an earlier
registration and keeps its status, `CleanupOnline` / `CleanupAddr` /
`CleanupSession` are the three locks that `cleanup` takes in turn. A grant does
not look at `online`, exactly as in the code. `Return` clears the locals of a
finished request so that the slot can be used again. Left out: the snapshot
sent to new administrators (see the plan), database errors (rows are only ever
added, and a failing SQLite read is a 500 that changes nothing), the content of
a status.

### HubCommands

The sets `queue`, `wire`, `running`, `results`, `handing` are the places a
command can be in between the hub and the laptop; they are sets because each
command is executed by a task of its own. The oneshot sender is in `pending`,
then in the hands of the receive loop, then used. A connection's send task owns
the receiver of the queue: it ends when every sender (the registry's and the
clones requests hold) is dropped, or when it is aborted. The client of a request
may leave at the await, which drops the handler before it removes its entry.

### Keyhook

`owned` is KEY_REMOTE and BTN_REMOTE together; `hook` is the callback being run
and how far it got, so the stdin thread can change the gate between the read,
the ownership mark and the line written. `phys`, `ldown` and `rdown` are the
truth: what the finger, the local desktop and the laptop believe. A pointer
position is reduced to inside or outside the rectangle. Mouse motion, wheel and
the mapping of key codes carry no state and are left out. A call of
`start_stream` is `StartCalled` (which drops an open session and tells the sidecar
nothing), then `StartFails`, or `StartConnects` and `StartAnnounced`; calls
overlap, up to `MaxStarts`. A stop is `StopStream` and `CloseSession`, with or
without a session. `ended` is a history variable: some session was stopped or
replaced.

### Provision

An identity is the number of its row among all rows ever made. A MAC address is
the machine itself, or, where none is found, a fresh one for each call, as the
code's fallback makes it. A fault is a crash (also in the middle of the write,
which leaves a torn file), a lost request or answer, a failed save, a state file
that cannot be removed (`DropFails`; the code ignores the error), an outage of
the hub or the loss of its database. `Delays` is the number of attempts of one
`provision()` call, 6 in the code.

### StreamHost

`pipe[p]` is one set of threads: the state of the capture and of the encode
thread, the set-up and mode handshakes between them, `stop` and `done`. The
watcher reads `client_active`, then acts, with anything in between. The sender
task is one `select!` loop: a frame, a datagram, or a `sleep(1s)` that every
iteration creates anew; `busy` and `elapsed` express exactly that. One `Tick` is
one second, and one frame stands for all those of a second. Frame numbers
saturate at `FrameCap`; identities of pipelines are reused once free. Assumed:
Windows delivers a first frame to a capture it has accepted, and no datagrams
but those of the clients arrive. Frame types and IDR requests are in
`KeyFrames`, packets in `VideoStream`, the way to PLAY and StartB in
`StreamSession`. Left out: the dummy frame generator.

### Bitrate

Each atomic store outside the lock is a step; each critical section is two, the
gates with the reads and then the store, so that `configure`, which does not
take the lock for `max` and `target`, can fall in between. Each comparison of an
`Instant` with a constant is a flag that an operation sets and an `Expire` step
clears. The loss average is reduced to whether it exceeds the gate, an RTT
sample to whether it exceeds the baseline by the trigger; both are chosen freely.
Rates are integers with the truncating factors of the code. Assumed: reports and
polls come after a first `configure` returned, and no timer runs out between a
poll's reading of the clock and its lock. Left out so far: `poll_fec_percentage`.

### StreamSession

A session is one call of `start`. Calls overlap, because the button stays
enabled while one runs; they share the slot (`current`), `CONTROL` (`control`)
and the host. `phase` and `wire` follow the chain of exchanges: serverinfo,
launch, then RTSP, of which OPTIONS to ANNOUNCE are the one step "SETUP" (they
only answer), then PLAY. Any of them may fail or time out on the client while
the request is still being served. `Connected` is the ENet handshake with StartB
queued and flushed, which ends in the spawn of the task; `Publish`, later and
beside the running task, replaces `CONTROL`. `StartBFails` is the error return of
the send or the flush, with StartB on its way or not: the connection is up, no
task serves it, and the host is left to ENet's timeout. `TypeBegin`
and `TypeEnd` are the look at `alive` and the send of `enqueue`. `net[s]` is the
reliable ordered ENet connection; `bye` may overtake what ENet had not sent yet
(`Leave`). `Decrypts` is what the encryption does here: a message is readable
exactly while the launch it was encrypted for is the host's last. `RuntimeDrops`
is `shutdown_timeout`, which may drop the task before it has said good-bye. A
fault is a failed link or a restart of the host.

### VideoWire, FrameFate, VideoStream

`VideoWire` keeps lengths, counts, indices and sequence numbers exact and leaves
payload bytes out. Reed-Solomon is external and modelled by what it restores: a
block with parity of which as many shards arrived as it has data shards. The
network may deliver any shard ever sent at any time, any number of times, or
never. `PushShard` and `PushCompletes` are `Depacketizer::push` up to its two
ends; `Evicted`, `Older` and `Retire` are the retirements it makes on its way.
`Tick(cut)` is `expire` on the 500 ms ping: what was there at the last tick is
older than the 100 ms budget, of the rest any prefix by time may be. `fec` holds
the reports of the last step only. One numbering is modelled, from the
registration of a client to the next.

The refinement mapping `Fate` counts verdicts: `lost[n]` is how often a frame was
reported Lost, `delivered` every hand-over. With one verdict it is "lost" or
"delivered"; with a second one, of either kind and in either order, it is
"overruled", which is no state of `FrameFate`. So a lost frame that a late shard
brings back, and a second hand-over, are visible in the refinement.

### KeyFrames

The loop from a lost frame to the key frame that repairs it, for both encode
loops: RAM (`encode_loop` with QSV) and zero-copy. Encoders have an infinite
GOP, so a key frame is the first of an encoder or one that was asked for. An
encoder that is re-opened for a new bitrate starts with one. `NoFrame` is a turn
that took the request and produced nothing.

### AudioStream

`client_addr`, `expired` and `frames_sent` are the locals of the sending task,
`icmp` the WSAECONNRESET that a frame to a vanished client causes. A frame is
known by its position; the sequence number is the position modulo `SeqSpace`.
`MaxLag` and `MaxGap` say how far a frame may be displaced: late by less than the
threshold at which the tracker resynchronises, early by less than half the range.
`epoch`, `first` and `highest` record what a client really heard. Clients in
`Listeners` receive frames; the others only register, take over and vanish. The
specification is `AudioInit`, `AudioNext`, `AudioSpec`: its names differ from
those of `VideoStream` because `MediaStreamProofs` extends both modules.

## 3. The runs

| run | instance | checked | shows |
|---|---|---|---|
| `hub` | 2 agent ids (1 known), 2 connections, 2 administrators, 1 request slot (reused) | TypeOK, RegistrationIsAlive, OfflineByOwnConn, StatusSurvivesReplacement, SessionsAreALock, EventuallyOffline | a listed laptop has a live task behind it, only its own cleanup takes it off the list and, once its connections have ended, does; a replacement keeps the status; the session handlers implement `ControlLock` |
| `hub_serving_has_address` | the same, 1 agent id | ServingHasAddress | **violated**, see 6 |
| `commands` | 2 requests, 2 connections | WaiterHasChannel, RefusedNeverRuns, AtMostOnce, PendingHasWaiter, EveryRequestAnswered, ReplacedSenderEnds | the channel of a waiting request is never lost; a 409 means the command never runs; no command runs twice; no leak but by clients that left; every request ends; the send task of a replaced connection ends |
| `keyhook` | 1 key, 1 button, 2 lines per pipe, 2 calls of start at a time | OwnedIsPressed, RemoteUpIsOwed | no stale ownership; until a session was stopped or replaced the laptop never holds what nobody will release, also when starts fail or overlap |
| `provision` | 1 laptop with and 1 without a MAC, 2 attempts, 4 faults, 6 rows | RowsDistinct, IdentityStable, LoopReconnects | an identity that is taken on is that of the machine's row in the hub, also after crashes, lost answers, torn, dropped or undropped files and resets; the loop comes back |
| `stream` | 2 clients, 2 pipelines, timeouts 2 and 3 s, frame numbers up to 2 | OnePipeline, FramesConsecutive, WatchedIsStreamed, IdleIsTornDown | threads of two pipelines never coexist; numbering per client; streams start and stop |
| `bitrate` | floor 50, ceilings 50 and 80, 2 hook tasks, 2 pollers, 1 loss report, 3 RTT samples | TypeOK, FloorHeld, CeilingsOrdered, NoStaleRaise | the limits hold in every interleaving |
| `session` | 2 calls of start, 2 input events, 1 fault | TypeOK, InputPrefix, StoppedIsSilent, NoOrphanTask, InputArrives | input is injected in order and once, none after the stop; no task outlives its connection or its place in the slot, also when StartB cannot be sent; accepted input arrives whatever the video does |
| `session_started` | 1 call, no fault | StartedIsStreamed | **violated**, see 6 |
| `video` | blocks of 3 shards, 2 blocks, 2 frames in assembly, 3 frames of which one needs both blocks, sequence numbers that wrap at 16 | TypeOK, DeliveredIntact, DeliveredWhenRecoverable, MissingExact, ReportsAreHonest, ShardsAccepted, OneFate, FramesSettle | the depacketizer undoes the packetizer under any loss, repetition and order; it implements `FrameFate`; each report to the bitrate control tells the share of its block that did not arrive, and only incomplete blocks are reported |
| `keyframes` | 3 frames, both encode loops, a channel of 1, no empty turns | LossIsAnswered | **violated**, see 6 |
| `audio` | 2 clients, 1 of them hears; 7 frames, sequence numbers that wrap at 6, 3 received | LossExact, AloneIsRegistered | statistics are exact within a registration and across the wrap; take-over, reset and loss never lock a receiver out |

Every module with a passing run has a `TypeOK`. The runs check it where it says more than types or
is proved (`hub`, `bitrate`, `video`, `session`); in the others it documents the
variables.

Why the bounds are enough to be interesting:

- Two connections of one agent are what a replacement needs; the cleanup of the
  first, the registration of the second and a request overlap at every lock. One
  request slot suffices because sessions survive the request: the second
  administrator's request meets the first one's session.
- Two commands and two connections let a command be queued on a connection that
  is being replaced while another is answered on the new one.
- Two pipe lines are enough for an UP and a DOWN of one item to be under way
  together; a key and a button exercise both kinds of ownership. Two calls of
  start at a time fail, connect and announce themselves in any order. The run uses
  a VIEW, `Seen`, that leaves out what nothing reads: `ldown`, and, once `ended`
  is set, `rdown` and the content of the pipe to the application.
- Four faults cover a lost answer, a crash, a state file that cannot be removed
  and a database reset in one behaviour. Six rows are all that two laptops can make
  with four faults, so that bound cuts nothing off.
- Two clients are enough for a take-over and a return; with two pipeline
  identities a second pipeline *could* be started before the first has gone.
- In `bitrate`, one loss report suffices to overtake a poll; three RTT samples
  are the streak that triggers a decrease. 50 and 80 make truncation visible.
- Two sessions are what an overlap and a take-over of the host need; two events
  can be swapped, or split by a stop; one fault falls anywhere, also between an
  exchange and its answer.
- In `video`, three frames with a table of two force an eviction; a block of
  three shards can lose a data shard and recover; 60 % of parity and the lengths
  2 and 22 give a frame of one shard and one of two unequal blocks; sequence
  numbers start at 14, so the wrap falls into a frame.
- In `audio`, seven positions pass the wrap at 6, and three received frames are
  a first one, a gap and a late one.
- `keyframes` allows no empty turn and a channel of one frame, so that the rate
  limit alone is left to break the property; the counterexample has ten states.

`CHECK_DEADLOCK FALSE` is set where the system really may stop: all commands
answered and all connections closed, all laptops switched off, the last session
dropped or the receiver ended, or where a bound on frames or sessions is used up.

## 4. Fairness

Safety runs use no fairness. The liveness runs assume weak fairness only of
steps that the runtime or the operating system performs by itself, with one
exception in `AudioStream`:

- `HubRegistry`, `HubCommands`: tokio polls every task that is ready, and the
  30 s timer of a request fires. Agents, the network, administrators and the
  execution of commands owe nothing.
- `Provision`: the agent process, as long as it runs, keeps executing; a hub
  that is down is started again. Faults are bounded, so liveness speaks of what
  follows the last one.
- `StreamHost`: the watcher, the sender, the threads and the supervisor keep
  running, and time passes. The encode thread is fair where its loop produces a
  frame by itself (the RAM path re-encodes a static screen); the zero-copy path,
  which waits for the screen to change, is not. Clients owe nothing: they ping
  or fall silent as they like.
- `StreamSession`: the task that owns a session's ENet host and the host's
  control loop run. The user, the network, the exchanges and the PLAY hook owe
  nothing.
- `VideoStream`: the ping timer of the receive loop fires. Nothing is assumed of
  the network or the host.
- `AudioStream`: the owner timeout and the client's ping timer fire (weak); and of PINGs that are repeated for ever
  one arrives (strong fairness of `HostPing`, since each single one may be
  lost).

## 5. The proofs

Each theorem holds for every value of the constants that the named ASSUME of the
component's module allows; TLC evaluates those assumptions in every run. The
argument is the same everywhere: an inductive invariant `IInv` (or parts of it
under names of their own), `Init => IInv`, `IInv /\ [Next]_vars => IInv'` by one
step per action, and the property from `IInv`. The inductive invariants were
model-checked with the constants of the component's run before they were proved.

`HubRegistryProofs`, for any sets of agents, connections, requests and
administrators, from `HubConstants` (rows are agents, task names differ, `None`
is no element):

- `TypeCorrect`, `RegistrationAlive`: `RegistrationIsAlive` is not inductive by
  itself, because a step of a task only preserves it if the task's locals fit
  its program counter. `IInv` adds `TaskOK`: a task past its start has an agent,
  and only connections are at the labels of a connection. Then `CleanupOnline`
  removes an entry exactly when the task leaves the registered labels, and
  `Register` always enters with the right agent.
- `OfflineOnlyByOwn`, `StatusSurvives`: action properties, by cases over the
  actions that change `online` and `last_status`.
- `SessionsImplementLock`: step simulation. Only the grant (`Acquire`), the
  release (`Release`) and the cleanup (`Revoke`, or a stutter without a session)
  change `sessions`.

`HubCommandsProofs`, for any number of requests and connections:

- `ChannelNeverDropped`, `RefusedIsFinal`, `ExecutedAtMostOnce`,
  `PendingOnlyLeaksAborted`. None is inductive alone: that a command runs once
  needs to know where its copies are. `IInv` adds `OneCopy` (a command is in at
  most one queue or wire, has been sent and not started while it is there, and
  has been started once when it runs or its result is on the way back) and
  `RequestOK` (what a handler holds at each of its steps). The four properties
  are then read off.
- `AnsweredOnce`, `ReplacedIsFinal`: action properties. A response stands, and the
  senders of a connection that was replaced only become fewer.

`StreamHostProofs`, for any clients, pipelines, timeouts and frame cap:

- `NeverTwoPipelines`: `OnePipeline` needs `DoneIsDead`: the `done` flag that the
  watcher waits for is set only after both threads are gone, so the slot is
  empty or its pipeline dead whenever a new one is started.
- `NumbersConsecutive`: an action property; `CounterOfClient` ties the sender's
  counter to what the registered client saw last.

`KeyhookProofs`, for any keys, buttons, pipe lengths and numbers of overlapping
starts:

- `MarksFollowPresses` and `UpAlwaysOwed`, with `HookOK` (a callback about
  to mark follows a press, one about to emit a DOWN owns the item) and
  `FirstStream` (before a session was stopped or replaced nothing is being
  released, before the first session nothing was captured, however many starts
  failed). `UpAlwaysOwed` reasons
  about the last line about an item in a pipe: appending makes the new line the
  last, consuming the head changes the last only if it was the only one.

`ProvisionProofs`, for any laptops, attempts, faults and rows:

- `RowsStayDistinct`, `IdentityIsStable`, with `RowsOK` (no name exceeds the
  number of rows and no identity the number ever made, so the next ones are new),
  `IdentityOK` (which identities a laptop can hold at each of its steps) and
  `OwnRow` (an identity that a machine has in its file, in memory or in an answer
  is that of its own row, where the hub has the row). `IdentityIsStable` compares
  with the hub's table and not with what the laptop remembers, so it binds a
  laptop that lost memory and file as well. It follows because a lookup by a MAC
  address finds the one row with that address.

`StreamSessionProofs`, for any number of overlapping sessions, events and faults:

- `InjectedIsPrefix`, `NothingAfterStop`. A typed event passes three places: the
  queue of the session, the ENet connection, the host. `PipeOK` says that they
  hold one numbering without a gap: what was injected, then what is on the
  connection, then the queue up to a shutdown, and that it ends at `given`. It
  holds for the session whose key the host has; a connected session that lost it
  never gets it back (`PhaseOK`), so what it still sends is not injected. After a drop
  a shutdown is in the queue and nothing behind it is sent. A session whose StartB
  failed (`abandoned`) has a connection that holds no input and no task to add any.
- `NoInputForgotten`: by the same numbering, the next event owed is at the front of
  the connection or of the queue. `NoTaskForgotten`: a stored session is in the slot
  or was dropped from it (`SlotOK`), so each orphan task has a shutdown in its queue
  or a cut connection to see, however calls of `start` overlap.

`MediaStreamProofs` about `VideoStream`, for any block size up to 255, up to four blocks, any
payload size, table size, lengths, number of frames, and any range of sequence
numbers at least twice a block:

- `TypeCorrect` (with the bound of the table) and `FramesHaveOneFate`, the
  refinement of `FrameFate`, rest on `FateOK`: a frame has at most one verdict;
  what is lost or delivered is out of the table and at or below the watermark, or
  still in the table and marked.
  All ends of `push` and `expire` are one kind of step, `Turn`: a set of frames is
  retired, at most one newer frame gets a shard, and may be handed over. The
  oldest and newest frame of a set exist by well-foundedness of the numbers.
- `SettledForGood`: what leaves the table has its fate and lies below the
  watermark; what lies below the watermark outside of the table never enters it
  again and keeps its fate. Needs the converse of `FateOK` (`MarksOK`: what is
  marked as delivered was handed over).
- `EveryShardAccepted`, `MissingAlwaysExact`, `DeliveredExactly`,
  `ReportsHonest`, `HandedOverIntact` have the hypothesis `FramesFit`: access
  units fit into `MAX_FEC_BLOCKS` blocks. Without it they are false, see 6: the
  code does not enforce it, the rate and frame size of a stream do. They rest on
  the arithmetic of the layout (`BlocksOK`: all blocks but the last are full and
  none exceeds `MAX_SHARDS`), on the headers coming out as they went in
  (`UnpackInfo`, `UnpackMulti`), and on `AsmOK`: every block in assembly has the
  layout the host gave it, `highest_seq` is the number of the highest shard that
  arrived, `missing_before_highest` counts the gaps below it, and a frame is
  marked delivered exactly when each block has as many shards as data shards.
  `ReportsHonest` is an action property: by `AsmOK` the layout a report is computed
  from is the host's, so what it says is missing is what did not arrive; a block
  nothing came of is reported as lost whole, and the share is 1 whatever size is
  written into the report.
  `MinusOK` is why the wrap does not matter: the distance of two numbers modulo
  `SeqMod` is the distance of the shards, as long as a block is at most half of
  the range. `LengthOK` shows that cutting and assembling are inverse.

`MediaStreamProofs` about `AudioStream`, for any even range of sequence numbers,
any threshold up to half of it and any network within it (`AudioAssumption`):

- `AudioLossExact`: `LossExact` is not inductive, since `advance` only sees two
  numbers. `TrackerOK` adds that the number the tracker holds is that of the
  highest position received. `DiffIsDistance` is the core: the signed difference
  of two numbers is the distance of the positions, as long as that is below half
  the range. Hence (`AdvanceInReach`) a later frame moves `expected` on by as much
  as `highest`, and an earlier or repeated one is stale and never a restart.
- `AudioExpectedWasSent` (with `SpanOK`): what is counted lies within what the host
  has sent in the registration, and nobody else is registered. It also shows that
  the history variables `epoch`, `first`, `highest` mean what `LossExact` takes
  them for. `AudioTypeCorrect` needs that only started clients ping (`PingOK`).

`BitrateProofs`, for any unit, ceilings and numbers of tasks, from
`BitrateAssumption`:

- `TypeCorrect` (no rate exceeds the largest negotiated ceiling),
  `FloorAlwaysHeld`, `CeilingsStayOrdered`, `NeverStaleRaise`. The inductive
  invariant adds what each operation relies on between two of its steps:
  `ConfInv` (what a `configure` has written so far), `PollInv` (what was read
  before the lock, and that a poll whose value was overtaken finds either a
  recent loss or a recent recovery and therefore gives up) and `HeldInv` (what
  the holder of the lock has read is above the floor).

Only model-checked: everything about liveness and fairness (the prover handles
neither, nor ENABLED), that is `EventuallyOffline`, `EveryRequestAnswered`,
`ReplacedSenderEnds`, `LoopReconnects`, `WatchedIsStreamed`, `IdleIsTornDown`,
`NoOrphanTask`, `InputArrives`, `FramesSettle` and `AloneIsRegistered`. For most
of them the part that is safety is proved: that nothing which has to happen waits
for something that is no longer there, and that what has happened stays so.

| liveness, by TLC | proved for every value of the constants |
|---|---|
| `EventuallyOffline` | `RegistrationAlive`: the entry that has to go has a task that is going to clean up |
| `EveryRequestAnswered` | `ChannelNeverDropped`, `AnsweredOnce` |
| `ReplacedSenderEnds` | `ReplacedIsFinal` |
| `IdleIsTornDown` | `NeverTwoPipelines`: the threads that have to end belong to the pipeline the watcher stops |
| `NoOrphanTask` | `NoTaskForgotten` |
| `InputArrives` | `NoInputForgotten` |
| `FramesSettle` | `SettledForGood` |

There is no RECURSIVE operator in any module; the one recursive function, the sum
in `TotalData`, runs over at most four blocks and is unrolled in its proof.

## 6. Where the code and its words disagree

With a run that shows it (`PROJECT.json`, "findings", quotes the lines):

1. `hub_serving_has_address`: `cleanup` checks its `conn_id` under the lock of
   `online`, and removes the address after unlocking it. A new connection that
   registers in between loses its address, and is served without one.
2. `session_started`: `notify_waiters` wakes only a task that waits already. The
   PLAY answer is sent before the hook waits, so StartB can come first; it is
   sent once, and `start` returns for a stream that never begins.
3. `keyframes`: a Lost signal within 300 ms of the last request is dropped and
   not remembered. When it is about the very key frame that request produced,
   the picture stays broken.

Met while modelling, without a run of their own:

- Views are built and broadcast without a common lock; an older view may be
  broadcast last and stays until the next change (`state.rs:119`). An
  administrator's snapshot is sent before its subscription (`admin_ws.rs:51`).
- An auto-repeated DOWN inside the gate makes a locally pressed key remote; its
  UP never reaches the local desktop (kmc-keyhook `main.rs:139`). `stop_stream`
  closes the session right after it wrote `s0`, so the releases that `s0` causes
  have nowhere to go (kmc-admin `lib.rs:341`). A start over an open session drops it
  without `s0`: what the laptop holds is not released there, and the gate stays
  open while the new session connects, or when it fails (`stream.rs:44`).
- The 1 s timer of the video sender's `select!` is restarted by every frame, so
  the check for a silent client starves while frames flow (`video/mod.rs:194`).
- Of two open connections of one agent, the one registered last ends first: the
  laptop is listed offline while the other is served (`agent_ws.rs:202`). The
  same late steps of `cleanup` can delete a session granted on the new
  connection (`agent_ws.rs:214`).
- Control of a laptop without an address is granted (`routes.rs:162`).
- A network error during the hello is taken for a rejection, and a valid state
  file is deleted (`run.rs:46`, `run.rs:89`). `IdentityStable` shows that the
  identity comes back by the MAC address.
- A poll that read before a `configure` may store above the new maximum
  (`bitrate.rs:152`); the next decrease or configure corrects it. A PLAY on a
  running pipeline does not apply the floor of the first (`host.rs:133`).
- A pipeline whose threads ended by themselves is not restarted until the client
  has left (`host.rs:207`). The capture callback waits 5 s for the mode while the
  encode thread may take longer (`capture.rs:187`). `WatchedIsStreamed` counts
  these pipelines as degraded.
- A second PLAY renumbers the frames of whoever owns the stream then
  (`video/mod.rs:76`), and the pipeline keeps the parameters of the first.
- `LossIsAnswered` also fails with `MaxSkips` = 1 (`zerocopy_loop` clears an IDR
  request before it has a frame, `capture.rs:321`) and with `ChanCap` = 2 (the
  drain to the newest frame drops key frames, `video/mod.rs:151`).
- When calls of start overlap, the call that connects last owns `CONTROL` and the
  one that returns last owns the slot; they need not be the same
  (kmc-admin `stream.rs:101`, kmc-moonclient `session.rs:54`). Input then goes to
  a session that is being dropped, until the next start.
- A second launch replaces the host's key: what the running session sends is
  dropped silently from then on (`webserver.rs:219`). `InputArrives` excuses it.
- The shutdown of a session's runtime may drop its task before the DISCONNECT is
  sent; the host then learns of the end by ENet's own timeout. The same holds for a
  `connect` whose StartB or flush fails (kmc-moonclient `control.rs:258`): the ENet
  host is dropped without a DISCONNECT, and the laptop may start a stream for a call
  of start that returned an error.
- A frame none of whose shards had arrived when a later one completed can still
  be handed over after it; a comment promises ascending order (kmc-moonclient
  `video.rs:304`). A block nothing came of is reported with the
  size of the first known block, which is wrong for the last, shorter one
  (`video.rs:478`). A frame of which no shard arrives is never reported lost.
- A frame that needs more than four blocks puts the rest into the last one
  (`packetizer.rs:82`); past 255 data shards the client refuses every shard of
  that block, and the frame is lost however good the network. Outside the bounds
  of `video`.
- The audio numbering restarts at 0 with a new registration. When the last number
  was above half the range, the restart counts as a forward jump; when it was
  below the threshold, the first frames count as stale (kmc-moonclient
  `audio.rs:212`), so `LossExact` speaks of one registration. A WSAECONNRESET
  caused by an earlier client unregisters the current one until its next PING
  (kmc-streamhost `audio.rs:84`).

## 7. What is not modelled, and the plan

Not worth a model: the driver calls of GPU conversion and encoding (their
success or failure is a choice in `StreamHost` and `KeyFrames`), the coordinates
of injected input, certificates and pairing records (the application starts
streams without pairing), the user interface's layout, deployment scripts, TLS,
the texts of XML and SDP. In reach and planned, in this order:

1. `AdminFeed`: snapshot, subscription and the lagged receiver of `admin_ws.rs`,
   composed with the feed of `HubRegistry`.
2. `HubClient` of the MCP server: the re-login after a 401 and its retry; the
   execution of commands and their timeouts in the agent.
3. `poll_fec_percentage` and a liveness property of `Bitrate` (recovery after
   losses have stopped).

Administrators' login and tokens, and hub start-up, keep no state that
operations race on; they enter the models as the authenticated administrator of
a request.
