----------------------------- MODULE StreamHost -----------------------------
(***************************************************************************)
(* The life cycle of the streaming host of kmc-streamhost: the PLAY hook    *)
(* and the watcher loop of host.rs, the StartB trigger of control.rs, the   *)
(* video sender task of video/mod.rs and the capture supervisor with its    *)
(* two threads of capture.rs.                                               *)
(*                                                                         *)
(* Actors: the PLAY hook task, the watcher task it becomes, the video       *)
(* sender task (one `select!` loop), and per pipeline a capture thread, an  *)
(* encode thread and their supervisor.  They share only atomics and one     *)
(* channel, so every action below is one step of one of them.               *)
(*                                                                         *)
(* Time is discrete, one Tick is one second: `silent` is                    *)
(* last_ping.elapsed(), and the sleep(1s) branch of the select, which is    *)
(* created anew by every iteration, can fire only after a whole tick in     *)
(* which no other branch ran.                                               *)
(***************************************************************************)
EXTENDS Integers

CONSTANTS Clients,        \* remote UDP addresses
          NoClient,       \* client_addr = None
          Pipes,          \* identities of capture pipelines, reused when free
          NoPipe,         \* running = None
          OwnerTimeout,   \* OWNER_TIMEOUT, 2 s
          SilenceTimeout, \* the 3 s of the periodic check
          FrameCap        \* bound: frame numbers saturate here

ASSUME StreamHostAssumption ==
    /\ NoClient \notin Clients
    /\ NoPipe \notin Pipes
    /\ OwnerTimeout \in Nat /\ SilenceTimeout \in Nat
    /\ OwnerTimeout <= SilenceTimeout
    /\ FrameCap \in Nat \ {0}

VARIABLES
    pipeline_started, \* the guard the first PLAY swaps
    hook,             \* where the first PLAY's task is
    client_addr,      \* sender: the registered client
    silent,           \* seconds since last_ping, saturating past the check; 0
                      \* without a client, when the code does not read it
    busy,             \* a select branch ran since the last tick
    elapsed,          \* the current sleep(1s) has run out
    session_reset,
    frame_number,
    queued,           \* an encoded frame waits in the channel
    due,              \* a frame of this tick is still to be encoded; bound: one
                      \* frame stands for those of a second
    want,             \* watcher's copy of client_active, NoRead between loops
    running,          \* watcher's slot
    pipe,             \* the pipelines' threads and flags
    seen              \* history: last frame number sent to each client

sender == <<client_addr, silent, session_reset, frame_number, seen>>
select == <<busy, elapsed>>
watch == <<want, running>>
host == <<pipeline_started, hook>>
vars == <<host, sender, select, queued, due, watch, pipe>>

NoRead == "noread"

\* No thread of the pipeline exists; its identity can be used again.
Free == [cap |-> "off", enc |-> "off", setup |-> "none", mode |-> "none",
         filled |-> FALSE, stop |-> FALSE, done |-> FALSE]

\* The sender stores client_active together with every change of client_addr.
client_active == client_addr # NoClient

Init ==
    /\ pipeline_started = FALSE /\ hook = "idle"
    /\ client_addr = NoClient /\ silent = 0
    /\ session_reset = FALSE /\ frame_number = 0
    /\ seen = [c \in Clients |-> 0]
    /\ busy = FALSE /\ elapsed = FALSE
    /\ queued = FALSE /\ due = FALSE
    /\ want = NoRead /\ running = NoPipe
    /\ pipe = [p \in Pipes |-> Free]

-----------------------------------------------------------------------------
(* The PLAY hook and StartB.                                               *)

\* swap(true) returned false: this task owns the set-up.
PlayFirst ==
    /\ ~pipeline_started
    /\ pipeline_started' = TRUE /\ hook' = "binding"
    /\ UNCHANGED <<sender, select, queued, due, watch, pipe>>

\* swap(true) returned true: only the session switch.  (The IDR request is
\* not tracked; the configure call is an operation of module Bitrate.)
PlayAgain ==
    /\ pipeline_started
    /\ session_reset' = TRUE
    /\ UNCHANGED <<host, client_addr, silent, frame_number, seen, select,
                   queued, due, watch, pipe>>

\* video::start fails to bind: the guard is given back.
BindFails ==
    /\ hook = "binding"
    /\ hook' = "idle" /\ pipeline_started' = FALSE
    /\ UNCHANGED <<sender, select, queued, due, watch, pipe>>

\* video::start spawned the sender task.
BindOk ==
    /\ hook = "binding"
    /\ hook' = "bound"
    /\ UNCHANGED <<pipeline_started, sender, select, queued, due, watch, pipe>>

\* audio::start ran (its failure is logged only) and the spawned task reached
\* trigger.wait().
BeginWait ==
    /\ hook = "bound"
    /\ hook' = "waiting"
    /\ UNCHANGED <<pipeline_started, sender, select, queued, due, watch, pipe>>

\* The hook's task after trigger.wait(): it fixes resolution, rate and codec
\* (data here), configures the rate (module Bitrate) and becomes the watcher.
Woken == "running"

\* notify_waiters wakes a task that waits now and leaves no permit behind.
StartB ==
    /\ hook' = IF hook = "waiting" THEN Woken ELSE hook
    /\ UNCHANGED <<pipeline_started, sender, select, queued, due, watch, pipe>>

-----------------------------------------------------------------------------
(* The video sender task, which exists once video::start returned.         *)

SenderUp == hook \in {"bound", "waiting", "running"}

\* A branch other than the timer completed: the next iteration starts a new
\* sleep.
OtherBranch == busy' = TRUE /\ elapsed' = FALSE

\* Mutant: a new address takes over without the counters being reset.
ResetCountersNot == UNCHANGED frame_number

ResetCounters == frame_number' = 0

\* Another client is registered and pinged within OWNER_TIMEOUT.
OwnerActive(c) ==
    client_addr \notin {NoClient, c} /\ silent < OwnerTimeout

Ping(c) ==
    /\ SenderUp
    /\ OtherBranch
    /\ IF OwnerActive(c)
       THEN UNCHANGED sender
       ELSE /\ IF client_addr # c THEN ResetCounters
                                  ELSE UNCHANGED frame_number
            /\ client_addr' = c /\ silent' = 0
            /\ UNCHANGED <<session_reset, seen>>
    /\ UNCHANGED <<host, queued, due, watch, pipe>>

\* The client echoes the RTT probe that answered its PING: nothing here but a
\* select iteration (on_rtt is an operation of module Bitrate).
RttEcho ==
    /\ SenderUp /\ client_active /\ silent = 0
    /\ OtherBranch
    /\ UNCHANGED <<host, sender, queued, due, watch, pipe>>

\* recv_from fails with WSAECONNRESET after a send to a closed port.
ConnReset ==
    /\ SenderUp /\ client_active
    /\ OtherBranch
    /\ client_addr' = NoClient /\ silent' = 0
    /\ UNCHANGED <<host, session_reset, frame_number, seen, queued,
                   due, watch, pipe>>

Saturate(n) == IF n < FrameCap THEN n ELSE FrameCap

\* The frame branch: drop without a client, else drain to the newest frame,
\* apply a pending session reset and send under the next frame number.
SendFrame ==
    /\ SenderUp /\ queued
    /\ OtherBranch
    /\ queued' = FALSE
    /\ IF client_active
       THEN LET n == Saturate((IF session_reset THEN 0 ELSE frame_number) + 1)
            IN  /\ frame_number' = n
                /\ seen' = [seen EXCEPT ![client_addr] = n]
                /\ session_reset' = FALSE
       ELSE UNCHANGED <<frame_number, seen, session_reset>>
    /\ UNCHANGED <<host, client_addr, silent, due, watch, pipe>>

\* The timer branch: a client that did not ping for more than 3 s is dropped.
SleepBranch ==
    /\ SenderUp /\ elapsed
    /\ busy' = FALSE /\ elapsed' = FALSE
    /\ IF client_active /\ silent > SilenceTimeout
       THEN client_addr' = NoClient /\ silent' = 0
       ELSE UNCHANGED <<client_addr, silent>>
    /\ UNCHANGED <<host, session_reset, frame_number, seen, queued,
                   due, watch, pipe>>

-----------------------------------------------------------------------------
(* The capture pipeline.                                                   *)

Set(p, r) == pipe' = [pipe EXCEPT ![p] = r]

PipeOnly == UNCHANGED <<host, sender, select, queued, due, watch>>

\* The capture thread failed: no primary monitor, start_free_threaded failed,
\* a panic, or the callback returned an error and is_finished() holds.
CapFails(p) ==
    /\ pipe[p].cap \in {"starting", "zc", "ram"}
    /\ Set(p, [pipe[p] EXCEPT !.cap = "exited"])
    /\ PipeOnly

\* The first frame: the shared texture exists, the callback waits for the mode.
FirstFrameShared(p) ==
    /\ pipe[p].cap = "starting" /\ ~pipe[p].stop
    /\ Set(p, [pipe[p] EXCEPT !.cap = "await", !.setup = "share"])
    /\ PipeOnly

\* FrameSlot::store: from now on the slot holds a picture, the newest.
store(r) == [r EXCEPT !.filled = TRUE]

\* FrameSlot::load and wait_new return a picture, a new one or the last again.
loads(r) == r.filled

\* No shared texture, or (in await) no zero-copy answer: convert on device A
\* and fill the slot, or fail in GpuConverter::new.
ToRam(r) == {store([r EXCEPT !.cap = "ram"]),
             [r EXCEPT !.cap = "exited"]}

FirstFrameRam(p) ==
    /\ pipe[p].cap = "starting" /\ ~pipe[p].stop
    /\ \E r \in ToRam([pipe[p] EXCEPT !.setup = "noshare"]) : Set(p, r)
    /\ PipeOnly

\* mode_rx.recv_timeout(5s): an answer, a dropped sender or the timeout.
CapMode(p) ==
    /\ pipe[p].cap = "await"
    /\ \/ pipe[p].mode = "zc" /\ Set(p, [pipe[p] EXCEPT !.cap = "zc"])
       \/ pipe[p].mode # "zc" /\ \E r \in ToRam(pipe[p]) : Set(p, r)
    /\ PipeOnly

CapStops(p) ==
    /\ pipe[p].cap \in {"starting", "zc", "ram"} /\ pipe[p].stop
    /\ Set(p, [pipe[p] EXCEPT !.cap = "exited"])
    /\ PipeOnly

\* The shared texture is open, and ZeroCopyEncoder::new made the devices, the
\* mapped ring and the codec; each of these steps may fail instead (EncSetup).
ZeroCopyReady(r) == [r EXCEPT !.mode = "zc", !.enc = "zc"]

\* setup_rx.recv_timeout(10s) received a message: choose a path.
EncSetup(p) ==
    /\ pipe[p].enc = "wait" /\ pipe[p].setup # "none"
    /\ \/ /\ pipe[p].setup = "share"
          /\ Set(p, ZeroCopyReady(pipe[p]))
       \/ \E e \in {"ram", "exited"} :
             Set(p, [pipe[p] EXCEPT !.enc = e,
                       !.mode = IF pipe[p].setup = "share" THEN "ram" ELSE @])
    /\ PipeOnly

\* No set-up within 10 s, or the capture thread ended without sending one.
EncNoSetup(p) ==
    /\ pipe[p].enc = "wait" /\ pipe[p].setup = "none"
    /\ Set(p, [pipe[p] EXCEPT !.enc = "exited"])
    /\ PipeOnly

\* A panic in the encode thread (isolated by catch_unwind).
EncFails(p) ==
    /\ pipe[p].enc \in {"zc", "ram"}
    /\ Set(p, [pipe[p] EXCEPT !.enc = "exited"])
    /\ PipeOnly

\* Mutant: the idle check comes before the stop check and continues.
EncStopsAfterIdle(p) ==
    /\ pipe[p].enc \in {"zc", "ram"} /\ pipe[p].stop /\ client_active
    /\ Set(p, [pipe[p] EXCEPT !.enc = "exited"])
    /\ PipeOnly

EncStops(p) ==
    /\ pipe[p].enc \in {"zc", "ram"} /\ pipe[p].stop
    /\ Set(p, [pipe[p] EXCEPT !.enc = "exited"])
    /\ PipeOnly

\* The supervisor joined both threads.
Supervise(p) ==
    /\ pipe[p].cap = "exited" /\ pipe[p].enc = "exited" /\ ~pipe[p].done
    /\ Set(p, [pipe[p] EXCEPT !.done = TRUE])
    /\ PipeOnly

\* encode_loop: once the slot is filled it encodes at least every max_wait
\* (re-encoding a static screen); the capture thread need not be alive.
RamFlows(p) ==
    pipe[p].enc = "ram" /\ loads(pipe[p]) /\ ~pipe[p].stop /\ client_active

\* zerocopy_loop: one frame for each frame the capture callback hands over.
ZeroCopyFlows(p) ==
    pipe[p].enc = "zc" /\ pipe[p].cap = "zc" /\ ~pipe[p].stop /\ client_active

Encode(p) ==
    /\ RamFlows(p) \/ ZeroCopyFlows(p)
    /\ due /\ ~queued
    /\ queued' = TRUE /\ due' = FALSE
    /\ UNCHANGED <<host, sender, select, watch, pipe>>

-----------------------------------------------------------------------------
(* The watcher loop of host.rs.                                            *)

WatchRead ==
    /\ hook = "running" /\ want = NoRead
    /\ want' = IF client_active THEN "yes" ELSE "no"
    /\ UNCHANGED <<host, sender, select, queued, due, running, pipe>>

\* Mutant: the slot is emptied as soon as stop was signalled.
SlotOnStop ==
    IF running # NoPipe /\ pipe[running].stop THEN NoPipe ELSE running

\* Mutant: the clean-up is missing.
SlotKept == running

\* The slot after the clean-up at the head of the loop body.
SlotAfterCleanup ==
    IF running # NoPipe /\ pipe[running].stop /\ pipe[running].done
    THEN NoPipe ELSE running

\* Torn down and out of the slot: nothing refers to the pipeline any more.
PipeAfterCleanup ==
    [p \in Pipes |-> IF p # SlotAfterCleanup /\ pipe[p].done
                     THEN Free ELSE pipe[p]]

Alive == SlotAfterCleanup # NoPipe /\ ~pipe[running].stop

\* spawn_capture: the supervisor starts both threads, any of which the OS may
\* refuse; without a supervisor done is set at once.
Spawned == {[Free EXCEPT !.cap = "starting", !.enc = "wait"],
            [Free EXCEPT !.cap = "exited", !.enc = "wait"],
            [Free EXCEPT !.cap = "starting", !.enc = "exited"],
            [Free EXCEPT !.cap = "exited", !.enc = "exited", !.done = TRUE]}

\* Which free identity the new pipeline gets is immaterial.
WatchStart ==
    /\ want = "yes" /\ SlotAfterCleanup = NoPipe
    /\ \E q \in Pipes : PipeAfterCleanup[q] = Free
    /\ LET p == CHOOSE q \in Pipes : PipeAfterCleanup[q] = Free
       IN  /\ running' = p
           /\ \E r \in Spawned : pipe' = [PipeAfterCleanup EXCEPT ![p] = r]

WatchStop ==
    /\ want = "no" /\ Alive
    /\ pipe' = [pipe EXCEPT ![running].stop = TRUE]
    /\ UNCHANGED running

WatchIdle ==
    /\ ~(want = "yes" /\ SlotAfterCleanup = NoPipe)
    /\ ~(want = "no" /\ Alive)
    /\ running' = SlotAfterCleanup /\ pipe' = PipeAfterCleanup

WatchAct ==
    /\ want # NoRead
    /\ want' = NoRead
    /\ WatchStart \/ WatchStop \/ WatchIdle
    /\ UNCHANGED <<host, sender, select, queued, due>>

-----------------------------------------------------------------------------
(* Time.                                                                   *)

Age(n) == IF n <= SilenceTimeout THEN n + 1 ELSE n

\* A second passes.  The sender and a flowing RAM encode loop run many times a
\* second, so neither owes a step from the second before.
Tick ==
    /\ ~queued
    /\ ~(due /\ \E p \in Pipes : RamFlows(p))
    /\ silent' = IF client_active THEN Age(silent) ELSE silent
    /\ elapsed' = ~busy /\ busy' = FALSE
    /\ due' = (\E p \in Pipes : RamFlows(p) \/ ZeroCopyFlows(p))
    /\ UNCHANGED <<host, client_addr, session_reset, frame_number, seen,
                   queued, watch, pipe>>

Capture(p) == CapFails(p) \/ FirstFrameShared(p) \/ FirstFrameRam(p)
              \/ CapMode(p) \/ CapStops(p)

EncodeThread(p) == EncSetup(p) \/ EncNoSetup(p) \/ EncFails(p) \/ EncStops(p)

Next ==
    \/ PlayFirst \/ PlayAgain \/ BindFails \/ BindOk \/ BeginWait \/ StartB
    \/ \E c \in Clients : Ping(c)
    \/ RttEcho \/ ConnReset \/ SendFrame \/ SleepBranch
    \/ \E p \in Pipes : Capture(p) \/ EncodeThread(p) \/ Supervise(p)
                        \/ Encode(p)
    \/ WatchRead \/ WatchAct
    \/ Tick

Spec == Init /\ [][Next]_vars

\* The tasks and threads run; clients, the control channel and failures owe
\* nothing.  Windows delivers a first frame to a capture that started.
Fairness ==
    /\ WF_vars(WatchRead) /\ WF_vars(WatchAct)
    /\ WF_vars(SendFrame) /\ WF_vars(SleepBranch) /\ WF_vars(Tick)
    /\ \A p \in Pipes :
          /\ WF_vars(FirstFrameShared(p) \/ FirstFrameRam(p) \/ CapMode(p)
                     \/ CapStops(p))
          /\ WF_vars(EncSetup(p) \/ EncNoSetup(p) \/ EncStops(p))
          /\ WF_vars(Supervise(p))
          /\ WF_vars(Encode(p) /\ RamFlows(p))

FairSpec == Spec /\ Fairness

-----------------------------------------------------------------------------
(* Properties.                                                             *)

\* The variables keep the shape their Rust types give them.
TypeOK ==
    /\ pipeline_started \in BOOLEAN
    /\ hook \in {"idle", "binding", "bound", "waiting", "running"}
    /\ pipeline_started <=> hook # "idle"
    /\ client_addr \in Clients \cup {NoClient}
    /\ silent \in 0 .. SilenceTimeout + 1
    /\ busy \in BOOLEAN /\ elapsed \in BOOLEAN
    /\ session_reset \in BOOLEAN
    /\ frame_number \in 0 .. FrameCap
    /\ seen \in [Clients -> 0 .. FrameCap]
    /\ queued \in BOOLEAN /\ due \in BOOLEAN
    /\ want \in {NoRead, "yes", "no"}
    /\ running \in Pipes \cup {NoPipe}
    /\ pipe \in [Pipes -> [cap : {"off", "starting", "await", "zc", "ram", "exited"},
                           enc : {"off", "wait", "zc", "ram", "exited"},
                           setup : {"none", "share", "noshare"},
                           mode : {"none", "zc", "ram"},
                           filled : BOOLEAN, stop : BOOLEAN, done : BOOLEAN]]

HasThreads(p) ==
    pipe[p].cap \notin {"off", "exited"} \/ pipe[p].enc \notin {"off", "exited"}

\* However fast clients leave and return, every live thread belongs to the one
\* pipeline in the watcher's slot: a new pipeline starts only after both threads
\* of the old one are gone (host.rs: two sets of D3D11/MFX/WGC resources must not
\* coexist), and none is orphaned where the watcher can no longer stop it.
OnePipeline == \A p \in Pipes : HasThreads(p) => running = p

\* Whoever owns the stream and however often ownership or sessions change, a
\* client is sent consecutive frame numbers, or a numbering that restarts at 1
\* (video/mod.rs: the counters are reset for a new address and a new PLAY).
FramesConsecutive ==
    [][\A c \in Clients : seen'[c] # seen[c] =>
            seen'[c] \in {1, Saturate(seen[c] + 1)}]_vars

\* A pipeline whose frames can reach the client, or one that failed on the way.
Streaming(p) == RamFlows(p) \/ ZeroCopyFlows(p)
Degraded(p) ==
    /\ ~pipe[p].stop
    /\ \/ pipe[p].cap = "exited" \/ pipe[p].enc = "exited"
       \/ pipe[p].cap = "ram" /\ pipe[p].enc = "zc" \* the mode answer was late

\* Once StartB started the watcher, a client that keeps pinging is streamed to
\* unless a thread of its pipeline fails (host.rs watcher loop, also right
\* after an earlier client left and its pipeline is still being torn down).
WatchedIsStreamed ==
    (hook = "running" /\ client_active) ~>
        (~client_active \/ (running # NoPipe /\ (Streaming(running)
                                                 \/ Degraded(running))))

\* After the client left, both threads end (the capture border disappears),
\* failed pipelines included, unless a client comes back.
IdleIsTornDown ==
    (hook = "running" /\ ~client_active) ~>
        (client_active \/ \A p \in Pipes : ~HasThreads(p))
=============================================================================
