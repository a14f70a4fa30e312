--------------------------- MODULE StreamHostProofs ---------------------------
(***************************************************************************)
(* Proofs about StreamHost for every set of clients and pipelines, every    *)
(* timeout and every bound on the frame numbers.  OnePipeline needs to know *)
(* that `done` is set only when both threads are gone (DoneIsDead), because *)
(* the watcher empties its slot on the word of that flag; FramesConsecutive *)
(* needs the counter of the sender tied to what its client saw last         *)
(* (CounterOfClient).                                                       *)
(***************************************************************************)
EXTENDS StreamHost, TLAPS

\* The supervisor sets done after both joins, and no thread starts again.
DoneIsDead ==
    \A p \in Pipes : pipe[p].done => pipe[p].cap = "exited" /\ pipe[p].enc = "exited"

\* The sender's counter is that of the registered client, or was reset for it.
CounterOfClient ==
    client_active => frame_number \in {0, seen[client_addr]}

\* The inductive invariant.
IInv == TypeOK /\ DoneIsDead /\ OnePipeline /\ CounterOfClient

\* Saturate stays below its bound, and leaves the first number alone.
LEMMA SaturateBound ==
    /\ \A n \in Nat : Saturate(n) \in 0 .. FrameCap
    /\ Saturate(1) = 1
  BY StreamHostAssumption DEF Saturate

-----------------------------------------------------------------------------
\* TypeOK in three parts: the flags and slots, the numbers, the pipelines.
FlagsOK ==
    /\ pipeline_started \in BOOLEAN
    /\ hook \in {"idle", "binding", "bound", "waiting", "running"}
    /\ pipeline_started <=> hook # "idle"
    /\ client_addr \in Clients \cup {NoClient}
    /\ busy \in BOOLEAN /\ elapsed \in BOOLEAN /\ session_reset \in BOOLEAN
    /\ queued \in BOOLEAN /\ due \in BOOLEAN
    /\ want \in {NoRead, "yes", "no"}
    /\ running \in Pipes \cup {NoPipe}

NumbersOK ==
    /\ silent \in 0 .. SilenceTimeout + 1
    /\ frame_number \in 0 .. FrameCap
    /\ seen \in [Clients -> 0 .. FrameCap]

Pipeline == [cap : {"off", "starting", "await", "zc", "ram", "exited"},
             enc : {"off", "wait", "zc", "ram", "exited"},
             setup : {"none", "share", "noshare"}, mode : {"none", "zc", "ram"},
             filled : BOOLEAN, stop : BOOLEAN, done : BOOLEAN]

PipesOK == pipe \in [Pipes -> Pipeline]

\* The three parts are the type invariant.
LEMMA TypeParts == TypeOK <=> FlagsOK /\ NumbersOK /\ PipesOK
  BY DEF TypeOK, FlagsOK, NumbersOK, PipesOK, Pipeline

\* The host before the first PLAY satisfies it.
LEMMA InitInv == Init => IInv
<1> SUFFICES ASSUME Init PROVE IInv
  OBVIOUS
<1> USE StreamHostAssumption DEF Init
<1>1. FlagsOK
  BY DEF FlagsOK, NoRead
<1>2. NumbersOK
  BY DEF NumbersOK
<1>3. PipesOK
  BY DEF PipesOK, Pipeline, Free
<1>4. DoneIsDead /\ OnePipeline /\ CounterOfClient
  BY DEF DoneIsDead, OnePipeline, CounterOfClient, HasThreads, Free, client_active
<1> QED
  BY <1>1, <1>2, <1>3, <1>4, TypeParts DEF IInv

\* The atomics, the channel and the watcher's slot keep their types, and PLAY's
\* guard follows its hook: BindFails gives back what PlayFirst took.
LEMMA FlagsStep == TypeOK /\ [Next]_vars => FlagsOK'
<1> SUFFICES ASSUME FlagsOK, [Next]_vars PROVE FlagsOK'
  BY TypeParts
<1> USE StreamHostAssumption DEF FlagsOK, sender, select, watch, host, NoRead, OtherBranch
<1>1. CASE PlayFirst
  BY <1>1 DEF PlayFirst
<1>2. CASE PlayAgain
  BY <1>2 DEF PlayAgain
<1>3. CASE BindFails
  BY <1>3 DEF BindFails
<1>4. CASE BindOk
  BY <1>4 DEF BindOk
<1>5. CASE BeginWait
  BY <1>5 DEF BeginWait
<1>6. CASE StartB
  BY <1>6 DEF StartB, Woken
<1>7. ASSUME NEW c \in Clients, Ping(c) PROVE FlagsOK'
  BY <1>7 DEF Ping
<1>8. CASE RttEcho
  BY <1>8 DEF RttEcho
<1>9. CASE ConnReset
  BY <1>9 DEF ConnReset
<1>10. CASE SendFrame
  <2>1. session_reset' \in BOOLEAN
    BY <1>10 DEF SendFrame
  <2> QED BY <1>10, <2>1 DEF SendFrame
<1>11. CASE SleepBranch
  <2>1. client_addr' \in Clients \cup {NoClient}
    BY <1>11 DEF SleepBranch
  <2> QED BY <1>11, <2>1 DEF SleepBranch
<1>12. ASSUME NEW p \in Pipes, Encode(p) PROVE FlagsOK'
  BY <1>12 DEF Encode
<1>13. CASE WatchRead
  BY <1>13 DEF WatchRead
<1>14. CASE WatchAct
  <2>1. running' \in Pipes \cup {NoPipe}
    <3>1. CASE WatchStart  BY <3>1 DEF WatchStart
    <3>2. CASE WatchStop   BY <3>2 DEF WatchStop
    <3>3. CASE WatchIdle   BY <3>3 DEF WatchIdle, SlotAfterCleanup
    <3> QED BY <1>14, <3>1, <3>2, <3>3 DEF WatchAct
  <2> QED BY <1>14, <2>1 DEF WatchAct
<1>15. CASE Tick
  BY <1>15 DEF Tick
<1>16. CASE UNCHANGED <<host, client_addr, select, session_reset, queued, due, watch>>
  BY <1>16
<1> HIDE DEF FlagsOK
<1> QED
  BY <1>1, <1>2, <1>3, <1>4, <1>5, <1>6, <1>7, <1>8, <1>9, <1>10, <1>11, <1>12,
     <1>13, <1>14, <1>15, <1>16 DEF Next, Capture, EncodeThread, vars, CapFails,
     FirstFrameShared, FirstFrameRam, CapMode, CapStops, EncSetup, EncNoSetup,
     EncFails, EncStops, Supervise, PipeOnly

\* The silence saturates one past the check, the frame numbers at their bound.
LEMMA NumbersStep == TypeOK /\ [Next]_vars => NumbersOK'
<1> SUFFICES ASSUME FlagsOK, NumbersOK, [Next]_vars PROVE NumbersOK'
  BY TypeParts
<1> USE StreamHostAssumption DEF NumbersOK, sender
<1>1. ASSUME NEW c \in Clients, Ping(c) PROVE NumbersOK'
  BY <1>1 DEF Ping, ResetCounters
<1>2. CASE ConnReset
  BY <1>2 DEF ConnReset
<1>3. CASE SendFrame
  BY <1>3, SaturateBound DEF SendFrame, FlagsOK, client_active
<1>4. CASE SleepBranch
  BY <1>4 DEF SleepBranch
<1>5. CASE Tick
  BY <1>5 DEF Tick, Age
<1>6. CASE UNCHANGED <<silent, frame_number, seen>>
  BY <1>6
<1> HIDE DEF NumbersOK
<1> QED
  BY <1>1, <1>2, <1>3, <1>4, <1>5, <1>6 DEF Next, Capture, EncodeThread, vars,
     PlayFirst, PlayAgain, BindFails, BindOk, BeginWait, StartB, RttEcho, CapFails,
     FirstFrameShared, FirstFrameRam, CapMode, CapStops, EncSetup, EncNoSetup,
     EncFails, EncStops, Supervise, Encode, WatchRead, WatchAct, PipeOnly

\* The threads, the supervisor and the watcher keep the shape of a pipeline.
LEMMA PipesStep == TypeOK /\ [Next]_vars => PipesOK'
<1> SUFFICES ASSUME FlagsOK, PipesOK, [Next]_vars PROVE PipesOK'
  BY TypeParts
<1>a. ASSUME NEW p \in Pipes, NEW r \in Pipeline, Set(p, r) PROVE PipesOK'
  BY <1>a DEF PipesOK, Set
<1>b. \A p \in Pipes : pipe[p] \in Pipeline
  BY DEF PipesOK
<1>c. Free \in Pipeline /\ Spawned \subseteq Pipeline
  BY DEF Free, Spawned, Pipeline
<1>1. ASSUME NEW p \in Pipes, CapFails(p) PROVE PipesOK'
  <2>1. [pipe[p] EXCEPT !.cap = "exited"] \in Pipeline
    BY <1>b DEF Pipeline
  <2> QED BY <1>1, <1>a, <2>1 DEF CapFails
<1>2. ASSUME NEW p \in Pipes, FirstFrameShared(p) PROVE PipesOK'
  <2>1. [pipe[p] EXCEPT !.cap = "await", !.setup = "share"] \in Pipeline
    BY <1>b DEF Pipeline
  <2> QED BY <1>2, <1>a, <2>1 DEF FirstFrameShared
<1>3. ASSUME NEW p \in Pipes, FirstFrameRam(p) PROVE PipesOK'
  <2>1. ToRam([pipe[p] EXCEPT !.setup = "noshare"]) \subseteq Pipeline
    BY <1>b DEF Pipeline, ToRam, store
  <2> QED BY <1>3, <1>a, <2>1 DEF FirstFrameRam
<1>4. ASSUME NEW p \in Pipes, CapMode(p) PROVE PipesOK'
  <2>1. ToRam(pipe[p]) \subseteq Pipeline /\ [pipe[p] EXCEPT !.cap = "zc"] \in Pipeline
    BY <1>b DEF Pipeline, ToRam, store
  <2> QED BY <1>4, <1>a, <2>1 DEF CapMode
<1>5. ASSUME NEW p \in Pipes, CapStops(p) PROVE PipesOK'
  <2>1. [pipe[p] EXCEPT !.cap = "exited"] \in Pipeline
    BY <1>b DEF Pipeline
  <2> QED BY <1>5, <1>a, <2>1 DEF CapStops
<1>6. ASSUME NEW p \in Pipes, EncSetup(p) PROVE PipesOK'
  <2>1. ZeroCopyReady(pipe[p]) \in Pipeline
    BY <1>b DEF Pipeline, ZeroCopyReady
  <2>2. ASSUME NEW e \in {"ram", "exited"}
        PROVE  [pipe[p] EXCEPT !.enc = e,
                  !.mode = IF pipe[p].setup = "share" THEN "ram" ELSE @] \in Pipeline
    BY <1>b DEF Pipeline
  <2> QED BY <1>6, <1>a, <2>1, <2>2 DEF EncSetup
<1>7. ASSUME NEW p \in Pipes, EncNoSetup(p) PROVE PipesOK'
  <2>1. [pipe[p] EXCEPT !.enc = "exited"] \in Pipeline
    BY <1>b DEF Pipeline
  <2> QED BY <1>7, <1>a, <2>1 DEF EncNoSetup
<1>8. ASSUME NEW p \in Pipes, EncFails(p) PROVE PipesOK'
  <2>1. [pipe[p] EXCEPT !.enc = "exited"] \in Pipeline
    BY <1>b DEF Pipeline
  <2> QED BY <1>8, <1>a, <2>1 DEF EncFails
<1>9. ASSUME NEW p \in Pipes, EncStops(p) PROVE PipesOK'
  <2>1. [pipe[p] EXCEPT !.enc = "exited"] \in Pipeline
    BY <1>b DEF Pipeline
  <2> QED BY <1>9, <1>a, <2>1 DEF EncStops
<1>10. ASSUME NEW p \in Pipes, Supervise(p) PROVE PipesOK'
  <2>1. [pipe[p] EXCEPT !.done = TRUE] \in Pipeline
    BY <1>b DEF Pipeline
  <2> QED BY <1>10, <1>a, <2>1 DEF Supervise
<1>11. CASE WatchAct
  <2>1. PipeAfterCleanup \in [Pipes -> Pipeline]
    BY <1>b, <1>c DEF PipeAfterCleanup
  <2>2. CASE WatchStart
    BY <2>1, <2>2, <1>c DEF WatchStart, PipesOK
  <2>3. CASE WatchStop
    <3>1. running \in Pipes
      BY <2>3 DEF WatchStop, Alive, SlotAfterCleanup, FlagsOK
    <3>2. [pipe[running] EXCEPT !.stop = TRUE] \in Pipeline
      BY <3>1, <1>b DEF Pipeline
    <3>3. Set(running, [pipe[running] EXCEPT !.stop = TRUE])
      BY <2>3 DEF WatchStop, Set
    <3> QED BY <3>1, <3>2, <3>3, <1>a
  <2>4. CASE WatchIdle
    BY <2>1, <2>4 DEF WatchIdle, PipesOK
  <2> QED BY <1>11, <2>2, <2>3, <2>4 DEF WatchAct
<1>12. CASE UNCHANGED <<pipe>>
  BY <1>12 DEF PipesOK
<1> QED
  BY <1>1, <1>2, <1>3, <1>4, <1>5, <1>6, <1>7, <1>8, <1>9, <1>10, <1>11, <1>12 DEF
     Next, Capture, EncodeThread, vars, PlayFirst, PlayAgain, BindFails, BindOk,
     BeginWait, StartB, Ping, RttEcho, ConnReset, SendFrame, SleepBranch, Encode,
     WatchRead, Tick

\* Every step of the hook, the sender, the watcher and the capture threads
\* keeps the shape of what they share.
LEMMA TypeStep == IInv /\ [Next]_vars => TypeOK'
<1>1. FlagsOK' /\ NumbersOK' /\ PipesOK' => TypeOK'
  BY DEF TypeOK, FlagsOK, NumbersOK, PipesOK, Pipeline
<1> QED
  BY <1>1, FlagsStep, NumbersStep, PipesStep DEF IInv

-----------------------------------------------------------------------------
\* A thread that ended stays ended while done is set; the flag is reset only
\* with the identity, out of the slot.
LEMMA DoneStep == IInv /\ [Next]_vars => DoneIsDead'
<1> SUFFICES ASSUME TypeOK, DoneIsDead, [Next]_vars PROVE DoneIsDead'
  BY DEF IInv
<1> USE DEF TypeOK, DoneIsDead, PipeOnly, Set, Free
<1>1. ASSUME NEW p \in Pipes, CapFails(p) PROVE DoneIsDead'
  BY <1>1 DEF CapFails
<1>2. ASSUME NEW p \in Pipes, FirstFrameShared(p) PROVE DoneIsDead'
  BY <1>2 DEF FirstFrameShared
<1>3. ASSUME NEW p \in Pipes, FirstFrameRam(p) PROVE DoneIsDead'
  BY <1>3 DEF FirstFrameRam, ToRam, store
<1>4. ASSUME NEW p \in Pipes, CapMode(p) PROVE DoneIsDead'
  BY <1>4 DEF CapMode, ToRam, store
<1>5. ASSUME NEW p \in Pipes, CapStops(p) PROVE DoneIsDead'
  BY <1>5 DEF CapStops
<1>6. ASSUME NEW p \in Pipes, EncSetup(p) PROVE DoneIsDead'
  BY <1>6 DEF EncSetup, ZeroCopyReady
<1>7. ASSUME NEW p \in Pipes, EncNoSetup(p) PROVE DoneIsDead'
  BY <1>7 DEF EncNoSetup
<1>8. ASSUME NEW p \in Pipes, EncFails(p) PROVE DoneIsDead'
  BY <1>8 DEF EncFails
<1>9. ASSUME NEW p \in Pipes, EncStops(p) PROVE DoneIsDead'
  BY <1>9 DEF EncStops
<1>10. ASSUME NEW p \in Pipes, Supervise(p) PROVE DoneIsDead'
  BY <1>10 DEF Supervise
<1>11. CASE WatchAct
  <2>1. CASE WatchStart
    <3>1. PICK n \in Pipes, r \in Spawned : pipe' = [PipeAfterCleanup EXCEPT ![n] = r]
      BY <2>1 DEF WatchStart
    <3>2. r.done => r.cap = "exited" /\ r.enc = "exited"
      BY <3>1 DEF Spawned
    <3>3. \A p \in Pipes : PipeAfterCleanup[p].done =>
            PipeAfterCleanup[p].cap = "exited" /\ PipeAfterCleanup[p].enc = "exited"
      BY DEF PipeAfterCleanup
    <3>4. pipe' = [p \in Pipes |-> IF p = n THEN r ELSE PipeAfterCleanup[p]]
      BY <3>1 DEF PipeAfterCleanup
    <3> QED BY <3>2, <3>3, <3>4
  <2>2. CASE WatchStop
    BY <2>2 DEF WatchStop, Alive, SlotAfterCleanup
  <2>3. CASE WatchIdle
    BY <2>3 DEF WatchIdle, PipeAfterCleanup
  <2> QED BY <1>11, <2>1, <2>2, <2>3 DEF WatchAct
<1>12. CASE UNCHANGED <<pipe>>
  BY <1>12
<1> HIDE DEF DoneIsDead
<1> QED
  BY <1>1, <1>2, <1>3, <1>4, <1>5, <1>6, <1>7, <1>8, <1>9, <1>10, <1>11, <1>12 DEF
     Next, Capture, EncodeThread, vars, PlayFirst, PlayAgain, BindFails, BindOk,
     BeginWait, StartB, Ping, RttEcho, ConnReset, SendFrame, SleepBranch, Encode,
     WatchRead, Tick

\* The threads of a pipeline only end, except in the watcher's start, which runs
\* with an empty slot: by then no thread is left.
LEMMA PipelineStep == IInv /\ [Next]_vars => OnePipeline'
<1> SUFFICES ASSUME TypeOK, DoneIsDead, OnePipeline, [Next]_vars PROVE OnePipeline'
  BY DEF IInv
<1> USE StreamHostAssumption DEF TypeOK, OnePipeline, HasThreads, PipeOnly, Set, Free, watch
<1>1. ASSUME NEW p \in Pipes, CapFails(p) PROVE OnePipeline'
  BY <1>1 DEF CapFails
<1>2. ASSUME NEW p \in Pipes, FirstFrameShared(p) PROVE OnePipeline'
  BY <1>2 DEF FirstFrameShared
<1>3. ASSUME NEW p \in Pipes, FirstFrameRam(p) PROVE OnePipeline'
  BY <1>3 DEF FirstFrameRam, ToRam, store
<1>4. ASSUME NEW p \in Pipes, CapMode(p) PROVE OnePipeline'
  BY <1>4 DEF CapMode, ToRam, store
<1>5. ASSUME NEW p \in Pipes, CapStops(p) PROVE OnePipeline'
  BY <1>5 DEF CapStops
<1>6. ASSUME NEW p \in Pipes, EncSetup(p) PROVE OnePipeline'
  BY <1>6 DEF EncSetup, ZeroCopyReady
<1>7. ASSUME NEW p \in Pipes, EncNoSetup(p) PROVE OnePipeline'
  BY <1>7 DEF EncNoSetup
<1>8. ASSUME NEW p \in Pipes, EncFails(p) PROVE OnePipeline'
  BY <1>8 DEF EncFails
<1>9. ASSUME NEW p \in Pipes, EncStops(p) PROVE OnePipeline'
  BY <1>9 DEF EncStops
<1>10. ASSUME NEW p \in Pipes, Supervise(p) PROVE OnePipeline'
  BY <1>10 DEF Supervise
<1>11. CASE WatchAct
  <2>1. CASE WatchStart
    BY <2>1 DEF WatchStart, Spawned, SlotAfterCleanup, PipeAfterCleanup, DoneIsDead
  <2>2. CASE WatchStop
    BY <2>2 DEF WatchStop, Alive, SlotAfterCleanup
  <2>3. CASE WatchIdle
    BY <2>3 DEF WatchIdle, SlotAfterCleanup, PipeAfterCleanup, DoneIsDead
  <2> QED BY <1>11, <2>1, <2>2, <2>3 DEF WatchAct
<1>12. CASE UNCHANGED <<pipe, running>>
  BY <1>12
<1> HIDE DEF OnePipeline
<1> QED
  BY <1>1, <1>2, <1>3, <1>4, <1>5, <1>6, <1>7, <1>8, <1>9, <1>10, <1>11, <1>12 DEF
     Next, Capture, EncodeThread, vars, PlayFirst, PlayAgain, BindFails, BindOk,
     BeginWait, StartB, Ping, RttEcho, ConnReset, SendFrame, SleepBranch, Encode,
     WatchRead, Tick

\* A new address resets the counter, and a frame is recorded under the number it
\* leaves in the counter.
LEMMA CounterStep == IInv /\ [Next]_vars => CounterOfClient'
<1> SUFFICES ASSUME TypeOK, CounterOfClient, [Next]_vars PROVE CounterOfClient'
  BY DEF IInv
<1> USE StreamHostAssumption DEF TypeOK, CounterOfClient, client_active, sender
<1>1. ASSUME NEW c \in Clients, Ping(c) PROVE CounterOfClient'
  BY <1>1 DEF Ping, OwnerActive, ResetCounters
<1>2. CASE ConnReset
  BY <1>2 DEF ConnReset
<1>3. CASE SendFrame
  BY <1>3 DEF SendFrame
<1>4. CASE SleepBranch
  BY <1>4 DEF SleepBranch
<1>5. CASE UNCHANGED <<client_addr, frame_number, seen>>
  BY <1>5
<1> HIDE DEF CounterOfClient
<1> QED
  BY <1>1, <1>2, <1>3, <1>4, <1>5 DEF Next, Capture, EncodeThread, vars, PlayFirst,
     PlayAgain, BindFails, BindOk, BeginWait, StartB, RttEcho, CapFails,
     FirstFrameShared, FirstFrameRam, CapMode, CapStops, EncSetup, EncNoSetup,
     EncFails, EncStops, Supervise, Encode, WatchRead, WatchAct, Tick, PipeOnly

-----------------------------------------------------------------------------
\* The four conjuncts together are an invariant of every behaviour.
LEMMA Invariance == Spec => []IInv
<1>1. IInv /\ [Next]_vars => IInv'
  BY TypeStep, DoneStep, PipelineStep, CounterStep DEF IInv
<1> QED
  BY InitInv, <1>1, PTL DEF Spec

\* The atomics, the slot, the channel and the threads keep their types; the
\* guard of PLAY is set exactly while its hook task exists.
THEOREM TypeCorrect == Spec => []TypeOK
<1>1. IInv => TypeOK
  BY DEF IInv
<1> QED
  BY Invariance, <1>1, PTL

\* Two capture pipelines never have threads at the same time, and none outside
\* the watcher's slot has any, for any number of clients that come and go.
THEOREM NeverTwoPipelines == Spec => []OnePipeline
<1>1. IInv => OnePipeline
  BY DEF IInv
<1> QED
  BY Invariance, <1>1, PTL

\* Frame numbers reach each client without a hole of the sender's making,
\* whichever clients take the stream from each other and whoever PLAYs again.
THEOREM NumbersConsecutive == Spec => FramesConsecutive
<1> DEFINE P == \A c \in Clients : seen'[c] # seen[c] =>
                    seen'[c] \in {1, Saturate(seen[c] + 1)}
<1>1. ASSUME IInv, [Next]_vars PROVE P
  <2>1. CASE SendFrame
    BY <1>1, <2>1, SaturateBound
    DEF SendFrame, IInv, TypeOK, CounterOfClient, client_active
  <2>2. CASE UNCHANGED seen
    BY <2>2
  <2> HIDE DEF P
  <2> QED
    BY <1>1, <2>1, <2>2 DEF Next, Capture, EncodeThread, vars, sender, PipeOnly,
       PlayFirst, PlayAgain, BindFails, BindOk, BeginWait, StartB, Ping, RttEcho,
       ConnReset, SleepBranch, CapFails, FirstFrameShared, FirstFrameRam, CapMode,
       CapStops, EncSetup, EncNoSetup, EncFails, EncStops, Supervise, Encode,
       WatchRead, WatchAct, Tick
<1> QED
  BY Invariance, <1>1, PTL DEF Spec, FramesConsecutive
=============================================================================
