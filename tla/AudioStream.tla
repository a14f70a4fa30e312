----------------------------- MODULE AudioStream -----------------------------
(***************************************************************************)
(* The audio stream: the capture thread and the sending task of             *)
(* kmc-streamhost/src/audio.rs, and the receiver of                         *)
(* kmc-moonclient/src/audio.rs with its loss statistics.                    *)
(*                                                                         *)
(* A client registers by PING; the host sends to one client at a time and   *)
(* numbers the frames from 0 with every registration.  UDP loses PINGs and  *)
(* frames, repeats and reorders frames (any frame of the registration may   *)
(* arrive, up to MaxLag positions late and after a gap of at most MaxGap;   *)
(* what is further off is lost).  An ICMP answer to a frame sent to a       *)
(* client that is gone is an error of the next receive, whoever is          *)
(* registered by then.  Frames are numbered by their position; the sequence *)
(* number is the position modulo SeqSpace.  The channel between the capture *)
(* thread and the task is unbounded and only delays; timestamps are left    *)
(* out, since nothing reads them.                                           *)
(***************************************************************************)
EXTENDS Integers

CONSTANTS Clients,           \* receivers, each with an address of its own
          Listeners,         \* bound: those that frames arrive at
          None,
          SeqSpace,          \* 2^16
          RESYNC_THRESHOLD,  \* 1024
          MaxLag, MaxGap,    \* the network, see above
          MaxSent,           \* bound: frames of one registration
          MaxReceived        \* bound: frames a client receives

ASSUME AudioAssumption ==
    /\ None \notin Clients /\ Listeners \subseteq Clients
    /\ SeqSpace \in Nat /\ SeqSpace % 2 = 0
    /\ RESYNC_THRESHOLD \in 1 .. SeqSpace \div 2
    /\ MaxLag \in 0 .. RESYNC_THRESHOLD - 1
    /\ MaxGap \in 0 .. SeqSpace \div 2 - 2
    /\ MaxSent \in Nat /\ MaxReceived \in Nat

VARIABLES
    capture,      \* the capture thread
    client_addr,  \* host: where the frames go
    expired,      \* last_ping is OWNER_TIMEOUT old
    frames_sent,  \* in this registration; seq is frames_sent % SeqSpace
    icmp,         \* an ICMP answer waits in the host's socket
    running,      \* client: run has been called and has not returned
    consumer,     \* the consumer of its sink is there
    ping,         \* a PING of the client is on its way
    last,         \* SeqTracker.last
    expected, received,
    epoch,        \* history: does what the client heard belong to one
                  \* registration, still the current one
    first, highest \* history: first and highest position received of it

host      == <<client_addr, expired, frames_sent, icmp>>
stats     == <<last, expected, received>>
heard     == <<epoch, first, highest>>
audioVars == <<capture, host, running, consumer, ping, stats, heard>>

AudioInit ==
    /\ capture = "opening"
    /\ client_addr = None /\ expired = FALSE /\ frames_sent = 0 /\ icmp = FALSE
    /\ running = [c \in Clients |-> "idle"]
    /\ consumer = [c \in Clients |-> TRUE] /\ ping = [c \in Clients |-> FALSE]
    /\ last = [c \in Clients |-> -1]
    /\ expected = [c \in Clients |-> 0] /\ received = [c \in Clients |-> 0]
    /\ epoch = [c \in Clients |-> "none"]
    /\ first = [c \in Clients |-> 0] /\ highest = [c \in Clients |-> 0]

-----------------------------------------------------------------------------
(* capture_encode_loop and the thread around it.                           *)

\* The default device is open and the stream started.
CaptureOpens ==
    /\ capture = "opening"
    /\ capture' = "capturing"
    /\ UNCHANGED <<host, running, consumer, ping, stats, heard>>

\* The device cannot be opened, or its event fails.  The task, which holds the
\* receiver, lives as long as the process: the thread always tries again.
CaptureFails ==
    /\ capture \in {"opening", "capturing"}
    /\ capture' = "sleeping"
    /\ UNCHANGED <<host, running, consumer, ping, stats, heard>>

\* One second later.
CaptureRetries ==
    /\ capture = "sleeping"
    /\ capture' = "opening"
    /\ UNCHANGED <<host, running, consumer, ping, stats, heard>>

-----------------------------------------------------------------------------
(* The host's task.                                                        *)

\* Mutant: a registered client is never given up.
OwnerActiveAlways(c) == client_addr \notin {None, c}

OwnerActive(c) == client_addr \notin {None, c} /\ ~expired

\* A new address: seq = 0.
Restart(c) == IF client_addr = c THEN frames_sent ELSE 0

NewEpoch ==
    LET over == {d \in Clients : epoch[d] = "current"}
    IN  /\ epoch' = [d \in Clients |-> IF d \in over THEN "past" ELSE epoch[d]]
        /\ first' = [d \in Clients |-> IF d \in over THEN 0 ELSE first[d]]
        /\ highest' = [d \in Clients |-> IF d \in over THEN 0 ELSE highest[d]]

HostPing(c) ==
    /\ ping[c]
    /\ ping' = [ping EXCEPT ![c] = FALSE]
    /\ IF OwnerActive(c) THEN UNCHANGED <<client_addr, expired, frames_sent, heard>>
       ELSE /\ client_addr' = c /\ expired' = FALSE /\ frames_sent' = Restart(c)
            /\ IF client_addr = c THEN UNCHANGED heard ELSE NewEpoch
    /\ UNCHANGED <<capture, icmp, running, consumer, stats>>

\* Two seconds since the last PING of the registered client.
OwnerExpires ==
    /\ client_addr # None /\ ~expired
    /\ expired' = TRUE
    /\ UNCHANGED <<capture, client_addr, frames_sent, icmp, running, consumer, ping, stats,
                   heard>>

\* recv_from fails with WSAECONNRESET: whoever is registered is dropped.
ConnReset ==
    /\ icmp
    /\ icmp' = FALSE /\ client_addr' = None
    /\ UNCHANGED <<capture, expired, frames_sent, running, consumer, ping, stats, heard>>

\* A frame of the channel; without a client it is dropped.
SendAudio ==
    /\ capture = "capturing" /\ client_addr # None /\ frames_sent < MaxSent
    /\ frames_sent' = frames_sent + 1
    /\ icmp' \in {icmp} \cup (IF running[client_addr] = "ended" THEN {TRUE} ELSE {})
    /\ UNCHANGED <<capture, client_addr, expired, running, consumer, ping, stats, heard>>

-----------------------------------------------------------------------------
(* The receiver.                                                           *)

ClientStarts(c) ==
    /\ running[c] = "idle"
    /\ running' = [running EXCEPT ![c] = "running"]
    /\ ping' = [ping EXCEPT ![c] = TRUE]
    /\ UNCHANGED <<capture, host, consumer, stats, heard>>

\* The tick of PING_INTERVAL.
ClientPings(c) ==
    /\ running[c] = "running" /\ ~ping[c]
    /\ ping' = [ping EXCEPT ![c] = TRUE]
    /\ UNCHANGED <<capture, host, running, consumer, stats, heard>>

PingLost(c) ==
    /\ ping[c]
    /\ ping' = [ping EXCEPT ![c] = FALSE]
    /\ UNCHANGED <<capture, host, running, consumer, stats, heard>>

\* wrapping_sub as a signed number of the width of seq.
Diff(seq, prev) ==
    LET d == (seq - prev + SeqSpace) % SeqSpace
    IN  IF d < SeqSpace \div 2 THEN d ELSE d - SeqSpace

\* Mutant: the sequence number is compared without the wrap-around.
AdvanceUnwrapped(prev, seq) ==
    IF prev = -1 \/ seq - prev <= -RESYNC_THRESHOLD THEN [last |-> seq, slots |-> 1]
    ELSE IF seq > prev THEN [last |-> seq, slots |-> seq - prev]
    ELSE [last |-> prev, slots |-> 0]

\* SeqTracker::advance: the new last, and what it adds to expected (Resync 1,
\* Forward gap + 1, Stale 0).
Advance(prev, seq) ==
    IF prev = -1 \/ Diff(seq, prev) <= -RESYNC_THRESHOLD
    THEN [last |-> seq, slots |-> 1]
    ELSE IF Diff(seq, prev) > 0 THEN [last |-> seq, slots |-> Diff(seq, prev)]
    ELSE [last |-> prev, slots |-> 0]

\* The positions the network may still deliver to c.
Arriving(c) ==
    {n \in 0 .. frames_sent - 1 : epoch[c] = "current" =>
                              n >= highest[c] - MaxLag /\ n <= highest[c] + MaxGap + 1}

\* ingest of the frame at position n, which parse_rtp_audio accepts (the host
\* sends nothing else to this port); without a consumer the receiver returns.
Ingest(c, n) ==
    LET step == Advance(last[c], n % SeqSpace)
    IN  /\ running[c] = "running" /\ client_addr = c /\ received[c] < MaxReceived
        /\ n \in Arriving(c)
        /\ last' = [last EXCEPT ![c] = step.last]
        /\ expected' = [expected EXCEPT ![c] = @ + step.slots]
        /\ received' = [received EXCEPT ![c] = @ + 1]
        /\ epoch' = [epoch EXCEPT ![c] = IF @ = "none" THEN "current" ELSE @]
        /\ first' = [first EXCEPT ![c] = IF epoch[c] = "none" THEN n ELSE @]
        /\ highest' = [highest EXCEPT ![c] = IF epoch[c] # "past" /\ n > @ THEN n ELSE @]
        /\ running' = [running EXCEPT ![c] = IF consumer[c] THEN @ ELSE "ended"]
        /\ UNCHANGED <<capture, host, consumer, ping>>

CloseConsumer(c) ==
    /\ consumer[c]
    /\ consumer' = [consumer EXCEPT ![c] = FALSE]
    /\ UNCHANGED <<capture, host, running, ping, stats, heard>>

\* The socket fails, or the session's runtime drops the task.
ClientFails(c) ==
    /\ running[c] = "running"
    /\ running' = [running EXCEPT ![c] = "ended"]
    /\ UNCHANGED <<capture, host, consumer, ping, stats, heard>>

AudioNext ==
    \/ CaptureOpens \/ CaptureFails \/ CaptureRetries
    \/ OwnerExpires \/ ConnReset \/ SendAudio
    \/ \E c \in Clients :
          \/ HostPing(c) \/ ClientStarts(c) \/ ClientPings(c) \/ PingLost(c)
          \/ ClientFails(c)
    \/ \E c \in Listeners : CloseConsumer(c) \/ \E n \in 0 .. MaxSent : Ingest(c, n)

AudioSpec == AudioInit /\ [][AudioNext]_audioVars

\* The owner timeout and the PING timers run, and the network delivers one of PINGs that
\* are repeated for ever.
AudioFairness ==
    /\ WF_audioVars(OwnerExpires)
    /\ \A c \in Clients : WF_audioVars(ClientPings(c)) /\ SF_audioVars(HostPing(c))

FairAudioSpec == AudioSpec /\ AudioFairness

-----------------------------------------------------------------------------
(* Properties.                                                             *)

\* The variables keep the shape their Rust types give them; only a client that
\* was started is ever sent to.
AudioTypeOK ==
    /\ capture \in {"opening", "capturing", "sleeping"}
    /\ client_addr \in Clients \cup {None} /\ expired \in BOOLEAN
    /\ client_addr # None => running[client_addr] # "idle"
    /\ frames_sent \in 0 .. MaxSent /\ icmp \in BOOLEAN
    /\ running \in [Clients -> {"idle", "running", "ended"}]
    /\ consumer \in [Clients -> BOOLEAN] /\ ping \in [Clients -> BOOLEAN]
    /\ last \in [Clients -> -1 .. SeqSpace - 1]
    /\ received \in [Clients -> 0 .. MaxReceived]
    /\ expected \in [Clients -> Nat]
    /\ epoch \in [Clients -> {"none", "current", "past"}]
    /\ first \in [Clients -> Nat] /\ highest \in [Clients -> Nat]

\* The statistics count what really did not arrive: while a client has heard of
\* one registration only, `expected' is the number of frames the host sent it
\* from the first it received to the highest, in whatever order, however often
\* and with whatever gaps they came, and across the wrap of the 16 bits
\* (SeqTracker::advance, with the host's seq).
LossExact ==
    \A c \in Clients :
        epoch[c] = "current" => expected[c] = highest[c] - first[c] + 1

\* A receiver that runs alone is registered, after whatever reset, loss of its
\* registration or predecessor that vanished without a word (audio.rs, the
\* repeated PING, OWNER_TIMEOUT and the WSAECONNRESET branch).
AloneIsRegistered ==
    \A c \in Clients :
        (running[c] = "running" /\ \A d \in Clients \ {c} : running[d] = "ended") ~>
            (client_addr = c \/ running[c] = "ended")
=============================================================================
