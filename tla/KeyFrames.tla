------------------------------ MODULE KeyFrames ------------------------------
(***************************************************************************)
(* How a broken picture is repaired.  Encoders are built with an infinite   *)
(* GOP (gpu_encode.rs, qsv.rs): after a lost frame the picture stays broken *)
(* until a key frame comes that somebody asked for.  The loop:              *)
(*   transport reports a frame Lost (module FrameFate, which VideoStream    *)
(*   implements) -> pump_lost asks (session.rs) -> control channel ->       *)
(*   idr_req (control.rs) -> encode loop (capture.rs) -> frame channel and  *)
(*   drain (video/mod.rs) -> transport.                                     *)
(***************************************************************************)
EXTENDS FrameFate, Sequences, FiniteSets

CONSTANTS Paths,    \* encode loops in use, of {"ram", "zc"}
          ChanCap,  \* bound: frames waiting in the channel (128)
          MaxSkips  \* bound: turns that take a request and produce no frame

VARIABLES
    path,      \* the encode loop of this session
    idr_req,   \* set by control.rs and a PLAY, cleared by the encode loop
    fresh,     \* the encoder is new: its first frame is a key frame
    chan,      \* the frame channel: is the frame a key frame
    key,       \* the frames sent that are key frames
    signals,   \* Lost signals in the channel to pump_lost
    recent,    \* the last request is younger than IDR_MIN_INTERVAL
    asked,     \* a RequestIdrFrame is on its way to the host
    skips      \* turns that took a request and produced no frame

encoder == <<path, idr_req, fresh, skips>>
sender  == <<chan, key>>
pump    == <<signals, recent, asked>>
vars    == <<fateVars, encoder, sender, pump>>

Init ==
    /\ FateInit
    /\ path \in Paths /\ idr_req = FALSE /\ fresh = TRUE /\ skips = 0
    /\ chan = <<>> /\ key = {}
    /\ signals = 0 /\ recent = FALSE /\ asked = FALSE

\* Both encoders are opened with gop_size = i32::MAX and forced_idr: a key
\* frame is the first frame of an encoder, or one that was asked for.
IsKey == fresh \/ idr_req

\* The turn produces a frame and blocking_send puts it into the channel.
Encoded ==
    /\ Len(chan) < ChanCap
    /\ chan' = Append(chan, IsKey)
    /\ idr_req' = FALSE /\ fresh' = FALSE
    /\ UNCHANGED <<fateVars, path, skips, key, pump>>

\* The turn is over without a frame, and the request it took is gone.
NoFrame ==
    /\ idr_req /\ skips < MaxSkips
    /\ idr_req' = FALSE /\ skips' = skips + 1
    /\ UNCHANGED <<fateVars, path, fresh, sender, pump>>

\* encode_loop: a new picture or the old one again, with QsvEncoder::encode.
RamEncodes == path = "ram" /\ Encoded

\* send_frame fails after force_idr was cleared.
RamFails == path = "ram" /\ NoFrame

\* zerocopy_loop: a new texture, converted, staged and submitted.
ZeroCopyEncodes == path = "zc" /\ Encoded

\* It takes the request before it acquires the shared texture; no new picture
\* within 100 ms, or a failed conversion, and the turn is over.
ZeroCopySkips == path = "zc" /\ NoFrame

\* A new encoder replaces the old one.
Reopened ==
    /\ fresh' = TRUE
    /\ UNCHANGED <<fateVars, path, idr_req, skips, sender, pump>>

\* set_bitrate of either encoder, for a target that changed enough.
RamReconfigures      == path = "ram" /\ Reopened
ZeroCopyReconfigures == path = "zc" /\ Reopened

\* The sender drains the channel to the newest frame and sends that one.
SendFrame ==
    /\ chan # <<>>
    /\ Send
    /\ key' = IF chan[Len(chan)] THEN key \cup {count + 1} ELSE key
    /\ chan' = <<>>
    /\ UNCHANGED <<encoder, pump>>

\* The receive loop completes a frame or gives frames up; each of the latter
\* is a Lost signal.
Receive(S, D) ==
    /\ Settle(S, D)
    /\ signals' = signals + Cardinality(S)
    /\ UNCHANGED <<encoder, sender, recent, asked>>

\* pump_lost takes a signal: a request, unless the last is less than
\* IDR_MIN_INTERVAL old.
PumpLost ==
    /\ signals > 0
    /\ signals' = signals - 1
    /\ recent' = TRUE
    /\ asked' = (asked \/ ~recent)
    /\ UNCHANGED <<fateVars, encoder, sender>>

\* The message goes out on the channel in CONTROL.
request_idr == asked' = TRUE

\* A viewer connects to the local WebSocket server, or lags behind its
\* broadcast: serve_client asks without a limit.
ViewerAsks ==
    /\ request_idr
    /\ UNCHANGED <<fateVars, encoder, sender, signals, recent>>

\* 300 ms have passed since the last request.
IntervalOver ==
    /\ recent
    /\ recent' = FALSE
    /\ UNCHANGED <<fateVars, encoder, sender, signals, asked>>

\* control.rs receives a RequestIdrFrame.
HostGetsIdr ==
    /\ asked
    /\ asked' = FALSE /\ idr_req' = TRUE
    /\ UNCHANGED <<fateVars, path, fresh, skips, sender, signals, recent>>

Next ==
    \/ RamEncodes \/ RamFails \/ ZeroCopyEncodes \/ ZeroCopySkips
    \/ RamReconfigures \/ ZeroCopyReconfigures \/ SendFrame
    \/ \E S \in SUBSET (1 .. count) :
          \/ S # {} /\ Receive(S, {})
          \/ \E n \in (1 .. count) \ S : Receive(S, {n})
    \/ PumpLost \/ ViewerAsks \/ IntervalOver \/ HostGetsIdr

Spec == Init /\ [][Next]_vars

\* video.rs:88: the receiver of a Lost signal must turn it into a request for a
\* key frame.  For a lost frame a later key frame has been sent or waits in the
\* channel, or the signal or the request is still on its way.
LossIsAnswered ==
    \A n \in DOMAIN fate : fate[n] = "lost" =>
        \/ signals > 0 \/ asked \/ idr_req
        \/ \E i \in DOMAIN chan : chan[i]
        \/ \E m \in key : m > n
=============================================================================
