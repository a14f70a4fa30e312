-------------------------------- MODULE Keyhook --------------------------------
(***************************************************************************)
(* Capture of the administrator's keyboard and mouse while a laptop is     *)
(* being controlled (kmc-keyhook/src/main.rs; kmc-admin keyhook.rs,        *)
(* start_stream and stop_stream; the input side of kmc-moonclient).        *)
(*                                                                         *)
(* Three threads meet in the sidecar's atomics: the hook thread runs the   *)
(* callbacks of Windows one at a time; the stdin thread applies what the   *)
(* admin process writes; and the admin reads the emitted lines and sends   *)
(* them to the laptop while its session is open.  A key or button is       *)
(*   in phys   while the finger is on it,                                  *)
(*   in ldown  while the local desktop believes it is down,                *)
(*   in rdown  while the controlled laptop believes it is down,            *)
(*   in owned  while KEY_REMOTE / BTN_REMOTE says its DOWN went there.     *)
(* A held key repeats its DOWN, a button does not; a captured key is kept  *)
(* from the local desktop, a button never is.                              *)
(***************************************************************************)
EXTENDS Naturals, Sequences

CONSTANTS
  Keys, Buttons,
  MaxLines,   \* bound on the lines waiting in each pipe
  MaxStarts   \* bound on the calls of start_stream that run at a time

ASSUME KeyhookConstants ==
  Keys \cap Buttons = {} /\ MaxLines \in Nat /\ MaxStarts \in Nat

Items == Keys \cup Buttons

VARIABLES
  STREAMING, FOCUSED, HOVERING, RECT_SET,
  owned,
  phys, ldown, rdown,
  hook,        \* the callback being run: <<>> or <<step, item>>
  stdin,       \* lines admin -> sidecar
  toRelease,   \* release_all_remote: the items it has still to look at
  releasing,   \* ... and the one it swapped and has to report: <<>> or <<item>>
  out,         \* lines sidecar -> admin, <<item, down>>
  session,     \* admin, StreamState.session: "none" or "open"
  connecting,  \* calls of start_stream between their stop() and the new session
  announcing,  \* calls that have stored a session and not told the sidecar
  stopping,    \* stop_stream has written s0 and not called stop()
  ended        \* history: a session was stopped or replaced

gate == <<STREAMING, FOCUSED, HOVERING, RECT_SET>>
side == <<stdin, toRelease, releasing>>
calls == <<connecting, announcing, stopping>>
admin == <<session, calls, ended>>
vars == <<gate, owned, phys, ldown, rdown, hook, side, out, admin>>

Init ==
  /\ STREAMING = FALSE /\ FOCUSED = FALSE /\ HOVERING = FALSE /\ RECT_SET = FALSE
  /\ owned = {} /\ phys = {} /\ ldown = {} /\ rdown = {}
  /\ hook = <<>> /\ stdin = <<>> /\ toRelease = {} /\ releasing = <<>> /\ out = <<>>
  /\ session = "none" /\ connecting = 0 /\ announcing = 0 /\ stopping = FALSE
  /\ ended = FALSE

\* The gate, with the hover flag the callback reads.
active(hovering) == STREAMING /\ FOCUSED /\ hovering

--------------------------------------------------------------------------------
(* The hook thread: kbd_proc and mouse_proc *)

HookIdle == hook = <<>> /\ Len(out) < MaxLines

\* update_hover, first thing in every mouse callback: inside is where the
\* pointer is relative to the rectangle, which the stdin thread may be changing
\* under the reads.
update_hover(inside) == HOVERING' = (RECT_SET /\ inside)

\* Which callback an item has: mouse_proc updates the hover flag, kbd_proc does
\* not.
Callback(i, inside) ==
  /\ HookIdle
  /\ \/ i \in Buttons /\ update_hover(inside)
     \/ i \in Keys /\ UNCHANGED HOVERING
  /\ UNCHANGED <<STREAMING, FOCUSED, RECT_SET>>

\* A DOWN while the gate is open goes to the laptop; the callback has read the
\* gate and has yet to mark the ownership.
DownActive(i, inside) ==
  /\ Callback(i, inside)
  /\ i \in phys => i \in Keys
  /\ active(HOVERING')
  /\ phys' = phys \cup {i}
  /\ ldown' = IF i \in Buttons THEN ldown \cup {i} ELSE ldown
  /\ hook' = <<"mark", i>>
  /\ UNCHANGED <<owned, rdown, side, out, admin>>

\* A DOWN while the gate is closed is left to the local desktop.
DownPasses(i, inside) ==
  /\ Callback(i, inside)
  /\ i \in phys => i \in Keys
  /\ ~active(HOVERING')
  /\ phys' = phys \cup {i}
  /\ ldown' = ldown \cup {i}
  /\ UNCHANGED <<owned, rdown, hook, side, out, admin>>

MarkOwned ==
  /\ hook # <<>> /\ hook[1] = "mark"
  /\ owned' = owned \cup {hook[2]}
  /\ hook' = <<"down", hook[2]>>
  /\ UNCHANGED <<gate, phys, ldown, rdown, side, out, admin>>

\* The emit of a callback: k or mb with its flag.
EmitHook ==
  /\ hook # <<>> /\ hook[1] \in {"down", "up"}
  /\ out' = Append(out, <<hook[2], hook[1] = "down">>)
  /\ hook' = <<>>
  /\ UNCHANGED <<gate, owned, phys, ldown, rdown, side, admin>>

\* Mutant of UpOwned: load instead of swap.
UpOwnedKeeps(i, inside) ==
  /\ Callback(i, inside)
  /\ i \in phys
  /\ i \in owned
  /\ phys' = phys \ {i}
  /\ ldown' = IF i \in Buttons THEN ldown \ {i} ELSE ldown
  /\ hook' = <<"up", i>>
  /\ UNCHANGED <<owned, rdown, side, out, admin>>

\* Mutant of UpOwned: the gate decides about the UP as well.
UpOwnedGated(i, inside) ==
  /\ Callback(i, inside)
  /\ i \in phys
  /\ i \in owned
  /\ phys' = phys \ {i}
  /\ owned' = owned \ {i}
  /\ ldown' = ldown \ {i}
  /\ hook' = IF active(HOVERING') THEN <<"up", i>> ELSE <<>>
  /\ UNCHANGED <<rdown, side, out, admin>>

\* An UP goes where the DOWN went, whatever the gate is now: the ownership is
\* swapped out and the line emitted; the local desktop does not see a key's UP.
UpOwned(i, inside) ==
  /\ Callback(i, inside)
  /\ i \in phys
  /\ i \in owned
  /\ phys' = phys \ {i}
  /\ owned' = owned \ {i}
  /\ ldown' = IF i \in Buttons THEN ldown \ {i} ELSE ldown
  /\ hook' = <<"up", i>>
  /\ UNCHANGED <<rdown, side, out, admin>>

UpPasses(i, inside) ==
  /\ Callback(i, inside)
  /\ i \in phys
  /\ i \notin owned
  /\ phys' = phys \ {i}
  /\ ldown' = ldown \ {i}
  /\ UNCHANGED <<owned, rdown, hook, side, out, admin>>

\* Any other mouse event: a move or the wheel, whose lines hold nothing down.
MouseMoves(inside) ==
  /\ HookIdle
  /\ update_hover(inside)
  /\ UNCHANGED <<STREAMING, FOCUSED, RECT_SET, owned, phys, ldown, rdown, hook,
                 side, out, admin>>

--------------------------------------------------------------------------------
(* The stdin thread *)

\* Ready for the next line: release_all_remote has returned.
ReadLine(line) ==
  /\ toRelease = {} /\ releasing = <<>>
  /\ stdin # <<>> /\ Head(stdin) = line
  /\ stdin' = Tail(stdin)

StreamingOn ==
  /\ ReadLine("s1")
  /\ STREAMING' = TRUE
  /\ UNCHANGED <<FOCUSED, HOVERING, RECT_SET, owned, phys, ldown, rdown, hook,
                 toRelease, releasing, out, admin>>

\* s0 closes the gate and starts release_all_remote.
StreamingOff ==
  /\ ReadLine("s0")
  /\ STREAMING' = FALSE
  /\ toRelease' = Items
  /\ UNCHANGED <<FOCUSED, HOVERING, RECT_SET, owned, phys, ldown, rdown, hook,
                 releasing, out, admin>>

SetFocused(on) ==
  /\ ReadLine(IF on THEN "f1" ELSE "f0")
  /\ FOCUSED' = on
  /\ UNCHANGED <<STREAMING, HOVERING, RECT_SET, owned, phys, ldown, rdown, hook,
                 toRelease, releasing, out, admin>>

\* An r line: a rectangle with an area or without one.
SetRect(area) ==
  /\ ReadLine("r")
  /\ RECT_SET' = area
  /\ UNCHANGED <<STREAMING, FOCUSED, HOVERING, owned, phys, ldown, rdown, hook,
                 toRelease, releasing, out, admin>>

\* One round of release_all_remote: the swap, and when it was set the line.
ReleaseSwap(i) ==
  /\ i \in toRelease /\ releasing = <<>> /\ Len(out) < MaxLines
  /\ toRelease' = toRelease \ {i}
  /\ owned' = owned \ {i}
  /\ releasing' = IF i \in owned THEN <<i>> ELSE <<>>
  /\ UNCHANGED <<gate, phys, ldown, rdown, hook, stdin, out, admin>>

ReleaseEmit ==
  /\ releasing # <<>>
  /\ out' = Append(out, <<releasing[1], FALSE>>)
  /\ releasing' = <<>>
  /\ UNCHANGED <<gate, owned, phys, ldown, rdown, hook, stdin, toRelease, admin>>

--------------------------------------------------------------------------------
(* The admin process *)

Write(lines) ==
  /\ Len(stdin) + Len(lines) <= MaxLines
  /\ stdin' = stdin \o lines

\* start_stream: stop() of StreamState drops the session that is open, and the
\* sidecar is not told; the gate stays as it is while the call connects.
StartCalled ==
  /\ connecting + announcing < MaxStarts
  /\ connecting' = connecting + 1
  /\ session' = "none"
  /\ ended' = (ended \/ session = "open")
  /\ UNCHANGED <<gate, owned, phys, ldown, rdown, hook, side, out, announcing, stopping>>

\* Any of its steps fails: no session, and nothing written to the sidecar.
StartFails ==
  /\ connecting > 0
  /\ connecting' = connecting - 1
  /\ UNCHANGED <<gate, owned, phys, ldown, rdown, hook, side, out, session,
                 announcing, stopping, ended>>

\* The new session is stored, over the one a call beside this one may have stored;
\* its laptop is that of the last session or another one.
StartConnects ==
  /\ connecting > 0
  /\ connecting' = connecting - 1
  /\ announcing' = announcing + 1
  /\ session' = "open"
  /\ ended' = (ended \/ session = "open")
  /\ rdown' \in {rdown, {}}
  /\ UNCHANGED <<gate, owned, phys, ldown, hook, side, out, stopping>>

\* start_stream's last step: set_focused(true), set_streaming(true).
StartAnnounced ==
  /\ announcing > 0
  /\ announcing' = announcing - 1
  /\ Write(<<"f1", "s1">>)
  /\ UNCHANGED <<gate, owned, phys, ldown, rdown, hook, toRelease, releasing, out,
                 session, connecting, stopping, ended>>

\* stop_stream: s0 to the sidecar, whether or not there is a session ...
StopStream ==
  /\ ~stopping
  /\ Write(<<"s0">>)
  /\ stopping' = TRUE
  /\ ended' = TRUE
  /\ UNCHANGED <<gate, owned, phys, ldown, rdown, hook, toRelease, releasing, out,
                 session, connecting, announcing>>

\* ... then the session is dropped, and its control channel takes no more.
CloseSession ==
  /\ stopping
  /\ stopping' = FALSE
  /\ session' = "none"
  /\ UNCHANGED <<gate, owned, phys, ldown, rdown, hook, side, out, connecting,
                 announcing, ended>>

\* A focus event of the window, or a new rectangle from the front end.
WindowEvent(line) ==
  /\ Write(<<line>>)
  /\ UNCHANGED <<gate, owned, phys, ldown, rdown, hook, toRelease, releasing,
                 out, admin>>

\* handle_line: the laptop gets the event while the session is there.
HandleLine ==
  /\ out # <<>>
  /\ out' = Tail(out)
  /\ rdown' = LET i == Head(out)[1] IN
              IF session = "none" THEN rdown
              ELSE IF Head(out)[2] THEN rdown \cup {i} ELSE rdown \ {i}
  /\ UNCHANGED <<gate, owned, phys, ldown, hook, side, admin>>

--------------------------------------------------------------------------------
HookThread  == MarkOwned \/ EmitHook
StdinThread == \/ StreamingOn \/ StreamingOff \/ ReleaseEmit
               \/ \E b \in BOOLEAN : SetFocused(b) \/ SetRect(b)
               \/ \E i \in Items : ReleaseSwap(i)

User == \/ \E b \in BOOLEAN :
             \/ MouseMoves(b)
             \/ \E i \in Items : \/ DownActive(i, b) \/ DownPasses(i, b)
                                \/ UpOwned(i, b) \/ UpPasses(i, b)
        \/ StartCalled \/ StopStream
        \/ \E line \in {"f0", "f1", "r"} : WindowEvent(line)

Admin == HandleLine \/ StartFails \/ StartConnects \/ StartAnnounced \/ CloseSession

Next == HookThread \/ StdinThread \/ Admin \/ User

Spec == Init /\ [][Next]_vars
--------------------------------------------------------------------------------
(* Properties *)

Lines == {"s0", "s1", "f0", "f1", "r"}

\* Every variable keeps the shape of the sidecar's atomics and pipes.
TypeOK ==
  /\ STREAMING \in BOOLEAN /\ FOCUSED \in BOOLEAN
  /\ HOVERING \in BOOLEAN /\ RECT_SET \in BOOLEAN
  /\ owned \subseteq Items /\ phys \subseteq Items
  /\ ldown \subseteq Items /\ rdown \subseteq Items
  /\ hook \in {<<>>} \cup ({"mark", "down", "up"} \X Items)
  /\ stdin \in Seq(Lines)
  /\ toRelease \subseteq Items
  /\ releasing \in {<<>>} \cup {<<i>> : i \in Items}
  /\ out \in Seq(Items \X BOOLEAN)
  /\ session \in {"none", "open"} /\ connecting \in Nat /\ announcing \in Nat
  /\ stopping \in BOOLEAN /\ ended \in BOOLEAN

\* An ownership mark never outlives the press it was made for (main.rs:59): a
\* stale mark would swallow the UP of a later, purely local press.
OwnedIsPressed == owned \subseteq phys

\* What the laptop will believe once the lines on their way have arrived.
AfterOut(i) ==
  LET mine == {n \in 1..Len(out) : out[n][1] = i} IN
  IF mine = {} THEN i \in rdown
  ELSE out[CHOOSE n \in mine : \A m \in mine : m <= n][2]

\* Within a session, the laptop never holds a key or button whose UP will not
\* be sent to it (main.rs:59-60): it is owned, or a callback is about to say
\* so.  Focus and hover may change at any moment in between.  Nothing is said once
\* a session was stopped or replaced: release_all_remote then races the callbacks
\* and the end of the session, and a start over an open session releases nothing.
RemoteUpIsOwed ==
  session = "open" /\ ~ended =>
    \A i \in Items : AfterOut(i) => i \in owned \/ hook = <<"up", i>>
================================================================================
