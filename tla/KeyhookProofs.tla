----------------------------- MODULE KeyhookProofs -----------------------------
(***************************************************************************)
(* Proofs about Keyhook for every set of keys and buttons and every length *)
(* of the pipes.                                                           *)
(***************************************************************************)
EXTENDS Keyhook, SequenceTheorems, WellFoundedInduction, TLAPS

--------------------------------------------------------------------------------
(* What the laptop believes after a sequence of lines *)

\* AfterOut for any lines q and any set d of items that are down before them.
Mine(q, i) == {n \in 1..Len(q) : q[n][1] = i}
After(q, d, i) ==
  IF Mine(q, i) = {} THEN i \in d
  ELSE q[CHOOSE n \in Mine(q, i) : \A m \in Mine(q, i) : m <= n][2]

Line == Items \X BOOLEAN

\* What handle_line makes of the items that are down.
Handled(d, line) == IF line[2] THEN d \cup {line[1]} ELSE d \ {line[1]}

\* AfterOut is After, of the lines in the pipe and of what is down now.
LEMMA AfterOutIsAfter == \A i : AfterOut(i) = After(out, rdown, i)
  BY DEF AfterOut, After, Mine

\* Among the positions of the lines of an item there is a last one.
LEMMA LastPosition ==
  ASSUME NEW n \in Nat, NEW T \in SUBSET (1..n), T # {}
  PROVE  \E x \in T : \A y \in T : y <= x
<1> DEFINE U == {k \in 0..n : n - k \in T}
<1>1. U \subseteq Nat
  OBVIOUS
<1>2. U # {}
  <2>1. PICK x \in T : TRUE
    OBVIOUS
  <2>2. n - x \in 0..n /\ n - (n - x) = x
    OBVIOUS
  <2> QED BY <2>1, <2>2
<1>3. PICK u \in U : \A v \in U : ~(<<v, u>> \in OpToRel(<, Nat))
  <2> HIDE DEF U
  <2> QED BY <1>1, <1>2, NatLessThanWellFounded, WFMin
<1>4. \A v \in U : u <= v
  <2>1. u \in Nat /\ \A v \in U : v \in Nat
    BY <1>1
  <2> HIDE DEF U
  <2>2. \A v \in U : ~(v < u)
    BY <1>3, <2>1 DEF OpToRel
  <2> QED BY <2>1, <2>2
<1>5. \A y \in T : n - y \in U
  <2> TAKE y \in T
  <2>1. n - y \in 0..n /\ n - (n - y) = y
    OBVIOUS
  <2> QED BY <2>1
<1>6. \A y \in T : y <= n - u
  BY <1>4, <1>5
<1> QED
  BY <1>6

\* The last line about an item decides.
LEMMA AfterLast ==
  ASSUME NEW q \in Seq(Line), NEW d, NEW i,
         NEW n \in Mine(q, i), \A m \in Mine(q, i) : m <= n
  PROVE  After(q, d, i) = q[n][2]
<1> DEFINE c == CHOOSE k \in Mine(q, i) : \A m \in Mine(q, i) : m <= k
<1>1. Mine(q, i) \subseteq Nat
  BY DEF Mine
<1>2. c \in Mine(q, i) /\ \A m \in Mine(q, i) : m <= c
  OBVIOUS
<1>3. c = n
  BY <1>1, <1>2
<1> QED
  BY <1>3 DEF After

\* A line that is emitted decides about its own item and no other.
LEMMA AfterAppend ==
  ASSUME NEW q \in Seq(Line), NEW d, NEW i, NEW line \in Line
  PROVE  After(Append(q, line), d, i) = IF i = line[1] THEN line[2] ELSE After(q, d, i)
<1> DEFINE p == Append(q, line)
           n == Len(q)
<1>1. /\ p \in Seq(Line) /\ Len(p) = n + 1 /\ n \in Nat
      /\ \A k \in 1..n : p[k] = q[k]
      /\ p[n + 1] = line
  BY AppendProperties
<1> HIDE DEF p
<1>2. CASE i = line[1]
  <2>1. n + 1 \in Mine(p, i) /\ \A m \in Mine(p, i) : m <= n + 1
    BY <1>1, <1>2 DEF Mine
  <2>2. After(p, d, i) = p[n + 1][2]
    BY <1>1, <2>1, AfterLast
  <2> QED
    BY <1>1, <1>2, <2>2 DEF p
<1>3. CASE i # line[1]
  <2>1. Mine(p, i) = Mine(q, i)
    BY <1>1, <1>3 DEF Mine
  <2>2. CASE Mine(q, i) = {}
    BY <1>3, <2>1, <2>2 DEF After, p
  <2>3. CASE Mine(q, i) # {}
    <3>1. PICK k \in Mine(q, i) : \A m \in Mine(q, i) : m <= k
      BY <2>3, <1>1, LastPosition DEF Mine
    <3>2. After(q, d, i) = q[k][2] /\ After(p, d, i) = p[k][2]
      BY <1>1, <2>1, <3>1, AfterLast
    <3>3. p[k] = q[k]
      BY <1>1, <3>1 DEF Mine
    <3> QED BY <1>3, <3>2, <3>3 DEF p
  <2> QED BY <2>2, <2>3
<1> QED BY <1>2, <1>3

\* Handling the first line changes nothing of what will be believed in the end.
LEMMA AfterTail ==
  ASSUME NEW q \in Seq(Line), q # <<>>, NEW d, NEW i
  PROVE  After(Tail(q), Handled(d, Head(q)), i) <=> After(q, d, i)
<1> DEFINE t == Tail(q)
           e == Handled(d, Head(q))
           n == Len(q)
<1>1. /\ t \in Seq(Line) /\ Len(t) = n - 1 /\ n \in Nat \ {0}
      /\ \A k \in 1..n - 1 : t[k] = q[k + 1]
      /\ Head(q) = q[1]
  BY HeadTailProperties, EmptySeq
<1>2. q[1] \in Line
  BY <1>1, ElementOfSeq
<1> HIDE DEF t
<1>3. ASSUME NEW k PROVE k \in Mine(t, i) <=> k + 1 \in Mine(q, i) /\ k \in 1..n - 1
  BY <1>1 DEF Mine
<1>4. CASE \E k \in Mine(q, i) : k > 1
  <2>1. PICK l \in Mine(q, i) : \A m \in Mine(q, i) : m <= l
    BY <1>1, <1>4, LastPosition DEF Mine
  <2>2. l \in 2..n
    BY <1>1, <1>4, <2>1 DEF Mine
  <2>3. l - 1 \in Mine(t, i) /\ \A m \in Mine(t, i) : m <= l - 1
    BY <1>1, <2>1, <2>2 DEF Mine
  <2>4. After(q, d, i) = q[l][2] /\ After(t, e, i) = t[l - 1][2]
    BY <1>1, <2>1, <2>3, AfterLast
  <2>5. t[l - 1] = q[l]
    BY <1>1, <2>2
  <2> QED BY <2>4, <2>5 DEF t
<1>5. CASE ~(\E k \in Mine(q, i) : k > 1)
  <2>1. Mine(t, i) = {}
    BY <1>1, <1>5 DEF Mine
  <2>2. After(t, e, i) <=> i \in e
    BY <2>1 DEF After
  <2>3. CASE q[1][1] = i
    <3>1. 1 \in Mine(q, i) /\ \A m \in Mine(q, i) : m <= 1
      BY <1>1, <1>5, <2>3 DEF Mine
    <3>2. After(q, d, i) = q[1][2]
      BY <3>1, AfterLast
    <3>3. i \in e <=> q[1][2]
      BY <1>1, <1>2, <2>3 DEF Handled, Line
    <3> QED BY <2>2, <3>2, <3>3 DEF t
  <2>4. CASE q[1][1] # i
    <3>1. Mine(q, i) = {}
      BY <1>1, <1>5, <2>4 DEF Mine
    <3>2. After(q, d, i) <=> i \in d
      BY <3>1 DEF After
    <3>3. i \in e <=> i \in d
      BY <1>1, <1>2, <2>4 DEF Handled, Line
    <3> QED BY <2>2, <3>2, <3>3 DEF t
  <2> QED BY <2>3, <2>4
<1> QED BY <1>4, <1>5

--------------------------------------------------------------------------------
(* The inductive invariant *)

\* A callback about to mark an item follows its press; one about to emit a DOWN
\* owns it, as long as no release_all_remote takes the mark away.
HookOK ==
  /\ hook # <<>> /\ hook[1] = "mark" => hook[2] \in phys
  /\ ~ended /\ hook # <<>> /\ hook[1] = "down" => hook[2] \in owned

\* A pipe holds no line x.
Lacks(q, x) == \A n \in 1..Len(q) : q[n] # x

\* Before a session was stopped or replaced no release_all_remote runs or will run;
\* before the first session the sidecar has captured nothing, and no call has a
\* session to announce to it.
FirstStream ==
  ~ended =>
    /\ toRelease = {} /\ releasing = <<>> /\ ~stopping
    /\ Lacks(stdin, "s0")
    /\ session = "none" =>
         /\ announcing = 0 /\ ~STREAMING /\ owned = {} /\ rdown = {} /\ out = <<>> /\ hook = <<>>
         /\ Lacks(stdin, "s1")

\* The inductive invariant.
IInv == TypeOK /\ HookOK /\ FirstStream /\ OwnedIsPressed /\ RemoteUpIsOwed

\* The sidecar as it starts, with no stream and nothing pressed, satisfies it.
LEMMA InitInv == Init => IInv
<1> SUFFICES ASSUME Init PROVE IInv
  OBVIOUS
<1>1. TypeOK
  BY EmptySeq DEF Init, TypeOK
<1>2. RemoteUpIsOwed
  BY DEF Init, RemoteUpIsOwed
<1> QED
  BY <1>1, <1>2 DEF Init, IInv, HookOK, FirstStream, OwnedIsPressed, Lacks

\* The lines a thread finds in a pipe are lines, and so is what it leaves there.
LEMMA ReadsLine ==
  ASSUME TypeOK, NEW line, ReadLine(line)
  PROVE  /\ stdin' \in Seq(Lines)
         /\ \A x : Lacks(stdin, x) => line # x /\ Lacks(stdin', x)
<1>1. stdin \in Seq(Lines) /\ stdin # <<>> /\ line = Head(stdin) /\ stdin' = Tail(stdin)
  BY DEF TypeOK, ReadLine
<1>2. Head(stdin) = stdin[1] /\ Len(stdin) \in Nat \ {0}
  BY <1>1, EmptySeq
<1> QED
  BY <1>1, <1>2, HeadTailProperties DEF Lacks

\* Writing to the sidecar appends lines.
LEMMA WritesLines ==
  ASSUME TypeOK, NEW lines \in Seq(Lines), Write(lines)
  PROVE  /\ stdin' \in Seq(Lines)
         /\ \A x : Lacks(stdin, x) /\ Lacks(lines, x) => Lacks(stdin', x)
<1>1. stdin \in Seq(Lines) /\ stdin' = stdin \o lines
  BY DEF TypeOK, Write
<1>2. Len(stdin) \in Nat /\ Len(lines) \in Nat
  BY <1>1, LenProperties
<1>3. /\ stdin' \in Seq(Lines) /\ Len(stdin') = Len(stdin) + Len(lines)
      /\ \A n \in 1..Len(stdin) + Len(lines) :
           stdin'[n] = IF n <= Len(stdin) THEN stdin[n] ELSE lines[n - Len(stdin)]
  BY <1>1, ConcatProperties
<1>4. ASSUME NEW n \in 1..Len(stdin')
      PROVE  \/ n \in 1..Len(stdin) /\ stdin'[n] = stdin[n]
             \/ n - Len(stdin) \in 1..Len(lines) /\ stdin'[n] = lines[n - Len(stdin)]
  BY <1>2, <1>3
<1> QED
  BY <1>3, <1>4 DEF Lacks

--------------------------------------------------------------------------------
\* The three threads keep the shape of the atomics and of the two pipes.
LEMMA TypeStep == IInv /\ [Next]_vars => TypeOK'
<1> SUFFICES ASSUME TypeOK, [Next]_vars PROVE TypeOK'
  BY DEF IInv
<1> USE DEF TypeOK, gate, side, admin, calls, Items, Lines
<1>1. ASSUME NEW i \in Items, NEW b \in BOOLEAN, DownActive(i, b) PROVE TypeOK'
  BY <1>1 DEF DownActive, Callback, update_hover
<1>2. ASSUME NEW i \in Items, NEW b \in BOOLEAN, DownPasses(i, b) PROVE TypeOK'
  BY <1>2 DEF DownPasses, Callback, update_hover
<1>3. CASE MarkOwned
  BY <1>3 DEF MarkOwned
<1>4. CASE EmitHook
  <2>1. out' \in Seq(Items \X BOOLEAN)
    <3>1. <<hook[2], hook[1] = "down">> \in Items \X BOOLEAN
      BY <1>4 DEF EmitHook
    <3> QED BY <1>4, <3>1, AppendProperties DEF EmitHook
  <2> QED BY <1>4, <2>1 DEF EmitHook
<1>5. ASSUME NEW i \in Items, NEW b \in BOOLEAN, UpOwned(i, b) PROVE TypeOK'
  BY <1>5 DEF UpOwned, Callback, update_hover
<1>6. ASSUME NEW i \in Items, NEW b \in BOOLEAN, UpPasses(i, b) PROVE TypeOK'
  BY <1>6 DEF UpPasses, Callback, update_hover
<1>7. ASSUME NEW b \in BOOLEAN, MouseMoves(b) PROVE TypeOK'
  BY <1>7 DEF MouseMoves, Callback, update_hover
<1>8. CASE StreamingOn
  <2>1. stdin' \in Seq(Lines)
    BY <1>8, ReadsLine DEF StreamingOn
  <2> QED BY <1>8, <2>1 DEF StreamingOn
<1>9. CASE StreamingOff
  <2>1. stdin' \in Seq(Lines)
    BY <1>9, ReadsLine DEF StreamingOff
  <2> QED BY <1>9, <2>1 DEF StreamingOff
<1>10. ASSUME NEW b \in BOOLEAN, SetFocused(b) PROVE TypeOK'
  <2>1. stdin' \in Seq(Lines)
    BY <1>10, ReadsLine DEF SetFocused
  <2> QED BY <1>10, <2>1 DEF SetFocused
<1>11. ASSUME NEW b \in BOOLEAN, SetRect(b) PROVE TypeOK'
  <2>1. stdin' \in Seq(Lines)
    BY <1>11, ReadsLine DEF SetRect
  <2> QED BY <1>11, <2>1 DEF SetRect
<1>12. ASSUME NEW i \in Items, ReleaseSwap(i) PROVE TypeOK'
  BY <1>12 DEF ReleaseSwap
<1>13. CASE ReleaseEmit
  <2>1. out' \in Seq(Items \X BOOLEAN)
    <3>1. <<releasing[1], FALSE>> \in Items \X BOOLEAN
      <4>1. PICK i \in Items : releasing = <<i>>
        BY <1>13 DEF ReleaseEmit
      <4> QED BY <4>1
    <3> QED BY <1>13, <3>1, AppendProperties DEF ReleaseEmit
  <2> QED BY <1>13, <2>1 DEF ReleaseEmit
<1>14. CASE StartAnnounced
  <2>1. stdin' \in Seq(Lines)
    <3>1. <<"f1", "s1">> \in Seq(Lines)
      OBVIOUS
    <3> QED BY <1>14, <3>1, WritesLines DEF StartAnnounced
  <2> QED BY <1>14, <2>1 DEF StartAnnounced
<1>15. CASE StopStream
  <2>1. stdin' \in Seq(Lines)
    <3>1. <<"s0">> \in Seq(Lines)
      OBVIOUS
    <3> QED BY <1>15, <3>1, WritesLines DEF StopStream
  <2> QED BY <1>15, <2>1 DEF StopStream
<1>16. CASE CloseSession
  BY <1>16 DEF CloseSession
<1>17. ASSUME NEW line \in {"f0", "f1", "r"}, WindowEvent(line) PROVE TypeOK'
  <2>1. stdin' \in Seq(Lines)
    <3>1. <<line>> \in Seq(Lines)
      OBVIOUS
    <3> QED BY <1>17, <3>1, WritesLines DEF WindowEvent
  <2> QED BY <1>17, <2>1 DEF WindowEvent
<1>18. CASE HandleLine
  <2>1. Head(out) \in Items \X BOOLEAN /\ out' \in Seq(Items \X BOOLEAN)
    BY <1>18, HeadTailProperties DEF HandleLine
  <2> QED BY <1>18, <2>1 DEF HandleLine
<1>19. CASE StartCalled \/ StartFails \/ StartConnects
  <2>1. connecting' \in Nat /\ announcing' \in Nat
    BY <1>19 DEF StartCalled, StartFails, StartConnects
  <2>2. rdown' \subseteq Items
    BY <1>19 DEF StartCalled, StartFails, StartConnects
  <2>3. session' \in {"none", "open"} /\ ended' \in BOOLEAN /\ stopping' \in BOOLEAN
    BY <1>19 DEF StartCalled, StartFails, StartConnects
  <2> QED BY <1>19, <2>1, <2>2, <2>3 DEF StartCalled, StartFails, StartConnects
<1>20. CASE UNCHANGED vars
  BY <1>20 DEF vars
<1> HIDE DEF TypeOK
<1> QED
  BY <1>1, <1>2, <1>3, <1>4, <1>5, <1>6, <1>7, <1>8, <1>9, <1>10, <1>11, <1>12,
     <1>13, <1>14, <1>15, <1>16, <1>17, <1>18, <1>19, <1>20 DEF Next, HookThread,
     StdinThread, Admin, User

--------------------------------------------------------------------------------
\* Callbacks run one at a time: a press that is being reported is not released
\* before its callback returns.
LEMMA HookStep == IInv /\ [Next]_vars => HookOK'
<1> SUFFICES ASSUME TypeOK, HookOK, FirstStream, [Next]_vars PROVE HookOK'
  BY DEF IInv
<1> USE DEF TypeOK, HookOK, side, admin, calls
<1>1. ASSUME NEW i \in Items, NEW b \in BOOLEAN, DownActive(i, b) PROVE HookOK'
  BY <1>1 DEF DownActive, Callback, HookIdle
<1>2. ASSUME NEW i \in Items, NEW b \in BOOLEAN, DownPasses(i, b) PROVE HookOK'
  BY <1>2 DEF DownPasses, Callback, HookIdle
<1>3. CASE MarkOwned
  BY <1>3 DEF MarkOwned
<1>4. CASE EmitHook
  BY <1>4 DEF EmitHook
<1>5. ASSUME NEW i \in Items, NEW b \in BOOLEAN, UpOwned(i, b) PROVE HookOK'
  BY <1>5 DEF UpOwned, Callback, HookIdle
<1>6. ASSUME NEW i \in Items, NEW b \in BOOLEAN, UpPasses(i, b) PROVE HookOK'
  BY <1>6 DEF UpPasses, Callback, HookIdle
<1>7. ASSUME NEW i \in Items, ReleaseSwap(i) PROVE HookOK'
  BY <1>7 DEF ReleaseSwap, FirstStream
<1>8. CASE StopStream
  BY <1>8 DEF StopStream
<1>9. CASE StartCalled \/ StartConnects
  BY <1>9 DEF StartCalled, StartConnects
<1>10. CASE UNCHANGED <<hook, phys, owned, ended>>
  BY <1>10
<1> HIDE DEF HookOK
<1> QED
  BY <1>1, <1>2, <1>3, <1>4, <1>5, <1>6, <1>7, <1>8, <1>9, <1>10 DEF Next, HookThread,
     StdinThread, Admin, User, vars, MouseMoves, StreamingOn, StreamingOff, SetFocused,
     SetRect, ReleaseEmit, StartFails, StartAnnounced, CloseSession, WindowEvent,
     HandleLine

\* Only stop_stream writes s0, and only a start_stream that stored a session s1.
LEMMA FirstStreamStep == IInv /\ [Next]_vars => FirstStream'
<1> SUFFICES ASSUME TypeOK, FirstStream, [Next]_vars PROVE FirstStream'
  BY DEF IInv
<1> USE DEF TypeOK, FirstStream, gate, side, admin, calls
<1>1. ASSUME NEW i \in Items, NEW b \in BOOLEAN, DownActive(i, b) PROVE FirstStream'
  BY <1>1 DEF DownActive, Callback, HookIdle, active, update_hover
<1>2. ASSUME NEW i \in Items, NEW b \in BOOLEAN, DownPasses(i, b) PROVE FirstStream'
  BY <1>2 DEF DownPasses, Callback, HookIdle, active, update_hover
<1>3. CASE MarkOwned
  BY <1>3 DEF MarkOwned
<1>4. CASE EmitHook
  BY <1>4 DEF EmitHook
<1>5. ASSUME NEW i \in Items, NEW b \in BOOLEAN, UpOwned(i, b) PROVE FirstStream'
  BY <1>5 DEF UpOwned, Callback, HookIdle, active, update_hover
<1>6. ASSUME NEW i \in Items, NEW b \in BOOLEAN, UpPasses(i, b) PROVE FirstStream'
  BY <1>6 DEF UpPasses, Callback, HookIdle, active, update_hover
<1>7. ASSUME NEW b \in BOOLEAN, MouseMoves(b) PROVE FirstStream'
  BY <1>7 DEF MouseMoves, HookIdle, update_hover
<1>8. CASE StreamingOn
  <2> DEFINE line == "s1"
  <2>1. ReadLine(line)
    BY <1>8 DEF StreamingOn
  <2>2. \A x : Lacks(stdin, x) => line # x /\ Lacks(stdin', x)
    BY <2>1, ReadsLine
  <2> QED BY <1>8, <2>2 DEF StreamingOn
<1>9. CASE StreamingOff
  <2> DEFINE line == "s0"
  <2>1. ReadLine(line)
    BY <1>9 DEF StreamingOff
  <2>2. \A x : Lacks(stdin, x) => line # x /\ Lacks(stdin', x)
    BY <2>1, ReadsLine
  <2> QED BY <1>9, <2>2 DEF StreamingOff
<1>10. ASSUME NEW b \in BOOLEAN, SetFocused(b) PROVE FirstStream'
  <2> DEFINE line == IF b THEN "f1" ELSE "f0"
  <2>1. ReadLine(line)
    BY <1>10 DEF SetFocused
  <2>2. \A x : Lacks(stdin, x) => line # x /\ Lacks(stdin', x)
    BY <2>1, ReadsLine
  <2> QED BY <1>10, <2>2 DEF SetFocused
<1>11. ASSUME NEW b \in BOOLEAN, SetRect(b) PROVE FirstStream'
  <2> DEFINE line == "r"
  <2>1. ReadLine(line)
    BY <1>11 DEF SetRect
  <2>2. \A x : Lacks(stdin, x) => line # x /\ Lacks(stdin', x)
    BY <2>1, ReadsLine
  <2> QED BY <1>11, <2>2 DEF SetRect
<1>12. ASSUME NEW i \in Items, ReleaseSwap(i) PROVE FirstStream'
  BY <1>12 DEF ReleaseSwap
<1>13. CASE ReleaseEmit
  BY <1>13 DEF ReleaseEmit
<1>14. CASE StartAnnounced
  <2> DEFINE lines == <<"f1", "s1">>
  <2>1. lines \in Seq(Lines) /\ Lacks(lines, "s0")
    BY DEF Lines, Lacks
  <2>2. Lacks(stdin, "s0") => Lacks(stdin', "s0")
    BY <1>14, <2>1, WritesLines DEF StartAnnounced
  <2> QED BY <1>14, <2>2 DEF StartAnnounced
<1>15. CASE StopStream
  BY <1>15 DEF StopStream
<1>16. CASE CloseSession
  BY <1>16 DEF CloseSession
<1>17. ASSUME NEW line \in {"f0", "f1", "r"}, WindowEvent(line) PROVE FirstStream'
  <2> DEFINE lines == <<line>>
  <2>1. lines \in Seq(Lines) /\ Lacks(lines, "s0") /\ Lacks(lines, "s1")
    BY DEF Lines, Lacks
  <2>2. \A x \in {"s0", "s1"} : Lacks(stdin, x) => Lacks(stdin', x)
    BY <1>17, <2>1, WritesLines DEF WindowEvent
  <2> QED BY <1>17, <2>2 DEF WindowEvent
<1>18. CASE HandleLine
  BY <1>18 DEF HandleLine
<1>19. CASE StartCalled \/ StartFails \/ StartConnects
  BY <1>19 DEF StartCalled, StartFails, StartConnects
<1>20. CASE UNCHANGED vars
  BY <1>20 DEF vars
<1> HIDE DEF FirstStream
<1> QED
  BY <1>1, <1>2, <1>3, <1>4, <1>5, <1>6, <1>7, <1>8, <1>9, <1>10, <1>11, <1>12,
     <1>13, <1>14, <1>15, <1>16, <1>17, <1>18, <1>19, <1>20 DEF Next, HookThread,
     StdinThread, Admin, User

--------------------------------------------------------------------------------
\* A mark is made for a press and removed with it.
LEMMA PressedStep == IInv /\ [Next]_vars => OwnedIsPressed'
<1> SUFFICES ASSUME TypeOK, HookOK, OwnedIsPressed, [Next]_vars PROVE OwnedIsPressed'
  BY DEF IInv
<1> USE DEF OwnedIsPressed, side
<1>1. ASSUME NEW i \in Items, NEW b \in BOOLEAN, DownActive(i, b) PROVE OwnedIsPressed'
  BY <1>1 DEF DownActive
<1>2. ASSUME NEW i \in Items, NEW b \in BOOLEAN, DownPasses(i, b) PROVE OwnedIsPressed'
  BY <1>2 DEF DownPasses
<1>3. CASE MarkOwned
  BY <1>3 DEF MarkOwned, HookOK
<1>4. ASSUME NEW i \in Items, NEW b \in BOOLEAN, UpOwned(i, b) PROVE OwnedIsPressed'
  BY <1>4 DEF UpOwned
<1>5. ASSUME NEW i \in Items, NEW b \in BOOLEAN, UpPasses(i, b) PROVE OwnedIsPressed'
  BY <1>5 DEF UpPasses
<1>6. ASSUME NEW i \in Items, ReleaseSwap(i) PROVE OwnedIsPressed'
  BY <1>6 DEF ReleaseSwap
<1>7. CASE UNCHANGED <<owned, phys>>
  BY <1>7
<1> HIDE DEF OwnedIsPressed
<1> QED
  BY <1>1, <1>2, <1>3, <1>4, <1>5, <1>6, <1>7 DEF Next, HookThread, StdinThread,
     Admin, User, vars, EmitHook, MouseMoves, StreamingOn, StreamingOff, SetFocused,
     SetRect, ReleaseEmit, StartCalled, StartFails, StartConnects, StartAnnounced,
     StopStream, CloseSession, WindowEvent, HandleLine

\* In the first session, whoever takes a mark away emits the UP in its place, and
\* a DOWN is emitted only under its mark.
LEMMA OwedStep == IInv /\ [Next]_vars => RemoteUpIsOwed'
<1> SUFFICES ASSUME TypeOK, HookOK, FirstStream, RemoteUpIsOwed, [Next]_vars,
                    session' = "open", ~ended', NEW j \in Items, AfterOut(j)'
             PROVE  j \in owned' \/ hook' = <<"up", j>>
  BY DEF IInv, RemoteUpIsOwed
<1> USE DEF admin, calls
<1>1. AfterOut(j)' = After(out', rdown', j)
  BY DEF AfterOut, After, Mine
<1>2. ASSUME session = "open", ~ended, After(out, rdown, j)
      PROVE  j \in owned \/ hook = <<"up", j>>
  BY <1>2, AfterOutIsAfter DEF RemoteUpIsOwed
<1>3. CASE EmitHook
  <2>1. PICK step \in {"down", "up"}, i \in Items : hook = <<step, i>>
    BY <1>3 DEF EmitHook, TypeOK
  <2>2. out' = Append(out, <<i, step = "down">>) /\ UNCHANGED <<rdown, owned, session, ended>>
    BY <1>3, <2>1 DEF EmitHook
  <2>3. After(out', rdown', j) = IF j = i THEN step = "down" ELSE After(out, rdown, j)
    <3>1. <<i, step = "down">> \in Line /\ out \in Seq(Line)
      BY <2>1 DEF TypeOK, Line
    <3> QED BY <2>2, <3>1, AfterAppend
  <2>4. CASE j = i
    BY <1>1, <2>1, <2>2, <2>3, <2>4 DEF HookOK
  <2>5. CASE j # i
    BY <1>1, <1>2, <2>1, <2>2, <2>3, <2>5
  <2> QED BY <2>4, <2>5
<1>4. CASE HandleLine
  <2>1. session = "open" /\ ~ended /\ out # <<>> /\ UNCHANGED <<owned, hook>>
    BY <1>4 DEF HandleLine
  <2>2. out' = Tail(out) /\ rdown' = Handled(rdown, Head(out))
    BY <1>4, <2>1 DEF HandleLine, Handled
  <2>3. After(out', rdown', j) <=> After(out, rdown, j)
    BY <2>1, <2>2, AfterTail DEF TypeOK, Line
  <2> QED BY <1>1, <1>2, <2>1, <2>3
<1>5. CASE StartConnects
  <2>1. out' = <<>> /\ rdown' = {}
    <3>1. session = "none" /\ ~ended
      BY <1>5 DEF StartConnects, TypeOK
    <3> QED BY <1>5, <3>1 DEF StartConnects, FirstStream
  <2>2. ~After(out', rdown', j)
    BY <2>1 DEF After, Mine
  <2> QED BY <1>1, <2>2
<1>6. CASE UNCHANGED <<out, rdown, session, ended>>
  <2>1. j \in owned \/ hook = <<"up", j>>
    BY <1>1, <1>2, <1>6
  <2>2. ASSUME NEW i \in Items, NEW b \in BOOLEAN, UpOwned(i, b)
        PROVE  j \in owned' \/ hook' = <<"up", j>>
    BY <2>1, <2>2 DEF UpOwned, Callback, HookIdle
  <2>3. ASSUME NEW i \in Items, NEW b \in BOOLEAN, DownActive(i, b)
        PROVE  j \in owned' \/ hook' = <<"up", j>>
    BY <2>1, <2>3 DEF DownActive, Callback, HookIdle
  <2>4. CASE MarkOwned
    BY <2>1, <2>4 DEF MarkOwned
  <2>5. ASSUME NEW i \in Items, ReleaseSwap(i) PROVE FALSE
    BY <1>6, <2>5 DEF ReleaseSwap, FirstStream
  <2>6. CASE UNCHANGED <<owned, hook>>
    BY <2>1, <2>6
  <2> QED
    BY <1>3, <2>2, <2>3, <2>4, <2>5, <2>6 DEF Next, HookThread, StdinThread, Admin,
       User, vars, side, DownPasses, UpPasses, MouseMoves, StreamingOn, StreamingOff,
       SetFocused, SetRect, ReleaseEmit, StartCalled, StartFails, StartConnects,
       StartAnnounced, StopStream, CloseSession, WindowEvent, HandleLine
<1>7. ~StartCalled /\ ~StopStream /\ ~CloseSession /\ ~ReleaseEmit
  BY DEF StartCalled, StopStream, CloseSession, ReleaseEmit, FirstStream
<1> QED
  BY <1>3, <1>4, <1>5, <1>6, <1>7 DEF Next, HookThread, StdinThread, Admin, User,
     vars, side, DownActive, DownPasses, MarkOwned, UpOwned, UpPasses, MouseMoves,
     StreamingOn, StreamingOff, SetFocused, SetRect, ReleaseSwap, StartFails,
     StartAnnounced, WindowEvent

--------------------------------------------------------------------------------
\* The five conjuncts together are an invariant of every behaviour.
LEMMA Invariance == Spec => []IInv
<1>1. IInv /\ [Next]_vars => IInv'
  BY TypeStep, HookStep, FirstStreamStep, PressedStep, OwedStep DEF IInv
<1> QED
  BY InitInv, <1>1, PTL DEF Spec

\* The sidecar's atomics, callbacks and pipes keep their types.
THEOREM TypeCorrect == Spec => []TypeOK
<1>1. IInv => TypeOK
  BY DEF IInv
<1> QED
  BY Invariance, <1>1, PTL

\* No KEY_REMOTE or BTN_REMOTE mark outlives the press it was made for, whatever
\* the gate, the focus and release_all_remote do in between.
THEOREM MarksFollowPresses == Spec => []OwnedIsPressed
<1>1. IInv => OwnedIsPressed
  BY DEF IInv
<1> QED
  BY Invariance, <1>1, PTL

\* In the first session of a sidecar no key or button stays down on the laptop
\* without its UP being owed, for any number of items, of waiting lines and of calls
\* of start_stream that fail or run at a time.
THEOREM UpAlwaysOwed == Spec => []RemoteUpIsOwed
<1>1. IInv => RemoteUpIsOwed
  BY DEF IInv
<1> QED
  BY Invariance, <1>1, PTL
================================================================================
