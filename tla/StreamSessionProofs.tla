-------------------------- MODULE StreamSessionProofs --------------------------
(***************************************************************************)
(* Proofs about StreamSession for every number of sessions, input events    *)
(* and faults.                                                              *)
(***************************************************************************)
EXTENDS StreamSession, SequenceTheorems, FiniteSetTheorems, TLAPS

Opened == {"linked", "connected", "stored", "abandoned"}
Phases == {"idle", "asking", "connecting", "failed"} \cup Opened
Wires  == [step : 0 .. Len(Steps), at : {"none", "request", "answer", "closed"}]

StateOK ==
    /\ phase \in [Sessions -> Phases]
    /\ wire \in [Sessions -> Wires]
    /\ current \in Sessions \cup {None} /\ control \in Sessions \cup {None}
    /\ typing \in Sessions \cup {None} /\ key \in Sessions \cup {None}
    /\ task \in [Sessions -> {"none", "running", "closing", "ended"}]
    /\ alive \in [Sessions -> BOOLEAN]
    /\ doomed \subseteq Sessions
    /\ link \in [Sessions -> {"none", "up", "cut"}]
    /\ hook \in {"idle", "starting", "waiting", "running"}
    /\ peers = {} \/ \E s \in Sessions : peers = {s}

\* The pipes are sequences, and a thread that is about to enqueue an event
\* leaves room for it.
PipesOK ==
    /\ given \in [Sessions -> 0 .. MaxInputs]
    /\ limit \in [Sessions -> 0 .. MaxInputs]
    /\ outq \in [Sessions -> Seq(Messages)]
    /\ net \in [Sessions -> Seq(Messages)]
    /\ injected \in [Sessions -> Seq(Nat)]
    /\ typing # None => given[typing] < MaxInputs

\* TypeOK, with the variables it leaves open.
ShapeOK == StateOK /\ PipesOK

\* Nothing of a session exists before its ENet connection does.
Fresh(s) ==
    /\ task[s] = "none" /\ link[s] = "none" /\ ~alive[s] /\ s \notin doomed
    /\ net[s] = <<>> /\ outq[s] = <<>> /\ injected[s] = <<>> /\ given[s] = 0
    /\ s \notin {current, control, typing} /\ s \notin peers

Has(q, t) == \E i \in 1 .. Len(q) : q[i].type = t

\* Where a session stands and what has been made of it.
PhaseOf(s) ==
    /\ phase[s] \notin Opened => Fresh(s)
    /\ phase[s] \in Opened \cup {"connecting"} => wire[s].at # "request"
    /\ current = s => phase[s] = "stored"
    /\ s \in doomed => phase[s] = "stored" /\ current # s
    /\ s \notin doomed => limit[s] = MaxInputs /\ ~Has(outq[s], "shutdown")
    /\ s \in doomed /\ task[s] = "running" => Has(outq[s], "shutdown")
    /\ task[s] = "running" => ~Has(net[s], "bye")
    /\ ~Has(outq[s], "bye")

PhaseOK == \A s \in Sessions : PhaseOf(s)

\* q carries the control messages that start a connection, `lead` of them, then
\* the input events from b + 1 on without a hole, and at most a bye after them.
Wired(q, lead, b) ==
    \A i \in 1 .. Len(q) :
        /\ i <= lead => q[i].type \in {"connect", "StartB"}
        /\ i > lead => q[i] = Event(b + i - lead) \/ (i = Len(q) /\ q[i].type = "bye")

\* The events of q were typed, and typed before the session was dropped.
Due(q, g, l) ==
    \A i \in 1 .. Len(q) : q[i].type = "input" => q[i].nr <= g /\ q[i].nr <= l

\* The events in the queue q up to a shutdown go on from number n.
Queued(q, n, g, l) ==
    \A i \in 1 .. Len(q) :
       \/ \E j \in 1 .. i : q[j].type = "shutdown"
       \/ q[i] = Event(n + i) /\ n + i <= g /\ n + i <= l

\* Task s is sending; n events went out.  The queue goes on from there, and the
\* thread that types goes on from the queue.
Sending(s, n) ==
    task[s] = "running" /\ link[s] = "up" =>
        /\ Queued(outq[s], n, given[s], limit[s])
        /\ s \notin doomed => given[s] = n + Len(outq[s])

\* What was injected, what is on the connection and what is in the queue of the
\* session whose key the host has are one numbering.
Numbered(s, lead) ==
    /\ Wired(net[s], lead, Len(injected[s]))
    /\ Due(net[s], given[s], limit[s])
    /\ Sending(s, Len(injected[s]) + Len(net[s]) - lead)

PipeOf(s) == key = s => \E lead \in 0 .. Len(net[s]) : Numbered(s, lead)

PipeOK == \A s \in Sessions : PipeOf(s)

\* The inductive invariant.
IInv == ShapeOK /\ PhaseOK /\ PipeOK /\ InputPrefix /\ StoppedIsSilent

-----------------------------------------------------------------------------
(* Messages, queues and the connection.                                    *)

\* Messages contains what the actions put into the pipes, and has numbers.
LEMMA MessagesOK ==
    /\ \A t \in {"connect", "StartB", "bye", "shutdown"} : Msg(t) \in Messages
    /\ \A n \in 1 .. MaxInputs : Event(n) \in Messages
    /\ \A m \in Messages : m.nr \in Nat
    /\ \A t : Msg(t).type = t
    /\ \A n \in Int : Event(n).type = "input" /\ Event(n).nr = n
<1>1. \A t \in {"connect", "StartB", "bye", "shutdown"} : Msg(t) \in Messages
  BY DEF Messages
<1>2. \A n \in 1 .. MaxInputs : Event(n) \in Messages
  BY DEF Messages
<1>3. ASSUME NEW m \in Messages PROVE m.nr \in Nat
  <2>1. CASE \E t \in {"connect", "StartB", "bye", "shutdown"} : m = Msg(t)
    BY <2>1 DEF Msg
  <2>2. CASE \E n \in 1 .. MaxInputs : m = Event(n)
    BY <2>2, SessionAssumption DEF Event
  <2> QED
    BY <2>1, <2>2 DEF Messages
<1>4. \A t : Msg(t).type = t
  BY DEF Msg
<1>5. \A n \in Int : Event(n).type = "input" /\ Event(n).nr = n
  BY DEF Event
<1> QED
  BY <1>1, <1>2, <1>3, <1>4, <1>5

\* There are four exchanges, and no session is None.
LEMMA StepsLen == Len(Steps) = 4
BY DEF Steps

LEMMA NoneIsNone == None \notin Sessions
BY SessionAssumption DEF None, Sessions

\* What the host takes off the connection: a message that starts it, the next
\* event in number, or a bye with nothing behind it (HostControl).
LEMMA WiredTail ==
    ASSUME NEW q \in Seq(Messages), q # <<>>, NEW lead \in 0 .. Len(q), NEW b \in Nat,
           Wired(q, lead, b)
    PROVE  /\ Head(q).type \in {"connect", "StartB"} =>
                lead > 0 /\ Wired(Tail(q), lead - 1, b)
           /\ Head(q).type = "input" =>
                lead = 0 /\ Head(q) = Event(b + 1) /\ Wired(Tail(q), 0, b + 1)
           /\ Head(q).type = "bye" => Tail(q) = <<>>
<1>1. /\ Head(q) = q[1] /\ Tail(q) \in Seq(Messages) /\ Len(Tail(q)) = Len(q) - 1
      /\ Len(q) > 0 /\ Len(q) \in Nat
      /\ \A i \in 1 .. Len(Tail(q)) : Tail(q)[i] = q[i + 1]
  BY HeadTailProperties
<1>2. /\ 1 <= lead => q[1].type \in {"connect", "StartB"}
      /\ 1 > lead => q[1] = Event(b + 1 - lead) \/ (1 = Len(q) /\ q[1].type = "bye")
  <2>1. 1 \in 1 .. Len(q)
    BY <1>1
  <2> QED
    BY <2>1, Zenon DEF Wired
<1>3. ASSUME Head(q).type \in {"connect", "StartB"}
      PROVE  lead > 0 /\ Wired(Tail(q), lead - 1, b)
  <2>1. lead > 0
    BY <1>1, <1>2, <1>3, MessagesOK
  <2>2. ASSUME NEW i \in 1 .. Len(Tail(q))
        PROVE  /\ i <= lead - 1 => Tail(q)[i].type \in {"connect", "StartB"}
               /\ i > lead - 1 => \/ Tail(q)[i] = Event(b + i - (lead - 1))
                                  \/ i = Len(Tail(q)) /\ Tail(q)[i].type = "bye"
    <3>1. i + 1 \in 1 .. Len(q) /\ Tail(q)[i] = q[i + 1]
      BY <1>1
    <3>2. /\ b + (i + 1) - lead = b + i - (lead - 1)
          /\ i <= lead - 1 => i + 1 <= lead
          /\ i > lead - 1 => i + 1 > lead
      BY <1>1
    <3>4. i + 1 = Len(q) => i = Len(Tail(q))
      <4>1. \A m, n \in Int : m + 1 = n => m = n - 1
        OBVIOUS
      <4>2. i \in Int /\ Len(q) \in Int
        BY <1>1
      <4> QED
        BY <4>1, <4>2, <1>1, Zenon
    <3>3. /\ i + 1 <= lead => q[i + 1].type \in {"connect", "StartB"}
          /\ i + 1 > lead => \/ q[i + 1] = Event(b + (i + 1) - lead)
                             \/ i + 1 = Len(q) /\ q[i + 1].type = "bye"
      BY <3>1, Zenon DEF Wired
    <3> QED
      BY <3>1, <3>2, <3>3, <3>4, Zenon
  <2> QED
    BY <2>1, <2>2 DEF Wired
<1>4. ASSUME Head(q).type = "input"
      PROVE  lead = 0 /\ Head(q) = Event(b + 1) /\ Wired(Tail(q), 0, b + 1)
  <2>1. lead = 0
    BY <1>1, <1>2, <1>4
  <2>2. Head(q) = Event(b + 1)
    <3>1. b + 1 - lead = b + 1
      BY <2>1
    <3> QED
      BY <1>1, <1>2, <1>4, <2>1, <3>1
  <2>3. ASSUME NEW i \in 1 .. Len(Tail(q))
        PROVE  /\ i <= 0 => Tail(q)[i].type \in {"connect", "StartB"}
               /\ i > 0 => \/ Tail(q)[i] = Event(b + 1 + i - 0)
                           \/ i = Len(Tail(q)) /\ Tail(q)[i].type = "bye"
    <3>1. i + 1 \in 1 .. Len(q) /\ Tail(q)[i] = q[i + 1] /\ ~(i + 1 <= lead)
      BY <1>1, <2>1
    <3>2. /\ b + (i + 1) - lead = b + 1 + i - 0 /\ i + 1 > lead /\ ~(i <= 0)
      BY <2>1, <1>1
    <3>4. i + 1 = Len(q) => i = Len(Tail(q))
      <4>1. \A m, n \in Int : m + 1 = n => m = n - 1
        OBVIOUS
      <4>2. i \in Int /\ Len(q) \in Int
        BY <1>1
      <4> QED
        BY <4>1, <4>2, <1>1, Zenon
    <3>3. i + 1 > lead => \/ q[i + 1] = Event(b + (i + 1) - lead)
                          \/ i + 1 = Len(q) /\ q[i + 1].type = "bye"
      BY <3>1, Zenon DEF Wired
    <3> QED
      BY <3>1, <3>2, <3>3, <3>4, Zenon
  <2> QED
    BY <2>1, <2>2, <2>3 DEF Wired
<1>5. ASSUME Head(q).type = "bye" PROVE Tail(q) = <<>>
  <2>1. Len(q) = 1
    BY <1>1, <1>2, <1>5, MessagesOK
  <2>2. Len(Tail(q)) = 0
    BY <2>1, <1>1
  <2> QED
    BY <2>2, <1>1, EmptySeq
<1> QED
  BY <1>3, <1>4, <1>5

\* The task sends the next event (TaskTakes).
LEMMA WiredAppend ==
    ASSUME NEW q \in Seq(Messages), NEW lead \in 0 .. Len(q), NEW b \in Nat,
           Wired(q, lead, b), ~Has(q, "bye"),
           Event(b + Len(q) - lead + 1) \in Messages
    PROVE  Wired(Append(q, Event(b + Len(q) - lead + 1)), lead, b)
<1> DEFINE m == Event(b + Len(q) - lead + 1)
           a == Append(q, m)
<1>1. /\ Len(a) = Len(q) + 1 /\ a[Len(q) + 1] = m /\ Len(q) \in Nat
      /\ \A i \in 1 .. Len(q) : a[i] = q[i]
  BY AppendProperties
<1> HIDE DEF a
<1>2. ASSUME NEW i \in 1 .. Len(a)
      PROVE  /\ i <= lead => a[i].type \in {"connect", "StartB"}
             /\ i > lead => a[i] = Event(b + i - lead) \/ (i = Len(a) /\ a[i].type = "bye")
  <2>1. CASE i \in 1 .. Len(q)
    BY <2>1, <1>1 DEF Wired, Has
  <2>2. CASE i = Len(q) + 1
    <3>1. b + i - lead = b + Len(q) - lead + 1
      BY <2>2, <1>1
    <3> QED
      BY <3>1, <2>2, <1>1
  <2> QED
    BY <2>1, <2>2, <1>1
<1>3. Wired(a, lead, b)
  BY <1>2 DEF Wired
<1> QED
  BY <1>3 DEF a

\* disconnect drops the end of what was to be sent and says bye (Leave).
LEMMA WiredCut ==
    ASSUME NEW q \in Seq(Messages), NEW lead \in 0 .. Len(q), NEW b \in Nat,
           Wired(q, lead, b), ~Has(q, "bye"), NEW k \in 0 .. Len(q), NEW g, NEW l,
           Due(q, g, l)
    PROVE  LET a == Append(SubSeq(q, 1, k), Msg("bye")) IN
           /\ a \in Seq(Messages)
           /\ \E x \in 0 .. Len(a) : Wired(a, x, b)
           /\ Due(a, g, l)
<1> DEFINE p == SubSeq(q, 1, k)
           a == Append(p, Msg("bye"))
           x == IF lead <= k THEN lead ELSE k
<1>1. p \in Seq(Messages) /\ Len(p) = k /\ \A i \in 1 .. k : p[i] = q[i]
  <2>1. \A i \in 1 .. k : q[i] \in Messages
    OBVIOUS
  <2>2. 1 \in Int /\ k \in Int
    OBVIOUS
  <2> HIDE DEF p
  <2>3. /\ p \in Seq(Messages)
        /\ Len(p) = IF 1 <= k THEN k - 1 + 1 ELSE 0
        /\ \A i \in 1 .. k - 1 + 1 : p[i] = q[1 + i - 1]
    BY <2>1, <2>2, SubSeqProperties DEF p
  <2> QED
    BY <2>3
<1> HIDE DEF p
<1>2. Msg("bye") \in Messages /\ Msg("bye").type = "bye"
  BY MessagesOK
<1>3. /\ a \in Seq(Messages) /\ Len(a) = k + 1 /\ a[k + 1] = Msg("bye")
      /\ \A i \in 1 .. k : a[i] = q[i]
  BY <1>1, <1>2, AppendProperties
<1> HIDE DEF a
<1>4. x \in 0 .. k
  OBVIOUS
<1>5. ASSUME NEW i \in 1 .. Len(a)
      PROVE  /\ i <= x => a[i].type \in {"connect", "StartB"}
             /\ i > x => a[i] = Event(b + i - x) \/ (i = Len(a) /\ a[i].type = "bye")
  <2>1. CASE i \in 1 .. k
    <3>1. i \in 1 .. Len(q) /\ a[i] = q[i] /\ q[i].type # "bye"
      BY <2>1, <1>3 DEF Has
    <3>2. /\ i <= x => i <= lead
          /\ i > x => i > lead /\ x = lead
      BY <2>1
    <3>3. /\ i <= lead => q[i].type \in {"connect", "StartB"}
          /\ i > lead => q[i] = Event(b + i - lead) \/ (i = Len(q) /\ q[i].type = "bye")
      BY <3>1, Zenon DEF Wired
    <3> HIDE DEF x
    <3> QED
      BY <3>1, <3>2, <3>3, Zenon
  <2>2. CASE i = k + 1
    BY <2>2, <1>2, <1>3, <1>4
  <2> QED
    BY <2>1, <2>2, <1>3
<1>6. Wired(a, x, b)
  BY <1>5 DEF Wired
<1>7. Due(a, g, l)
  <2>1. ASSUME NEW i \in 1 .. Len(a), a[i].type = "input"
        PROVE  a[i].nr <= g /\ a[i].nr <= l
    <3>1. i \in 1 .. k
      BY <2>1, <1>2, <1>3
    <3> QED
      BY <3>1, <2>1, <1>3 DEF Due
  <2> QED
    BY <2>1 DEF Due
<1>8. x \in 0 .. Len(a)
  BY <1>3, <1>4
<1> HIDE DEF x
<1> QED
  BY <1>3, <1>6, <1>7, <1>8 DEF a, p

\* A message at the end of a queue, and one less at its head.
LEMMA HasAppend ==
    ASSUME NEW q \in Seq(Messages), NEW m \in Messages, NEW t
    PROVE  Has(Append(q, m), t) <=> Has(q, t) \/ m.type = t
<1>1. /\ Len(Append(q, m)) = Len(q) + 1 /\ Append(q, m)[Len(q) + 1] = m
      /\ \A i \in 1 .. Len(q) : Append(q, m)[i] = q[i] /\ Len(q) \in Nat
  BY AppendProperties
<1>2. 1 .. Len(q) + 1 = (1 .. Len(q)) \cup {Len(q) + 1}
  OBVIOUS
<1> QED
  BY <1>1, <1>2, Zenon DEF Has

LEMMA HasTail ==
    ASSUME NEW q \in Seq(Messages), q # <<>>, NEW t
    PROVE  Has(q, t) <=> Head(q).type = t \/ Has(Tail(q), t)
<1>1. /\ Head(q) = q[1] /\ Len(Tail(q)) = Len(q) - 1 /\ Len(q) > 0 /\ Len(q) \in Nat
      /\ \A i \in 1 .. Len(Tail(q)) : Tail(q)[i] = q[i + 1]
  BY HeadTailProperties
<1>2. ASSUME NEW i \in 1 .. Len(q), i # 1
      PROVE  i - 1 \in 1 .. Len(Tail(q)) /\ q[i] = Tail(q)[i - 1]
  BY <1>1, <1>2
<1>3. ASSUME NEW i \in 1 .. Len(Tail(q))
      PROVE  i + 1 \in 1 .. Len(q) /\ q[i + 1] = Tail(q)[i]
  BY <1>1
<1>4. 1 \in 1 .. Len(q)
  BY <1>1
<1> QED
  BY <1>1, <1>2, <1>3, <1>4, Zenon DEF Has

\* The task takes the next event off its queue (TaskTakes).
LEMMA QueuedTail ==
    ASSUME NEW q \in Seq(Messages), q # <<>>, NEW n \in Nat, NEW g, NEW l,
           Queued(q, n, g, l), Head(q).type # "shutdown"
    PROVE  /\ Head(q) = Event(n + 1) /\ n + 1 <= g /\ n + 1 <= l
           /\ Queued(Tail(q), n + 1, g, l)
<1>1. /\ Head(q) = q[1] /\ Len(Tail(q)) = Len(q) - 1 /\ Len(q) > 0 /\ Len(q) \in Nat
      /\ \A i \in 1 .. Len(Tail(q)) : Tail(q)[i] = q[i + 1]
  BY HeadTailProperties
<1>2. Head(q) = Event(n + 1) /\ n + 1 <= g /\ n + 1 <= l
  <2>1. 1 \in 1 .. Len(q) /\ 1 .. 1 = {1}
    BY <1>1
  <2> QED
    BY <2>1, <1>1, Zenon DEF Queued
<1>3. ASSUME NEW i \in 1 .. Len(Tail(q))
      PROVE  \/ \E j \in 1 .. i : Tail(q)[j].type = "shutdown"
             \/ Tail(q)[i] = Event(n + 1 + i) /\ n + 1 + i <= g /\ n + 1 + i <= l
  <2>1. i + 1 \in 1 .. Len(q) /\ n + (i + 1) = n + 1 + i
    BY <1>1
  <2>2. CASE \E j \in 1 .. i + 1 : q[j].type = "shutdown"
    <3>1. PICK j \in 1 .. i + 1 : q[j].type = "shutdown"
      BY <2>2
    <3>2. j # 1
      BY <3>1, <1>1
    <3>3. j - 1 \in 1 .. i /\ Tail(q)[j - 1] = q[j]
      BY <3>2, <1>1
    <3> QED
      BY <3>1, <3>3
  <2>3. CASE q[i + 1] = Event(n + (i + 1)) /\ n + (i + 1) <= g /\ n + (i + 1) <= l
    BY <2>1, <2>3, <1>1, Zenon
  <2> QED
    BY <2>1, <2>2, <2>3, Zenon DEF Queued
<1>4. Queued(Tail(q), n + 1, g, l)
  BY <1>3, Zenon DEF Queued
<1> QED
  BY <1>2, <1>4

\* The input thread puts an event behind the queue: the next number, or behind a
\* shutdown (TypeEnd).
LEMMA QueuedAppend ==
    ASSUME NEW q \in Seq(Messages), NEW n \in Nat, NEW g \in Nat, NEW l \in Nat,
           Queued(q, n, g, l), Event(g + 1) \in Messages,
           Has(q, "shutdown") \/ (g = n + Len(q) /\ g + 1 <= l)
    PROVE  Queued(Append(q, Event(g + 1)), n, g + 1, l)
<1> DEFINE a == Append(q, Event(g + 1))
<1>1. /\ Len(a) = Len(q) + 1 /\ a[Len(q) + 1] = Event(g + 1) /\ Len(q) \in Nat
      /\ \A i \in 1 .. Len(q) : a[i] = q[i]
  BY AppendProperties
<1> HIDE DEF a
<1>2. ASSUME NEW i \in 1 .. Len(a)
      PROVE  \/ \E j \in 1 .. i : a[j].type = "shutdown"
             \/ a[i] = Event(n + i) /\ n + i <= g + 1 /\ n + i <= l
  <2>1. CASE i \in 1 .. Len(q)
    <3>1. CASE \E j \in 1 .. i : q[j].type = "shutdown"
      BY <3>1, <2>1, <1>1
    <3>2. CASE q[i] = Event(n + i) /\ n + i <= g /\ n + i <= l
      <4>1. n + i <= g + 1
        BY <3>2, <2>1
      <4> QED
        BY <4>1, <3>2, <2>1, <1>1, Zenon
    <3> QED
      BY <3>1, <3>2, <2>1, Zenon DEF Queued
  <2>2. CASE i = Len(q) + 1 /\ Has(q, "shutdown")
    BY <2>2, <1>1 DEF Has
  <2>3. CASE i = Len(q) + 1 /\ g = n + Len(q) /\ g + 1 <= l
    <3>1. n + i = g + 1 /\ n + i <= g + 1
      BY <2>3, <1>1
    <3> QED
      BY <3>1, <2>3, <1>1, Zenon
  <2> QED
    BY <2>1, <2>2, <2>3, <1>1
<1> QED
  BY <1>2, Zenon DEF Queued, a

\* The session is dropped: what is in the queue was given by then (DropCurrent).
LEMMA QueuedStop ==
    ASSUME NEW q \in Seq(Messages), NEW n \in Nat, NEW g, NEW l, Queued(q, n, g, l)
    PROVE  Queued(Append(q, Msg("shutdown")), n, g, g)
<1> DEFINE a == Append(q, Msg("shutdown"))
<1>1. Msg("shutdown") \in Messages /\ Msg("shutdown").type = "shutdown"
  BY MessagesOK
<1>2. /\ Len(a) = Len(q) + 1 /\ a[Len(q) + 1] = Msg("shutdown") /\ Len(q) \in Nat
      /\ \A i \in 1 .. Len(q) : a[i] = q[i]
  BY <1>1, AppendProperties
<1> HIDE DEF a
<1>3. ASSUME NEW i \in 1 .. Len(a)
      PROVE  \/ \E j \in 1 .. i : a[j].type = "shutdown"
             \/ a[i] = Event(n + i) /\ n + i <= g /\ n + i <= g
  <2>1. CASE i \in 1 .. Len(q)
    <3>1. CASE \E j \in 1 .. i : q[j].type = "shutdown"
      BY <3>1, <2>1, <1>2
    <3>2. CASE q[i] = Event(n + i) /\ n + i <= g /\ n + i <= l
      BY <3>2, <2>1, <1>2, Zenon
    <3> QED
      BY <3>1, <3>2, <2>1, Zenon DEF Queued
  <2>2. CASE i = Len(q) + 1
    BY <2>2, <1>1, <1>2
  <2> QED
    BY <2>1, <2>2, <1>2
<1> QED
  BY <1>3, Zenon DEF Queued, a

\* While the bound of the model leaves room, no single session is at it.
LEMMA GivenRoom ==
    ASSUME given \in [Sessions -> 0 .. MaxInputs], Given < MaxInputs, NEW s \in Sessions
    PROVE  given[s] < MaxInputs
<1> DEFINE T == {p \in Sessions \X (1 .. MaxInputs) : p[2] <= given[p[1]]}
           f == [n \in 1 .. MaxInputs |-> <<s, n>>]
<1>1. SUFFICES ASSUME given[s] = MaxInputs PROVE FALSE
  BY SessionAssumption
<1>2. IsFiniteSet(Sessions \X (1 .. MaxInputs))
  <2>1. IsFiniteSet(Sessions) /\ IsFiniteSet(1 .. MaxInputs)
    BY FS_Interval, SessionAssumption DEF Sessions
  <2> QED
    BY <2>1, FS_Product
<1>3. IsFiniteSet(T)
  BY <1>2, FS_Subset
<1>4. f \in Injection(1 .. MaxInputs, T)
  <2>1. ASSUME NEW n \in 1 .. MaxInputs PROVE f[n] \in T
    BY <1>1, SessionAssumption
  <2>2. f \in [1 .. MaxInputs -> T]
    BY <2>1
  <2>3. \A m, n \in 1 .. MaxInputs : f[m] = f[n] => m = n
    OBVIOUS
  <2> QED
    BY <2>2, <2>3 DEF Injection, IsInjective
<1>5. Cardinality(1 .. MaxInputs) <= Cardinality(T)
  BY <1>3, <1>4, FS_Injection
<1>6. Cardinality(1 .. MaxInputs) = MaxInputs
  BY FS_Interval, SessionAssumption
<1>7. Cardinality(T) \in Nat
  BY <1>3, FS_CardinalityType
<1> QED
  BY <1>5, <1>6, <1>7, SessionAssumption DEF Given

-----------------------------------------------------------------------------
(* The shape of the state.                                                 *)

\* What dropping the session in the slot does to the handle.
LEMMA StateDrop ==
    ASSUME StateOK, DropCurrent
    PROVE  alive' \in [Sessions -> BOOLEAN] /\ doomed' \subseteq Sessions
BY DEF StateOK, DropCurrent, handle

LEMMA StateStep == ASSUME StateOK, [Next]_vars PROVE StateOK'
<1> USE DEF StateOK, Phases, Opened, Wires
<1>1. ASSUME NEW s \in Sessions, Begin(s) PROVE StateOK'
  <2>1. DropCurrent
    BY <1>1 DEF Begin
  <2>2. alive' \in [Sessions -> BOOLEAN] /\ doomed' \subseteq Sessions
    BY <2>1, StateDrop
  <2>3. Asks(1) \in Wires
    BY StepsLen DEF Asks
  <2> HIDE DEF Wires
  <2>4. wire' \in [Sessions -> Wires] /\ phase' \in [Sessions -> Phases] /\ current' = None
    BY <1>1, <2>3 DEF Begin
  <2> QED
    BY <1>1, <2>2, <2>4 DEF Begin, input, enet, stream
<1>2. ASSUME NEW s \in Sessions, ReadInfo(s) PROVE StateOK'
  BY <1>2, StepsLen DEF ReadInfo, Answered, NextExchange, Asks, app, input, handle,
     enet, stream
<1>3. ASSUME NEW s \in Sessions, ReadLaunch(s) PROVE StateOK'
  BY <1>3, StepsLen DEF ReadLaunch, Answered, NextExchange, Asks, app, input,
     handle, enet, stream
<1>4. ASSUME NEW s \in Sessions, ReadSetup(s) PROVE StateOK'
  BY <1>4, StepsLen DEF ReadSetup, Answered, NextExchange, Asks, app, input, handle,
     enet, stream
<1>5. ASSUME NEW s \in Sessions, ReadPlay(s) PROVE StateOK'
  BY <1>5, StepsLen DEF ReadPlay, Answered, NoWire, input, handle, enet, stream
<1>6. ASSUME NEW s \in Sessions, ClientGivesUp(s) PROVE StateOK'
  BY <1>6, StepsLen DEF ClientGivesUp, NoWire, input, handle, enet, stream
<1>7. ASSUME NEW s \in Sessions, Connected(s) PROVE StateOK'
  BY <1>7, StepsLen DEF Connected, input, stream
<1>8. ASSUME NEW s \in Sessions, ConnectFails(s) PROVE StateOK'
  BY <1>8, StepsLen DEF ConnectFails, input, handle, enet, stream
<1>9. ASSUME NEW s \in Sessions, Store(s) PROVE StateOK'
  <2>1. DropCurrent
    BY <1>9 DEF Store
  <2>2. alive' \in [Sessions -> BOOLEAN] /\ doomed' \subseteq Sessions
    BY <2>1, StateDrop
  <2> QED
    BY <1>9, <2>2, StepsLen DEF Store, input, enet, stream
<1>10. ASSUME NEW s \in Sessions, TaskTakes(s) PROVE StateOK'
  BY <1>10, StepsLen DEF TaskTakes, app, input, stream
<1>11. ASSUME NEW s \in Sessions, TaskShutsDown(s) PROVE StateOK'
  BY <1>11, StepsLen DEF TaskShutsDown, Leave, app, input, stream
<1>12. ASSUME NEW s \in Sessions, TaskDisconnected(s) PROVE StateOK'
  BY <1>12, StepsLen DEF TaskDisconnected, Leave, app, input, stream
<1>13. ASSUME NEW s \in Sessions, TaskEnds(s) PROVE StateOK'
  BY <1>13, StepsLen DEF TaskEnds, Ended, app, input, enet, stream
<1>14. ASSUME NEW s \in Sessions, RuntimeDrops(s) PROVE StateOK'
  BY <1>14, StepsLen DEF RuntimeDrops, Ended, app, input, enet, stream
<1>15. ASSUME NEW s \in Sessions, HostInfo(s) PROVE StateOK'
  BY <1>15, StepsLen DEF HostInfo, Asked, Answer, Reply, NoWire, HostOnly, app,
     input, handle, enet, stream
<1>16. ASSUME NEW s \in Sessions, HostLaunch(s) PROVE StateOK'
  BY <1>16, StepsLen DEF HostLaunch, Asked, Answer, Reply, NoWire, HostOnly, app,
     input, handle, enet
<1>17. ASSUME NEW s \in Sessions, HostRefuses(s) PROVE StateOK'
  BY <1>17, StepsLen DEF HostRefuses, Reply, NoWire, HostOnly, app, input, handle,
     enet, stream
<1>18. ASSUME NEW s \in Sessions, HostNegotiates(s) PROVE StateOK'
  BY <1>18, StepsLen DEF HostNegotiates, Rtsp, Asked, Answer, Reply, NoWire,
     HostOnly, app, input, handle, enet, stream
<1>19. ASSUME NEW s \in Sessions, HostPlay(s) PROVE StateOK'
  BY <1>19, StepsLen DEF HostPlay, Rtsp, Asked, Answer, Reply, NoWire, HostOnly,
     app, input, handle, enet
<1>20. ASSUME NEW s \in Sessions, HostConnect(s) PROVE StateOK'
  BY <1>20, StepsLen DEF HostConnect, app, input, handle, stream
<1>21. ASSUME NEW s \in Sessions, HostStartB(s) PROVE StateOK'
  BY <1>21, StepsLen DEF HostStartB, Triggered, Received, app, input, handle
<1>22. ASSUME NEW s \in Sessions, HostInput(s) PROVE StateOK'
  BY <1>22, StepsLen DEF HostInput, Received, app, input, handle, stream
<1>23. ASSUME NEW s \in Sessions, HostBye(s) PROVE StateOK'
  BY <1>23, StepsLen DEF HostBye, Received, app, input, handle, stream
<1>24. ASSUME NEW s \in Sessions, LinkFails(s) PROVE StateOK'
  BY <1>24, StepsLen DEF LinkFails, app, input, handle, stream
<1>25. CASE Stop
  <2>1. DropCurrent
    BY <1>25 DEF Stop
  <2>2. alive' \in [Sessions -> BOOLEAN] /\ doomed' \subseteq Sessions
    BY <2>1, StateDrop
  <2> QED
    BY <1>25, <2>2, StepsLen DEF Stop, input, enet, stream
<1>26. CASE TypeBegin
  BY <1>26, StepsLen DEF TypeBegin, app, handle, enet, stream
<1>27. CASE TypeEnd
  BY <1>27, StepsLen DEF TypeEnd, app, enet, stream
<1>28. CASE HookStarts
  BY <1>28, StepsLen DEF HookStarts, HostOnly, app, input, handle, enet
<1>29. CASE HostRestart
  BY <1>29, StepsLen DEF HostRestart, HostStarts, NoWire, app, input, handle
<1>30. CASE UNCHANGED vars
  BY <1>30 DEF vars, app, input, handle, enet, stream
<1>31. ASSUME NEW s \in Sessions, StartBFails(s) PROVE StateOK'
  BY <1>31, StepsLen DEF StartBFails, input, handle, stream
<1>32. ASSUME NEW s \in Sessions, Publish(s) PROVE StateOK'
  BY <1>32, StepsLen DEF Publish, input, handle, enet, stream
<1> HIDE DEF StateOK, Phases, Wires
<1> QED
  BY <1>1, <1>2, <1>3, <1>4, <1>5, <1>6, <1>7, <1>8, <1>9, <1>10, <1>11, <1>12,
     <1>13, <1>14, <1>15, <1>16, <1>17, <1>18, <1>19, <1>20, <1>21, <1>22, <1>23,
     <1>24, <1>25, <1>26, <1>27, <1>28, <1>29, <1>30, <1>31, <1>32 DEF Next, Starting, Task,
     HostWeb, HostControl

\* Dropping the session in the slot adds one message to its queue.
LEMMA PipesDrop ==
    ASSUME StateOK, PipesOK, DropCurrent, UNCHANGED <<given, net, injected, typing>>
    PROVE  PipesOK'
<1>1. CASE current = None
  BY <1>1 DEF DropCurrent, handle, PipesOK
<1>2. CASE current # None
  <2>1. current \in Sessions
    BY <1>2 DEF StateOK
  <2>2. Queue(current, Msg("shutdown")) \in Seq(Messages)
    <3>1. outq[current] \in Seq(Messages) /\ Msg("shutdown") \in Messages
      BY <2>1, MessagesOK DEF PipesOK
    <3> QED
      BY <3>1, AppendProperties DEF Queue
  <2> QED
    BY <1>2, <2>1, <2>2 DEF DropCurrent, PipesOK
<1> QED
  BY <1>1, <1>2

\* The task that leaves keeps a part of what is on the connection.
LEMMA PipesLeave ==
    ASSUME PipesOK, NEW s \in Sessions, Leave(s)
    PROVE  net' \in [Sessions -> Seq(Messages)]
<1>1. CASE link[s] # "up"
  BY <1>1 DEF Leave, PipesOK
<1>2. CASE link[s] = "up"
  <2>1. PICK k \in 0 .. Len(net[s]) :
               net' = [net EXCEPT ![s] = Append(SubSeq(net[s], 1, k), Msg("bye"))]
    BY <1>2 DEF Leave
  <2>2. net[s] \in Seq(Messages) /\ Msg("bye") \in Messages
    BY MessagesOK DEF PipesOK
  <2>3. SubSeq(net[s], 1, k) \in Seq(Messages)
    <3>1. \A i \in 1 .. k : net[s][i] \in Messages
      BY <2>2
    <3> QED
      BY <3>1, SubSeqProperties
  <2>4. Append(SubSeq(net[s], 1, k), Msg("bye")) \in Seq(Messages)
    BY <2>2, <2>3, AppendProperties
  <2> QED
    BY <2>1, <2>4 DEF PipesOK
<1> QED
  BY <1>1, <1>2

LEMMA PipesStep == ASSUME StateOK, PipesOK, [Next]_vars PROVE PipesOK'
<1> USE DEF PipesOK
<1>1. ASSUME NEW s \in Sessions, Begin(s) PROVE PipesOK'
  <2>1. DropCurrent /\ UNCHANGED <<given, net, injected, typing>>
    BY <1>1 DEF Begin, input, enet
  <2> QED
    BY <2>1, PipesDrop
<1>2. ASSUME NEW s \in Sessions, Connected(s) PROVE PipesOK'
  <2>1. <<Msg("connect"), Msg("StartB")>> \in Seq(Messages)
    BY MessagesOK
  <2> QED
    BY <1>2, <2>1 DEF Connected, input
<1>3. ASSUME NEW s \in Sessions, Store(s) PROVE PipesOK'
  <2>1. DropCurrent /\ UNCHANGED <<given, net, injected, typing>>
    BY <1>3 DEF Store, input, enet
  <2> QED
    BY <2>1, PipesDrop
<1>4. ASSUME NEW s \in Sessions, TaskTakes(s) PROVE PipesOK'
  <2>1. outq[s] \in Seq(Messages) /\ outq[s] # <<>> /\ net[s] \in Seq(Messages)
    BY <1>4 DEF TaskTakes
  <2>2. Head(outq[s]) \in Messages /\ Tail(outq[s]) \in Seq(Messages)
    BY <2>1, HeadTailProperties
  <2>3. Append(net[s], Head(outq[s])) \in Seq(Messages)
    BY <2>1, <2>2, AppendProperties
  <2>4. net' = net \/ net' = [net EXCEPT ![s] = Append(net[s], Head(outq[s]))]
    BY <1>4 DEF TaskTakes, Carried
  <2>5. outq' = [outq EXCEPT ![s] = Tail(outq[s])]
        /\ UNCHANGED <<given, limit, injected, typing>>
    BY <1>4 DEF TaskTakes, input
  <2> QED
    BY <2>2, <2>3, <2>4, <2>5
<1>5. ASSUME NEW s \in Sessions, TaskShutsDown(s) PROVE PipesOK'
  <2>1. outq[s] \in Seq(Messages) /\ outq[s] # <<>>
    BY <1>5 DEF TaskShutsDown
  <2>2. Tail(outq[s]) \in Seq(Messages)
    BY <2>1, HeadTailProperties
  <2>3. net' \in [Sessions -> Seq(Messages)]
    BY <1>5, PipesLeave DEF TaskShutsDown
  <2>4. outq' = [outq EXCEPT ![s] = Tail(outq[s])]
        /\ UNCHANGED <<given, limit, injected, typing>>
    BY <1>5 DEF TaskShutsDown, Leave, input
  <2> QED
    BY <2>2, <2>3, <2>4
<1>6. ASSUME NEW s \in Sessions, TaskDisconnected(s) PROVE PipesOK'
  <2>1. net' \in [Sessions -> Seq(Messages)]
    BY <1>6, PipesLeave DEF TaskDisconnected
  <2>2. UNCHANGED <<outq, given, limit, injected, typing>>
    BY <1>6 DEF TaskDisconnected, Leave, input
  <2> QED
    BY <2>1, <2>2
<1>7. ASSUME NEW s \in Sessions, TaskEnds(s) PROVE PipesOK'
  BY <1>7, EmptySeq DEF TaskEnds, Ended, input, enet
<1>8. ASSUME NEW s \in Sessions, RuntimeDrops(s) PROVE PipesOK'
  BY <1>8, EmptySeq DEF RuntimeDrops, Ended, input, enet
<1>9. ASSUME NEW s \in Sessions, HostConnect(s) PROVE PipesOK'
  <2>1. net[s] # <<>> /\ net[s] \in Seq(Messages)
    BY <1>9 DEF HostConnect, Arrives
  <2>2. Tail(net[s]) \in Seq(Messages)
    BY <2>1, HeadTailProperties
  <2> QED
    BY <1>9, <2>2, EmptySeq DEF HostConnect, input, handle
<1>10. ASSUME NEW s \in Sessions, HostStartB(s) PROVE PipesOK'
  <2>1. net[s] # <<>> /\ net[s] \in Seq(Messages)
    BY <1>10 DEF HostStartB, Arrives
  <2>2. Tail(net[s]) \in Seq(Messages)
    BY <2>1, HeadTailProperties
  <2> QED
    BY <1>10, <2>2 DEF HostStartB, Received, input, handle
<1>11. ASSUME NEW s \in Sessions, HostInput(s) PROVE PipesOK'
  <2>1. net[s] # <<>> /\ net[s] \in Seq(Messages)
    BY <1>11 DEF HostInput, Arrives
  <2>2. Head(net[s]) \in Messages /\ Tail(net[s]) \in Seq(Messages)
    BY <2>1, HeadTailProperties
  <2>3. Append(injected[s], Head(net[s]).nr) \in Seq(Nat)
    BY <2>2, MessagesOK, AppendProperties
  <2>4. \/ injected' = injected
        \/ injected' = [injected EXCEPT ![s] = Append(injected[s], Head(net[s]).nr)]
    BY <1>11 DEF HostInput, inject
  <2>5. net' = [net EXCEPT ![s] = Tail(net[s])]
        /\ UNCHANGED <<given, limit, outq, typing>>
    BY <1>11 DEF HostInput, Received, input, handle
  <2> QED
    BY <2>2, <2>3, <2>4, <2>5
<1>12. ASSUME NEW s \in Sessions, HostBye(s) PROVE PipesOK'
  <2>1. net[s] # <<>> /\ net[s] \in Seq(Messages)
    BY <1>12 DEF HostBye, Arrives
  <2>2. Tail(net[s]) \in Seq(Messages)
    BY <2>1, HeadTailProperties
  <2> QED
    BY <1>12, <2>2 DEF HostBye, Received, input, handle
<1>13. ASSUME NEW s \in Sessions, LinkFails(s) PROVE PipesOK'
  BY <1>13, EmptySeq DEF LinkFails, input, handle
<1>14. CASE Stop
  <2>1. DropCurrent /\ UNCHANGED <<given, net, injected, typing>>
    BY <1>14 DEF Stop, input, enet
  <2> QED
    BY <2>1, PipesDrop
<1>15. CASE TypeBegin
  <2>1. control \in Sessions /\ typing' = control
    BY <1>15 DEF TypeBegin, StateOK
  <2>2. given[control] < MaxInputs
    BY <1>15, <2>1, GivenRoom DEF TypeBegin
  <2> QED
    BY <1>15, <2>1, <2>2 DEF TypeBegin, handle, enet
<1>16. CASE TypeEnd
  <2>1. typing \in Sessions /\ given[typing] \in 0 .. MaxInputs /\ given[typing] < MaxInputs
    BY <1>16 DEF TypeEnd, StateOK
  <2>2. given[typing] + 1 \in 0 .. MaxInputs /\ given[typing] + 1 \in 1 .. MaxInputs
    BY <2>1, SessionAssumption
  <2>3. Queue(typing, Event(given[typing] + 1)) \in Seq(Messages)
    <3>1. Event(given[typing] + 1) \in Messages
      BY <2>2, MessagesOK, Zenon
    <3>2. outq[typing] \in Seq(Messages)
      BY <2>1
    <3> QED
      BY <3>1, <3>2, AppendProperties DEF Queue
  <2>4. /\ given' = [given EXCEPT ![typing] = given[typing] + 1] /\ typing' = None
        /\ outq' = [outq EXCEPT ![typing] = Queue(typing, Event(given[typing] + 1))]
        /\ UNCHANGED <<limit, net, injected>>
    BY <1>16 DEF TypeEnd, enet
  <2> QED
    BY <2>1, <2>2, <2>3, <2>4
<1>17. CASE HostRestart
  BY <1>17, EmptySeq DEF HostRestart, input, handle
<1>18. CASE UNCHANGED <<given, limit, outq, net, injected, typing>>
  BY <1>18
<1>19. ASSUME NEW s \in Sessions, ReadInfo(s)
       PROVE  UNCHANGED <<given, limit, outq, net, injected, typing>>
  BY <1>19 DEF ReadInfo, Answered, NextExchange, Asks, app, input, handle, enet,
     stream
<1>20. ASSUME NEW s \in Sessions, ReadLaunch(s)
       PROVE  UNCHANGED <<given, limit, outq, net, injected, typing>>
  BY <1>20 DEF ReadLaunch, Answered, NextExchange, Asks, app, input, handle, enet,
     stream
<1>21. ASSUME NEW s \in Sessions, ReadSetup(s)
       PROVE  UNCHANGED <<given, limit, outq, net, injected, typing>>
  BY <1>21 DEF ReadSetup, Answered, NextExchange, Asks, app, input, handle, enet,
     stream
<1>22. ASSUME NEW s \in Sessions, ReadPlay(s)
       PROVE  UNCHANGED <<given, limit, outq, net, injected, typing>>
  BY <1>22 DEF ReadPlay, Answered, NoWire, input, handle, enet, stream
<1>23. ASSUME NEW s \in Sessions, ClientGivesUp(s)
       PROVE  UNCHANGED <<given, limit, outq, net, injected, typing>>
  BY <1>23 DEF ClientGivesUp, NoWire, input, handle, enet, stream
<1>24. ASSUME NEW s \in Sessions, ConnectFails(s)
       PROVE  UNCHANGED <<given, limit, outq, net, injected, typing>>
  BY <1>24 DEF ConnectFails, input, handle, enet, stream
<1>25. ASSUME NEW s \in Sessions, HostInfo(s)
       PROVE  UNCHANGED <<given, limit, outq, net, injected, typing>>
  BY <1>25 DEF HostInfo, Asked, Answer, Reply, NoWire, HostOnly, app, input, handle,
     enet, stream
<1>26. ASSUME NEW s \in Sessions, HostLaunch(s)
       PROVE  UNCHANGED <<given, limit, outq, net, injected, typing>>
  BY <1>26 DEF HostLaunch, Asked, Answer, Reply, NoWire, HostOnly, app, input,
     handle, enet
<1>27. ASSUME NEW s \in Sessions, HostRefuses(s)
       PROVE  UNCHANGED <<given, limit, outq, net, injected, typing>>
  BY <1>27 DEF HostRefuses, Reply, NoWire, HostOnly, app, input, handle, enet,
     stream
<1>28. ASSUME NEW s \in Sessions, HostNegotiates(s)
       PROVE  UNCHANGED <<given, limit, outq, net, injected, typing>>
  BY <1>28 DEF HostNegotiates, Rtsp, Asked, Answer, Reply, NoWire, HostOnly, app,
     input, handle, enet, stream
<1>29. ASSUME NEW s \in Sessions, HostPlay(s)
       PROVE  UNCHANGED <<given, limit, outq, net, injected, typing>>
  BY <1>29 DEF HostPlay, Rtsp, Asked, Answer, Reply, NoWire, HostOnly, app, input,
     handle, enet
<1>30. ASSUME HookStarts
       PROVE  UNCHANGED <<given, limit, outq, net, injected, typing>>
  BY <1>30 DEF HookStarts, HostOnly, app, input, handle, enet
<1>31. ASSUME UNCHANGED vars
       PROVE  UNCHANGED <<given, limit, outq, net, injected, typing>>
  BY <1>31 DEF vars, app, input, handle, enet, stream
<1>32. ASSUME NEW s \in Sessions, StartBFails(s) PROVE PipesOK'
  <2>1. {<<Msg("connect")>>, <<Msg("connect"), Msg("StartB")>>} \subseteq Seq(Messages)
    BY MessagesOK
  <2> QED
    BY <1>32, <2>1 DEF StartBFails, input, handle
<1>33. ASSUME NEW s \in Sessions, Publish(s) PROVE PipesOK'
  BY <1>33 DEF Publish, input, handle, enet
<1> HIDE DEF PipesOK
<1> QED
  BY <1>1, <1>2, <1>3, <1>4, <1>5, <1>6, <1>7, <1>8, <1>9, <1>10, <1>11, <1>12,
     <1>13, <1>14, <1>15, <1>16, <1>17, <1>18, <1>19, <1>20, <1>21, <1>22, <1>23,
     <1>24, <1>25, <1>26, <1>27, <1>28, <1>29, <1>30, <1>31, <1>32, <1>33 DEF Next, Starting,
     Task, HostWeb, HostControl

-----------------------------------------------------------------------------
(* Where a session stands.                                                 *)

\* Dropping the session in the slot touches that session only.
LEMMA PhaseDrop ==
    ASSUME StateOK, PipesOK, DropCurrent, NEW t \in Sessions
    PROVE  /\ t # current => /\ alive'[t] = alive[t] /\ outq'[t] = outq[t]
                             /\ limit'[t] = limit[t] /\ (t \in doomed' <=> t \in doomed)
           /\ t = current => /\ t \in doomed' /\ ~alive'[t] /\ limit'[t] = given[t]
                             /\ outq'[t] = Queue(t, Msg("shutdown"))
                             /\ task[t] = "running" => Has(outq'[t], "shutdown")
                             /\ Has(outq'[t], "bye") => Has(outq[t], "bye")
<1>1. CASE t # current
  BY <1>1 DEF DropCurrent, handle, StateOK, PipesOK
<1>2. CASE t = current
  <2>1. current # None
    BY <1>2, NoneIsNone
  <2>2. /\ t \in doomed' /\ ~alive'[t] /\ limit'[t] = given[t]
        /\ outq'[t] = Queue(t, Msg("shutdown"))
    BY <1>2, <2>1 DEF DropCurrent, StateOK, PipesOK
  <2>3. ASSUME task[t] = "running" PROVE Has(outq'[t], "shutdown")
    <3>1. outq'[t] = Append(outq[t], Msg("shutdown"))
      BY <2>2, <2>3 DEF Queue
    <3>2. outq[t] \in Seq(Messages) /\ Msg("shutdown") \in Messages
          /\ Msg("shutdown").type = "shutdown"
      BY MessagesOK DEF PipesOK
    <3> QED
      BY <3>1, <3>2, HasAppend
  <2>4. ASSUME Has(outq'[t], "bye") PROVE Has(outq[t], "bye")
    <3>1. outq'[t] = outq[t] \/ outq'[t] = Append(outq[t], Msg("shutdown"))
      BY <2>2 DEF Queue
    <3>2. outq[t] \in Seq(Messages) /\ Msg("shutdown") \in Messages
          /\ Msg("shutdown").type # "bye"
      BY MessagesOK DEF PipesOK
    <3> QED
      BY <2>4, <3>1, <3>2, HasAppend
  <2> QED
    BY <1>2, <2>2, <2>3, <2>4
<1> QED
  BY <1>1, <1>2

\* A task that leaves ends what the session may send; nothing else changes.
LEMMA PhaseLeave ==
    ASSUME StateOK, PipesOK, PhaseOK, NEW s \in Sessions, task[s] = "running", Leave(s),
           NEW t \in Sessions, outq' = [outq EXCEPT ![s] = outq'[s]],
           s \notin doomed => ~Has(outq'[s], "shutdown"), ~Has(outq'[s], "bye")
    PROVE  PhaseOf(t)'
<1>1. /\ \A x \in Sessions : PhaseOf(x)
      /\ UNCHANGED <<phase, wire, current, control, typing, given, doomed, limit, link,
                     peers, injected>>
      /\ task' = [task EXCEPT ![s] = "closing"] /\ alive' = [alive EXCEPT ![s] = FALSE]
      /\ net' = [net EXCEPT ![s] = net'[s]]
  BY DEF PhaseOK, Leave, app, input, PipesOK
<1>2. CASE t = s
  BY <1>1, <1>2 DEF PhaseOf, Fresh, Opened, StateOK, PipesOK
<1>3. CASE t # s
  BY <1>1, <1>3 DEF PhaseOf, Fresh, Opened, StateOK, PipesOK
<1> QED
  BY <1>2, <1>3

\* No queue holds anything when it is empty.
LEMMA HasNone == \A t : ~Has(<<>>, t)
BY EmptySeq DEF Has

LEMMA PhaseStep == ASSUME StateOK, PipesOK, PhaseOK, [Next]_vars PROVE PhaseOK'
<1> SUFFICES ASSUME NEW t \in Sessions PROVE PhaseOf(t)'
  BY DEF PhaseOK
<1>0. \A x \in Sessions : PhaseOf(x)
  BY DEF PhaseOK
<1> USE DEF PhaseOf, Fresh, Opened
<1>1. ASSUME NEW s \in Sessions, Begin(s) PROVE PhaseOf(t)'
  <2>1. DropCurrent /\ UNCHANGED <<given, task, link, net, peers, injected, typing, control>>
    BY <1>1 DEF Begin, input, enet
  <2>2. /\ t # current => /\ alive'[t] = alive[t] /\ outq'[t] = outq[t]
                          /\ limit'[t] = limit[t] /\ (t \in doomed' <=> t \in doomed)
        /\ t = current => /\ t \in doomed' /\ ~alive'[t]
                          /\ task[t] = "running" => Has(outq'[t], "shutdown")
                          /\ Has(outq'[t], "bye") => Has(outq[t], "bye")
    BY <2>1, PhaseDrop
  <2> QED
    BY <1>1, <1>0, <2>1, <2>2, NoneIsNone DEF Begin, Asks, StateOK
<1>2. ASSUME NEW s \in Sessions, ReadInfo(s) PROVE PhaseOf(t)'
  BY <1>2, <1>0 DEF ReadInfo, Answered, NextExchange, Asks, app, input, handle, enet,
     stream, StateOK
<1>3. ASSUME NEW s \in Sessions, ReadLaunch(s) PROVE PhaseOf(t)'
  BY <1>3, <1>0 DEF ReadLaunch, Answered, NextExchange, Asks, app, input, handle,
     enet, stream, StateOK
<1>4. ASSUME NEW s \in Sessions, ReadSetup(s) PROVE PhaseOf(t)'
  BY <1>4, <1>0 DEF ReadSetup, Answered, NextExchange, Asks, app, input, handle, enet,
     stream, StateOK
<1>5. ASSUME NEW s \in Sessions, ReadPlay(s) PROVE PhaseOf(t)'
  BY <1>5, <1>0 DEF ReadPlay, Answered, NoWire, input, handle, enet, stream, StateOK
<1>6. ASSUME NEW s \in Sessions, ClientGivesUp(s) PROVE PhaseOf(t)'
  BY <1>6, <1>0 DEF ClientGivesUp, NoWire, input, handle, enet, stream, StateOK
<1>7. ASSUME NEW s \in Sessions, Connected(s) PROVE PhaseOf(t)'
  <2>1. ~Has(<<Msg("connect"), Msg("StartB")>>, "bye")
    BY MessagesOK DEF Has
  <2> QED
    BY <1>7, <1>0, <2>1 DEF Connected, StateOK, PipesOK, input, stream
<1>8. ASSUME NEW s \in Sessions, ConnectFails(s) PROVE PhaseOf(t)'
  BY <1>8, <1>0 DEF ConnectFails, input, handle, enet, stream, StateOK
<1>9. ASSUME NEW s \in Sessions, Store(s) PROVE PhaseOf(t)'
  <2>1. DropCurrent /\ UNCHANGED <<given, task, link, net, peers, injected, typing, control>>
    BY <1>9 DEF Store, input, enet
  <2>2. /\ t # current => /\ alive'[t] = alive[t] /\ outq'[t] = outq[t]
                          /\ limit'[t] = limit[t] /\ (t \in doomed' <=> t \in doomed)
        /\ t = current => /\ t \in doomed' /\ ~alive'[t]
                          /\ task[t] = "running" => Has(outq'[t], "shutdown")
                          /\ Has(outq'[t], "bye") => Has(outq[t], "bye")
    BY <2>1, PhaseDrop
  <2> QED
    BY <1>9, <1>0, <2>1, <2>2, NoneIsNone DEF Store, StateOK
<1>10. ASSUME NEW s \in Sessions, TaskTakes(s) PROVE PhaseOf(t)'
  <2>1. outq[s] \in Seq(Messages) /\ outq[s] # <<>> /\ net[s] \in Seq(Messages)
    BY <1>10 DEF TaskTakes, PipesOK
  <2>2. Head(outq[s]) \in Messages
    BY <2>1, HeadTailProperties
  <2>3. /\ Has(Tail(outq[s]), "shutdown") <=> Has(outq[s], "shutdown")
        /\ Has(outq[s], "bye") <=> Head(outq[s]).type = "bye" \/ Has(Tail(outq[s]), "bye")
    BY <1>10, <2>1, HasTail DEF TaskTakes
  <2>4. ~Has(outq[s], "bye") /\ ~Has(net[s], "bye")
    BY <1>10, <1>0 DEF TaskTakes
  <2>5. ~Has(Append(net[s], Head(outq[s])), "bye")
    BY <2>1, <2>2, <2>3, <2>4, HasAppend
  <2>6. net' = net \/ net' = [net EXCEPT ![s] = Append(net[s], Head(outq[s]))]
    BY <1>10 DEF TaskTakes, Carried
  <2>7. /\ outq' = [outq EXCEPT ![s] = Tail(outq[s])] /\ task[s] = "running"
        /\ UNCHANGED <<phase, wire, task, link, alive, doomed, injected, given, current,
                       control, typing, peers, limit>>
    BY <1>10 DEF TaskTakes, app, input
  <2> QED
    BY <1>0, <2>3, <2>4, <2>5, <2>6, <2>7 DEF PipesOK
<1>11. ASSUME NEW s \in Sessions, TaskShutsDown(s) PROVE PhaseOf(t)'
  <2>1. outq[s] \in Seq(Messages) /\ outq[s] # <<>> /\ task[s] = "running" /\ Leave(s)
    BY <1>11 DEF TaskShutsDown, PipesOK
  <2>2. /\ Has(Tail(outq[s]), "shutdown") => Has(outq[s], "shutdown")
        /\ Has(Tail(outq[s]), "bye") => Has(outq[s], "bye")
    BY <2>1, HasTail
  <2>3. outq' = [outq EXCEPT ![s] = outq'[s]] /\ outq'[s] = Tail(outq[s])
    BY <1>11 DEF TaskShutsDown, PipesOK
  <2>4. (s \notin doomed => ~Has(outq'[s], "shutdown")) /\ ~Has(outq'[s], "bye")
    BY <1>0, <2>2, <2>3
  <2> QED
    BY <2>1, <2>3, <2>4, PhaseLeave
<1>12. ASSUME NEW s \in Sessions, TaskDisconnected(s) PROVE PhaseOf(t)'
  <2>1. task[s] = "running" /\ Leave(s) /\ outq' = outq
    BY <1>12 DEF TaskDisconnected
  <2>2. outq' = [outq EXCEPT ![s] = outq'[s]]
    BY <2>1 DEF PipesOK
  <2>3. (s \notin doomed => ~Has(outq'[s], "shutdown")) /\ ~Has(outq'[s], "bye")
    BY <1>0, <2>1
  <2> QED
    BY <2>1, <2>2, <2>3, PhaseLeave
<1>13. ASSUME NEW s \in Sessions, TaskEnds(s) PROVE PhaseOf(t)'
  BY <1>13, <1>0, HasNone DEF TaskEnds, Ended, app, input, enet, StateOK, PipesOK
<1>14. ASSUME NEW s \in Sessions, RuntimeDrops(s) PROVE PhaseOf(t)'
  BY <1>14, <1>0, HasNone DEF RuntimeDrops, Ended, app, input, enet, StateOK, PipesOK
<1>15. ASSUME NEW s \in Sessions, HostInfo(s) PROVE PhaseOf(t)'
  BY <1>15, <1>0 DEF HostInfo, Asked, Answer, Reply, NoWire, HostOnly, app, input,
     handle, enet, stream, StateOK
<1>16. ASSUME NEW s \in Sessions, HostLaunch(s) PROVE PhaseOf(t)'
  BY <1>16, <1>0 DEF HostLaunch, Asked, Answer, Reply, NoWire, HostOnly, app, input,
     handle, enet, StateOK
<1>17. ASSUME NEW s \in Sessions, HostRefuses(s) PROVE PhaseOf(t)'
  BY <1>17, <1>0 DEF HostRefuses, Reply, NoWire, HostOnly, app, input, handle, enet,
     stream, StateOK
<1>18. ASSUME NEW s \in Sessions, HostNegotiates(s) PROVE PhaseOf(t)'
  BY <1>18, <1>0 DEF HostNegotiates, Rtsp, Asked, Answer, Reply, NoWire, HostOnly,
     app, input, handle, enet, stream, StateOK
<1>19. ASSUME NEW s \in Sessions, HostPlay(s) PROVE PhaseOf(t)'
  BY <1>19, <1>0 DEF HostPlay, Rtsp, Asked, Answer, Reply, NoWire, HostOnly, app,
     input, handle, enet, StateOK
<1>20. ASSUME NEW s \in Sessions, HostConnect(s) PROVE PhaseOf(t)'
  <2>1. net[s] # <<>> /\ net[s] \in Seq(Messages)
    BY <1>20 DEF HostConnect, Arrives, PipesOK
  <2>2. Has(Tail(net[s]), "bye") => Has(net[s], "bye")
    BY <2>1, HasTail
  <2>3. /\ peers' = {s}
        /\ link' = [r \in Sessions |-> IF r \in peers \ {s} THEN "cut" ELSE link[r]]
        /\ net' = [r \in Sessions |-> IF r = s THEN Tail(net[r])
                                      ELSE IF r \in peers THEN <<>> ELSE net[r]]
        /\ UNCHANGED <<phase, wire, task, alive, doomed, outq, injected, given, current,
                       control, typing, limit>>
    BY <1>20 DEF HostConnect, app, input, handle
  <2> QED
    BY <1>0, <2>1, <2>2, <2>3, HasNone DEF PipesOK
<1>21. ASSUME NEW s \in Sessions, HostStartB(s) PROVE PhaseOf(t)'
  <2>1. net[s] # <<>> /\ net[s] \in Seq(Messages)
    BY <1>21 DEF HostStartB, Arrives, PipesOK
  <2>2. Has(Tail(net[s]), "bye") => Has(net[s], "bye")
    BY <2>1, HasTail
  <2>3. /\ net' = [net EXCEPT ![s] = Tail(net[s])]
        /\ injected' = [injected EXCEPT ![s] = injected'[s]]
        /\ UNCHANGED <<phase, wire, task, link, alive, doomed, outq, given, current,
                       control, typing, peers, limit>>
    BY <1>21 DEF HostStartB, Received, inject, app, input, handle, PipesOK
  <2> QED
    BY <1>0, <2>1, <2>2, <2>3 DEF PipesOK
<1>22. ASSUME NEW s \in Sessions, HostInput(s) PROVE PhaseOf(t)'
  <2>1. net[s] # <<>> /\ net[s] \in Seq(Messages)
    BY <1>22 DEF HostInput, Arrives, PipesOK
  <2>2. Has(Tail(net[s]), "bye") => Has(net[s], "bye")
    BY <2>1, HasTail
  <2>3. /\ net' = [net EXCEPT ![s] = Tail(net[s])]
        /\ injected' = [injected EXCEPT ![s] = injected'[s]]
        /\ UNCHANGED <<phase, wire, task, link, alive, doomed, outq, given, current,
                       control, typing, peers, limit>>
    BY <1>22 DEF HostInput, Received, inject, app, input, handle, PipesOK
  <2> QED
    BY <1>0, <2>1, <2>2, <2>3 DEF PipesOK
<1>23. ASSUME NEW s \in Sessions, HostBye(s) PROVE PhaseOf(t)'
  <2>1. net[s] # <<>> /\ net[s] \in Seq(Messages)
    BY <1>23 DEF HostBye, Arrives, PipesOK
  <2>2. Has(Tail(net[s]), "bye") => Has(net[s], "bye")
    BY <2>1, HasTail
  <2>3. /\ net' = [net EXCEPT ![s] = Tail(net[s])] /\ link' = [link EXCEPT ![s] = "cut"]
        /\ peers' = peers \ {s}
        /\ UNCHANGED <<phase, wire, task, alive, doomed, outq, injected, given, current,
                       control, typing, limit>>
    BY <1>23 DEF HostBye, Received, app, input, handle
  <2> QED
    BY <1>0, <2>1, <2>2, <2>3 DEF StateOK, PipesOK
<1>24. ASSUME NEW s \in Sessions, LinkFails(s) PROVE PhaseOf(t)'
  BY <1>24, <1>0, HasNone DEF LinkFails, app, input, handle, StateOK, PipesOK
<1>25. CASE Stop
  <2>1. DropCurrent /\ UNCHANGED <<given, task, link, net, peers, injected, typing, control>>
    BY <1>25 DEF Stop, input, enet
  <2>2. /\ t # current => /\ alive'[t] = alive[t] /\ outq'[t] = outq[t]
                          /\ limit'[t] = limit[t] /\ (t \in doomed' <=> t \in doomed)
        /\ t = current => /\ t \in doomed' /\ ~alive'[t]
                          /\ task[t] = "running" => Has(outq'[t], "shutdown")
                          /\ Has(outq'[t], "bye") => Has(outq[t], "bye")
    BY <2>1, PhaseDrop
  <2> QED
    BY <1>25, <1>0, <2>1, <2>2, NoneIsNone DEF Stop, StateOK
<1>26. CASE TypeBegin
  BY <1>26, <1>0 DEF TypeBegin, app, handle, enet
<1>27. CASE TypeEnd
  <2>1. /\ typing \in Sessions /\ given[typing] \in 0 .. MaxInputs
        /\ given[typing] < MaxInputs
    BY <1>27 DEF TypeEnd, StateOK, PipesOK
  <2> DEFINE m == Event(given[typing] + 1)
  <2>2. m \in Messages /\ m.type = "input"
    <3>1. given[typing] + 1 \in 1 .. MaxInputs /\ given[typing] + 1 \in Int
      BY <2>1, SessionAssumption
    <3> QED
      BY <3>1, MessagesOK, Zenon
  <2> HIDE DEF m
  <2>3. /\ outq' = [outq EXCEPT ![typing] = Queue(typing, m)]
        /\ given' = [given EXCEPT ![typing] = given[typing] + 1] /\ typing' = None
        /\ UNCHANGED <<phase, wire, task, link, alive, doomed, net, injected, current,
                       control, peers, limit>>
    BY <1>27 DEF TypeEnd, app, enet, m
  <2>4. \A x \in {"bye", "shutdown"} : Has(Queue(typing, m), x) <=> Has(outq[typing], x)
    <3>1. outq[typing] \in Seq(Messages)
      BY <2>1 DEF PipesOK
    <3> QED
      BY <3>1, <2>2, HasAppend DEF Queue
  <2> QED
    BY <1>0, <2>1, <2>3, <2>4, NoneIsNone DEF PipesOK
<1>28. CASE HostRestart
  BY <1>28, <1>0, HasNone DEF HostRestart, HostStarts, NoWire, app, input, handle,
     StateOK, PipesOK
<1>29. CASE UNCHANGED <<phase, wire, task, link, alive, doomed, net, outq, injected,
                      given, current, control, typing, peers, limit>>
  BY <1>29, <1>0
<1>30. ASSUME HookStarts
       PROVE  UNCHANGED <<phase, wire, task, link, alive, doomed, net, outq, injected,
                          given, current, control, typing, peers, limit>>
  BY <1>30 DEF HookStarts, HostOnly, app, input, handle, enet
<1>31. ASSUME UNCHANGED vars
       PROVE  UNCHANGED <<phase, wire, task, link, alive, doomed, net, outq, injected,
                          given, current, control, typing, peers, limit>>
  BY <1>31 DEF vars, app, input, handle, enet, stream
<1>32. ASSUME NEW s \in Sessions, StartBFails(s) PROVE PhaseOf(t)'
  BY <1>32, <1>0 DEF StartBFails, StateOK, PipesOK, input, handle, stream
<1>33. ASSUME NEW s \in Sessions, Publish(s) PROVE PhaseOf(t)'
  BY <1>33, <1>0 DEF Publish, StateOK, input, handle, enet, stream
<1> HIDE DEF PhaseOf
<1> QED
  BY <1>1, <1>2, <1>3, <1>4, <1>5, <1>6, <1>7, <1>8, <1>9, <1>10, <1>11, <1>12,
     <1>13, <1>14, <1>15, <1>16, <1>17, <1>18, <1>19, <1>20, <1>21, <1>22, <1>23,
     <1>24, <1>25, <1>26, <1>27, <1>28, <1>29, <1>30, <1>31, <1>32, <1>33 DEF Next, Starting,
     Task, HostWeb, HostControl

-----------------------------------------------------------------------------
(* One numbering from the thread that types to the host.                   *)

\* A step that does not touch a session's pipes.
LEMMA PipeKept ==
    ASSUME NEW t \in Sessions, PipeOf(t), key' = t => key = t,
           net'[t] = net[t], injected'[t] = injected[t], given'[t] = given[t],
           limit'[t] = limit[t], outq'[t] = outq[t], task'[t] = task[t],
           link'[t] = link[t], t \in doomed' <=> t \in doomed
    PROVE  PipeOf(t)'
<1> SUFFICES ASSUME key' = t PROVE \E lead \in 0 .. Len(net'[t]) : Numbered(t, lead)'
  BY DEF PipeOf
<1>1. PICK lead \in 0 .. Len(net[t]) : Numbered(t, lead)
  BY DEF PipeOf
<1>2. Numbered(t, lead)'
  BY <1>1, Zenon DEF Numbered, Sending
<1> QED
  BY <1>1, <1>2

\* A session with nothing on its connection and nobody who sends.
LEMMA PipeIdle ==
    ASSUME NEW t \in Sessions, net'[t] = <<>>, ~(task'[t] = "running" /\ link'[t] = "up")
    PROVE  PipeOf(t)'
<1>1. Wired(net'[t], 0, Len(injected'[t])) /\ Due(net'[t], given'[t], limit'[t])
  BY EmptySeq DEF Wired, Due
<1>2. 0 \in 0 .. Len(net'[t])
  BY EmptySeq
<1>3. Numbered(t, 0)'
  BY <1>1 DEF Numbered, Sending
<1> QED
  BY <1>2, <1>3 DEF PipeOf

\* The host takes one of the messages that start a connection.
LEMMA PipeStarts ==
    ASSUME PipesOK, NEW t \in Sessions, PipeOf(t), key' = t => key = t,
           net[t] # <<>>, Head(net[t]).type \in {"connect", "StartB"},
           net'[t] = Tail(net[t]), injected'[t] = injected[t], given'[t] = given[t],
           limit'[t] = limit[t], outq'[t] = outq[t], task'[t] = task[t],
           link'[t] = link[t], t \in doomed' <=> t \in doomed
    PROVE  PipeOf(t)'
<1> SUFFICES ASSUME key' = t PROVE \E lead \in 0 .. Len(net'[t]) : Numbered(t, lead)'
  BY DEF PipeOf
<1>1. PICK lead \in 0 .. Len(net[t]) : Numbered(t, lead)
  BY DEF PipeOf
<1>2. net[t] \in Seq(Messages) /\ injected[t] \in Seq(Nat) /\ Len(injected[t]) \in Nat
  BY DEF PipesOK
<1>3. lead > 0 /\ Wired(Tail(net[t]), lead - 1, Len(injected[t]))
  BY <1>1, <1>2, WiredTail DEF Numbered
<1>4. /\ Len(Tail(net[t])) = Len(net[t]) - 1 /\ Len(net[t]) \in Nat
      /\ \A i \in 1 .. Len(Tail(net[t])) : Tail(net[t])[i] = net[t][i + 1]
  BY <1>2, HeadTailProperties
<1>5. Due(Tail(net[t]), given[t], limit[t])
  BY <1>1, <1>4 DEF Numbered, Due
<1>6. Len(injected[t]) + Len(Tail(net[t])) - (lead - 1) = Len(injected[t]) + Len(net[t]) - lead
  <2> DEFINE b == Len(injected[t])
             m == Len(net[t])
             k == Len(Tail(net[t]))
  <2>1. b \in Int /\ m \in Int /\ k = m - 1 /\ lead \in Int
    BY <1>2, <1>4
  <2> HIDE DEF b, m, k
  <2>2. b + k - (lead - 1) = b + m - lead
    BY <2>1
  <2> QED
    BY <2>2 DEF b, m, k
<1>7. Numbered(t, lead - 1)'
  BY <1>1, <1>3, <1>5, <1>6, Zenon DEF Numbered, Sending
<1>8. lead - 1 \in 0 .. Len(net'[t])
  BY <1>3, <1>4
<1> QED
  BY <1>7, <1>8

\* The session in the slot is dropped: from here on its limit is what it was
\* given, and a shutdown follows what is in its queue.
LEMMA PipeDrop ==
    ASSUME StateOK, PipesOK, PhaseOK, PipeOK, DropCurrent, NEW t \in Sessions,
           UNCHANGED <<key, net, injected, given, task, link>>
    PROVE  PipeOf(t)'
<1>0. PipeOf(t) /\ PhaseOf(t)
  BY DEF PipeOK, PhaseOK
<1>1. CASE t # current
  <2>1. /\ outq'[t] = outq[t] /\ limit'[t] = limit[t] /\ (t \in doomed' <=> t \in doomed)
    BY <1>1, PhaseDrop
  <2> QED
    BY <1>0, <2>1, PipeKept
<1>2. CASE t = current
  <2>1. t \in doomed' /\ limit'[t] = given[t] /\ outq'[t] = Queue(t, Msg("shutdown"))
    BY <1>2, PhaseDrop
  <2> SUFFICES ASSUME key = t PROVE \E lead \in 0 .. Len(net[t]) : Numbered(t, lead)'
    BY DEF PipeOf
  <2>2. PICK lead \in 0 .. Len(net[t]) : Numbered(t, lead)
    BY <1>0 DEF PipeOf
  <2>3. /\ net[t] \in Seq(Messages) /\ Len(injected[t]) \in Nat /\ outq[t] \in Seq(Messages)
        /\ Len(net[t]) \in Nat
    BY DEF PipesOK
  <2>4. Due(net[t], given[t], given[t])
    BY <2>2, Zenon DEF Numbered, Due
  <2>5. ASSUME task[t] = "running", link[t] = "up"
        PROVE  Queued(outq'[t], Len(injected[t]) + Len(net[t]) - lead, given[t], given[t])
    <3>1. Len(injected[t]) + Len(net[t]) - lead \in Nat
      <4>1. \A b, m \in Nat : \A l \in 0 .. m : b + m - l \in Nat
        OBVIOUS
      <4> QED
        BY <2>3, <4>1, Zenon
    <3>2. Queued(outq[t], Len(injected[t]) + Len(net[t]) - lead, given[t], limit[t])
      BY <2>2, <2>5 DEF Numbered, Sending
    <3>3. outq'[t] = Append(outq[t], Msg("shutdown"))
      BY <2>1, <2>5 DEF Queue
    <3> QED
      BY <2>3, <3>1, <3>2, <3>3, QueuedStop
  <2>6. Numbered(t, lead)'
    BY <2>1, <2>2, <2>4, <2>5, Zenon DEF Numbered, Sending
  <2> QED
    BY <2>2, <2>6
<1> QED
  BY <1>1, <1>2

\* The task leaves: what is still sent is the start of what was to be sent.
LEMMA PipeLeave ==
    ASSUME PipesOK, PhaseOK, PipeOK, NEW s \in Sessions, task[s] = "running", Leave(s),
           task \in [Sessions -> {"none", "running", "closing", "ended"}]
    PROVE  PipeOf(s)'
<1>1. /\ UNCHANGED <<key, injected, given, limit>> /\ task'[s] = "closing"
      /\ PipeOf(s) /\ ~Has(net[s], "bye")
  BY DEF Leave, stream, input, PipeOK, PhaseOK, PhaseOf
<1> SUFFICES ASSUME key = s PROVE \E lead \in 0 .. Len(net'[s]) : Numbered(s, lead)'
  BY <1>1 DEF PipeOf
<1>2. PICK lead \in 0 .. Len(net[s]) : Numbered(s, lead)
  BY <1>1 DEF PipeOf
<1>3. net[s] \in Seq(Messages) /\ Len(injected[s]) \in Nat
  BY DEF PipesOK
<1>4. CASE link[s] # "up"
  <2>1. net' = net
    BY <1>4 DEF Leave
  <2>2. Numbered(s, lead)'
    BY <1>1, <1>2, <2>1, Zenon DEF Numbered, Sending
  <2> QED
    BY <2>1, <2>2
<1>5. CASE link[s] = "up"
  <2>1. PICK k \in 0 .. Len(net[s]) :
               net' = [net EXCEPT ![s] = Append(SubSeq(net[s], 1, k), Msg("bye"))]
    BY <1>5 DEF Leave
  <2> DEFINE a == Append(SubSeq(net[s], 1, k), Msg("bye"))
  <2>2. net'[s] = a
    BY <2>1 DEF PipesOK
  <2>3. /\ \E x \in 0 .. Len(a) : Wired(a, x, Len(injected[s]))
        /\ Due(a, given[s], limit[s])
    BY <1>1, <1>2, <1>3, WiredCut DEF Numbered
  <2> HIDE DEF a
  <2>4. PICK x \in 0 .. Len(a) : Wired(a, x, Len(injected[s]))
    BY <2>3
  <2>5. Numbered(s, x)'
    BY <1>1, <2>2, <2>3, <2>4, Zenon DEF Numbered, Sending
  <2> QED
    BY <2>2, <2>4, <2>5
<1> QED
  BY <1>4, <1>5

\* The task sends the next event of its queue.
LEMMA PipeTakes ==
    ASSUME PipesOK, PhaseOK, PipeOK, NEW s \in Sessions, TaskTakes(s)
    PROVE  PipeOf(s)'
<1>1. /\ UNCHANGED <<key, injected, given, limit, doomed, task, link>> /\ task[s] = "running"
      /\ outq'[s] = Tail(outq[s]) /\ outq[s] # <<>> /\ Head(outq[s]).type # "shutdown"
      /\ PipeOf(s) /\ ~Has(net[s], "bye")
  BY DEF TaskTakes, stream, input, PipeOK, PhaseOK, PhaseOf, PipesOK
<1> SUFFICES ASSUME key = s PROVE \E lead \in 0 .. Len(net'[s]) : Numbered(s, lead)'
  BY <1>1 DEF PipeOf
<1>2. PICK lead \in 0 .. Len(net[s]) : Numbered(s, lead)
  BY <1>1 DEF PipeOf
<1>3. /\ net[s] \in Seq(Messages) /\ Len(injected[s]) \in Nat /\ outq[s] \in Seq(Messages)
      /\ Len(net[s]) \in Nat
  BY DEF PipesOK
<1>4. CASE link[s] # "up"
  <2>1. net' = net
    BY <1>4 DEF TaskTakes
  <2>2. Numbered(s, lead)'
    BY <1>1, <1>2, <1>4, <2>1, Zenon DEF Numbered, Sending
  <2> QED
    BY <2>1, <2>2
<1>5. CASE link[s] = "up"
  <2> DEFINE n == Len(injected[s]) + Len(net[s]) - lead
             m == Head(outq[s])
             a == Append(net[s], m)
  <2>1. n \in Nat
    <3>1. \A b, k \in Nat : \A l \in 0 .. k : b + k - l \in Nat
      OBVIOUS
    <3> QED
      BY <1>3, <3>1, Zenon
  <2>2. Queued(outq[s], n, given[s], limit[s]) /\ (s \notin doomed => given[s] = n + Len(outq[s]))
    BY <1>1, <1>2, <1>5 DEF Numbered, Sending
  <2>3. net'[s] = a
    BY <1>5 DEF TaskTakes, Carried, PipesOK
  <2> HIDE DEF n
  <2>4. m = Event(n + 1) /\ n + 1 <= given[s] /\ n + 1 <= limit[s]
        /\ Queued(Tail(outq[s]), n + 1, given[s], limit[s])
    BY <1>1, <1>3, <2>1, <2>2, QueuedTail
  <2>5. m \in Messages /\ Len(Tail(outq[s])) = Len(outq[s]) - 1 /\ Len(outq[s]) \in Nat
    BY <1>1, <1>3, HeadTailProperties
  <2> HIDE DEF m
  <2>6. Wired(a, lead, Len(injected[s]))
    <3>1. m = Event(Len(injected[s]) + Len(net[s]) - lead + 1)
      BY <2>4 DEF n
    <3> QED
      BY <1>1, <1>2, <1>3, <2>5, <3>1, WiredAppend DEF Numbered
  <2>7. /\ Len(a) = Len(net[s]) + 1 /\ a[Len(net[s]) + 1] = m
        /\ \A i \in 1 .. Len(net[s]) : a[i] = net[s][i]
    BY <1>3, <2>5, AppendProperties
  <2> HIDE DEF a
  <2>8. Due(a, given[s], limit[s])
    <3>1. m.nr = n + 1
      <4>1. n + 1 \in Int
        BY <2>1
      <4> QED
        BY <2>4, <4>1, MessagesOK, Zenon
    <3>2. Due(net[s], given[s], limit[s])
      BY <1>2 DEF Numbered
    <3>3. ASSUME NEW i \in 1 .. Len(a), a[i].type = "input"
          PROVE  a[i].nr <= given[s] /\ a[i].nr <= limit[s]
      <4>1. CASE i \in 1 .. Len(net[s])
        BY <4>1, <3>2, <3>3, <2>7, Zenon DEF Due
      <4>2. CASE i = Len(net[s]) + 1
        BY <4>2, <3>1, <2>4, <2>7
      <4> QED
        BY <4>1, <4>2, <2>7, <1>3
    <3> QED
      BY <3>3, Zenon DEF Due
  <2>9. Len(injected[s]) + Len(a) - lead = n + 1
    <3>1. \A b, k, c, l \in Int : k = c + 1 => b + k - l = b + c - l + 1
      OBVIOUS
    <3>2. Len(injected[s]) \in Int /\ Len(net[s]) \in Int /\ lead \in Int
          /\ Len(a) \in Int
      BY <1>3, <2>7
    <3>3. Len(a) = Len(net[s]) + 1
      BY <2>7
    <3>4. Len(injected[s]) + Len(a) - lead = Len(injected[s]) + Len(net[s]) - lead + 1
      BY <3>1, <3>2, <3>3, ZenonT(30)
    <3> QED
      BY <3>4 DEF n
  <2>10. s \notin doomed => given[s] = n + 1 + Len(Tail(outq[s]))
    <3>1. \A b, c \in Int : b + c = b + 1 + (c - 1)
      OBVIOUS
    <3>2. n \in Int /\ Len(outq[s]) \in Int
      BY <2>1, <2>5
    <3> QED
      BY <3>1, <3>2, <2>2, <2>5, Zenon
  <2>11. Numbered(s, lead)'
    BY <1>1, <2>3, <2>4, <2>6, <2>8, <2>9, <2>10, Zenon DEF Numbered, Sending
  <2>12. lead \in 0 .. Len(net'[s])
    BY <1>3, <2>3, <2>7
  <2> QED
    BY <2>11, <2>12
<1> QED
  BY <1>4, <1>5

\* The event the host injects is the next in number, it was typed, and it was
\* typed before the session was dropped.
LEMMA InputIsNext ==
    ASSUME PipesOK, PipeOK, NEW s \in Sessions, HostInput(s), key = s
    PROVE  /\ Head(net[s]).nr = Len(injected[s]) + 1
           /\ Head(net[s]).nr <= given[s] /\ Head(net[s]).nr <= limit[s]
           /\ injected' = [injected EXCEPT ![s] = Append(injected[s], Len(injected[s]) + 1)]
<1>1. PICK lead \in 0 .. Len(net[s]) : Numbered(s, lead)
  BY DEF PipeOK, PipeOf
<1>2. /\ net[s] \in Seq(Messages) /\ Len(injected[s]) \in Nat /\ Len(net[s]) \in Nat
      /\ net[s] # <<>> /\ Head(net[s]).type = "input"
  BY DEF PipesOK, HostInput, Arrives
<1>3. Head(net[s]) = Event(Len(injected[s]) + 1)
  BY <1>1, <1>2, WiredTail DEF Numbered
<1>4. Head(net[s]).nr = Len(injected[s]) + 1
  <2>1. Len(injected[s]) + 1 \in Int
    BY <1>2
  <2> QED
    BY <2>1, <1>3, MessagesOK, Zenon
<1>5. Head(net[s]).nr <= given[s] /\ Head(net[s]).nr <= limit[s]
  <2>1. 1 \in 1 .. Len(net[s]) /\ Head(net[s]) = net[s][1]
    BY <1>2, EmptySeq
  <2> QED
    BY <2>1, <1>1, <1>2, Zenon DEF Numbered, Due
<1>6. injected' = [injected EXCEPT ![s] = Append(injected[s], Len(injected[s]) + 1)]
  BY <1>4 DEF HostInput, Decrypts, inject
<1> QED
  BY <1>4, <1>5, <1>6

LEMMA PipeInput ==
    ASSUME PipesOK, PipeOK, NEW s \in Sessions, HostInput(s)
    PROVE  PipeOf(s)'
<1>1. /\ UNCHANGED <<key, given, limit, outq, doomed, task, link>>
      /\ net'[s] = Tail(net[s]) /\ net[s] # <<>> /\ Head(net[s]).type = "input"
  BY DEF HostInput, Received, Arrives, stream, input, handle, PipesOK
<1> SUFFICES ASSUME key = s PROVE \E lead \in 0 .. Len(net'[s]) : Numbered(s, lead)'
  BY <1>1 DEF PipeOf
<1>2. PICK lead \in 0 .. Len(net[s]) : Numbered(s, lead)
  BY DEF PipeOK, PipeOf
<1>3. /\ net[s] \in Seq(Messages) /\ Len(injected[s]) \in Nat
      /\ Len(net[s]) \in Nat /\ injected[s] \in Seq(Nat)
  BY DEF PipesOK
<1>4. lead = 0 /\ Wired(Tail(net[s]), 0, Len(injected[s]) + 1)
  BY <1>1, <1>2, <1>3, WiredTail DEF Numbered
<1>5. Len(injected'[s]) = Len(injected[s]) + 1
  <2>1. injected'[s] = Append(injected[s], Len(injected[s]) + 1)
    BY InputIsNext DEF PipesOK
  <2> QED
    BY <1>3, <2>1, AppendProperties
<1>6. /\ Len(Tail(net[s])) = Len(net[s]) - 1
      /\ \A i \in 1 .. Len(Tail(net[s])) : Tail(net[s])[i] = net[s][i + 1]
  BY <1>1, <1>3, HeadTailProperties
<1>7. Due(Tail(net[s]), given[s], limit[s])
  BY <1>2, <1>3, <1>6 DEF Numbered, Due
<1>8. Len(injected'[s]) + Len(Tail(net[s])) - 0 = Len(injected[s]) + Len(net[s]) - lead
  <2> DEFINE b == Len(injected[s])
             c == Len(injected'[s])
             m == Len(net[s])
             k == Len(Tail(net[s]))
  <2>1. b \in Int /\ m \in Int /\ k = m - 1 /\ c = b + 1 /\ lead = 0
    BY <1>3, <1>4, <1>5, <1>6
  <2> HIDE DEF b, c, m, k
  <2>2. c + k - 0 = b + m - lead
    BY <2>1
  <2> QED
    BY <2>2 DEF b, c, m, k
<1>9. Numbered(s, 0)'
  BY <1>1, <1>2, <1>4, <1>5, <1>7, <1>8, Zenon DEF Numbered, Sending
<1>10. 0 \in 0 .. Len(net'[s])
  BY <1>1, <1>3, <1>6, EmptySeq
<1> QED
  BY <1>9, <1>10

\* The input thread puts the next event into the queue; behind a shutdown it
\* goes nowhere.
LEMMA PipeType ==
    ASSUME StateOK, PipesOK, PhaseOK, PipeOK, TypeEnd, NEW s \in Sessions, s = typing
    PROVE  PipeOf(s)'
<1>1. /\ UNCHANGED <<key, net, injected, limit, doomed, task, link>>
      /\ given'[s] = given[s] + 1 /\ outq'[s] = Queue(s, Event(given[s] + 1))
  BY DEF TypeEnd, enet, stream, PipesOK
<1> SUFFICES ASSUME key = s PROVE \E lead \in 0 .. Len(net[s]) : Numbered(s, lead)'
  BY <1>1 DEF PipeOf
<1>2. PICK lead \in 0 .. Len(net[s]) : Numbered(s, lead)
  BY DEF PipeOK, PipeOf
<1>3. /\ net[s] \in Seq(Messages) /\ Len(injected[s]) \in Nat /\ outq[s] \in Seq(Messages)
      /\ Len(net[s]) \in Nat /\ given[s] \in Nat /\ limit[s] \in Nat
      /\ given[s] < MaxInputs
  BY SessionAssumption, NoneIsNone DEF PipesOK
<1>4. Due(net[s], given[s] + 1, limit[s])
  <2>1. ASSUME NEW i \in 1 .. Len(net[s]), net[s][i].type = "input"
        PROVE  net[s][i].nr <= given[s] + 1 /\ net[s][i].nr <= limit[s]
    <3>1. net[s][i].nr \in Nat
      <4>1. net[s][i] \in Messages
        BY <1>3
      <4> QED
        BY <4>1, MessagesOK
    <3>2. net[s][i].nr <= given[s] /\ net[s][i].nr <= limit[s]
      BY <2>1, <1>2, Zenon DEF Numbered, Due
    <3> QED
      BY <3>1, <3>2, <1>3
  <2> QED
    BY <2>1, Zenon DEF Due
<1> DEFINE n == Len(injected[s]) + Len(net[s]) - lead
<1>5. ASSUME task[s] = "running", link[s] = "up"
      PROVE  /\ Queued(outq'[s], n, given[s] + 1, limit[s])
             /\ s \notin doomed => given[s] + 1 = n + Len(outq'[s])
  <2>1. n \in Nat
    <3>1. \A b, m \in Nat : \A l \in 0 .. m : b + m - l \in Nat
      OBVIOUS
    <3> QED
      BY <1>3, <3>1, Zenon
  <2>2. /\ Queued(outq[s], n, given[s], limit[s])
        /\ s \notin doomed => given[s] = n + Len(outq[s])
    BY <1>2, <1>5 DEF Numbered, Sending
  <2> HIDE DEF n
  <2>3. outq'[s] = Append(outq[s], Event(given[s] + 1))
    BY <1>1, <1>5 DEF Queue
  <2>4. Event(given[s] + 1) \in Messages
    <3>1. given[s] + 1 \in 1 .. MaxInputs
      BY <1>3, SessionAssumption
    <3> QED
      BY <3>1, MessagesOK, Zenon
  <2>5. Len(outq'[s]) = Len(outq[s]) + 1 /\ Len(outq[s]) \in Nat
    BY <1>3, <2>3, <2>4, AppendProperties
  <2>6. PhaseOf(s)
    BY DEF PhaseOK
  <2>7. Has(outq[s], "shutdown") \/ (given[s] = n + Len(outq[s]) /\ given[s] + 1 <= limit[s])
    <3>1. CASE s \in doomed
      BY <3>1, <1>5, <2>6 DEF PhaseOf
    <3>2. CASE s \notin doomed
      <4>1. limit[s] = MaxInputs
        BY <3>2, <2>6 DEF PhaseOf
      <4>2. given[s] + 1 <= limit[s]
        BY <4>1, <1>3, SessionAssumption
      <4> QED
        BY <3>2, <4>2, <2>2
    <3> QED
      BY <3>1, <3>2
  <2>8. Queued(outq'[s], n, given[s] + 1, limit[s])
    BY <1>3, <2>1, <2>2, <2>3, <2>4, <2>7, QueuedAppend
  <2>9. s \notin doomed => given[s] + 1 = n + Len(outq'[s])
    BY <1>3, <2>1, <2>2, <2>5
  <2> QED
    BY <2>8, <2>9
<1>6. Numbered(s, lead)'
  BY <1>1, <1>2, <1>4, <1>5, Zenon DEF Numbered, Sending
<1> QED
  BY <1>6

\* A new connection begins with the messages that start it and no event, and no
\* event is in the queue.
LEMMA PipeOpened ==
    ASSUME PipesOK, NEW s \in Sessions, Fresh(s),
           NEW q \in {<<Msg("connect")>>, <<Msg("connect"), Msg("StartB")>>},
           net'[s] = q, UNCHANGED <<outq, injected, given>>
    PROVE  PipeOf(s)'
<1> DEFINE n == Len(q)
<1>1. /\ n \in Nat
      /\ \A i \in 1 .. n : q[i].type \in {"connect", "StartB"} /\ i <= n /\ ~(i > n)
  <2>1. CASE q = <<Msg("connect")>>
    BY <2>1, MessagesOK
  <2>2. CASE q = <<Msg("connect"), Msg("StartB")>>
    BY <2>2, MessagesOK
  <2> QED
    BY <2>1, <2>2
<1> HIDE DEF n
<1>2. Wired(q, n, Len(injected'[s])) /\ Due(q, given'[s], limit'[s])
  BY <1>1 DEF Wired, Due, n
<1>3. Len(injected'[s]) + Len(q) - n = 0 /\ Len(outq'[s]) = 0 /\ given'[s] = 0
  BY <1>1, EmptySeq DEF Fresh, n
<1>4. Queued(outq'[s], 0, given'[s], limit'[s]) /\ given'[s] = 0 + Len(outq'[s])
  BY <1>3 DEF Queued
<1>5. Numbered(s, n)'
  BY <1>2, <1>3, <1>4, Zenon DEF Numbered, Sending
<1>6. n \in 0 .. Len(net'[s])
  BY <1>1 DEF n
<1> QED
  BY <1>5, <1>6 DEF PipeOf

LEMMA PipeStep ==
    ASSUME StateOK, PipesOK, PhaseOK, PipeOK, [Next]_vars
    PROVE  PipeOK'
<1> SUFFICES ASSUME NEW t \in Sessions PROVE PipeOf(t)'
  BY DEF PipeOK
<1>0. PipeOf(t) /\ PhaseOf(t)
  BY DEF PipeOK, PhaseOK
<1>1. ASSUME NEW s \in Sessions, Begin(s) PROVE PipeOf(t)'
  <2>1. DropCurrent /\ UNCHANGED <<key, net, injected, given, task, link>>
    BY <1>1 DEF Begin, input, enet, stream
  <2> QED
    BY <2>1, PipeDrop
<1>2. ASSUME NEW s \in Sessions, Connected(s) PROVE PipeOf(t)'
  <2>1. CASE t # s
    <3>1. /\ key' = t => key = t
          /\ net'[t] = net[t] /\ injected'[t] = injected[t] /\ given'[t] = given[t]
          /\ limit'[t] = limit[t] /\ outq'[t] = outq[t] /\ task'[t] = task[t]
          /\ link'[t] = link[t] /\ (t \in doomed' <=> t \in doomed)
      BY <1>2, <2>1 DEF Connected, input, stream, StateOK, PipesOK
    <3> QED
      BY <1>0, <3>1, PipeKept
  <2>2. CASE t = s
    <3>1. /\ net'[s] = <<Msg("connect"), Msg("StartB")>> /\ Fresh(s)
          /\ UNCHANGED <<outq, injected, given>>
      BY <1>2, <1>0, <2>2 DEF Connected, input, PipesOK, PhaseOf, Opened
    <3> QED
      BY <2>2, <3>1, PipeOpened
  <2> QED
    BY <2>1, <2>2
<1>3. ASSUME NEW s \in Sessions, Store(s) PROVE PipeOf(t)'
  <2>1. DropCurrent /\ UNCHANGED <<key, net, injected, given, task, link>>
    BY <1>3 DEF Store, input, enet, stream
  <2> QED
    BY <2>1, PipeDrop
<1>4. ASSUME NEW s \in Sessions, TaskTakes(s) PROVE PipeOf(t)'
  <2>1. CASE t # s
    <3>1. /\ key' = t => key = t
          /\ net'[t] = net[t] /\ injected'[t] = injected[t] /\ given'[t] = given[t]
          /\ limit'[t] = limit[t] /\ outq'[t] = outq[t] /\ task'[t] = task[t]
          /\ link'[t] = link[t] /\ (t \in doomed' <=> t \in doomed)
      BY <1>4, <2>1 DEF TaskTakes, Carried, input, stream, StateOK, PipesOK
    <3> QED
      BY <1>0, <3>1, PipeKept
  <2>2. CASE t = s
    BY <1>4, <2>2, PipeTakes
  <2> QED
    BY <2>1, <2>2
<1>5. ASSUME NEW s \in Sessions, TaskShutsDown(s) PROVE PipeOf(t)'
  <2>1. CASE t # s
    <3>1. /\ key' = t => key = t
          /\ net'[t] = net[t] /\ injected'[t] = injected[t] /\ given'[t] = given[t]
          /\ limit'[t] = limit[t] /\ outq'[t] = outq[t] /\ task'[t] = task[t]
          /\ link'[t] = link[t] /\ (t \in doomed' <=> t \in doomed)
      BY <1>5, <2>1 DEF TaskShutsDown, Leave, input, stream, StateOK, PipesOK
    <3> QED
      BY <1>0, <3>1, PipeKept
  <2>2. CASE t = s
    BY <1>5, <2>2, PipeLeave DEF TaskShutsDown, StateOK
  <2> QED
    BY <2>1, <2>2
<1>6. ASSUME NEW s \in Sessions, TaskDisconnected(s) PROVE PipeOf(t)'
  <2>1. CASE t # s
    <3>1. /\ key' = t => key = t
          /\ net'[t] = net[t] /\ injected'[t] = injected[t] /\ given'[t] = given[t]
          /\ limit'[t] = limit[t] /\ outq'[t] = outq[t] /\ task'[t] = task[t]
          /\ link'[t] = link[t] /\ (t \in doomed' <=> t \in doomed)
      BY <1>6, <2>1 DEF TaskDisconnected, Leave, input, stream, StateOK, PipesOK
    <3> QED
      BY <1>0, <3>1, PipeKept
  <2>2. CASE t = s
    BY <1>6, <2>2, PipeLeave DEF TaskDisconnected, StateOK
  <2> QED
    BY <2>1, <2>2
<1>7. ASSUME NEW s \in Sessions, TaskEnds(s) PROVE PipeOf(t)'
  <2>1. CASE t # s
    <3>1. /\ key' = t => key = t
          /\ net'[t] = net[t] /\ injected'[t] = injected[t] /\ given'[t] = given[t]
          /\ limit'[t] = limit[t] /\ outq'[t] = outq[t] /\ task'[t] = task[t]
          /\ link'[t] = link[t] /\ (t \in doomed' <=> t \in doomed)
      BY <1>7, <2>1 DEF TaskEnds, Ended, input, enet, stream, StateOK, PipesOK
    <3> QED
      BY <1>0, <3>1, PipeKept
  <2>2. CASE t = s
    <3>1. /\ UNCHANGED <<key, net, injected, given, limit>> /\ task'[s] = "ended"
      BY <1>7 DEF TaskEnds, Ended, input, enet, stream, StateOK
    <3> SUFFICES ASSUME key = s PROVE \E lead \in 0 .. Len(net[s]) : Numbered(s, lead)'
      BY <2>2, <3>1 DEF PipeOf
    <3>2. PICK lead \in 0 .. Len(net[s]) : Numbered(s, lead)
      BY <1>0, <2>2 DEF PipeOf
    <3>3. Numbered(s, lead)'
      BY <3>1, <3>2, Zenon DEF Numbered, Sending
    <3> QED
      BY <3>3
  <2> QED
    BY <2>1, <2>2
<1>8. ASSUME NEW s \in Sessions, RuntimeDrops(s) PROVE PipeOf(t)'
  <2>1. CASE t # s
    <3>1. /\ key' = t => key = t
          /\ net'[t] = net[t] /\ injected'[t] = injected[t] /\ given'[t] = given[t]
          /\ limit'[t] = limit[t] /\ outq'[t] = outq[t] /\ task'[t] = task[t]
          /\ link'[t] = link[t] /\ (t \in doomed' <=> t \in doomed)
      BY <1>8, <2>1 DEF RuntimeDrops, Ended, input, enet, stream, StateOK, PipesOK
    <3> QED
      BY <1>0, <3>1, PipeKept
  <2>2. CASE t = s
    <3>1. /\ UNCHANGED <<key, net, injected, given, limit>> /\ task'[s] = "ended"
      BY <1>8 DEF RuntimeDrops, Ended, input, enet, stream, StateOK
    <3> SUFFICES ASSUME key = s PROVE \E lead \in 0 .. Len(net[s]) : Numbered(s, lead)'
      BY <2>2, <3>1 DEF PipeOf
    <3>2. PICK lead \in 0 .. Len(net[s]) : Numbered(s, lead)
      BY <1>0, <2>2 DEF PipeOf
    <3>3. Numbered(s, lead)'
      BY <3>1, <3>2, Zenon DEF Numbered, Sending
    <3> QED
      BY <3>3
  <2> QED
    BY <2>1, <2>2
<1>9. ASSUME NEW s \in Sessions, HostLaunch(s) PROVE PipeOf(t)'
  <2>1. CASE t # s
    <3>1. /\ key' = t => key = t
          /\ net'[t] = net[t] /\ injected'[t] = injected[t] /\ given'[t] = given[t]
          /\ limit'[t] = limit[t] /\ outq'[t] = outq[t] /\ task'[t] = task[t]
          /\ link'[t] = link[t] /\ (t \in doomed' <=> t \in doomed)
      BY <1>9, <2>1 DEF HostLaunch, HostOnly, input, handle, enet
    <3> QED
      BY <1>0, <3>1, PipeKept
  <2>2. CASE t = s
    <3>1. /\ UNCHANGED <<net, task>> /\ Fresh(s)
      BY <1>9, <1>0, <2>2 DEF HostLaunch, HostOnly, Asked, enet, PhaseOf, Opened
    <3> QED
      BY <2>2, <3>1, PipeIdle DEF Fresh
  <2> QED
    BY <2>1, <2>2
<1>10. ASSUME NEW s \in Sessions, HostConnect(s) PROVE PipeOf(t)'
  <2>1. CASE t = s
    <3>1. /\ net[s] # <<>> /\ Head(net[s]).type \in {"connect", "StartB"}
          /\ net'[s] = Tail(net[s]) /\ link'[s] = link[s]
          /\ UNCHANGED <<key, injected, given, limit, outq, task, doomed>>
      BY <1>10 DEF HostConnect, Arrives, input, handle, stream, StateOK, PipesOK
    <3> QED
      BY <1>0, <2>1, <3>1, PipeStarts
  <2>2. CASE t # s /\ t \in peers
    BY <1>10, <2>2, PipeIdle DEF HostConnect
  <2>3. CASE t # s /\ t \notin peers
    <3>1. /\ net'[t] = net[t] /\ link'[t] = link[t]
          /\ UNCHANGED <<key, injected, given, limit, outq, task, doomed>>
      BY <1>10, <2>3 DEF HostConnect, input, handle, stream
    <3> QED
      BY <1>0, <3>1, PipeKept
  <2> QED
    BY <2>1, <2>2, <2>3
<1>11. ASSUME NEW s \in Sessions, HostStartB(s) PROVE PipeOf(t)'
  <2>1. CASE t # s
    <3>1. /\ key' = t => key = t
          /\ net'[t] = net[t] /\ injected'[t] = injected[t] /\ given'[t] = given[t]
          /\ limit'[t] = limit[t] /\ outq'[t] = outq[t] /\ task'[t] = task[t]
          /\ link'[t] = link[t] /\ (t \in doomed' <=> t \in doomed)
      BY <1>11, <2>1 DEF HostStartB, Received, input, handle, StateOK, PipesOK
    <3> QED
      BY <1>0, <3>1, PipeKept
  <2>2. CASE t = s
    <3>1. /\ net[s] # <<>> /\ Head(net[s]).type \in {"connect", "StartB"}
          /\ net'[s] = Tail(net[s]) /\ link'[s] = link[s]
          /\ UNCHANGED <<key, injected, given, limit, outq, task, doomed>>
      BY <1>11 DEF HostStartB, Received, Arrives, input, handle, stream, StateOK, PipesOK
    <3> QED
      BY <1>0, <2>2, <3>1, PipeStarts
  <2> QED
    BY <2>1, <2>2
<1>12. ASSUME NEW s \in Sessions, HostInput(s) PROVE PipeOf(t)'
  <2>1. CASE t # s
    <3>1. /\ key' = t => key = t
          /\ net'[t] = net[t] /\ injected'[t] = injected[t] /\ given'[t] = given[t]
          /\ limit'[t] = limit[t] /\ outq'[t] = outq[t] /\ task'[t] = task[t]
          /\ link'[t] = link[t] /\ (t \in doomed' <=> t \in doomed)
      BY <1>12, <2>1 DEF HostInput, Received, inject, input, handle, stream, StateOK,
         PipesOK
    <3> QED
      BY <1>0, <3>1, PipeKept
  <2>2. CASE t = s
    BY <1>12, <2>2, PipeInput
  <2> QED
    BY <2>1, <2>2
<1>13. ASSUME NEW s \in Sessions, HostBye(s) PROVE PipeOf(t)'
  <2>1. CASE t # s
    <3>1. /\ key' = t => key = t
          /\ net'[t] = net[t] /\ injected'[t] = injected[t] /\ given'[t] = given[t]
          /\ limit'[t] = limit[t] /\ outq'[t] = outq[t] /\ task'[t] = task[t]
          /\ link'[t] = link[t] /\ (t \in doomed' <=> t \in doomed)
      BY <1>13, <2>1 DEF HostBye, Received, input, handle, stream, StateOK, PipesOK
    <3> QED
      BY <1>0, <3>1, PipeKept
  <2>2. CASE t = s
    <3>1. /\ net'[s] = Tail(net[s]) /\ link'[s] = "cut" /\ net[s] # <<>>
          /\ Head(net[s]).type = "bye" /\ key' = key /\ injected' = injected
      BY <1>13 DEF HostBye, Received, Arrives, stream, StateOK, PipesOK
    <3>2. CASE key = s
      <4>1. PICK lead \in 0 .. Len(net[s]) : Numbered(s, lead)
        BY <1>0, <2>2, <3>2 DEF PipeOf
      <4>2. net[s] \in Seq(Messages) /\ Len(injected[s]) \in Nat
        BY DEF PipesOK
      <4>3. net'[s] = <<>>
        BY <3>1, <4>1, <4>2, WiredTail DEF Numbered
      <4> QED
        BY <2>2, <3>1, <4>3, PipeIdle
    <3>3. CASE key # s
      BY <2>2, <3>1, <3>3 DEF PipeOf
    <3> QED
      BY <3>2, <3>3
  <2> QED
    BY <2>1, <2>2
<1>14. ASSUME NEW s \in Sessions, LinkFails(s) PROVE PipeOf(t)'
  <2>1. CASE t # s
    <3>1. /\ key' = t => key = t
          /\ net'[t] = net[t] /\ injected'[t] = injected[t] /\ given'[t] = given[t]
          /\ limit'[t] = limit[t] /\ outq'[t] = outq[t] /\ task'[t] = task[t]
          /\ link'[t] = link[t] /\ (t \in doomed' <=> t \in doomed)
      BY <1>14, <2>1 DEF LinkFails, input, handle, stream, StateOK, PipesOK
    <3> QED
      BY <1>0, <3>1, PipeKept
  <2>2. CASE t = s
    <3>1. net'[s] = <<>> /\ link'[s] = "cut"
      BY <1>14 DEF LinkFails, StateOK, PipesOK
    <3> QED
      BY <2>2, <3>1, PipeIdle
  <2> QED
    BY <2>1, <2>2
<1>15. CASE Stop
  <2>1. DropCurrent /\ UNCHANGED <<key, net, injected, given, task, link>>
    BY <1>15 DEF Stop, input, enet, stream
  <2> QED
    BY <2>1, PipeDrop
<1>16. CASE TypeEnd
  <2>1. CASE t # typing
    <3>1. /\ given'[t] = given[t] /\ outq'[t] = outq[t]
          /\ UNCHANGED <<key, net, injected, limit, task, link, doomed>>
      BY <1>16, <2>1 DEF TypeEnd, enet, stream, PipesOK
    <3> QED
      BY <1>0, <3>1, PipeKept
  <2>2. CASE t = typing
    BY <1>16, <2>2, PipeType
  <2> QED
    BY <2>1, <2>2
<1>17. CASE HostRestart
  BY <1>17, NoneIsNone DEF HostRestart, HostStarts, PipeOf
<1>18. CASE UNCHANGED <<key, net, injected, given, limit, outq, doomed, task, link>>
  BY <1>18, <1>0, PipeKept
<1>19. ASSUME NEW s \in Sessions, ReadInfo(s)
       PROVE  UNCHANGED <<key, net, injected, given, limit, outq, doomed, task, link>>
  BY <1>19 DEF ReadInfo, Answered, NextExchange, Asks, app, input, handle, enet,
     stream
<1>20. ASSUME NEW s \in Sessions, ReadLaunch(s)
       PROVE  UNCHANGED <<key, net, injected, given, limit, outq, doomed, task, link>>
  BY <1>20 DEF ReadLaunch, Answered, NextExchange, Asks, app, input, handle, enet,
     stream
<1>21. ASSUME NEW s \in Sessions, ReadSetup(s)
       PROVE  UNCHANGED <<key, net, injected, given, limit, outq, doomed, task, link>>
  BY <1>21 DEF ReadSetup, Answered, NextExchange, Asks, app, input, handle, enet,
     stream
<1>22. ASSUME NEW s \in Sessions, ReadPlay(s)
       PROVE  UNCHANGED <<key, net, injected, given, limit, outq, doomed, task, link>>
  BY <1>22 DEF ReadPlay, Answered, NoWire, input, handle, enet, stream
<1>23. ASSUME NEW s \in Sessions, ClientGivesUp(s)
       PROVE  UNCHANGED <<key, net, injected, given, limit, outq, doomed, task, link>>
  BY <1>23 DEF ClientGivesUp, NoWire, input, handle, enet, stream
<1>24. ASSUME NEW s \in Sessions, ConnectFails(s)
       PROVE  UNCHANGED <<key, net, injected, given, limit, outq, doomed, task, link>>
  BY <1>24 DEF ConnectFails, input, handle, enet, stream
<1>25. ASSUME NEW s \in Sessions, HostInfo(s)
       PROVE  UNCHANGED <<key, net, injected, given, limit, outq, doomed, task, link>>
  BY <1>25 DEF HostInfo, Asked, Answer, Reply, NoWire, HostOnly, app, input, handle,
     enet, stream
<1>26. ASSUME NEW s \in Sessions, HostRefuses(s)
       PROVE  UNCHANGED <<key, net, injected, given, limit, outq, doomed, task, link>>
  BY <1>26 DEF HostRefuses, Reply, NoWire, HostOnly, app, input, handle, enet,
     stream
<1>27. ASSUME NEW s \in Sessions, HostNegotiates(s)
       PROVE  UNCHANGED <<key, net, injected, given, limit, outq, doomed, task, link>>
  BY <1>27 DEF HostNegotiates, Rtsp, Asked, Answer, Reply, NoWire, HostOnly, app,
     input, handle, enet, stream
<1>28. ASSUME NEW s \in Sessions, HostPlay(s)
       PROVE  UNCHANGED <<key, net, injected, given, limit, outq, doomed, task, link>>
  BY <1>28 DEF HostPlay, Rtsp, Asked, Answer, Reply, NoWire, HostOnly, app, input,
     handle, enet
<1>29. ASSUME HookStarts
       PROVE  UNCHANGED <<key, net, injected, given, limit, outq, doomed, task, link>>
  BY <1>29 DEF HookStarts, HostOnly, app, input, handle, enet
<1>30. ASSUME TypeBegin
       PROVE  UNCHANGED <<key, net, injected, given, limit, outq, doomed, task, link>>
  BY <1>30 DEF TypeBegin, app, handle, enet, stream
<1>31. ASSUME UNCHANGED vars
       PROVE  UNCHANGED <<key, net, injected, given, limit, outq, doomed, task, link>>
  BY <1>31 DEF vars, app, input, handle, enet, stream
<1>32. ASSUME NEW s \in Sessions, StartBFails(s) PROVE PipeOf(t)'
  <2>1. CASE t # s
    <3>1. /\ key' = t => key = t
          /\ net'[t] = net[t] /\ injected'[t] = injected[t] /\ given'[t] = given[t]
          /\ limit'[t] = limit[t] /\ outq'[t] = outq[t] /\ task'[t] = task[t]
          /\ link'[t] = link[t] /\ (t \in doomed' <=> t \in doomed)
      BY <1>32, <2>1 DEF StartBFails, input, handle, stream, StateOK, PipesOK
    <3> QED
      BY <1>0, <3>1, PipeKept
  <2>2. CASE t = s
    <3>1. /\ net'[s] \in {<<Msg("connect")>>, <<Msg("connect"), Msg("StartB")>>}
          /\ Fresh(s) /\ UNCHANGED <<outq, injected, given>>
      BY <1>32, <1>0, <2>2 DEF StartBFails, input, handle, PipesOK, PhaseOf, Opened
    <3> QED
      BY <2>2, <3>1, PipeOpened
  <2> QED
    BY <2>1, <2>2
<1>33. ASSUME NEW s \in Sessions, Publish(s)
       PROVE  UNCHANGED <<key, net, injected, given, limit, outq, doomed, task, link>>
  BY <1>33 DEF Publish, input, handle, enet, stream
<1> QED
  BY <1>1, <1>2, <1>3, <1>4, <1>5, <1>6, <1>7, <1>8, <1>9, <1>10, <1>11, <1>12,
     <1>13, <1>14, <1>15, <1>16, <1>17, <1>18, <1>19, <1>20, <1>21, <1>22, <1>23,
     <1>24, <1>25, <1>26, <1>27, <1>28, <1>29, <1>30, <1>31, <1>32, <1>33 DEF Next, Starting,
     Task, HostWeb, HostControl

-----------------------------------------------------------------------------
(* What is injected.                                                       *)

\* The two properties together, for the one session a step is about.
LEMMA InjectedStep ==
    ASSUME StateOK, PipesOK, PipeOK, InputPrefix, StoppedIsSilent, [Next]_vars
    PROVE  (InputPrefix /\ StoppedIsSilent)'
<1> DEFINE Good(t) == /\ Len(injected[t]) <= given[t]
                      /\ \A i \in 1 .. Len(injected[t]) : injected[t][i] = i /\ i <= limit[t]
<1>0. ASSUME NEW t \in Sessions
      PROVE  /\ DOMAIN injected[t] = 1 .. Len(injected[t]) /\ Len(injected[t]) \in Nat
             /\ Good(t)
  BY DEF PipesOK, InputPrefix, StoppedIsSilent
<1> SUFFICES ASSUME NEW t \in Sessions PROVE Good(t)'
  <2>1. PipesOK'
    BY PipesStep
  <2>2. \A x \in Sessions : DOMAIN injected'[x] = 1 .. Len(injected'[x])
    BY <2>1 DEF PipesOK
  <2> QED
    BY <2>2 DEF InputPrefix, StoppedIsSilent
<1>1. ASSUME NEW s \in Sessions, Begin(s) PROVE Good(t)'
  <2>1. DropCurrent /\ UNCHANGED <<injected, given>>
    BY <1>1 DEF Begin, input
  <2>2. limit'[t] = limit[t] \/ limit'[t] = given[t]
    BY <2>1, PhaseDrop
  <2>3. \A i \in 1 .. Len(injected[t]) : i <= given[t]
    <3>1. given[t] \in Nat
      BY SessionAssumption DEF PipesOK
    <3> QED
      BY <1>0, <3>1
  <2> QED
    BY <1>0, <2>1, <2>2, <2>3
<1>2. ASSUME NEW s \in Sessions, Store(s) PROVE Good(t)'
  <2>1. DropCurrent /\ UNCHANGED <<injected, given>>
    BY <1>2 DEF Store, input
  <2>2. limit'[t] = limit[t] \/ limit'[t] = given[t]
    BY <2>1, PhaseDrop
  <2>3. \A i \in 1 .. Len(injected[t]) : i <= given[t]
    <3>1. given[t] \in Nat
      BY SessionAssumption DEF PipesOK
    <3> QED
      BY <1>0, <3>1
  <2> QED
    BY <1>0, <2>1, <2>2, <2>3
<1>3. ASSUME NEW s \in Sessions, HostInput(s) PROVE Good(t)'
  <2>1. UNCHANGED <<given, limit>>
    BY <1>3 DEF HostInput, input, handle
  <2>2. CASE t = s /\ key = s
    <3>1. /\ Len(injected[t]) + 1 <= given[t] /\ Len(injected[t]) + 1 <= limit[t]
          /\ injected'[t] = Append(injected[t], Len(injected[t]) + 1)
      BY <1>3, <2>2, InputIsNext DEF PipesOK
    <3>2. injected[t] \in Seq(Nat) /\ Len(injected[t]) \in Nat /\ Len(injected[t]) + 1 \in Nat
      BY DEF PipesOK
    <3>3. /\ Len(injected'[t]) = Len(injected[t]) + 1
          /\ injected'[t][Len(injected[t]) + 1] = Len(injected[t]) + 1
          /\ \A i \in 1 .. Len(injected[t]) : injected'[t][i] = injected[t][i]
      BY <3>1, <3>2, AppendProperties
    <3>4. \A i \in 1 .. Len(injected[t]) + 1 : i \in 1 .. Len(injected[t]) \/ i = Len(injected[t]) + 1
      BY <3>2
    <3>5. \A i \in 1 .. Len(injected'[t]) : injected'[t][i] = i /\ i <= limit[t]
      BY <1>0, <3>1, <3>3, <3>4, Zenon
    <3>6. Len(injected'[t]) <= given[t]
      BY <3>1, <3>3
    <3> QED
      BY <2>1, <3>5, <3>6
  <2>3. CASE ~(t = s /\ key = s)
    <3>1. injected'[t] = injected[t]
      BY <1>3, <2>3 DEF HostInput, Decrypts, inject, PipesOK
    <3> QED
      BY <1>0, <2>1, <3>1
  <2> QED
    BY <2>2, <2>3
<1>4. CASE Stop
  <2>1. DropCurrent /\ UNCHANGED <<injected, given>>
    BY <1>4 DEF Stop, input
  <2>2. limit'[t] = limit[t] \/ limit'[t] = given[t]
    BY <2>1, PhaseDrop
  <2>3. \A i \in 1 .. Len(injected[t]) : i <= given[t]
    <3>1. given[t] \in Nat
      BY SessionAssumption DEF PipesOK
    <3> QED
      BY <1>0, <3>1
  <2> QED
    BY <1>0, <2>1, <2>2, <2>3
<1>5. CASE TypeEnd
  <2>1. UNCHANGED <<injected, limit>> /\ (given'[t] = given[t] \/ given'[t] = given[t] + 1)
    BY <1>5 DEF TypeEnd, PipesOK
  <2>2. given[t] \in Nat
    BY SessionAssumption DEF PipesOK
  <2> QED
    BY <1>0, <2>1, <2>2
<1>6. CASE UNCHANGED <<injected, given, limit>>
  BY <1>6, <1>0
<1>7. ASSUME NEW s \in Sessions, ReadInfo(s)
      PROVE  UNCHANGED <<injected, given, limit>>
  BY <1>7 DEF ReadInfo, Answered, NextExchange, Asks, app, input, handle, enet,
     stream
<1>8. ASSUME NEW s \in Sessions, ReadLaunch(s)
      PROVE  UNCHANGED <<injected, given, limit>>
  BY <1>8 DEF ReadLaunch, Answered, NextExchange, Asks, app, input, handle, enet,
     stream
<1>9. ASSUME NEW s \in Sessions, ReadSetup(s)
      PROVE  UNCHANGED <<injected, given, limit>>
  BY <1>9 DEF ReadSetup, Answered, NextExchange, Asks, app, input, handle, enet,
     stream
<1>10. ASSUME NEW s \in Sessions, ReadPlay(s)
       PROVE  UNCHANGED <<injected, given, limit>>
  BY <1>10 DEF ReadPlay, Answered, NoWire, input, handle, enet, stream
<1>11. ASSUME NEW s \in Sessions, ClientGivesUp(s)
       PROVE  UNCHANGED <<injected, given, limit>>
  BY <1>11 DEF ClientGivesUp, NoWire, input, handle, enet, stream
<1>12. ASSUME NEW s \in Sessions, Connected(s)
       PROVE  UNCHANGED <<injected, given, limit>>
  BY <1>12 DEF Connected, input, stream
<1>13. ASSUME NEW s \in Sessions, ConnectFails(s)
       PROVE  UNCHANGED <<injected, given, limit>>
  BY <1>13 DEF ConnectFails, input, handle, enet, stream
<1>14. ASSUME NEW s \in Sessions, TaskTakes(s)
       PROVE  UNCHANGED <<injected, given, limit>>
  BY <1>14 DEF TaskTakes, app, input, stream
<1>15. ASSUME NEW s \in Sessions, TaskShutsDown(s)
       PROVE  UNCHANGED <<injected, given, limit>>
  BY <1>15 DEF TaskShutsDown, Leave, app, input, stream
<1>16. ASSUME NEW s \in Sessions, TaskDisconnected(s)
       PROVE  UNCHANGED <<injected, given, limit>>
  BY <1>16 DEF TaskDisconnected, Leave, app, input, stream
<1>17. ASSUME NEW s \in Sessions, TaskEnds(s)
       PROVE  UNCHANGED <<injected, given, limit>>
  BY <1>17 DEF TaskEnds, Ended, app, input, enet, stream
<1>18. ASSUME NEW s \in Sessions, RuntimeDrops(s)
       PROVE  UNCHANGED <<injected, given, limit>>
  BY <1>18 DEF RuntimeDrops, Ended, app, input, enet, stream
<1>19. ASSUME NEW s \in Sessions, HostInfo(s)
       PROVE  UNCHANGED <<injected, given, limit>>
  BY <1>19 DEF HostInfo, Asked, Answer, Reply, NoWire, HostOnly, app, input, handle,
     enet, stream
<1>20. ASSUME NEW s \in Sessions, HostLaunch(s)
       PROVE  UNCHANGED <<injected, given, limit>>
  BY <1>20 DEF HostLaunch, Asked, Answer, Reply, NoWire, HostOnly, app, input,
     handle, enet
<1>21. ASSUME NEW s \in Sessions, HostRefuses(s)
       PROVE  UNCHANGED <<injected, given, limit>>
  BY <1>21 DEF HostRefuses, Reply, NoWire, HostOnly, app, input, handle, enet,
     stream
<1>22. ASSUME NEW s \in Sessions, HostNegotiates(s)
       PROVE  UNCHANGED <<injected, given, limit>>
  BY <1>22 DEF HostNegotiates, Rtsp, Asked, Answer, Reply, NoWire, HostOnly, app,
     input, handle, enet, stream
<1>23. ASSUME NEW s \in Sessions, HostPlay(s)
       PROVE  UNCHANGED <<injected, given, limit>>
  BY <1>23 DEF HostPlay, Rtsp, Asked, Answer, Reply, NoWire, HostOnly, app, input,
     handle, enet
<1>24. ASSUME NEW s \in Sessions, HostConnect(s)
       PROVE  UNCHANGED <<injected, given, limit>>
  BY <1>24 DEF HostConnect, app, input, handle, stream
<1>25. ASSUME NEW s \in Sessions, HostStartB(s)
       PROVE  UNCHANGED <<injected, given, limit>>
  BY <1>25 DEF HostStartB, Triggered, Received, app, input, handle
<1>26. ASSUME NEW s \in Sessions, HostBye(s)
       PROVE  UNCHANGED <<injected, given, limit>>
  BY <1>26 DEF HostBye, Received, app, input, handle, stream
<1>27. ASSUME NEW s \in Sessions, LinkFails(s)
       PROVE  UNCHANGED <<injected, given, limit>>
  BY <1>27 DEF LinkFails, app, input, handle, stream
<1>28. ASSUME HookStarts
       PROVE  UNCHANGED <<injected, given, limit>>
  BY <1>28 DEF HookStarts, HostOnly, app, input, handle, enet
<1>29. ASSUME TypeBegin
       PROVE  UNCHANGED <<injected, given, limit>>
  BY <1>29 DEF TypeBegin, app, handle, enet, stream
<1>30. ASSUME HostRestart
       PROVE  UNCHANGED <<injected, given, limit>>
  BY <1>30 DEF HostRestart, HostStarts, NoWire, app, input, handle
<1>31. ASSUME UNCHANGED vars
       PROVE  UNCHANGED <<injected, given, limit>>
  BY <1>31 DEF vars, app, input, handle, enet, stream
<1>32. ASSUME NEW s \in Sessions, StartBFails(s)
       PROVE  UNCHANGED <<injected, given, limit>>
  BY <1>32 DEF StartBFails, input, handle, stream
<1>33. ASSUME NEW s \in Sessions, Publish(s)
       PROVE  UNCHANGED <<injected, given, limit>>
  BY <1>33 DEF Publish, input, handle, enet, stream
<1> HIDE DEF Good
<1> QED
  BY <1>1, <1>2, <1>3, <1>4, <1>5, <1>6, <1>7, <1>8, <1>9, <1>10, <1>11, <1>12,
     <1>13, <1>14, <1>15, <1>16, <1>17, <1>18, <1>19, <1>20, <1>21, <1>22, <1>23,
     <1>24, <1>25, <1>26, <1>27, <1>28, <1>29, <1>30, <1>31, <1>32, <1>33 DEF Next, Starting,
     Task, HostWeb, HostControl

-----------------------------------------------------------------------------
(* The theorems.                                                           *)

LEMMA Initially == Init => IInv
<1> SUFFICES ASSUME Init PROVE IInv
  OBVIOUS
<1>1. StateOK
  BY StepsLen DEF Init, StateOK, Phases, Wires, NoWire
<1>2. PipesOK
  BY EmptySeq, SessionAssumption DEF Init, PipesOK
<1>3. PhaseOK
  BY HasNone, NoneIsNone DEF Init, PhaseOK, PhaseOf, Opened, Fresh, NoWire
<1>4. PipeOK
  BY NoneIsNone DEF Init, PipeOK, PipeOf
<1>5. InputPrefix /\ StoppedIsSilent
  BY EmptySeq DEF Init, InputPrefix, StoppedIsSilent
<1> QED
  BY <1>1, <1>2, <1>3, <1>4, <1>5 DEF IInv, ShapeOK

LEMMA Inductive == IInv /\ [Next]_vars => IInv'
<1> SUFFICES ASSUME IInv, [Next]_vars PROVE IInv'
  OBVIOUS
<1>1. StateOK /\ PipesOK /\ PhaseOK /\ PipeOK /\ InputPrefix /\ StoppedIsSilent
  BY DEF IInv, ShapeOK
<1>2. StateOK'
  BY <1>1, StateStep
<1>3. PipesOK'
  BY <1>1, PipesStep
<1>4. PhaseOK'
  BY <1>1, PhaseStep
<1>5. PipeOK'
  BY <1>1, PipeStep
<1>6. (InputPrefix /\ StoppedIsSilent)'
  BY <1>1, InjectedStep
<1> QED
  BY <1>2, <1>3, <1>4, <1>5, <1>6 DEF IInv, ShapeOK

LEMMA Invariance == Spec => []IInv
BY Initially, Inductive, PTL DEF Spec

\* The state keeps its shape: the queues and the connections hold only messages
\* the code sends, the counters stay in their bounds, and the host's control
\* loop serves at most one connection, whoever connects, fails or restarts.
THEOREM TypeCorrect == Spec => []TypeOK
<1>1. IInv => TypeOK
  <2> SUFFICES ASSUME IInv PROVE TypeOK
    OBVIOUS
  <2>1. StateOK /\ PipesOK
    BY DEF IInv, ShapeOK
  <2>2. Cardinality(peers) <= 1 /\ peers \subseteq Sessions
    <3>1. CASE peers = {}
      BY <3>1, FS_EmptySet
    <3>2. CASE \E s \in Sessions : peers = {s}
      BY <3>2, FS_Singleton
    <3> QED
      BY <2>1, <3>1, <3>2 DEF StateOK
  <2>3. ASSUME NEW s \in Sessions
        PROVE  /\ \A i \in DOMAIN outq[s] : outq[s][i] \in Messages
               /\ \A i \in DOMAIN net[s] : net[s][i] \in Messages
    BY <2>1 DEF PipesOK
  <2> QED
    BY <2>1, <2>2, <2>3 DEF TypeOK, StateOK, PipesOK, Phases, Opened, Wires
<1> QED
  BY <1>1, Invariance, PTL

\* What the host injects for a session is a prefix of what was typed into it
\* (control.rs, ReliableSequenced; decrypt_message), whatever launches, link
\* failures, restarts and stops come between.
THEOREM InjectedIsPrefix == Spec => []InputPrefix
<1>1. IInv => InputPrefix
  BY DEF IInv
<1> QED
  BY <1>1, Invariance, PTL

\* Nothing typed after a session was dropped is ever injected for it
\* (session.rs, drop; control.rs, the Shutdown arm).
THEOREM NothingAfterStop == Spec => []StoppedIsSilent
<1>1. IInv => StoppedIsSilent
  BY DEF IInv
<1> QED
  BY <1>1, Invariance, PTL

-----------------------------------------------------------------------------
(* What NoOrphanTask and InputArrives rest on: nothing that has to happen   *)
(* waits for a message that is not there.                                  *)

\* A session that start stored is in the slot, or was dropped from it.
SlotOK == \A s \in Sessions : phase[s] = "stored" => current = s \/ s \in doomed

\* Begin, Store and Stop are the only steps that change the slot, and each drops
\* what it held.
LEMMA SlotStep == ASSUME StateOK, SlotOK, [Next]_vars PROVE SlotOK'
<1> USE DEF SlotOK, app, handle
<1>1. ASSUME DropCurrent PROVE \A s \in Sessions : s \in doomed \/ current = s => s \in doomed'
  BY <1>1, NoneIsNone DEF DropCurrent
<1>2. ASSUME NEW s \in Sessions, Begin(s) PROVE SlotOK'
  <2>1. \A r \in Sessions : phase'[r] = "stored" => phase[r] = "stored"
    BY <1>2 DEF Begin, StateOK
  <2> QED
    BY <1>1, <1>2, <2>1 DEF Begin
<1>3. ASSUME NEW s \in Sessions, Store(s) PROVE SlotOK'
  <2>1. \A r \in Sessions : phase'[r] = "stored" => r = s \/ phase[r] = "stored"
    BY <1>3 DEF Store, StateOK
  <2> QED
    BY <1>1, <1>3, <2>1 DEF Store
<1>4. CASE Stop
  BY <1>1, <1>4 DEF Stop
<1>5. ASSUME UNCHANGED <<current, doomed>>,
             \A r \in Sessions : phase'[r] = "stored" => phase[r] = "stored"
      PROVE  SlotOK'
  BY <1>5
<1>6. ASSUME NEW s \in Sessions,
             \/ ReadPlay(s) \/ ClientGivesUp(s) \/ Connected(s) \/ StartBFails(s)
             \/ ConnectFails(s) \/ Publish(s)
      PROVE  SlotOK'
  <2>1. \A r \in Sessions : phase'[r] = "stored" => phase[r] = "stored"
    BY <1>6 DEF ReadPlay, ClientGivesUp, Connected, StartBFails, ConnectFails, Publish,
       StateOK
  <2> QED
    BY <1>5, <1>6, <2>1 DEF ReadPlay, ClientGivesUp, Connected, StartBFails,
       ConnectFails, Publish
<1>7. ASSUME NEW s \in Sessions, ReadInfo(s) \/ ReadLaunch(s) \/ ReadSetup(s) PROVE SlotOK'
  BY <1>7 DEF ReadInfo, ReadLaunch, ReadSetup, NextExchange
<1>8. ASSUME NEW s \in Sessions, Task(s) \/ RuntimeDrops(s) PROVE SlotOK'
  BY <1>8 DEF Task, TaskTakes, TaskShutsDown, TaskDisconnected, TaskEnds, RuntimeDrops,
     Leave, Ended
<1>9. ASSUME NEW s \in Sessions, HostWeb(s) PROVE SlotOK'
  BY <1>9 DEF HostWeb, HostInfo, HostLaunch, HostRefuses, HostNegotiates, HostPlay, HostOnly
<1>10. ASSUME NEW s \in Sessions, HostControl(s) \/ LinkFails(s) PROVE SlotOK'
  BY <1>10 DEF HostControl, HostConnect, HostStartB, HostInput, HostBye, LinkFails
<1>11. CASE TypeBegin \/ TypeEnd \/ HookStarts \/ HostRestart \/ UNCHANGED vars
  BY <1>11 DEF TypeBegin, TypeEnd, HookStarts, HostRestart, HostOnly, vars
<1> HIDE DEF SlotOK
<1> QED
  BY <1>2, <1>3, <1>4, <1>6, <1>7, <1>8, <1>9, <1>10, <1>11 DEF Next, Starting

\* Every orphan task has the reason to end in front of it: its connection is cut,
\* or a shutdown is in its queue.
OrphanIsTold ==
    \A s \in Sessions : Orphan(s) => link[s] = "cut" \/ Has(outq[s], "shutdown")

\* However calls of start overlap, no task is left that nobody told to end
\* (stream.rs, the assignment drops what it replaces; session.rs, drop sends
\* Shutdown; control.rs, Event::Disconnect): the safety half of NoOrphanTask.
THEOREM NoTaskForgotten == Spec => []OrphanIsTold
<1>1. Init => SlotOK
  BY DEF Init, SlotOK
<1>2. IInv /\ SlotOK /\ [Next]_vars => SlotOK'
  BY SlotStep DEF IInv, ShapeOK
<1>3. IInv /\ SlotOK => OrphanIsTold
  <2> SUFFICES ASSUME IInv, SlotOK, NEW s \in Sessions, Orphan(s), link[s] # "cut"
               PROVE  Has(outq[s], "shutdown")
    BY DEF OrphanIsTold
  <2>1. PhaseOf(s)
    BY DEF IInv, PhaseOK
  <2> QED
    BY <2>1 DEF Orphan, SlotOK, PhaseOf
<1> QED
  BY <1>1, <1>2, <1>3, Invariance, PTL DEF Spec

\* Event n of session s is on the connection or in the queue.
Coming(s, n) ==
    \/ \E i \in 1 .. Len(net[s]) : net[s][i] = Event(n)
    \/ \E i \in 1 .. Len(outq[s]) : outq[s][i] = Event(n)

\* The next event of a session that is owed one is on its way, unless the session
\* is being shut down.
OwedIsComing ==
    \A s \in Sessions :
        Owed(s) => Has(outq[s], "shutdown") \/ Coming(s, Len(injected[s]) + 1)

\* An event the channel accepted and the host has not injected is still there: it is
\* in the queue or on the connection, in whatever order typing, sending, launches and
\* faults interleave (control.rs, enqueue and queue_msg): the safety half of
\* InputArrives.
THEOREM NoInputForgotten == Spec => []OwedIsComing
<1>1. IInv => OwedIsComing
  <2> SUFFICES ASSUME IInv, NEW s \in Sessions, Owed(s), ~Has(outq[s], "shutdown")
               PROVE  Coming(s, Len(injected[s]) + 1)
    BY DEF OwedIsComing
  <2> DEFINE b == Len(injected[s])
             a == Len(net[s])
             q == Len(outq[s])
  <2>1. /\ PhaseOf(s) /\ PipeOf(s) /\ PipesOK
        /\ task[s] = "running" /\ link[s] = "up" /\ key = s /\ given[s] > b
    BY DEF IInv, ShapeOK, PhaseOK, PipeOK, Owed
  <2>2. b \in Nat /\ a \in Nat /\ q \in Nat /\ given[s] \in Nat
    BY <2>1, SessionAssumption DEF PipesOK
  <2>3. s \notin doomed /\ ~Has(net[s], "bye")
    BY <2>1 DEF PhaseOf
  <2>4. PICK lead \in 0 .. Len(net[s]) : Numbered(s, lead)
    BY <2>1 DEF PipeOf
  <2>5. CASE a > lead
    <3>1. lead + 1 \in 1 .. Len(net[s]) /\ lead + 1 > lead /\ b + (lead + 1) - lead = b + 1
      BY <2>2, <2>4, <2>5
    <3>2. net[s][lead + 1] = Event(b + (lead + 1) - lead) \/ net[s][lead + 1].type = "bye"
      BY <2>4, <3>1 DEF Numbered, Wired
    <3>3. net[s][lead + 1] = Event(b + 1)
      BY <2>3, <3>1, <3>2 DEF Has
    <3> QED
      BY <3>1, <3>3 DEF Coming
  <2>6. CASE a = lead
    <3>1. Sending(s, b + a - lead) /\ b + a - lead = b
      BY <2>2, <2>4, <2>6 DEF Numbered
    <3>2. Queued(outq[s], b, given[s], limit[s]) /\ given[s] = b + q
      BY <2>1, <2>3, <3>1 DEF Sending
    <3>3. 1 \in 1 .. Len(outq[s])
      <4> HIDE DEF b, q
      <4>1. 1 \in 1 .. q
        BY <2>1, <2>2, <3>2
      <4> QED
        BY <4>1 DEF q
    <3>4. outq[s][1].type = "shutdown" \/ outq[s][1] = Event(b + 1)
      BY <3>2, <3>3 DEF Queued
    <3>5. outq[s][1] = Event(b + 1)
      BY <3>3, <3>4 DEF Has
    <3> QED
      BY <3>3, <3>5 DEF Coming
  <2> QED
    BY <2>2, <2>4, <2>5, <2>6
<1> QED
  BY <1>1, Invariance, PTL
=============================================================================
