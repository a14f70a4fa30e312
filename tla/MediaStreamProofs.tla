--------------------------- MODULE MediaStreamProofs ---------------------------
(***************************************************************************)
(* Proofs about VideoStream for every size of the blocks, the table and the *)
(* access units, every wrap of the sequence numbers and any number of       *)
(* frames, and, in the last part, about AudioStream for every range of its  *)
(* sequence numbers.  The two share the arithmetic of numbers that wrap;    *)
(* the names of the audio stream's specification begin with Audio.          *)
(***************************************************************************)
EXTENDS VideoStream, AudioStream, SequenceTheorems, FiniteSetTheorems,
        WellFoundedInduction, TLAPS

SentFrames == [len : Lens, pct : 10 .. 60, seq : 0 .. SeqMod - 1]

\* The host's side of the state.
SentOK ==
    /\ sent \in Seq(SentFrames) /\ Len(sent) <= MaxFrames
    /\ sequence_number \in 0 .. SeqMod - 1
    /\ receiving \in BOOLEAN /\ sink \in BOOLEAN

Fields == {"block_count", "blocks", "first_seen", "ticked", "delivered"}

\* The frames that were reported Lost.
Losses == {n \in 1 .. MaxFrames : lost[n] # 0}

\* The table of frames in assembly: frames that were sent, not too many.
TableOK ==
    /\ DOMAIN frames \subseteq 1 .. Len(sent)
    /\ Cardinality(DOMAIN frames) <= MAX_INFLIGHT_FRAMES
    /\ \A n \in DOMAIN frames : DOMAIN frames[n] = Fields
    /\ last_retired \in 0 .. Len(sent)
    /\ lost \in [1 .. MaxFrames -> Nat]
    /\ Losses \subseteq 1 .. Len(sent)

\* q is a sequence, of whatever its elements are.
IsSeq(q) == q \in Seq({q[i] : i \in DOMAIN q})

\* What is lost or handed over stays so: it is out of the table and at or below
\* the watermark, or still in the table and marked as delivered.
FateOK ==
    /\ IsSeq(delivered)
    /\ \A n \in Losses : lost[n] = 1 /\ n \notin DOMAIN frames /\ n <= last_retired
    /\ \A i \in 1 .. Len(delivered) :
          /\ delivered[i].frame \in 1 .. Len(sent)
          /\ delivered[i].frame \notin Losses
          /\ delivered[i].frame \in DOMAIN frames => frames[delivered[i].frame].delivered
          /\ delivered[i].frame \notin DOMAIN frames => delivered[i].frame <= last_retired
    /\ \A i, j \in 1 .. Len(delivered) : delivered[i].frame = delivered[j].frame => i = j

\* The inductive invariant behind the type and the fate of the frames.
IInv == SentOK /\ TableOK /\ FateOK

-----------------------------------------------------------------------------
(* Least and greatest numbers, and sequences.                              *)

\* Among the frames of the table there is an oldest one.
LEMMA LeastNumber ==
    ASSUME NEW T \in SUBSET Nat, T # {}
    PROVE  \E x \in T : \A y \in T : x <= y
<1>1. PICK x \in T : \A y \in T : ~(<<y, x>> \in OpToRel(<, Nat))
  BY NatLessThanWellFounded, WFMin
<1>2. x \in Nat /\ \A y \in T : y \in Nat
  OBVIOUS
<1>3. \A y \in T : ~(y < x)
  BY <1>1, <1>2 DEF OpToRel
<1> QED
  BY <1>2, <1>3

\* Among the frames to retire there is a newest one.
LEMMA GreatestNumber ==
    ASSUME NEW n \in Nat, NEW T \in SUBSET (0 .. n), T # {}
    PROVE  \E x \in T : \A y \in T : y <= x
<1> DEFINE U == {k \in 0 .. n : n - k \in T}
<1>1. U \subseteq Nat
  OBVIOUS
<1>2. \A y \in T : n - y \in U /\ n - (n - y) = y
  OBVIOUS
<1>3. U # {}
  BY <1>2
<1>4. PICK u \in U : \A v \in U : u <= v
  <2> HIDE DEF U
  <2> QED
    BY <1>1, <1>3, LeastNumber
<1>5. n - u \in T
  OBVIOUS
<1>6. \A y \in T : y <= n - u
  BY <1>2, <1>4
<1> QED
  BY <1>5, <1>6

\* The list of deliveries grows at its end.
LEMMA IsSeqAppend ==
    ASSUME NEW q, IsSeq(q), NEW e
    PROVE  /\ IsSeq(Append(q, e)) /\ Len(q) \in Nat /\ Len(Append(q, e)) = Len(q) + 1
           /\ DOMAIN q = 1 .. Len(q)
           /\ \A i \in 1 .. Len(q) : Append(q, e)[i] = q[i]
           /\ Append(q, e)[Len(q) + 1] = e
<1> DEFINE S == {q[i] : i \in DOMAIN q}
           T == S \cup {e}
           a == Append(q, e)
<1>1. q \in Seq(S)
  BY DEF IsSeq
<1>2. DOMAIN q = 1 .. Len(q) /\ Len(q) \in Nat /\ \A i \in 1 .. Len(q) : q[i] \in T
  BY <1>1
<1>3. q \in Seq(T)
  <2>1. q = [i \in 1 .. Len(q) |-> q[i]]
    BY <1>1
  <2> HIDE DEF S, T
  <2> QED
    BY <1>2, <2>1, SeqDef
<1>4. /\ a \in Seq(T) /\ Len(a) = Len(q) + 1 /\ a[Len(q) + 1] = e
      /\ \A i \in 1 .. Len(q) : a[i] = q[i]
  <2> HIDE DEF S
  <2> QED
    BY <1>3, AppendProperties
<1>5. IsSeq(a)
  <2> HIDE DEF S, T, a
  <2>1. DOMAIN a = 1 .. Len(a) /\ Len(a) \in Nat /\ a = [i \in 1 .. Len(a) |-> a[i]]
    BY <1>4
  <2>2. \A i \in 1 .. Len(a) : a[i] \in {a[j] : j \in DOMAIN a}
    BY <2>1
  <2> QED
    BY <2>1, <2>2, SeqDef DEF IsSeq
<1> QED
  BY <1>2, <1>4, <1>5

-----------------------------------------------------------------------------
(* The table of frames in assembly.                                        *)

LEMMA OldestIsLeast ==
    ASSUME TableOK, SentOK, DOMAIN frames # {}
    PROVE  Oldest \in DOMAIN frames /\ \A m \in DOMAIN frames : Oldest <= m
<1>1. DOMAIN frames \in SUBSET Nat
  BY DEF TableOK, SentOK
<1>2. \E n \in DOMAIN frames : \A m \in DOMAIN frames : n <= m
  BY <1>1, LeastNumber
<1> QED
  BY <1>2 DEF Oldest

\* What retire does to the watermark and to the list of losses.
LEMMA RetireOK ==
    ASSUME TableOK, SentOK, NEW S \in SUBSET DOMAIN frames, Retire(S)
    PROVE  /\ last_retired' \in 0 .. Len(sent) /\ last_retired <= last_retired'
           /\ \A n \in S : n <= last_retired'
           /\ last_retired' = last_retired \/ last_retired' \in S
           /\ lost' \in [1 .. MaxFrames -> Nat]
           /\ Losses' = Losses \cup {n \in S : ~frames[n].delivered}
           /\ \A n \in 1 .. MaxFrames :
                 lost'[n] = IF n \in S /\ ~frames[n].delivered THEN lost[n] + 1 ELSE lost[n]
<1> DEFINE L == {n \in S : ~frames[n].delivered}
<1>0. /\ lost' = [n \in DOMAIN lost |-> IF n \in L THEN lost[n] + 1 ELSE lost[n]]
      /\ last_retired' = IF S = {} THEN last_retired
                         ELSE MaxOf(last_retired, CHOOSE n \in S : \A m \in S : m <= n)
  BY DEF Retire, GiveUp, LostOf, Watermark, Raised
<1>1. /\ lost' \in [1 .. MaxFrames -> Nat] /\ Losses' = Losses \cup L
      /\ \A n \in 1 .. MaxFrames : lost'[n] = IF n \in L THEN lost[n] + 1 ELSE lost[n]
  <2>1. lost \in [1 .. MaxFrames -> Nat] /\ L \subseteq 1 .. MaxFrames
    BY StreamAssumption DEF TableOK, SentOK
  <2> HIDE DEF L
  <2>2. /\ lost' \in [1 .. MaxFrames -> Nat]
        /\ \A n \in 1 .. MaxFrames : lost'[n] = IF n \in L THEN lost[n] + 1 ELSE lost[n]
    BY <1>0, <2>1
  <2>3. Losses' = Losses \cup L
    <3>1. \A n \in 1 .. MaxFrames : lost[n] \in Nat
      BY <2>1
    <3>2. \A n \in 1 .. MaxFrames : lost'[n] # 0 <=> lost[n] # 0 \/ n \in L
      BY <2>2, <3>1
    <3>3. Losses' = {n \in 1 .. MaxFrames : lost'[n] # 0}
      BY DEF Losses
    <3> QED
      BY <2>1, <3>2, <3>3, Zenon DEF Losses
  <2> QED
    BY <2>2, <2>3
<1>2. last_retired \in 0 .. Len(sent) /\ S \subseteq 1 .. Len(sent) /\ Len(sent) \in Nat
  BY DEF TableOK, SentOK
<1>3. CASE S = {}
  BY <1>0, <1>1, <1>2, <1>3
<1>4. CASE S # {}
  <2> DEFINE x == CHOOSE n \in S : \A m \in S : m <= n
  <2>1. S \in SUBSET (0 .. Len(sent))
    BY <1>2
  <2>2. \E n \in S : \A m \in S : m <= n
    BY <1>2, <1>4, <2>1, GreatestNumber
  <2>3. x \in S /\ \A m \in S : m <= x
    BY <2>2
  <2>4. last_retired' = MaxOf(last_retired, x)
    BY <1>0, <1>4
  <2> HIDE DEF x
  <2>5. x \in 1 .. Len(sent)
    BY <1>2, <2>3
  <2>6. /\ last_retired' \in 0 .. Len(sent) /\ last_retired <= last_retired' /\ x <= last_retired'
        /\ last_retired' = last_retired \/ last_retired' = x
    BY <1>2, <2>4, <2>5 DEF MaxOf
  <2>7. \A n \in S : n <= last_retired'
    <3> TAKE n \in S
    <3>1. n <= x /\ n \in 1 .. Len(sent)
      BY <1>2, <2>3
    <3> QED
      BY <3>1, <1>2, <2>5, <2>6
  <2> QED
    BY <1>1, <2>3, <2>6, <2>7
<1> QED
  BY <1>3, <1>4

\* A shard that is not ignored belongs to a frame above the watermark; the table
\* makes room for it by retiring an older one.
LEMMA EvictedOK ==
    ASSUME TableOK, SentOK, NEW d, d.frame \in 1 .. Len(sent), ~Ignored(d)
    PROVE  /\ last_retired < d.frame
           /\ Evicted(d) \subseteq DOMAIN frames /\ \A m \in Evicted(d) : m < d.frame
           /\ Cardinality((DOMAIN frames \ Evicted(d)) \cup {d.frame}) <= MAX_INFLIGHT_FRAMES
<1> DEFINE D == DOMAIN frames
           n == d.frame
<1>1. /\ D \subseteq 1 .. Len(sent) /\ Cardinality(D) <= MAX_INFLIGHT_FRAMES
      /\ last_retired \in Nat /\ Len(sent) \in Nat /\ n \in Nat
  BY DEF TableOK, SentOK
<1>2. last_retired < n
  BY <1>1 DEF Ignored, Late
<1>3. IsFiniteSet(D) /\ Cardinality(D) \in Nat
  <2>1. IsFiniteSet(1 .. Len(sent))
    BY <1>1, FS_Interval
  <2> HIDE DEF D
  <2>2. IsFiniteSet(D)
    BY <1>1, <2>1, FS_Subset
  <2> QED
    BY <2>2, FS_CardinalityType
<1>4. MAX_INFLIGHT_FRAMES \in Nat /\ MAX_INFLIGHT_FRAMES > 0
  BY StreamAssumption
<1>5. CASE n \in D
  <2>1. Evicted(d) = {} /\ (D \ Evicted(d)) \cup {n} = D
    BY <1>5 DEF Evicted
  <2> QED
    BY <1>1, <1>2, <2>1
<1>6. CASE n \notin D /\ ~Full
  <2>1. Evicted(d) = {} /\ (D \ Evicted(d)) \cup {n} = D \cup {n}
    BY <1>6 DEF Evicted
  <2>2. Cardinality(D) < MAX_INFLIGHT_FRAMES
    BY <1>3, <1>4, <1>6 DEF Full
  <2>3. Cardinality(D \cup {n}) = Cardinality(D) + 1
    <3> HIDE DEF D, n
    <3> QED
      BY <1>3, <1>6, FS_AddElement
  <2>4. Cardinality(D \cup {n}) <= MAX_INFLIGHT_FRAMES
    BY <1>3, <1>4, <2>2, <2>3
  <2> QED
    BY <1>2, <2>1, <2>4
<1>7. CASE n \notin D /\ Full
  <2>1. D # {}
    <3>1. Cardinality(D) # 0
      BY <1>3, <1>4, <1>7 DEF Full
    <3> HIDE DEF D
    <3> QED
      BY <3>1, FS_EmptySet
  <2>2. Oldest \in D /\ \A m \in D : Oldest <= m
    BY <2>1, OldestIsLeast
  <2>3. Evicted(d) = {Oldest}
    BY <1>7 DEF Evicted
  <2>4. Oldest < n
    <3>1. ~(Oldest > n)
      BY <1>7 DEF Ignored
    <3>2. Oldest # n /\ Oldest \in Nat
      BY <1>1, <1>7, <2>2
    <3> QED
      BY <1>1, <3>1, <3>2
  <2> DEFINE R == D \ {Oldest}
  <2>5. IsFiniteSet(R) /\ Cardinality(R) = Cardinality(D) - 1
    <3> HIDE DEF D
    <3> QED
      BY <1>3, <2>2, FS_RemoveElement
  <2>6. n \notin R
    BY <1>7
  <2>7. Cardinality(R \cup {n}) = Cardinality(R) + 1
    <3> HIDE DEF R, n
    <3> QED
      BY <2>5, <2>6, FS_AddElement
  <2>8. Cardinality(R \cup {n}) <= MAX_INFLIGHT_FRAMES
    <3> HIDE DEF R, D, n
    <3> QED
      BY <1>1, <1>3, <1>4, <2>5, <2>7
  <2> QED
    BY <1>2, <2>2, <2>3, <2>4, <2>8
<1> QED
  BY <1>5, <1>6, <1>7

\* A frame a shard was put into is still a frame, delivered or not as before.
LEMMA TouchedOK ==
    ASSUME TableOK, NEW d
    PROVE  /\ DOMAIN Touched(d) = Fields
           /\ d.frame \in DOMAIN frames =>
                (Touched(d).delivered <=> frames[d.frame].delivered)
           /\ d.frame \notin DOMAIN frames => ~Touched(d).delivered
<1>1. \A f, e : DOMAIN f = Fields =>
        DOMAIN Absorb(f, e) = Fields /\ Absorb(f, e).delivered = f.delivered
  BY DEF Absorb, Fields
<1>2. DOMAIN NewFrame(d, Now) = Fields /\ NewFrame(d, Now).delivered = FALSE
  BY DEF NewFrame, Fields
<1>3. CASE d.frame \in DOMAIN frames
  <2>1. Touched(d) = Absorb(frames[d.frame], d) /\ DOMAIN frames[d.frame] = Fields
    BY <1>3 DEF Touched, TableOK
  <2> QED
    BY <1>1, <1>3, <2>1
<1>4. CASE d.frame \notin DOMAIN frames
  <2>1. Touched(d) = Absorb(NewFrame(d, Now), d)
    BY <1>4 DEF Touched
  <2> QED
    BY <1>1, <1>2, <1>4, <2>1
<1> QED
  BY <1>3, <1>4

\* A shard of a frame carries the frame's number.
LEMMA ShardFrame ==
    ASSUME NEW n, NEW d \in ShardsOf(n)
    PROVE  d.frame = n
BY DEF ShardsOf, Shard

\* One turn of the receive loop: the frames S are retired, and frame n > 0, if
\* there is one, is put back with a shard more; when it completes (done) it is
\* handed over.
Turn(S, n, done) ==
    /\ S \subseteq DOMAIN frames /\ Retire(S)
    /\ DOMAIN frames' \subseteq (DOMAIN frames \ S) \cup ({n} \ {0})
    /\ \A m \in DOMAIN frames' : DOMAIN frames'[m] = Fields
    /\ \A m \in DOMAIN frames \ S : m \in DOMAIN frames'
    /\ \A m \in DOMAIN frames' : m # n => frames'[m].delivered = frames[m].delivered
    /\ n > 0 => /\ n \in 1 .. Len(sent) /\ last_retired < n /\ n \notin S
                /\ n \in DOMAIN frames'
                /\ frames'[n].delivered <=>
                      done \/ (n \in DOMAIN frames /\ frames[n].delivered)
    /\ n = 0 => ~done
    /\ done => n > 0 /\ ~(n \in DOMAIN frames /\ frames[n].delivered)
    /\ done => \E e : e.frame = n /\ delivered' = Append(delivered, e)
    /\ ~done => UNCHANGED delivered
    /\ UNCHANGED <<sent, sequence_number>>
    /\ receiving' \in BOOLEAN /\ sink' \in BOOLEAN
    /\ Cardinality(DOMAIN frames') <= MAX_INFLIGHT_FRAMES

LEMMA PushTurn ==
    ASSUME TableOK, SentOK, NEW n \in DOMAIN sent, NEW d \in ShardsOf(n), PushShard(d)
    PROVE  Turn(Evicted(d), n, FALSE)
<1>1. d.frame = n /\ n \in 1 .. Len(sent) /\ n > 0
  BY ShardFrame DEF SentOK
<1>2. /\ ~Ignored(d) /\ frames' = Put(Evicted(d), n, Touched(d)) /\ Retire(Evicted(d))
      /\ UNCHANGED <<sent, sequence_number, receiving, sink, delivered>>
  BY <1>1 DEF PushShard, hostVars
<1>3. /\ last_retired < n
      /\ Evicted(d) \subseteq DOMAIN frames /\ \A m \in Evicted(d) : m < n
      /\ Cardinality((DOMAIN frames \ Evicted(d)) \cup {n}) <= MAX_INFLIGHT_FRAMES
  BY <1>1, <1>2, EvictedOK
<1>4. /\ DOMAIN Touched(d) = Fields
      /\ Touched(d).delivered <=> n \in DOMAIN frames /\ frames[n].delivered
  BY <1>1, TouchedOK
<1>5. /\ DOMAIN frames' = (DOMAIN frames \ Evicted(d)) \cup {n}
      /\ frames'[n] = Touched(d)
      /\ \A m \in DOMAIN frames \ Evicted(d) : m # n => frames'[m] = frames[m]
  BY <1>2 DEF Put
<1>6. n \notin Evicted(d)
  BY <1>1, <1>3
<1>7. receiving' \in BOOLEAN /\ sink' \in BOOLEAN
  BY <1>2 DEF SentOK
<1>8. \A m \in DOMAIN frames' : DOMAIN frames'[m] = Fields
  BY <1>4, <1>5 DEF TableOK
<1> QED
  BY <1>1, <1>2, <1>3, <1>4, <1>5, <1>6, <1>7, <1>8 DEF Turn

LEMMA CompleteTurn ==
    ASSUME TableOK, SentOK, NEW n \in DOMAIN sent, NEW d \in ShardsOf(n), PushCompletes(d)
    PROVE  Turn(Evicted(d) \cup Older(n), n, TRUE)
<1> DEFINE S == Evicted(d) \cup Older(n)
           f == [Touched(d) EXCEPT !.delivered = TRUE]
<1>1. d.frame = n /\ n \in 1 .. Len(sent) /\ n > 0
  BY ShardFrame DEF SentOK
<1>2. /\ ~Ignored(d) /\ frames' = Put(S, n, f) /\ Retire(S) /\ ~Touched(d).delivered
      /\ \E e : e.frame = n /\ delivered' = Append(delivered, e)
      /\ receiving' = sink /\ UNCHANGED <<sent, sequence_number, sink>>
  BY <1>1 DEF PushCompletes, hostVars
<1>3. /\ last_retired < n
      /\ Evicted(d) \subseteq DOMAIN frames /\ \A m \in Evicted(d) : m < n
      /\ Cardinality((DOMAIN frames \ Evicted(d)) \cup {n}) <= MAX_INFLIGHT_FRAMES
  BY <1>1, <1>2, EvictedOK
<1>4. /\ DOMAIN Touched(d) = Fields
      /\ Touched(d).delivered <=> n \in DOMAIN frames /\ frames[n].delivered
  BY <1>1, TouchedOK
<1>5. DOMAIN f = Fields /\ f.delivered
  BY <1>4 DEF Fields
<1>6. S \subseteq DOMAIN frames /\ n \notin S
  BY <1>1, <1>3 DEF Older
<1> HIDE DEF f
<1>7. /\ DOMAIN frames' = (DOMAIN frames \ S) \cup {n}
      /\ frames'[n] = f
      /\ \A m \in DOMAIN frames \ S : m # n => frames'[m] = frames[m]
  BY <1>2 DEF Put
<1>8. Cardinality(DOMAIN frames') <= MAX_INFLIGHT_FRAMES
  <2> DEFINE A == (DOMAIN frames \ Evicted(d)) \cup {n}
             B == DOMAIN frames'
  <2>1. B \in SUBSET A
    BY <1>7
  <2>2. IsFiniteSet(A)
    <3>1. A \in SUBSET (1 .. Len(sent)) /\ Len(sent) \in Nat
      BY <1>1 DEF TableOK, SentOK
    <3>2. IsFiniteSet(1 .. Len(sent))
      BY <3>1, FS_Interval
    <3> HIDE DEF A
    <3> QED
      BY <3>1, <3>2, FS_Subset
  <2>3. Cardinality(A) <= MAX_INFLIGHT_FRAMES
    BY <1>3
  <2> HIDE DEF A, B
  <2>4. Cardinality(B) <= Cardinality(A) /\ Cardinality(B) \in Nat /\ Cardinality(A) \in Nat
    BY <2>1, <2>2, FS_Subset, FS_CardinalityType
  <2>5. Cardinality(B) <= MAX_INFLIGHT_FRAMES
    BY <2>3, <2>4, StreamAssumption
  <2> QED
    BY <2>5 DEF B
<1>9. receiving' \in BOOLEAN /\ sink' \in BOOLEAN
  BY <1>2 DEF SentOK
<1> HIDE DEF S
<1>10. \A m \in DOMAIN frames' : DOMAIN frames'[m] = Fields
  BY <1>5, <1>7 DEF TableOK
<1>11. Turn(S, n, TRUE)
  BY <1>1, <1>2, <1>3, <1>4, <1>5, <1>6, <1>7, <1>8, <1>9, <1>10 DEF Turn
<1> QED
  BY <1>11 DEF S

LEMMA TickTurn ==
    ASSUME TableOK, SentOK, NEW cut, Tick(cut)
    PROVE  \E S : Turn(S, 0, FALSE)
<1> DEFINE S == {n \in DOMAIN frames : frames[n].ticked \/ frames[n].first_seen <= cut}
<1>1. /\ frames' = [n \in DOMAIN frames \ S |-> [frames[n] EXCEPT !.ticked = TRUE]]
      /\ Retire(S) /\ UNCHANGED <<sent, sequence_number, receiving, sink, delivered>>
  BY DEF Tick, hostVars
<1>2. S \subseteq DOMAIN frames
  OBVIOUS
<1> HIDE DEF S
<1>3. ASSUME NEW m \in DOMAIN frames \ S
      PROVE  DOMAIN frames'[m] = Fields /\ frames'[m].delivered = frames[m].delivered
  <2>1. frames'[m] = [frames[m] EXCEPT !.ticked = TRUE] /\ DOMAIN frames[m] = Fields
    BY <1>1 DEF TableOK
  <2> QED
    BY <2>1 DEF Fields
<1>4. DOMAIN frames' = DOMAIN frames \ S
  BY <1>1
<1>5. Cardinality(DOMAIN frames') <= MAX_INFLIGHT_FRAMES
  <2> DEFINE A == DOMAIN frames
             B == DOMAIN frames'
  <2>1. A \in SUBSET (1 .. Len(sent)) /\ Len(sent) \in Nat /\ B \in SUBSET A
        /\ Cardinality(A) <= MAX_INFLIGHT_FRAMES
    BY <1>4 DEF TableOK, SentOK
  <2> HIDE DEF A, B
  <2>2. IsFiniteSet(A)
    <3>1. IsFiniteSet(1 .. Len(sent))
      BY <2>1, FS_Interval
    <3> QED
      BY <2>1, <3>1, FS_Subset
  <2>3. Cardinality(B) <= Cardinality(A) /\ Cardinality(B) \in Nat /\ Cardinality(A) \in Nat
    BY <2>1, <2>2, FS_Subset, FS_CardinalityType
  <2>4. Cardinality(B) <= MAX_INFLIGHT_FRAMES
    BY <2>1, <2>3, StreamAssumption
  <2> QED
    BY <2>4 DEF B
<1>6. receiving' \in BOOLEAN /\ sink' \in BOOLEAN
  BY <1>1 DEF SentOK
<1>7. Turn(S, 0, FALSE)
  BY <1>1, <1>2, <1>3, <1>4, <1>5, <1>6 DEF Turn
<1> QED
  BY <1>7

\* Every step is a frame sent, a turn of the loop, or touches neither.
LEMMA NextTurn ==
    ASSUME TableOK, SentOK, [Next]_vars
    PROVE  \/ \E len \in Lens, poll \in Pcts : SendFrame(len, poll)
           \/ \E S : \E n \in Nat : \E done \in BOOLEAN : Turn(S, n, done)
           \/ /\ UNCHANGED <<sent, sequence_number, frames, last_retired, delivered, lost, fec>>
              /\ receiving' \in BOOLEAN /\ sink' \in BOOLEAN
<1>1. ASSUME NEW n \in DOMAIN sent, NEW d \in ShardsOf(n), PushShard(d) \/ PushCompletes(d)
      PROVE  \E S : \E m \in Nat : \E done \in BOOLEAN : Turn(S, m, done)
  <2>1. n \in Nat
    BY DEF SentOK
  <2> QED
    BY <1>1, <2>1, PushTurn, CompleteTurn
<1>2. ASSUME NEW cut \in 0 .. MaxFrames, Tick(cut)
      PROVE  \E S : \E m \in Nat : \E done \in BOOLEAN : Turn(S, m, done)
  BY <1>2, TickTurn
<1>3. CASE Stop \/ CloseSink \/ UNCHANGED vars
  BY <1>3 DEF Stop, CloseSink, vars, hostVars, dpVars, SentOK
<1> QED
  BY <1>1, <1>2, <1>3 DEF Next

-----------------------------------------------------------------------------
(* The inductive invariant.                                                *)

\* Division, as far as the layout of a frame needs it.
LEMMA DivFacts ==
    ASSUME NEW a \in Nat, NEW b \in Nat, b > 0
    PROVE  /\ a \div b \in Nat /\ b * (a \div b) <= a /\ a < b * (a \div b) + b
OBVIOUS

LEMMA Monotone ==
    ASSUME NEW a \in Int, NEW b \in Int, NEW c \in Nat, a <= b
    PROVE  a * c <= b * c
OBVIOUS

\* A block has room for data beside its parity.
LEMMA DataPerBlockOK ==
    ASSUME NEW pct \in 10 .. 60
    PROVE  DataPerBlock(pct) \in 1 .. MAX_SHARDS
<1> DEFINE k == (MAX_SHARDS * pct) \div (100 + pct)
<1>1. MAX_SHARDS \in Nat /\ MAX_SHARDS > 0 /\ MAX_SHARDS * pct \in Nat
  BY WireAssumption
<1>2. k \in Nat /\ (100 + pct) * k <= MAX_SHARDS * pct
  BY <1>1, DivFacts
<1> HIDE DEF k
<1>3. k < MAX_SHARDS
  <2>1. SUFFICES ASSUME MAX_SHARDS <= k PROVE FALSE
    BY <1>1, <1>2
  <2>2. MAX_SHARDS * (100 + pct) <= k * (100 + pct)
    BY <1>1, <1>2, <2>1, Monotone
  <2> QED
    BY <1>1, <1>2, <2>2
<1>4. MAX_SHARDS - k \in 1 .. MAX_SHARDS
  BY <1>1, <1>2, <1>3
<1> QED
  BY <1>4 DEF DataPerBlock, k

\* The layout is made of integers.
LEMMA LayoutOK ==
    ASSUME NEW len \in Lens, NEW pct \in 10 .. 60
    PROVE  /\ TotalDataShards(len) \in Nat \ {0}
           /\ NrBlocks(len, pct) \in 1 .. MAX_FEC_BLOCKS
           /\ \A data \in Int : parity_shard_count(data, pct) \in Nat
           /\ \A b \in Int : BlockData(len, pct, b) \in Int
<1>1. /\ len \in Nat /\ len > 0 /\ MAX_SHARDS \in Nat /\ MAX_FEC_BLOCKS \in 1 .. 4
      /\ HeaderSize \in Nat /\ PayloadSize \in Nat /\ PayloadSize > 0
  BY WireAssumption, StreamAssumption
<1>2. DataPerBlock(pct) \in Nat /\ DataPerBlock(pct) > 0
  BY <1>1, DataPerBlockOK
<1>3. TotalDataShards(len) \in Nat \ {0}
  <2>1. (HeaderSize + len + PayloadSize - 1) \div PayloadSize \in Int
    BY <1>1
  <2> QED
    BY <2>1 DEF TotalDataShards, MaxOf, CeilDiv
<1>4. NrBlocks(len, pct) \in 1 .. MAX_FEC_BLOCKS
  <2>1. (TotalDataShards(len) - 1) \div DataPerBlock(pct) \in Nat
    BY <1>2, <1>3, DivFacts
  <2> QED
    BY <1>1, <2>1 DEF NrBlocks, MinOf
<1>5. ASSUME NEW data \in Int PROVE parity_shard_count(data, pct) \in Nat
  <2>1. (data * pct + 100 - 1) \div 100 \in Int
    OBVIOUS
  <2> QED
    BY <1>1, <2>1 DEF parity_shard_count, MinOf, MaxOf, CeilDiv
<1>6. ASSUME NEW b \in Int PROVE BlockData(len, pct, b) \in Int
  BY <1>2, <1>3, <1>4 DEF BlockData, MinOf
<1> QED
  BY <1>3, <1>4, <1>5, <1>6

\* The next sequence number is one.
LEMMA SeqStep ==
    ASSUME NEW len \in Lens, NEW pct \in 10 .. 60, NEW seq \in 0 .. SeqMod - 1
    PROVE  NextSeq(len, pct, seq) \in 0 .. SeqMod - 1
<1> DEFINE final == NrBlocks(len, pct) - 1
<1>0. /\ NrBlocks(len, pct) \in 1 .. MAX_FEC_BLOCKS
      /\ \A data \in Int : parity_shard_count(data, pct) \in Nat
      /\ \A b \in Int : BlockData(len, pct, b) \in Int
  BY LayoutOK
<1>1. final \in Int /\ DataPerBlock(pct) \in Int
  BY <1>0, DataPerBlockOK, WireAssumption
<1>2. parity_shard_count(DataPerBlock(pct), pct) \in Int
  BY <1>0, <1>1
<1>3. BlockBase(len, pct, final) \in Int
  BY <1>1, <1>2 DEF BlockBase
<1>4. BlockTotal(len, pct, final) \in Int
  <2>1. BlockData(len, pct, final) \in Int
    BY <1>0, <1>1
  <2>2. parity_shard_count(BlockData(len, pct, final), pct) \in Int
    BY <1>0, <2>1
  <2> QED
    BY <2>1, <2>2 DEF BlockTotal
<1>5. SeqMod \in Nat /\ SeqMod > 0 /\ seq \in Int
  BY WireAssumption
<1>6. \A a \in Int : a % SeqMod \in 0 .. SeqMod - 1
  BY <1>5
<1>7. NextSeq(len, pct, seq) =
         (seq + BlockBase(len, pct, final) + BlockTotal(len, pct, final)) % SeqMod
  BY DEF NextSeq
<1> HIDE DEF final
<1> QED
  BY <1>3, <1>4, <1>5, <1>6, <1>7

LEMMA SentStep == ASSUME SentOK, TableOK, [Next]_vars PROVE SentOK'
<1>1. ASSUME NEW len \in Lens, NEW poll \in Pcts, SendFrame(len, poll) PROVE SentOK'
  <2>1. ClampPct(poll) \in 10 .. 60
    BY StreamAssumption DEF ClampPct, MinOf, MaxOf
  <2> DEFINE e == [len |-> len, pct |-> ClampPct(poll), seq |-> sequence_number]
  <2>2. e \in SentFrames
    BY <2>1 DEF SentFrames, SentOK
  <2>3. /\ sent' = Append(sent, e) /\ Len(sent) < MaxFrames
        /\ sequence_number' = NextSeq(len, ClampPct(poll), sequence_number)
        /\ UNCHANGED <<receiving, sink>>
    BY <1>1 DEF SendFrame
  <2> HIDE DEF e
  <2>4. sent' \in Seq(SentFrames) /\ Len(sent') = Len(sent) + 1 /\ Len(sent) \in Nat
    BY <2>2, <2>3, AppendProperties DEF SentOK
  <2>5. Len(sent') <= MaxFrames
    BY <2>3, <2>4, StreamAssumption
  <2>6. sequence_number' \in 0 .. SeqMod - 1
    BY <2>1, <2>3, SeqStep DEF SentOK
  <2> QED
    BY <2>3, <2>4, <2>5, <2>6 DEF SentOK
<1>2. ASSUME NEW S, NEW n, NEW done, Turn(S, n, done) PROVE SentOK'
  BY <1>2 DEF Turn, SentOK
<1>3. CASE /\ UNCHANGED <<sent, sequence_number, frames, last_retired, delivered, lost, fec>>
           /\ receiving' \in BOOLEAN /\ sink' \in BOOLEAN
  BY <1>3 DEF SentOK
<1> QED
  BY <1>1, <1>2, <1>3, NextTurn

\* A frame that is sent is none of the table, the losses or the deliveries.
LEMMA SendKeeps ==
    ASSUME SentOK, NEW len, NEW poll, SendFrame(len, poll)
    PROVE  /\ Len(sent') = Len(sent) + 1 /\ Len(sent) \in Nat
           /\ 1 .. Len(sent) \subseteq 1 .. Len(sent')
           /\ UNCHANGED <<frames, last_retired, delivered, lost, fec>>
<1>1. /\ sent' = Append(sent, [len |-> len, pct |-> ClampPct(poll), seq |-> sequence_number])
      /\ UNCHANGED <<frames, last_retired, delivered, lost, fec>>
  BY DEF SendFrame, dpVars
<1>2. Len(sent') = Len(sent) + 1 /\ Len(sent) \in Nat
  BY <1>1 DEF SentOK
<1> QED
  BY <1>1, <1>2

LEMMA TableStep == ASSUME SentOK, TableOK, [Next]_vars PROVE TableOK'
<1>1. ASSUME NEW len \in Lens, NEW poll \in Pcts, SendFrame(len, poll) PROVE TableOK'
  <2>1. /\ Len(sent') = Len(sent) + 1 /\ Len(sent) \in Nat
        /\ 1 .. Len(sent) \subseteq 1 .. Len(sent')
        /\ UNCHANGED <<frames, last_retired, lost>>
    BY <1>1, SendKeeps
  <2>2. last_retired' \in 0 .. Len(sent')
    BY <2>1 DEF TableOK
  <2> QED
    BY <2>1, <2>2 DEF TableOK, Losses
<1>2. ASSUME NEW S, NEW n \in Nat, NEW done, Turn(S, n, done) PROVE TableOK'
  <2>1. S \in SUBSET DOMAIN frames /\ Retire(S) /\ sent' = sent
    BY <1>2 DEF Turn
  <2>2. /\ last_retired' \in 0 .. Len(sent) /\ lost' \in [1 .. MaxFrames -> Nat]
        /\ Losses' = Losses \cup {m \in S : ~frames[m].delivered}
    BY <2>1, RetireOK
  <2>3. Losses' \subseteq 1 .. Len(sent)
    BY <2>1, <2>2 DEF TableOK
  <2>4. DOMAIN frames' \subseteq 1 .. Len(sent)
    <3>1. CASE n = 0
      BY <1>2, <3>1 DEF Turn, TableOK
    <3>2. CASE n > 0
      BY <1>2, <3>2 DEF Turn, TableOK
    <3> QED
      BY <3>1, <3>2
  <2> QED
    BY <1>2, <2>1, <2>2, <2>3, <2>4 DEF Turn, TableOK
<1>3. CASE UNCHANGED <<sent, frames, last_retired, lost>>
  BY <1>3 DEF TableOK, Losses
<1> QED
  BY <1>1, <1>2, <1>3, NextTurn

LEMMA FateStep == ASSUME SentOK, TableOK, FateOK, [Next]_vars PROVE FateOK'
<1>1. ASSUME NEW len \in Lens, NEW poll \in Pcts, SendFrame(len, poll) PROVE FateOK'
  <2>1. /\ 1 .. Len(sent) \subseteq 1 .. Len(sent')
        /\ UNCHANGED <<frames, last_retired, delivered, lost, fec>>
    BY <1>1, SendKeeps
  <2> QED
    BY <2>1 DEF FateOK, Losses
<1>2. ASSUME NEW S, NEW n \in Nat, NEW done \in BOOLEAN, Turn(S, n, done) PROVE FateOK'
  <2>1. /\ S \in SUBSET DOMAIN frames /\ Retire(S) /\ sent' = sent
        /\ DOMAIN frames' \subseteq (DOMAIN frames \ S) \cup ({n} \ {0})
        /\ \A m \in DOMAIN frames \ S : m \in DOMAIN frames'
        /\ \A m \in DOMAIN frames' : m # n => frames'[m].delivered = frames[m].delivered
        /\ n > 0 => /\ n \in 1 .. Len(sent) /\ last_retired < n /\ n \notin S
                    /\ frames'[n].delivered <=>
                          done \/ (n \in DOMAIN frames /\ frames[n].delivered)
        /\ n = 0 => ~done
    BY <1>2 DEF Turn
  <2>2. /\ last_retired' \in Nat /\ last_retired \in Nat /\ last_retired <= last_retired'
        /\ \A m \in S : m <= last_retired'
        /\ Losses' = Losses \cup {m \in S : ~frames[m].delivered}
        /\ \A m \in 1 .. MaxFrames :
              lost'[m] = IF m \in S /\ ~frames[m].delivered THEN lost[m] + 1 ELSE lost[m]
    BY <2>1, RetireOK DEF TableOK, SentOK
  <2>3. DOMAIN frames \subseteq Nat /\ Losses \subseteq Nat /\ 1 .. Len(sent) \subseteq Nat
    BY DEF TableOK, SentOK
  <2>4. ASSUME NEW m \in Losses'
        PROVE  lost'[m] = 1 /\ m \notin DOMAIN frames' /\ m <= last_retired'
    <3>0. m \in 1 .. MaxFrames /\ lost[m] \in Nat /\ (m \notin Losses => lost[m] = 0)
      BY DEF Losses, TableOK
    <3>1. CASE m \in Losses
      <4>1. m \notin DOMAIN frames /\ m <= last_retired /\ m \in Nat
        BY <3>1, <2>3 DEF FateOK
      <4>2. m <= last_retired'
        BY <4>1, <2>2
      <4>3. n > 0 => m # n
        BY <4>1, <2>1, <2>2
      <4>4. lost'[m] = 1
        BY <3>0, <3>1, <4>1, <2>1, <2>2 DEF FateOK
      <4> QED
        BY <4>1, <4>2, <4>3, <4>4, <2>1
    <3>2. CASE m \in S /\ ~frames[m].delivered
      <4>1. m \notin Losses
        BY <3>2, <2>1 DEF FateOK
      <4> QED
        BY <3>0, <3>2, <4>1, <2>1, <2>2
    <3> QED
      BY <3>1, <3>2, <2>2
  \* A delivery of the past.
  <2>5. ASSUME NEW i \in 1 .. Len(delivered)
        PROVE  LET m == delivered[i].frame IN
               /\ m \in 1 .. Len(sent) /\ m \notin Losses'
               /\ m \in DOMAIN frames' => frames'[m].delivered
               /\ m \notin DOMAIN frames' => m <= last_retired'
               /\ done => m # n
    <3> DEFINE m == delivered[i].frame
    <3>1. /\ m \in 1 .. Len(sent) /\ m \notin Losses
          /\ m \in DOMAIN frames => frames[m].delivered
          /\ m \notin DOMAIN frames => m <= last_retired
      BY DEF FateOK
    <3> HIDE DEF m
    <3>2. m \in Nat
      BY <3>1, <2>3
    <3>3. m \notin Losses'
      BY <3>1, <2>1, <2>2
    <3>4. ASSUME m \notin DOMAIN frames' PROVE m <= last_retired'
      <4>1. CASE m \in S
        BY <4>1, <2>2
      <4>2. CASE m \notin S
        <5>1. m <= last_retired
          BY <4>2, <3>4, <3>1, <2>1
        <5> QED
          BY <5>1, <3>2, <2>2
      <4> QED
        BY <4>1, <4>2
    <3>5. ASSUME m \in DOMAIN frames' PROVE frames'[m].delivered
      <4>1. CASE m = n
        <5>1. n > 0 /\ last_retired < m
          BY <4>1, <3>1, <2>1
        <5>2. m \in DOMAIN frames
          BY <5>1, <3>1, <3>2, <2>2
        <5> QED
          BY <4>1, <5>1, <5>2, <3>1, <2>1
      <4>2. CASE m # n
        BY <4>2, <3>5, <3>1, <2>1
      <4> QED
        BY <4>1, <4>2
    <3>6. ASSUME done PROVE m # n
      <4>1. n > 0 /\ ~(n \in DOMAIN frames /\ frames[n].delivered) /\ last_retired < n
        BY <3>6, <1>2 DEF Turn
      <4> QED
        BY <4>1, <3>1, <3>2, <2>2
    <3> QED
      BY <3>1, <3>3, <3>4, <3>5, <3>6 DEF m
  <2>6. CASE ~done
    <3>1. delivered' = delivered
      BY <1>2, <2>6 DEF Turn
    <3> QED
      BY <2>1, <2>4, <2>5, <3>1 DEF FateOK
  <2>7. CASE done
    <3>1. PICK e : e.frame = n /\ delivered' = Append(delivered, e)
      BY <1>2, <2>7 DEF Turn
    <3>2. /\ IsSeq(delivered') /\ Len(delivered) \in Nat /\ Len(delivered') = Len(delivered) + 1
          /\ \A i \in 1 .. Len(delivered) : delivered'[i] = delivered[i]
          /\ delivered'[Len(delivered) + 1] = e
      BY <3>1, IsSeqAppend DEF FateOK
    <3>3. /\ n > 0 /\ n \in 1 .. Len(sent) /\ n \notin Losses' /\ n \in DOMAIN frames'
          /\ frames'[n].delivered
      <4>1. /\ n > 0 /\ n \in 1 .. Len(sent) /\ last_retired < n /\ n \notin S
            /\ n \in DOMAIN frames'
            /\ frames'[n].delivered
        BY <1>2, <2>7 DEF Turn
      <4>2. n \notin Losses
        BY <4>1, <2>2 DEF FateOK
      <4> QED
        BY <4>1, <4>2, <2>2
    <3>4. \A i \in 1 .. Len(delivered') : i \in 1 .. Len(delivered) \/ i = Len(delivered) + 1
      BY <3>2
    <3>5. ASSUME NEW i \in 1 .. Len(delivered')
          PROVE  /\ delivered'[i].frame \in 1 .. Len(sent)
                 /\ delivered'[i].frame \notin Losses'
                 /\ delivered'[i].frame \in DOMAIN frames' =>
                    frames'[delivered'[i].frame].delivered
                 /\ delivered'[i].frame \notin DOMAIN frames' =>
                    delivered'[i].frame <= last_retired'
      <4>1. CASE i \in 1 .. Len(delivered)
        BY <4>1, <2>5, <3>2, Zenon
      <4>2. CASE i = Len(delivered) + 1
        BY <4>2, <3>1, <3>2, <3>3, Zenon
      <4> QED
        BY <3>4, <4>1, <4>2
    <3>6. ASSUME NEW i \in 1 .. Len(delivered'), NEW j \in 1 .. Len(delivered'),
                 delivered'[i].frame = delivered'[j].frame
          PROVE  i = j
      <4>1. \A x \in 1 .. Len(delivered) : delivered[x].frame # n
        BY <2>5, <2>7, Zenon
      <4>2. CASE i \in 1 .. Len(delivered) /\ j \in 1 .. Len(delivered)
        BY <4>2, <3>2, <3>6, Zenon DEF FateOK
      <4>3. CASE i = Len(delivered) + 1 /\ j \in 1 .. Len(delivered)
        BY <4>1, <4>3, <3>1, <3>2, <3>6, Zenon
      <4>4. CASE j = Len(delivered) + 1 /\ i \in 1 .. Len(delivered)
        BY <4>1, <4>4, <3>1, <3>2, <3>6, Zenon
      <4> QED
        BY <3>4, <4>2, <4>3, <4>4
    <3> QED
      BY <2>1, <2>4, <3>2, <3>5, <3>6 DEF FateOK
  <2> QED
    BY <2>6, <2>7
<1>3. CASE UNCHANGED <<sent, frames, last_retired, delivered, lost>>
  BY <1>3 DEF FateOK, Losses
<1> QED
  BY <1>1, <1>2, <1>3, NextTurn

LEMMA Initially == Init => IInv
<1> SUFFICES ASSUME Init PROVE IInv
  OBVIOUS
<1>1. SentOK
  BY EmptySeq, StreamAssumption, WireAssumption DEF Init, ReceiverStarted, SentOK
<1>2. TableOK
  <2>1. /\ DOMAIN frames = {} /\ Len(sent) = 0 /\ last_retired = 0
        /\ lost \in [1 .. MaxFrames -> Nat] /\ Losses = {}
    BY EmptySeq DEF Init, Losses
  <2> QED
    BY <2>1, FS_EmptySet, StreamAssumption DEF TableOK
<1>3. FateOK
  BY EmptySeq DEF Init, FateOK, IsSeq, Losses
<1> QED
  BY <1>1, <1>2, <1>3 DEF IInv

LEMMA Inductive == IInv /\ [Next]_vars => IInv'
BY SentStep, TableStep, FateStep DEF IInv

LEMMA Invariance == Spec => []IInv
BY Initially, Inductive, PTL DEF Spec

\* The variables keep their shape: frames in assembly are frames that were sent,
\* and the table never outgrows MAX_INFLIGHT_FRAMES (Depacketizer::push makes
\* room before it inserts), however shards are lost, repeated or reordered.
THEOREM TypeCorrect == Spec => []TypeOK
<1>1. IInv => TypeOK
  <2> SUFFICES ASSUME IInv PROVE TypeOK
    OBVIOUS
  <2>1. SentOK /\ TableOK
    BY DEF IInv
  <2>2. Len(sent) \in Nat /\ Len(sent) <= MaxFrames /\ MaxFrames \in Nat
        /\ 1 .. Len(sent) \subseteq Numbers
    BY <2>1, StreamAssumption DEF SentOK, Numbers
  <2>3. \A n \in DOMAIN sent : sent[n] \in SentFrames
    BY <2>1 DEF SentOK
  <2>4. last_retired \in 0 .. MaxFrames
    BY <2>1, <2>2 DEF TableOK
  <2>5. lost \in [Numbers -> Nat] /\ DOMAIN frames \subseteq Numbers
    BY <2>1, <2>2 DEF TableOK, Numbers
  <2>6. /\ sequence_number \in 0 .. SeqMod - 1 /\ receiving \in BOOLEAN /\ sink \in BOOLEAN
        /\ Cardinality(DOMAIN frames) <= MAX_INFLIGHT_FRAMES
    BY <2>1 DEF SentOK, TableOK
  <2> QED
    BY <2>3, <2>4, <2>5, <2>6 DEF TypeOK, SentFrames
<1> QED
  BY <1>1, Invariance, PTL

-----------------------------------------------------------------------------
(* One fate for every frame.                                               *)

\* The frame handed over in a turn, if there is one.
HandedOver(n, done) == IF done THEN {n} ELSE {}

\* With at most one hand-over, and none of a frame that was reported Lost, the
\* verdict is the one there was.
LEMMA VerdictIs ==
    ASSUME NEW times \in {0, 1}, NEW handed, \A i, j \in handed : i = j,
           times = 1 => handed = {}
    PROVE  Verdict(times, handed) = IF times = 1 THEN "lost"
                                    ELSE IF handed # {} THEN "delivered" ELSE "open"
<1>1. CASE handed = {}
  BY <1>1 DEF Verdict
<1>2. CASE handed # {}
  <2>1. PICK i \in handed : handed = {i}
    BY <1>2
  <2>2. times = 0
    BY <1>2
  <2> QED
    BY <1>2, <2>1, <2>2 DEF Verdict
<1> QED
  BY <1>1, <1>2

\* In every state of the receiver: at most one verdict on a frame, which Fate tells.
LEMMA FateIs ==
    ASSUME IInv, NEW m \in 1 .. MaxFrames
    PROVE  Fate(m) = IF m \in Losses THEN "lost"
                     ELSE IF \E i \in DOMAIN delivered : delivered[i].frame = m
                          THEN "delivered" ELSE "open"
<1> DEFINE H == {i \in DOMAIN delivered : delivered[i].frame = m}
<1>1. SentOK /\ TableOK /\ FateOK /\ DOMAIN delivered = 1 .. Len(delivered)
  BY IsSeqAppend DEF IInv, FateOK
<1>2. lost[m] \in {0, 1} /\ (m \in Losses <=> lost[m] = 1)
  BY <1>1 DEF FateOK, TableOK, Losses
<1>3. \A i, j \in H : i = j
  BY <1>1 DEF FateOK
<1>4. lost[m] = 1 => H = {}
  BY <1>1, <1>2 DEF FateOK
<1>5. Fate(m) = Verdict(lost[m], H)
  BY DEF Fate
<1>6. (\E i \in DOMAIN delivered : delivered[i].frame = m) <=> H # {}
  OBVIOUS
<1> HIDE DEF H
<1>7. Verdict(lost[m], H) = IF lost[m] = 1 THEN "lost"
                            ELSE IF H # {} THEN "delivered" ELSE "open"
  BY <1>2, <1>3, <1>4, VerdictIs
<1> QED
  BY <1>2, <1>5, <1>6, <1>7

\* The same of the next state.
LEMMA FateWillBe ==
    ASSUME IInv', NEW m \in 1 .. MaxFrames
    PROVE  Fate(m)' = IF m \in Losses' THEN "lost"
                      ELSE IF \E i \in DOMAIN delivered' : delivered'[i].frame = m
                           THEN "delivered" ELSE "open"
<1> DEFINE H == {i \in DOMAIN delivered' : delivered'[i].frame = m}
<1>1. SentOK' /\ TableOK' /\ FateOK' /\ DOMAIN delivered' = 1 .. Len(delivered')
  BY IsSeqAppend DEF IInv, FateOK
<1>2. lost'[m] \in {0, 1} /\ (m \in Losses' <=> lost'[m] = 1)
  BY <1>1 DEF FateOK, TableOK, Losses
<1>3. \A i, j \in H : i = j
  BY <1>1 DEF FateOK
<1>4. lost'[m] = 1 => H = {}
  BY <1>1, <1>2 DEF FateOK
<1>5. Fate(m)' = Verdict(lost'[m], H)
  BY DEF Fate, Verdict
<1>6. (\E i \in DOMAIN delivered' : delivered'[i].frame = m) <=> H # {}
  OBVIOUS
<1> HIDE DEF H
<1>7. Verdict(lost'[m], H) = IF lost'[m] = 1 THEN "lost"
                             ELSE IF H # {} THEN "delivered" ELSE "open"
  BY <1>2, <1>3, <1>4, VerdictIs
<1> QED
  BY <1>2, <1>5, <1>6, <1>7

\* A turn settles the frames it retires undelivered as lost and the completed one
\* as delivered; all of them were open.  It leaves every other fate alone.
LEMMA FateAfter ==
    ASSUME IInv, IInv', NEW S, NEW n \in Nat, NEW done \in BOOLEAN, Turn(S, n, done),
           NEW m \in 1 .. MaxFrames
    PROVE  /\ Fate(m)' = IF m \in LostOf(S) THEN "lost"
                         ELSE IF m \in HandedOver(n, done) THEN "delivered" ELSE Fate(m)
           /\ m \in LostOf(S) \cup HandedOver(n, done) =>
                 m \in 1 .. Len(sent) /\ m <= Len(sent) /\ Fate(m) = "open"
<1> DEFINE L == {k \in S : ~frames[k].delivered}
           D == IF done THEN {n} ELSE {}
           Out(k) == \E i \in DOMAIN delivered : delivered[i].frame = k
<1>1. /\ S \in SUBSET DOMAIN frames /\ Retire(S) /\ sent' = sent
      /\ done => n \in 1 .. Len(sent) /\ last_retired < n /\ n \notin S
      /\ done => ~(n \in DOMAIN frames /\ frames[n].delivered)
      /\ SentOK /\ TableOK /\ FateOK
  BY DEF Turn, IInv
<1>2. Losses' = Losses \cup L
  BY <1>1, RetireOK
<1>3. /\ DOMAIN delivered = 1 .. Len(delivered) /\ Len(delivered) \in Nat
      /\ last_retired \in Nat
  BY <1>1, IsSeqAppend DEF FateOK, TableOK, SentOK
<1>4. L \in SUBSET (1 .. Len(sent)) /\ L \cap D = {} /\ D \subseteq 1 .. Len(sent)
  BY <1>1 DEF TableOK
<1>5. ASSUME m \in L \cup D PROVE m \notin Losses /\ ~Out(m) /\ m <= Len(sent)
  <2>1. m \in 1 .. Len(sent) /\ Len(sent) \in Nat
    BY <1>1, <1>4, <1>5 DEF SentOK
  <2>2. CASE m \in L
    <3>1. m \in DOMAIN frames /\ ~frames[m].delivered
      BY <2>2, <1>1
    <3> QED
      BY <2>1, <3>1, <1>1, <1>3 DEF FateOK
  <2>3. CASE m \in D
    <3>1. done /\ m = n
      BY <2>3
    <3>2. ~(m <= last_retired)
      BY <3>1, <2>1, <1>1, <1>3
    <3>3. ~(m \in DOMAIN frames /\ frames[m].delivered)
      BY <3>1, <1>1
    <3> QED
      BY <2>1, <3>2, <3>3, <1>1, <1>3 DEF FateOK
  <2> QED
    BY <1>5, <2>2, <2>3
<1>6. Out(m)' <=> Out(m) \/ m \in D
  <2>1. CASE ~done
    BY <2>1 DEF Turn
  <2>2. CASE done
    <3>1. PICK e : e.frame = n /\ delivered' = Append(delivered, e)
      BY <2>2 DEF Turn
    <3>2. /\ IsSeq(delivered') /\ Len(delivered') = Len(delivered) + 1
          /\ \A i \in 1 .. Len(delivered) : delivered'[i] = delivered[i]
          /\ delivered'[Len(delivered) + 1] = e
      BY <3>1, <1>1, IsSeqAppend DEF FateOK
    <3>3. DOMAIN delivered' = 1 .. Len(delivered')
      BY <3>2, IsSeqAppend
    <3>4. DOMAIN delivered' = (DOMAIN delivered) \cup {Len(delivered) + 1}
      BY <3>2, <3>3, <1>3
    <3> QED
      BY <2>2, <3>1, <3>2, <3>4, <1>3, Zenon
  <2> QED
    BY <2>1, <2>2
<1> HIDE DEF L, D, Out
<1>7. /\ Fate(m) = IF m \in Losses THEN "lost" ELSE IF Out(m) THEN "delivered" ELSE "open"
      /\ Fate(m)' = IF m \in Losses' THEN "lost" ELSE IF Out(m)' THEN "delivered" ELSE "open"
  BY FateIs, FateWillBe DEF Out
<1>8. /\ Fate(m)' = IF m \in L THEN "lost" ELSE IF m \in D THEN "delivered" ELSE Fate(m)
      /\ m \in L \cup D => m \in 1 .. Len(sent) /\ m <= Len(sent) /\ Fate(m) = "open"
  BY <1>2, <1>4, <1>5, <1>6, <1>7
<1>9. LostOf(S) = L /\ HandedOver(n, done) = D
  BY DEF LostOf, HandedOver, L, D
<1> QED
  BY <1>8, <1>9

\* Every turn of the loop is a step of FrameFate.
LEMMA FateTurn ==
    ASSUME IInv, IInv', NEW S, NEW n \in Nat, NEW done \in BOOLEAN, Turn(S, n, done)
    PROVE  Abstract!FateNext
<1> DEFINE L == LostOf(S)
           D == HandedOver(n, done)
           fate == [m \in 1 .. MaxFrames |-> Fate(m)]
<1>1. \A m \in 1 .. MaxFrames :
             /\ Fate(m)' = IF m \in L THEN "lost" ELSE IF m \in D THEN "delivered" ELSE Fate(m)
             /\ m \in L \cup D => m \in 1 .. Len(sent) /\ m <= Len(sent) /\ Fate(m) = "open"
  BY FateAfter
<1>2. /\ sent' = sent /\ SentOK /\ L \subseteq S /\ S \subseteq 1 .. Len(sent)
      /\ done => n \in 1 .. Len(sent) /\ n \notin S
  BY DEF Turn, IInv, LostOf, TableOK
<1>3. 1 .. Len(sent) \subseteq 1 .. MaxFrames
  BY <1>2, StreamAssumption DEF SentOK
<1>4. L \in SUBSET (1 .. Len(sent)) /\ L \cap D = {} /\ D \subseteq 1 .. Len(sent)
  BY <1>2 DEF HandedOver
<1> HIDE DEF L, D
<1>5. /\ \A m \in L \cup D : m <= Len(sent) /\ fate[m] = "open"
      /\ fate' = [m \in DOMAIN fate |-> IF m \in L THEN "lost"
                                        ELSE IF m \in D THEN "delivered" ELSE fate[m]]
      /\ Len(sent)' = Len(sent)
  <2>1. \A m \in L \cup D : m \in 1 .. MaxFrames
    BY <1>3, <1>4
  <2>2. \A m \in L \cup D : m <= Len(sent) /\ fate[m] = "open"
    BY <1>1, <2>1
  <2>3. fate' = [m \in 1 .. MaxFrames |-> Fate(m)']
    OBVIOUS
  <2>4. \A m \in 1 .. MaxFrames : Fate(m)' = IF m \in L THEN "lost"
                                       ELSE IF m \in D THEN "delivered" ELSE fate[m]
    BY <1>1
  <2>5. DOMAIN fate = 1 .. MaxFrames
    OBVIOUS
  <2> HIDE DEF fate
  <2>6. fate' = [m \in DOMAIN fate |-> IF m \in L THEN "lost"
                                        ELSE IF m \in D THEN "delivered" ELSE fate[m]]
    BY <2>3, <2>4, <2>5
  <2> QED
    BY <1>2, <2>2, <2>6
<1>6. Abstract!Settle(L, D)
  BY <1>4, <1>5 DEF Abstract!Settle
<1>7. CASE done
  <2>1. D = {n} /\ n \in (1 .. Len(sent)) \ L
    BY <1>7, <1>2, <1>4 DEF D, HandedOver
  <2> QED
    BY <1>4, <1>6, <2>1 DEF Abstract!FateNext
<1>8. CASE ~done
  <2>1. D = {}
    BY <1>8 DEF D, HandedOver
  <2> QED
    BY <1>4, <1>6, <2>1 DEF Abstract!FateNext
<1> QED
  BY <1>7, <1>8

\* However shards are lost, repeated, reordered or late, a frame has one fate:
\* the receiver implements FrameFate, where a second verdict on a frame, of either
\* kind and in either order, is no step (video.rs: the watermark last_retired, the
\* mark `delivered' and retire).
THEOREM FramesHaveOneFate == Spec => OneFate
<1>1. Init => Abstract!FateInit
  BY EmptySeq DEF Init, Abstract!FateInit, Fate, Verdict
<1>2. ASSUME IInv, [Next]_vars PROVE [Abstract!FateNext]_(Abstract!fateVars)
  <2>0. SentOK /\ TableOK
    BY <1>2 DEF IInv
  <2>1. ASSUME NEW len \in Lens, NEW poll \in Pcts, SendFrame(len, poll) PROVE Abstract!FateNext
    <3>1. Len(sent') = Len(sent) + 1 /\ UNCHANGED <<lost, delivered>>
      BY <2>0, <2>1, SendKeeps
    <3>2. Len(sent) < MaxFrames
      BY <2>1 DEF SendFrame
    <3>3. UNCHANGED [m \in 1 .. MaxFrames |-> Fate(m)]
      BY <3>1 DEF Fate, Verdict
    <3> QED
      BY <3>1, <3>2, <3>3 DEF Abstract!FateNext, Abstract!Send
  <2>2. ASSUME NEW S, NEW n \in Nat, NEW done \in BOOLEAN, Turn(S, n, done)
        PROVE  Abstract!FateNext
    BY <1>2, <2>2, FateTurn, Inductive
  <2>3. CASE UNCHANGED <<sent, delivered, lost>>
    BY <2>3 DEF Abstract!fateVars, Fate, Verdict
  <2> QED
    BY <1>2, <2>0, <2>1, <2>2, <2>3, NextTurn
<1> QED
  BY <1>1, <1>2, Invariance, PTL DEF Spec, OneFate, Abstract!FateSpec

\* A frame that is marked as delivered in the table was handed over.
MarksOK ==
    \A m \in DOMAIN frames :
        frames[m].delivered => \E i \in DOMAIN delivered : delivered[i].frame = m

LEMMA MarksStep == ASSUME IInv, MarksOK, [Next]_vars PROVE MarksOK'
<1>0. SentOK /\ TableOK /\ FateOK
  BY DEF IInv
<1>1. ASSUME NEW len \in Lens, NEW poll \in Pcts, SendFrame(len, poll) PROVE MarksOK'
  BY <1>0, <1>1, SendKeeps DEF MarksOK
<1>2. ASSUME NEW S, NEW n \in Nat, NEW done \in BOOLEAN, Turn(S, n, done) PROVE MarksOK'
  <2> SUFFICES ASSUME NEW m \in DOMAIN frames', frames'[m].delivered
               PROVE  \E i \in DOMAIN delivered' : delivered'[i].frame = m
    BY DEF MarksOK
  <2>1. /\ DOMAIN delivered \subseteq DOMAIN delivered'
        /\ \A i \in DOMAIN delivered : delivered'[i] = delivered[i]
        /\ done => \E i \in DOMAIN delivered' : delivered'[i].frame = n
    <3>1. CASE ~done
      BY <1>2, <3>1 DEF Turn
    <3>2. CASE done
      <4>1. PICK e : e.frame = n /\ delivered' = Append(delivered, e)
        BY <1>2, <3>2 DEF Turn
      <4>2. /\ IsSeq(delivered') /\ Len(delivered') = Len(delivered) + 1
            /\ \A i \in 1 .. Len(delivered) : delivered'[i] = delivered[i]
            /\ delivered'[Len(delivered) + 1] = e /\ Len(delivered) \in Nat
            /\ DOMAIN delivered = 1 .. Len(delivered)
        BY <4>1, <1>0, IsSeqAppend DEF FateOK
      <4>3. DOMAIN delivered' = 1 .. Len(delivered')
        BY <4>2, IsSeqAppend
      <4>4. DOMAIN delivered' = (DOMAIN delivered) \cup {Len(delivered) + 1}
        BY <4>2, <4>3
      <4> QED
        BY <4>1, <4>2, <4>4, Zenon
    <3> QED
      BY <3>1, <3>2
  <2>2. CASE done /\ m = n
    BY <2>1, <2>2
  <2>3. CASE ~(done /\ m = n)
    <3>1. m \in DOMAIN frames /\ frames[m].delivered
      BY <1>2, <2>3 DEF Turn
    <3>2. PICK i \in DOMAIN delivered : delivered[i].frame = m
      BY <3>1 DEF MarksOK
    <3> QED
      BY <2>1, <3>2
  <2> QED
    BY <2>2, <2>3
<1>3. CASE UNCHANGED <<frames, delivered>>
  BY <1>3 DEF MarksOK
<1> QED
  BY <1>0, <1>1, <1>2, <1>3, NextTurn

\* What leaves the table has its fate and lies below the watermark; what is
\* below the watermark and not in the table never enters it, and keeps its fate.
Settles ==
    /\ last_retired <= last_retired'
    /\ \A m \in (DOMAIN frames) \ (DOMAIN frames') :
          m <= last_retired' /\ Fate(m)' \in {"lost", "delivered"}
    /\ \A m \in 1 .. last_retired :
          m \notin DOMAIN frames => m \notin DOMAIN frames' /\ Fate(m)' = Fate(m)

LEMMA TurnSettles ==
    ASSUME IInv, IInv', MarksOK, NEW S, NEW n \in Nat, NEW done \in BOOLEAN, Turn(S, n, done)
    PROVE  Settles
<1>1. /\ S \in SUBSET DOMAIN frames /\ Retire(S)
      /\ DOMAIN frames' \subseteq (DOMAIN frames \ S) \cup ({n} \ {0})
      /\ \A m \in DOMAIN frames \ S : m \in DOMAIN frames'
      /\ n > 0 => last_retired < n /\ n \notin S
      /\ done => n > 0
      /\ SentOK /\ TableOK /\ FateOK
  BY DEF Turn, IInv
<1>2. /\ last_retired \in Nat /\ last_retired <= last_retired'
      /\ \A m \in S : m <= last_retired'
  BY <1>1, RetireOK DEF TableOK, SentOK
<1>0. DOMAIN frames \subseteq 1 .. MaxFrames /\ 1 .. last_retired \subseteq 1 .. MaxFrames
  BY <1>1, StreamAssumption DEF TableOK, SentOK
<1>3. ASSUME NEW m \in (DOMAIN frames) \ (DOMAIN frames')
      PROVE  m <= last_retired' /\ Fate(m)' \in {"lost", "delivered"}
  <2>1. m \in S
    BY <1>1
  <2>2. CASE ~frames[m].delivered
    <3>1. m \in LostOf(S)
      BY <2>1, <2>2 DEF LostOf
    <3> QED
      BY <1>0, <1>2, <2>1, <3>1, FateAfter
  <2>3. CASE frames[m].delivered
    <3>1. m \notin Losses
      BY <1>1, <2>1 DEF FateOK
    <3>2. Fate(m) = "delivered"
      BY <1>0, <2>1, <2>3, <3>1, <1>1, FateIs DEF MarksOK
    <3> QED
      BY <1>0, <1>2, <2>1, <3>2, FateAfter
  <2> QED
    BY <2>2, <2>3
<1>4. ASSUME NEW m \in 1 .. last_retired, m \notin DOMAIN frames
      PROVE  m \notin DOMAIN frames' /\ Fate(m)' = Fate(m)
  <2>1. n > 0 => m # n
    BY <1>1, <1>2
  <2>2. m \notin LostOf(S) /\ m \notin HandedOver(n, done)
    BY <1>1, <1>4, <2>1 DEF LostOf, HandedOver
  <2>3. m \notin DOMAIN frames'
    BY <1>1, <1>4, <2>1
  <2> QED
    BY <1>0, <2>2, <2>3, FateAfter
<1> QED
  BY <1>2, <1>3, <1>4 DEF Settles

\* A frame that left the table is settled for good: it was handed over or reported
\* Lost, and no late, repeated or reordered shard brings it back (video.rs, the
\* watermark last_retired, which never falls).  With FramesSettle, which says that
\* every frame leaves the table, every frame of which a shard arrives has its fate.
THEOREM SettledForGood == Spec => [][Settles]_vars
<1>1. Init => MarksOK
  BY DEF Init, MarksOK
<1>2. IInv /\ MarksOK /\ [Next]_vars => MarksOK'
  BY MarksStep
<1>3. ASSUME IInv, MarksOK, [Next]_vars PROVE [Settles]_vars
  <2>0. SentOK /\ TableOK /\ last_retired \in Int
    BY <1>3 DEF IInv, TableOK, SentOK
  <2>1. ASSUME UNCHANGED <<frames, last_retired, delivered, lost>> PROVE Settles
    BY <2>0, <2>1 DEF Settles, Fate, Verdict
  <2>2. ASSUME NEW len \in Lens, NEW poll \in Pcts, SendFrame(len, poll) PROVE Settles
    BY <2>0, <2>1, <2>2, SendKeeps
  <2>3. ASSUME NEW S, NEW n \in Nat, NEW done \in BOOLEAN, Turn(S, n, done) PROVE Settles
    BY <1>3, <2>3, TurnSettles, Inductive
  <2> QED
    BY <1>3, <2>0, <2>1, <2>2, <2>3, NextTurn
<1> QED
  BY <1>1, <1>2, <1>3, Invariance, PTL DEF Spec

-----------------------------------------------------------------------------
(* The layout of a frame.                                                  *)

\* The access units fit into MAX_FEC_BLOCKS blocks: packetize_frame puts what is
\* left into the last block, and a block of more than MAX_SHARDS data shards is
\* one the receiver refuses.
FramesFit ==
    \A len \in Lens, pct \in 10 .. 60 :
        TotalDataShards(len) <= MAX_FEC_BLOCKS * DataPerBlock(pct)

\* Division with remainder is unique.
LEMMA DivMod ==
    ASSUME NEW a \in Int, NEW b \in Nat, b > 0
    PROVE  a = (a \div b) * b + (a % b) /\ a % b \in 0 .. b - 1 /\ a \div b \in Int
OBVIOUS

LEMMA DivModUnique ==
    ASSUME NEW a \in Int, NEW b \in Nat, b > 0, NEW q \in Int, NEW r \in 0 .. b - 1,
           a = q * b + r
    PROVE  a % b = r /\ a \div b = q
<1>1. ASSUME NEW x \in Int, NEW y \in Int, x < y, NEW s \in 0 .. b - 1, NEW t \in 0 .. b - 1
      PROVE  x * b + s < y * b + t
  <2>1. (x + 1) * b <= y * b
    BY <1>1, Monotone
  <2>2. (x + 1) * b = x * b + b /\ x * b \in Int /\ y * b \in Int
    OBVIOUS
  <2> QED
    BY <2>1, <2>2
<1>2. ASSUME NEW q2 \in Int, NEW r2 \in 0 .. b - 1, q * b + r = q2 * b + r2
      PROVE  q = q2 /\ r = r2
  <2>1. q = q2
    BY <1>1, <1>2
  <2> QED
    BY <1>2, <2>1
<1> QED
  BY <1>2, DivMod

\* Whole rounds do not matter.
LEMMA ModRounds ==
    ASSUME NEW a \in Int, NEW k \in Int, NEW b \in Nat, b > 0
    PROVE  (a + k * b) % b = a % b
<1>1. a + k * b = ((a \div b) + k) * b + (a % b)
  <2>1. a = (a \div b) * b + (a % b) /\ a % b \in 0 .. b - 1 /\ a \div b \in Int
    BY DivMod
  <2>2. \A x, y, z \in Int : (x + y) * z = x * z + y * z
    OBVIOUS
  <2> QED
    BY <2>1, <2>2
<1>2. a % b \in 0 .. b - 1 /\ (a \div b) + k \in Int /\ a + k * b \in Int
  BY DivMod
<1> QED
  BY <1>1, <1>2, DivModUnique

\* The distance of two sequence numbers is the distance of what they number,
\* across the wrap.
LEMMA MinusOK ==
    ASSUME NEW a \in Int, NEW p \in Int, NEW q \in Int
    PROVE  /\ p >= q /\ p - q < SeqMod =>
                Minus((a + p) % SeqMod, (a + q) % SeqMod) = p - q
           /\ p < q /\ q - p < SeqMod =>
                Minus((a + p) % SeqMod, (a + q) % SeqMod) = SeqMod - (q - p)
<1> DEFINE x == (a + p) % SeqMod
           y == (a + q) % SeqMod
           k == (a + p) \div SeqMod
           l == (a + q) \div SeqMod
<1>0. SeqMod \in Nat /\ SeqMod > 0
  BY WireAssumption
<1>1. /\ a + p = k * SeqMod + x /\ k \in Int /\ x \in Int
      /\ a + q = l * SeqMod + y /\ l \in Int /\ y \in Int
  BY <1>0, DivMod
<1> HIDE DEF x, y, k, l
<1>2. x - y + SeqMod = (p - q) + (l - k + 1) * SeqMod
  <2>1. (l - k + 1) * SeqMod = l * SeqMod - k * SeqMod + SeqMod
    BY <1>0, <1>1
  <2>2. l * SeqMod \in Int /\ k * SeqMod \in Int
    BY <1>0, <1>1
  <2> QED
    BY <1>0, <1>1, <2>1, <2>2
<1>3. Minus(x, y) = (p - q) % SeqMod
  <2>1. p - q \in Int /\ l - k + 1 \in Int
    BY <1>1
  <2>2. ((p - q) + (l - k + 1) * SeqMod) % SeqMod = (p - q) % SeqMod
    BY <1>0, <2>1, ModRounds
  <2> QED
    BY <1>2, <2>2 DEF Minus
<1>4. ASSUME p >= q, p - q < SeqMod PROVE (p - q) % SeqMod = p - q
  <2>1. p - q \in 0 .. SeqMod - 1 /\ p - q \in Int /\ p - q = 0 * SeqMod + (p - q)
    BY <1>0, <1>4
  <2> QED
    BY <1>0, <2>1, DivModUnique
<1>5. ASSUME p < q, q - p < SeqMod PROVE (p - q) % SeqMod = SeqMod - (q - p)
  <2>1. /\ SeqMod - (q - p) \in 0 .. SeqMod - 1 /\ p - q \in Int
        /\ p - q = (-1) * SeqMod + (SeqMod - (q - p))
    BY <1>0, <1>5
  <2> QED
    BY <1>0, <2>1, DivModUnique
<1> QED
  BY <1>3, <1>4, <1>5 DEF x, y

\* The fields of the headers come out as they went in.
LEMMA UnpackInfo ==
    ASSUME NEW p \in 0 .. 255, NEW i \in 0 .. 1023, NEW d \in 0 .. 1023
    PROVE  /\ fec_percentage(pack_fec_info(i, d, p)) = p
           /\ shard_index(pack_fec_info(i, d, p)) = i
           /\ data_shards(pack_fec_info(i, d, p)) = d
<1>1. pack_fec_info(i, d, p) = p + 256 * i + 262144 * d
  BY DEF pack_fec_info
<1>2. (p + 256 * i + 262144 * d) % 256 = p
  OBVIOUS
<1>3. (p + 256 * i + 262144 * d) \div 256 = i + 1024 * d
  OBVIOUS
<1>4. (p + 256 * i + 262144 * d) \div 262144 = d
  OBVIOUS
<1>5. (i + 1024 * d) % 1024 = i /\ d % 1024 = d
  OBVIOUS
<1> QED
  BY <1>1, <1>2, <1>3, <1>4, <1>5 DEF fec_percentage, shard_index, data_shards

LEMMA UnpackMulti ==
    ASSUME NEW b \in 0 .. 3, NEW c \in 1 .. 4
    PROVE  /\ block_index(pack_multi_fec_blocks(b, c)) = b
           /\ block_count(pack_multi_fec_blocks(b, c)) = c
BY DEF block_index, block_count, pack_multi_fec_blocks

\* All blocks but the last are full, the last has what is left, and no block has
\* more than MAX_SHARDS shards.
LEMMA BlocksOK ==
    ASSUME FramesFit, NEW len \in Lens, NEW pct \in 10 .. 60
    PROVE  LET k == NrBlocks(len, pct) - 1
               D == DataPerBlock(pct)
           IN  /\ k \in 0 .. 3 /\ D \in 1 .. 255
               /\ \A b \in 0 .. k :
                    /\ b < k => BlockData(len, pct, b) = D
                    /\ b = k => BlockData(len, pct, b) = TotalDataShards(len) - k * D
                    /\ BlockData(len, pct, b) \in 1 .. D
                    /\ parity_shard_count(BlockData(len, pct, b), pct) \in Nat
                    /\ BlockTotal(len, pct, b) \in 1 .. MAX_SHARDS
<1> DEFINE k == NrBlocks(len, pct) - 1
           D == DataPerBlock(pct)
           T == TotalDataShards(len)
           j == (T - 1) \div D
<1>1. /\ D \in 1 .. MAX_SHARDS /\ MAX_SHARDS \in 2 .. 255 /\ MAX_FEC_BLOCKS \in 1 .. 4
      /\ T \in Nat /\ T > 0 /\ T <= MAX_FEC_BLOCKS * D
  <2>1. T \in Nat \ {0}
    BY LayoutOK
  <2>2. D \in 1 .. MAX_SHARDS
    BY DataPerBlockOK
  <2>3. T <= MAX_FEC_BLOCKS * D
    BY DEF FramesFit
  <2> QED
    BY <2>1, <2>2, <2>3, WireAssumption
<1>2. /\ NrBlocks(len, pct) = MinOf(j + 1, MAX_FEC_BLOCKS)
      /\ \A b : BlockData(len, pct, b) =
                  (IF b = k THEN T ELSE MinOf((b + 1) * D, T)) - b * D
  BY DEF NrBlocks, BlockData
<1>3. \A x \in Nat : parity_shard_count(x, pct) \in Nat /\
                     (x <= MAX_SHARDS => x + parity_shard_count(x, pct) <= MAX_SHARDS)
  <2> TAKE x \in Nat
  <2>0. \A data \in Int : parity_shard_count(data, pct) \in Nat
    BY LayoutOK
  <2>1. parity_shard_count(x, pct) \in Nat
    BY <2>0
  <2>2. (x * pct + 100 - 1) \div 100 \in Int
    OBVIOUS
  <2> QED
    BY <1>1, <2>1, <2>2 DEF parity_shard_count, MinOf, MaxOf, CeilDiv
<1> HIDE DEF D, T, k
<1>4. j \in Nat /\ D * j <= T - 1 /\ T - 1 < D * j + D
  BY <1>1, DivFacts
<1> HIDE DEF j
<1>5. j + 1 <= MAX_FEC_BLOCKS
  <2>1. SUFFICES ASSUME MAX_FEC_BLOCKS <= j PROVE FALSE
    BY <1>1, <1>4
  <2>2. MAX_FEC_BLOCKS * D <= j * D
    BY <1>1, <1>4, <2>1, Monotone
  <2> QED
    BY <1>1, <1>4, <2>2
<1>6. k = j /\ k \in 0 .. 3
  BY <1>1, <1>2, <1>4, <1>5 DEF k, MinOf
<1>7. ASSUME NEW b \in 0 .. k
      PROVE  /\ b < k => BlockData(len, pct, b) = D
             /\ b = k => BlockData(len, pct, b) = T - k * D
             /\ BlockData(len, pct, b) \in 1 .. D
  <2>1. CASE b = k
    <3>1. BlockData(len, pct, b) = T - k * D
      BY <1>2, <2>1
    <3>2. T - k * D \in 1 .. D
      BY <1>1, <1>4, <1>6
    <3> QED
      BY <2>1, <3>1, <3>2, <1>6
  <2>2. CASE b < k
    <3>1. (b + 1) * D <= k * D
      BY <1>1, <1>6, <2>2, Monotone
    <3>2. (b + 1) * D = b * D + D /\ b * D \in Int /\ k * D \in Int
      BY <1>1, <1>6
    <3>3. (b + 1) * D <= T
      BY <1>1, <1>4, <1>6, <3>1, <3>2
    <3>4. MinOf((b + 1) * D, T) = (b + 1) * D
      BY <1>1, <3>2, <3>3 DEF MinOf
    <3>5. BlockData(len, pct, b) = MinOf((b + 1) * D, T) - b * D
      BY <1>2, <1>6, <2>2
    <3>6. BlockData(len, pct, b) = D
      BY <1>1, <3>2, <3>4, <3>5
    <3> QED
      BY <1>1, <1>6, <2>2, <3>6
  <2> QED
    BY <1>6, <2>1, <2>2
<1>8. ASSUME NEW b \in 0 .. k
      PROVE  /\ parity_shard_count(BlockData(len, pct, b), pct) \in Nat
             /\ BlockTotal(len, pct, b) \in 1 .. MAX_SHARDS
  <2>1. BlockData(len, pct, b) \in 1 .. MAX_SHARDS /\ BlockData(len, pct, b) \in Nat
    BY <1>1, <1>7
  <2> QED
    BY <1>1, <1>3, <2>1 DEF BlockTotal
<1>9. D \in 1 .. 255
  BY <1>1
<1> QED
  BY <1>6, <1>7, <1>8, <1>9, Zenon DEF k, D, T

\* What the headers of shard i of block b of frame n tell the receiver.
ShardIs(d, n, b, i) ==
    LET s == sent[n]
    IN  /\ b \in 0 .. NrBlocks(s.len, s.pct) - 1
        /\ i \in 0 .. BlockTotal(s.len, s.pct, b) - 1
        /\ d.frame = n /\ d.seq = ShardSeq(s.len, s.pct, s.seq, b, i)
        /\ block_index(d.multi) = b /\ block_count(d.multi) = NrBlocks(s.len, s.pct)
        /\ shard_index(d.info) = i /\ data_shards(d.info) = BlockData(s.len, s.pct, b)
        /\ fec_percentage(d.info) = s.pct

\* What the host noted of a frame it sent.
LEMMA SentFrame ==
    ASSUME SentOK, NEW n \in DOMAIN sent
    PROVE  sent[n].len \in Lens /\ sent[n].pct \in 10 .. 60 /\ sent[n].seq \in 0 .. SeqMod - 1
<1>1. sent \in Seq(SentFrames) /\ n \in 1 .. Len(sent)
  BY DEF SentOK
<1>2. sent[n] \in SentFrames
  BY <1>1, ElementOfSeq
<1> QED
  BY <1>2 DEF SentFrames

LEMMA ShardOK ==
    ASSUME FramesFit, SentOK, NEW n \in DOMAIN sent, NEW d \in ShardsOf(n)
    PROVE  \E b, i \in Nat : ShardIs(d, n, b, i)
<1> DEFINE s == sent[n]
           len == s.len
           pct == s.pct
<1>1. len \in Lens /\ pct \in 10 .. 60
  BY SentFrame
<1>0. PICK b \in 0 .. NrBlocks(len, pct) - 1 :
             \E i \in 0 .. BlockTotal(len, pct, b) - 1 : d = Shard(n, len, pct, s.seq, b, i)
  BY DEF ShardsOf
<1>2. PICK i \in 0 .. BlockTotal(len, pct, b) - 1 : d = Shard(n, len, pct, s.seq, b, i)
  BY <1>0
<1>3. /\ d.frame = n /\ d.seq = ShardSeq(len, pct, s.seq, b, i)
      /\ d.multi = pack_multi_fec_blocks(b, NrBlocks(len, pct))
      /\ d.info = pack_fec_info(i, BlockData(len, pct, b), pct)
  BY <1>2 DEF Shard
<1> HIDE DEF len, pct, s
<1>4. NrBlocks(len, pct) - 1 \in 0 .. 3 /\ DataPerBlock(pct) \in 1 .. 255
  BY <1>1, BlocksOK
<1>5. /\ BlockData(len, pct, b) \in 1 .. DataPerBlock(pct)
      /\ BlockTotal(len, pct, b) \in 1 .. MAX_SHARDS
  BY <1>1, <1>2, BlocksOK
<1>6. NrBlocks(len, pct) \in 1 .. MAX_FEC_BLOCKS /\ MAX_FEC_BLOCKS \in 1 .. 4
      /\ MAX_SHARDS \in 2 .. 255
  BY <1>1, LayoutOK, WireAssumption
<1>7. b \in 0 .. 3 /\ b \in Nat /\ NrBlocks(len, pct) \in 1 .. 4
  BY <1>2, <1>4, <1>6
<1>8. i \in 0 .. 1023 /\ i \in Nat /\ BlockData(len, pct, b) \in 0 .. 1023 /\ pct \in 0 .. 255
  BY <1>1, <1>2, <1>4, <1>5, <1>6
<1>9. block_index(d.multi) = b /\ block_count(d.multi) = NrBlocks(len, pct)
  BY <1>3, <1>7, UnpackMulti
<1>10. /\ shard_index(d.info) = i /\ data_shards(d.info) = BlockData(len, pct, b)
       /\ fec_percentage(d.info) = pct
  <2> DEFINE P == 0 .. 255
             X == 0 .. 1023
             y == BlockData(len, pct, b)
  <2>1. \A p \in P : \A x, z \in X :
             /\ fec_percentage(pack_fec_info(x, z, p)) = p
             /\ shard_index(pack_fec_info(x, z, p)) = x
             /\ data_shards(pack_fec_info(x, z, p)) = z
    BY UnpackInfo
  <2>2. pct \in P /\ i \in X /\ y \in X /\ d.info = pack_fec_info(i, y, pct)
    BY <1>3, <1>8
  <2> HIDE DEF P, X, y
  <2> DEFINE Q(w, x, z, p) == /\ fec_percentage(w) = p
                              /\ shard_index(w) = x
                              /\ data_shards(w) = z
  <2>3. \A p \in P : \A x, z \in X : Q(pack_fec_info(x, z, p), x, z, p)
    BY <2>1
  <2> HIDE DEF Q
  <2>4. \A x, z \in X : Q(pack_fec_info(x, z, pct), x, z, pct)
    BY <2>2, <2>3
  <2>5. \A z \in X : Q(pack_fec_info(i, z, pct), i, z, pct)
    BY <2>2, <2>4
  <2>6. Q(d.info, i, y, pct)
    BY <2>2, <2>5
  <2> QED
    BY <2>6 DEF y, Q
<1>11. ShardIs(d, n, b, i)
  BY <1>2, <1>3, <1>9, <1>10, Zenon DEF ShardIs, s, len, pct
<1> QED
  BY <1>7, <1>8, <1>11

\* Both ends lay a block out alike.
LEMMA NewBlockOK ==
    ASSUME NEW n, NEW d, NEW b, NEW i, ShardIs(d, n, b, i)
    PROVE  /\ NewBlock(d).data = BlockData(sent[n].len, sent[n].pct, b)
           /\ NewBlock(d).parity =
                parity_shard_count(BlockData(sent[n].len, sent[n].pct, b), sent[n].pct)
BY DEF ShardIs, NewBlock

\* Every shard packetize_frame cuts passes the header checks of
\* Depacketizer::push and lies inside the block the client lays out for it, for
\* access units that fit into MAX_FEC_BLOCKS blocks.
THEOREM EveryShardAccepted ==
    ASSUME FramesFit
    PROVE  Spec => []ShardsAccepted
<1>1. ASSUME IInv PROVE ShardsAccepted
  <2> SUFFICES ASSUME NEW n \in DOMAIN sent, NEW d \in ShardsOf(n)
               PROVE  /\ WellFormed(d)
                      /\ shard_index(d.info) < NewBlock(d).data + NewBlock(d).parity
    BY DEF ShardsAccepted
  <2> DEFINE len == sent[n].len
             pct == sent[n].pct
  <2>1. SentOK /\ len \in Lens /\ pct \in 10 .. 60
    BY <1>1, SentFrame DEF IInv
  <2>2. PICK b, i \in Nat : ShardIs(d, n, b, i)
    BY <2>1, ShardOK
  <2>3. /\ b \in 0 .. NrBlocks(len, pct) - 1 /\ i \in 0 .. BlockTotal(len, pct, b) - 1
        /\ block_index(d.multi) = b /\ block_count(d.multi) = NrBlocks(len, pct)
        /\ shard_index(d.info) = i /\ data_shards(d.info) = BlockData(len, pct, b)
        /\ NewBlock(d).data = BlockData(len, pct, b)
        /\ NewBlock(d).parity = parity_shard_count(BlockData(len, pct, b), pct)
    BY <2>2, NewBlockOK DEF ShardIs
  <2> HIDE DEF len, pct
  <2>4. /\ NrBlocks(len, pct) - 1 \in 0 .. 3 /\ DataPerBlock(pct) \in 1 .. MAX_SHARDS
        /\ NrBlocks(len, pct) \in 1 .. MAX_FEC_BLOCKS
    BY <2>1, BlocksOK, DataPerBlockOK, LayoutOK
  <2>5. /\ BlockData(len, pct, b) \in 1 .. DataPerBlock(pct)
        /\ BlockTotal(len, pct, b) \in 1 .. MAX_SHARDS
    BY <2>1, <2>3, BlocksOK
  <2>6. MAX_SHARDS \in 2 .. 255 /\ MAX_FEC_BLOCKS \in 1 .. 4
    BY WireAssumption
  <2>7. WellFormed(d)
    <3>1. b < NrBlocks(len, pct)
      BY <2>3, <2>4, <2>6
    <3>2. BlockData(len, pct, b) # 0 /\ BlockData(len, pct, b) <= MAX_SHARDS /\ i < MAX_SHARDS
      BY <2>3, <2>4, <2>5, <2>6
    <3> QED
      BY <3>1, <3>2, <2>3 DEF WellFormed
  <2>8. i < BlockData(len, pct, b) + parity_shard_count(BlockData(len, pct, b), pct)
    <3>1. i < BlockTotal(len, pct, b)
      BY <2>3, <2>5, <2>6
    <3> QED
      BY <3>1 DEF BlockTotal
  <2> QED
    BY <2>3, <2>7, <2>8
<1> QED
  BY <1>1, Invariance, PTL

-----------------------------------------------------------------------------
(* The loss counters of a block.                                           *)

\* A block whose first shard would have the sequence number base: highest_seq is
\* that of the highest shard received, and missing_before_highest the number of
\* shards below it that are missing.
Counted(blk, base) ==
    \E top \in blk.got :
        /\ \A j \in blk.got : j <= top
        /\ blk.highest_seq = (base + top) % SeqMod
        /\ blk.missing_before_highest = Cardinality((0 .. top) \ blk.got)

BlockFields == {"data", "parity", "got", "highest_seq", "missing_before_highest"}

LEMMA SliceSize ==
    ASSUME NEW n \in Nat
    PROVE  IsFiniteSet(0 .. n) /\ Cardinality(0 .. n) = n + 1
BY FS_Interval

\* A slice of the natural numbers without some of them.
LEMMA SliceOK ==
    ASSUME NEW n \in Nat, NEW G \in SUBSET (0 .. n)
    PROVE  /\ IsFiniteSet(G) /\ IsFiniteSet((0 .. n) \ G)
           /\ Cardinality(G) \in Nat /\ Cardinality((0 .. n) \ G) \in Nat
           /\ Cardinality((0 .. n) \ G) = n + 1 - Cardinality(G)
<1>1. IsFiniteSet(0 .. n) /\ Cardinality(0 .. n) = n + 1
  BY SliceSize
<1>2. IsFiniteSet(G) /\ Cardinality(G) \in Nat
  BY <1>1, FS_Subset, FS_CardinalityType
<1>3. (0 .. n) \cap G = G
  OBVIOUS
<1>4. /\ IsFiniteSet((0 .. n) \ G)
      /\ Cardinality((0 .. n) \ G) = Cardinality(0 .. n) - Cardinality((0 .. n) \cap G)
  BY <1>1, FS_Difference
<1>5. Cardinality((0 .. n) \ G) \in Nat
  BY <1>4, FS_CardinalityType
<1>6. Cardinality((0 .. n) \ G) = n + 1 - Cardinality(G)
  <2>1. Cardinality((0 .. n) \ G) = (n + 1) - Cardinality(G)
    BY <1>1, <1>3, <1>4, Zenon
  <2> QED
    BY <1>2, <2>1
<1> QED
  BY <1>2, <1>4, <1>5, <1>6

\* note_seq tells new shards from old ones, across the wrap.
LEMMA Before ==
    ASSUME NEW base \in Int, NEW i \in 0 .. MAX_SHARDS - 1, NEW top \in 0 .. MAX_SHARDS - 1
    PROVE  /\ i > top => /\ is_before16((base + top) % SeqMod, (base + i) % SeqMod)
                         /\ Minus((base + i) % SeqMod, (base + top) % SeqMod) = i - top
           /\ i < top => ~is_before16((base + top) % SeqMod, (base + i) % SeqMod)
<1> DEFINE x == (base + top) % SeqMod
           y == (base + i) % SeqMod
           h == SeqMod \div 2
<1>1. SeqMod \in Nat /\ MAX_SHARDS \in Nat /\ 2 * MAX_SHARDS <= SeqMod /\ MAX_SHARDS >= 2
  BY WireAssumption
<1>2. h \in Nat /\ 2 * h <= SeqMod /\ MAX_SHARDS <= h
  BY <1>1
<1>3. i \in Int /\ top \in Int /\ i - top < SeqMod /\ top - i < SeqMod
  BY <1>1
<1>4. /\ i > top => Minus(y, x) = i - top /\ Minus(x, y) = SeqMod - (i - top)
      /\ i < top => Minus(x, y) = top - i
  BY <1>3, MinusOK
<1> HIDE DEF x, y, h
<1>5. is_before16(x, y) <=> Minus(x, y) >= h
  BY DEF is_before16, h
<1>6. i > top => SeqMod - (i - top) >= h
  BY <1>1, <1>2
<1>7. i < top => ~(top - i >= h)
  BY <1>1, <1>2
<1> QED
  BY <1>4, <1>5, <1>6, <1>7 DEF x, y

\* One shard more: the counters stay exact.
LEMMA NoteStep ==
    ASSUME NEW base \in Int, NEW i \in 0 .. MAX_SHARDS - 1, NEW blk,
           DOMAIN blk = BlockFields, blk.got \subseteq 0 .. MAX_SHARDS - 1, i \notin blk.got,
           blk.got = {} \/ Counted(blk, base)
    PROVE  LET new == [note_seq(blk, (base + i) % SeqMod, i) EXCEPT !.got = @ \cup {i}]
           IN  /\ DOMAIN new = BlockFields /\ new.data = blk.data /\ new.parity = blk.parity
               /\ new.got = blk.got \cup {i} /\ Counted(new, base)
<1> DEFINE seq == (base + i) % SeqMod
           nb  == note_seq(blk, seq, i)
           new == [nb EXCEPT !.got = @ \cup {i}]
           G   == blk.got
<1>0. MAX_SHARDS \in Nat /\ MAX_SHARDS > 0 /\ i \in Nat
  BY WireAssumption
<1>1. /\ DOMAIN nb = BlockFields /\ nb.data = blk.data /\ nb.parity = blk.parity /\ nb.got = G
      /\ nb.highest_seq = IF G = {} \/ is_before16(blk.highest_seq, seq) THEN seq
                          ELSE blk.highest_seq
      /\ nb.missing_before_highest =
           IF G = {} THEN i
           ELSE IF is_before16(blk.highest_seq, seq)
           THEN blk.missing_before_highest + Minus(seq, blk.highest_seq) - 1
           ELSE MaxOf(blk.missing_before_highest - 1, 0)
  BY DEF note_seq, BlockFields
<1>2. /\ DOMAIN new = BlockFields /\ new.data = blk.data /\ new.parity = blk.parity
      /\ new.got = G \cup {i} /\ new.highest_seq = nb.highest_seq
      /\ new.missing_before_highest = nb.missing_before_highest
  BY <1>1 DEF BlockFields
<1> HIDE DEF nb, new
<1>3. ASSUME NEW top \in G \cup {i}, \A j \in G \cup {i} : j <= top,
             nb.highest_seq = (base + top) % SeqMod,
             nb.missing_before_highest = Cardinality((0 .. top) \ (G \cup {i}))
      PROVE  Counted(new, base)
  BY <1>2, <1>3 DEF Counted
<1>4. CASE G = {}
  <2>1. (0 .. i) \ (G \cup {i}) = 0 .. i - 1
    BY <1>0, <1>4
  <2>2. Cardinality(0 .. i - 1) = i
    BY <1>0, FS_Interval
  <2>3. nb.highest_seq = (base + i) % SeqMod /\ nb.missing_before_highest = i
    BY <1>1, <1>4
  <2>4. \A j \in G \cup {i} : j <= i
    BY <1>0, <1>4
  <2> QED
    BY <1>2, <1>3, <2>1, <2>2, <2>3, <2>4 DEF new, nb, seq
<1>5. CASE G # {}
  <2>1. PICK top \in G : /\ \A j \in G : j <= top
                         /\ blk.highest_seq = (base + top) % SeqMod
                         /\ blk.missing_before_highest = Cardinality((0 .. top) \ G)
    BY <1>5 DEF Counted
  <2>2. top \in 0 .. MAX_SHARDS - 1 /\ top \in Nat /\ i # top /\ G \in SUBSET (0 .. top)
    BY <1>0, <2>1
  <2>3. /\ IsFiniteSet((0 .. top) \ G) /\ Cardinality((0 .. top) \ G) \in Nat
    BY <2>2, SliceOK
  <2>4. CASE i > top
    <3>1. is_before16(blk.highest_seq, seq) /\ Minus(seq, blk.highest_seq) = i - top
      <4>1. /\ is_before16((base + top) % SeqMod, seq)
            /\ Minus(seq, (base + top) % SeqMod) = i - top
        BY <2>2, <2>4, Before
      <4> QED
        BY <2>1, <4>1, Zenon
    <3>2. /\ nb.highest_seq = (base + i) % SeqMod
          /\ nb.missing_before_highest = Cardinality((0 .. top) \ G) + (i - top) - 1
      BY <1>1, <1>5, <2>1, <3>1
    <3>3. (0 .. i) \ (G \cup {i}) = ((0 .. top) \ G) \cup (top + 1 .. i - 1)
      BY <1>0, <2>1, <2>2, <2>4
    <3>4. ((0 .. top) \ G) \cap (top + 1 .. i - 1) = {}
      BY <1>0, <2>2
    <3>5. IsFiniteSet(top + 1 .. i - 1) /\ Cardinality(top + 1 .. i - 1) = i - 1 - top
      <4> DEFINE lo == top + 1
                 hi == i - 1
      <4>1. lo \in Int /\ hi \in Int /\ lo <= hi + 1 /\ hi - lo + 1 = i - 1 - top
        BY <1>0, <2>2, <2>4
      <4> HIDE DEF lo, hi
      <4>2. IsFiniteSet(lo .. hi)
            /\ Cardinality(lo .. hi) = IF lo > hi THEN 0 ELSE hi - lo + 1
        BY <4>1, FS_Interval
      <4>3. Cardinality(lo .. hi) = hi - lo + 1
        BY <4>1, <4>2
      <4> QED
        BY <4>1, <4>2, <4>3 DEF lo, hi
    <3>6. Cardinality((0 .. i) \ (G \cup {i})) = Cardinality((0 .. top) \ G) + (i - 1 - top)
      <4>1. Cardinality({}) = 0
        BY FS_EmptySet
      <4>2. Cardinality(((0 .. top) \ G) \cup (top + 1 .. i - 1))
              = Cardinality((0 .. top) \ G) + Cardinality(top + 1 .. i - 1)
                - Cardinality(((0 .. top) \ G) \cap (top + 1 .. i - 1))
        BY <2>3, <3>5, FS_Union
      <4>3. Cardinality((0 .. i) \ (G \cup {i}))
              = Cardinality((0 .. top) \ G) + (i - 1 - top) - 0
        BY <3>3, <3>4, <3>5, <4>1, <4>2, Zenon
      <4> QED
        BY <1>0, <2>2, <2>3, <4>3
    <3>7. \A j \in G \cup {i} : j <= i
      BY <1>0, <2>1, <2>2, <2>4
    <3>8. nb.missing_before_highest = Cardinality((0 .. i) \ (G \cup {i}))
      BY <1>0, <2>2, <2>3, <3>2, <3>6
    <3>9. Counted(new, base)
      BY <1>3, <3>2, <3>7, <3>8
    <3> QED
      BY <1>2, <3>9 DEF new, nb, seq
  <2>5. CASE i < top
    <3>1. ~is_before16(blk.highest_seq, seq)
      BY <2>1, <2>2, <2>5, Before
    <3>2. /\ nb.highest_seq = (base + top) % SeqMod
          /\ nb.missing_before_highest = MaxOf(Cardinality((0 .. top) \ G) - 1, 0)
      BY <1>1, <1>5, <2>1, <3>1
    <3>3. /\ (0 .. top) \ (G \cup {i}) = ((0 .. top) \ G) \ {i} /\ i \in (0 .. top) \ G
      BY <1>0, <2>2, <2>5
    <3>4. /\ Cardinality(((0 .. top) \ G) \ {i}) = Cardinality((0 .. top) \ G) - 1
          /\ IsFiniteSet(((0 .. top) \ G) \ {i})
      BY <2>3, <3>3, FS_RemoveElement
    <3>5. Cardinality(((0 .. top) \ G) \ {i}) \in Nat
      BY <3>4, FS_CardinalityType
    <3>6. nb.missing_before_highest = Cardinality((0 .. top) \ (G \cup {i}))
      <4>1. Cardinality((0 .. top) \ G) - 1 \in Nat
        BY <3>4, <3>5, Zenon
      <4>2. MaxOf(Cardinality((0 .. top) \ G) - 1, 0) = Cardinality((0 .. top) \ G) - 1
        BY <2>3, <4>1 DEF MaxOf
      <4> QED
        BY <3>2, <3>3, <3>4, <4>2, Zenon
    <3>7. \A j \in G \cup {i} : j <= top
      BY <1>0, <2>1, <2>2, <2>5
    <3>8. Counted(new, base)
      BY <1>3, <3>2, <3>6, <3>7
    <3> QED
      BY <1>2, <3>8 DEF new, nb, seq
  <2> QED
    BY <1>0, <2>2, <2>4, <2>5
<1> QED
  BY <1>4, <1>5

-----------------------------------------------------------------------------
(* The frames in assembly.                                                 *)

\* A block in assembly has the layout the host gave it, and exact counters.
BlockIs(blk, s, b) ==
    /\ DOMAIN blk = BlockFields
    /\ blk.data = BlockData(s.len, s.pct, b)
    /\ blk.parity = parity_shard_count(BlockData(s.len, s.pct, b), s.pct)
    /\ blk.got \subseteq 0 .. BlockTotal(s.len, s.pct, b) - 1
    /\ Counted(blk, s.seq + BlockBase(s.len, s.pct, b))

\* A frame in assembly has blocks of the frame the host sent.
FrameIs(f, s) ==
    /\ DOMAIN f = Fields
    /\ f.block_count = NrBlocks(s.len, s.pct)
    /\ DOMAIN f.blocks \subseteq 0 .. NrBlocks(s.len, s.pct) - 1
    /\ \A b \in DOMAIN f.blocks : BlockIs(f.blocks[b], s, b)

LEMMA BaseOK ==
    ASSUME NEW len \in Lens, NEW pct \in 10 .. 60, NEW b \in Nat
    PROVE  BlockBase(len, pct, b) \in Int
<1>1. DataPerBlock(pct) \in Nat
  BY DataPerBlockOK, WireAssumption
<1>2. \A data \in Int : parity_shard_count(data, pct) \in Nat
  BY LayoutOK
<1>3. parity_shard_count(DataPerBlock(pct), pct) \in Nat
  BY <1>1, <1>2
<1> QED
  BY <1>1, <1>3 DEF BlockBase

\* Shard i of block b is not in the frame yet.
Fresh(f, b, i) == b \in DOMAIN f.blocks => i \notin f.blocks[b].got

\* g is the frame f with a shard of block b more.
Grown(g, f, s, b) ==
    /\ FrameIs(g, s) /\ DOMAIN g.blocks = DOMAIN f.blocks \cup {b}
    /\ g.block_count = f.block_count /\ g.delivered = f.delivered
    /\ \A c \in DOMAIN f.blocks : f.blocks[c].got \subseteq g.blocks[c].got

\* Absorbing a shard keeps the frame as the host cut it.
LEMMA AbsorbOK ==
    ASSUME FramesFit, SentOK, NEW n \in DOMAIN sent, NEW d, NEW b \in Nat, NEW i \in Nat,
           ShardIs(d, n, b, i), NEW f, FrameIs(f, sent[n]),
           Fresh(f, b, i)
    PROVE  Grown(Absorb(f, d), f, sent[n], b)
<1> DEFINE s    == sent[n]
           len  == s.len
           pct  == s.pct
           base == s.seq + BlockBase(len, pct, b)
           seq  == (base + i) % SeqMod
           blk  == IF b \in DOMAIN f.blocks THEN f.blocks[b] ELSE NewBlock(d)
           new  == [note_seq(blk, seq, i) EXCEPT !.got = @ \cup {i}]
           g    == Absorb(f, d)
<1>1. len \in Lens /\ pct \in 10 .. 60 /\ s.seq \in 0 .. SeqMod - 1
  BY SentFrame
<1>2. /\ b \in 0 .. NrBlocks(len, pct) - 1 /\ i \in 0 .. BlockTotal(len, pct, b) - 1
      /\ d.seq = seq /\ block_index(d.multi) = b /\ shard_index(d.info) = i
      /\ data_shards(d.info) = BlockData(len, pct, b) /\ fec_percentage(d.info) = pct
  BY DEF ShardIs, ShardSeq
<1>3. /\ g = [f EXCEPT !.blocks = [c \in DOMAIN f.blocks \cup {b} |->
                                      IF c = b THEN new ELSE f.blocks[c]]]
  BY <1>2 DEF Absorb
<1>4. BlockBase(len, pct, b) \in Int
  BY <1>1, BaseOK
<1>5. base \in Int
  BY <1>1, <1>4
<1>6. BlockTotal(len, pct, b) \in 1 .. MAX_SHARDS /\ MAX_SHARDS \in Nat
  <2>1. b \in 0 .. NrBlocks(len, pct) - 1
    BY <1>2
  <2> HIDE DEF s, len, pct
  <2>2. \A c \in 0 .. NrBlocks(len, pct) - 1 : BlockTotal(len, pct, c) \in 1 .. MAX_SHARDS
    BY <1>1, BlocksOK
  <2> QED
    BY <2>1, <2>2, WireAssumption
<1>7. i \in 0 .. MAX_SHARDS - 1 /\ 0 .. BlockTotal(len, pct, b) - 1 \subseteq 0 .. MAX_SHARDS - 1
  BY <1>2, <1>6
<1>8. /\ DOMAIN blk = BlockFields /\ blk.data = BlockData(len, pct, b)
      /\ blk.parity = parity_shard_count(BlockData(len, pct, b), pct)
      /\ blk.got \subseteq 0 .. BlockTotal(len, pct, b) - 1 /\ i \notin blk.got
      /\ blk.got = {} \/ Counted(blk, base)
  <2>1. CASE b \in DOMAIN f.blocks
    <3>1. blk = f.blocks[b] /\ BlockIs(f.blocks[b], s, b) /\ i \notin f.blocks[b].got
      BY <2>1 DEF FrameIs, Fresh
    <3> QED
      BY <3>1, Zenon DEF BlockIs, s, len, pct, base
  <2>2. CASE b \notin DOMAIN f.blocks
    <3>1. blk = NewBlock(d)
      BY <2>2
    <3>2. /\ DOMAIN NewBlock(d) = BlockFields /\ NewBlock(d).got = {}
          /\ NewBlock(d).data = BlockData(len, pct, b)
          /\ NewBlock(d).parity = parity_shard_count(BlockData(len, pct, b), pct)
      BY <1>2 DEF NewBlock, BlockFields
    <3> HIDE DEF blk
    <3> QED
      BY <3>1, <3>2
  <2> QED
    BY <2>1, <2>2
<1> HIDE DEF blk
<1>9. /\ DOMAIN new = BlockFields /\ new.data = blk.data /\ new.parity = blk.parity
      /\ new.got = blk.got \cup {i} /\ Counted(new, base)
  <2>1. blk.got \subseteq 0 .. MAX_SHARDS - 1
    BY <1>7, <1>8
  <2> HIDE DEF base, s
  <2> QED
    BY <1>5, <1>7, <1>8, <2>1, NoteStep
<1> HIDE DEF new, g
<1>10. BlockIs(new, s, b)
  <2>1. /\ new.data = BlockData(len, pct, b)
        /\ new.parity = parity_shard_count(BlockData(len, pct, b), pct)
        /\ new.got \subseteq 0 .. BlockTotal(len, pct, b) - 1
    BY <1>2, <1>8, <1>9
  <2> QED
    BY <1>9, <2>1, Zenon DEF BlockIs, base, len, pct
<1>11. DOMAIN f = Fields /\ "blocks" \in DOMAIN f /\ f.block_count = NrBlocks(len, pct)
  BY DEF FrameIs, Fields
<1>12. /\ DOMAIN g = Fields /\ g.block_count = f.block_count /\ g.delivered = f.delivered
       /\ g.blocks = [c \in DOMAIN f.blocks \cup {b} |-> IF c = b THEN new ELSE f.blocks[c]]
  BY <1>3, <1>11
<1>13. /\ DOMAIN g.blocks = DOMAIN f.blocks \cup {b} /\ g.blocks[b] = new
       /\ \A c \in DOMAIN f.blocks : c # b => g.blocks[c] = f.blocks[c]
  BY <1>12
<1>14. DOMAIN g.blocks \subseteq 0 .. NrBlocks(len, pct) - 1
  BY <1>2, <1>13 DEF FrameIs
<1>15. \A c \in DOMAIN g.blocks : BlockIs(g.blocks[c], s, c)
  BY <1>10, <1>13 DEF FrameIs
<1>16. FrameIs(g, s)
  BY <1>11, <1>12, <1>14, <1>15 DEF FrameIs
<1>17. ASSUME NEW c \in DOMAIN f.blocks PROVE f.blocks[c].got \subseteq g.blocks[c].got
  <2>1. CASE c = b
    BY <1>9, <1>13, <2>1 DEF blk
  <2>2. CASE c # b
    BY <1>13, <2>2
  <2> QED
    BY <2>1, <2>2
<1> QED
  BY <1>12, <1>13, <1>16, <1>17 DEF g, Grown

\* A block can be put together exactly when as many shards arrived as it has
\* data shards.
LEMMA DataComplete ==
    ASSUME FramesFit, NEW s, s.len \in Lens, s.pct \in 10 .. 60,
           NEW b \in 0 .. NrBlocks(s.len, s.pct) - 1, NEW blk, BlockIs(blk, s, b)
    PROVE  /\ data_complete(blk) <=> Cardinality(blk.got) >= BlockData(s.len, s.pct, b)
           /\ blk.data \in Nat /\ blk.data > 0 /\ blk.parity \in Nat
           /\ blk.got \subseteq 0 .. (blk.data + blk.parity) - 1
           /\ IsFiniteSet(blk.got)
<1> DEFINE len == s.len
           pct == s.pct
           G   == blk.got
           D   == 0 .. blk.data - 1
<1>1. /\ blk.data = BlockData(len, pct, b) /\ G \subseteq 0 .. BlockTotal(len, pct, b) - 1
      /\ blk.parity = parity_shard_count(BlockData(len, pct, b), pct)
  BY DEF BlockIs
<1>2. /\ BlockData(len, pct, b) \in 1 .. DataPerBlock(pct) /\ DataPerBlock(pct) \in 1 .. 255
      /\ parity_shard_count(BlockData(len, pct, b), pct) \in Nat
  <2> HIDE DEF len, pct
  <2> QED
    BY BlocksOK DEF len, pct
<1>3. /\ blk.data \in Nat /\ blk.data > 0 /\ blk.parity \in Nat
      /\ G \subseteq 0 .. (blk.data + blk.parity) - 1
  BY <1>1, <1>2 DEF BlockTotal
<1> HIDE DEF len, pct
<1>4. IsFiniteSet(G) /\ Cardinality(G) \in Nat
  <2>1. (blk.data + blk.parity) - 1 \in Nat
    BY <1>3
  <2> HIDE DEF G
  <2> QED
    BY <1>3, <2>1, SliceOK
<1>5. IsFiniteSet(D) /\ Cardinality(D) = blk.data
  <2> DEFINE hi == blk.data - 1
  <2>1. hi \in Nat /\ hi + 1 = blk.data
    BY <1>3
  <2> HIDE DEF hi
  <2>2. IsFiniteSet(0 .. hi) /\ Cardinality(0 .. hi) = hi + 1
    BY <2>1, SliceSize
  <2> QED
    BY <2>1, <2>2 DEF hi
<1>6. /\ IsFiniteSet(G \cap D) /\ Cardinality(G \cap D) <= Cardinality(G)
      /\ Cardinality(G \cap D) <= Cardinality(D) /\ Cardinality(G \cap D) \in Nat
  <2> HIDE DEF G, D
  <2>1. G \cap D \in SUBSET G /\ G \cap D \in SUBSET D
    OBVIOUS
  <2> QED
    BY <1>4, <1>5, <2>1, FS_Subset, FS_CardinalityType
<1>7. blk.parity = 0 => G \cap D = G
  BY <1>3
<1>8. ReceivedData(blk) = Cardinality(G \cap D)
  BY DEF ReceivedData
<1> HIDE DEF G, D
<1>9. data_complete(blk) <=> \/ Cardinality(G \cap D) = blk.data
                             \/ blk.parity > 0 /\ Cardinality(G) >= blk.data
  BY <1>8 DEF data_complete, Recoverable, G
<1>10. data_complete(blk) <=> Cardinality(G) >= blk.data
  BY <1>3, <1>4, <1>5, <1>6, <1>7, <1>9
<1> QED
  BY <1>1, <1>3, <1>4, <1>10 DEF G, len, pct

\* A frame is complete when all its blocks are.
Whole(f, s) ==
    \A b \in 0 .. NrBlocks(s.len, s.pct) - 1 :
        /\ b \in DOMAIN f.blocks
        /\ Cardinality(f.blocks[b].got) >= BlockData(s.len, s.pct, b)

LEMMA CompleteIsWhole ==
    ASSUME FramesFit, NEW s, s.len \in Lens, s.pct \in 10 .. 60, NEW f, FrameIs(f, s)
    PROVE  complete(f) <=> Whole(f, s)
<1>1. f.block_count = NrBlocks(s.len, s.pct)
  BY DEF FrameIs
<1>2. \A b \in 0 .. NrBlocks(s.len, s.pct) - 1 : b \in DOMAIN f.blocks =>
        (data_complete(f.blocks[b])
           <=> Cardinality(f.blocks[b].got) >= BlockData(s.len, s.pct, b))
  <2> TAKE b \in 0 .. NrBlocks(s.len, s.pct) - 1
  <2> HAVE b \in DOMAIN f.blocks
  <2>1. BlockIs(f.blocks[b], s, b)
    BY DEF FrameIs
  <2> QED
    BY <2>1, DataComplete
<1> QED
  BY <1>1, <1>2, Zenon DEF complete, Whole

\* What is in the table is as the host cut it, and it is marked delivered exactly
\* when it can be put together.
Assembled(f, s) ==
    FrameIs(f, s) /\ DOMAIN f.blocks # {} /\ (f.delivered <=> Whole(f, s))
AsmOK == \A n \in DOMAIN frames : Assembled(frames[n], sent[n])

\* The depacketizer's marks besides the blocks do not matter.
LEMMA SameAssembled ==
    ASSUME NEW f, NEW g, NEW s, Assembled(f, s), DOMAIN g = DOMAIN f,
           g.block_count = f.block_count, g.blocks = f.blocks, g.delivered <=> f.delivered
    PROVE  Assembled(g, s)
BY DEF Assembled, FrameIs, Whole

\* The frame a shard was put into.
LEMMA TouchedIs ==
    ASSUME FramesFit, SentOK, TableOK, AsmOK, NEW n \in DOMAIN sent, NEW d \in ShardsOf(n),
           ~Ignored(d)
    PROVE  /\ FrameIs(Touched(d), sent[n]) /\ DOMAIN Touched(d).blocks # {}
           /\ Touched(d).delivered => Whole(Touched(d), sent[n])
<1> DEFINE s == sent[n]
           f == IF n \in DOMAIN frames THEN frames[n] ELSE NewFrame(d, Now)
           g == Absorb(f, d)
<1>1. d.frame = n /\ Touched(d) = g
  BY ShardFrame DEF Touched
<1>2. PICK b, i \in Nat : ShardIs(d, n, b, i)
  BY ShardOK
<1>3. /\ b \in 0 .. NrBlocks(s.len, s.pct) - 1 /\ i \in 0 .. BlockTotal(s.len, s.pct, b) - 1
      /\ block_index(d.multi) = b /\ block_count(d.multi) = NrBlocks(s.len, s.pct)
      /\ shard_index(d.info) = i
  BY <1>2 DEF ShardIs
<1>4. s.len \in Lens /\ s.pct \in 10 .. 60
  BY SentFrame
<1>5. FrameIs(f, s) /\ (f.delivered => Whole(f, s)) /\ (f.delivered => n \in DOMAIN frames)
  <2>1. CASE n \in DOMAIN frames
    BY <2>1 DEF AsmOK, Assembled
  <2>2. CASE n \notin DOMAIN frames
    <3>1. /\ f = NewFrame(d, Now)
          /\ DOMAIN NewFrame(d, Now) = Fields /\ NewFrame(d, Now).delivered = FALSE
          /\ NewFrame(d, Now).block_count = NrBlocks(s.len, s.pct)
          /\ DOMAIN NewFrame(d, Now).blocks = {}
      BY <2>2, <1>3 DEF NewFrame, Fields
    <3> HIDE DEF f
    <3> QED
      BY <3>1 DEF FrameIs
  <2> QED
    BY <2>1, <2>2
<1>6. Fresh(f, b, i)
  <2>1. CASE n \in DOMAIN frames
    BY <1>1, <1>3, <2>1 DEF Ignored, Fresh
  <2>2. CASE n \notin DOMAIN frames
    <3>1. DOMAIN f.blocks = {}
      BY <2>2 DEF NewFrame
    <3> QED
      BY <3>1 DEF Fresh
  <2> QED
    BY <2>1, <2>2
<1> HIDE DEF f
<1>7. /\ FrameIs(g, s) /\ DOMAIN g.blocks = DOMAIN f.blocks \cup {b}
      /\ g.delivered = f.delivered
      /\ \A c \in DOMAIN f.blocks : f.blocks[c].got \subseteq g.blocks[c].got
  <2>1. FrameIs(f, sent[n])
    BY <1>5
  <2>2. Grown(Absorb(f, d), f, sent[n], b)
    BY <1>2, <1>6, <2>1, AbsorbOK, Zenon
  <2> QED
    BY <2>2 DEF Grown
<1> HIDE DEF g
<1>8. ASSUME Whole(f, s) PROVE Whole(g, s)
  <2> SUFFICES ASSUME NEW c \in 0 .. NrBlocks(s.len, s.pct) - 1
               PROVE  /\ c \in DOMAIN g.blocks
                      /\ Cardinality(g.blocks[c].got) >= BlockData(s.len, s.pct, c)
    BY DEF Whole
  <2>1. c \in DOMAIN f.blocks /\ c \in DOMAIN g.blocks
        /\ Cardinality(f.blocks[c].got) >= BlockData(s.len, s.pct, c)
    BY <1>7, <1>8 DEF Whole
  <2>2. BlockIs(g.blocks[c], s, c) /\ BlockIs(f.blocks[c], s, c)
        /\ f.blocks[c].got \subseteq g.blocks[c].got
    BY <1>5, <1>7, <2>1 DEF FrameIs
  <2>3. /\ IsFiniteSet(g.blocks[c].got) /\ IsFiniteSet(f.blocks[c].got)
        /\ g.blocks[c].data \in Nat /\ g.blocks[c].data = BlockData(s.len, s.pct, c)
    BY <1>4, <2>2, DataComplete DEF BlockIs
  <2>4. /\ Cardinality(f.blocks[c].got) <= Cardinality(g.blocks[c].got)
        /\ Cardinality(f.blocks[c].got) \in Nat /\ Cardinality(g.blocks[c].got) \in Nat
    BY <2>2, <2>3, FS_Subset, FS_CardinalityType
  <2> QED
    BY <2>1, <2>3, <2>4
<1> QED
  BY <1>1, <1>5, <1>7, <1>8

\* Frames sent keep what the host noted of them.
LEMMA SendSame ==
    ASSUME SentOK, NEW len, NEW poll, SendFrame(len, poll)
    PROVE  \A n \in 1 .. Len(sent) : sent'[n] = sent[n]
<1>1. PICK e : sent' = Append(sent, e)
  BY DEF SendFrame
<1>2. sent \in Seq(SentFrames)
  BY DEF SentOK
<1> QED
  BY <1>1, <1>2

LEMMA SameFrame ==
    ASSUME NEW f, NEW g, NEW s, FrameIs(f, s), DOMAIN g = DOMAIN f,
           g.block_count = f.block_count, g.blocks = f.blocks
    PROVE  FrameIs(g, s) /\ (Whole(g, s) <=> Whole(f, s))
BY DEF FrameIs, Whole

LEMMA AsmStep == ASSUME FramesFit, SentOK, TableOK, AsmOK, [Next]_vars PROVE AsmOK'
<1>1. ASSUME NEW len \in Lens, NEW poll \in Pcts, SendFrame(len, poll) PROVE AsmOK'
  <2>1. frames' = frames /\ \A n \in 1 .. Len(sent) : sent'[n] = sent[n]
    BY <1>1, SendSame, SendKeeps
  <2>2. DOMAIN frames \subseteq 1 .. Len(sent)
    BY DEF TableOK
  <2>3. \A n \in DOMAIN frames' : Assembled(frames'[n], sent'[n])
    BY <2>1, <2>2 DEF AsmOK
  <2> QED
    BY <2>3 DEF AsmOK
<1>2. ASSUME NEW n \in DOMAIN sent, NEW d \in ShardsOf(n), PushShard(d) PROVE AsmOK'
  <2>1. /\ ~Ignored(d) /\ d.frame = n /\ sent' = sent
        /\ Touched(d).delivered \/ ~complete(Touched(d))
        /\ frames' = Put(Evicted(d), n, Touched(d))
    BY <1>2, ShardFrame DEF PushShard, hostVars
  <2>2. /\ FrameIs(Touched(d), sent[n]) /\ DOMAIN Touched(d).blocks # {}
        /\ Touched(d).delivered => Whole(Touched(d), sent[n])
    BY <2>1, TouchedIs
  <2>3. complete(Touched(d)) <=> Whole(Touched(d), sent[n])
    BY <2>2, SentFrame, CompleteIsWhole
  <2>4. Assembled(Touched(d), sent[n])
    BY <2>1, <2>2, <2>3 DEF Assembled
  <2>5. \A m \in DOMAIN frames' : /\ m = n => frames'[m] = Touched(d)
                                  /\ m # n => m \in DOMAIN frames /\ frames'[m] = frames[m]
    BY <2>1 DEF Put
  <2>6. \A m \in DOMAIN frames' : Assembled(frames'[m], sent[m])
    BY <2>4, <2>5 DEF AsmOK
  <2> QED
    BY <2>1, <2>6 DEF AsmOK
<1>3. ASSUME NEW n \in DOMAIN sent, NEW d \in ShardsOf(n), PushCompletes(d) PROVE AsmOK'
  <2> DEFINE g == [Touched(d) EXCEPT !.delivered = TRUE]
             S == Evicted(d) \cup Older(n)
  <2>1. /\ ~Ignored(d) /\ d.frame = n /\ sent' = sent /\ complete(Touched(d))
        /\ frames' = Put(S, n, g)
    BY <1>3, ShardFrame DEF PushCompletes, hostVars
  <2>2. FrameIs(Touched(d), sent[n]) /\ DOMAIN Touched(d).blocks # {}
    BY <2>1, TouchedIs
  <2>3. Whole(Touched(d), sent[n])
    BY <2>1, <2>2, SentFrame, CompleteIsWhole
  <2>4. DOMAIN Touched(d) = Fields
    BY TouchedOK
  <2>5. /\ DOMAIN g = DOMAIN Touched(d) /\ g.block_count = Touched(d).block_count
        /\ g.blocks = Touched(d).blocks /\ g.delivered
    BY <2>4 DEF Fields
  <2> HIDE DEF g, S
  <2>6. Assembled(g, sent[n])
    <3>1. FrameIs(g, sent[n]) /\ Whole(g, sent[n])
      BY <2>2, <2>3, <2>5, SameFrame
    <3> QED
      BY <2>2, <2>5, <3>1 DEF Assembled
  <2>7. \A m \in DOMAIN frames' : /\ m = n => frames'[m] = g
                                  /\ m # n => m \in DOMAIN frames /\ frames'[m] = frames[m]
    BY <2>1 DEF Put
  <2>8. \A m \in DOMAIN frames' : Assembled(frames'[m], sent[m])
    BY <2>6, <2>7 DEF AsmOK
  <2> QED
    BY <2>1, <2>8 DEF AsmOK
<1>4. ASSUME NEW cut, Tick(cut) PROVE AsmOK'
  <2>1. /\ sent' = sent
        /\ \A m \in DOMAIN frames' :
              m \in DOMAIN frames /\ frames'[m] = [frames[m] EXCEPT !.ticked = TRUE]
    BY <1>4 DEF Tick, hostVars
  <2>2. ASSUME NEW m \in DOMAIN frames' PROVE Assembled(frames'[m], sent[m])
    <3>1. DOMAIN frames[m] = Fields /\ Assembled(frames[m], sent[m])
      BY <2>1 DEF TableOK, AsmOK
    <3>2. /\ DOMAIN frames'[m] = DOMAIN frames[m]
          /\ frames'[m].block_count = frames[m].block_count
          /\ frames'[m].blocks = frames[m].blocks
          /\ frames'[m].delivered = frames[m].delivered
      BY <2>1, <3>1 DEF Fields
    <3> QED
      BY <3>1, <3>2, SameAssembled
  <2> QED
    BY <2>1, <2>2 DEF AsmOK
<1>5. ASSUME UNCHANGED <<sent, frames>> PROVE AsmOK'
  BY <1>5 DEF AsmOK
<1>6. Stop \/ CloseSink \/ UNCHANGED vars => UNCHANGED <<sent, frames>>
  BY DEF Stop, CloseSink, vars, hostVars, dpVars
<1> QED
  BY <1>1, <1>2, <1>3, <1>4, <1>5, <1>6 DEF Next

-----------------------------------------------------------------------------
(* Loss reports.                                                           *)

\* The reports of block b tell which of its shards arrived.
Tells(reports, s, b, arrived) ==
    LET total == BlockTotal(s.len, s.pct, b)
    IN  IF 0 .. BlockData(s.len, s.pct, b) - 1 \subseteq arrived
        THEN reports = {}
        ELSE \E r \in reports :
                /\ reports = {r}
                /\ loss_fraction(r).lost * total
                      = loss_fraction(r).of * (total - Cardinality(arrived))
                /\ arrived # {} => loss_fraction(r).of = total

\* What the host reads from a report of c shards out of t.
LEMMA FractionOf ==
    ASSUME NEW r, NEW c \in Nat, NEW t \in Nat, c <= t,
           r.received = c, r.data + r.parity = t
    PROVE  loss_fraction(r).lost = t - c /\ loss_fraction(r).of = t
BY DEF loss_fraction

\* A block of which something arrived: whether it is reported, and how.
LEMMA BlockReport ==
    ASSUME FramesFit, NEW s, s.len \in Lens, s.pct \in 10 .. 60,
           NEW b \in 0 .. NrBlocks(s.len, s.pct) - 1, NEW blk, BlockIs(blk, s, b), NEW n
    PROVE  /\ ReceivedData(blk) < blk.data
                 <=> ~(0 .. BlockData(s.len, s.pct, b) - 1 \subseteq blk.got)
           /\ loss_fraction(fec_status(n, b, blk)).of = BlockTotal(s.len, s.pct, b)
           /\ loss_fraction(fec_status(n, b, blk)).lost
                 = BlockTotal(s.len, s.pct, b) - Cardinality(blk.got)
           /\ BlockTotal(s.len, s.pct, b) \in Nat /\ Cardinality(blk.got) \in Nat
<1> DEFINE G == blk.got
           D == 0 .. blk.data - 1
           t == blk.data + blk.parity
           c == Cardinality(G)
           r == fec_status(n, b, blk)
<1>1. /\ blk.data \in Nat /\ blk.data > 0 /\ blk.parity \in Nat
      /\ G \subseteq 0 .. t - 1 /\ IsFiniteSet(G)
  BY DataComplete
<1>2. blk.data = BlockData(s.len, s.pct, b) /\ t = BlockTotal(s.len, s.pct, b)
  BY DEF BlockIs, BlockTotal
<1>3. r.received = c /\ r.data + r.parity = t
  BY DEF fec_status
<1>4. IsFiniteSet(D) /\ Cardinality(D) = blk.data
  <2> DEFINE hi == blk.data - 1
  <2>1. hi \in Nat /\ hi + 1 = blk.data
    BY <1>1
  <2> HIDE DEF hi
  <2>2. IsFiniteSet(0 .. hi) /\ Cardinality(0 .. hi) = hi + 1
    BY <2>1, SliceSize
  <2> QED
    BY <2>1, <2>2 DEF hi
<1>5. c \in Nat /\ t \in Nat /\ c <= t
  <2> DEFINE k == t - 1
  <2>1. k \in Nat /\ k + 1 = t
    BY <1>1
  <2> HIDE DEF k, G
  <2>2. G \in SUBSET (0 .. k)
    BY <1>1 DEF k
  <2>3. IsFiniteSet(0 .. k) /\ Cardinality(0 .. k) = k + 1
    BY <2>1, SliceSize
  <2>4. Cardinality(G) <= Cardinality(0 .. k) /\ Cardinality(G) \in Nat
    BY <1>1, <2>2, <2>3, FS_Subset, FS_CardinalityType
  <2> QED
    BY <1>1, <2>1, <2>3, <2>4
<1>6. ReceivedData(blk) = Cardinality(G \cap D)
  BY DEF ReceivedData
<1>7. Cardinality(G \cap D) < blk.data <=> ~(D \subseteq G)
  <2> HIDE DEF G, D, t, c
  <2>1. G \cap D \in SUBSET D /\ (D \subseteq G => G \cap D = D)
    OBVIOUS
  <2>2. Cardinality(G \cap D) <= Cardinality(D) /\ Cardinality(G \cap D) \in Nat
    BY <1>4, <2>1, FS_Subset, FS_CardinalityType
  <2>3. Cardinality(G \cap D) = Cardinality(D) => G \cap D = D
    BY <1>4, <2>1, FS_Subset
  <2>4. G \cap D = D => D \subseteq G
    OBVIOUS
  <2> QED
    BY <1>1, <1>4, <2>1, <2>2, <2>3, <2>4
<1> HIDE DEF G, D, t, c, r
<1>8. loss_fraction(r).lost = t - c /\ loss_fraction(r).of = t
  BY <1>3, <1>5, FractionOf
<1>9. ReceivedData(blk) < blk.data <=> ~(D \subseteq G)
  BY <1>6, <1>7
<1>10. D = 0 .. BlockData(s.len, s.pct, b) - 1
  BY <1>2 DEF D
<1> QED
  BY <1>2, <1>5, <1>8, <1>9, <1>10 DEF G, c, r

\* What a frame has of block b, and what it reports of it.
Got(f, b) == IF b \in DOMAIN f.blocks THEN f.blocks[b].got ELSE {}
BlockReports(n, f, b) == {r \in report_fec(n, f) : r.block = b}

\* The reports of a retired frame carry its number and tell of each of its blocks.
LEMMA FrameReport ==
    ASSUME FramesFit, NEW s, s.len \in Lens, s.pct \in 10 .. 60, NEW f, Assembled(f, s),
           NEW n, NEW b \in 0 .. NrBlocks(s.len, s.pct) - 1
    PROVE  /\ Tells(BlockReports(n, f, b), s, b, Got(f, b))
           /\ \A r \in report_fec(n, f) : r.frame = n
<1> DEFINE known    == DOMAIN f.blocks
           low      == CHOOSE x \in known : \A y \in known : x <= y
           template == f.blocks[low]
           total    == template.data + template.parity
           nothing  == [template EXCEPT !.got = {}, !.missing_before_highest = total]
           unseen   == IF f.delivered THEN {} ELSE (0 .. f.block_count - 1) \ known
           R        == {r \in report_fec(n, f) : r.block = b}
<1>0. NrBlocks(s.len, s.pct) \in 1 .. MAX_FEC_BLOCKS /\ MAX_FEC_BLOCKS \in 1 .. 4
  BY LayoutOK, WireAssumption
<1>1. /\ known \subseteq 0 .. NrBlocks(s.len, s.pct) - 1 /\ known \in SUBSET Nat
      /\ known # {} /\ f.block_count = NrBlocks(s.len, s.pct)
      /\ f.delivered <=> Whole(f, s)
  BY <1>0 DEF Assembled, FrameIs
<1>2. \A x \in known : BlockIs(f.blocks[x], s, x)
  BY DEF Assembled, FrameIs
<1>3. report_fec(n, f) =
         {fec_status(n, x, f.blocks[x]) :
             x \in {y \in known : ReceivedData(f.blocks[y]) < f.blocks[y].data}}
         \cup {fec_status(n, x, nothing) : x \in unseen}
  BY DEF report_fec
<1>4. \A x, blk : fec_status(n, x, blk).block = x
  BY DEF fec_status
<1>5. ASSUME b \in known PROVE Tells(BlockReports(n, f, b), s, b, Got(f, b))
  <2> DEFINE blk == f.blocks[b]
             r   == fec_status(n, b, blk)
             of  == BlockTotal(s.len, s.pct, b)
             c   == Cardinality(blk.got)
  <2>1. b \notin unseen
    BY <1>5
  <2> HIDE DEF known, nothing, unseen
  <2>2. R = IF ReceivedData(blk) < blk.data THEN {r} ELSE {}
    BY <1>3, <1>4, <1>5, <2>1
  <2>3. BlockIs(blk, s, b)
    BY <1>2, <1>5
  <2> HIDE DEF blk
  <2>4. /\ ReceivedData(blk) < blk.data
             <=> ~(0 .. BlockData(s.len, s.pct, b) - 1 \subseteq blk.got)
        /\ loss_fraction(r).of = of /\ loss_fraction(r).lost = of - c
        /\ of \in Nat /\ c \in Nat
    BY <2>3, BlockReport
  <2> HIDE DEF R, r, of, c
  <2>5. (of - c) * of = of * (of - c)
    BY <2>4
  <2>6. loss_fraction(r).lost * of = loss_fraction(r).of * (of - c)
    BY <2>4, <2>5
  <2>7. Tells(R, s, b, blk.got)
    <3>1. CASE 0 .. BlockData(s.len, s.pct, b) - 1 \subseteq blk.got
      BY <2>2, <2>4, <3>1 DEF Tells
    <3>2. CASE ~(0 .. BlockData(s.len, s.pct, b) - 1 \subseteq blk.got)
      <4>1. R = {r}
        BY <2>2, <2>4, <3>2
      <4>2. r \in R /\ loss_fraction(r).of = BlockTotal(s.len, s.pct, b)
        BY <2>4, <4>1 DEF of
      <4>3. loss_fraction(r).lost * BlockTotal(s.len, s.pct, b)
              = loss_fraction(r).of * (BlockTotal(s.len, s.pct, b) - Cardinality(blk.got))
        BY <2>6 DEF of, c
      <4> QED
        BY <3>2, <4>1, <4>2, <4>3, Zenon DEF Tells
    <3> QED
      BY <3>1, <3>2
  <2> QED
    BY <1>5, <2>7, Zenon DEF R, blk, known, Got, BlockReports
<1>6. ASSUME b \notin known PROVE Tells(BlockReports(n, f, b), s, b, Got(f, b))
  <2> DEFINE r  == fec_status(n, b, nothing)
             bt == BlockTotal(s.len, s.pct, b)
  <2>1. low \in known
    <3>1. \E x \in known : \A y \in known : x <= y
      <4> HIDE DEF known
      <4> QED
        BY <1>1, LeastNumber
    <3> QED
      BY <3>1
  <2>2. b \in unseen
    BY <1>1, <1>6 DEF Whole
  <2> HIDE DEF low
  <2>3. BlockIs(template, s, low) /\ low \in 0 .. NrBlocks(s.len, s.pct) - 1
    BY <1>1, <1>2, <2>1
  <2> HIDE DEF template
  <2>4. /\ DOMAIN template = BlockFields /\ template.data \in Nat /\ template.data > 0
        /\ template.parity \in Nat
    BY <2>3, DataComplete DEF BlockIs
  <2>5. /\ nothing.got = {} /\ nothing.data = template.data
        /\ nothing.parity = template.parity
    BY <2>4 DEF BlockFields
  <2> HIDE DEF nothing, known, unseen
  <2>6. R = {r}
    BY <1>3, <1>4, <1>6, <2>2
  <2>7. r.received = 0 /\ r.data + r.parity = total
    BY <2>5, FS_EmptySet DEF fec_status
  <2>8. total \in Nat
    BY <2>4
  <2> HIDE DEF total, r
  <2>9. loss_fraction(r).lost = total /\ loss_fraction(r).of = total
    <3>1. 0 \in Nat /\ 0 <= total /\ total - 0 = total
      BY <2>8
    <3> QED
      BY <2>7, <2>8, <3>1, FractionOf
  <2>10. bt \in Nat /\ BlockData(s.len, s.pct, b) \in Nat /\ BlockData(s.len, s.pct, b) > 0
    <3>1. /\ BlockData(s.len, s.pct, b) \in 1 .. DataPerBlock(s.pct)
          /\ DataPerBlock(s.pct) \in 1 .. 255
          /\ bt \in 1 .. MAX_SHARDS
      BY BlocksOK
    <3> QED
      BY <3>1, WireAssumption
  <2> HIDE DEF bt, R
  <2>11. loss_fraction(r).lost * bt = loss_fraction(r).of * (bt - Cardinality({}))
    <3>1. Cardinality({}) = 0 /\ bt - 0 = bt
      BY <2>10, FS_EmptySet
    <3> QED
      BY <2>8, <2>9, <2>10, <3>1
  <2>12. ~(0 .. BlockData(s.len, s.pct, b) - 1 \subseteq {})
    BY <2>10
  <2>13. r \in R
    BY <2>6
  <2>14. Tells(R, s, b, {})
    BY <2>6, <2>11, <2>12, <2>13, Zenon DEF Tells, bt
  <2> QED
    BY <1>6, <2>14, Zenon DEF R, known, Got, BlockReports
<1>7. \A r \in report_fec(n, f) : r.frame = n
  <2>1. \A x, blk : fec_status(n, x, blk).frame = n
    BY DEF fec_status
  <2> HIDE DEF known, nothing, unseen
  <2> QED
    BY <1>3, <2>1
<1> QED
  BY <1>5, <1>6, <1>7

\* The inductive invariant behind what the client makes of the shards.
ClientInv == IInv /\ AsmOK

LEMMA ClientInvariance == ASSUME FramesFit PROVE Spec => []ClientInv
<1>1. Init => ClientInv
  BY Initially DEF Init, ClientInv, AsmOK
<1>2. ClientInv /\ [Next]_vars => ClientInv'
  BY Inductive, AsmStep DEF ClientInv, IInv
<1> QED
  BY <1>1, <1>2, PTL DEF Spec

\* missing_before_highest counts exactly the shards of the block below the
\* highest received that did not arrive, for every order of arrival and across
\* the wrap of the sequence number (BlockAsm::note_seq).
THEOREM MissingAlwaysExact ==
    ASSUME FramesFit
    PROVE  Spec => []MissingExact
<1>1. ASSUME ClientInv PROVE MissingExact
  <2> SUFFICES ASSUME NEW n \in DOMAIN frames, NEW b \in DOMAIN frames[n].blocks
               PROVE  LET blk == frames[n].blocks[b]
                          top == CHOOSE i \in blk.got : \A j \in blk.got : j <= i
                      IN  blk.missing_before_highest = Cardinality((0 .. top) \ blk.got)
    BY DEF MissingExact
  <2> DEFINE blk  == frames[n].blocks[b]
             high == CHOOSE i \in blk.got : \A j \in blk.got : j <= i
  <2>1. BlockIs(blk, sent[n], b)
    BY <1>1 DEF ClientInv, AsmOK, Assembled, FrameIs
  <2> HIDE DEF blk
  <2>2. PICK top \in blk.got :
          /\ \A j \in blk.got : j <= top
          /\ blk.missing_before_highest = Cardinality((0 .. top) \ blk.got)
    BY <2>1 DEF BlockIs, Counted
  <2>3. \A j \in blk.got : j \in Int
    BY <2>1 DEF BlockIs
  <2>4. high \in blk.got /\ \A j \in blk.got : j <= high
    BY <2>2
  <2> HIDE DEF high
  <2>5. high = top
    BY <2>2, <2>3, <2>4
  <2>6. blk.missing_before_highest = Cardinality((0 .. high) \ blk.got)
    BY <2>2, <2>5
  <2> QED
    BY <2>6 DEF high, blk
<1> QED
  BY <1>1, ClientInvariance, PTL

\* A frame in assembly is marked delivered exactly when in each of its blocks as
\* many shards arrived as the host cut data shards (push, data_complete,
\* try_recover): nothing recoverable waits, nothing is handed over too early.
THEOREM DeliveredExactly ==
    ASSUME FramesFit
    PROVE  Spec => []DeliveredWhenRecoverable
<1>1. ClientInv => DeliveredWhenRecoverable
  BY DEF ClientInv, AsmOK, Assembled, Whole, DeliveredWhenRecoverable
<1> QED
  BY <1>1, ClientInvariance, PTL

\* What a step may report: frames that leave the table, truthfully.
Reports ==
    /\ \A r \in fec' \ fec : r.frame \in DOMAIN frames \ DOMAIN frames'
    /\ \A n \in DOMAIN frames \ DOMAIN frames' : ReportsTell(n)

LEMMA TurnReports ==
    ASSUME FramesFit, ClientInv, NEW S, NEW k \in Nat, NEW done, Turn(S, k, done)
    PROVE  Reports
<1>1. /\ S \subseteq DOMAIN frames /\ SentOK /\ TableOK /\ AsmOK
      /\ fec' = UNION {report_fec(n, frames[n]) : n \in S}
  BY DEF Turn, Retire, ClientInv, IInv
<1>2. DOMAIN frames \ DOMAIN frames' = S
  <2>1. DOMAIN frames \subseteq Nat \ {0}
    BY <1>1 DEF TableOK, SentOK
  <2>2. k > 0 => k \notin S
    BY DEF Turn
  <2> QED
    BY <2>1, <2>2 DEF Turn
<1>3. ASSUME NEW n \in S
      PROVE  /\ \A b \in 0 .. NrBlocks(sent[n].len, sent[n].pct) - 1 :
                   Tells(BlockReports(n, frames[n], b), sent[n], b, Got(frames[n], b))
             /\ \A r \in report_fec(n, frames[n]) : r.frame = n
  <2> DEFINE s == sent[n]
             f == frames[n]
  <2>1. n \in DOMAIN frames /\ n \in DOMAIN sent
    BY <1>1 DEF TableOK, SentOK
  <2>2. Assembled(f, s) /\ s.len \in Lens /\ s.pct \in 10 .. 60
    BY <1>1, <2>1, SentFrame DEF AsmOK
  <2> HIDE DEF s, f
  <2>3. 0 \in 0 .. NrBlocks(s.len, s.pct) - 1
    <3>1. NrBlocks(s.len, s.pct) \in 1 .. MAX_FEC_BLOCKS
      BY <2>2, LayoutOK
    <3> QED
      BY <3>1, WireAssumption
  <2>4. \A b \in 0 .. NrBlocks(s.len, s.pct) - 1 :
           /\ Tells(BlockReports(n, f, b), s, b, Got(f, b))
           /\ \A r \in report_fec(n, f) : r.frame = n
    BY <2>2, FrameReport
  <2> QED
    BY <2>3, <2>4, Zenon DEF s, f
<1>4. ASSUME NEW n \in S PROVE ReportsTell(n)
  <2> DEFINE s == sent[n]
  <2>3. ASSUME NEW b \in 0 .. NrBlocks(s.len, s.pct) - 1
        PROVE  Tells({r \in fec' : r.frame = n /\ r.block = b}, s, b, Arrived(n, b))
    <3>1. {r \in fec' : r.frame = n /\ r.block = b}
            = BlockReports(n, frames[n], b)
      BY <1>1, <1>3 DEF BlockReports
    <3>2. Arrived(n, b) = Got(frames[n], b)
      BY DEF Arrived, Got
    <3>3. Tells(BlockReports(n, frames[n], b), s, b, Got(frames[n], b))
      BY <1>3
    <3> QED
      BY <3>1, <3>2, <3>3
  <2> QED
    BY <2>3, Zenon DEF ReportsTell, Tells
<1> QED
  BY <1>1, <1>2, <1>3, <1>4 DEF Reports

\* The reports that lower the host's rate tell the loss there was: one report for
\* every block of which a data shard the host cut is missing when the frame leaves
\* the table, with the share of its shards that did not arrive, and none for any
\* other block or at any other time (report_fec, fec_status, loss_fraction).
THEOREM ReportsHonest ==
    ASSUME FramesFit
    PROVE  Spec => ReportsAreHonest
<1>1. ASSUME ClientInv, [Next]_vars PROVE [Reports]_vars
  <2>1. SentOK /\ TableOK
    BY <1>1 DEF ClientInv, IInv
  <2>2. ASSUME UNCHANGED <<frames, fec>> PROVE Reports
    BY <2>2 DEF Reports
  <2>3. ASSUME NEW S, NEW n \in Nat, NEW done, Turn(S, n, done) PROVE Reports
    BY <1>1, <2>3, TurnReports
  <2>4. ASSUME NEW len \in Lens, NEW poll \in Pcts, SendFrame(len, poll) PROVE Reports
    BY <2>1, <2>2, <2>4, SendKeeps
  <2> QED
    BY <1>1, <2>1, <2>2, <2>3, <2>4, NextTurn
<1> QED
  BY <1>1, ClientInvariance, PTL DEF Spec, ReportsAreHonest, Reports

-----------------------------------------------------------------------------
(* What is handed over.                                                    *)

\* A frame of K blocks, all of D data shards but the last, which has the rest of
\* the T data shards of the frame (K is at most four, so the sum is written out).
Split(f, K, D, T) ==
    \A b \in 0 .. K - 1 : f.blocks[b].data = IF b = K - 1 THEN T - (K - 1) * D ELSE D

LEMMA TotalIs ==
    ASSUME NEW f, NEW K \in 1 .. 4, f.block_count = K, NEW D \in Nat, NEW T \in Int,
           Split(f, K, D, T)
    PROVE  TotalData(f) = T
<1> DEFINE E(g) == [n \in 0 .. K |-> IF n = 0 THEN 0 ELSE g[n - 1] + f.blocks[n - 1].data]
           sum  == CHOOSE g : g = E(g)
           W    == [n \in 0 .. K |-> IF n = K THEN T ELSE n * D]
<1>0. \A b \in 0 .. K - 1 : f.blocks[b].data = IF b = K - 1 THEN T - (K - 1) * D ELSE D
  BY DEF Split
<1>1. TotalData(f) = sum[K]
  BY DEF TotalData
<1>2. W = E(W)
  <2>1. ASSUME NEW n \in 0 .. K PROVE W[n] = E(W)[n]
    <3>1. CASE n = 0
      BY <3>1
    <3>2. CASE n \in 1 .. K - 1
      <4>1. W[n - 1] = (n - 1) * D /\ f.blocks[n - 1].data = D
        <5>1. n - 1 \in 0 .. K - 1 /\ n - 1 # K - 1 /\ n - 1 # K /\ n - 1 \in 0 .. K
          BY <3>2
        <5>2. W[n - 1] = (n - 1) * D
          BY <5>1
        <5>3. f.blocks[n - 1].data = D
          <6> HIDE DEF W, E
          <6> QED
            BY <1>0, <5>1
        <5> QED
          BY <5>2, <5>3
      <4>2. (n - 1) * D + D = n * D
        BY <3>2
      <4> QED
        BY <3>2, <4>1, <4>2
    <3>3. CASE n = K
      <4>1. W[K - 1] = (K - 1) * D /\ f.blocks[K - 1].data = T - (K - 1) * D
        BY <1>0
      <4>2. (K - 1) * D + (T - (K - 1) * D) = T
        <5>1. (K - 1) * D \in Int
          OBVIOUS
        <5> QED
          BY <5>1
      <4> QED
        BY <3>3, <4>1, <4>2
    <3> QED
      BY <3>1, <3>2, <3>3
  <2> QED
    BY <2>1
<1>3. sum = E(sum)
  <2> HIDE DEF E, W
  <2> QED
    BY <1>2
<1> HIDE DEF sum
<1>4. sum[0] = 0 /\ \A n \in 1 .. K : sum[n] = sum[n - 1] + f.blocks[n - 1].data
  BY <1>3
<1> HIDE DEF E, W
<1>5. /\ 1 < K => sum[1] = D
      /\ 2 < K => sum[2] = 2 * D
      /\ 3 < K => sum[3] = 3 * D
  <2>1. 1 < K => sum[1] = D
    BY <1>0, <1>4
  <2>2. 2 < K => sum[2] = 2 * D
    BY <1>0, <1>4, <2>1
  <2>3. 3 < K => sum[3] = 3 * D
    BY <1>0, <1>4, <2>2
  <2> QED
    BY <2>1, <2>2, <2>3
<1>6. sum[K - 1] = (K - 1) * D
  BY <1>4, <1>5
<1>7. sum[K] = (K - 1) * D + (T - (K - 1) * D)
  <2>1. K \in 1 .. K /\ K - 1 \in 0 .. K - 1
    OBVIOUS
  <2> QED
    BY <1>0, <1>4, <1>6, <2>1
<1>8. (K - 1) * D \in Int
  OBVIOUS
<1> QED
  BY <1>1, <1>7, <1>8

\* assemble undoes the cut into shards: all are full but the last.
LEMMA LengthOK ==
    ASSUME NEW len \in Lens
    PROVE  (TotalDataShards(len) - 1) * PayloadSize + LastShardSize(len) - HeaderSize = len
<1> DEFINE a == HeaderSize + len
           p == PayloadSize
           q == a \div p
           r == a % p
<1>1. /\ len \in Nat /\ HeaderSize \in Nat /\ p \in Nat /\ p > 0
      /\ a \in Nat /\ a > 0 /\ a - HeaderSize = len
  BY StreamAssumption, WireAssumption
<1>2. /\ TotalDataShards(len) = MaxOf((a + p - 1) \div p, 1)
      /\ LastShardSize(len) = IF r = 0 THEN p ELSE r
  BY DEF TotalDataShards, LastShardSize, CeilDiv
<1> HIDE DEF a, p
<1>3. a = q * p + r /\ r \in 0 .. p - 1 /\ q \in Int /\ q \in Nat
  <2>1. a = q * p + r /\ r \in 0 .. p - 1 /\ q \in Int
    BY <1>1, DivMod
  <2>2. q \in Nat
    BY <1>1, DivFacts
  <2> QED
    BY <2>1, <2>2
<1> HIDE DEF q, r
<1>4. CASE r = 0
  <2>1. q >= 1
    <3>1. q = 0 => q * p = 0
      BY <1>1
    <3> QED
      BY <1>1, <1>3, <1>4, <3>1
  <2>2. (a + p - 1) \div p = q
    <3>1. a + p - 1 = q * p + (p - 1) /\ p - 1 \in 0 .. p - 1 /\ a + p - 1 \in Int
      <4>1. q * p \in Int
        BY <1>1, <1>3
      <4> QED
        BY <1>1, <1>3, <1>4, <4>1
    <3> QED
      BY <1>1, <1>3, <3>1, DivModUnique
  <2>3. TotalDataShards(len) = q /\ LastShardSize(len) = p
    BY <1>2, <1>3, <1>4, <2>1, <2>2 DEF MaxOf
  <2>4. (q - 1) * p + p = a
    <3>1. (q - 1) * p = q * p - p /\ q * p \in Int
      BY <1>1, <1>3
    <3> QED
      BY <1>1, <1>3, <1>4, <3>1
  <2>5. (q - 1) * p \in Int
    BY <1>1, <1>3
  <2>6. (q - 1) * p + p - HeaderSize = len
    BY <1>1, <2>4, <2>5
  <2> QED
    BY <2>3, <2>6 DEF p
<1>5. CASE r # 0
  <2>1. (a + p - 1) \div p = q + 1
    <3>1. a + p - 1 = (q + 1) * p + (r - 1) /\ r - 1 \in 0 .. p - 1 /\ a + p - 1 \in Int
      <4>1. q * p \in Int /\ (q + 1) * p = q * p + p
        BY <1>1, <1>3
      <4> QED
        BY <1>1, <1>3, <1>5, <4>1
    <3>2. q + 1 \in Int
      BY <1>3
    <3> QED
      BY <1>1, <3>1, <3>2, DivModUnique
  <2>2. TotalDataShards(len) = q + 1 /\ LastShardSize(len) = r
    BY <1>2, <1>3, <1>5, <2>1 DEF MaxOf
  <2>3. q * p + r - HeaderSize = len /\ (q + 1) - 1 = q
    <3>1. q * p \in Int
      BY <1>1, <1>3
    <3> QED
      BY <1>1, <1>3, <3>1
  <2> QED
    BY <2>2, <2>3 DEF p
<1> QED
  BY <1>4, <1>5

\* A complete frame is assembled to the length the encoder produced.
LEMMA AssembledOK ==
    ASSUME FramesFit, NEW s, s.len \in Lens, s.pct \in 10 .. 60, NEW f, FrameIs(f, s),
           Whole(f, s)
    PROVE  AssembledLen(f, LastShardSize(s.len)) = s.len
<1> DEFINE len == s.len
           pct == s.pct
           K   == NrBlocks(len, pct)
           D   == DataPerBlock(pct)
           T   == TotalDataShards(len)
<1>1. f.block_count = K /\ \A b \in 0 .. K - 1 : f.blocks[b].data = BlockData(len, pct, b)
  BY DEF FrameIs, Whole, BlockIs
<1>2. len \in Lens /\ pct \in 10 .. 60
  OBVIOUS
<1> HIDE DEF len, pct
<1>3. K \in 1 .. 4 /\ D \in Nat /\ T \in Int
  <2>1. NrBlocks(len, pct) \in 1 .. MAX_FEC_BLOCKS /\ TotalDataShards(len) \in Nat \ {0}
    BY <1>2, LayoutOK
  <2>2. DataPerBlock(pct) \in 1 .. MAX_SHARDS
    BY <1>2, DataPerBlockOK
  <2> QED
    BY <2>1, <2>2, WireAssumption
<1>4. \A b \in 0 .. K - 1 : /\ b < K - 1 => BlockData(len, pct, b) = D
                            /\ b = K - 1 => BlockData(len, pct, b) = T - (K - 1) * D
  BY <1>2, BlocksOK
<1> HIDE DEF K, D, T
<1>5. Split(f, K, D, T)
  BY <1>1, <1>3, <1>4 DEF Split
<1>6. TotalData(f) = T
  BY <1>1, <1>3, <1>5, TotalIs
<1>7. (T - 1) * PayloadSize + LastShardSize(len) - HeaderSize = len
  BY <1>2, LengthOK DEF T
<1> QED
  BY <1>6, <1>7 DEF AssembledLen, len

\* Every access unit handed over has the length of the one the host sent.
IntactOK == \A i \in 1 .. Len(delivered) : delivered[i].len = sent[delivered[i].frame].len

LEMMA IntactStep == ASSUME FramesFit, IInv, AsmOK, IntactOK, [Next]_vars PROVE IntactOK'
<1>0. SentOK /\ TableOK /\ FateOK
  BY DEF IInv
<1>1. ASSUME NEW len \in Lens, NEW poll \in Pcts, SendFrame(len, poll) PROVE IntactOK'
  <2>1. delivered' = delivered /\ \A n \in 1 .. Len(sent) : sent'[n] = sent[n]
    BY <1>0, <1>1, SendSame, SendKeeps
  <2>2. \A i \in 1 .. Len(delivered) : delivered[i].frame \in 1 .. Len(sent)
    BY <1>0 DEF FateOK
  <2> QED
    BY <2>1, <2>2 DEF IntactOK
<1>2. ASSUME NEW n \in DOMAIN sent, NEW d \in ShardsOf(n), PushCompletes(d) PROVE IntactOK'
  <2> DEFINE e == [frame |-> n, len |-> AssembledLen(Touched(d), LastShardSize(sent[n].len))]
  <2>1. /\ ~Ignored(d) /\ complete(Touched(d)) /\ sent' = sent
        /\ delivered' = Append(delivered, e)
    <3>1. d.frame = n
      BY ShardFrame
    <3> QED
      BY <1>2, <3>1 DEF PushCompletes, hostVars
  <2>2. FrameIs(Touched(d), sent[n])
    BY <1>0, <2>1, TouchedIs
  <2>3. sent[n].len \in Lens /\ sent[n].pct \in 10 .. 60
    BY <1>0, SentFrame
  <2>4. Whole(Touched(d), sent[n])
    BY <2>1, <2>2, <2>3, CompleteIsWhole
  <2>5. e.frame = n /\ e.len = sent[n].len
    BY <2>2, <2>3, <2>4, AssembledOK
  <2> HIDE DEF e
  <2>6. /\ Len(delivered) \in Nat /\ Len(delivered') = Len(delivered) + 1
        /\ \A i \in 1 .. Len(delivered) : delivered'[i] = delivered[i]
        /\ delivered'[Len(delivered) + 1] = e
    BY <1>0, <2>1, IsSeqAppend DEF FateOK
  <2>7. ASSUME NEW i \in 1 .. Len(delivered')
        PROVE  delivered'[i].len = sent'[delivered'[i].frame].len
    <3>1. CASE i \in 1 .. Len(delivered)
      BY <2>1, <2>6, <3>1 DEF IntactOK
    <3>2. CASE i = Len(delivered) + 1
      BY <2>1, <2>5, <2>6, <3>2
    <3> QED
      BY <2>6, <3>1, <3>2
  <2> QED
    BY <2>7 DEF IntactOK
<1>3. ASSUME UNCHANGED <<sent, delivered>> PROVE IntactOK'
  BY <1>3 DEF IntactOK
<1>4. ASSUME NEW d, PushShard(d) PROVE UNCHANGED <<sent, delivered>>
  BY <1>4 DEF PushShard, hostVars
<1>5. ASSUME NEW cut, Tick(cut) PROVE UNCHANGED <<sent, delivered>>
  BY <1>5 DEF Tick, hostVars
<1>6. Stop \/ CloseSink \/ UNCHANGED vars => UNCHANGED <<sent, delivered>>
  BY DEF Stop, CloseSink, vars, hostVars, dpVars
<1> QED
  BY <1>1, <1>2, <1>3, <1>4, <1>5, <1>6 DEF Next

\* What the client hands over is as long as what the encoder produced, whatever
\* subset and order of shards it was put together from, and no frame is handed
\* over twice (packetize_frame, assemble, emit_completed).
THEOREM HandedOverIntact ==
    ASSUME FramesFit
    PROVE  Spec => []DeliveredIntact
<1>1. Init => IntactOK
  <2> SUFFICES ASSUME Init PROVE IntactOK
    OBVIOUS
  <2>1. Len(delivered) = 0
    BY EmptySeq DEF Init
  <2> QED
    BY <2>1 DEF IntactOK
<1>2. ClientInv /\ IntactOK /\ [Next]_vars => IntactOK'
  BY IntactStep DEF ClientInv
<1>3. ClientInv /\ IntactOK => DeliveredIntact
  <2> SUFFICES ASSUME ClientInv, IntactOK PROVE DeliveredIntact
    OBVIOUS
  <2>1. FateOK
    BY DEF ClientInv, IInv
  <2>2. DOMAIN delivered = 1 .. Len(delivered)
    BY <2>1, IsSeqAppend DEF FateOK
  <2> QED
    BY <2>1, <2>2 DEF FateOK, IntactOK, DeliveredIntact
<1> QED
  BY <1>1, <1>2, <1>3, ClientInvariance, PTL DEF Spec

--------------------------------------------------------------------------------
(* The audio stream.                                                       *)

\* A client whose PING is on its way was started.
PingOK == \A c \in Clients : ping[c] => running[c] # "idle"

\* What SeqTracker knows of the positions received: nothing before the first
\* frame, and then the residue of the highest one, with `expected' grown by as
\* many positions as it has moved on.
TrackerOK ==
    \A c \in Clients :
        /\ epoch[c] = "none" => last[c] = -1 /\ expected[c] = 0 /\ highest[c] = 0
        /\ epoch[c] = "current" =>
              last[c] = highest[c] % SeqSpace /\ expected[c] = highest[c] - first[c] + 1

\* The inductive invariant of the audio stream.
AudioInv == AudioTypeOK /\ PingOK /\ TrackerOK

LEMMA AudioConstants ==
    /\ None \notin Clients /\ Listeners \subseteq Clients
    /\ SeqSpace \in Nat /\ SeqSpace > 0 /\ SeqSpace \div 2 \in Nat
    /\ SeqSpace = 2 * (SeqSpace \div 2)
    /\ RESYNC_THRESHOLD \in Nat /\ RESYNC_THRESHOLD <= SeqSpace \div 2
    /\ MaxLag \in Nat /\ MaxLag < RESYNC_THRESHOLD
    /\ MaxGap \in Nat /\ MaxGap + 1 < SeqSpace \div 2
    /\ MaxSent \in Nat /\ MaxReceived \in Nat
<1>1. SeqSpace \in Nat /\ SeqSpace % 2 = 0 /\ RESYNC_THRESHOLD \in 1 .. SeqSpace \div 2
  BY AudioAssumption
<1>2. SeqSpace = (SeqSpace \div 2) * 2 + (SeqSpace % 2) /\ SeqSpace \div 2 \in Int
  BY <1>1, DivMod
<1>3. SeqSpace \div 2 \in Nat /\ SeqSpace \div 2 >= 1 /\ SeqSpace = 2 * (SeqSpace \div 2)
  BY <1>1, <1>2
<1>4. SeqSpace > 0
  BY <1>1, <1>3
<1> QED
  BY <1>1, <1>3, <1>4, AudioAssumption

\* The wrapping_sub of SeqTracker::advance, read as a signed number, is the distance of
\* the two positions whenever that is less than half the numbers there are.
LEMMA DiffIsDistance ==
    ASSUME NEW n \in Nat, NEW t \in Nat,
           n - t < SeqSpace \div 2, t - n <= SeqSpace \div 2
    PROVE  Diff(n % SeqSpace, t % SeqSpace) = n - t
<1> DEFINE h == SeqSpace \div 2
           x == n % SeqSpace
           y == t % SeqSpace
           k == n \div SeqSpace
           l == t \div SeqSpace
           e == (x - y + SeqSpace) % SeqSpace
<1>0. SeqSpace \in Nat /\ SeqSpace > 0 /\ h \in Nat /\ SeqSpace = 2 * h
  BY AudioConstants
<1>1. n = k * SeqSpace + x /\ x \in 0 .. SeqSpace - 1 /\ k \in Int
  BY <1>0, DivMod
<1>2. t = l * SeqSpace + y /\ y \in 0 .. SeqSpace - 1 /\ l \in Int
  BY <1>0, DivMod
<1>3. x - y + SeqSpace = (n - t) + (l - k + 1) * SeqSpace
  <2>1. \A a, b, s \in Int : (a - b + 1) * s = a * s - b * s + s
    OBVIOUS
  <2>2. (l - k + 1) * SeqSpace = l * SeqSpace - k * SeqSpace + SeqSpace
    BY <1>0, <1>1, <1>2, <2>1
  <2>3. l * SeqSpace \in Int /\ k * SeqSpace \in Int
    BY <1>0, <1>1, <1>2
  <2> HIDE DEF x, y, k, l, h
  <2> QED
    BY <1>0, <1>1, <1>2, <2>2, <2>3
<1>4. e = (n - t) % SeqSpace
  <2>1. l - k + 1 \in Int /\ n - t \in Int
    BY <1>1, <1>2
  <2> QED
    BY <1>0, <1>3, <2>1, ModRounds
<1>5. CASE n >= t
  <2>1. n - t \in 0 .. SeqSpace - 1 /\ n - t = 0 * SeqSpace + (n - t)
    BY <1>0, <1>5
  <2>2. e = n - t
    BY <1>0, <1>4, <2>1, DivModUnique
  <2> HIDE DEF e
  <2>3. (IF e < h THEN e ELSE e - SeqSpace) = n - t
    BY <1>0, <2>2
  <2> QED
    BY <2>3 DEF Diff, e
<1>6. CASE n < t
  <2>1. n - t + SeqSpace \in 0 .. SeqSpace - 1 /\ -1 \in Int
        /\ n - t = (-1) * SeqSpace + (n - t + SeqSpace)
    BY <1>0, <1>6
  <2>2. e = n - t + SeqSpace
    BY <1>0, <1>4, <2>1, DivModUnique
  <2> HIDE DEF e
  <2>3. (IF e < h THEN e ELSE e - SeqSpace) = n - t
    BY <1>0, <1>6, <2>2
  <2> QED
    BY <2>3 DEF Diff, e
<1> QED
  BY <1>5, <1>6

\* Whatever number comes in, advance leaves a number and never takes slots back.
LEMMA AdvanceType ==
    ASSUME NEW prev \in -1 .. SeqSpace - 1, NEW seq \in 0 .. SeqSpace - 1
    PROVE  /\ Advance(prev, seq).last \in 0 .. SeqSpace - 1
           /\ Advance(prev, seq).slots \in Nat
<1>1. CASE prev = -1
  BY <1>1 DEF Advance
<1>2. CASE prev # -1
  <2>1. Diff(seq, prev) \in Int
    <3>1. (seq - prev + SeqSpace) % SeqSpace \in 0 .. SeqSpace - 1
      BY AudioConstants, DivMod
    <3> QED
      BY <3>1, AudioConstants DEF Diff
  <2> QED
    BY <1>2, <2>1, AudioConstants DEF Advance
<1> QED
  BY <1>1, <1>2

\* What SeqTracker::advance does with a frame of the registration it follows, in
\* the reach of the network: a later position moves it on by as many slots, an
\* earlier one or a repeated one is stale; it never takes either for a restart.
LEMMA AdvanceInReach ==
    ASSUME NEW n \in Nat, NEW t \in Nat, n >= t - MaxLag, n <= t + MaxGap + 1
    PROVE  LET step == Advance(t % SeqSpace, n % SeqSpace)
           IN  /\ n > t => step.last = n % SeqSpace /\ step.slots = n - t
               /\ n <= t => step.last = t % SeqSpace /\ step.slots = 0
<1>1. n - t < SeqSpace \div 2 /\ t - n < RESYNC_THRESHOLD
  BY AudioConstants
<1>2. Diff(n % SeqSpace, t % SeqSpace) = n - t
  BY <1>1, DiffIsDistance, AudioConstants
<1>3. t % SeqSpace # -1 /\ ~(n - t <= -RESYNC_THRESHOLD)
  <2>1. t % SeqSpace \in 0 .. SeqSpace - 1
    BY AudioConstants, DivMod
  <2> QED
    BY <1>1, <2>1, AudioConstants
<1> DEFINE y == t % SeqSpace
           x == n % SeqSpace
<1> HIDE DEF x, y
<1>4. Advance(y, x) = IF n - t > 0 THEN [last |-> x, slots |-> n - t]
                      ELSE [last |-> y, slots |-> 0]
  BY <1>2, <1>3 DEF Advance, x, y
<1> QED
  BY <1>4 DEF x, y

\* Before the first PING nothing is registered, sent or counted.
LEMMA AudioInitInv == AudioInit => AudioInv
<1> SUFFICES ASSUME AudioInit PROVE AudioInv
  OBVIOUS
<1>1. last \in [Clients -> -1 .. SeqSpace - 1]
  BY AudioConstants DEF AudioInit
<1>2. AudioTypeOK
  <2>1. /\ consumer \in [Clients -> BOOLEAN] /\ ping \in [Clients -> BOOLEAN]
        /\ expired \in BOOLEAN /\ icmp \in BOOLEAN
    BY DEF AudioInit
  <2>2. frames_sent \in 0 .. MaxSent /\ received \in [Clients -> 0 .. MaxReceived]
    BY AudioConstants DEF AudioInit
  <2>3. /\ expected \in [Clients -> Nat] /\ first \in [Clients -> Nat]
        /\ highest \in [Clients -> Nat]
    BY DEF AudioInit
  <2> QED
    BY <1>1, <2>1, <2>2, <2>3 DEF AudioInit, AudioTypeOK
<1>3. PingOK /\ TrackerOK
  BY DEF AudioInit, PingOK, TrackerOK
<1> QED
  BY <1>2, <1>3 DEF AudioInv

\* Every step leaves the variables well-typed, and only started clients are sent to.
LEMMA AudioTypeStep ==
    ASSUME AudioTypeOK, PingOK, [AudioNext]_audioVars
    PROVE  AudioTypeOK' /\ PingOK'
<1> USE AudioConstants DEF AudioTypeOK, PingOK, host, stats, heard
<1>1. ASSUME CaptureOpens \/ CaptureFails \/ CaptureRetries PROVE AudioTypeOK' /\ PingOK'
  BY <1>1 DEF CaptureOpens, CaptureFails, CaptureRetries
<1>2. ASSUME OwnerExpires PROVE AudioTypeOK' /\ PingOK'
  BY <1>2 DEF OwnerExpires
<1>3. ASSUME ConnReset PROVE AudioTypeOK' /\ PingOK'
  BY <1>3 DEF ConnReset
<1>4. ASSUME SendAudio PROVE AudioTypeOK' /\ PingOK'
  <2>1. icmp' \in BOOLEAN
    BY <1>4 DEF SendAudio
  <2>2. frames_sent' \in 0 .. MaxSent
    BY <1>4 DEF SendAudio
  <2> QED
    BY <1>4, <2>1, <2>2 DEF SendAudio
<1>5. ASSUME NEW c \in Clients, HostPing(c) PROVE AudioTypeOK' /\ PingOK'
  <2>1. running[c] # "idle" /\ ping' = [ping EXCEPT ![c] = FALSE]
        /\ UNCHANGED <<capture, icmp, running, consumer, stats>>
    BY <1>5 DEF HostPing
  <2>2. CASE OwnerActive(c)
    BY <1>5, <2>1, <2>2 DEF HostPing
  <2>3. CASE ~OwnerActive(c)
    <3>1. client_addr' = c /\ expired' = FALSE /\ frames_sent' \in 0 .. MaxSent
      BY <1>5, <2>3 DEF HostPing, Restart
    <3>2. epoch' \in [Clients -> {"none", "current", "past"}]
          /\ first' \in [Clients -> Nat] /\ highest' \in [Clients -> Nat]
      BY <1>5, <2>3 DEF HostPing, NewEpoch
    <3> QED
      BY <2>1, <3>1, <3>2
  <2> QED
    BY <2>2, <2>3
<1>6. ASSUME NEW c \in Clients, ClientStarts(c) PROVE AudioTypeOK' /\ PingOK'
  BY <1>6 DEF ClientStarts
<1>7. ASSUME NEW c \in Clients, ClientPings(c) PROVE AudioTypeOK' /\ PingOK'
  BY <1>7 DEF ClientPings
<1>8. ASSUME NEW c \in Clients, PingLost(c) PROVE AudioTypeOK' /\ PingOK'
  BY <1>8 DEF PingLost
<1>9. ASSUME NEW c \in Clients, ClientFails(c) PROVE AudioTypeOK' /\ PingOK'
  BY <1>9 DEF ClientFails
<1>10. ASSUME NEW c \in Clients, CloseConsumer(c) PROVE AudioTypeOK' /\ PingOK'
  BY <1>10 DEF CloseConsumer
<1>11. ASSUME NEW c \in Clients, NEW n \in 0 .. MaxSent, Ingest(c, n)
       PROVE  AudioTypeOK' /\ PingOK'
  <2>1. last[c] \in -1 .. SeqSpace - 1 /\ n % SeqSpace \in 0 .. SeqSpace - 1
    BY DivMod
  <2> DEFINE step == Advance(last[c], n % SeqSpace)
  <2>2. step.last \in 0 .. SeqSpace - 1 /\ step.slots \in Nat
    BY <2>1, AdvanceType
  <2> HIDE DEF step
  <2>3. /\ last' = [last EXCEPT ![c] = step.last]
        /\ expected' = [expected EXCEPT ![c] = @ + step.slots]
    BY <1>11 DEF Ingest, step
  <2> QED
    BY <1>11, <2>2, <2>3 DEF Ingest
<1>12. CASE UNCHANGED audioVars
  BY <1>12 DEF audioVars
<1> HIDE DEF AudioTypeOK, PingOK
<1> QED
  BY <1>1, <1>2, <1>3, <1>4, <1>5, <1>6, <1>7, <1>8, <1>9, <1>10, <1>11, <1>12
     DEF AudioNext

\* A received frame keeps the tracker on the highest position of the registration.
LEMMA IngestKeepsTrack ==
    ASSUME AudioTypeOK, TrackerOK, NEW c \in Clients, NEW n \in 0 .. MaxSent, Ingest(c, n)
    PROVE  TrackerOK'
<1> DEFINE step == Advance(last[c], n % SeqSpace)
<1>1. n \in Nat /\ n \in Arriving(c)
  BY AudioConstants DEF Ingest
<1>2. /\ last[c] \in -1 .. SeqSpace - 1 /\ expected[c] \in Nat
      /\ highest[c] \in Nat /\ first[c] \in Nat /\ epoch[c] \in {"none", "current", "past"}
      /\ c \in DOMAIN last /\ c \in DOMAIN expected /\ c \in DOMAIN epoch
      /\ c \in DOMAIN first /\ c \in DOMAIN highest
  BY DEF AudioTypeOK
<1>3. epoch[c] = "none" => step.last = n % SeqSpace /\ step.slots = 1
  BY DEF TrackerOK, Advance
<1>4. epoch[c] = "current" =>
         /\ n > highest[c] => step.last = n % SeqSpace /\ step.slots = n - highest[c]
         /\ n <= highest[c] => step.last = highest[c] % SeqSpace /\ step.slots = 0
  <2> SUFFICES ASSUME epoch[c] = "current"
               PROVE  /\ n > highest[c] => step.last = n % SeqSpace /\ step.slots = n - highest[c]
                      /\ n <= highest[c] => step.last = highest[c] % SeqSpace /\ step.slots = 0
    OBVIOUS
  <2>1. last[c] = highest[c] % SeqSpace
    BY DEF TrackerOK
  <2>2. n >= highest[c] - MaxLag /\ n <= highest[c] + MaxGap + 1
    BY <1>1 DEF Arriving
  <2> QED
    BY <1>1, <1>2, <2>1, <2>2, AdvanceInReach
<1> HIDE DEF step
<1>5. /\ last'[c] = step.last /\ expected'[c] = expected[c] + step.slots
      /\ epoch'[c] = (IF epoch[c] = "none" THEN "current" ELSE epoch[c])
      /\ first'[c] = (IF epoch[c] = "none" THEN n ELSE first[c])
      /\ highest'[c] = (IF epoch[c] # "past" /\ n > highest[c] THEN n ELSE highest[c])
  BY <1>2 DEF Ingest, step
<1>6. \A d \in Clients \ {c} :
         /\ last'[d] = last[d] /\ expected'[d] = expected[d] /\ epoch'[d] = epoch[d]
         /\ first'[d] = first[d] /\ highest'[d] = highest[d]
  BY DEF AudioTypeOK, Ingest
<1>7. /\ epoch'[c] = "none" => last'[c] = -1 /\ expected'[c] = 0 /\ highest'[c] = 0
      /\ epoch'[c] = "current" =>
            last'[c] = highest'[c] % SeqSpace /\ expected'[c] = highest'[c] - first'[c] + 1
  <2>1. CASE epoch[c] = "none"
    <3>1. expected[c] = 0 /\ highest[c] = 0
      BY <2>1 DEF TrackerOK
    <3>2. highest'[c] = n /\ first'[c] = n /\ epoch'[c] = "current"
      BY <1>1, <1>5, <2>1, <3>1
    <3> QED
      BY <1>1, <1>3, <1>5, <2>1, <3>1, <3>2
  <2>2. CASE epoch[c] = "current"
    <3>1. expected[c] = highest[c] - first[c] + 1 /\ last[c] = highest[c] % SeqSpace
      BY <2>2 DEF TrackerOK
    <3>2. CASE n > highest[c]
      BY <1>1, <1>2, <1>4, <1>5, <2>2, <3>1, <3>2
    <3>3. CASE n <= highest[c]
      BY <1>1, <1>2, <1>4, <1>5, <2>2, <3>1, <3>3
    <3> QED
      BY <1>1, <1>2, <3>2, <3>3
  <2>3. CASE epoch[c] = "past"
    BY <1>5, <2>3
  <2> QED
    BY <1>2, <2>1, <2>2, <2>3
<1> QED
  BY <1>6, <1>7 DEF TrackerOK

\* No other step touches the statistics; a new registration ends the old one's count.
LEMMA TrackerStep ==
    ASSUME AudioTypeOK, TrackerOK, [AudioNext]_audioVars
    PROVE  TrackerOK'
<1>1. CASE UNCHANGED <<stats, heard>>
  BY <1>1 DEF TrackerOK, stats, heard
<1>2. ASSUME NEW c \in Clients, HostPing(c) PROVE TrackerOK'
  <2>1. CASE UNCHANGED heard
    BY <1>1, <1>2, <2>1 DEF HostPing
  <2>2. CASE NewEpoch
    BY <1>2, <2>2 DEF HostPing, NewEpoch, TrackerOK, stats
  <2> QED
    BY <1>2, <2>1, <2>2 DEF HostPing, heard
<1>3. ASSUME NEW c \in Clients, NEW n \in 0 .. MaxSent, Ingest(c, n) PROVE TrackerOK'
  BY <1>3, IngestKeepsTrack
<1>4. ASSUME NEW c \in Clients, ClientStarts(c) \/ ClientPings(c) \/ PingLost(c)
                                  \/ ClientFails(c) \/ CloseConsumer(c)
      PROVE  TrackerOK'
  BY <1>1, <1>4 DEF ClientStarts, ClientPings, PingLost, ClientFails, CloseConsumer
<1>5. ASSUME \/ CaptureOpens \/ CaptureFails \/ CaptureRetries
             \/ OwnerExpires \/ ConnReset \/ SendAudio
      PROVE  TrackerOK'
  BY <1>1, <1>5 DEF CaptureOpens, CaptureFails, CaptureRetries, OwnerExpires, ConnReset,
     SendAudio
<1>6. CASE UNCHANGED audioVars
  BY <1>1, <1>6 DEF audioVars
<1> QED
  BY <1>2, <1>3, <1>4, <1>5, <1>6, AudioConstants DEF AudioNext

LEMMA AudioInvariance == AudioSpec => []AudioInv
<1>1. AudioInv /\ [AudioNext]_audioVars => AudioInv'
  BY AudioTypeStep, TrackerStep DEF AudioInv
<1> QED
  BY <1>1, AudioInitInv, PTL DEF AudioSpec

\* The host only ever sends audio to a client that was started, and the counters and
\* numbers of both sides stay what their Rust types hold.
THEOREM AudioTypeCorrect == AudioSpec => []AudioTypeOK
<1>1. AudioInv => AudioTypeOK
  BY DEF AudioInv
<1> QED
  BY <1>1, AudioInvariance, PTL

\* The receiver's loss statistics are exact, for any width of the sequence numbers
\* and any resynchronisation threshold up to half of it: within one registration
\* `expected' is the number of frames sent from the first received to the highest,
\* whatever the network loses, repeats or delays by less than the threshold, over
\* any number of wraps (SeqTracker::advance).
THEOREM AudioLossExact == AudioSpec => []LossExact
<1>1. AudioInv => LossExact
  BY DEF AudioInv, TrackerOK, LossExact
<1> QED
  BY <1>1, AudioInvariance, PTL

\* What a client counts belongs to the registration that is on, its own or, after
\* a reset, nobody's, and lies within what the host has sent in it.
SpanOK ==
    \A c \in Clients :
        epoch[c] = "current" =>
            /\ client_addr \in {c, None}
            /\ first[c] <= highest[c] /\ highest[c] < frames_sent

LEMMA SpanStep ==
    ASSUME AudioTypeOK, TrackerOK, SpanOK, [AudioNext]_audioVars
    PROVE  SpanOK'
<1> USE DEF SpanOK, host, stats, heard
<1>1. CASE UNCHANGED <<client_addr, frames_sent, heard>>
  BY <1>1
<1>2. CASE SendAudio
  BY <1>2, AudioConstants DEF SendAudio, AudioTypeOK
<1>3. CASE ConnReset
  BY <1>3 DEF ConnReset
<1>4. ASSUME NEW c \in Clients, HostPing(c) PROVE SpanOK'
  <2>1. CASE OwnerActive(c)
    BY <1>1, <1>4, <2>1 DEF HostPing
  <2>2. CASE ~OwnerActive(c) /\ client_addr = c
    BY <1>1, <1>4, <2>2 DEF HostPing, Restart
  <2>3. CASE ~OwnerActive(c) /\ client_addr # c
    <3>1. NewEpoch
      BY <1>4, <2>3 DEF HostPing
    <3>2. \A d \in Clients : epoch'[d] # "current"
      BY <3>1 DEF NewEpoch
    <3> QED
      BY <3>2
  <2> QED
    BY <2>1, <2>2, <2>3
<1>5. ASSUME NEW c \in Clients, NEW n \in 0 .. MaxSent, Ingest(c, n) PROVE SpanOK'
  <2>1. /\ client_addr' = client_addr /\ frames_sent' = frames_sent /\ client_addr = c
        /\ n \in 0 .. frames_sent - 1 /\ frames_sent \in Nat
        /\ first[c] \in Nat /\ highest[c] \in Nat
    BY <1>5, AudioConstants DEF Ingest, Arriving, AudioTypeOK
  <2>2. /\ epoch'[c] = (IF epoch[c] = "none" THEN "current" ELSE epoch[c])
        /\ first'[c] = (IF epoch[c] = "none" THEN n ELSE first[c])
        /\ highest'[c] = (IF epoch[c] # "past" /\ n > highest[c] THEN n ELSE highest[c])
    BY <1>5 DEF Ingest, AudioTypeOK
  <2>3. \A d \in Clients \ {c} :
           epoch'[d] = epoch[d] /\ first'[d] = first[d] /\ highest'[d] = highest[d]
    BY <1>5 DEF Ingest, AudioTypeOK
  <2>4. epoch[c] = "none" => highest[c] = 0
    BY DEF TrackerOK
  <2>5. epoch'[c] = "current" => first'[c] <= highest'[c] /\ highest'[c] < frames_sent
    BY <2>1, <2>2, <2>4
  <2> QED
    BY <2>1, <2>3, <2>5
<1>6. ASSUME NEW c \in Clients, ClientStarts(c) \/ ClientPings(c) \/ PingLost(c)
                                  \/ ClientFails(c) \/ CloseConsumer(c)
      PROVE  SpanOK'
  BY <1>1, <1>6 DEF ClientStarts, ClientPings, PingLost, ClientFails, CloseConsumer
<1>7. CASE CaptureOpens \/ CaptureFails \/ CaptureRetries \/ OwnerExpires
  BY <1>1, <1>7 DEF CaptureOpens, CaptureFails, CaptureRetries, OwnerExpires
<1>8. CASE UNCHANGED audioVars
  BY <1>1, <1>8 DEF audioVars
<1> HIDE DEF SpanOK
<1> QED
  BY <1>2, <1>3, <1>4, <1>5, <1>6, <1>7, <1>8, AudioConstants DEF AudioNext

\* The client never counts a frame that was not sent.
ExpectedWasSent ==
    \A c \in Clients :
        epoch[c] = "current" =>
            client_addr \in {c, None} /\ expected[c] \in 1 .. frames_sent

\* Within a registration `expected' is never zero and never above what the host has
\* sent in it, so the share of lost frames is at most one: no wrap, late or repeated
\* frame is taken for a jump (SeqTracker::advance), and a take-over ends the count.
THEOREM AudioExpectedWasSent == AudioSpec => []ExpectedWasSent
<1>1. AudioInit => SpanOK
  BY DEF AudioInit, SpanOK
<1>2. AudioInv /\ SpanOK /\ [AudioNext]_audioVars => SpanOK'
  BY SpanStep DEF AudioInv
<1>3. AudioInv /\ SpanOK => ExpectedWasSent
  <2> SUFFICES ASSUME AudioInv, SpanOK, NEW c \in Clients, epoch[c] = "current"
               PROVE  client_addr \in {c, None} /\ expected[c] \in 1 .. frames_sent
    BY DEF ExpectedWasSent
  <2>1. /\ client_addr \in {c, None} /\ first[c] <= highest[c] /\ highest[c] < frames_sent
        /\ expected[c] = highest[c] - first[c] + 1
    BY DEF AudioInv, SpanOK, TrackerOK
  <2>2. first[c] \in Nat /\ highest[c] \in Nat /\ frames_sent \in Nat
    BY AudioConstants DEF AudioInv, AudioTypeOK
  <2> QED
    BY <2>1, <2>2
<1> QED
  BY <1>1, <1>2, <1>3, AudioInvariance, PTL DEF AudioSpec
================================================================================
