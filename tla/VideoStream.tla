----------------------------- MODULE VideoStream -----------------------------
(***************************************************************************)
(* The video transport: the sender of video/mod.rs cuts frames with         *)
(* packetize_frame (module VideoWire), UDP carries the shards, and the      *)
(* Depacketizer and the receive loop of kmc-moonclient/src/video.rs put     *)
(* them together again.                                                     *)
(*                                                                         *)
(* The network may lose, repeat and reorder shards: any shard ever sent may *)
(* arrive at any time and any number of times, or never.                    *)
(*                                                                         *)
(* Only one numbering is modelled, from the registration of a client to the *)
(* next (StreamHost has the registrations and resets); the loop of key      *)
(* frame requests around the transport is in module KeyFrames.              *)
(***************************************************************************)
EXTENDS VideoWire, Sequences, FiniteSets

CONSTANTS MAX_INFLIGHT_FRAMES, \* frames assembled at the same time, 4
          Lens,                \* lengths of access units
          Pcts,                \* what poll_fec_percentage may return
          FirstSeq,            \* sequence number the first frame has
          MaxFrames,           \* bound: frames sent
          MaxLong              \* bound: of these, frames of more than one block

ASSUME StreamAssumption ==
    /\ MAX_INFLIGHT_FRAMES \in Nat \ {0}
    /\ Lens \subseteq Nat \ {0} /\ Pcts \subseteq Nat
    /\ FirstSeq \in 0 .. SeqMod - 1
    /\ MaxFrames \in Nat /\ MaxLong \in Nat

VARIABLES
    sent,         \* host: frames sent, by frame number
    sequence_number,
    receiving,    \* client: video::run has not returned
    sink,         \* the access-unit channel still has its consumer
    frames,       \* Depacketizer.frames, a function on frame numbers
    last_retired, \* 0 is None: frame numbers start at 1
    delivered,    \* frames completed, with the length handed over, in order
    lost,         \* how often each frame was reported Lost
    fec           \* FEC reports of the last turn of the loop

hostVars == <<sent, sequence_number>>
dpVars   == <<frames, last_retired, delivered, lost, fec>>
vars     == <<hostVars, receiving, sink, dpVars>>

\* video::run has bound its socket and sent its first PING.
ReceiverStarted == receiving = TRUE /\ sink = TRUE

Init ==
    /\ sent = <<>> /\ sequence_number = FirstSeq
    /\ ReceiverStarted
    /\ frames = <<>> /\ last_retired = 0
    /\ delivered = <<>> /\ fec = {}
    /\ lost = [n \in 1 .. MaxFrames |-> 0]

-----------------------------------------------------------------------------
(* The host.                                                               *)

LongFrames == {n \in DOMAIN sent : NrBlocks(sent[n].len, sent[n].pct) > 1}

\* The sender numbers and cuts the frame it took from the channel.
SendFrame(len, poll) ==
    /\ Len(sent) < MaxFrames
    /\ NrBlocks(len, ClampPct(poll)) = 1 \/ Cardinality(LongFrames) < MaxLong
    /\ sent' = Append(sent, [len |-> len, pct |-> ClampPct(poll),
                             seq |-> sequence_number])
    /\ sequence_number' = NextSeq(len, ClampPct(poll), sequence_number)
    /\ UNCHANGED <<receiving, sink, dpVars>>

\* The shards of frame number n.
ShardsOf(n) ==
    LET s == sent[n]
    IN  UNION {{Shard(n, s.len, s.pct, s.seq, b, i) :
                  i \in 0 .. BlockTotal(s.len, s.pct, b) - 1} :
               b \in 0 .. NrBlocks(s.len, s.pct) - 1}

-----------------------------------------------------------------------------
(* BlockAsm and FrameAsm.                                                  *)

NewBlock(d) ==
    [data   |-> data_shards(d.info),
     parity |-> parity_shard_count(data_shards(d.info), fec_percentage(d.info)),
     got    |-> {},   \* indices of the shards received
     highest_seq |-> 0, missing_before_highest |-> 0]

NewFrame(d, now) ==
    [block_count |-> block_count(d.multi), blocks |-> <<>>,
     first_seen  |-> now, ticked |-> FALSE, delivered |-> FALSE]

Minus(x, y) == (x - y + SeqMod) % SeqMod
is_before16(x, y) == Minus(x, y) >= SeqMod \div 2

\* Mutant: is_before16 without the wrap-around.
note_seq_unwrapped(blk, seq, i) ==
    IF blk.got = {}
    THEN [blk EXCEPT !.highest_seq = seq, !.missing_before_highest = i]
    ELSE IF blk.highest_seq < seq
    THEN [blk EXCEPT !.missing_before_highest = @ + Minus(seq, blk.highest_seq) - 1,
                     !.highest_seq = seq]
    ELSE [blk EXCEPT !.missing_before_highest = MaxOf(@ - 1, 0)]

\* The loss counters.  The first shard tells where the block starts (its
\* sequence number minus its index); next_contiguous_seq, which only the report
\* carries and nobody reads, is left out.
note_seq(blk, seq, i) ==
    IF blk.got = {}
    THEN [blk EXCEPT !.highest_seq = seq, !.missing_before_highest = i]
    ELSE IF is_before16(blk.highest_seq, seq)
    THEN [blk EXCEPT !.missing_before_highest = @ + Minus(seq, blk.highest_seq) - 1,
                     !.highest_seq = seq]
    ELSE [blk EXCEPT !.missing_before_highest = MaxOf(@ - 1, 0)]

ReceivedData(blk) == Cardinality(blk.got \cap (0 .. blk.data - 1))

\* Mutant: Reed-Solomon is tried one shard too early.
RecoverableEarly(blk) == blk.parity > 0 /\ Cardinality(blk.got) + 1 >= blk.data

\* try_recover succeeds: parity was sent, and as many shards as data arrived.
Recoverable(blk) == blk.parity > 0 /\ Cardinality(blk.got) >= blk.data

data_complete(blk) == ReceivedData(blk) = blk.data \/ Recoverable(blk)

complete(f) ==
    \A b \in 0 .. f.block_count - 1 :
        b \in DOMAIN f.blocks /\ data_complete(f.blocks[b])

\* assemble: the logical stream ends after last_payload_len bytes of the last
\* data shard and starts with the header, which shard 0 of block 0 carries.
TotalData(f) ==
    LET sum[n \in 0 .. f.block_count] ==
            IF n = 0 THEN 0 ELSE sum[n - 1] + f.blocks[n - 1].data
    IN  sum[f.block_count]
AssembledLen(f, last) == (TotalData(f) - 1) * PayloadSize + last - HeaderSize

-----------------------------------------------------------------------------
(* Depacketizer.                                                           *)

Oldest == CHOOSE n \in DOMAIN frames : \A m \in DOMAIN frames : n <= m

\* Mutant: the table has no limit.
FullNever == FALSE

Full == Cardinality(DOMAIN frames) >= MAX_INFLIGHT_FRAMES

Late(d) == d.frame <= last_retired

\* The datagram leaves no trace: malformed, late, older than a full table,
\* outside its block, or a repetition.
Ignored(d) ==
    \/ ~WellFormed(d) \/ Late(d)
    \/ d.frame \notin DOMAIN frames /\ Full /\ Oldest > d.frame
    \/ /\ d.frame \in DOMAIN frames
       /\ \/ frames[d.frame].block_count # block_count(d.multi)
          \/ /\ block_index(d.multi) \in DOMAIN frames[d.frame].blocks
             /\ LET blk == frames[d.frame].blocks[block_index(d.multi)]
                IN  \/ blk.data # data_shards(d.info)
                    \/ shard_index(d.info) >= blk.data + blk.parity
                    \/ shard_index(d.info) \in blk.got

\* The frame after the shard was put into its slot.
Absorb(f, d) ==
    LET b   == block_index(d.multi)
        i   == shard_index(d.info)
        blk == IF b \in DOMAIN f.blocks THEN f.blocks[b] ELSE NewBlock(d)
        new == [note_seq(blk, d.seq, i) EXCEPT !.got = @ \cup {i}]
    IN  [f EXCEPT !.blocks = [c \in DOMAIN f.blocks \cup {b} |->
                                IF c = b THEN new ELSE f.blocks[c]]]

\* BlockAsm::fec_status.
fec_status(n, b, blk) ==
    [frame |-> n, block |-> b, data |-> blk.data, parity |-> blk.parity,
     received_data |-> ReceivedData(blk), received |-> Cardinality(blk.got),
     missing |-> blk.missing_before_highest]

\* report_fec: blocks with a lost data shard; for a lost frame also the blocks
\* nothing came of, with the size of the first block that is known.
report_fec(n, f) ==
    LET known    == DOMAIN f.blocks
        template == f.blocks[CHOOSE b \in known : \A c \in known : b <= c]
        total    == template.data + template.parity
        nothing  == [template EXCEPT !.got = {}, !.missing_before_highest = total]
        unseen   == IF f.delivered THEN {} ELSE (0 .. f.block_count - 1) \ known
    IN  {fec_status(n, b, f.blocks[b]) :
            b \in {c \in known : ReceivedData(f.blocks[c]) < f.blocks[c].data}}
        \cup {fec_status(n, b, nothing) : b \in unseen}

\* What the host makes of a report: lost shards of all shards.
loss_fraction(r) ==
    LET total == r.data + r.parity
    IN  [lost |-> total - (IF r.received < total THEN r.received ELSE total),
         of   |-> total]

\* The frames of S nothing was delivered of.
LostOf(S) == {n \in S : ~frames[n].delivered}

\* The watermark with the frames of S below it.
Raised(S) == IF S = {} THEN last_retired
             ELSE MaxOf(last_retired, CHOOSE n \in S : \A m \in S : m <= n)

\* Mutant: a frame that is lost does not raise the watermark.
WatermarkDelivered(S) == Raised(S \ LostOf(S))

Watermark(S) == Raised(S)

\* Lost unless delivered, then the watermark.
GiveUp(S) ==
    /\ lost' = [n \in DOMAIN lost |-> IF n \in LostOf(S) THEN lost[n] + 1 ELSE lost[n]]
    /\ last_retired' = Watermark(S)

\* retire every frame of S, with the FEC reports first.  The next state of frames
\* is left to the caller.
Retire(S) ==
    /\ fec' = UNION {report_fec(n, frames[n]) : n \in S}
    /\ GiveUp(S)

\* Later than every first_seen in the table.
Now == IF frames = <<>> THEN 1
       ELSE 1 + frames[CHOOSE n \in DOMAIN frames : \A m \in DOMAIN frames :
                           frames[m].first_seen <= frames[n].first_seen].first_seen

\* push, the frame is still incomplete (or was delivered before): it stays in
\* the table, which made room by retiring its oldest frame.
Evicted(d) == IF d.frame \notin DOMAIN frames /\ Full THEN {Oldest} ELSE {}
Touched(d) == Absorb(IF d.frame \in DOMAIN frames THEN frames[d.frame]
                     ELSE NewFrame(d, Now), d)
Put(S, n, f) == [m \in (DOMAIN frames \ S) \cup {n} |-> IF m = n THEN f ELSE frames[m]]

PushShard(d) ==
    /\ receiving /\ ~Ignored(d)
    /\ Touched(d).delivered \/ ~complete(Touched(d))
    /\ frames' = Put(Evicted(d), d.frame, Touched(d))
    /\ Retire(Evicted(d))
    /\ UNCHANGED <<hostVars, receiving, sink, delivered>>

Older(n) == {m \in DOMAIN frames : m < n}

\* Mutant: the FEC report of a frame is made when it completes.
PushCompletesReporting(d) ==
    LET n == d.frame
        f == Touched(d)
        S == Evicted(d) \cup Older(n)
    IN  /\ receiving /\ ~Ignored(d)
        /\ ~f.delivered /\ complete(f)
        /\ frames' = Put(S, n, [f EXCEPT !.delivered = TRUE])
        /\ GiveUp(S)
        /\ fec' = report_fec(n, f) \cup UNION {report_fec(m, frames[m]) : m \in S}
        /\ delivered' = Append(delivered, [frame |-> n,
              len |-> AssembledLen(f, LastShardSize(sent[n].len))])
        /\ receiving' = sink
        /\ UNCHANGED <<hostVars, sink>>

\* push completes the frame: emit_completed retires the older ones and hands
\* the access unit over at once; without a consumer the loop returns.
PushCompletes(d) ==
    LET n == d.frame
        f == Touched(d)
    IN  /\ receiving /\ ~Ignored(d)
        /\ ~f.delivered /\ complete(f)
        /\ frames' = Put(Evicted(d) \cup Older(n), n, [f EXCEPT !.delivered = TRUE])
        /\ Retire(Evicted(d) \cup Older(n))
        /\ delivered' = Append(delivered, [frame |-> n,
              len |-> AssembledLen(f, LastShardSize(sent[n].len))])
        /\ receiving' = sink
        /\ UNCHANGED <<hostVars, sink>>

\* Mutant: only delivered frames are retired by time.
TickDelivered(cut) ==
    LET S == {n \in DOMAIN frames : frames[n].delivered}
    IN  /\ receiving
        /\ frames' = [n \in DOMAIN frames \ S |-> [frames[n] EXCEPT !.ticked = TRUE]]
        /\ Retire(S)
        /\ UNCHANGED <<hostVars, receiving, sink, delivered>>

\* The ping tick: expire retires what is older than ASSEMBLY_BUDGET (100 ms):
\* everything that was there at the last tick, 500 ms ago, and of the rest the
\* frames seen up to some time.
Tick(cut) ==
    LET S == {n \in DOMAIN frames : frames[n].ticked \/ frames[n].first_seen <= cut}
    IN  /\ receiving
        /\ frames' = [n \in DOMAIN frames \ S |-> [frames[n] EXCEPT !.ticked = TRUE]]
        /\ Retire(S)
        /\ UNCHANGED <<hostVars, receiving, sink, delivered>>

\* The loop sees the shutdown flag, or the socket fails.
Stop ==
    /\ receiving
    /\ receiving' = FALSE
    /\ UNCHANGED <<hostVars, sink, dpVars>>

\* The consumer of the access units goes away.
CloseSink ==
    /\ sink
    /\ sink' = FALSE
    /\ UNCHANGED <<hostVars, receiving, dpVars>>

Next ==
    \/ \E len \in Lens, poll \in Pcts : SendFrame(len, poll)
    \/ \E n \in DOMAIN sent : \E d \in ShardsOf(n) : PushShard(d) \/ PushCompletes(d)
    \/ \E cut \in 0 .. MaxFrames : Tick(cut)
    \/ Stop \/ CloseSink

Spec == Init /\ [][Next]_vars

\* The receive loop's timer runs; the network and the host owe nothing.
Fairness == WF_vars(\E cut \in 0 .. MaxFrames : Tick(cut))

FairSpec == Spec /\ Fairness

-----------------------------------------------------------------------------
(* Properties.                                                             *)

Numbers == 1 .. MaxFrames

\* The variables keep the shape their Rust types give them; the table of
\* frames in assembly never outgrows MAX_INFLIGHT_FRAMES.
TypeOK ==
    /\ \A n \in DOMAIN sent : sent[n] \in [len : Lens, pct : 10 .. 60,
                                           seq : 0 .. SeqMod - 1]
    /\ sequence_number \in 0 .. SeqMod - 1
    /\ receiving \in BOOLEAN /\ sink \in BOOLEAN
    /\ DOMAIN frames \subseteq Numbers
    /\ Cardinality(DOMAIN frames) <= MAX_INFLIGHT_FRAMES
    /\ last_retired \in 0 .. MaxFrames
    /\ lost \in [Numbers -> Nat]

\* What became of a frame that was reported Lost so many times and handed over
\* at these positions of the stream.  FrameFate knows no second verdict.
Verdict(times, handed) ==
    CASE times = 0 /\ handed = {} -> "open"
      [] times = 1 /\ handed = {} -> "lost"
      [] times = 0 /\ (\E i \in handed : handed = {i}) -> "delivered"
      [] OTHER -> "overruled"
Fate(n) == Verdict(lost[n], {i \in DOMAIN delivered : delivered[i].frame = n})

\* However shards are lost, repeated, reordered or late, a frame has one fate,
\* for good: it is handed over once or reported Lost once, and never lost and
\* then handed over, handed over and then lost, or either of them twice
\* (video.rs, the watermark and `delivered').
Abstract == INSTANCE FrameFate
    WITH count <- Len(sent), fate <- [n \in 1 .. MaxFrames |-> Fate(n)]
OneFate == Abstract!FateSpec

\* What the client hands over is what the encoder produced: the depacketizer
\* undoes packetize_frame, whatever subset of shards it worked from (block
\* split, header and trimmed padding: the length is the encoder's), and no frame
\* is handed over twice.
DeliveredIntact ==
    /\ \A i \in DOMAIN delivered :
          delivered[i].len = sent[delivered[i].frame].len
    /\ \A i, j \in DOMAIN delivered :
          delivered[i].frame = delivered[j].frame => i = j

\* A frame in assembly has been handed over exactly when in each of its blocks,
\* as the host cut them, at least as many shards arrived as it has data shards
\* or no data shard is missing (Reed-Solomon's limit): nothing recoverable
\* waits, nothing is handed over too early.
DeliveredWhenRecoverable ==
    receiving =>
        \A n \in DOMAIN frames :
            frames[n].delivered <=>
                \A b \in 0 .. NrBlocks(sent[n].len, sent[n].pct) - 1 :
                    /\ b \in DOMAIN frames[n].blocks
                    /\ Cardinality(frames[n].blocks[b].got)
                         >= BlockData(sent[n].len, sent[n].pct, b)

\* missing_before_highest is the number of shards of the block below the highest
\* received that did not arrive, in whatever order the others came and across
\* the wrap of the sequence number (BlockAsm::note_seq).
MissingExact ==
    \A n \in DOMAIN frames : \A b \in DOMAIN frames[n].blocks :
        LET blk == frames[n].blocks[b]
            top == CHOOSE i \in blk.got : \A j \in blk.got : j <= i
        IN  blk.missing_before_highest = Cardinality((0 .. top) \ blk.got)

\* The shards of block b of a frame in the table that came in.
Arrived(n, b) == IF b \in DOMAIN frames[n].blocks THEN frames[n].blocks[b].got ELSE {}

\* The reports of frame n, which leaves the table, tell what the host cut and what
\* of it arrived: none of a block whose data shards are all there, one of every
\* other block, with the share of its shards that did not arrive.
ReportsTell(n) ==
    LET s == sent[n]
    IN  \A b \in 0 .. NrBlocks(s.len, s.pct) - 1 :
            LET total   == BlockTotal(s.len, s.pct, b)
                arrived == Arrived(n, b)
                reports == {r \in fec' : r.frame = n /\ r.block = b}
            IN  IF 0 .. BlockData(s.len, s.pct, b) - 1 \subseteq arrived
                THEN reports = {}
                ELSE \E r \in reports :
                        /\ reports = {r}
                        /\ loss_fraction(r).lost * total
                              = loss_fraction(r).of * (total - Cardinality(arrived))
                        /\ arrived # {} => loss_fraction(r).of = total

\* The host's rate is lowered by the loss there was: a block is reported exactly
\* when one of the data shards the host cut for it did not arrive, and the host
\* reads from the report the share of the block's shards that did not arrive (all
\* of them for a block nothing came of, though it is reported with the size of
\* another one).  The report is made when the frame leaves the table, not when it
\* completes, so that parity and data that come after the completion count as
\* received (report_fec, emit_completed, loss_fraction).
ReportsAreHonest ==
    [][/\ \A r \in fec' \ fec : r.frame \in DOMAIN frames \ DOMAIN frames'
       /\ \A n \in DOMAIN frames \ DOMAIN frames' : ReportsTell(n)]_vars

\* Every shard the packetizer cuts passes push's header checks and lies inside
\* the block the client lays out for it (both sides use parity_shard_count).
ShardsAccepted ==
    \A n \in DOMAIN sent : \A d \in ShardsOf(n) :
        /\ WellFormed(d)
        /\ shard_index(d.info) < NewBlock(d).data + NewBlock(d).parity

\* A frame of which a shard arrived is settled: handed over or reported Lost,
\* and out of the table, while the receiver runs (expire on the ping tick).
FramesSettle ==
    \A n \in Numbers :
        (n \in DOMAIN frames) ~> (n \notin DOMAIN frames \/ ~receiving)
=============================================================================
