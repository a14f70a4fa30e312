------------------------------ MODULE VideoWire ------------------------------
(***************************************************************************)
(* How a video frame is cut into shards and what a shard's headers say:     *)
(* packetize_frame of kmc-streamhost/src/video/packetizer.rs and the bit    *)
(* fields of kmc-gsproto/src/lib.rs, which host and client share.           *)
(* Payload bytes are left out; lengths, counts, indices and sequence        *)
(* numbers are exact.                                                       *)
(***************************************************************************)
EXTENDS Integers

CONSTANTS MAX_SHARDS,      \* shards of a Reed-Solomon block, 255
          MAX_FEC_BLOCKS,  \* blocks of a frame, 4: the index has two bits
          HeaderSize,      \* VIDEO_FRAME_HEADER_SIZE, 8
          PayloadSize,     \* packet_size - NV_VIDEO_PACKET_SIZE
          SeqMod           \* sequence numbers wrap here, 2^16

ASSUME WireAssumption ==
    /\ MAX_SHARDS \in 2 .. 255 /\ MAX_FEC_BLOCKS \in 1 .. 4
    /\ HeaderSize \in Nat \ {0} /\ PayloadSize \in Nat
    /\ HeaderSize <= PayloadSize
    /\ SeqMod \in Nat /\ 2 * MAX_SHARDS <= SeqMod

MinOf(a, b) == IF a < b THEN a ELSE b
MaxOf(a, b) == IF a > b THEN a ELSE b
CeilDiv(a, b) == (a + b - 1) \div b

-----------------------------------------------------------------------------
(* kmc-gsproto: shared by both ends.                                       *)

\* Mutant: a full block gets its parity on top of MAX_SHARDS.
parity_shard_count_uncapped(data, pct) ==
    IF data = 0 \/ pct = 0 THEN 0 ELSE MaxOf(CeilDiv(data * pct, 100), 1)

parity_shard_count(data, pct) ==
    IF data = 0 \/ pct = 0 THEN 0
    ELSE MinOf(MaxOf(CeilDiv(data * pct, 100), 1), MaxOf(MAX_SHARDS - data, 0))

\* fec_info without its four low bits, which are zero.
pack_fec_info(index, data, pct) ==
    (pct + 256 * index + 262144 * data) % 268435456
fec_percentage(info) == info % 256
shard_index(info)    == (info \div 256) % 1024
data_shards(info)    == (info \div 262144) % 1024

pack_multi_fec_blocks(block, count) == (16 * block + 64 * (count - 1)) % 256
block_index(multi) == (multi \div 16) % 4
block_count(multi) == ((multi \div 64) % 4) + 1

-----------------------------------------------------------------------------
(* packetize_frame for an access unit of len bytes under pct percent of     *)
(* parity.                                                                  *)

ClampPct(pct) == MinOf(MaxOf(pct, 10), 60)

\* last_payload_len, and the number of shards that hold header and data.
LastShardSize(len) ==
    IF (HeaderSize + len) % PayloadSize = 0 THEN PayloadSize
    ELSE (HeaderSize + len) % PayloadSize
TotalDataShards(len) == MaxOf(CeilDiv(HeaderSize + len, PayloadSize), 1)

DataPerBlock(pct) == MAX_SHARDS - (MAX_SHARDS * pct) \div (100 + pct)
NrBlocks(len, pct) ==
    MinOf((TotalDataShards(len) - 1) \div DataPerBlock(pct) + 1, MAX_FEC_BLOCKS)

\* Mutant: the last block is cut like the others, the rest is not sent.
BlockDataEven(len, pct, b) == MinOf(DataPerBlock(pct), TotalDataShards(len))

\* The last block takes all that is left.
BlockData(len, pct, b) ==
    (IF b = NrBlocks(len, pct) - 1 THEN TotalDataShards(len)
     ELSE MinOf((b + 1) * DataPerBlock(pct), TotalDataShards(len)))
    - b * DataPerBlock(pct)
BlockTotal(len, pct, b) ==
    BlockData(len, pct, b) + parity_shard_count(BlockData(len, pct, b), pct)

\* Shards sent before block b: the blocks before it are all full.
BlockBase(len, pct, b) ==
    b * (DataPerBlock(pct) + parity_shard_count(DataPerBlock(pct), pct))

\* Data and parity shards of the frame are numbered in one row.
ShardSeq(len, pct, seq, b, i) == (seq + BlockBase(len, pct, b) + i) % SeqMod

\* The sequence number the next frame starts with.
NextSeq(len, pct, seq) ==
    LET last == NrBlocks(len, pct) - 1
    IN  (seq + BlockBase(len, pct, last) + BlockTotal(len, pct, last)) % SeqMod

\* Shard i of block b of frame number n, as it is on the wire.
Shard(n, len, pct, seq, b, i) ==
    [frame |-> n,
     seq   |-> ShardSeq(len, pct, seq, b, i),
     multi |-> pack_multi_fec_blocks(b, NrBlocks(len, pct)),
     info  |-> pack_fec_info(i, BlockData(len, pct, b), pct)]

\* The header checks at the head of Depacketizer::push.
WellFormed(d) ==
    /\ block_index(d.multi) < block_count(d.multi)
    /\ data_shards(d.info) # 0 /\ data_shards(d.info) <= MAX_SHARDS
    /\ shard_index(d.info) < MAX_SHARDS
=============================================================================
