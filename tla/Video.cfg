SPECIFICATION FairSpec
CONSTANTS
    MAX_SHARDS = 3
    MAX_FEC_BLOCKS = 2
    HeaderSize = 8
    PayloadSize = 10
    SeqMod = 16
    FirstSeq = 14
    MAX_INFLIGHT_FRAMES = 2
    Lens = {2, 22}
    Pcts = {60}
    MaxFrames = 3
    MaxLong = 1
INVARIANTS TypeOK DeliveredIntact DeliveredWhenRecoverable
           MissingExact ShardsAccepted
PROPERTIES OneFate ReportsAreHonest FramesSettle
CHECK_DEADLOCK FALSE
