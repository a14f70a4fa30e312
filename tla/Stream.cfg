SPECIFICATION FairSpec
CONSTANTS
    Clients = {c1, c2}
    NoClient = none
    Pipes = {p1, p2}
    NoPipe = nopipe
    OwnerTimeout = 2
    SilenceTimeout = 3
    FrameCap = 2
INVARIANTS OnePipeline
PROPERTIES FramesConsecutive WatchedIsStreamed IdleIsTornDown
