SPECIFICATION FairAudioSpec
CONSTANTS
    Clients = {c1, c2}
    None = None
    Listeners = {c1}
    SeqSpace = 6
    RESYNC_THRESHOLD = 2
    MaxLag = 1
    MaxGap = 1
    MaxSent = 7
    MaxReceived = 3
INVARIANTS LossExact
PROPERTIES AloneIsRegistered
CHECK_DEADLOCK FALSE
