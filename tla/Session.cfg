SPECIFICATION FairSpec
CONSTANTS
    NumSessions = 2
    MaxInputs = 2
    MaxFaults = 1
INVARIANTS TypeOK InputPrefix StoppedIsSilent
PROPERTIES NoOrphanTask InputArrives
CHECK_DEADLOCK FALSE
