SPECIFICATION FairSpec
CONSTANTS
    NumSessions = 1
    MaxInputs = 1
    MaxFaults = 0
PROPERTY StartedIsStreamed
CHECK_DEADLOCK FALSE
