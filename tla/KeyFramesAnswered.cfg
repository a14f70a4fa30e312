SPECIFICATION Spec
CONSTANTS
    MaxFrames = 3
    Paths = {"ram", "zc"}
    ChanCap = 1
    MaxSkips = 0
INVARIANT LossIsAnswered
CHECK_DEADLOCK FALSE
