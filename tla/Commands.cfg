SPECIFICATION FairSpec
CONSTANTS
  Reqs = {r1, r2}
  Conns = {c1, c2}
  None = None
INVARIANTS WaiterHasChannel RefusedNeverRuns AtMostOnce PendingHasWaiter
PROPERTIES EveryRequestAnswered ReplacedSenderEnds
CHECK_DEADLOCK FALSE
