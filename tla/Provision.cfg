SPECIFICATION FairSpec
CONSTANTS
  Machines = {m1}
  NoMac = {n1}
  Delays = 2
  MaxFaults = 4
  MaxRows = 6
INVARIANTS RowsDistinct
PROPERTIES IdentityStable LoopReconnects
CHECK_DEADLOCK FALSE
