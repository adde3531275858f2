CONSTANTS
  Sources <- MCSources
  Jobs = {j1, j2}
  Acts = 2
  EmptyLimit = 2
  MaxIdle = 3
  MaxCuts = 1
SPECIFICATION FairSeatSpec
INVARIANTS EachActOnce
PROPERTIES JobsFinish
CHECK_DEADLOCK FALSE
