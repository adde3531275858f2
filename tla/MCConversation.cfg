SPECIFICATION FairSpec
CONSTANTS
  Descriptors = {"converse"}
  MaxAsks     = 2
  Threads     = {h1}
  NoOne       = NoOne
  Capacity    = 2
  MaxSays     = 2
  MaxStops    = 1
  MaxPieces   = 1
INVARIANTS
  UndisturbedTurns
  NoWordLost
  WokenFirst
PROPERTY
  TurnsEnd
CHECK_DEADLOCK FALSE
