SPECIFICATION Spec
CONSTANTS
  Descriptors = {"converse"}
  MaxAsks     = 2
  Threads     = {h1}
  NoOne       = NoOne
  Capacity    = 3
  MaxSays     = 2
  MaxStops    = 0
  MaxPieces   = 2
INVARIANT RepliesFindTheAsker
CHECK_DEADLOCK FALSE
