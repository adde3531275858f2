SPECIFICATION Spec
CONSTANTS
  Descriptors = {"converse"}
  MaxAsks     = 1
  Threads     = {h1}
  NoOne       = NoOne
  Capacity    = 3
  MaxSays     = 1
  MaxStops    = 1
  MaxPieces   = 2
INVARIANT StoppingNothingCutsNothing
CHECK_DEADLOCK FALSE
