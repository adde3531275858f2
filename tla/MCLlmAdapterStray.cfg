\* What llm.py says of a reply nobody wants any more.
CONSTANTS
  Descriptors <- MCDescriptors
  Threads     = {h1}
  NoOne       = NoOne
  MaxAsks     = 1
  MaxPieces   = 1

SPECIFICATION AdapterSpec

INVARIANT NothingAfterAbandoned

CHECK_DEADLOCK FALSE
