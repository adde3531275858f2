\* The adapter on its own: safety, liveness and the refinement.
CONSTANTS
  Descriptors <- MCDescriptors
  Threads     = {h1, h2}
  NoOne       = NoOne
  MaxAsks     = 2
  MaxPieces   = 2

SPECIFICATION FairAdapterSpec

INVARIANT OneTerminator
INVARIANT AtMostOneStray
INVARIANT OneDebtor
INVARIANT CountedIsWorked

PROPERTY EveryRequestTerminates
PROPERTY ImplementsRequestStream

\* Every request made and terminated: nothing more can happen but abandoning nothing.
CHECK_DEADLOCK FALSE
