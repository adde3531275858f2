SPECIFICATION FairSpec
CONSTANTS
  MaxMessages = 2
  MaxPresses = 2
  Sessions <- SmallSessions
INVARIANTS
  NoFindingLost
  StripIsTrue
PROPERTIES
  PressesAnswered
  LoneResearchEnds
CHECK_DEADLOCK FALSE
