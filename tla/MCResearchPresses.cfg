SPECIFICATION FairSpec
CONSTANTS
  MaxMessages = 2
  MaxPresses = 2
  Sessions <- SmallSessions
INVARIANT
  SentOnce
PROPERTY
  EveryPressAnswered
CHECK_DEADLOCK FALSE
