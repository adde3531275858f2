SPECIFICATION FairSpec
CONSTANTS
  Apps        = {"chat", "page", "console"}
  Tabs        = {t1}
  Terminal    = terminal
  Settled     = 2
  Crossing    = FALSE
  MaxAsks     <- MCAsks
  MaxMoves    = 2
  MaxTurns    = 1
  MaxConnects = 1
INVARIANTS
  NothingMissed
  JournalWhole
PROPERTIES
  DeathIsHeard
  BusyMeansSomething
CHECK_DEADLOCK FALSE
