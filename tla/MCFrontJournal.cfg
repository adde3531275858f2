SPECIFICATION Spec
CONSTANTS
  Apps        = {"chat"}
  Tabs        = {t1}
  Terminal    = terminal
  Settled     = 2
  Crossing    = FALSE
  MaxAsks     <- MCAsks
  MaxMoves    = 2
  MaxTurns    = 1
  MaxConnects = 1
INVARIANT EndsWithItsJournal
CHECK_DEADLOCK FALSE
