CONSTANTS
  Sources <- Farm
  Jobs = {j1}
  Acts = 2
  EmptyLimit = 2
  MaxIdle = 1
  MaxCuts = 0
SPECIFICATION SeatSpec
INVARIANTS NothingAgain
CHECK_DEADLOCK FALSE
