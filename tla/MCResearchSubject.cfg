SPECIFICATION Spec
CONSTANTS
  MaxMessages = 2
  MaxPresses = 2
  Sessions <- TwoRequests
INVARIANTS
  IsForWhatWasAsked
CHECK_DEADLOCK FALSE
