CONSTANTS
  Places <- MCPlaces
  MaxActions = 3
  MaxMornings = 1
  Refuses = TRUE
SPECIFICATION Spec
INVARIANTS StopsTheAction
CHECK_DEADLOCK FALSE
