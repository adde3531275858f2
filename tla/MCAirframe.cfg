CONSTANTS
  Places <- MCPlaces
  MaxActions = 3
  MaxMornings = 2
  Refuses = TRUE
SPECIFICATION Spec
INVARIANTS Halted TruthTold PhotosKept
PROPERTIES StartsOnPad
CHECK_DEADLOCK FALSE
