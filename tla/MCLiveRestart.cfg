CONSTANTS
  Apps <- Stretch
  Controls <- MCControls
  Single <- MCSingle
  MaxClicks = 3
  MaxSteps = 2
  MaxMornings = 3
SPECIFICATION Spec
CHECK_DEADLOCK FALSE
INVARIANTS NothingStopsIt
