CONSTANTS
  Apps <- MCApps
  Controls <- MCControls
  Single <- MCSingle
  MaxClicks = 4
  MaxSteps = 2
  MaxMornings = 3
SPECIFICATION Spec
INVARIANTS RecordingsReplay JournalsMatch ClicksNeverStopIt OneOfEach
CHECK_DEADLOCK FALSE
