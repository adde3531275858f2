SPECIFICATION FairSpec
CONSTANTS
  Blocks   = {"r1", "r2"}
  NoBlock  = none
  Colours  = {"red", "green"}
  ColourOf <- MCColourOf
  N        = 3
  Initials <- MCInitials
  Goals    <- MCGoals
  Tabs     = {t1}
  Consoles = {c1}
  MaxDrags = 2
  MaxSays  = 1
INVARIANTS
  JobsSeeAWholeTable
  OneBlockIsMeant
PROPERTIES
  ExitMeansDone
  JobsFinish
CONSTRAINT Unraced
CHECK_DEADLOCK FALSE
