SPECIFICATION Spec
CONSTANTS
  Blocks   = {"r1", "r2"}
  NoBlock  = none
  Colours  = {"red", "green"}
  ColourOf <- MCColourOf
  N        = 3
  Initials <- MCInitials
  Goals    <- MCGoals
  Tabs     = {t1}
  Consoles = {}
  MaxDrags = 1
  MaxSays  = 1
INVARIANTS
  NoBlockLost
CHECK_DEADLOCK FALSE
