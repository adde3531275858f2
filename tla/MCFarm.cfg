CONSTANTS
  Jobs <- MCJobs
  Nobody = Nobody
  DescriptorOf <- MCDescriptorOf
  Immediate <- MCImmediate
  Places <- MCPlaces
  PADDOCKS <- MCPADDOCKS
  SEARCH_ORDER <- MCPADDOCKS
  Mornings <- MCMornings
  Truth <- MCTruth
  Capacity = 2
SPECIFICATION FairSpec
INVARIANTS KeptIn LooksWhole AlarmHeeded
PROPERTIES MorningEnds
CHECK_DEADLOCK FALSE
