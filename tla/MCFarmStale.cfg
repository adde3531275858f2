CONSTANTS
  Jobs <- MCJobs
  Nobody = Nobody
  DescriptorOf <- MCDescriptorOf
  Immediate <- MCImmediate
  Places <- MCPlaces
  PADDOCKS <- MCPADDOCKS
  SEARCH_ORDER <- MCPADDOCKS
  Mornings <- FireAndBattery
  Truth <- MCTruth
  Capacity = 2
SPECIFICATION FairSpec
PROPERTIES MorningEnds
CHECK_DEADLOCK FALSE
