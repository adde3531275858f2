SPECIFICATION FairSpec
CONSTANTS
  Jobs         = {1, 2, 3, 4, 5, 6}
  DescriptorOf <- TwoOrders
  Nobody       = Nobody
  Immediate    <- MCImmediate
  Desks        = {"desk-7"}
  Items        = {"apple"}
  ContainerFor <- MCContainerFor
  Capacity     = 2
  MaxDeeds     = 1
INVARIANTS
  OneCup
  OneAnswerEach
  EndsWell
PROPERTY MorningEnds
CHECK_DEADLOCK FALSE
