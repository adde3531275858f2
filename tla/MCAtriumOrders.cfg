SPECIFICATION Spec
CONSTANTS
  Jobs         = {1, 2, 3, 4, 5, 6}
  DescriptorOf <- TwoOrders
  Nobody       = Nobody
  Immediate    <- MCImmediate
  Desks        = {"desk-3", "desk-7"}
  Items        = {"apple"}
  ContainerFor <- MCContainerFor
  Capacity     = 2
  MaxDeeds     = 0
INVARIANT EveryDeskServed
CHECK_DEADLOCK FALSE
