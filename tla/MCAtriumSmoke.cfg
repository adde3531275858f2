SPECIFICATION Spec
CONSTANTS
  Jobs         = {1, 2, 3}
  DescriptorOf <- TwoAlarms
  Nobody       = Nobody
  Immediate    <- MCImmediate
  Desks        = {"desk-7"}
  Items        = {"apple"}
  ContainerFor <- MCContainerFor
  Capacity     = 2
  MaxDeeds     = 1
INVARIANT AlarmAnswered
CHECK_DEADLOCK FALSE
