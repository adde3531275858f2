SPECIFICATION MCSpec
CONSTANTS
  Jobs         = {1, 2}
  DescriptorOf <- MCDescriptorOf
  Nobody       = Nobody
  Immediate    <- MCImmediate
  Desks        = {"desk-7"}
  Items        = {"apple", "mug"}
  Capacity     = 1
INVARIANTS
  BodyTypeOK
  OneAnswerEach
  OnlyForItsWearer
  EachItemSomewhere
PROPERTY FinishesFirst
