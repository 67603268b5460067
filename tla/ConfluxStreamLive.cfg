SPECIFICATION FairSpec
CONSTANTS
  Legs = {l1, l2}
  InitLegs = {l1, l2}
  NoLeg = NoLeg
  SendmeInc = 1
  Cwnd = 1
  MaxOOO = 2
  MaxRel = 2
  MaxCells <- MCOneWay
PROPERTIES AllDelivered TeardownSpreads
CHECK_DEADLOCK FALSE
