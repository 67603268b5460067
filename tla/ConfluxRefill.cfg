SPECIFICATION RefillSpec
CONSTANTS
  Legs = {l1, l2, l3}
  InitLegs = {l1, l2}
  NoLeg = NoLeg
  SendmeInc = 2
  Cwnd = 2
  MaxOOO = 1
  MaxRel = 3
  MaxCells <- MCTwoWay
SYMMETRY Symmetry
CONSTRAINT Explored
INVARIANTS QuietRefill
CHECK_DEADLOCK FALSE
