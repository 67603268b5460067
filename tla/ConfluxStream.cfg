SPECIFICATION Spec
CONSTANTS
  Legs = {l1, l2}
  InitLegs = {l1, l2}
  NoLeg = NoLeg
  SendmeInc = 2
  Cwnd = 2
  MaxOOO = 1
  MaxRel = 2
  MaxCells <- MCMaxCells
SYMMETRY Symmetry
INVARIANTS TypeOK InOrder NoStaleCell CurrentLegLeads FlightBalance SequenceInv
PROPERTY ImplementsService
CHECK_DEADLOCK FALSE
