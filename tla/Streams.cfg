SPECIFICATION MCSpec
CONSTANTS
  Streams = {1, 2, 3}
  Plain = {p1, p2}
  Sets = {}
  Kind <- MCKind
  Timed = {}
  None = "none"
  MaxNym = 1
  MaxLegs = 1
  MaxPending = 2
  Total = 11
  Window = 4
  SendmeInc = 2
  High = 3
  Low = 1
  Limit = 2
  XonRate = 2
  Burst = 4
  ReadSizes = {1, 2, 5}
  WriteSizes = {1, 2, 4}
  Rates = {1, 3}
  MaxRate = 4
  CountScale = 9
  TotalScale = 99
SYMMETRY Swap
INVARIANTS IsolationKept ListedOnce PausesEnd
PROPERTIES XoffsAreDue
CHECK_DEADLOCK FALSE
