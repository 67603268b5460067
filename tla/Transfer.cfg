SPECIFICATION MCSpec
CONSTANTS
  Par <- MCPar
  Rtts = {0, 1, 3}
  Queues = {0, 3}
  Ids = 8
  Wrap = 1000
  Chan = {1, 2}
  None = 0
  HighMark = 3
  LowMark = 2
  Batch = 1
  MaxCells = 5
INVARIANTS HeapIsSound SendmesMatch WindowStaysOpen
PROPERTIES DataFlows CellsLeave CallsReturn
CHECK_DEADLOCK FALSE
