SPECIFICATION MCSpec
CONSTANTS
  Workers = {"w1", "w2"}
  Items = {"a", "b", "c"}
  Low = {"c"}
  MaxUpdates = 1
  Stops = FALSE
  Prompt = FALSE
  Results = {"reply"}
INVARIANTS FreedIsUnused
PROPERTIES WorkGetsDone
CHECK_DEADLOCK FALSE
