SPECIFICATION MCSpec
CONSTANTS
  Circs = {1, 2, 3, 4, 5}
  Objs = {1, 2, 3, 4, 5}
  Client = TRUE
  NumLegs = 2
  MaxLegs = 3
  MaxLaunch = 4
  Events = {"memory", "shutdown", "add"}
  Sets = {"a", "b", "c"}
  InitSets <- ThreeSets
  NoPick = "none"
  Unmeasured = 9
  LegRtts = {{1}}
  Configs <- RoundRobin
  MaxAttached = 5
  MaxLinks = 0
  Legs = {1, 2, 3}
  WatchSets = {1}
  MaxRtt = 2
  WatchRttPct = 67
  WatchStrikes = 2
  WatchUnlinkedStrikes = 2
  WatchMaxPerPass = 2
  ConfluxLegs = 3
  Fates = {"replaced", "lost", "teardown"}
INVARIANTS TurnsAreFair Ownership PoolInStep
PROPERTIES FailoverPick ListsFairly
CHECK_DEADLOCK FALSE
