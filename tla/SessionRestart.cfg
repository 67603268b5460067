SPECIFICATION SessionSpec
CONSTANTS
  Race = FALSE
  Ports = {8118}
  Primary = 8118
  NoPort = 0
  Failures = 2
  MaxAttempts = 3
  Procs = {1, 2}
  Threads = {1, 2}
INVARIANT FreshTor
CHECK_DEADLOCK FALSE
