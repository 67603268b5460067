SPECIFICATION MCSpec
CONSTANTS
  Launchers = {1}
  UserServers = {"", "corp"}
  Ours = "tunnel"
  Empty = ""
  MaxEdits = 2
  Race = FALSE
  Ports = {8118}
  Primary = 8118
  NoPort = 0
  Failures = 2
  MaxAttempts = 3
  Procs = {1, 2}
  Threads = {1, 2}
  N = 2
  Full = 1
  MaxRaces = 1
INVARIANTS SettingsKept NothingLeft
PROPERTIES OnlyWinnerLives HungIsKilled RaceEnds ButtonRevives
CHECK_DEADLOCK FALSE
