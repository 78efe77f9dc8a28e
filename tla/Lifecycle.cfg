\* Two frontends and metrics, three edits and three signals; the last edit is bad.
CONSTANTS
  Frontends = {"tcp", "http"}
  HasMetrics = TRUE
  MaxEdits = 3
  MaxSignals = 3
  BadEdits = {3}
SPECIFICATION FairSpec
CHECK_DEADLOCK FALSE
INVARIANTS
  ReloadPending
  StopFindsServers
PROPERTIES
  ReloadHappens
  ShutdownCompletes
