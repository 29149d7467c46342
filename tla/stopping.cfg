CONSTANTS
  WP = {w1}
  NoWP = NoWP
  ListHead = ListHead
  MaxProcessesSettings = {1}
  RapidFailProtection = FALSE
  MaxCrashes = 2
  Pinging = TRUE
  Orphaning = FALSE
  DebuggerMayAttach = FALSE
  OverlapSettings = {TRUE}
  RotateSettings = {TRUE}
  Failures = {"SendShutdown", "ShutdownTimer", "RecyclerParameters"}
  Events = {"IdleRequest", "FailedStart", "Crash", "IpmFault", "ServiceStop"}
  QueueBound = 2
SPECIFICATION FairSpec
PROPERTY ShutdownCompletes
PROPERTY EndNoticed
PROPERTY PoolShutdownCompletes
