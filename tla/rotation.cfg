CONSTANTS
  WP = {w1, w2}
  NoWP = NoWP
  ListHead = ListHead
  MaxProcessesSettings = {1}
  RapidFailProtection = FALSE
  MaxCrashes = 2
  Pinging = FALSE
  Orphaning = FALSE
  DebuggerMayAttach = FALSE
  OverlapSettings = {TRUE, FALSE}
  RotateSettings = {TRUE}
  Failures = {"Allocate", "SendShutdown", "ShutdownTimer"}
  Events = {"Recycle", "RecycleRequest", "IdleRequest", "Crash", "FailedStart", "ServiceStop"}
  QueueBound = 2
SPECIFICATION Spec
SYMMETRY Symmetry
INVARIANT RefCountExact
INVARIANT ReplacementPending
INVARIANT PointersValid
INVARIANT SteadyStateWithinMax
