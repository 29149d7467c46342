CONSTANTS
  WP = {w1, w2}
  NoWP = NoWP
  ListHead = ListHead
  MaxProcessesSettings = {1}
  RapidFailProtection = FALSE
  MaxCrashes = 2
  Pinging = FALSE
  Orphaning = FALSE
  DebuggerMayAttach = FALSE
  OverlapSettings = {TRUE}
  RotateSettings = {TRUE}
  Failures = {"StartProcess", "SendShutdown"}
  Events = {"RecycleRequest", "ServiceStop"}
  QueueBound = 1
SPECIFICATION Spec
SYMMETRY Symmetry
INVARIANT PointersValid
