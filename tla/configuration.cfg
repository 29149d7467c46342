CONSTANTS
  WP = {w1, w2}
  NoWP = NoWP
  ListHead = ListHead
  MaxProcessesSettings = {1, 2}
  RapidFailProtection = TRUE
  MaxCrashes = 2
  Pinging = FALSE
  Orphaning = TRUE
  DebuggerMayAttach = FALSE
  OverlapSettings = {TRUE}
  RotateSettings = {TRUE, FALSE}
  Failures = {"StartProcess"}
  Events = {"Configure", "FailedStart", "RecycleRequest"}
  QueueBound = 1
SPECIFICATION Spec
SYMMETRY Symmetry
INVARIANT DemandStartArmed
INVARIANT RapidFailEngaged
INVARIANT StoppedPoolDrains
