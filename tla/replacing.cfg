CONSTANTS
  WP = {w1, w2}
  NoWP = NoWP
  ListHead = ListHead
  MaxProcessesSettings = {1}
  RapidFailProtection = FALSE
  MaxCrashes = 2
  Pinging = FALSE
  Orphaning = FALSE
  DebuggerMayAttach = FALSE
  OverlapSettings = {TRUE}
  RotateSettings = {TRUE}
  Failures = {}
  Events = {"RecycleRequest", "Crash", "DeletePool"}
  QueueBound = 1
SPECIFICATION FairSpec
PROPERTY ReplacedLeaves
