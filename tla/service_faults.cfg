SPECIFICATION Spec
CONSTANTS
  p1 = p1  p2 = p2  a1 = a1
  Pools = {p1, p2}  DefaultAppPool = p1  NoPool = NoPool  Applications = {a1}
  MaxWorkers = 1  MaxObjects = 2
  BackwardCompatibilitySettings = {FALSE, TRUE}  ShutdownMayFail = TRUE
  Controls = {"Stop", "Pause", "Continue"}
  Faults = {"Initialize", "WorkItem", "WorkerProcess", "Inetinfo", "Report"}
  MaxCheckPoint = 2
INVARIANTS   PoolRefCountExact
PROPERTIES ShutdownOnce
CHECK_DEADLOCK FALSE
