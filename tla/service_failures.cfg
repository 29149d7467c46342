SPECIFICATION FairSpec
CONSTANTS
  p1 = p1  p2 = p2  a1 = a1
  Pools = {p1, p2}  DefaultAppPool = p1  NoPool = NoPool  Applications = {a1}
  MaxWorkers = 1  MaxObjects = 1
  BackwardCompatibilitySettings = {TRUE}  ShutdownMayFail = TRUE
  Controls = {}
  Faults = {"Initialize", "WorkItem", "WorkerProcess", "Inetinfo", "Report"}
  MaxCheckPoint = 2
PROPERTIES ImplementsScmService 
CHECK_DEADLOCK FALSE
