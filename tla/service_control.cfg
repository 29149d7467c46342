SPECIFICATION FairSpec
CONSTANTS
  p1 = p1  p2 = p2  a1 = a1
  Pools = {p1, p2}  DefaultAppPool = p1  NoPool = NoPool  Applications = {a1}
  MaxWorkers = 2  MaxObjects = 2
  BackwardCompatibilitySettings = {FALSE, TRUE}  ShutdownMayFail = TRUE
  Controls = {"Stop", "Pause", "Continue"}
  Faults = {}
  MaxCheckPoint = 2
INVARIANTS TypeOK
PROPERTY ImplementsFairScmService
CHECK_DEADLOCK FALSE
