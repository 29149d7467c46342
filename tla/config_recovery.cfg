SPECIFICATION FairSpec
CONSTANTS
  p1 = p1  p2 = p2  p3 = p3  s1 = s1  v1 = v1  v2 = v2
  Pool = {p1, p2}  Site = {s1}  Url <- MCUrl  W3SVC = W3SVC
  Setting = {v1, v2}  Absent = Absent  Empty = Empty  Inherit = Inherit
  InitialMetabase <- MCMetabase
  SiteValue = {p1, p2}  AppValue = {p1, p2}
  Writable <- CrashKeys  Deletable <- CrashKeys  DataDeletable <- SubOnly
  MaxChanges = 1  MaxElements = 1  MaxCrashes = 1
  MayStop = TRUE  MayFail = TRUE
INVARIANTS Converged RecoveryCompletes 
CHECK_DEADLOCK FALSE
PROPERTIES  ChangesTakeEffect
