SPECIFICATION Spec
CONSTANTS
  p1 = p1  p2 = p2  p3 = p3  s1 = s1  v1 = v1  v2 = v2
  Pool = {p1, p2, p3}  Site = {s1}  Url <- MCUrl  W3SVC = W3SVC
  Setting = {v1, v2}  Absent = Absent  Empty = Empty  Inherit = Inherit
  InitialMetabase <- MCMetabase
  SiteValue <- SomeSiteValues  AppValue <- SomeAppValues
  Writable <- SomeKeys  Deletable <- SomeObjects  DataDeletable <- SubOnly
  MaxChanges = 3  MaxElements = 2  MaxCrashes = 0
  MayStop = FALSE  MayFail = FALSE
INVARIANTS TypeOK Converged NoChangeLost CommandsObeyed WasConsistent
CHECK_DEADLOCK FALSE
