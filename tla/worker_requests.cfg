CONSTANTS
  Req = {r1, r2, r3}
  NoReq = NoReq
  Thread = {t1, t2}
  Main = Main
  Monitor = Monitor
  Settings <- SmallSettings
  MaxFree = 0
  StaleReuse = FALSE
SPECIFICATION Spec
SYMMETRY Symmetry
INVARIANT TypeOK
INVARIANT ObjectsAccounted
INVARIANT OneDriver
INVARIANT PoolExact
PROPERTY GracefulDrain
 
