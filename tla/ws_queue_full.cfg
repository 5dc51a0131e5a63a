\* A ring of two elements and a call of three requests.
CONSTANTS
  Threads = {t1}
  MaxCalls = 1
  MaxConns = 1
  MaxDrops = 0
  MaxFails = 0
  RingSize = 2
  MaxReconnectTimes = 1
  PingInterval = 0
  AppWaits = FALSE
  MayFail = FALSE
SPECIFICATION Spec
INVARIANTS AcceptedNotLost
CHECK_DEADLOCK FALSE
