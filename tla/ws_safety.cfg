\* Two threads that send before the connection is up, a lost connection,
\* a short write; memory and connection attempts may fail.
CONSTANTS
  Threads = {t1, t2}
  MaxCalls = 2
  MaxConns = 2
  MaxDrops = 1
  MaxFails = 1
  RingSize = 2
  MaxReconnectTimes = 1
  PingInterval = 0
  AppWaits = FALSE
  MayFail = TRUE
SPECIFICATION Spec
SYMMETRY Symmetry
INVARIANT FifoExactlyOnce
PROPERTY RealtimeIsQueue
CHECK_DEADLOCK FALSE
