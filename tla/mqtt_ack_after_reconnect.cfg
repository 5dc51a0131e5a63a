\* A PUBACK after a reconnect.
CONSTANTS
  Threads = {t1}
  Topics = {x}
  MaxMsgs = 2
  MaxSubs = 0
  MaxDrops = 1
  MaxSendFails = 0
  SubBatch = 1
  PubLimit = 1
  AutoReconnect = TRUE
  AppReconnect = TRUE
  AllocMayFail = FALSE
SPECIFICATION Spec
PROPERTIES AckRemovesAcknowledged
CHECK_DEADLOCK FALSE
