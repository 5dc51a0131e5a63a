\* One thread, one topic, two lost links and a failing send; the client or the
\* application reconnects.
CONSTANTS
  Threads = {t1}
  Topics = {x}
  MaxMsgs = 2
  MaxSubs = 2
  MaxDrops = 2
  MaxSendFails = 1
  SubBatch = 1
  PubLimit = 1
  AutoReconnect = TRUE
  AppReconnect = TRUE
  AllocMayFail = FALSE
SPECIFICATION FairSpec
INVARIANTS HandlersSubscribed
PROPERTIES PublishReachesBroker SubscribeReachesBroker PendingEventuallySent
CHECK_DEADLOCK FALSE
