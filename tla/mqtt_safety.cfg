\* Two threads, three messages, two topics, one lost link, one failing send;
\* every allocation may fail, and the application reopens a dead link itself.
CONSTANTS
  Threads = {t1, t2}
  Topics = {x, y}
  MaxMsgs = 3
  MaxSubs = 2
  MaxDrops = 1
  MaxSendFails = 1
  SubBatch = 1
  PubLimit = 1
  AutoReconnect = TRUE
  AppReconnect = FALSE
  AllocMayFail = TRUE
SPECIFICATION Spec
SYMMETRY Symmetry
INVARIANTS TypeOK OnePublishInFlight AcceptedPendingOrSent NoDuplicateSend SentInAcceptOrder
PROPERTIES AckRemovesAcknowledgedFirstLink
CHECK_DEADLOCK FALSE
