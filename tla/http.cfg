\* Two requests: of two threads at once, or of one that repeats or replaces its
\* first.
SPECIFICATION FairSpec
CHECK_DEADLOCK FALSE
CONSTANTS
  Threads = {t1, t2}
  Answers <- MCAnswers
  MaxReqs = 2
  MaxFrag = 2
  SseSize = 4
  MaxBody = 4
  MayFail = TRUE
INVARIANTS StreamDelivered BodyWhole SyncAnswered
PROPERTIES EndsOnce EveryWaitReturns
