\* One thread and one request are enough.
SPECIFICATION Spec
CHECK_DEADLOCK FALSE
CONSTANTS
  Threads = {t1}
  Answers <- MCAnswers
  MaxReqs = 1
  MaxFrag = 2
  SseSize = 4
  MaxBody = 4
  MayFail = FALSE
INVARIANT WaitReportsOutcome
