\* Chat: buffers smaller than, as large as and larger than the texts.
\* MCP: ids are used again after the fifth.
\* OTA: a job announced, its details delivered twice, or another job; restarts inside
\* a download, in the reboot, before its report.
\* Events: documents of three parts over connections, a realloc that may fail.
\* The bounds of the instances are in MCServices.
SPECIFICATION ServicesSpec
CHECK_DEADLOCK FALSE
CONSTANTS
  ChatCaps = {1, 2, 4}
  Pieces = {0, 1, 2, 3}
  Texts = {0, 1, 3, 4, 5}
  MaxChats = 3
  MaxStream = 5
  Callers = {"c1", "c2"}
  MaxId = 5
  MaxCalls = 3
  MaxNotes = 1
  Budget = 1
  LogThreads = {"a", "b"}
  MaxLines = 2
  MaxConfigs = 1
  MaxPrefix = 4
  MaxMade = 4
  job1 = job1
  job2 = job2
  NoJob = NoJob
  Jobs = {job1, job2}
  VersionOf <- MCVersionOf
  Signed = {job1}
  FirstVersion = 1
  MaxMessages = 4
  MaxRestarts = 3
  Parts = 3
  DocKinds = {"on_audio", "on_error", "none"}
  Callbacks = {"on_audio"}
  MaxDocs = 3
  MaxDrops = 2
  ReallocMayFail = TRUE
INVARIANTS
  VerifiedHandover JobRemembered TaskKeysCleaned 
  TextInBuffer ChatObjectsOwned   LinesReported  
PROPERTIES SuccessReported
