SPECIFICATION Spec
CONSTANTS
  m1 = m1  m2 = m2  c1 = c1  c2 = c2
  Meetings = {m1}
  NoMeeting = NoMeeting
  Clients = {c1}
  ApiOps = {"live", "upload", "cancel", "retry", "reprocess", "delete"}
  MaxJobs = 2
  MaxAutoRetries = 1
  KeepFinished = 1
  MaxChunks = 1
  RetryBound = 1
  MaxCrashes = 1
  MaxFaults = 1
  StuckModels = TRUE
INVARIANTS IInv SingleWorker StatusMatchesText ProcessingHasRecourse
PROPERTIES CompletedIsPublished
CONSTRAINT OneTrouble
CHECK_DEADLOCK FALSE
