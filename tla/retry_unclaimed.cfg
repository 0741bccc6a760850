SPECIFICATION FairSpec
CONSTANTS
  m1 = m1  m2 = m2  c1 = c1  c2 = c2
  Meetings = {m1}
  NoMeeting = NoMeeting
  Clients = {c1}
  ApiOps = {"upload", "retry"}
  MaxJobs = 1
  MaxAutoRetries = 0
  KeepFinished = 5
  MaxChunks = 1
  RetryBound = 1
  MaxCrashes = 0
  MaxFaults = 0
  StuckModels = FALSE
PROPERTIES QueuedIsClaimed
CHECK_DEADLOCK FALSE
