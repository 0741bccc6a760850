SPECIFICATION FairSpec
CONSTANTS
  m1 = m1  m2 = m2  c1 = c1  c2 = c2
  Meetings = {m1}
  NoMeeting = NoMeeting
  Clients = {c1}
  ApiOps = {"upload", "live", "cancel"}
  MaxJobs = 1
  MaxAutoRetries = 1
  KeepFinished = 5
  MaxChunks = 2
  RetryBound = 1
  MaxCrashes = 1
  MaxFaults = 0
  StuckModels = FALSE
PROPERTIES EveryJobEnds ProcessingEnds
CHECK_DEADLOCK FALSE
