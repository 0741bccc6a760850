SPECIFICATION Spec
CONSTANTS
  m1 = m1  m2 = m2  c1 = c1  c2 = c2
  Meetings = {m1}
  NoMeeting = NoMeeting
  Clients = {c1}
  ApiOps = {"live"}
  MaxJobs = 1
  MaxAutoRetries = 0
  KeepFinished = 5
  MaxChunks = 1
  RetryBound = 0
  MaxCrashes = 1
  MaxFaults = 0
  StuckModels = FALSE
PROPERTIES InterruptedLiveCanBeReprocessed
CHECK_DEADLOCK FALSE
