SPECIFICATION Spec
CONSTANTS
  m1 = m1  m2 = m2  c1 = c1  c2 = c2
  Meetings = {m1}
  NoMeeting = NoMeeting
  Clients = {c1}
  ApiOps = {"upload", "cancel"}
  MaxJobs = 1
  MaxAutoRetries = 1
  KeepFinished = 5
  MaxChunks = 1
  RetryBound = 0
  MaxCrashes = 0
  MaxFaults = 0
  StuckModels = FALSE
INVARIANTS CancelledNeverStranded
CHECK_DEADLOCK FALSE
