SPECIFICATION Spec
CONSTANTS
  m1 = m1  m2 = m2  c1 = c1  c2 = c2
  Meetings = {m1}
  NoMeeting = NoMeeting
  Clients = {c1, c2}
  ApiOps = {"upload", "cancel", "retry", "reprocess", "delete"}
  MaxJobs = 2
  MaxAutoRetries = 2
  KeepFinished = 5
  MaxChunks = 1
  RetryBound = 1
  MaxCrashes = 0
  MaxFaults = 0
  StuckModels = FALSE
INVARIANTS WorkIsProtected
PROPERTIES CancelledStaysCancelled FollowsLifecycle
SYMMETRY Symmetry
CHECK_DEADLOCK FALSE
