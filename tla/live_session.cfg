SPECIFICATION FairSpec
CONSTANTS
  QueueSize = 3
  SkipThreshold = 2
  KeepRecent = 2
  SilenceLimit = 2
  MaxSegment = 3
  Carry = 2
  MinSegment = 1
  CapFrames = 3
  MaxFrames = 5
  MaxFaults = 2
INVARIANTS TypeOK RowsOnTimeline NoJoinAcrossGap PairedOnce RefinementHearsAll OneMeeting NothingLeftBehind
PROPERTIES SessionIsFinalized
CHECK_DEADLOCK FALSE
