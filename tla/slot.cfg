SPECIFICATION FairSpec
CONSTANTS
  l1 = l1  l2 = l2  l3 = l3  j1 = j1  e1 = e1  e2 = e2
  NoTask = NoTask
  Live = {l1, l2, l3}
  Job = {j1}
  Enroll = {e1, e2}
  Cancellable = {l1, l2, l3, j1, e1}
INVARIANTS IInv NoLostWakeup OneModelCall
PROPERTIES FollowsPriority OfflineRuns SlotGetsUsed
CHECK_DEADLOCK FALSE
