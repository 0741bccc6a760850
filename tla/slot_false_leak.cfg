SPECIFICATION Spec
CONSTANTS
  l1 = l1  l2 = l2  l3 = l3  j1 = j1  e1 = e1  e2 = e2
  NoTask = NoTask
  Live = {l1}
  Job = {j1}
  Enroll = {}
  Cancellable = {}
PROPERTIES LeakIsLive
CHECK_DEADLOCK FALSE
