SPECIFICATION MCSpec
CONSTANTS
  a1 = a1  a2 = a2
  l1 = l1  l2 = l2
  Addresses = {a1, a2}
  Users = {a1}
  Logins = {l1, l2}
  Window = 2
  Hour = 3
  LockSeconds = 2
  LoginLimit = 2
  MinuteLimit = 2
  HourLimit = 3
  ConnectLimit = 2
  MaxTracked = 1
  MaxClock = 3
  r1 = r1  r2 = r2
  Requests = {r1, r2}
  Sockets = {1}
  TokenLife = 3
  Interval = 2
  RecvTimeout = 1
  MaxRevoked = 1
  MaxTokens = 2
  MaxChanges = 1
  MaxTime = 4
  MaxDbErrors = 1
  MaxRestarts = 1
  c1 = c1  c2 = c2
  Callers = {c1, c2}
  MaxCalls = 1
  MaxSaves = 1
  MaxStops = 2
  ty1 = ty1  ty2 = ty2  ty3 = ty3
  Type = {ty1, ty2, ty3}
  w1 = w1  w2 = w2
  SwitchCall = {w1, w2}
  s1 = s1
  Session = {s1}
  Nothing = Nothing
  MaxLoads = 3
  Distance = {300, 530, 640, 900}
  Profile <- MCProfile
  PendingLimit = 3
  EMB_BUFFER_SIZE = 2
  MaxUtterances = 6
INVARIANTS TypesOK Budgets AccessEnds PinnedCalls UpgradesComplete SettledOnCurrent EnginesReleased SpeakersCounted
PROPERTIES LocksAreEarned
CONSTRAINT FewEvents
CHECK_DEADLOCK FALSE
SYMMETRY Symmetry
