SPECIFICATION MCSpec
CONSTANTS
  m1 = m1  m2 = m2  p1 = p1  p2 = p2  A = A  B = B  u1 = u1  u2 = u2  e1 = e1
  Meeting = {m1, m2}
  Slots <- MCSlots
  Voice <- MCVoice
  Diarizations <- AnyDiarization
  Label = {A, B}
  NoLabel = NoLabel
  NoOne = NoOne
  Person = {p1, p2}
  Upload = {u1, u2}
  Voiceprint = {1, 2}
  Edit = {e1}
  WithAudio = {m1}
  MaxNamed = 1
  MaxRuns = 1
  MaxEdits = 1
  Token <- MCToken
  Words = 1
  WordLength = 2
  ChunkLength = 5
  OverlapLength = 2
  MaxChars = 80
  Letter = {"a", "b", "c"}
  LongSegment = 3
  Carried = 2
  PauseLength = 2
  MaxSaid = 1
  Speakers = 2
  MaxTurns = 1
  WordCount = 1
  Duration = 1
  MaxMargin = 0
  GapTolerance = 1
PROPERTY HeirsOwnMost
CHECK_DEADLOCK FALSE
CONSTRAINT FewSteps
