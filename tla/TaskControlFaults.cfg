SPECIFICATION Spec
CONSTANTS
  Task = {1, 2, 3}
  Session = {s1, s2}
  NoSession = NoSession
  Concurrency = 1
  OutboxCap = 1
  Worker = {w1}
  ExecId = {1, 2}
  Ending <- TwoEndings
  MaxDuration = 1000
  OutOfRange = 1000
  DefaultBase = 1
  DefaultMaxDelay = 60
  Absent = Absent
  Policy0 <- MCPolicy
  MaxRoots = 1
  MaxCancels = 1
  MaxFaults = 1
  MaxTries = 2
  WithBeats = FALSE
  MaxCaptchas = 0
  WithDelete = FALSE
INVARIANTS
  TypeOK
  OwnerIsOpen
  RetriesEarned
  AssignmentsBacked
  HandleIsLive
SYMMETRY SessionSymmetry
\* Nothing is left to do once every row has ended and the bounds are used up.
CHECK_DEADLOCK FALSE
