SPECIFICATION FairSpec
CONSTANTS
  Task = {1}
  Session = {s1}
  NoSession = NoSession
  Concurrency = 1
  OutboxCap = 1
  Worker = {w1}
  ExecId = {1, 2}
  Ending <- Successes
  MaxDuration = 1000
  OutOfRange = 1000
  DefaultBase = 1
  DefaultMaxDelay = 60
  Absent = Absent
  Policy0 <- MCPolicy
  MaxRoots = 1
  MaxCancels = 1
  MaxFaults = 0
  MaxTries = 2
  WithBeats = TRUE
  MaxCaptchas = 1
  WithDelete = FALSE
INVARIANTS
  WorkerSlotsExact
PROPERTIES
  RowsSettle
  SlotsReturn
\* Nothing is left to do once every row has ended and the bounds are used up.
CHECK_DEADLOCK FALSE
