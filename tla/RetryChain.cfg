SPECIFICATION Spec
CONSTANTS
  Config <- MCConfig
  FailureClass <- MCFailureClass
  MaxDuration <- Int64Max
  OutOfRange <- Amd64OutOfRange
  DefaultBase = 1
  DefaultMaxDelay = 60
  Absent = Absent
INVARIANTS
  TypeOK
  AttemptsWithinConfig
  PauseCapped
PROPERTIES
  PausesGrow
\* A chain that is over has no further step.
CHECK_DEADLOCK FALSE
