SPECIFICATION FairSpec
CONSTANTS
  Level = {info}
  NoLevel = NoLevel
  MaxLines = 3
  MaxFaults = 2
INVARIANTS
  TypeOK
  CountsMatch
  StopFlushes
PROPERTIES
  PromiseKept
  EventuallyStored
