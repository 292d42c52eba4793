SPECIFICATION Spec
CONSTANTS
  Level = {info}
  NoLevel = NoLevel
  MaxLines = 2
  MaxFaults = 1
INVARIANTS
  NothingOverwritten
