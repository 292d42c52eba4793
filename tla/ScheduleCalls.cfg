SPECIFICATION FairSpec
CONSTANTS
  Schedule = {i1}
  Expr = {x1, x2}
  NoExpr = NoExpr
  Caller = {a1}
  Boot = Boot
  MaxCrons = 4
  EarlyCalls = FALSE
  Overlap = FALSE
INVARIANTS
  TypeOK
  OneCronRuns
  CronMatchesTable
  JobsAreCurrent
  NextRunIsCurrent
PROPERTIES
  CallsReturn
