SPECIFICATION Spec
CONSTANTS
  Schedule = {i1, i2}
  Expr = {x1, x2}
  NoExpr = NoExpr
  Caller = {a1, a2}
  Boot = Boot
  MaxCrons = 3
  EarlyCalls = FALSE
  Overlap = TRUE
INVARIANTS
  SafeToCallAnyTime
SYMMETRY DataSymmetry
