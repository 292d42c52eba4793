SPECIFICATION Spec
CONSTANTS
  Channel = {c1, c2}
  Event = {failed}
  DefaultEvents = {failed}
  Caller = {a1, a2}
  Ping = {p1, p2}
  TTL = 2
  MaxQuery = 1
SYMMETRY Symmetry
INVARIANTS TypeOK InUseIsRecent StaleMeansOverlap
