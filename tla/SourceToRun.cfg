SPECIFICATION Spec
CONSTANTS
  Syncer = {s1, s2}
  MaxCommit = 2
  MaxVersion = 2
  NoCommit = 0
  Exec = {e1, e2}
  Worker = {w1, w2}
  NoWorker = NoWorker
  Req = {"reqs"}
  NoReq = "nothing"
  NoSource = 0
  Source = {1, 2}
  ReqOf <- MCReqOf
  MaxCrashes = 1
INVARIANTS TypeOK SourceUsable RunsWhatWasOnRecord RunsWithItsDeps
SYMMETRY Symmetry
CHECK_DEADLOCK FALSE
