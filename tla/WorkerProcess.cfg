SPECIFICATION FairSpec
CONSTANTS
  Task = {t1}
  Run = {t1}
  NoTask = none
  Cap = 1
  MaxBreaks = 1
  MaxEvents = 1
  EventKind = {"captcha"}
INVARIANTS TypeOK FramesSurvive
PROPERTIES ExecutionKept ReconnectsUnlessStuck DeadlineEnds
CHECK_DEADLOCK FALSE
