SPECIFICATION FairSpec
CONSTANTS
  Task = {t1}
  Run = {t1}
  NoTask = none
  Cap = 1
  MaxBreaks = 1
  MaxEvents = 1
  EventKind = {"captcha"}
PROPERTY ReturnsWhenCancelled
CHECK_DEADLOCK FALSE
