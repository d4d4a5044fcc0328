SPECIFICATION FairSpec
CONSTANTS
  Threads = {w1, w2, w3}
  Tasks = {t1, t2, t3}
  maxThreadCount = 2
  Expires = TRUE
  NoTask = NoTask
CHECK_DEADLOCK FALSE
INVARIANTS
  TaskInOnePlace
  CountersExact
  StopOkMeansDone
  FreedOnlyWhenIdle
PROPERTIES
  DoneUnlessExpired
  StoppedWorkersEnd
