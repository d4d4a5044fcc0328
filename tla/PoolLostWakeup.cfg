SPECIFICATION FairSpec
CONSTANTS
  Threads = {w1, w2}
  Tasks = {t1, t2}
  maxThreadCount = 2
  Expires = TRUE
  NoTask = NoTask
CHECK_DEADLOCK FALSE
PROPERTIES
  TaskEventuallyDone
