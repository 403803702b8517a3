SPECIFICATION FairSpec
CONSTANTS
  t1 = t1
  t2 = t2
  t3 = t3
  Threads = {t1, t2, t3}
  Main = Main
  Programs <- LookupTest
  NULL = NULL
PROPERTY SleepersWake
CHECK_DEADLOCK FALSE
