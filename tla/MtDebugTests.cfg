SPECIFICATION FairSpec
CONSTANTS
  t1 = t1
  t2 = t2
  t3 = t3
  Threads = {t1, t2, t3}
  Main = Main
  Programs <- AllTests
  NULL = NULL
INVARIANT TypeOK
INVARIANT AccessInTurn
INVARIANT TurnIsNotLost
PROPERTY TestsEnd
CHECK_DEADLOCK FALSE
