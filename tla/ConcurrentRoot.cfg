SPECIFICATION Spec
CONSTANTS
  t1 = t1
  t2 = t2
  t3 = t3
  v1 = v1
  v2 = v2
  Threads = {t1, t2, t3}
  Keys <- ThreeKeys
  MAX_JUMP_SYMBOLS = 2
  Programs <- RootPrograms
  StartAfter <- AfterTwo
  NULL = NULL
  Pending = Pending
  MinLeaf = MinLeaf
INVARIANT GotoNotBelow
