SPECIFICATION FairSpec
CONSTANTS
  t1 = t1
  t2 = t2
  t3 = t3
  v1 = v1
  v2 = v2
  Threads = {t1, t2, t3}
  Keys <- AllKeys
  MAX_JUMP_SYMBOLS = 2
  Programs <- AllPrograms
  StartAfter <- AfterSmallest
  NULL = NULL
  Pending = Pending
  MinLeaf = MinLeaf
INVARIANT TypeOK
INVARIANT SearchFindsIndex
INVARIANT QuietTrieVerifies
INVARIANT ResyncFindsLastKey
PROPERTY Linearizable
PROPERTY ReadersReturn
