SPECIFICATION FairSpec
CONSTANTS
  Threads = {t1, t2}
  Buckets = {b1}
  CUCKOO_BUCKET_SIZE = 1
  SeqMod = 8
  MaxWrites = 2
  MaxRefs = 1
  None = None
INVARIANT NoTornRead
INVARIANT ValidCopyIsCurrent
INVARIANT OddSeqIsWritten
PROPERTY UpgradeKeepsFresh
PROPERTY ReadersFinish
