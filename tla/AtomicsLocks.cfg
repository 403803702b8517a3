SPECIFICATION Spec
CONSTANTS
  Threads = {t1, t2}
  Buckets = {b1, b2}
  CUCKOO_BUCKET_SIZE = 1
  SeqMod = 2
  MaxWrites = 0
  MaxRefs = 2
  None = None
SYMMETRY LockSymmetry
INVARIANT TypeOK
INVARIANT LockByteOwned
INVARIANT RefcountsBalance
