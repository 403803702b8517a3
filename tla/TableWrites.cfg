SPECIFICATION Spec
CONSTANTS
  Writers = {w1, w2}
  Readers = {}
  num_buckets = 4
  Tags = {0}
  bucket_mix_table <- MixOne
  CUCKOO_BUCKET_SIZE = 1
  RELOCATE_QUEUE_SIZE = 3
  Scenarios <- Writes
  None = None
SYMMETRY WriterSymmetry
INVARIANT TypeOK
INVARIANT OrderedColorsUnique
INVARIANT WritesAreLocked
INVARIANT NothingLost
INVARIANT RetriesStartClean
INVARIANT FlagTellsBucket
INVARIANT CopiesAreLocked
INVARIANT RelocationReleasesLocks
INVARIANT LocksHaveOneOwner
