SPECIFICATION FairSpec
CONSTANTS
  Writers = {w1}
  Readers = {r1}
  num_buckets = 4
  Tags = {0, 1}
  bucket_mix_table <- Mix12
  CUCKOO_BUCKET_SIZE = 1
  RELOCATE_QUEUE_SIZE = 3
  Scenarios <- Moves
  None = None
INVARIANT LookupFindsNode
PROPERTY LookupsFinish
PROPERTY AloneFinishes
