SPECIFICATION Spec
CONSTANTS
  Writers = {w1, w2}
  Readers = {r1}
  num_buckets = 3
  Tags = {0}
  bucket_mix_table <- MixOne
  CUCKOO_BUCKET_SIZE = 1
  RELOCATE_QUEUE_SIZE = 3
  Scenarios <- Pair
  None = None
INVARIANT LookupFindsNode
