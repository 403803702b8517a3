SPECIFICATION Spec
CONSTANTS
  v1 = v1
  v2 = v2
  num_buckets = 4
  Tags = {0, 1}
  NumTags = 2
  FANOUT = 2
  bucket_mix_table <- MixOneThree
  BitXor <- XorBits
  CUCKOO_BUCKET_SIZE = 2
  RELOCATE_QUEUE_SIZE = 5
  MAX_JUMP_SYMBOLS = 1
  Keys <- KeysMovedLeaf
  Values = {v1}
  MaxKeyLength = 6
  Workloads <- WorkloadsMovedLeaf
  NULL = NULL
INVARIANT VerifyTrie
