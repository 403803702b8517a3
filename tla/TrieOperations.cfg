SPECIFICATION FairSpec
CONSTANTS
  v1 = v1
  v2 = v2
  num_buckets = 4
  Tags = {0}
  NumTags = 1
  FANOUT = 2
  bucket_mix_table <- MixOne
  BitXor <- XorBits
  CUCKOO_BUCKET_SIZE = 2
  RELOCATE_QUEUE_SIZE = 3
  MAX_JUMP_SYMBOLS = 2
  Keys <- KeysAll
  Values = {v1, v2}
  MaxKeyLength = 3
  Workloads <- WorkloadsAll
  NULL = NULL
INVARIANT TypeOK
INVARIANT VerifyTrie
INVARIANT OneParent
INVARIANT MaxLeafIsMax
PROPERTY Implements
PROPERTY CallsReturn
