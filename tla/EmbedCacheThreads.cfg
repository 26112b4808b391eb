SPECIFICATION FairSpec
CONSTANTS
  Conns = {c1, c2}
  Keys = {k1, k2, k3}
  Batches <- MCBatches
  Vectors <- MCVectors
  Embedding <- MCEmbedding
  Capacity = 2
  Null = Null
INVARIANTS TypeOK CacheConsistent RepliesAreEmbeddings
PROPERTIES LockComesBack FifoSpec
