SPECIFICATION Spec
CONSTANTS
  Providers = {"chromadb", "qdrant", "milvus", "mongodb_atlas", "elasticsearch", "opensearch", "redis", "pinecone", "turbopuffer", "vespa", "typesense", "weaviate", "lancedb", "pgvector"}
  m1 = m1
  m2 = m2
  Memories = {m1, m2}
  small = small
  wide = wide
  other = other
  Models = {small, wide, other}
  DimensionOf <- MCDimensionOf
  Windows = {1, 2}
  AllowFallback = TRUE
  MaxMessages = 2
  MaxStarts = 3
  MaxWrites = 3
  MaxFaults = 1
  None = None
INVARIANT OneVectorSpace SettledRowsAreExact
SYMMETRY Interchangeable
CHECK_DEADLOCK FALSE
