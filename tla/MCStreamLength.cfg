CONSTANTS
    DataLens <- MCDataLens
    ChunkSizes <- MCChunkSizes
SPECIFICATION Spec
INVARIANTS
    TypeOK
    ContentLengthExact
CHECK_DEADLOCK FALSE
