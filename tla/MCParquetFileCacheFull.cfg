SPECIFICATION Spec
CONSTANTS
    Threads = {t1, t2}
    FirstShard = {a, b, c}
    SecondShard = {d, e}
    Oversized = o
    Chunks <- MCChunks
    MaxVersion = 0
    NShards = 2
    ShardOf <- MCShardOf
    ChunkLen <- MCChunkLen
    MaxChunk = 4
    MaxBytes = 3
    LargestEntry = 1
    AdmitOnFirstRead = TRUE
    AdmissionCap = 1
    EvictAttempts = 3
    MaxEpoch = 8
SYMMETRY MCSymmetry
INVARIANTS BoundedEviction
