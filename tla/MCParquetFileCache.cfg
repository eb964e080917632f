SPECIFICATION FairSpec
CONSTANTS
    Threads = {t1, t2}
    Chunks = {1, 2}
    MaxVersion = 1
    NShards = 2
    ShardOf <- MCShardOf
    ChunkLen <- MCChunkLen
    MaxChunk = 10
    MaxBytes = 14
    LargestEntry = 10
    AdmitOnFirstRead = TRUE
    AdmissionCap = 1
    EvictAttempts = 2
    MaxEpoch = 5
INVARIANTS BytesMatchEntries NeverOlderThanStat BoundedOvershoot
PROPERTIES RequestsReturn
