SPECIFICATION FairStoreSpec
CONSTANTS
    w1 = w1
    w2 = w2
    MaxJobs = 3
    Workers = {w1}
    MaxAttempts = 2
    BackoffBase = 1
    Lease = 0
    Horizon = 1
    MaxRequeues = 1
    StallsAllowed = FALSE
    RepliesLost = FALSE
    Records = {r1}
    Handlers = {h1}
    Patches <- TextPatches
    MaxEdits = 3
    MaxSeq = 2
    ChunkCount <- MCChunkCount
    Flags = {}
    Generation <- OneGeneration
    ApiMayDie = TRUE
INVARIANTS
    StoreTypeOK
    PublishedIsIndexed
PROPERTIES
    EditsReachIndex
