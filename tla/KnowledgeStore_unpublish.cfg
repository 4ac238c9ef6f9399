SPECIFICATION StoreSpec
CONSTANTS
    w1 = w1
    w2 = w2
    MaxJobs = 2
    Workers = {w1}
    MaxAttempts = 2
    BackoffBase = 1
    Lease = 0
    Horizon = 1
    MaxRequeues = 0
    StallsAllowed = FALSE
    RepliesLost = FALSE
    Records = {r1}
    Handlers = {h1}
    Patches <- StatusPatches
    MaxEdits = 2
    MaxSeq = 2
    ChunkCount <- MCChunkCount
    Flags = {}
    Generation <- OneGeneration
    ApiMayDie = FALSE
INVARIANTS
    UnpublishedIsNotFound
