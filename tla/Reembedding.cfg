SPECIFICATION ReembedSpec
CONSTANTS
    w1 = w1
    w2 = w2
    MaxJobs = 3
    Workers = {w1, w2}
    MaxAttempts = 2
    BackoffBase = 1
    Lease = 0
    Horizon = 1
    MaxRequeues = 1
    StallsAllowed = FALSE
    RepliesLost = FALSE
    Records = {r1}
    Handlers = {h1}
    Patches <- MCPatches
    MaxEdits = 2
    MaxSeq = 2
    ChunkCount <- MCChunkCount
    Flags = {}
    Generation <- TwoGenerations
    ApiMayDie = TRUE
    OldVersion = 1
    NewVersion = 2
    MaxRuns = 1
INVARIANTS
    NoSharedJob
    ReembedCoversAll
PROPERTIES
    FollowsLifecycle
    WatermarkNeverDrops
    GenerationsStayServed
