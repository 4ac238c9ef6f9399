SPECIFICATION ServicesSpec
CONSTANTS
    api = api
    worker = worker
    Processes <- MCProcesses
    Embedding = {worker}
    Api = api
    Versions = {1}
    voyage = voyage
    Identities = {voyage, other}
    Unrecorded = Unrecorded
    Unclaimed = Unclaimed
    Scripts = {d1, d2}
    Tags = {old, new}
    Broken = {new}
    NoTag = NoTag
    \* db-init
    Runs = {i1}
    Releases <- MCReleases
    Clashing = {7}
    ReadyTimeout = 1
    MaxDrops = 1
    \* the worker
    MaxWorkerBoots = 2
    \* the embedder
    Environments <- MCEnvironments
    CallSizes = {0, 1, 3}
    RetryAfters <- MCRetryAfters
    MaxEmbeddingBatchSize = 3
    MaxRetries = 3
    BackoffBase = 200
    RateLimitRetries = 5
    RateLimitBackoffBase = 1000
    RetryAfterCap = 60000
    JobLease = 600000
    \* the language model
    Secrets <- MCSecrets
    MinRedactable = 3
    Redacted = 0
    Asides <- MCAsides
    Timeouts = {0, 5}
    Retries <- MCRetries
    DefaultTimeout = 8
    DefaultRetries = 1
    \* the MCP server
    Calls = {c1}
    ApiKeys <- MCKeys
    ShortKeys = {"k2"}
    NoKey = "none"
    McpSettings <- MCSettings
    DefaultAttempts = 2
    Weights <- MCWeights
    TokenBudgets = {22, 26, 40}
    LimitMax = 3
    Limits = {0, 2, 5}
    TitleMaxChars = 4
    SummaryMaxChars = 5
    TitleCapTokens = 3
    StoredTitles <- MCStoredTitles
    StoredHits <- MCHits
    Answers <- MCAnswers
    StoredRecords <- MCRecords
    CitationCounts = {0, 1, 3}
INVARIANTS
    SpacesNeverMix
    LastGoodCameUp
    SuccessIsServed
    ExitsEmptyHanded
    VectorsAnswerTexts
    WaitsFitLease
    NoFragmentSurvives
    WritesHappenOnce
    RepliesKeepTheirIds
PROPERTIES
    RightfulStarts
    EveryBootstrapEnds
CHECK_DEADLOCK FALSE
