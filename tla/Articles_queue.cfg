SPECIFICATION PublishingSpec
CONSTANTS
    r1 = r1  r2 = r2  r3 = r3
    claude = claude  tool = tool  timeout = timeout
    Records = {r1, r2, r3}
    Projects = {p1}
    Queries = {q1}
    Clients = {}
    MaxFeedback = 0
    Batches = {b1, b2}
    Editors = {e1}
    Patches <- Rejections
    MaxRuns = 2
    MaxEdits = 1
    MaxWeek = 2
    Week <- MCWeek
    Tags <- MCTags
    Axes <- MCAxes
    Withdrawable = {r1}
    CaseHelpfulFeedback = 1
    PatternClusterSize = 2
    DivergenceClusterSize = 2
    DigestNewRecords = 2
    TagShare = 1
    \* the sanitizer
    UserinfoScan = 4
    MaskEmail = TRUE
    MaxInputChars = 6
    ZeroWidthThreshold = 2
    Reach = 2
    Texts <- MCTexts
    Extras <- MCExtras
    \* the chunker
    MinBodyBudget = 2
    MaxChars = {0, 3, 4}
    DefaultMaxChars = 5
    PrefixLength = 1
    Titles <- MCTitles
    FirstBodies <- MCFirstBodies
    LastBodies <- MCLastBodies
    \* the draft
    Ticks = 3
    MaxSnippet = 4
    MaxCitations = 3
    MaxSignals = 4
    MaxDistributionKeys = 2
    Sources <- MCSources
    Year = 2
    DensityTokens = 4
    TripleItemMax = 2
    MaxEndingRun = 2
    MaxRewrites = 2
    MaxRegenerations = 2
    PartMax = 3
    SampleMax = 3
    Assignments <- MCAssignments
    Bodies <- MCBodies
    Rewrites <- MCRewrites
    Codes <- MCCodes
    \* db-init
    Runs = {i1, i2}
    Releases <- MCReleases
    Clashing = {7}
    ReadyTimeout = 1
    MaxDrops = 1
    \* the seeding
    Files <- MCFiles
    SeedSetups <- MCSeedSetups
    Rewritten = {"b"}
    Others = {"other"}
    RecordIds = {1, 2, 3, 4}
    MaxSeedRuns = 3
    MaxHandEdits = 1
    \* the lists
    EntryIds = {1, 2, 3}
    Times = {1, 2}
    Marks = {"tag"}
    PageSizes = {0, 1}
    DefaultLimit = 2
    MaxChanges = 2
INVARIANTS
    NoPileUp
    WideReportsSurvive
    FoundIsLabelled
    ChunksAreFaithful
    DraftsAreGrounded
    PromptsAreClean
    SuccessIsVerified
    FactsAreSourced
    SeedsStayOne
    PagesMissNothing
CHECK_DEADLOCK FALSE
SYMMETRY PublishingSymmetry
