SPECIFICATION EditorsSpec
CONSTANTS
    r1 = r1  r2 = r2  r3 = r3
    claude = claude  tool = tool  timeout = timeout
    Records = {r1, r2}
    Projects = {p1}
    Queries = {q1}
    Clients = {c1}
    MaxFeedback = 2
    Batches = {b1}
    Editors = {e1, e2}
    Patches <- AllPatches
    MaxRuns = 2
    MaxEdits = 2
    MaxWeek = 1
    Week <- MCWeek
    Tags <- MCTags
    Axes <- NoLabels
    Withdrawable = {}
    CaseHelpfulFeedback = 1
    PatternClusterSize = 3
    DivergenceClusterSize = 3
    DigestNewRecords = 3
    TagShare = 1
INVARIANTS PublishedIsWritten
PROPERTIES DecidedArticlesStay ApprovedCasesStay
CHECK_DEADLOCK FALSE
