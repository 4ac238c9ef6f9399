SPECIFICATION ArticlesSpec
CONSTANTS
    r1 = r1  r2 = r2  r3 = r3
    claude = claude  tool = tool  timeout = timeout
    Records = {r1, r2}
    Projects = {p1}
    Queries = {q1}
    Clients = {}
    MaxFeedback = 0
    Batches = {b1}
    Editors = {e1}
    Patches <- Drafts
    MaxRuns = 2
    MaxEdits = 1
    MaxWeek = 2
    Week <- MCWeek
    Tags <- NoLabels
    Axes <- NoLabels
    Withdrawable = {}
    CaseHelpfulFeedback = 1
    PatternClusterSize = 2
    DivergenceClusterSize = 2
    DigestNewRecords = 1
    TagShare = 1
INVARIANT OneDigestPerWeek
CHECK_DEADLOCK FALSE
