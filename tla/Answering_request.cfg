SPECIFICATION FairAnsweringSpec
CONSTANTS
    Chunks <- MCChunks
    RecordOf <- MCRecordOf
    SectionOf <- MCSectionOf
    Relations <- MCRelations
    VectorK = 2
    TextK = 1
    Overfetch = 2
    RrfK = 60
    MaxChunksPerRecord = 1
    MaxRelationChunks = 1
    FinalK = 2
    SearchLimit = 1
    RelationExpansion = TRUE
    Scores = {0, 1}
    Threshold = 1
    Pieces <- MCPieces
    Written <- MCWritten
    MaxChanges = 1
    NotRead = NotRead
INVARIANTS
    SlotsAreShared
    BetterRankedComesFirst
    SuspectsStayOut
    ModelCallsAreEarned
    AnswersAreGrounded
PROPERTIES
    EveryRequestEnds
