SPECIFICATION AnsweringSpec
CONSTANTS
    Chunks <- MCChunks
    RecordOf <- MCRecordOf
    SectionOf <- MCSectionOf
    Relations <- MCRelations
    VectorK = 2
    TextK = 2
    Overfetch = 2
    RrfK = 60
    MaxChunksPerRecord = 1
    MaxRelationChunks = 1
    FinalK = 2
    SearchLimit = 1
    RelationExpansion = FALSE
    Scores = {0, 1}
    Threshold = 1
    Pieces <- MCSparsePieces
    Written <- MCSparseWritten
    MaxChanges = 0
    NotRead = NotRead
INVARIANTS
    StrippedVerifiesAgain
