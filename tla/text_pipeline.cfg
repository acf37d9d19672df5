SPECIFICATION Spec
CONSTANTS
    Documents <- MCDocuments
    NoTitle = "none"
    TargetWords = 3
    OverlapWords = 1
    BatchSize = 2
    Concurrency = 2
    RrfK = 60
    CandidateK = 2
    TopK = 1
    MaxRanked = 3
INVARIANTS
    TypeOK
    ChunksCoverText
    ChunksOverlap
    ChunksAreLabelled
    VectorsPaired
    AgreementWins
    AnswerIsBest
PROPERTIES
    Finishes
CHECK_DEADLOCK FALSE
