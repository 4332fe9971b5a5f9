SPECIFICATION FairWorkerSpec
CONSTANTS
    Parts = {idPart, work, rx}
    IdPart = idPart
    RxPart = rx
    WorkPart = work
    MaxJobs = 5
    PoolOf <- MCPoolOf
    Range = 3
    Ranges = 3
    Ids = {1, 2}
INVARIANTS
    TypeOK
    SettledIsLatest
    TornIsTransient
    MeetOnlyAfterOverrun
    HashTypeOK
    PipelineInStep
    OnlyFirstHash
    ReportedToOwnPool
PROPERTIES
    Delivered
    WholeRange
