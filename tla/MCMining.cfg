SPECIFICATION MiningSpec
CONSTANTS
    Workers = {w1, w2}
    Nonces = 3
    Good <- MCGood
    Watched <- MCWatched
    MaxHistory = 2
    MaxJobs <- MCMaxJobs
    MaxDrops <- MCMaxDrops
    MaxFees = 1
    Second = 2
    FeeInterval = 3
    FeeDuration = 2
    MaxGap = 3
    MaxWait = 1
    MaxAge = 14
    Half = 16
INVARIANTS
    TypeOK
    NoShareTwice
    OwnHistory
    NoStaleHashing
    TargetIsDifficulty
PROPERTY
    KeepsSchedule
CHECK_DEADLOCK FALSE
