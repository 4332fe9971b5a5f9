SPECIFICATION FairAppSpec
CONSTANTS
    Workers = {w1, w2}
    MaxSeeds = 2
    MaxDrops = 2
    SlowReconnect = TRUE
    MayStop = TRUE
INVARIANTS
    TypeOK
    NoHashDuringBuild
    NoForgottenPause
    DisconnectedIsPaused
    AppTypeOK
    PagesGivenBack

    
CHECK_DEADLOCK FALSE
