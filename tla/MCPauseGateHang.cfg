SPECIFICATION FairSpec
CONSTANTS
    Workers = {w1, w2}
    MaxSeeds = 1
    MaxDrops = 1
    SlowReconnect = TRUE
    MayStop = FALSE
PROPERTY
    AwaitReturns
CHECK_DEADLOCK FALSE
