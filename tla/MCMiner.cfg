SPECIFICATION FairSpec
CONSTANTS
    rx0 = rx0
    wow = wow
    Algos = {rx0, wow}
    Seeds = {s1, s2}
    DevSeeds = {s1}
    FirstAlgo = rx0
    DevAlgo = rx0
    Threads <- MCThreads
    MaxUserJobs = 2
    MaxDevJobs = 2
    MaxDrops = 1
    MaxFees = 1
INVARIANTS
    TypeOK
    DeliveredIsCurrent
    BuildIsQuiet
    UserVmExists
    FullCrew
    LastJobWins
PROPERTY
    FeeEnds
CHECK_DEADLOCK FALSE
