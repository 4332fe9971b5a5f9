SPECIFICATION Spec
CONSTANTS
    rx0 = rx0
    wow = wow
    Algos = {rx0, wow}
    Seeds = {s1, s2}
    DevSeeds = {s1}
    FirstAlgo = rx0
    DevAlgo = rx0
    Threads <- MCThreads
    MaxUserJobs = 1
    MaxDevJobs = 0
    MaxDrops = 1
    MaxFees = 0
INVARIANT
    LostPoolIsNotMined
CHECK_DEADLOCK FALSE
