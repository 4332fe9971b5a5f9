SPECIFICATION Spec
CONSTANTS
    rx0 = rx0
    wow = wow
    Algos = {rx0, wow}
    Seeds = {s1, s2}
    DevSeeds = {s1}
    FirstAlgo = rx0
    DevAlgo = rx0
    Threads <- MCThreads
    MaxUserJobs = 2
    MaxDevJobs = 0
    MaxDrops = 0
    MaxFees = 0
INVARIANT
    CrewSurvives
CHECK_DEADLOCK FALSE
