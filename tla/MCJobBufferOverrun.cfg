SPECIFICATION Spec
CONSTANTS
    Parts = {id, work, rx}
    IdPart = id
    RxPart = rx
    MaxJobs = 5
    PoolOf <- MCPoolOf
INVARIANT
    SettledVmIsOwn
