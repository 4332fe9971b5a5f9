SPECIFICATION McSpec
CONSTANTS
    Seeds <- McSeeds
    Algos <- McAlgos
    BenchSeed = "bench"
    DevAlgo = "rx/0"
    Threads <- McThreads
    Word = 256
    ItemCounts <- McItemCounts
    ThreadCounts <- McThreadCounts
INVARIANTS
    TypeOK
    ReadyIsWhole
    FailureLeavesNothing
    MemoryIsOwned
    SplitIsExact
CHECK_DEADLOCK FALSE
