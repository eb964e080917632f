SPECIFICATION FairSpec
CONSTANTS
    Queries <- MCQueries
    Null = Null
    Parallelism = 2
    BatchSize = 2
    DenseRows = 2
    SumMax = 9
INVARIANTS MergedOnce FailsForCause GroupsExact
PROPERTIES Answered
CHECK_DEADLOCK FALSE
