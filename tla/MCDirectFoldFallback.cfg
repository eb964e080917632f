SPECIFICATION Spec
CONSTANTS
    Queries <- MCMixedQueries
    Null = Null
    Parallelism = 2
    BatchSize = 2
    DenseRows = 2
    SumMax = 9
INVARIANTS GroupsExact
CHECK_DEADLOCK FALSE
