SPECIFICATION Spec
CONSTANTS
    Null = Null
    None = None
    Error = Error
    Files <- MCFiles
    Hash <- MCHash
    Queries <- MCQueries
    BatchRows = 2
    FileTarget = 2
INVARIANTS
    OptimizerExact
    ShuffledOnce
    GraphExact
    EnginePlansSound
    GraphRunsToEnd
