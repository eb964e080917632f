SPECIFICATION Spec
CONSTANTS
    Keys <- MCKeys
    Null = Null
    Broken = Broken
    Queries <- MCQueries
INVARIANTS
    JoinExact
CHECK_DEADLOCK FALSE
