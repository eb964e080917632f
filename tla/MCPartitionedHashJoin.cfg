SPECIFICATION FairSpec
CONSTANTS
    Keys <- MCKeys
    Null = Null
    Broken = Broken
    Queries <- MCQueries
    Partitions = 2
    Hashes <- MCHashes
    MaxDepth = 2
    HeavyRows = 3
INVARIANTS JoinExact NoRowTwice BuildFits
PROPERTIES StreamEnds
CHECK_DEADLOCK FALSE
