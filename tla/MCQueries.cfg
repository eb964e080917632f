SPECIFICATION Spec
CONSTANTS
    Null = Null
    Error = Error
    Unsupported = Unsupported
    NaN = NaN
    Waiting = Waiting
    NoPlan = NoPlan
    ColumnType <- MCColumnType
    Int32Max = 7
    Tables <- MCFiles
    TopkRows = 2
    Scans <- MCScans
    Sets <- MCSets
    Filters <- MCFilters
    Joins <- MCJoins
    Subqueries <- MCSubqueries
    RowFilterKeys = 1
    SetQueries <- RunSetQuery
    SubqueryQueries <- RunSubqueries
    WindowQueries <- RunWindow
    Windows <- MCWindows
INVARIANTS ScanExact SetExact MaskExact EvaluatorsAgree JoinQueryExact SubqueryExact WindowExact
CHECK_DEADLOCK FALSE
