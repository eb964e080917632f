SPECIFICATION Spec
CONSTANTS
    Procs = {p1, p2}
    Names <- MCNames
    Locations <- MCLocations
    Files <- MCFiles
    Home <- MCHome
    SchemaOf <- MCSchemaOf
    MaxOps = 3
    MaxChanges = 1
    MaxCrashes = 1
INVARIANTS
    SnapshotOfDirectory EntriesScannable AckedIsStored QueryUsesSnapshot
SYMMETRY ProcSymmetry
CHECK_DEADLOCK FALSE
