SPECIFICATION Spec
CONSTANTS
    Queries = {q1, q2, q3}
    Paths = {f}
    MaxVersion = 3
    Sig <- MCSig
    Unreadable = {2}
    NoEntry = NoEntry
INVARIANTS
    MetadataFresh QuietQueryConsistent
SYMMETRY QuerySymmetry
