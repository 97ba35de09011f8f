SPECIFICATION Spec
CONSTANTS
    Tables = {a, b}
    NoTable = NoTable
    RowCounts = {0, 1}
INVARIANTS
    TruncateClears
