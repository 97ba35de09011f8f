SPECIFICATION FairSpec
CONSTANTS
    Tables = {a, b}
    NoTable = NoTable
    RowCounts = {0, 1}
INVARIANTS
    TypeOK
    SucceededIsComplete
    OnlyCancelledLeftBehind
    FailedIsUntouched
PROPERTIES
    NoLateWrites
    EveryTableRecorded
