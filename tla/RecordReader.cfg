SPECIFICATION Spec
CONSTANTS
    MaxLen = 5
    BufSize = 3
INVARIANTS
    NothingLost
    BlocksEndRecords
PROPERTY
    ReaderEnds
