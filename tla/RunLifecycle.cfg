SPECIFICATION Spec
CONSTANTS
    Tables = {t1, t2}
    EmptySets = {{}, {t2}}
    Jobs = 2
    MaxRuns = 2
INVARIANTS
    ZeroIsComplete
    NoOrphans
    LoadedOnce
PROPERTY
    RunEnds
