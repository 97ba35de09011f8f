SPECIFICATION Spec
CONSTANTS
    MaxSenders = 2
    Blocks = 2
    Attempts = 2
    MaxFaults = 2
INVARIANTS
    StreamsIntact
    NilIsComplete
    FailsOnlyOnFault
PROPERTY
    HelpersEnd
