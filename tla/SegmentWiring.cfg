SPECIFICATION Spec
CONSTANTS
    MaxSegs = 3
    Hosts = {h1, h2}
    MHost = h1
    NPorts = 3
INVARIANTS
    NoRefusedDial
    WiredExactly
PROPERTY
    EventuallyWired
