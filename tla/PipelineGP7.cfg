SPECIFICATION Spec
CONSTANTS
    p = p
    l1 = l1
    l2 = l2
    t1 = t1
    w1 = w1
    w2 = w2
    c1 = c1
    c2 = c2
    NoRel = NoRel
    Tables = {l1, l2, t1}
    Roots = {p}
    NStmts = 4
    StmtRel <- GP7StmtRel
    DependsOn <- GP7DependsOn
    PartNameMap <- PartMap
    SrcIsGP7 = TRUE
    NEarly = 1
    NLate = 1
    Cap = 3
    MetaConns = {w1, w2}
    CopyConns = {c1, c2}
    Modes <- AllModes
SYMMETRY Workers
INVARIANTS
    TypeOK
    SendNeverBlocks
    ChannelProtocol
    ExactlyOnce
    CreateBeforeCopy
    DependenciesFirst
    PostAfterData
