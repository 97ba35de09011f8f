SPECIFICATION FairSpec
CONSTANTS
    p = p
    l1 = l1
    l2 = l2
    t1 = t1
    w1 = w1
    w2 = w2
    c1 = c1
    c2 = c2
    NoRel = NoRel
    Tables = {l1, l2, t1}
    Roots = {p}
    NStmts = 3
    StmtRel <- GP6StmtRel
    DependsOn <- GP6DependsOn
    PartNameMap <- PartMap
    SrcIsGP7 = FALSE
    NEarly = 1
    NLate = 1
    Cap = 3
    MetaConns = {w1, w2}
    CopyConns = {c1, c2}
    Modes <- AllModes
INVARIANTS
    CreateBeforeCopy
PROPERTIES
    Completes
    ImplementsMigration
