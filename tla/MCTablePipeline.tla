-------------------------- MODULE MCTablePipeline --------------------------
EXTENDS TablePipeline, TLC

CONSTANTS p, l1, l2, t1, w1, w2, c1, c2

AllModes == {m \in FlagSets : LegalFlags(m)}

\* A database with one partitioned table p of two leaves and one plain table
\* that a view (the NoRel statement) reads.  Before version 7 the leaves come
\* with the root's statement, from version 7 on each has its own.
GP6StmtRel == <<t1, NoRel, p>>
GP6DependsOn == <<{}, {1}, {}>>
GP7StmtRel == <<p, l1, l2, t1>>
GP7DependsOn == <<{}, {1}, {1}, {}>>
PartMap == (p :> {l1, l2})

Workers == Permutations({w1, w2}) \cup Permutations({c1, c2})
=============================================================================
