---------------------------- MODULE DatabaseLoop ----------------------------
(***************************************************************************)
(* doCopy of copy/copy.go: which databases are visited, which tables of    *)
(* them are paired with which tables of the destination, what the pair     *)
(* filter and the DDL filter of --skip-existing let through, and which     *)
(* relations the extracted DDL creates.                                    *)
(*                                                                         *)
(* What happens to the pairs of one database once they are selected is the *)
(* subject of TablePipeline; here the copy of a database is one step.  A   *)
(* relation is <<schema, name>>.  A catalogue holds the plain tables, the  *)
(* partition trees (parent, a function from a partition to the relation it *)
(* is a direct part of) and the views, sequences and foreign tables.  The  *)
(* destination is a Cloudberry cluster; the source is of version 6 or 7.   *)
(***************************************************************************)
EXTENDS Options

CONSTANTS
    None,           \* an empty cache, no database
    CommandLines,   \* the command lines of the instance
    Catalogues,     \* the contents of the source database "d1"
    OtherCatalogues, \* the contents of the source database "postgres"
    DestCatalogues  \* the contents of the destination databases

VARIABLES
    flags,      \* the command line, fixed
    phase,      \* where the program is; "fatal" and "done" are its ends
    reason,     \* why it ended in "fatal"
    opt,        \* config
    ver,        \* the version of the source
    src, dst,   \* source and destination databases -> catalogue
    dbMap,      \* source database -> destination database
    todo,       \* the databases the loop has still to visit
    cur,        \* the one it is at
    i,          \* how many databases were migrated
    cache,      \* srcPartLeafTable and destPartLeafTable: None when nil
    inv,        \* destDbInventory and destDbRootParts, together
    sel,        \* pairs, nonPhysicalRels, partNameMap and leafTableMap of the current
                \* database, and whether the caches were empty when it was its turn
    mapped,     \* --dest-tablespace has been put into the tablespace map
    skips,      \* skipExistingTables: destination database, relation, reason
    results     \* database -> what was done for it

vars == <<flags, phase, reason, opt, ver, src, dst, dbMap, todo, cur, i, cache,
          inv, sel, mapped, skips, results>>

fixed == <<flags, ver, src, dst>>

NoCache == [src |-> None, dest |-> None]
NoSel == [pairs |-> {}, nonPhys |-> {}, partMap |-> {}, parents |-> <<>>, fresh |-> TRUE]

\* The members of S one after the other, as a query without ORDER BY lists them.
ListOf(S) == CHOOSE f \in [1 .. Cardinality(S) -> S] : IsInjective(f)

\* f with the value v at x.
Put(f, x, v) == [y \in DOMAIN f \cup {x} |-> IF y = x THEN v ELSE f[y]]

----------------------------------------------------------------------------
(* Catalogues *)

Partitions(c) == DOMAIN c.parent
Partitioned(c) == Range(c.parent)
Leaves(c) == Partitions(c) \ Partitioned(c)
Tables(c) == c.plain \cup Partitions(c) \cup Partitioned(c)

\* The relation at the top of t's tree, t itself outside of trees.
RootOf(c, t) ==
    CHOOSE r \in Tables(c) :
        /\ r \notin Partitions(c)
        /\ \/ r = t
           \/ t \in Partitions(c) /\ c.parent[t] = r
           \/ t \in Partitions(c) /\ c.parent[t] \in Partitions(c) /\ c.parent[c.parent[t]] = r

\* A relation is a plain table or in a tree, and a tree has at most two levels
\* of partitions, which need not be in the schema of the root.
WellFormed(c) ==
    /\ Tables(c) \subseteq STRING \X STRING
    /\ c.plain \cap (Partitions(c) \cup Partitioned(c)) = {}
    /\ \A t \in Partitions(c) :
          c.parent[t] \in Partitions(c) => c.parent[c.parent[t]] \notin Partitions(c)

\* The databases of the source, all of them user databases.
SourceDbs == {"d1", "postgres"}

\* The databases a command line takes something from.
NamedDbs(f) ==
    Range(f.dbname) \cup {f.schema[k][1] : k \in DOMAIN f.schema}
        \cup {f.mapping[k][1][1] : k \in DOMAIN f.mapping}
        \cup {f.include[k][1] : k \in DOMAIN f.include}

ASSUME CommandLinesAssumption ==
    \A f \in CommandLines : IsCommandLine(f) /\ NamedDbs(f) \subseteq SourceDbs
ASSUME CataloguesAssumption == \A c \in Catalogues \cup OtherCatalogues : WellFormed(c)

\* QueryManager.GetUserTables: the relations that hold rows themselves.
QueryUserTables(c) == c.plain \cup Leaves(c)

\* QueryManager.GetPartitionLeafTables, as pairs of RootName and LeafName:
\* pg_partition relates a leaf to the root of its tree, pg_inherits (used from
\* version 7 on) every partition to its direct parent; the schema of the latter
\* is then written before the names of both.
QueryLeafTables(c, v) ==
    IF v >= 7 THEN {<<c.parent[t], <<c.parent[t][1], t[2]>>>> : t \in Partitions(c)}
    ELSE {<<RootOf(c, t), t>> : t \in Leaves(c)}

\* GetRootPartTables
RootsOf(leafTables) == {l[1] : l \in leafTables}

\* leafToRoot and leafTableMap, which turn such a list around: of several roots
\* of one name, the one the loop over the map comes to last stays.
LeafToRoot(leafTables) ==
    {f \in [{l[2] : l \in leafTables} -> RootsOf(leafTables)] :
        \A n \in DOMAIN f : <<f[n], n>> \in leafTables}

\* QueryWrapper.GetPartitionLeafTables keeps what it read for either side.
SrcLeafTables(d) == IF cache.src = None THEN QueryLeafTables(src[d], ver) ELSE cache.src
DestLeafTables(d) == IF cache.dest = None THEN QueryLeafTables(dst[dbMap[d]], 7) ELSE cache.dest

----------------------------------------------------------------------------
(* QueryWrapper.GetUserTables *)

\* markTables and expandPartTables: a named user table stands for itself, a
\* named root for its leaves; anything else has to be checked further.
\* (Variant: a root is not expanded.)
ExpandNothing(names, user, leafTables) ==
    [tables |-> names \cap user, pending |-> names \ user]
ExpandPartTables(names, user, leafTables) ==
    LET roots == (names \ user) \cap RootsOf(leafTables)
    IN  [tables |-> (names \cap user) \cup {l[2] : l \in {m \in leafTables : m[1] \in roots}},
         pending |-> names \ (user \cup roots)]

FilterTablesBySchema(tables) ==
    IF opt.copyMode # "schema" THEN tables
    ELSE {t \in tables : t[1] \in {opt.sourceSchemas[k][2] : k \in DOMAIN opt.sourceSchemas}}

\* SchemaExists for every --schema: a schema of the instance exists if it
\* holds a relation.
SchemaMissing(d) ==
    opt.copyMode = "schema" /\
    \E k \in DOMAIN opt.sourceSchemas :
        opt.sourceSchemas[k][2] \notin {t[1] : t \in Tables(src[d]) \cup src[d].nonPhys}

\* redirectSchemaTables, redirectIncludeTables and redirectPartitionTable.
Redirect(t) ==
    CASE opt.destSchemas # <<>> /\ opt.copyMode = "table" -> <<opt.destSchemas[1][2], t[2]>>
      [] opt.destSchemas # <<>> /\ opt.copyMode = "schema"
         /\ t[1] \in DOMAIN GetSchemaMap(opt)             -> <<GetSchemaMap(opt)[t[1]], t[2]>>
      [] OTHER                                            -> t

\* getPartitionTableMapping
PartitionTableMapping(d) ==
    {<<Redirect(l[1]), Redirect(l[2])>> :
        l \in IF opt.copyMode = "table" /\ opt.destTables # <<>> THEN DestLeafTables(d)
              ELSE SrcLeafTables(d)}

\* loadDestInventory and MarkDestTables
DestInventory(d) == QueryUserTables(dst[dbMap[d]]) \cup RootsOf(DestLeafTables(d))

\* validatePartTables: no root, nothing missing.
ValidatePartTables(tables, user) == \A k \in DOMAIN tables : <<tables[k][2], tables[k][3]>> \in user

\* excludeTablePair: pairs by position.
ExcludeTablePair(d) ==
    LET s == TablesByDb(d, opt.includedTables)
        t == TablesByDb(dbMap[d], opt.destTables)
        excl == Range(TablesByDb(d, opt.excludedTables))
    IN  {<<s[k], t[k]>> : k \in {n \in DOMAIN s : s[n] \in QueryUserTables(src[d]) \ excl}}

DestTableMode(d) == TablesByDb(dbMap[d], opt.destTables) # <<>>

DestTablesInvalid(d) ==
    /\ opt.copyMode = "table" /\ DestTableMode(d)
    /\ ~(/\ ValidatePartTables(opt.includedTables, QueryUserTables(src[d]))
         /\ ValidatePartTables(opt.excludedTables, QueryUserTables(src[d]))
         /\ ValidatePartTables(opt.destTables, QueryUserTables(dst[dbMap[d]])))

SelectedTables(d) ==
    LET user == QueryUserTables(src[d])
        excl == ExpandPartTables(Range(TablesByDb(d, opt.excludedTables)), user, SrcLeafTables(d)).tables
        incl == ExpandPartTables(Range(TablesByDb(d, opt.includedTables)), user, SrcLeafTables(d))
        same(ts) == {<<t, Redirect(t)>> : t \in ts}
    IN  CASE Changed(flags, "global-metadata-only") ->
               [NoSel EXCEPT !.pairs = {<<Tail(CbcopyTestTable), Tail(CbcopyTestTable)>>}]
          [] ~Changed(flags, "global-metadata-only") /\ opt.copyMode # "table" ->
               [pairs |-> same(FilterTablesBySchema(user) \ excl), nonPhys |-> {},
                partMap |-> PartitionTableMapping(d), parents |-> <<>>, fresh |-> cache = NoCache]
          [] opt.copyMode = "table" /\ ~Changed(flags, "global-metadata-only") /\ ~DestTableMode(d) ->
               [pairs |-> same(incl.tables \ excl),
                nonPhys |-> (incl.pending \ excl) \cap src[d].nonPhys,
                partMap |-> PartitionTableMapping(d), parents |-> <<>>, fresh |-> cache = NoCache]
          [] OTHER ->
               [pairs |-> ExcludeTablePair(d), nonPhys |-> {},
                partMap |-> PartitionTableMapping(d), parents |-> <<>>, fresh |-> cache = NoCache]

----------------------------------------------------------------------------
(* The two filters of --skip-existing and the extracted DDL. *)

SkipExisting == Changed(flags, "skip-existing")

IsDestTableExisting(d, t) == t \in inv[dbMap[d]]

\* filterTablePairsByDestExisting: a pair goes if its table, or the root that
\* partNameMap gives for it, is on the destination.
\* (Variant: the root is not looked at.)
PairExistsItself(d, pair, leafToRoot) == IsDestTableExisting(d, pair[2])
PairExists(d, pair, leafToRoot) ==
    \/ IsDestTableExisting(d, pair[2])
    \/ pair[2] \in DOMAIN leafToRoot /\ IsDestTableExisting(d, leafToRoot[pair[2]])

FilterTablePairs(d, leafToRoot) ==
    IF SkipExisting THEN {p \in sel.pairs : ~PairExists(d, p, leafToRoot)} ELSE sel.pairs

\* collectTablesAndSchemas: a partition stands for its parent.
IncludeTables ==
    {IF p[1] \in DOMAIN sel.parents THEN sel.parents[p[1]] ELSE p[1] : p \in sel.pairs}
        \cup sel.nonPhys

\* The user table relations extractDDL asks for.  Without included relations
\* there is no filter on relations.
DdlTables(d) ==
    CASE opt.copyMode = "table" /\ IncludeTables # {} -> Tables(src[d]) \cap IncludeTables
      [] opt.copyMode = "schema"                      -> FilterTablesBySchema(Tables(src[d]))
      [] OTHER                                        -> Tables(src[d])

\* TranslateToDestFQN knows the schema map only.
TranslateToDest(t) ==
    IF opt.sourceSchemas # <<>> /\ t[1] \in DOMAIN GetSchemaMap(opt)
    THEN <<GetSchemaMap(opt)[t[1]], t[2]>> ELSE t

\* The panic of GetSchemaMap, which FilterTablesByDestExisting calls for every
\* table outside of a partition tree and every root.
TranslatePanics(d) ==
    /\ SkipExisting /\ SchemaMapPanics(opt)
    /\ DdlTables(d) \ Partitions(src[d]) # {}

\* walkToRoot within the tables of the plan; the trees have two levels.
WalkToRoot(d, t) ==
    LET parent == src[d].parent
    IN  IF t \notin DOMAIN parent THEN t
        ELSE IF parent[t] \in DdlTables(d) /\ parent[t] \in DOMAIN parent THEN parent[parent[t]]
        ELSE parent[t]

\* FilterTablesByDestExisting: the tables it drops; the root decides.
DdlSkipped(d) ==
    IF ~SkipExisting THEN {}
    ELSE LET roots == {r \in DdlTables(d) \ Partitions(src[d]) :
                          IsDestTableExisting(d, TranslateToDest(r))}
         IN  {t \in DdlTables(d) : WalkToRoot(d, t) \in roots}

\* A leaf that is on the destination although its root is not.
HalfBuilt(d) ==
    IF ~SkipExisting \/ ver < 7 THEN {}
    ELSE {t \in (DdlTables(d) \cap Leaves(src[d])) \ DdlSkipped(d) :
             IsDestTableExisting(d, TranslateToDest(t))}

\* recordSkip, RecordPairSkip
PairSkips(d, leafToRoot) ==
    {[db |-> dbMap[d], rel |-> p[2], reason |-> "exists"] :
        p \in sel.pairs \ FilterTablePairs(d, leafToRoot)}
DdlSkips(d) ==
    {[db |-> dbMap[d], rel |-> TranslateToDest(t),
      reason |-> IF t \in Partitions(src[d]) THEN "root_exists" ELSE "exists"] : t \in DdlSkipped(d)}
    \cup {[db |-> dbMap[d], rel |-> TranslateToDest(t), reason |-> "half_built_leaf"] : t \in HalfBuilt(d)}

\* A partition in another schema than its root.
Strays(c, t) == t \in Partitions(c) /\ t[1] # RootOf(c, t)[1]

\* The relations the DDL creates, under their names on the destination.  From
\* version 7 on every partition has its own CREATE TABLE.  Before, the one of
\* the root creates them all, in the schema of the root, and ALTER TABLE ... SET
\* SCHEMA, whose second name is not redirected, moves those that stray.
Created(d) ==
    LET kept == DdlTables(d) \ DdlSkipped(d)
        with == {t \in Tables(src[d]) : RootOf(src[d], t) \in kept}
    IN  IF ver >= 7 THEN {Redirect(t) : t \in kept}
        ELSE {IF Strays(src[d], t) THEN t ELSE Redirect(t) : t \in with}

\* FormUserTableMap keys the pairs by their destination: of two pairs with the
\* same destination, either may come last.
TableMaps(pairs) ==
    {m \in SUBSET pairs : /\ {p[2] : p \in m} = {p[2] : p \in pairs}
                          /\ \A p, q \in m : p[2] = q[2] => p = q}

\* needGlobalMetaData
\* (Variant: the first round of the loop counts, even if it ended in "continue".)
NeedGlobalInFirstRound ==
    \/ Changed(flags, "with-global-metadata")
    \/ opt.copyMode = "full" /\ Cardinality(todo) = Cardinality(DOMAIN dbMap) - 1
NeedGlobalMetaData == Changed(flags, "with-global-metadata") \/ (opt.copyMode = "full" /\ i = 0)

----------------------------------------------------------------------------
(* GetDbNameMap *)

SourceDbnames ==
    CASE opt.copyMode = "full"   -> ListOf(DOMAIN src \ excludedDb)
      [] opt.copyMode = "db"     -> opt.sourceDbnames
      [] opt.copyMode = "schema" -> <<opt.sourceSchemas[1][1]>>
      [] OTHER                   -> <<opt.includedTables[1][1]>>

DestDbnames ==
    CASE opt.copyMode = "db" /\ opt.destDbnames # <<>>   -> opt.destDbnames
      [] opt.copyMode = "table" /\ opt.destTables # <<>> -> <<opt.destTables[1][1]>>
      [] opt.copyMode = "table" /\ opt.destTables = <<>> /\ opt.destDbnames # <<>> -> opt.destDbnames
      [] opt.copyMode \in {"schema", "table"} /\ opt.destTables = <<>> /\ opt.destDbnames = <<>>
         /\ opt.destSchemas # <<>>                       -> <<opt.destSchemas[1][1]>>
      [] OTHER                                           -> SourceDbnames

----------------------------------------------------------------------------
(* The program *)

Init ==
    /\ flags \in CommandLines
    /\ phase = "flags" /\ reason = None
    /\ opt = None /\ ver = None /\ src = None /\ dst = None /\ dbMap = None
    /\ todo = {} /\ cur = None /\ i = 0
    /\ cache = NoCache /\ inv = <<>> /\ sel = NoSel
    /\ mapped = FALSE /\ skips = {} /\ results = <<>>

\* gplog.Fatal, or a panic that doTeardown recovers.
Fatal(why) == phase' = "fatal" /\ reason' = why

\* doFlagValidation, then the part of doSetup that needs no connection.
Setup ==
    /\ phase = "flags"
    /\ \/ /\ ~ValidateAll(flags) /\ Fatal("flags")
          /\ UNCHANGED <<flags, opt>>
       \/ /\ ValidateAll(flags) /\ OptionError(SetupFlags(flags)) /\ Fatal("option")
          /\ UNCHANGED <<flags, opt>>
       \/ /\ ValidateAll(flags) /\ ~OptionError(SetupFlags(flags))
          /\ flags' = SetupFlags(flags) /\ opt' = NewOption(SetupFlags(flags))
          /\ phase' = "connect" /\ UNCHANGED reason
    /\ UNCHANGED <<ver, src, dst, dbMap, todo, cur, i, cache, inv, sel, mapped, skips, results>>

\* The clusters answer, and CreateTestTable runs for --global-metadata-only.
\* The contents of the destination matter only where the code looks at them.
Connect ==
    /\ phase = "connect"
    /\ \E c \in Catalogues, o \in OtherCatalogues, v \in {6, 7},
          e \in IF SkipExisting \/ opt.destTables # <<>> THEN DestCatalogues
                ELSE {[plain |-> {}, parent |-> <<>>, nonPhys |-> {}]} :
          /\ ver' = v
          /\ src' = [d \in SourceDbs |->
                        CASE d = "d1" -> c
                          [] d # "d1" /\ Changed(flags, "global-metadata-only") ->
                               [o EXCEPT !.plain = @ \cup {Tail(CbcopyTestTable)}]
                          [] OTHER -> o]
          /\ dst' = [d \in {"d1", "postgres", "e1", "e2"} |-> e]
    /\ phase' = "names"
    /\ UNCHANGED <<flags, reason, opt, dbMap, todo, cur, i, cache, inv, sel, mapped, skips, results>>

NameDatabases ==
    /\ phase = "names"
    /\ \/ Len(SourceDbnames) # Len(DestDbnames) /\ Fatal("dbnames") /\ UNCHANGED <<dbMap, todo>>
       \/ /\ Len(SourceDbnames) = Len(DestDbnames)
          /\ dbMap' = [d \in Range(SourceDbnames) |->
                          DestDbnames[CHOOSE k \in DOMAIN SourceDbnames : SourceDbnames[k] = d]]
          /\ todo' = Range(SourceDbnames)
          /\ phase' = "loop" /\ UNCHANGED reason
    /\ UNCHANGED <<fixed, opt, cur, i, cache, inv, sel, mapped, skips, results>>

\* One round of the loop over dbMap, whose order is arbitrary, up to the
\* "continue" for a database with nothing to copy.  That "continue" leaves the
\* caches as they are.
SelectTables(d) ==
    LET looked == ~Changed(flags, "global-metadata-only")
        loads == looked /\ (SkipExisting \/ (opt.copyMode = "table" /\ DestTableMode(d)))
        s == SelectedTables(d)
    IN  /\ phase = "loop" /\ d \in todo
        /\ todo' = todo \ {d}
        /\ \/ /\ looked /\ SchemaMissing(d) /\ Fatal("schema") /\ UNCHANGED <<cur, cache, inv, sel>>
           \/ /\ looked /\ DestTablesInvalid(d) /\ Fatal("tables") /\ UNCHANGED <<cur, cache, inv, sel>>
           \/ /\ ~(looked /\ (SchemaMissing(d) \/ DestTablesInvalid(d)))
              /\ cache' = [src |-> IF looked THEN SrcLeafTables(d) ELSE cache.src,
                           dest |-> IF loads THEN DestLeafTables(d) ELSE cache.dest]
              /\ inv' = IF loads THEN Put(inv, dbMap[d], DestInventory(d))
                        ELSE Put(inv, dbMap[d], {})
              /\ IF s.pairs = {} /\ s.nonPhys = {}
                 THEN phase' = "loop" /\ UNCHANGED <<cur, sel>>
                 ELSE phase' = "selected" /\ cur' = d /\ sel' = s
              /\ UNCHANGED reason
        /\ UNCHANGED <<fixed, opt, dbMap, i, mapped, skips, results>>

\* The pair filter, then the arguments of NewMetadataManager: GetTablespaceMap
\* puts --dest-tablespace into a map that has to be empty.  The leafTableMap
\* collectTablesAndSchemas is going to use is chosen here.
Prepare ==
    /\ phase = "selected"
    /\ \E leafToRoot \in IF SkipExisting THEN LeafToRoot(sel.partMap) ELSE {<<>>},
          leafTableMap \in LeafToRoot(SrcLeafTables(cur)) :
          /\ skips' = skips \cup PairSkips(cur, leafToRoot)
          /\ sel' = [pairs |-> FilterTablePairs(cur, leafToRoot), nonPhys |-> sel.nonPhys,
                     partMap |-> sel.partMap, parents |-> leafTableMap, fresh |-> sel.fresh]
    /\ IF Changed(flags, "dest-tablespace") /\ mapped
       THEN Fatal("tablespace") /\ UNCHANGED mapped
       ELSE /\ mapped' = Changed(flags, "dest-tablespace")
            /\ phase' = "prepared" /\ UNCHANGED reason
    /\ UNCHANGED <<fixed, opt, dbMap, todo, cur, i, cache, inv, results>>

\* MigrateMetadata, the copy, RestorePostMetadata and Close; then ResetCache.
Migrate ==
    LET extracts == ContainsMetadata(flags) /\ ~(opt.copyMode = "table" /\ opt.destTables # <<>>)
    IN  /\ phase = "prepared"
        /\ \/ /\ extracts /\ TranslatePanics(cur) /\ Fatal("schemaMap")
              /\ UNCHANGED <<cur, i, cache, sel, skips, results>>
           \/ /\ ~(extracts /\ TranslatePanics(cur))
              /\ \E m \in IF extracts THEN TableMaps(sel.pairs) ELSE {sel.pairs} :
                    results' = Put(results, cur,
                                   [copied |-> IF Changed(flags, "metadata-only") THEN {} ELSE m,
                                    created |-> IF extracts THEN Created(cur) ELSE {},
                                    global |-> extracts /\ NeedGlobalMetaData,
                                    fresh |-> sel.fresh])
              /\ skips' = skips \cup IF extracts THEN DdlSkips(cur) ELSE {}
              /\ cache' = NoCache /\ i' = i + 1
              /\ phase' = "loop" /\ cur' = None /\ sel' = NoSel /\ UNCHANGED reason
        /\ UNCHANGED <<fixed, opt, dbMap, todo, inv, mapped>>

\* WriteSkipExistingList: dedupByDestFQN keeps the most telling reason.
Score(r) == CASE r = "half_built_leaf" -> 3 [] r = "root_exists" -> 2 [] OTHER -> 1
Dedup(list) ==
    {s \in list : \A t \in list : t.db = s.db /\ t.rel = s.rel => Score(t.reason) <= Score(s.reason)}
Summary ==
    /\ phase = "loop" /\ todo = {}
    /\ phase' = "done" /\ skips' = Dedup(skips)
    /\ UNCHANGED <<fixed, reason, opt, dbMap, todo, cur, i, cache, inv, sel, mapped, results>>

Ended == phase \in {"done", "fatal"} /\ UNCHANGED vars

Next ==
    \/ Setup \/ Connect \/ NameDatabases
    \/ \E d \in todo : SelectTables(d)
    \/ Prepare \/ Migrate \/ Summary \/ Ended

Spec == Init /\ [][Next]_vars

----------------------------------------------------------------------------
(* What was asked for, read off the catalogue without caches or versions. *)

Ancestors(c, t) ==
    IF t \notin Partitions(c) THEN {} ELSE {c.parent[t], RootOf(c, t)}

\* The tables with rows that a list of names stands for: a root stands for the
\* leaves of its tree.
Under(c, names) ==
    {t \in QueryUserTables(c) : t \in names \/ (t \in Partitions(c) /\ RootOf(c, t) \in names)}

Wanted(d) ==
    (IF NamesTables(flags) THEN Under(src[d], Range(TablesByDb(d, opt.includedTables)))
     ELSE FilterTablesBySchema(QueryUserTables(src[d])))
    \ Under(src[d], Range(TablesByDb(d, opt.excludedTables)))

DestOf(t) ==
    IF opt.destTables = <<>> THEN Redirect(t)
    ELSE LET k == CHOOSE k \in DOMAIN opt.includedTables :
                     <<opt.includedTables[k][2], opt.includedTables[k][3]>> = t
         IN  <<opt.destTables[k][2], opt.destTables[k][3]>>

Present(d, t) ==
    LET there == Tables(dst[dbMap[d]])
    IN  DestOf(t) \in there \/ (t \in Partitions(src[d]) /\ Redirect(RootOf(src[d], t)) \in there)

\* A tree of several levels, and one that spreads over several schemas.
MultiLevel(c) == \E t \in Partitions(c) : c.parent[t] \in Partitions(c)
SplitTree(c) == \E t \in Partitions(c) : t[1] # c.parent[t][1]

\* From version 7 on the leaf list gives the direct parent for the root, and the
\* schema of the parent for that of the leaf.
LeafListOff(d) == ver >= 7 /\ (MultiLevel(src[d]) \/ SplitTree(src[d]))

\* Two tables of the database are one table on the destination.
SharesName(d, t) == \E u \in QueryUserTables(src[d]) : t # u /\ Redirect(t) = Redirect(u)
Collide(d) == \E t \in Wanted(d) : SharesName(d, t)

\* An --include-table-file without a line.
NothingListed == Changed(flags, "include-table-file") /\ opt.includedTables = <<>>

\* The loop of doCopy copies exactly the tables asked for: those of the mode,
\* with a root standing for all its leaves, without the excluded ones and,
\* under --skip-existing, without those whose table or root is on the
\* destination, which are listed in skip_existing.list instead.  When two
\* tables are redirected to one, nothing is copied that was not asked for, but
\* only one of the two survives in the table map, and the root of the one may
\* decide for the other.  The exceptions are a leaf list that another database
\* left in the cache; a leaf list that is off (from version 7 on, for trees of
\* several levels or several schemas); and an empty --include-table-file, with
\* which everything is copied, although the README promises "Copy only the
\* specified table(s) listed in the file" and an empty --include-table is
\* refused.
SelectionExact ==
    \A d \in DOMAIN results :
        /\ results[d].fresh /\ ~Changed(flags, "metadata-only")
        /\ ~LeafListOff(d) /\ ~NothingListed
        => LET copied == {p[1] : p \in results[d].copied}
               due == {t \in Wanted(d) : ~(SkipExisting /\ Present(d, t))}
           IN  /\ copied \subseteq Wanted(d)
               /\ ~Collide(d) =>
                     /\ copied = due
                     /\ phase = "done" =>
                          \A t \in Wanted(d) \ due : \E s \in skips :
                              s.db = dbMap[d] /\ (opt.destTables = <<>> => s.rel = Redirect(t))

\* Every table a worker is told to copy into exists on the destination by the
\* time, because it was there or because the extracted DDL creates it.  Left
\* out: --data-only (the tables are the user's business); from version 7 on a
\* partition named by --include-table (only its parent is created), or a root
\* with partitions in other schemas (their names are wrong); before version 7 a
\* partition in another schema than its root, with --schema (nobody creates
\* it) or --dest-schema (it is moved to the schema it came from); and
\* --skip-existing where its two filters disagree: with --include-table and
\* --dest-schema, after a stale cache, for trees of several levels or schemas,
\* and for two tables that are redirected to one.
DestinationReady ==
    \A d \in DOMAIN results : \A p \in results[d].copied :
        \/ p[2] \in Tables(dst[dbMap[d]]) \cup results[d].created
        \/ ~ContainsMetadata(flags)
        \/ /\ opt.copyMode = "table" /\ ver >= 7
           /\ p[1] \in Partitions(src[d]) \/ SplitTree(src[d])
        \/ /\ ver < 7 /\ Strays(src[d], p[1])
           /\ opt.copyMode = "schema" \/ opt.destSchemas # <<>>
        \/ SkipExisting /\ ( \/ opt.copyMode = "table" /\ opt.destSchemas # <<>>
                             \/ ~results[d].fresh
                             \/ LeafListOff(d)
                             \/ SharesName(d, p[1]))

\* The global objects (roles, resource groups, ...) of a --full copy are restored
\* with exactly one database, the first that has tables, whatever the order of
\* the loop and however many empty databases come before it: the validators
\* refuse --with-global-metadata, which would bring them with every database.
GlobalsOnce ==
    phase = "done" /\ Changed(flags, "full") /\ ContainsMetadata(flags) /\ DOMAIN results # {} =>
        Cardinality({d \in DOMAIN results : results[d].global}) = 1

\* A command line the validators accept is not given up later on, except for a
\* name that is missing in a database, two --dest-dbname for the one database
\* of --include-table, --dest-tablespace with a second database, and
\* --skip-existing with --schema and no --dest-schema.
FatalsExplained ==
    phase = "fatal" /\ reason \notin {"flags", "option"} =>
        CASE reason = "dbnames"    -> opt.copyMode = "table" /\ Len(opt.destDbnames) > 1
          [] reason = "schema"     -> \E d \in DOMAIN dbMap : SchemaMissing(d)
          [] reason = "tables"     -> \E d \in DOMAIN dbMap : DestTablesInvalid(d)
          [] reason = "tablespace" -> i > 0 /\ opt.copyMode \in {"full", "db"}
          [] reason = "schemaMap"  -> SkipExisting /\ opt.copyMode = "schema" /\ opt.destSchemas = <<>>
          [] OTHER                 -> FALSE

\* --include-table: "Copy only the specified table(s)".  No relation is created
\* on the destination that is not a named one, a part of it or its parent.
OnlyNamedCreated ==
    \A d \in DOMAIN results : opt.copyMode = "table" =>
        LET named == Range(TablesByDb(d, opt.includedTables))
        IN  results[d].created \subseteq
                {Redirect(t) : t \in {u \in Tables(src[d]) :
                    \E l \in Under(src[d], named) : u = l \/ u \in Ancestors(src[d], l)}}

\* --exclude-table: "Copy all tables except the specified table(s)".
ExcludedNotCopied ==
    \A d \in DOMAIN results : \A p \in results[d].copied :
        p[1] \notin Under(src[d], Range(TablesByDb(d, opt.excludedTables)))

=============================================================================
