------------------------ MODULE DatabaseLoop_proofs -------------------------
(***************************************************************************)
(* Proofs about the loop of doCopy: the invariants of DatabaseLoop hold    *)
(* for every set of command lines and of catalogues.                       *)
(***************************************************************************)
EXTENDS DatabaseLoop, FiniteSetTheorems, TLAPS

\* Every leaf that names no prover is for Zenon.
USE Zenon

----------------------------------------------------------------------------
(* Counting *)

\* A set of at most one element does not hold two.
LEMMA AtMostOne ==
  ASSUME NEW S, IsFiniteSet(S), Cardinality(S) <= 1, NEW a \in S, NEW b \in S
  PROVE  a = b
<1> SUFFICES ASSUME a # b PROVE FALSE
  OBVIOUS
<1>1. IsFiniteSet({a}) /\ Cardinality({a}) = 1
  BY FS_Singleton
<1>2. Cardinality({a} \cup {b}) = 2
  <2>1. Cardinality({a} \cup {b}) = IF b \in {a} THEN Cardinality({a}) ELSE Cardinality({a}) + 1
    BY <1>1, FS_AddElement
  <2> QED
    BY SMTT(30), <1>1, <2>1
<1>3. ({a} \cup {b}) \in SUBSET S
  OBVIOUS
<1>4. 2 <= Cardinality(S) /\ Cardinality(S) \in Nat
  BY SMTT(30), <1>2, <1>3, FS_Subset, FS_CardinalityType
<1> QED
  BY SMTT(30), <1>4

\* Two flags of an exclusive group are not given together.
LEMMA Exclusive ==
  ASSUME NEW f, IsFiniteSet(f.set), ValidateExclusiveFlags(f),
         NEW g \in ExclusiveGroups, NEW a \in g, NEW b \in g, a # b
  PROVE  ~(Changed(f, a) /\ Changed(f, b))
<1>1. IsFiniteSet(f.set \cap g) /\ Cardinality(f.set \cap g) <= 1
  BY FS_Intersection DEF ValidateExclusiveFlags
<1> QED
  BY <1>1, AtMostOne DEF Changed

\* The names validateTables and validateSchemas accept are of one database.
LEMMA SameDatabase ==
  ASSUME NEW S, NEW names \in Seq(S), OneDatabase(names), NEW j \in DOMAIN names, NEW k \in DOMAIN names
  PROVE  names[j][1] = names[k][1]
<1> DEFINE dbs == {names[n][1] : n \in DOMAIN names}
           g == [n \in DOMAIN names |-> names[n][1]]
<1>1. Len(names) \in Nat /\ DOMAIN names = 1 .. Len(names)
  BY SMTT(30)
<1>2. IsFiniteSet(DOMAIN names)
  BY SMTT(30), <1>1, FS_Interval
<1>3. g \in Surjection(DOMAIN names, dbs)
  BY DEF Surjection
<1>4. IsFiniteSet(dbs)
  BY <1>2, <1>3, FS_Surjection
<1>5. Cardinality(dbs) <= 1
  BY DEF OneDatabase
<1>6. names[j][1] \in dbs /\ names[k][1] \in dbs
  OBVIOUS
<1> HIDE DEF dbs
<1> QED
  BY SMTT(30), <1>4, <1>5, <1>6, AtMostOne

\* getTablesByDb leaves a list of one database as it is, up to the database.
LEMMA AllByDb ==
  ASSUME NEW tables \in Seq(DbTable), NEW db, \A k \in DOMAIN tables : tables[k][1] = db
  PROVE  TablesByDb(db, tables) = [k \in 1 .. Len(tables) |-> <<tables[k][2], tables[k][3]>>]
<1> DEFINE mine == {x \in DOMAIN tables : tables[x][1] = db}
           upTo(x) == {j \in mine : j <= x}
           nth(k) == CHOOSE x \in mine : Cardinality(upTo(x)) = k
<1>1. Len(tables) \in Nat /\ mine = 1 .. Len(tables)
  BY SMTT(30)
<1>i. \A n \in Nat : Cardinality(1 .. n) = n
  <2> SUFFICES ASSUME NEW n \in Nat PROVE Cardinality(1 .. n) = n
    OBVIOUS
  <2>1. 1 \in Int /\ n \in Int
    BY SMTT(30)
  <2>2. Cardinality(1 .. n) = IF 1 > n THEN 0 ELSE n - 1 + 1
    BY <2>1, FS_Interval
  <2> QED
    BY SMTT(30), <2>2
<1>2. Cardinality(mine) = Len(tables)
  BY <1>1, <1>i
<1>3. ASSUME NEW x \in mine
      PROVE  Cardinality(upTo(x)) = x
  <2>1. upTo(x) = 1 .. x
    BY SMTT(30), <1>1, <1>3
  <2>2. x \in Nat
    BY SMTT(30), <1>1
  <2>3. Cardinality(1 .. x) = x
    BY <1>i, <2>2
  <2> QED
    BY <2>1, <2>3
<1>4. ASSUME NEW k \in 1 .. Len(tables)
      PROVE  nth(k) = k
  BY <1>1, <1>3, <1>4
<1> HIDE DEF nth
<1>5. TablesByDb(db, tables) = [k \in 1 .. Cardinality(mine) |-> <<tables[nth(k)][2], tables[nth(k)][3]>>]
  BY DEF TablesByDb, nth
<1> QED
  BY <1>2, <1>4, <1>5

\* getTablesByDb finds nothing in a list of another database.
LEMMA NoneByDb ==
  ASSUME NEW tables, NEW db, \A k \in DOMAIN tables : tables[k][1] # db
  PROVE  Range(TablesByDb(db, tables)) = {}
<1> DEFINE mine == {x \in DOMAIN tables : tables[x][1] = db}
           nth(k) == CHOOSE x \in mine : Cardinality({j \in mine : j <= x}) = k
<1>1. mine = {}
  OBVIOUS
<1>2. Cardinality(mine) = 0
  BY <1>1, FS_EmptySet
<1> HIDE DEF nth
<1>3. TablesByDb(db, tables) = [k \in 1 .. Cardinality(mine) |-> <<tables[nth(k)][2], tables[nth(k)][3]>>]
  BY DEF TablesByDb, nth
<1>4. DOMAIN TablesByDb(db, tables) = {}
  BY SMTT(30), <1>2, <1>3
<1> QED
  BY <1>4 DEF Range

\* So what getTablesByDb finds in a list of one database is in the list.
LEMMA FoundByDb ==
  ASSUME NEW tables \in Seq(DbTable), OneDatabase(tables), NEW db,
         NEW t \in Range(TablesByDb(db, tables))
  PROVE  \E k \in DOMAIN tables : t = <<tables[k][2], tables[k][3]>>
<1>1. PICK k \in DOMAIN tables : tables[k][1] = db
  BY NoneByDb
<1>2. \A j \in DOMAIN tables : tables[j][1] = db
  BY <1>1, SameDatabase
<1>3. TablesByDb(db, tables) = [j \in 1 .. Len(tables) |-> <<tables[j][2], tables[j][3]>>]
  BY <1>2, AllByDb
<1> QED
  BY SMTT(30), <1>3 DEF Range

----------------------------------------------------------------------------
(* The option a validated command line leads to *)

\* What the rest of the program may rely on once the flags were validated and
\* NewOption made an option of them.
OptionFacts(f, o) ==
    /\ o.copyMode \in {"full", "db", "schema", "table"}
    /\ o.sourceDbnames \in Seq(STRING) /\ o.destDbnames \in Seq(STRING)
    /\ o.destTables \in Seq(DbTable) /\ o.excludedTables \in Seq(DbTable)
    /\ o.sourceSchemas \in Seq(DbSchema) /\ o.destSchemas \in Seq(DbSchema)
    /\ o.copyMode = "db" => Range(o.sourceDbnames) \subseteq SourceDbs
    /\ o.copyMode = "db" /\ o.destDbnames # <<>> => Len(o.destDbnames) = Len(o.sourceDbnames)
    /\ o.copyMode = "schema" <=> o.sourceSchemas # <<>>
    /\ o.copyMode = "schema" => o.sourceSchemas[1][1] \in SourceDbs
    /\ o.copyMode = "table" <=> o.includedTables # <<>>
    /\ o.copyMode = "table" => o.includedTables[1][1] \in SourceDbs
    /\ o.copyMode = "table" => NamesTables(f)
    /\ NamesTables(f) /\ o.copyMode # "table" =>
          Changed(f, "include-table-file") /\ o.includedTables = <<>>
    /\ o.destTables # <<>> => /\ o.copyMode = "table" /\ o.includedTables \in Seq(DbTable)
                              /\ Len(o.includedTables) = Len(o.destTables)
                              /\ ~ArrayIsDuplicated(o.includedTables)
    /\ OneDatabase(o.includedTables) /\ OneDatabase(o.destTables) /\ OneDatabase(o.excludedTables)
    /\ SchemaMapPanics(o) => o.copyMode = "schema" /\ o.destSchemas = <<>>
    /\ Changed(f, "full") => o.copyMode = "full" /\ ~Changed(f, "with-global-metadata")
    /\ Changed(f, "global-metadata-only") => Changed(f, "metadata-only")

\* Of the flags that choose what is copied only one is given, and --full goes
\* without --with-global-metadata.
LEMMA OneCopyMode ==
  ASSUME NEW f, IsCommandLine(f), ValidateAll(f)
  PROVE  /\ f.schema # <<>> => f.include = <<>> /\ f.mapping = <<>>
         /\ f.mapping # <<>> => f.include = <<>>
         /\ Changed(f, "global-metadata-only") =>
               /\ f.schema = <<>> /\ f.mapping = <<>> /\ f.include = <<>> /\ f.dest = <<>>
               /\ ~Changed(f, "full")
         /\ Changed(f, "full") =>
               /\ f.include = <<>> /\ f.schema = <<>> /\ f.mapping = <<>> /\ f.dbname = <<>>
               /\ ~Changed(f, "with-global-metadata")
<1>1. IsFiniteSet(f.set) /\ ValidateExclusiveFlags(f)
  BY DEF IsCommandLine, ValidateAll
<1>2. /\ CopyModeFlags \in ExclusiveGroups
      /\ {"full", "with-global-metadata"} \in ExclusiveGroups
      /\ {"dest-table", "dest-table-file"} \cup {"metadata-jobs", "global-metadata-only"} \in ExclusiveGroups
  BY DEF ExclusiveGroups
<1>3. \A a, b \in CopyModeFlags : a # b => ~(Changed(f, a) /\ Changed(f, b))
  BY <1>1, <1>2, Exclusive
<1>4. ~(Changed(f, "full") /\ Changed(f, "with-global-metadata"))
  BY <1>1, <1>2, Exclusive
<1>5. \A a \in {"dest-table", "dest-table-file"} : ~(Changed(f, a) /\ Changed(f, "global-metadata-only"))
  BY <1>1, <1>2, Exclusive
<1>6. /\ f.dbname # <<>> => Changed(f, "dbname")
      /\ f.schema # <<>> => Changed(f, "schema")
      /\ f.mapping # <<>> => Changed(f, "schema-mapping-file")
      /\ f.include # <<>> => Changed(f, "include-table") \/ Changed(f, "include-table-file")
      /\ f.dest # <<>> => Changed(f, "dest-table") \/ Changed(f, "dest-table-file")
  BY DEF IsCommandLine, NamesTables
<1> QED
  BY <1>3, <1>4, <1>5, <1>6 DEF CopyModeFlags

\* What ValidateAll and NewOption establish together.
LEMMA OptionSound ==
  ASSUME NEW f, IsCommandLine(f), NamedDbs(f) \subseteq SourceDbs, ValidateAll(f),
         ~OptionError(SetupFlags(f))
  PROVE  OptionFacts(SetupFlags(f), NewOption(SetupFlags(f)))
<1> DEFINE g == SetupFlags(f)
           o == NewOption(g)
<1>1. f \in CommandLine
  BY DEF IsCommandLine
<1>2. /\ g.dbname = f.dbname /\ g.destDbname = f.destDbname /\ g.schema = f.schema
      /\ g.destSchema = f.destSchema /\ g.mapping = f.mapping /\ g.dest = f.dest /\ g.exclude = f.exclude
      /\ g.include = IF Changed(f, "global-metadata-only") THEN Append(f.include, CbcopyTestTable) ELSE f.include
      /\ Changed(g, "full") <=> Changed(f, "full")
      /\ ~Changed(f, "global-metadata-only") => g = f
      /\ Changed(g, "global-metadata-only") => Changed(g, "metadata-only")
  BY <1>1 DEF SetupFlags, MakeIncludeOptions, CommandLine, Changed
<1>3. /\ f.dbname \in Seq(STRING) /\ f.destDbname \in Seq(STRING)
      /\ f.schema \in Seq(DbSchema) /\ f.destSchema \in Seq(DbSchema)
      /\ f.mapping \in Seq(DbSchema \X DbSchema)
      /\ f.include \in Seq(DbTable) /\ f.dest \in Seq(DbTable) /\ f.exclude \in Seq(DbTable)
  BY <1>1 DEF CommandLine
<1> HIDE DEF g
<1>4. /\ ~Changed(f, "global-metadata-only") => g.include = f.include
      /\ Changed(f, "global-metadata-only") => g.include = <<CbcopyTestTable>>
  <2>1. Append(<<>>, CbcopyTestTable) = <<CbcopyTestTable>>
    BY SMTT(30)
  <2> QED
    BY <1>2, <2>1, OneCopyMode
<1>5. Changed(f, "global-metadata-only") => g.include # <<>> /\ g.include[1][1] \in SourceDbs
  BY SMTT(30), <1>4 DEF CbcopyTestTable, SourceDbs
<1>6. g.include # <<>> => g.include[1][1] \in SourceDbs
  <2>1. f.include # <<>> => f.include[1][1] \in SourceDbs
    BY SMTT(30), <1>3 DEF NamedDbs
  <2> QED
    BY <1>4, <1>5, <2>1
<1>7. /\ SourceSchemas(g) \in Seq(DbSchema) /\ DestSchemas(g) \in Seq(DbSchema)
      /\ SourceSchemas(g) # <<>> => SourceSchemas(g)[1][1] \in SourceDbs /\ g.include = <<>>
      /\ Len(SourceSchemas(g)) > Len(DestSchemas(g)) => SourceSchemas(g) # <<>> /\ DestSchemas(g) = <<>>
      /\ Changed(f, "full") => SourceSchemas(g) = <<>>
  <2>1. CASE f.schema # <<>>
    <3>1. SourceSchemas(g) = f.schema /\ DestSchemas(g) = f.destSchema
      BY <1>2, <2>1 DEF SourceSchemas, DestSchemas
    <3>2. f.schema[1][1] \in SourceDbs
      BY SMTT(30), <1>3, <2>1 DEF NamedDbs
    <3>3. g.include = <<>> /\ ~Changed(f, "full")
      BY <1>4, <2>1, OneCopyMode
    <3>4. Len(f.schema) > Len(f.destSchema) => f.destSchema = <<>>
      BY SMTT(30), <1>3, <2>1 DEF ValidateAll, ValidateSchema
    <3> QED
      BY <1>3, <2>1, <3>1, <3>2, <3>3, <3>4
  <2>2. CASE f.schema = <<>> /\ f.mapping # <<>>
    <3> DEFINE ss == [x \in DOMAIN f.mapping |-> f.mapping[x][1]]
               ds == [x \in DOMAIN f.mapping |-> f.mapping[x][2]]
    <3>1. SourceSchemas(g) = ss /\ DestSchemas(g) = ds
      BY <1>2, <2>2 DEF SourceSchemas, DestSchemas
    <3>2. Len(f.mapping) \in Nat /\ DOMAIN f.mapping = 1 .. Len(f.mapping) /\ 1 \in DOMAIN f.mapping
      BY SMTT(30), <1>3, <2>2
    <3>3. \A x \in DOMAIN f.mapping : f.mapping[x][1] \in DbSchema /\ f.mapping[x][2] \in DbSchema
      BY SMTT(30), <1>3
    <3>4. ss \in Seq(DbSchema) /\ Len(ss) = Len(f.mapping)
      BY SMTT(30), <3>2, <3>3
    <3>5. ds \in Seq(DbSchema) /\ Len(ds) = Len(f.mapping)
      BY SMTT(30), <3>2, <3>3
    <3>6. ss[1][1] \in SourceDbs
      BY <3>2 DEF NamedDbs
    <3>7. g.include = <<>> /\ ~Changed(f, "full")
      BY <1>4, <2>2, OneCopyMode
    <3> HIDE DEF ss, ds
    <3> QED
      BY SMTT(30), <3>1, <3>2, <3>4, <3>5, <3>6, <3>7
  <2>3. CASE f.schema = <<>> /\ f.mapping = <<>>
    <3>1. SourceSchemas(g) = <<>> /\ DestSchemas(g) = f.destSchema
      BY SMTT(30), <1>2, <2>3 DEF SourceSchemas, DestSchemas
    <3> QED
      BY SMTT(30), <1>3, <3>1
  <2> QED
    BY <2>1, <2>2, <2>3
<1>8. f.dest # <<>> => /\ g.include = f.include /\ f.include # <<>>
                       /\ Len(f.include) = Len(f.dest) /\ ~ArrayIsDuplicated(f.include)
  <2> SUFFICES ASSUME f.dest # <<>>
               PROVE  /\ g.include = f.include /\ f.include # <<>>
                      /\ Len(f.include) = Len(f.dest) /\ ~ArrayIsDuplicated(f.include)
    OBVIOUS
  <2>1. g.include = f.include
    BY <1>4, OneCopyMode
  <2>2. Len(f.dest) \in Nat \ {0}
    BY SMTT(30), <1>3
  <2>3. Changed(f, "dest-table") \/ Changed(f, "dest-table-file")
    BY DEF IsCommandLine
  <2>4. Len(f.include) = Len(f.dest) /\ ~ArrayIsDuplicated(f.include)
    <3>1. CASE Changed(f, "dest-table")
      <4>1. Changed(f, "include-table")
        BY <2>2, <3>1 DEF ValidateAll, ValidateTable, ValidateTableCombination
      <4> QED
        BY <3>1, <4>1 DEF ValidateAll, ValidateTable, ValidateTableCombination
    <3>2. CASE Changed(f, "dest-table-file")
      BY <3>2 DEF ValidateAll, ValidateTable, ValidateTableCombination
    <3> QED
      BY <2>3, <3>1, <3>2
  <2> QED
    BY <1>3, <2>1, <2>2, <2>4
<1>9. f.dbname # <<>> /\ f.destDbname # <<>> => Len(f.destDbname) = Len(f.dbname)
  BY DEF ValidateAll, ValidateDatabase
<1>10. Range(f.dbname) \subseteq SourceDbs
  BY DEF NamedDbs
<1>11. Changed(f, "full") => /\ g.include = <<>> /\ f.dbname = <<>> /\ g = f
                             /\ ~Changed(f, "with-global-metadata")
  BY <1>2, <1>4, OneCopyMode
<1>12. /\ o.sourceDbnames = f.dbname /\ o.destDbnames = f.destDbname
       /\ o.includedTables = g.include /\ o.destTables = f.dest /\ o.excludedTables = f.exclude
       /\ o.sourceSchemas = SourceSchemas(g) /\ o.destSchemas = DestSchemas(g)
       /\ o.copyMode = CopyMode(g)
  BY <1>2 DEF NewOption
<1>13. /\ CopyMode(g) \in {"full", "db", "schema", "table"}
       /\ CopyMode(g) = "table" <=> g.include # <<>>
       /\ CopyMode(g) = "schema" <=> g.include = <<>> /\ SourceSchemas(g) # <<>>
       /\ CopyMode(g) = "db" <=> g.include = <<>> /\ SourceSchemas(g) = <<>> /\ f.dbname # <<>>
  BY <1>2 DEF CopyMode
<1>14. OneDatabase(g.include) /\ OneDatabase(f.dest) /\ OneDatabase(f.exclude)
  BY <1>2 DEF OptionError, g
<1>n. /\ g.include # <<>> => NamesTables(g)
      /\ NamesTables(g) /\ g.include = <<>> => Changed(g, "include-table-file")
  <2>1. CASE Changed(f, "global-metadata-only")
    <3>1. Changed(g, "include-table")
      BY <1>1, <2>1 DEF g, SetupFlags, MakeIncludeOptions, CommandLine, Changed
    <3> QED
      BY <1>5, <2>1, <3>1 DEF NamesTables
  <2>2. CASE ~Changed(f, "global-metadata-only")
    <3>1. g = f
      BY <1>2, <2>2
    <3> QED
      BY <3>1 DEF NamesTables, IsCommandLine
  <2> QED
    BY <2>1, <2>2
<1> HIDE DEF o
<1>15. SchemaMapPanics(o) <=> Len(SourceSchemas(g)) > Len(DestSchemas(g))
  BY <1>12 DEF SchemaMapPanics
<1>16. OptionFacts(g, o)
  BY <1>2, <1>3, <1>6, <1>7, <1>8, <1>9, <1>10, <1>11, <1>12, <1>13, <1>14, <1>15, <1>n
     DEF OptionFacts
<1> QED
  BY <1>16 DEF g, o

----------------------------------------------------------------------------
(* The names of the databases *)

\* ListOf lists members of the set.
LEMMA ListOfMembers ==
  ASSUME NEW S, IsFiniteSet(S)
  PROVE  Range(ListOf(S)) \subseteq S
<1>1. \E f \in [1 .. Cardinality(S) -> S] : IsInjective(f)
  BY FS_CardinalityType DEF ExistsBijection, Bijection, Injection, IsInjective
<1>2. ListOf(S) \in [1 .. Cardinality(S) -> S]
  BY <1>1 DEF ListOf
<1> QED
  BY <1>2 DEF Range

\* GetDbNameMap: the databases are those of the source, a single one for
\* --schema and --include-table, and only with --include-table can the numbers
\* of source and destination databases differ.
LEMMA DbNames ==
  ASSUME OptionFacts(flags, opt), DOMAIN src = SourceDbs
  PROVE  /\ Range(SourceDbnames) \subseteq SourceDbs
         /\ opt.copyMode \in {"schema", "table"} => \A d, e \in Range(SourceDbnames) : d = e
         /\ Len(SourceDbnames) # Len(DestDbnames) => opt.copyMode = "table" /\ Len(opt.destDbnames) > 1
         /\ opt.destTables # <<>> => /\ SourceDbnames = <<opt.includedTables[1][1]>>
                                     /\ DestDbnames = <<opt.destTables[1][1]>>
<1>a. /\ opt.copyMode \in {"full", "db", "schema", "table"}
      /\ opt.destDbnames \in Seq(STRING)
      /\ opt.copyMode = "schema" => opt.sourceSchemas[1][1] \in SourceDbs
      /\ opt.copyMode = "table" => opt.includedTables[1][1] \in SourceDbs
      /\ opt.destTables # <<>> => opt.copyMode = "table"
  BY DEF OptionFacts
<1>1. CASE opt.copyMode = "full"
  <2>1. SourceDbnames = ListOf(SourceDbs \ excludedDb) /\ DestDbnames = SourceDbnames
    BY <1>1 DEF SourceDbnames, DestDbnames
  <2>2. IsFiniteSet(SourceDbs \ excludedDb)
    <3>1. SourceDbs = {"d1"} \cup {"postgres"}
      BY DEF SourceDbs
    <3>2. IsFiniteSet({"d1"})
      BY FS_Singleton
    <3>3. IsFiniteSet(SourceDbs)
      BY SMTT(30), <3>1, <3>2, FS_AddElement
    <3> QED
      BY <3>3, FS_Difference
  <2>3. Range(SourceDbnames) \subseteq SourceDbs
    BY <2>1, <2>2, ListOfMembers
  <2> QED
    BY <1>a, <1>1, <2>1, <2>3
<1>2. CASE opt.copyMode = "db"
  <2>1. /\ SourceDbnames = opt.sourceDbnames
        /\ DestDbnames = IF opt.destDbnames # <<>> THEN opt.destDbnames ELSE opt.sourceDbnames
    BY <1>2 DEF SourceDbnames, DestDbnames
  <2> QED
    BY <1>2, <2>1 DEF OptionFacts
<1>3. CASE opt.copyMode = "schema"
  <2>1. SourceDbnames = <<opt.sourceSchemas[1][1]>>
    BY <1>3 DEF SourceDbnames
  <2>2. Len(SourceDbnames) = 1 /\ Range(SourceDbnames) = {opt.sourceSchemas[1][1]}
    BY SMTT(30), <2>1 DEF Range
  <2>3. DestDbnames \in {SourceDbnames, <<opt.destSchemas[1][1]>>}
    BY <1>3 DEF DestDbnames
  <2>4. Len(DestDbnames) = 1
    BY <2>2, <2>3
  <2> QED
    BY <1>a, <1>3, <2>2, <2>4
<1>4. CASE opt.copyMode = "table"
  <2>1. SourceDbnames = <<opt.includedTables[1][1]>>
    BY <1>4 DEF SourceDbnames
  <2>2. Len(SourceDbnames) = 1 /\ Range(SourceDbnames) = {opt.includedTables[1][1]}
    BY SMTT(30), <2>1 DEF Range
  <2>3. opt.destTables # <<>> => DestDbnames = <<opt.destTables[1][1]>>
    BY <1>4 DEF DestDbnames
  <2>4. opt.destTables = <<>> /\ opt.destDbnames # <<>> => DestDbnames = opt.destDbnames
    BY <1>4 DEF DestDbnames
  <2>5. opt.destTables = <<>> /\ opt.destDbnames = <<>> =>
            DestDbnames \in {SourceDbnames, <<opt.destSchemas[1][1]>>}
    BY <1>4 DEF DestDbnames
  <2>6. opt.destTables # <<>> \/ opt.destDbnames = <<>> => Len(DestDbnames) = 1
    BY <2>2, <2>3, <2>5
  <2>7. Len(DestDbnames) # 1 => Len(opt.destDbnames) > 1
    <3>1. opt.destDbnames \in Seq(STRING)
      BY <1>a
    <3>2. opt.destDbnames # <<>> => Len(opt.destDbnames) \in Nat \ {0}
      BY SMTT(30), <3>1
    <3>3. Len(DestDbnames) # 1 => opt.destDbnames # <<>> /\ DestDbnames = opt.destDbnames
      BY <2>4, <2>6
    <3>4. Len(DestDbnames) # 1 => Len(opt.destDbnames) \in Nat \ {0} /\ Len(opt.destDbnames) # 1
      BY <3>2, <3>3
    <3>5. \A n \in Nat \ {0} : n # 1 => n > 1
      BY SMTT(30)
    <3> QED
      BY <3>4, <3>5
  <2> QED
    BY <1>a, <1>4, <2>1, <2>2, <2>3, <2>7
<1> QED
  BY <1>a, <1>1, <1>2, <1>3, <1>4

----------------------------------------------------------------------------
(* Where the loop is *)

Looping == {"loop", "selected", "prepared", "done"}

\* Before the loop nothing was done.
EarlyInv ==
    phase \in {"flags", "connect", "names"} =>
        i = 0 /\ results = <<>> /\ mapped = FALSE /\ cache = NoCache /\ skips = {}

\* The option is that of a validated command line.
OptionInv ==
    /\ phase = "flags" => flags \in CommandLines
    /\ phase \in {"connect", "names"} \cup Looping => OptionFacts(flags, opt)

SourceInv ==
    phase \in {"names"} \cup Looping =>
        /\ DOMAIN src = SourceDbs /\ ver \in {6, 7}
        /\ ~Changed(flags, "global-metadata-only") => \A d \in SourceDbs : WellFormed(src[d])

\* The loop visits every database once, and there is a single one with --schema
\* and --include-table.
VisitInv ==
    phase \in Looping =>
        /\ DOMAIN dbMap \subseteq SourceDbs /\ todo \subseteq DOMAIN dbMap
        /\ DOMAIN results \subseteq DOMAIN dbMap /\ DOMAIN results \cap todo = {}
        /\ phase \in {"selected", "prepared"} =>
              cur \in DOMAIN dbMap /\ cur \notin todo /\ cur \notin DOMAIN results
        /\ i \in Nat /\ (i = 0 <=> DOMAIN results = {})
        /\ opt.copyMode \in {"schema", "table"} => \A d, e \in DOMAIN dbMap : d = e
        /\ opt.destTables # <<>> =>
              \A d \in DOMAIN dbMap : d = opt.includedTables[1][1] /\ dbMap[d] = opt.destTables[1][1]

\* The tablespace map is filled by a database that was migrated, or is about to
\* be; the caches are empty for the single database of --schema or
\* --include-table.
ReuseInv ==
    /\ phase \in Looping => mapped \in BOOLEAN
    /\ phase \in {"loop", "selected", "done"} /\ mapped => i > 0
    /\ phase = "loop" /\ opt.copyMode \in {"schema", "table"} /\ todo # {} => cache = NoCache

LoopInv == EarlyInv /\ OptionInv /\ SourceInv /\ VisitInv /\ ReuseInv

\* The invariant holds initially.
LEMMA LoopInit == Init => LoopInv
BY DEF Init, LoopInv, EarlyInv, OptionInv, SourceInv, VisitInv, ReuseInv, Looping

\* Every step of the program keeps the invariant.
LEMMA LoopNext == LoopInv /\ [Next]_vars => LoopInv'
<1> SUFFICES ASSUME LoopInv, [Next]_vars PROVE LoopInv'
  OBVIOUS
<1> USE DEF Looping
<1>1. CASE Setup
  <2>1. flags \in CommandLines /\ phase = "flags"
    BY <1>1 DEF Setup, LoopInv, OptionInv
  <2>2. CASE phase' = "fatal"
    BY <2>2 DEF LoopInv, EarlyInv, OptionInv, SourceInv, VisitInv, ReuseInv
  <2>3. CASE phase' # "fatal"
    <3>1. /\ phase' = "connect" /\ ValidateAll(flags) /\ ~OptionError(SetupFlags(flags))
          /\ flags' = SetupFlags(flags) /\ opt' = NewOption(SetupFlags(flags))
      BY <1>1, <2>3 DEF Setup, Fatal
    <3>2. OptionFacts(flags', opt')
      BY <2>1, <3>1, OptionSound, CommandLinesAssumption
    <3>3. UNCHANGED <<i, results, mapped, cache, skips>>
      BY <1>1 DEF Setup
    <3> QED
      BY <2>1, <3>1, <3>2, <3>3 DEF LoopInv, EarlyInv, OptionInv, SourceInv, VisitInv, ReuseInv
  <2> QED
    BY <2>2, <2>3
<1>2. CASE Connect
  <2>1. /\ phase = "connect" /\ phase' = "names"
        /\ UNCHANGED <<flags, opt, i, results, mapped, cache, skips>>
    BY <1>2 DEF Connect
  <2>2. DOMAIN src' = SourceDbs /\ ver' \in {6, 7}
    BY <1>2 DEF Connect
  <2>3. ASSUME ~Changed(flags, "global-metadata-only"), NEW d \in SourceDbs
        PROVE  WellFormed(src'[d])
    <3>1. src'[d] \in Catalogues \cup OtherCatalogues
      BY <1>2, <2>3 DEF Connect
    <3> QED
      BY <3>1, CataloguesAssumption
  <2> QED
    BY <2>1, <2>2, <2>3 DEF LoopInv, EarlyInv, OptionInv, SourceInv, VisitInv, ReuseInv
<1>3. CASE NameDatabases
  <2>1. phase = "names" /\ UNCHANGED <<flags, ver, src, opt, i, results, mapped, cache, skips>>
    BY <1>3 DEF NameDatabases, fixed
  <2>2. OptionFacts(flags, opt) /\ DOMAIN src = SourceDbs
    BY <2>1 DEF LoopInv, OptionInv, SourceInv
  <2>3. CASE phase' = "fatal"
    BY <2>3 DEF LoopInv, EarlyInv, OptionInv, SourceInv, VisitInv, ReuseInv
  <2>4. CASE phase' # "fatal"
    <3>1. /\ phase' = "loop" /\ todo' = Range(SourceDbnames)
          /\ dbMap' = [d \in Range(SourceDbnames) |->
                          DestDbnames[CHOOSE k \in DOMAIN SourceDbnames : SourceDbnames[k] = d]]
      BY <1>3, <2>4 DEF NameDatabases, Fatal
    <3>2. opt.destTables # <<>> =>
              \A d \in DOMAIN dbMap' : d = opt.includedTables[1][1] /\ dbMap'[d] = opt.destTables[1][1]
      <4> SUFFICES ASSUME opt.destTables # <<>>, NEW d \in DOMAIN dbMap'
                   PROVE  d = opt.includedTables[1][1] /\ dbMap'[d] = opt.destTables[1][1]
        OBVIOUS
      <4>1. SourceDbnames = <<opt.includedTables[1][1]>> /\ DestDbnames = <<opt.destTables[1][1]>>
        BY <2>2, DbNames
      <4>2. DOMAIN SourceDbnames = {1} /\ SourceDbnames[1] = opt.includedTables[1][1]
        BY SMTT(30), <4>1
      <4> QED
        BY SMTT(30), <3>1, <4>1, <4>2 DEF Range
    <3>3. /\ DOMAIN dbMap' = Range(SourceDbnames) /\ Range(SourceDbnames) \subseteq SourceDbs
          /\ opt.copyMode \in {"schema", "table"} => \A d, e \in DOMAIN dbMap' : d = e
      BY <2>2, <3>1, DbNames
    <3>4. VisitInv'
      BY SMTT(30), <2>1, <3>1, <3>2, <3>3 DEF LoopInv, EarlyInv, VisitInv
    <3>5. ReuseInv'
      <4>1. mapped' = FALSE /\ cache' = NoCache
        BY <2>1 DEF LoopInv, EarlyInv
      <4> QED
        BY <4>1 DEF ReuseInv
    <3> QED
      BY <2>1, <3>1, <3>4, <3>5 DEF LoopInv, EarlyInv, OptionInv, SourceInv
  <2> QED
    BY <2>3, <2>4
<1>4. ASSUME NEW d \in todo, SelectTables(d)
      PROVE  LoopInv'
  <2>1. /\ phase = "loop" /\ todo' = todo \ {d} /\ phase' \in {"loop", "selected", "fatal"}
        /\ UNCHANGED <<flags, ver, src, opt, dbMap, i, mapped, skips, results>>
        /\ phase' = "selected" => cur' = d
    BY <1>4 DEF SelectTables, fixed, Fatal
  <2>2. VisitInv'
    BY <1>4, <2>1 DEF LoopInv, VisitInv
  <2>3. ReuseInv'
    BY <1>4, <2>1 DEF LoopInv, VisitInv, ReuseInv
  <2> QED
    BY <2>1, <2>2, <2>3 DEF LoopInv, EarlyInv, OptionInv, SourceInv
<1>5. CASE Prepare
  <2>1. /\ phase = "selected" /\ phase' \in {"prepared", "fatal"}
        /\ UNCHANGED <<flags, ver, src, opt, dbMap, todo, cur, i, cache, results>>
    BY <1>5 DEF Prepare, fixed, Fatal
  <2>2. ReuseInv'
    <3>1. phase' = "prepared" => mapped' = Changed(flags, "dest-tablespace")
      BY <1>5, <2>1 DEF Prepare, Fatal
    <3>2. Changed(flags, "dest-tablespace") \in BOOLEAN
      BY SMTT(30) DEF Changed
    <3> QED
      BY <2>1, <3>1, <3>2 DEF ReuseInv
  <2> QED
    BY <2>1, <2>2 DEF LoopInv, EarlyInv, OptionInv, SourceInv, VisitInv
<1>6. CASE Migrate
  <2>1. /\ phase = "prepared" /\ phase' \in {"loop", "fatal"}
        /\ UNCHANGED <<flags, ver, src, opt, dbMap, todo, mapped>>
    BY <1>6 DEF Migrate, fixed, Fatal
  <2>2. phase' = "loop" => DOMAIN results' = DOMAIN results \cup {cur} /\ i' = i + 1 /\ cache' = NoCache
    <3> SUFFICES ASSUME phase' = "loop"
                 PROVE  DOMAIN results' = DOMAIN results \cup {cur} /\ i' = i + 1 /\ cache' = NoCache
      OBVIOUS
    <3>1. (\E r : results' = Put(results, cur, r)) /\ i' = i + 1 /\ cache' = NoCache
      BY <1>6 DEF Migrate, Fatal
    <3> QED
      BY <3>1 DEF Put
  <2>3. VisitInv'
    BY SMTT(30), <2>1, <2>2 DEF LoopInv, VisitInv
  <2>4. ReuseInv'
    BY SMTT(30), <2>1, <2>2 DEF LoopInv, VisitInv, ReuseInv
  <2> QED
    BY <2>1, <2>3, <2>4 DEF LoopInv, EarlyInv, OptionInv, SourceInv
<1>7. CASE Summary
  <2>1. /\ phase = "loop" /\ phase' = "done"
        /\ UNCHANGED <<flags, ver, src, opt, dbMap, todo, cur, i, cache, mapped, results>>
    BY <1>7 DEF Summary, fixed
  <2> QED
    BY <2>1 DEF LoopInv, EarlyInv, OptionInv, SourceInv, VisitInv, ReuseInv
<1>8. CASE UNCHANGED vars
  BY <1>8 DEF vars, LoopInv, EarlyInv, OptionInv, SourceInv, VisitInv, ReuseInv
<1> QED
  BY <1>1, <1>2, <1>3, <1>4, <1>5, <1>6, <1>7, <1>8 DEF Next, Ended

----------------------------------------------------------------------------
(* Why the program gives up *)

\* A step to a fatal end is explained, and the end is final.
LEMMA FatalNext == LoopInv /\ FatalsExplained /\ [Next]_vars => FatalsExplained'
<1> SUFFICES ASSUME LoopInv, FatalsExplained, [Next]_vars, phase' = "fatal", reason' \notin {"flags", "option"}
             PROVE  FatalsExplained'
  BY DEF FatalsExplained
<1>1. CASE Setup
  BY <1>1 DEF Setup, Fatal
<1>2. CASE Connect
  BY <1>2 DEF Connect
<1>3. CASE NameDatabases
  <2>1. /\ phase = "names" /\ reason' = "dbnames" /\ Len(SourceDbnames) # Len(DestDbnames)
        /\ opt' = opt
    BY <1>3 DEF NameDatabases, Fatal
  <2>2. OptionFacts(flags, opt) /\ DOMAIN src = SourceDbs
    BY <2>1 DEF LoopInv, OptionInv, SourceInv
  <2>3. opt.copyMode = "table" /\ Len(opt.destDbnames) > 1
    BY <2>1, <2>2, DbNames
  <2> QED
    BY <2>1, <2>3 DEF FatalsExplained
<1>4. ASSUME NEW d \in todo, SelectTables(d)
      PROVE  FatalsExplained'
  <2>1. phase = "loop" /\ UNCHANGED <<flags, ver, src, dst, opt, dbMap>>
    BY <1>4 DEF SelectTables, fixed
  <2>2. d \in DOMAIN dbMap
    BY <1>4, <2>1 DEF LoopInv, VisitInv, Looping
  <2>3. \/ reason' = "schema" /\ SchemaMissing(d)
        \/ reason' = "tables" /\ DestTablesInvalid(d)
    BY <1>4 DEF SelectTables, Fatal
  <2>4. SchemaMissing(d)' <=> SchemaMissing(d)
    BY <2>1 DEF SchemaMissing, Tables, Partitions, Partitioned
  <2>5. DestTablesInvalid(d)' <=> DestTablesInvalid(d)
    BY <2>1 DEF DestTablesInvalid, DestTableMode
  <2> QED
    BY <2>1, <2>2, <2>3, <2>4, <2>5 DEF FatalsExplained
<1>5. CASE Prepare
  <2>1. /\ phase = "selected" /\ reason' = "tablespace" /\ mapped /\ UNCHANGED <<i, opt>>
    BY <1>5 DEF Prepare, Fatal
  <2>2. opt.copyMode \in {"full", "db", "schema", "table"}
    BY <2>1 DEF LoopInv, OptionInv, OptionFacts, Looping
  <2>3. i > 0
    BY <2>1 DEF LoopInv, ReuseInv
  <2>4. /\ i \in Nat /\ (i = 0 <=> DOMAIN results = {})
        /\ cur \in DOMAIN dbMap /\ cur \notin DOMAIN results
        /\ DOMAIN results \subseteq DOMAIN dbMap
        /\ opt.copyMode \in {"schema", "table"} => \A d, e \in DOMAIN dbMap : d = e
    BY <2>1 DEF LoopInv, VisitInv, Looping
  <2>5. opt.copyMode \in {"full", "db"}
    BY SMTT(30), <2>2, <2>3, <2>4
  <2> QED
    BY <2>1, <2>3, <2>5 DEF FatalsExplained
<1>6. CASE Migrate
  <2>1. /\ phase = "prepared" /\ reason' = "schemaMap" /\ TranslatePanics(cur) /\ UNCHANGED <<opt, flags>>
    BY <1>6 DEF Migrate, Fatal, fixed
  <2>2. OptionFacts(flags, opt)
    BY <2>1 DEF LoopInv, OptionInv, Looping
  <2>3. SkipExisting /\ opt.copyMode = "schema" /\ opt.destSchemas = <<>>
    BY <2>1, <2>2 DEF TranslatePanics, OptionFacts
  <2> QED
    BY <2>1, <2>3 DEF FatalsExplained, SkipExisting
<1>7. CASE Summary
  BY <1>7 DEF Summary
<1>8. CASE UNCHANGED vars
  <2>1. FatalsExplained' <=> FatalsExplained
    BY <1>8 DEF vars, FatalsExplained, SchemaMissing, DestTablesInvalid, DestTableMode, SkipExisting
  <2> QED
    BY <2>1
<1> QED
  BY <1>1, <1>2, <1>3, <1>4, <1>5, <1>6, <1>7, <1>8 DEF Next, Ended

\* The invariant of the loop, for every set of command lines and catalogues.
LEMMA LoopInvHolds == Spec => []LoopInv
BY LoopInit, LoopNext, PTL DEF Spec

\* A command line that the validators accept is given up only for the reasons
\* FatalsExplained names: no later step of doCopy fails on a list the
\* validators let through.
THEOREM FatalsExplainedHolds == Spec => []FatalsExplained
<1>1. Init => FatalsExplained
  BY DEF Init, FatalsExplained
<1> QED
  BY <1>1, LoopInvHolds, FatalNext, PTL DEF Spec

----------------------------------------------------------------------------
(* The global objects *)

\* Of the databases migrated so far, exactly the first brought the global
\* objects of a --full copy.
FirstBroughtGlobals ==
    phase \in Looping /\ Changed(flags, "full") /\ ContainsMetadata(flags) /\ DOMAIN results # {} =>
        \E d \in DOMAIN results : \A e \in DOMAIN results : results[e].global <=> e = d

\* What the steps leave alone.
LEMMA Frame ==
  ASSUME [Next]_vars
  PROVE  /\ phase # "flags" => UNCHANGED <<flags, opt>>
         /\ phase \notin {"flags", "connect"} => UNCHANGED <<ver, src, dst>>
         /\ phase \notin {"flags", "connect", "names"} => UNCHANGED dbMap
         /\ Migrate \/ UNCHANGED results
         /\ phase' \in Looping => phase = "names" \/ phase \in Looping
<1>1. CASE Setup
  BY <1>1 DEF Setup, Fatal, Looping
<1>2. CASE Connect
  BY <1>2 DEF Connect, Looping
<1>3. CASE NameDatabases
  BY <1>3 DEF NameDatabases, fixed
<1>4. ASSUME NEW d \in todo, SelectTables(d)
      PROVE  UNCHANGED <<flags, ver, src, dst, opt, dbMap, results>> /\ phase = "loop"
  BY <1>4 DEF SelectTables, fixed
<1>5. CASE Prepare
  BY <1>5 DEF Prepare, fixed, Looping
<1>6. CASE Migrate
  <2>1. phase = "prepared" /\ UNCHANGED <<flags, ver, src, dst, opt, dbMap>>
    BY <1>6 DEF Migrate, fixed
  <2> QED
    BY <1>6, <2>1 DEF Looping
<1>7. CASE Summary
  BY <1>7 DEF Summary, fixed, Looping
<1>8. CASE UNCHANGED vars
  BY <1>8 DEF vars
<1> QED
  BY <1>1, <1>2, <1>3, <1>4, <1>5, <1>6, <1>7, <1>8 DEF Next, Ended, Looping

\* Every step keeps the first database the one with the global objects.
LEMMA GlobalsNext == LoopInv /\ FirstBroughtGlobals /\ [Next]_vars => FirstBroughtGlobals'
<1> SUFFICES ASSUME LoopInv, FirstBroughtGlobals, [Next]_vars,
                    phase' \in Looping, Changed(flags', "full"), ContainsMetadata(flags'), DOMAIN results' # {}
             PROVE  \E d \in DOMAIN results' : \A e \in DOMAIN results' : results'[e].global <=> e = d
  BY DEF FirstBroughtGlobals
<1>1. CASE phase \in Looping /\ UNCHANGED <<flags, results>>
  BY <1>1 DEF FirstBroughtGlobals
<1>2. CASE phase \notin Looping
  <2>1. phase = "names" /\ ~Migrate
    BY <1>2, Frame DEF Migrate, Looping
  <2>2. results = <<>> /\ results' = results
    BY <2>1, Frame DEF LoopInv, EarlyInv
  <2> QED
    BY SMTT(30), <2>2
<1>3. CASE Migrate
  <2>1. phase = "prepared" /\ UNCHANGED <<flags, opt>>
    BY <1>3 DEF Migrate, fixed
  <2>2. /\ opt.copyMode = "full" /\ ~Changed(flags, "with-global-metadata") /\ opt.destTables = <<>>
    BY <2>1 DEF LoopInv, OptionInv, OptionFacts, Looping
  <2>3. i \in Nat /\ (i = 0 <=> DOMAIN results = {}) /\ cur \notin DOMAIN results
    BY <2>1 DEF LoopInv, VisitInv, Looping
  <2>4. \E r : results' = Put(results, cur, r) /\ (r.global <=> i = 0)
    <3> DEFINE extracts == ContainsMetadata(flags) /\ ~(opt.copyMode = "table" /\ opt.destTables # <<>>)
               done(m) == [copied |-> IF Changed(flags, "metadata-only") THEN {} ELSE m,
                           created |-> IF extracts THEN Created(cur) ELSE {},
                           global |-> extracts /\ NeedGlobalMetaData,
                           fresh |-> sel.fresh]
    <3>1. PICK m : results' = Put(results, cur, done(m))
      BY <1>3 DEF Migrate, Fatal, Looping
    <3>2. done(m).global = (extracts /\ NeedGlobalMetaData)
      OBVIOUS
    <3>3. extracts /\ NeedGlobalMetaData <=> i = 0
      BY <2>1, <2>2 DEF NeedGlobalMetaData
    <3> QED
      BY <3>1, <3>2, <3>3
  <2>r. PICK r : results' = Put(results, cur, r) /\ (r.global <=> i = 0)
    BY <2>4
  <2>5. /\ DOMAIN results' = DOMAIN results \cup {cur} /\ results'[cur] = r
        /\ \A e \in DOMAIN results : results'[e] = results[e]
    BY <2>3, <2>r DEF Put
  <2>6. CASE DOMAIN results = {}
    BY SMTT(30), <2>3, <2>r, <2>5, <2>6
  <2>7. CASE DOMAIN results # {}
    <3>1. PICK d \in DOMAIN results : \A e \in DOMAIN results : results[e].global <=> e = d
      BY <2>1, <2>7 DEF FirstBroughtGlobals, Looping
    <3>2. ~r.global
      BY <2>3, <2>r, <2>7
    <3> QED
      BY SMTT(30), <2>3, <2>5, <3>1, <3>2
  <2> QED
    BY <2>6, <2>7
<1>4. phase \in Looping => phase # "flags"
  BY DEF Looping
<1> QED
  BY <1>1, <1>2, <1>3, <1>4, Frame

\* The global objects of a --full copy come with exactly one database, whatever
\* the order in which the map of databases is walked.
THEOREM GlobalsOnceHolds == Spec => []GlobalsOnce
<1>1. Init => FirstBroughtGlobals
  BY DEF Init, FirstBroughtGlobals, Looping
<1>2. FirstBroughtGlobals => GlobalsOnce
  <2> SUFFICES ASSUME FirstBroughtGlobals, phase = "done", Changed(flags, "full"), ContainsMetadata(flags),
                      DOMAIN results # {}
               PROVE  Cardinality({d \in DOMAIN results : results[d].global}) = 1
    BY DEF GlobalsOnce
  <2>1. PICK d \in DOMAIN results : \A e \in DOMAIN results : results[e].global <=> e = d
    BY DEF FirstBroughtGlobals, Looping
  <2>2. {e \in DOMAIN results : results[e].global} = {d}
    BY <2>1
  <2> QED
    BY <2>2, FS_Singleton
<1> QED
  BY <1>1, <1>2, LoopInvHolds, GlobalsNext, PTL DEF Spec

----------------------------------------------------------------------------
(* Partition trees *)

\* The root of a partition is at the top of its tree, one or two levels up, and
\* holds no rows itself.
LEMMA TreeRoot ==
  ASSUME NEW c, WellFormed(c), NEW t \in Partitions(c)
  PROVE  /\ RootOf(c, t) = IF c.parent[t] \in Partitions(c) THEN c.parent[c.parent[t]] ELSE c.parent[t]
         /\ RootOf(c, t) \in Tables(c) \ Partitions(c)
         /\ RootOf(c, t) \notin QueryUserTables(c)
<1> DEFINE r == IF c.parent[t] \in Partitions(c) THEN c.parent[c.parent[t]] ELSE c.parent[t]
           top(x) == /\ x \notin Partitions(c)
                     /\ \/ x = t
                        \/ t \in Partitions(c) /\ c.parent[t] = x
                        \/ t \in Partitions(c) /\ c.parent[t] \in Partitions(c) /\ c.parent[c.parent[t]] = x
<1>1. r \in Partitioned(c) /\ r \notin Partitions(c)
  BY DEF WellFormed, Partitioned, Range, Partitions
<1>2. r \in Tables(c) /\ top(r) /\ \A x \in Tables(c) : top(x) => x = r
  BY <1>1 DEF Tables
<1>3. RootOf(c, t) = CHOOSE x \in Tables(c) : top(x)
  BY DEF RootOf
<1> HIDE DEF top
<1>4. RootOf(c, t) = r
  BY <1>2, <1>3
<1>5. r \notin QueryUserTables(c)
  BY <1>1 DEF QueryUserTables, Leaves, WellFormed
<1> QED
  BY <1>1, <1>2, <1>4, <1>5

\* The root of a relation that is no partition is the relation.
LEMMA TopItself ==
  ASSUME NEW c, NEW t \in Tables(c) \ Partitions(c)
  PROVE  RootOf(c, t) = t
BY DEF RootOf

\* Where no tree is spread over schemas, the schema of the parent is that of the
\* partition.
LEMMA SameSchema ==
  ASSUME NEW c, WellFormed(c), ~SplitTree(c), NEW t \in Partitions(c)
  PROVE  <<c.parent[t][1], t[2]>> = t
<1>1. t \in STRING \X STRING
  BY DEF WellFormed, Tables
<1>2. c.parent[t][1] = t[1]
  BY DEF SplitTree
<1> QED
  BY SMTT(30), <1>1, <1>2

\* GetPartitionLeafTables relates the leaves to their roots, unless the source
\* takes the direct parent for the root and its schema for that of the leaf.
LEMMA LeafTables ==
  ASSUME NEW c, WellFormed(c), NEW v \in {6, 7}, ~(v >= 7 /\ (MultiLevel(c) \/ SplitTree(c)))
  PROVE  QueryLeafTables(c, v) = {<<RootOf(c, t), t>> : t \in Leaves(c)}
<1>1. CASE v = 6
  BY SMTT(30), <1>1 DEF QueryLeafTables
<1>2. CASE v = 7
  <2>1. \A t \in Partitions(c) : c.parent[t] \notin Partitions(c)
    BY SMTT(30), <1>2 DEF MultiLevel
  <2>2. Leaves(c) = Partitions(c)
    BY <2>1 DEF Leaves, Partitioned, Range, Partitions
  <2>3. \A t \in Partitions(c) : RootOf(c, t) = c.parent[t]
    BY <2>1, TreeRoot
  <2>4. QueryLeafTables(c, v) = {<<c.parent[t], <<c.parent[t][1], t[2]>>>> : t \in Partitions(c)}
    BY SMTT(30), <1>2 DEF QueryLeafTables
  <2>5. \A t \in Partitions(c) : <<c.parent[t][1], t[2]>> = t
    BY SMTT(30), <1>2, SameSchema
  <2>6. \A t \in Partitions(c) : <<c.parent[t], <<c.parent[t][1], t[2]>>>> = <<RootOf(c, t), t>>
    BY <2>3, <2>5
  <2> QED
    BY SMTT(30), <2>2, <2>4, <2>6
<1> QED
  BY <1>1, <1>2

\* The leaves of GetPartitionLeafTables are partitions, except for those of other
\* schemas from version 7 on.
LEMMA LeafNames ==
  ASSUME NEW c, WellFormed(c), NEW v \in {6, 7}, v = 6 \/ ~SplitTree(c), NEW l \in QueryLeafTables(c, v)
  PROVE  /\ l[2] \in Partitions(c)
         /\ v = 6 => l[2] \in Leaves(c) /\ l[1] = RootOf(c, l[2])
<1>1. CASE v = 6
  <2>1. QueryLeafTables(c, v) = {<<RootOf(c, t), t>> : t \in Leaves(c)}
    BY SMTT(30), <1>1 DEF QueryLeafTables
  <2>2. PICK t \in Leaves(c) : l = <<RootOf(c, t), t>>
    BY <2>1
  <2>3. l[1] = RootOf(c, t) /\ l[2] = t
    BY <2>2
  <2> QED
    BY <2>3 DEF Leaves
<1>2. CASE v = 7
  <2>1. QueryLeafTables(c, v) = {<<c.parent[t], <<c.parent[t][1], t[2]>>>> : t \in Partitions(c)}
    BY SMTT(30), <1>2 DEF QueryLeafTables
  <2>2. PICK t \in Partitions(c) : l = <<c.parent[t], <<c.parent[t][1], t[2]>>>>
    BY <2>1
  <2>3. l[2] = <<c.parent[t][1], t[2]>>
    BY <2>2
  <2>4. ~SplitTree(c) /\ v # 6
    BY SMTT(30), <1>2
  <2> QED
    BY <2>3, <2>4, SameSchema
<1> QED
  BY <1>1, <1>2

\* markTables and expandPartTables find the tables a list of names stands for.
LEMMA ExpandsToUnder ==
  ASSUME NEW c, WellFormed(c), NEW v \in {6, 7},
         ~(v >= 7 /\ (MultiLevel(c) \/ SplitTree(c))), NEW names
  PROVE  ExpandPartTables(names, QueryUserTables(c), QueryLeafTables(c, v)).tables = Under(c, names)
<1> DEFINE user == QueryUserTables(c)
           leaf == QueryLeafTables(c, v)
           roots == (names \ user) \cap RootsOf(leaf)
<1>1. leaf = {<<RootOf(c, t), t>> : t \in Leaves(c)}
  BY LeafTables
<1>2. Leaves(c) = user \cap Partitions(c)
  BY DEF QueryUserTables, Leaves, WellFormed
<1>3. ExpandPartTables(names, user, leaf).tables
        = (names \cap user) \cup {l[2] : l \in {m \in leaf : m[1] \in roots}}
  BY DEF ExpandPartTables
<1> HIDE DEF user, leaf
<1>4. /\ \A t \in Leaves(c) : /\ <<RootOf(c, t), t>> \in leaf
                              /\ <<RootOf(c, t), t>>[1] = RootOf(c, t) /\ <<RootOf(c, t), t>>[2] = t
      /\ \A l \in leaf : l[2] \in Leaves(c) /\ l[1] = RootOf(c, l[2])
  BY SMTT(30), <1>1
<1>5. \A t \in Leaves(c) : RootOf(c, t) \notin user /\ RootOf(c, t) \in RootsOf(leaf)
  <2>1. \A t \in Leaves(c) : RootOf(c, t) \notin user
    BY <1>2, TreeRoot DEF user
  <2>2. \A t \in Leaves(c) : \E l \in leaf : RootOf(c, t) = l[1]
    BY <1>4
  <2> QED
    BY <2>1, <2>2 DEF RootsOf
<1>6. {l[2] : l \in {m \in leaf : m[1] \in roots}} = {t \in Leaves(c) : RootOf(c, t) \in names}
  <2>1. ASSUME NEW l \in leaf, l[1] \in roots
        PROVE  l[2] \in Leaves(c) /\ RootOf(c, l[2]) \in names
    BY <1>4, <2>1
  <2>2. ASSUME NEW t \in Leaves(c), RootOf(c, t) \in names
        PROVE  \E l \in leaf : l[1] \in roots /\ l[2] = t
    <3>1. RootOf(c, t) \in roots
      BY <1>5, <2>2
    <3> QED
      BY <1>4, <3>1
  <2> HIDE DEF roots
  <2> QED
    BY <2>1, <2>2
<1>7. Under(c, names) = {t \in user : t \in names \/ (t \in Partitions(c) /\ RootOf(c, t) \in names)}
  BY DEF Under, user
<1>8. ExpandPartTables(names, user, leaf).tables = Under(c, names)
  BY <1>2, <1>3, <1>6, <1>7
<1> QED
  BY <1>8 DEF user, leaf

\* loadDestInventory finds every table of the destination.
LEMMA WholeInventory ==
  ASSUME NEW c
  PROVE  QueryUserTables(c) \cup RootsOf(QueryLeafTables(c, 7)) = Tables(c)
<1> DEFINE pair(t) == <<c.parent[t], <<c.parent[t][1], t[2]>>>>
           leaf == {pair(t) : t \in Partitions(c)}
<1>a. QueryLeafTables(c, 7) = leaf
  BY SMTT(30) DEF QueryLeafTables
<1>p. \A t : pair(t)[1] = c.parent[t]
  OBVIOUS
<1> HIDE DEF pair
<1>b. /\ \A t \in Partitions(c) : pair(t) \in leaf /\ pair(t)[1] = c.parent[t]
      /\ \A l \in leaf : \E t \in Partitions(c) : l[1] = c.parent[t]
  BY <1>p
<1>c. Partitioned(c) = {c.parent[t] : t \in Partitions(c)}
  BY DEF Partitioned, Range, Partitions
<1> HIDE DEF leaf
<1>1. RootsOf(leaf) = Partitioned(c)
  <2>1. \A t \in Partitions(c) : \E l \in leaf : c.parent[t] = l[1]
    BY <1>b
  <2> QED
    BY SMTT(30), <1>b, <1>c, <2>1 DEF RootsOf
<1> QED
  BY <1>a, <1>1 DEF QueryUserTables, Leaves, Tables

----------------------------------------------------------------------------
(* The pairs of a database *)

Global == Changed(flags, "global-metadata-only")

\* A pair is of a table of the mode and of its name on the destination, or of
\* two tables the command line names.
SoundPair(d, p) ==
    /\ opt.copyMode # "table" \/ ver = 6 \/ ~SplitTree(src[d]) =>
          p[1] \in FilterTablesBySchema(QueryUserTables(src[d]) \cup Partitions(src[d]))
    /\ opt.copyMode # "table" \/ ver = 6 => p[1] \in QueryUserTables(src[d])
    /\ IF opt.destTables = <<>> THEN p[2] = Redirect(p[1]) ELSE p[2] \in Tables(dst[dbMap[d]])

\* The leaves and their roots, under their names on the destination.
SourceMapping(d) == {<<Redirect(l[1]), Redirect(l[2])>> : l \in QueryLeafTables(src[d], ver)}

PairsInv ==
    phase \in {"selected", "prepared"} /\ ~Global =>
        /\ \A p \in sel.pairs : SoundPair(cur, p)
        /\ sel.fresh /\ opt.destTables = <<>> => sel.partMap = SourceMapping(cur)
        /\ opt.copyMode = "table" => SrcLeafTables(cur) = QueryLeafTables(src[cur], ver)
        /\ phase = "prepared" => sel.parents \in LeafToRoot(SrcLeafTables(cur))

\* --dest-table names tables of the one destination database, as many as
\* --include-table names of the source database.
LEMMA DestTableLists ==
  ASSUME LoopInv, phase \in Looping, NEW d \in DOMAIN dbMap
  PROVE  /\ DestTableMode(d) <=> opt.destTables # <<>>
         /\ opt.destTables # <<>> =>
               /\ Len(opt.includedTables) = Len(opt.destTables)
               /\ TablesByDb(d, opt.includedTables)
                     = [k \in 1 .. Len(opt.destTables) |-> <<opt.includedTables[k][2], opt.includedTables[k][3]>>]
               /\ TablesByDb(dbMap[d], opt.destTables)
                     = [k \in 1 .. Len(opt.destTables) |-> <<opt.destTables[k][2], opt.destTables[k][3]>>]
<1>1. /\ opt.destTables \in Seq(DbTable)
      /\ OneDatabase(opt.destTables) /\ OneDatabase(opt.includedTables)
      /\ opt.destTables # <<>> => /\ opt.includedTables \in Seq(DbTable)
                                  /\ Len(opt.includedTables) = Len(opt.destTables)
  BY DEF LoopInv, OptionInv, OptionFacts
<1>2. opt.destTables # <<>> => d = opt.includedTables[1][1] /\ dbMap[d] = opt.destTables[1][1]
  BY DEF LoopInv, VisitInv
<1>3. CASE opt.destTables = <<>>
  <2>1. \A k \in DOMAIN opt.destTables : opt.destTables[k][1] = dbMap[d]
    BY SMTT(30), <1>3
  <2>2. TablesByDb(dbMap[d], opt.destTables)
           = [k \in 1 .. Len(opt.destTables) |-> <<opt.destTables[k][2], opt.destTables[k][3]>>]
    BY <1>1, <2>1, AllByDb
  <2>3. TablesByDb(dbMap[d], opt.destTables) = <<>>
    BY SMTT(30), <1>3, <2>2
  <2> QED
    BY <1>3, <2>3 DEF DestTableMode
<1>4. CASE opt.destTables # <<>>
  <2>1. 1 \in DOMAIN opt.destTables /\ 1 \in DOMAIN opt.includedTables /\ Len(opt.destTables) \in Nat \ {0}
    BY SMTT(30), <1>1, <1>4
  <2>2. \A k \in DOMAIN opt.destTables : opt.destTables[k][1] = dbMap[d]
    BY <1>1, <1>2, <1>4, <2>1, SameDatabase
  <2>3. \A k \in DOMAIN opt.includedTables : opt.includedTables[k][1] = d
    BY <1>1, <1>2, <1>4, <2>1, SameDatabase
  <2>4. TablesByDb(dbMap[d], opt.destTables)
           = [k \in 1 .. Len(opt.destTables) |-> <<opt.destTables[k][2], opt.destTables[k][3]>>]
    BY <1>1, <2>2, AllByDb
  <2>5. TablesByDb(d, opt.includedTables)
           = [k \in 1 .. Len(opt.destTables) |-> <<opt.includedTables[k][2], opt.includedTables[k][3]>>]
    <3>1. TablesByDb(d, opt.includedTables)
             = [k \in 1 .. Len(opt.includedTables) |-> <<opt.includedTables[k][2], opt.includedTables[k][3]>>]
      BY <1>1, <1>4, <2>3, AllByDb
    <3> QED
      BY <1>1, <1>4, <3>1
  <2>6. TablesByDb(dbMap[d], opt.destTables) # <<>>
    <3>1. 1 \in DOMAIN TablesByDb(dbMap[d], opt.destTables)
      BY SMTT(30), <2>1, <2>4
    <3>2. 1 \notin DOMAIN <<>>
      BY SMTT(30)
    <3> QED
      BY <3>1, <3>2
  <2> QED
    BY <1>1, <1>4, <2>4, <2>5, <2>6 DEF DestTableMode
<1> QED
  BY <1>3, <1>4

\* The parts of SelectedTables.
Excluded(d) ==
    ExpandPartTables(Range(TablesByDb(d, opt.excludedTables)), QueryUserTables(src[d]), SrcLeafTables(d)).tables
Included(d) ==
    ExpandPartTables(Range(TablesByDb(d, opt.includedTables)), QueryUserTables(src[d]), SrcLeafTables(d))
Redirected(tables) == {<<t, Redirect(t)>> : t \in tables}

\* What SelectedTables returns in the three ways of GetUserTables.
LEMMA SelectedFields ==
  ASSUME LoopInv, phase = "loop", NEW d \in todo, ~Global
  PROVE  /\ SelectedTables(d).fresh = (cache = NoCache)
         /\ SelectedTables(d).partMap = PartitionTableMapping(d)
         /\ opt.copyMode # "table" =>
               SelectedTables(d).pairs = Redirected(FilterTablesBySchema(QueryUserTables(src[d])) \ Excluded(d))
         /\ opt.copyMode = "table" /\ opt.destTables = <<>> =>
               SelectedTables(d).pairs = Redirected(Included(d).tables \ Excluded(d))
         /\ opt.copyMode = "table" /\ opt.destTables # <<>> => SelectedTables(d).pairs = ExcludeTablePair(d)
<1> DEFINE rec(p, n) == [pairs |-> p, nonPhys |-> n, partMap |-> PartitionTableMapping(d),
                         parents |-> <<>>, fresh |-> cache = NoCache]
           fields(x, p) == x.pairs = p /\ x.partMap = PartitionTableMapping(d) /\ x.fresh = (cache = NoCache)
<1>1. d \in DOMAIN dbMap /\ phase \in Looping
  BY DEF LoopInv, VisitInv, Looping
<1>2. DestTableMode(d) <=> opt.destTables # <<>>
  BY <1>1, DestTableLists
<1>3. ASSUME NEW x, NEW p, NEW n, x = rec(p, n)
      PROVE  fields(x, p)
  <2>1. /\ rec(p, n).pairs = p /\ rec(p, n).partMap = PartitionTableMapping(d)
        /\ rec(p, n).fresh = (cache = NoCache)
    OBVIOUS
  <2> HIDE DEF rec
  <2> QED
    BY <1>3, <2>1
<1>4. /\ opt.copyMode # "table" =>
            SelectedTables(d) = rec(Redirected(FilterTablesBySchema(QueryUserTables(src[d])) \ Excluded(d)), {})
      /\ opt.copyMode = "table" /\ ~DestTableMode(d) =>
            SelectedTables(d) = rec(Redirected(Included(d).tables \ Excluded(d)),
                                    (Included(d).pending \ Excluded(d)) \cap src[d].nonPhys)
      /\ opt.copyMode = "table" /\ DestTableMode(d) => SelectedTables(d) = rec(ExcludeTablePair(d), {})
  BY DEF SelectedTables, Global, Included, Excluded, Redirected
<1> HIDE DEF rec, fields
<1>5. CASE opt.copyMode # "table"
  <2> DEFINE p == Redirected(FilterTablesBySchema(QueryUserTables(src[d])) \ Excluded(d))
  <2>1. SelectedTables(d) = rec(p, {})
    BY <1>4, <1>5
  <2> HIDE DEF p
  <2>2. fields(SelectedTables(d), p)
    BY <1>3, <2>1
  <2> QED
    BY <1>5, <2>2 DEF p, fields
<1>6. CASE opt.copyMode = "table" /\ opt.destTables = <<>>
  <2> DEFINE p == Redirected(Included(d).tables \ Excluded(d))
             n == (Included(d).pending \ Excluded(d)) \cap src[d].nonPhys
  <2>1. SelectedTables(d) = rec(p, n)
    BY <1>2, <1>4, <1>6
  <2> HIDE DEF p, n
  <2>2. fields(SelectedTables(d), p)
    BY <1>3, <2>1
  <2> QED
    BY <1>6, <2>2 DEF p, fields
<1>7. CASE opt.copyMode = "table" /\ opt.destTables # <<>>
  <2>1. SelectedTables(d) = rec(ExcludeTablePair(d), {})
    BY <1>2, <1>4, <1>7
  <2>2. fields(SelectedTables(d), ExcludeTablePair(d))
    BY <1>3, <2>1
  <2> QED
    BY <1>7, <2>2 DEF fields
<1> QED
  BY <1>5, <1>6, <1>7

\* The pairs of a database that passed the checks are sound.
LEMMA SelectedPairs ==
  ASSUME LoopInv, phase = "loop", NEW d \in todo, ~Global, ~DestTablesInvalid(d)
  PROVE  /\ \A p \in SelectedTables(d).pairs : SoundPair(d, p)
         /\ cache = NoCache /\ opt.destTables = <<>> => SelectedTables(d).partMap = SourceMapping(d)
         /\ opt.copyMode = "table" => SrcLeafTables(d) = QueryLeafTables(src[d], ver)
<1> DEFINE user == QueryUserTables(src[d])
<1>1. d \in DOMAIN dbMap /\ phase \in Looping
  BY DEF LoopInv, VisitInv, Looping
<1>2. opt.destTables # <<>> => opt.copyMode = "table"
  BY <1>1 DEF LoopInv, OptionInv, OptionFacts
<1>3. DestTableMode(d) <=> opt.destTables # <<>>
  BY <1>1, DestTableLists
<1>4. opt.copyMode = "table" => SrcLeafTables(d) = QueryLeafTables(src[d], ver)
  BY SMTT(30), <1>1 DEF LoopInv, ReuseInv, SrcLeafTables, NoCache
<1>5. cache = NoCache /\ opt.destTables = <<>> => SelectedTables(d).partMap = SourceMapping(d)
  <2>1. cache = NoCache /\ opt.destTables = <<>> => PartitionTableMapping(d) = SourceMapping(d)
    BY SMTT(30) DEF PartitionTableMapping, SourceMapping, SrcLeafTables, NoCache
  <2> QED
    BY <2>1, SelectedFields
<1>6. \A ts : \A p \in Redirected(ts) : p[1] \in ts /\ p[2] = Redirect(p[1])
  BY SMTT(30) DEF Redirected
<1>7. ASSUME opt.copyMode # "table", NEW p \in SelectedTables(d).pairs
      PROVE  SoundPair(d, p)
  <2>a. p \in Redirected(FilterTablesBySchema(user) \ Excluded(d))
    BY <1>7, SelectedFields
  <2>1. p[1] \in FilterTablesBySchema(user) /\ p[2] = Redirect(p[1])
    BY <1>6, <2>a
  <2>2. p[1] \in user /\ p[1] \in FilterTablesBySchema(user \cup Partitions(src[d]))
    BY <2>1 DEF FilterTablesBySchema
  <2> QED
    BY <1>2, <1>7, <2>1, <2>2 DEF SoundPair
<1>8. ASSUME opt.copyMode = "table"
      PROVE  FilterTablesBySchema(user \cup Partitions(src[d])) = user \cup Partitions(src[d])
  BY <1>8 DEF FilterTablesBySchema
<1>9. ASSUME opt.copyMode = "table", opt.destTables = <<>>, NEW p \in SelectedTables(d).pairs
      PROVE  SoundPair(d, p)
  <2>a. p \in Redirected(Included(d).tables \ Excluded(d))
    BY <1>9, SelectedFields
  <2>1. p[1] \in Included(d).tables /\ p[2] = Redirect(p[1])
    BY <1>6, <2>a
  <2>w. WellFormed(src[d]) /\ ver \in {6, 7}
    BY <1>1 DEF LoopInv, SourceInv, VisitInv, Global
  <2>2. ver = 6 \/ ~SplitTree(src[d]) =>
           \A l \in QueryLeafTables(src[d], ver) :
              l[2] \in Partitions(src[d]) /\ (ver = 6 => l[2] \in user)
    BY <2>w, LeafNames DEF QueryUserTables
  <2>3. p[1] \in user \/ \E l \in QueryLeafTables(src[d], ver) : p[1] = l[2]
    BY <1>4, <1>9, <2>1 DEF Included, ExpandPartTables
  <2>4. ver = 6 \/ ~SplitTree(src[d]) =>
           p[1] \in user \cup Partitions(src[d]) /\ (ver = 6 => p[1] \in user)
    BY <2>2, <2>3
  <2> QED
    BY <1>8, <1>9, <2>1, <2>4 DEF SoundPair
<1>10. ASSUME opt.copyMode = "table", opt.destTables # <<>>, NEW p \in SelectedTables(d).pairs
       PROVE  SoundPair(d, p)
  <2> DEFINE s == TablesByDb(d, opt.includedTables)
             t == TablesByDb(dbMap[d], opt.destTables)
  <2>1. /\ s = [k \in 1 .. Len(opt.destTables) |-> <<opt.includedTables[k][2], opt.includedTables[k][3]>>]
        /\ t = [k \in 1 .. Len(opt.destTables) |-> <<opt.destTables[k][2], opt.destTables[k][3]>>]
    BY <1>1, <1>10, DestTableLists
  <2>2. opt.destTables \in Seq(DbTable)
    BY <1>1 DEF LoopInv, OptionInv, OptionFacts
  <2>3. \A k \in 1 .. Len(opt.destTables) : <<opt.destTables[k][2], opt.destTables[k][3]>> \in Tables(dst[dbMap[d]])
    BY SMTT(30), <1>3, <1>10, <2>2 DEF DestTablesInvalid, ValidatePartTables, Tables, QueryUserTables, Leaves
  <2> HIDE DEF s, t
  <2>4. \A k \in DOMAIN s : t[k] \in Tables(dst[dbMap[d]])
    BY <2>1, <2>3
  <2>5. ExcludeTablePair(d) = {<<s[k], t[k]>> :
           k \in {n \in DOMAIN s : s[n] \in user \ Range(TablesByDb(d, opt.excludedTables))}}
    BY DEF ExcludeTablePair, s, t
  <2>6. p \in ExcludeTablePair(d)
    BY <1>10, SelectedFields
  <2>7. p[1] \in user /\ p[1] \in user \cup Partitions(src[d]) /\ p[2] \in Tables(dst[dbMap[d]])
    BY SMTT(30), <2>4, <2>5, <2>6
  <2> QED
    BY <1>8, <1>10, <2>7 DEF SoundPair
<1> QED
  BY <1>4, <1>5, <1>7, <1>9, <1>10

\* The leaf list is off, or the list of tables is empty.
Off(d) == LeafListOff(d) \/ NothingListed

\* The names and the pairs depend on what no later step changes.
LEMMA SameQuestion ==
  ASSUME UNCHANGED <<flags, opt, ver, src, dst, dbMap>>
  PROVE  /\ \A t : Redirect(t)' = Redirect(t)
         /\ \A d, p : SoundPair(d, p)' <=> SoundPair(d, p)
         /\ \A d : SourceMapping(d)' = SourceMapping(d)
         /\ SkipExisting' <=> SkipExisting
         /\ Global' <=> Global
         /\ \A d : (LeafListOff(d)' <=> LeafListOff(d)) /\ (Off(d)' <=> Off(d))
         /\ \A d, t : SharesName(d, t)' <=> SharesName(d, t)
<1>1. \A t : Redirect(t)' = Redirect(t)
  BY DEF Redirect
<1>2. \A d, p : SoundPair(d, p)' <=> SoundPair(d, p)
  BY <1>1 DEF SoundPair, FilterTablesBySchema
<1>3. \A d : SourceMapping(d)' = SourceMapping(d)
  BY <1>1 DEF SourceMapping
<1>4. /\ SkipExisting' <=> SkipExisting
      /\ Global' <=> Global
      /\ \A d : (LeafListOff(d)' <=> LeafListOff(d)) /\ (Off(d)' <=> Off(d))
  BY DEF SkipExisting, Global, LeafListOff, Off, NothingListed
<1>5. \A d, t : SharesName(d, t)' <=> SharesName(d, t)
  BY <1>1 DEF SharesName
<1> QED
  BY <1>1, <1>2, <1>3, <1>4, <1>5

\* Under --skip-existing the pairs that are left are not on the destination.
FilterInv ==
    phase = "prepared" /\ SkipExisting =>
        \E leafToRoot \in LeafToRoot(sel.partMap) : \A p \in sel.pairs : ~PairExists(cur, p, leafToRoot)

\* What Prepare does to the pairs and to the list of --skip-existing.
Filters(leafToRoot, leafTableMap) ==
    /\ SkipExisting => leafToRoot \in LeafToRoot(sel.partMap)
    /\ leafTableMap \in LeafToRoot(SrcLeafTables(cur))
    /\ sel' = [pairs |-> FilterTablePairs(cur, leafToRoot), nonPhys |-> sel.nonPhys,
               partMap |-> sel.partMap, parents |-> leafTableMap, fresh |-> sel.fresh]
    /\ skips' = skips \cup PairSkips(cur, leafToRoot)

\* A database is selected, its pairs are filtered, or nothing happens to them.
LEMMA SelectionSteps ==
  ASSUME LoopInv, [Next]_vars, phase' \in {"selected", "prepared"}
  PROVE  /\ UNCHANGED <<flags, opt, ver, src, dst, dbMap>>
         /\ \/ /\ phase = "loop" /\ phase' = "selected" /\ cur' \in todo
               /\ sel' = SelectedTables(cur')
               /\ ~Global => ~DestTablesInvalid(cur') /\ cache'.src = SrcLeafTables(cur')
               /\ ~Global /\ SkipExisting => inv' = Put(inv, dbMap[cur'], DestInventory(cur'))
            \/ /\ phase = "selected" /\ phase' = "prepared" /\ UNCHANGED <<cur, inv, cache>>
               /\ \E leafToRoot, leafTableMap : Filters(leafToRoot, leafTableMap)
            \/ UNCHANGED <<phase, cur, sel, inv, cache, skips>>
<1>1. UNCHANGED <<flags, opt, ver, src, dst, dbMap>> \/ phase \in {"flags", "connect", "names"}
  BY Frame
<1>2. CASE Setup \/ Connect \/ NameDatabases \/ Migrate \/ Summary
  BY <1>2 DEF Setup, Connect, NameDatabases, Migrate, Summary, Fatal
<1>3. ASSUME NEW d \in todo, SelectTables(d)
      PROVE  /\ phase = "loop" /\ phase' = "selected" /\ cur' = d
             /\ sel' = SelectedTables(d)
             /\ ~Global => ~DestTablesInvalid(d) /\ cache'.src = SrcLeafTables(d)
             /\ ~Global /\ SkipExisting => inv' = Put(inv, dbMap[d], DestInventory(d))
  BY SMTT(30), <1>3 DEF SelectTables, Global, Fatal
<1>4. CASE Prepare
  <2>1. /\ phase = "selected" /\ phase' = "prepared" /\ UNCHANGED <<cur, inv, cache>>
        /\ \E leafToRoot, leafTableMap : Filters(leafToRoot, leafTableMap)
    BY <1>4 DEF Prepare, Fatal, Filters
  <2> QED
    BY <1>1, <2>1
<1>5. CASE UNCHANGED vars
  BY <1>5 DEF vars
<1>6. ASSUME NEW d \in todo, SelectTables(d)
      PROVE  UNCHANGED <<flags, opt, ver, src, dst, dbMap>>
  BY <1>1, <1>3, <1>6
<1> QED
  BY <1>2, <1>3, <1>4, <1>5, <1>6 DEF Next, Ended

\* Every step keeps the pairs sound.
LEMMA PairsNext == LoopInv /\ PairsInv /\ [Next]_vars => PairsInv'
<1> SUFFICES ASSUME LoopInv, PairsInv, [Next]_vars, phase' \in {"selected", "prepared"}, ~Global'
             PROVE  /\ \A p \in sel'.pairs : SoundPair(cur, p)'
                    /\ sel'.fresh /\ opt'.destTables = <<>> => sel'.partMap = SourceMapping(cur)'
                    /\ opt'.copyMode = "table" => SrcLeafTables(cur)' = QueryLeafTables(src'[cur'], ver')
                    /\ phase' = "prepared" => sel'.parents \in LeafToRoot(SrcLeafTables(cur)')
  BY DEF PairsInv
<1>1. UNCHANGED <<flags, opt, ver, src, dst, dbMap>>
  BY SelectionSteps
<1>2. /\ \A d, p : SoundPair(d, p)' <=> SoundPair(d, p)
      /\ \A d : SourceMapping(d)' = SourceMapping(d)
      /\ ~Global
  BY <1>1, SameQuestion
<1>3. CASE UNCHANGED <<phase, cur, sel, inv, cache, skips>>
  <2>1. /\ \A p \in sel.pairs : SoundPair(cur, p)
        /\ sel.fresh /\ opt.destTables = <<>> => sel.partMap = SourceMapping(cur)
        /\ opt.copyMode = "table" => SrcLeafTables(cur) = QueryLeafTables(src[cur], ver)
        /\ phase = "prepared" => sel.parents \in LeafToRoot(SrcLeafTables(cur))
    BY <1>2, <1>3 DEF PairsInv
  <2>2. SrcLeafTables(cur)' = SrcLeafTables(cur)
    BY <1>1, <1>3 DEF SrcLeafTables
  <2> QED
    BY <1>1, <1>2, <1>3, <2>1, <2>2
<1>4. ASSUME phase = "loop", phase' = "selected", cur' \in todo, sel' = SelectedTables(cur'),
             ~DestTablesInvalid(cur'), cache'.src = SrcLeafTables(cur')
      PROVE  /\ \A p \in sel'.pairs : SoundPair(cur, p)'
             /\ sel'.fresh /\ opt'.destTables = <<>> => sel'.partMap = SourceMapping(cur)'
             /\ opt'.copyMode = "table" => SrcLeafTables(cur)' = QueryLeafTables(src'[cur'], ver')
             /\ phase' = "prepared" => sel'.parents \in LeafToRoot(SrcLeafTables(cur)')
  <2> DEFINE d == cur'
  <2>1. /\ \A p \in SelectedTables(d).pairs : SoundPair(d, p)
        /\ cache = NoCache /\ opt.destTables = <<>> => SelectedTables(d).partMap = SourceMapping(d)
        /\ opt.copyMode = "table" => SrcLeafTables(d) = QueryLeafTables(src[d], ver)
    BY <1>2, <1>4, SelectedPairs
  <2>2. SelectedTables(d).fresh = (cache = NoCache)
    BY <1>2, <1>4, SelectedFields
  <2>3. SrcLeafTables(cur)' = IF cache'.src = None THEN QueryLeafTables(src'[cur'], ver') ELSE cache'.src
    BY DEF SrcLeafTables
  <2>4. opt.copyMode = "table" => SrcLeafTables(cur)' = QueryLeafTables(src[d], ver)
    BY <1>1, <1>4, <2>1, <2>3
  <2>5. \A p \in sel'.pairs : SoundPair(cur, p)'
    BY <1>2, <1>4, <2>1
  <2>6. sel'.fresh /\ opt'.destTables = <<>> => sel'.partMap = SourceMapping(cur)'
    BY <1>1, <1>2, <1>4, <2>1, <2>2
  <2> QED
    BY <1>1, <1>4, <2>4, <2>5, <2>6
<1>5. ASSUME phase = "selected", UNCHANGED <<cur, inv, cache>>, NEW roots, NEW parents, Filters(roots, parents)
      PROVE  /\ \A p \in sel'.pairs : SoundPair(cur, p)'
             /\ sel'.fresh /\ opt'.destTables = <<>> => sel'.partMap = SourceMapping(cur)'
             /\ opt'.copyMode = "table" => SrcLeafTables(cur)' = QueryLeafTables(src'[cur'], ver')
             /\ phase' = "prepared" => sel'.parents \in LeafToRoot(SrcLeafTables(cur)')
  <2>1. /\ \A p \in sel.pairs : SoundPair(cur, p)
        /\ sel.fresh /\ opt.destTables = <<>> => sel.partMap = SourceMapping(cur)
        /\ opt.copyMode = "table" => SrcLeafTables(cur) = QueryLeafTables(src[cur], ver)
    BY <1>2, <1>5 DEF PairsInv
  <2>2. SrcLeafTables(cur)' = SrcLeafTables(cur)
    BY <1>1, <1>5 DEF SrcLeafTables
  <2>3. /\ sel'.pairs \subseteq sel.pairs /\ sel'.partMap = sel.partMap /\ sel'.fresh = sel.fresh
        /\ sel'.parents \in LeafToRoot(SrcLeafTables(cur))
    <3>1. /\ sel'.pairs = FilterTablePairs(cur, roots) /\ sel'.partMap = sel.partMap
          /\ sel'.fresh = sel.fresh /\ sel'.parents = parents
          /\ parents \in LeafToRoot(SrcLeafTables(cur))
      BY <1>5 DEF Filters
    <3> QED
      BY <3>1 DEF FilterTablePairs
  <2> QED
    BY <1>1, <1>2, <1>5, <2>1, <2>2, <2>3
<1> QED
  BY <1>2, <1>3, <1>4, <1>5, SelectionSteps

\* Every step keeps the tables of the destination out of the filtered pairs.
LEMMA FilterNext == LoopInv /\ FilterInv /\ [Next]_vars => FilterInv'
<1> SUFFICES ASSUME LoopInv, FilterInv, [Next]_vars, phase' = "prepared", SkipExisting'
             PROVE  \E leafToRoot \in LeafToRoot(sel'.partMap) :
                       \A p \in sel'.pairs : ~PairExists(cur, p, leafToRoot)'
  BY DEF FilterInv
<1>1. UNCHANGED <<flags, opt, ver, src, dst, dbMap>> /\ SkipExisting
  BY SelectionSteps, SameQuestion
<1>2. CASE UNCHANGED <<phase, cur, sel, inv, cache, skips>>
  <2>1. PICK f \in LeafToRoot(sel.partMap) : \A p \in sel.pairs : ~PairExists(cur, p, f)
    BY <1>1, <1>2 DEF FilterInv
  <2>2. \A p \in sel'.pairs : ~PairExists(cur, p, f)'
    BY <1>1, <1>2, <2>1 DEF PairExists, IsDestTableExisting
  <2> QED
    BY <1>2, <2>2
<1>3. ASSUME UNCHANGED <<cur, inv, cache>>, NEW f, NEW parents, Filters(f, parents)
      PROVE  \E leafToRoot \in LeafToRoot(sel'.partMap) :
                \A p \in sel'.pairs : ~PairExists(cur, p, leafToRoot)'
  <2>1. /\ sel'.pairs = FilterTablePairs(cur, f) /\ sel'.partMap = sel.partMap
        /\ f \in LeafToRoot(sel.partMap)
    BY <1>1, <1>3 DEF Filters
  <2>2. \A p \in sel'.pairs : ~PairExists(cur, p, f)
    BY <1>1, <2>1 DEF FilterTablePairs
  <2>3. \A p \in sel'.pairs : ~PairExists(cur, p, f)'
    BY <1>1, <1>3, <2>2 DEF PairExists, IsDestTableExisting
  <2> QED
    BY <2>1, <2>3
<1> QED
  BY <1>2, <1>3, SelectionSteps

----------------------------------------------------------------------------
(* The tables of the destination *)

\* The two filters of --skip-existing use the same name for a table, except
\* with --include-table and --dest-schema.
LEMMA SameName ==
  ASSUME OptionFacts(flags, opt), ~SchemaMapPanics(opt), ~(opt.copyMode = "table" /\ opt.destSchemas # <<>>), NEW t
  PROVE  TranslateToDest(t) = Redirect(t)
<1>1. /\ opt.copyMode = "schema" <=> opt.sourceSchemas # <<>>
      /\ opt.sourceSchemas \in Seq(DbSchema) /\ opt.destSchemas \in Seq(DbSchema)
  BY DEF OptionFacts
<1>2. opt.copyMode = "schema" => opt.destSchemas # <<>>
  BY SMTT(30), <1>1 DEF SchemaMapPanics
<1> QED
  BY <1>1, <1>2 DEF TranslateToDest, Redirect

\* A table that the pairs name has itself in the plan of the DDL, or before
\* version 7 the root of its tree.
LEMMA InPlan ==
  ASSUME LoopInv, PairsInv, phase = "prepared", ~Global, opt.destTables = <<>>, NEW p \in sel.pairs,
         ~(opt.copyMode = "table" /\ ver >= 7 /\ (p[1] \in Partitions(src[cur]) \/ SplitTree(src[cur]))),
         ~(ver < 7 /\ Strays(src[cur], p[1]) /\ opt.copyMode = "schema")
  PROVE  /\ p[1] \in QueryUserTables(src[cur]) /\ p[2] = Redirect(p[1])
         /\ IF ver = 6 THEN RootOf(src[cur], p[1]) \in DdlTables(cur) ELSE p[1] \in DdlTables(cur)
<1> DEFINE c == src[cur]
           t == p[1]
           leaf == SrcLeafTables(cur)
           stand(q) == IF q[1] \in DOMAIN sel.parents THEN sel.parents[q[1]] ELSE q[1]
<1>1. SoundPair(cur, p)
  BY DEF PairsInv
<1>2. ver \in {6, 7} /\ WellFormed(c)
  BY DEF LoopInv, SourceInv, VisitInv, Looping, Global
<1>v. (ver >= 7 <=> ver = 7) /\ (ver < 7 <=> ver = 6)
  BY SMTT(30), <1>2
<1>3. t \in QueryUserTables(c) /\ t \in FilterTablesBySchema(QueryUserTables(c) \cup Partitions(c)) /\ p[2] = Redirect(t)
  <2>1. /\ t \in FilterTablesBySchema(QueryUserTables(c) \cup Partitions(c)) /\ p[2] = Redirect(t)
        /\ opt.copyMode # "table" \/ ver = 6 => t \in QueryUserTables(c)
    BY <1>1, <1>2, <1>v DEF SoundPair
  <2> QED
    BY <1>2, <1>v, <2>1 DEF FilterTablesBySchema
<1>4. t \in Tables(c)
  BY <1>3 DEF QueryUserTables, Tables, Leaves
<1>r. /\ RootOf(c, t) \in Tables(c)
      /\ t \notin Partitions(c) => RootOf(c, t) = t
  BY <1>2, <1>4, TreeRoot, TopItself
<1>5. CASE opt.copyMode # "table"
  <2>1. opt.copyMode = "schema" /\ ver = 6 => RootOf(c, t)[1] = t[1]
    BY <1>v, <1>r DEF Strays
  <2> QED
    BY <1>3, <1>4, <1>r, <1>5, <2>1 DEF DdlTables, FilterTablesBySchema
<1>6. CASE opt.copyMode = "table"
  <2>1. leaf = QueryLeafTables(c, ver) /\ sel.parents \in LeafToRoot(leaf)
    BY <1>6 DEF PairsInv
  <2>2. stand(p) \in IncludeTables
    BY DEF IncludeTables
  <2>3. /\ DOMAIN sel.parents = {l[2] : l \in leaf}
        /\ \A n \in DOMAIN sel.parents : <<sel.parents[n], n>> \in leaf
    BY <2>1 DEF LeafToRoot
  <2>4. \A l \in leaf : /\ l[2] \in Partitions(c)
                        /\ ver = 6 => l[2] \in Leaves(c) /\ l[1] = RootOf(c, l[2])
    BY <1>2, <1>6, <1>v, <2>1, LeafNames
  <2>5. CASE t \notin Partitions(c)
    <3>1. stand(p) = t
      BY <2>3, <2>4, <2>5
    <3> HIDE DEF stand
    <3> QED
      BY <1>3, <1>4, <1>r, <1>6, <2>2, <2>5, <3>1 DEF DdlTables
  <2>6. CASE t \in Partitions(c)
    <3>1. ver = 6 /\ t \in Leaves(c)
      BY <1>2, <1>3, <1>6, <1>v, <2>6 DEF QueryUserTables, WellFormed
    <3>2. <<RootOf(c, t), t>> \in leaf /\ <<RootOf(c, t), t>>[2] = t
      BY SMTT(30), <2>1, <3>1 DEF QueryLeafTables
    <3>3. t \in DOMAIN sel.parents
      BY <2>3, <3>2
    <3>4. sel.parents[t] = RootOf(c, t)
      <4> DEFINE l == <<sel.parents[t], t>>
      <4>1. l \in leaf
        BY <2>3, <3>3
      <4>2. l[1] = sel.parents[t] /\ l[2] = t
        OBVIOUS
      <4> HIDE DEF l
      <4> QED
        BY <2>4, <3>1, <4>1, <4>2
    <3>5. stand(p) = RootOf(c, t)
      BY <3>3, <3>4
    <3> HIDE DEF stand
    <3> QED
      BY <1>3, <1>r, <1>6, <2>2, <3>1, <3>5 DEF DdlTables
  <2> QED
    BY <2>5, <2>6
<1> QED
  BY <1>3, <1>5, <1>6

\* The name a leaf has on the destination, with that of its root.
LEMMA LeafMapping ==
  ASSUME NEW d, WellFormed(src[d]), ver \in {6, 7}, ~LeafListOff(d)
  PROVE  /\ \A t \in Leaves(src[d]) : <<Redirect(RootOf(src[d], t)), Redirect(t)>> \in SourceMapping(d)
         /\ \A l \in SourceMapping(d) : \E t \in Leaves(src[d]) :
               l[1] = Redirect(RootOf(src[d], t)) /\ l[2] = Redirect(t)
<1> DEFINE c == src[d]
           to(l) == <<Redirect(l[1]), Redirect(l[2])>>
           leaf(t) == <<RootOf(c, t), t>>
<1>1. QueryLeafTables(c, ver) = {leaf(t) : t \in Leaves(c)}
  BY LeafTables DEF LeafListOff
<1>2. SourceMapping(d) = {to(l) : l \in QueryLeafTables(c, ver)}
  BY DEF SourceMapping
<1>3. \A t : /\ to(leaf(t)) = <<Redirect(RootOf(c, t)), Redirect(t)>>
             /\ to(leaf(t))[1] = Redirect(RootOf(c, t)) /\ to(leaf(t))[2] = Redirect(t)
  OBVIOUS
<1> HIDE DEF to, leaf
<1>4. /\ \A t \in Leaves(c) : to(leaf(t)) \in SourceMapping(d)
      /\ \A l \in SourceMapping(d) : \E t \in Leaves(c) : l = to(leaf(t))
  BY <1>1, <1>2
<1> QED
  BY <1>3, <1>4

\* For a table that shares its name on the destination with no other, leafToRoot
\* gives the root of its tree.
LEMMA RootInMap ==
  ASSUME NEW d, WellFormed(src[d]), ver \in {6, 7}, ~LeafListOff(d),
         NEW f \in LeafToRoot(SourceMapping(d)),
         NEW t \in QueryUserTables(src[d]), ~SharesName(d, t)
  PROVE  /\ Redirect(t) \in DOMAIN f <=> t \in Partitions(src[d])
         /\ t \in Partitions(src[d]) => f[Redirect(t)] = Redirect(RootOf(src[d], t))
<1> DEFINE c == src[d]
<1>1. /\ DOMAIN f = {l[2] : l \in SourceMapping(d)}
      /\ \A n \in DOMAIN f : <<f[n], n>> \in SourceMapping(d)
  BY DEF LeafToRoot
<1>2. /\ \A u \in Leaves(c) : <<Redirect(RootOf(c, u)), Redirect(u)>> \in SourceMapping(d)
      /\ \A l \in SourceMapping(d) : \E u \in Leaves(c) : l[1] = Redirect(RootOf(c, u)) /\ l[2] = Redirect(u)
  BY LeafMapping
<1>3. \A u \in Leaves(c) : Redirect(u) = Redirect(t) => u = t
  BY DEF SharesName, QueryUserTables
<1>4. t \in Partitions(c) <=> t \in Leaves(c)
  BY DEF QueryUserTables, Leaves, WellFormed
<1>5. ASSUME t \in Leaves(c)
      PROVE  Redirect(t) \in DOMAIN f
  <2> DEFINE l == <<Redirect(RootOf(c, t)), Redirect(t)>>
  <2>1. l \in SourceMapping(d)
    BY <1>2, <1>5
  <2>2. l[2] = Redirect(t)
    OBVIOUS
  <2> HIDE DEF l
  <2> QED
    BY <1>1, <2>1, <2>2
<1>6. ASSUME Redirect(t) \in DOMAIN f
      PROVE  t \in Leaves(c) /\ f[Redirect(t)] = Redirect(RootOf(c, t))
  <2> DEFINE l == <<f[Redirect(t)], Redirect(t)>>
  <2>1. l \in SourceMapping(d)
    BY <1>1, <1>6
  <2>2. l[1] = f[Redirect(t)] /\ l[2] = Redirect(t)
    OBVIOUS
  <2> HIDE DEF l
  <2>3. PICK u \in Leaves(c) : l[1] = Redirect(RootOf(c, u)) /\ l[2] = Redirect(u)
    BY <1>2, <2>1
  <2>4. u = t
    BY <1>3, <2>2, <2>3
  <2> QED
    BY <2>2, <2>3, <2>4
<1> QED
  BY <1>4, <1>5, <1>6

\* The DDL filter keeps the relation that brings a pair: it goes by the root,
\* which the pair filter has looked at already.
LEMMA KeptInPlan ==
  ASSUME LoopInv, PairsInv, FilterInv, phase = "prepared", ~Global, opt.destTables = <<>>,
         ~TranslatePanics(cur), NEW p \in sel.pairs,
         p[1] \in QueryUserTables(src[cur]), p[2] = Redirect(p[1]),
         NEW x \in DdlTables(cur),
         x = p[1] \/ (p[1] \in Partitions(src[cur]) /\ x = RootOf(src[cur], p[1])),
         SkipExisting => /\ ~(opt.copyMode = "table" /\ opt.destSchemas # <<>>)
                         /\ sel.fresh /\ ~LeafListOff(cur) /\ ~SharesName(cur, p[1])
  PROVE  x \notin DdlSkipped(cur)
<1> DEFINE c == src[cur]
           t == p[1]
           w == WalkToRoot(cur, x)
           there == inv[dbMap[cur]]
<1> SUFFICES ASSUME x \in DdlSkipped(cur)
             PROVE  FALSE
  OBVIOUS
<1>1. SkipExisting /\ w \in DdlTables(cur) \ Partitions(c) /\ TranslateToDest(w) \in there
  BY DEF DdlSkipped, IsDestTableExisting
<1>2. ver \in {6, 7} /\ WellFormed(c) /\ OptionFacts(flags, opt)
  BY DEF LoopInv, SourceInv, VisitInv, OptionInv, Looping, Global
<1>3. Redirect(w) \in there
  <2>1. ~SchemaMapPanics(opt)
    BY <1>1 DEF TranslatePanics
  <2>2. TranslateToDest(w) = Redirect(w)
    BY <1>1, <1>2, <2>1, SameName
  <2> QED
    BY <1>1, <2>2
<1>4. PICK f \in LeafToRoot(sel.partMap) : ~PairExists(cur, p, f)
  BY <1>1 DEF FilterInv
<1>5. CASE t \notin Partitions(c)
  <2>1. w = t
    BY <1>5 DEF WalkToRoot, Partitions
  <2> QED
    BY <1>3, <1>4, <2>1 DEF PairExists, IsDestTableExisting
<1>6. CASE t \in Partitions(c)
  <2>1. w = RootOf(c, t)
    <3>1. /\ RootOf(c, t) = IF c.parent[t] \in Partitions(c) THEN c.parent[c.parent[t]] ELSE c.parent[t]
          /\ RootOf(c, t) \notin Partitions(c)
      BY <1>2, <1>6, TreeRoot
    <3>2. x = t => w = IF c.parent[t] \in DdlTables(cur) /\ c.parent[t] \in Partitions(c)
                       THEN c.parent[c.parent[t]] ELSE c.parent[t]
      BY <1>6 DEF WalkToRoot, Partitions
    <3>3. x = RootOf(c, t) => w = x
      BY <3>1 DEF WalkToRoot, Partitions
    <3> QED
      BY SMTT(30), <1>1, <3>1, <3>2, <3>3
  <2>2. sel.partMap = SourceMapping(cur)
    BY <1>1 DEF PairsInv
  <2>3. p[2] \in DOMAIN f /\ f[p[2]] = Redirect(RootOf(c, t))
    <3>1. f \in LeafToRoot(SourceMapping(cur)) /\ ~LeafListOff(cur) /\ ~SharesName(cur, t)
      BY <1>1, <2>2
    <3>2. /\ Redirect(t) \in DOMAIN f <=> t \in Partitions(c)
          /\ t \in Partitions(c) => f[Redirect(t)] = Redirect(RootOf(c, t))
      BY SMTT(30), <1>2, <3>1, RootInMap
    <3> QED
      BY <1>6, <3>2
  <2> QED
    BY <1>3, <1>4, <2>1, <2>3 DEF PairExists, IsDestTableExisting
<1> QED
  BY <1>5, <1>6

\* So a table that a worker is told to copy into is there or is created.
LEMMA ReadyPair ==
  ASSUME LoopInv, PairsInv, FilterInv, phase = "prepared", ~Global, NEW p \in sel.pairs,
         opt.destTables = <<>> => ~TranslatePanics(cur),
         ~(opt.copyMode = "table" /\ ver >= 7 /\ (p[1] \in Partitions(src[cur]) \/ SplitTree(src[cur]))),
         ~(ver < 7 /\ Strays(src[cur], p[1]) /\ (opt.copyMode = "schema" \/ opt.destSchemas # <<>>)),
         SkipExisting => /\ ~(opt.copyMode = "table" /\ opt.destSchemas # <<>>)
                         /\ sel.fresh /\ ~LeafListOff(cur) /\ ~SharesName(cur, p[1])
  PROVE  IF opt.destTables = <<>> THEN p[2] \in Created(cur) ELSE p[2] \in Tables(dst[dbMap[cur]])
<1>1. CASE opt.destTables # <<>>
  BY <1>1 DEF PairsInv, SoundPair
<1>2. CASE opt.destTables = <<>>
  <2> DEFINE c == src[cur]
             t == p[1]
             kept == DdlTables(cur) \ DdlSkipped(cur)
             with == {u \in Tables(c) : RootOf(c, u) \in kept}
             name(u) == IF Strays(c, u) THEN u ELSE Redirect(u)
  <2>v. ver \in {6, 7} /\ (ver >= 7 <=> ver = 7) /\ (ver < 7 <=> ver = 6)
    <3>1. ver \in {6, 7}
      BY DEF LoopInv, SourceInv, Looping
    <3> QED
      BY SMTT(30), <3>1
  <2>1. /\ t \in QueryUserTables(c) /\ p[2] = Redirect(t)
        /\ IF ver = 6 THEN RootOf(c, t) \in DdlTables(cur) ELSE t \in DdlTables(cur)
    BY <1>2, InPlan
  <2>t. t \in Tables(c) /\ (t \notin Partitions(c) => RootOf(c, t) = t)
    <3>1. t \in Tables(c)
      BY <2>1 DEF QueryUserTables, Tables, Leaves
    <3> QED
      BY <3>1, TopItself
  <2>2. ASSUME NEW x \in DdlTables(cur), x = t \/ (t \in Partitions(c) /\ x = RootOf(c, t))
        PROVE  x \in kept
    BY <1>2, <2>1, <2>2, KeptInPlan
  <2>3. IF ver = 6 THEN RootOf(c, t) \in kept ELSE t \in kept
    BY <2>1, <2>t, <2>2
  <2>4. Created(cur) = IF ver >= 7 THEN {Redirect(u) : u \in kept} ELSE {name(u) : u \in with}
    BY DEF Created
  <2> HIDE DEF kept
  <2>5. CASE ver = 7
    <3>1. Created(cur) = {Redirect(u) : u \in kept} /\ t \in kept
      BY SMTT(30), <2>3, <2>4, <2>5
    <3> QED
      BY <1>2, <2>1, <3>1
  <2>6. CASE ver = 6
    <3>1. t \in with
      BY <2>t, <2>3, <2>6
    <3>2. name(t) = Redirect(t)
      BY <2>v, <2>6 DEF Redirect
    <3> HIDE DEF with, name
    <3>3. Created(cur) = {name(u) : u \in with}
      BY SMTT(30), <2>4, <2>6
    <3> QED
      BY <1>2, <2>1, <3>1, <3>2, <3>3
  <2> QED
    BY <2>v, <2>5, <2>6
<1> QED
  BY <1>1, <1>2

\* MigrateMetadata extracts DDL, except with --data-only and --dest-table.
Extracts == ContainsMetadata(flags) /\ ~(opt.copyMode = "table" /\ opt.destTables # <<>>)

\* What the copy of a database leaves behind.
LEMMA Migrated ==
  ASSUME LoopInv, Migrate, phase' # "fatal"
  PROVE  /\ phase = "prepared" /\ UNCHANGED <<flags, opt, ver, src, dst, dbMap>>
         /\ ~(Extracts /\ TranslatePanics(cur))
         /\ DOMAIN results' = DOMAIN results \cup {cur}
         /\ \A d \in DOMAIN results : results'[d] = results[d]
         /\ results'[cur].fresh = sel.fresh
         /\ results'[cur].created = IF Extracts THEN Created(cur) ELSE {}
         /\ IF Changed(flags, "metadata-only") THEN results'[cur].copied = {}
            ELSE results'[cur].copied \in IF Extracts THEN TableMaps(sel.pairs) ELSE {sel.pairs}
         /\ skips \subseteq skips'
<1> DEFINE made == IF Extracts THEN Created(cur) ELSE {}
           copy(m) == IF Changed(flags, "metadata-only") THEN {} ELSE m
           done(m) == [copied |-> copy(m), created |-> made,
                       global |-> Extracts /\ NeedGlobalMetaData, fresh |-> sel.fresh]
           maps == IF Extracts THEN TableMaps(sel.pairs) ELSE {sel.pairs}
<1>1. /\ phase = "prepared" /\ UNCHANGED <<flags, opt, ver, src, dst, dbMap>>
      /\ ~(Extracts /\ TranslatePanics(cur)) /\ skips \subseteq skips'
      /\ \E m \in maps : results' = Put(results, cur, done(m))
  BY DEF Migrate, Fatal, Extracts, fixed
<1>2. PICK m \in maps : results' = Put(results, cur, done(m))
  BY <1>1
<1>3. done(m).copied = copy(m) /\ done(m).created = made /\ done(m).fresh = sel.fresh
  OBVIOUS
<1>4. cur \notin DOMAIN results
  BY <1>1 DEF LoopInv, VisitInv, Looping
<1> HIDE DEF done, made, maps, copy
<1>5. /\ DOMAIN results' = DOMAIN results \cup {cur}
      /\ \A d \in DOMAIN results : results'[d] = results[d]
      /\ results'[cur] = done(m)
  BY <1>2, <1>4 DEF Put
<1>6. IF Changed(flags, "metadata-only") THEN results'[cur].copied = {} ELSE results'[cur].copied \in maps
  BY <1>2, <1>3, <1>5 DEF copy
<1> QED
  BY <1>1, <1>3, <1>5, <1>6 DEF made, maps

\* The results stay as they are, unless a database is migrated.
LEMMA ResultSteps ==
  ASSUME LoopInv, [Next]_vars
  PROVE  \/ results' = <<>>
         \/ UNCHANGED <<flags, opt, ver, src, dst, dbMap, results>>
         \/ Migrate /\ phase' # "fatal"
<1>1. CASE phase \in {"flags", "connect", "names"}
  BY <1>1, Frame DEF LoopInv, EarlyInv, Migrate
<1>2. CASE phase \notin {"flags", "connect", "names"}
  <2>1. ~Migrate \/ phase' # "fatal" \/ UNCHANGED results
    BY DEF Migrate
  <2>2. phase # "flags"
    BY <1>2
  <2>3. phase \notin {"flags", "connect"}
    BY <1>2
  <2> QED
    BY <1>2, <2>1, <2>2, <2>3, Frame
<1> QED
  BY <1>1, <1>2

\* A table map holds some of the pairs.
LEMMA SomeOfPairs ==
  ASSUME NEW pairs, NEW m, m \in (IF Extracts THEN TableMaps(pairs) ELSE {pairs})
  PROVE  m \subseteq pairs
BY DEF TableMaps

\* Every step keeps the destination ready for what is copied.
LEMMA ReadyNext ==
  LoopInv /\ PairsInv /\ FilterInv /\ DestinationReady /\ [Next]_vars => DestinationReady'
<1> DEFINE ready(d, p) ==
             \/ p[2] \in Tables(dst[dbMap[d]]) \cup results[d].created
             \/ ~ContainsMetadata(flags)
             \/ /\ opt.copyMode = "table" /\ ver >= 7
                /\ p[1] \in Partitions(src[d]) \/ SplitTree(src[d])
             \/ /\ ver < 7 /\ Strays(src[d], p[1])
                /\ opt.copyMode = "schema" \/ opt.destSchemas # <<>>
             \/ SkipExisting /\ ( \/ opt.copyMode = "table" /\ opt.destSchemas # <<>>
                                  \/ ~results[d].fresh
                                  \/ LeafListOff(d)
                                  \/ SharesName(d, p[1]))
<1> SUFFICES ASSUME LoopInv, PairsInv, FilterInv, DestinationReady, [Next]_vars,
                    NEW d \in DOMAIN results', NEW p \in results'[d].copied
             PROVE  ready(d, p)'
  BY DEF DestinationReady
<1>1. CASE results' = <<>>
  BY SMTT(30), <1>1
<1>2. ASSUME UNCHANGED <<flags, opt, ver, src, dst, dbMap>>, d \in DOMAIN results, results'[d] = results[d]
      PROVE  ready(d, p)'
  <2>1. ready(d, p)
    BY <1>2 DEF DestinationReady
  <2> QED
    BY <1>2, <2>1, SameQuestion
<1>3. CASE Migrate /\ phase' # "fatal"
  <2>1. /\ phase = "prepared" /\ UNCHANGED <<flags, opt, ver, src, dst, dbMap>>
        /\ ~(Extracts /\ TranslatePanics(cur))
        /\ DOMAIN results' = DOMAIN results \cup {cur}
        /\ \A e \in DOMAIN results : results'[e] = results[e]
        /\ results'[cur].fresh = sel.fresh
        /\ results'[cur].created = IF Extracts THEN Created(cur) ELSE {}
        /\ IF Changed(flags, "metadata-only") THEN results'[cur].copied = {}
           ELSE results'[cur].copied \in IF Extracts THEN TableMaps(sel.pairs) ELSE {sel.pairs}
    BY <1>3, Migrated
  <2>2. CASE d \in DOMAIN results
    BY <1>2, <2>1, <2>2
  <2>3. CASE d = cur
    <3>1. p \in sel.pairs /\ ~Global
      <4>1. ~Changed(flags, "metadata-only")
        BY <2>1, <2>3
      <4>2. results'[cur].copied \subseteq sel.pairs
        BY <2>1, <4>1, SomeOfPairs
      <4>3. ~Global
        BY <2>1, <4>1 DEF Global, LoopInv, OptionInv, OptionFacts, Looping
      <4> QED
        BY <2>3, <4>2, <4>3
    <3>2. opt.destTables # <<>> => opt.copyMode = "table"
      BY <2>1 DEF LoopInv, OptionInv, OptionFacts, Looping
    <3> SUFFICES ASSUME ContainsMetadata(flags),
                        ~(/\ opt.copyMode = "table" /\ ver >= 7
                          /\ p[1] \in Partitions(src[cur]) \/ SplitTree(src[cur])),
                        ~(/\ ver < 7 /\ Strays(src[cur], p[1])
                          /\ opt.copyMode = "schema" \/ opt.destSchemas # <<>>),
                        SkipExisting => /\ ~(opt.copyMode = "table" /\ opt.destSchemas # <<>>)
                                        /\ sel.fresh /\ ~LeafListOff(cur) /\ ~SharesName(cur, p[1])
                 PROVE  p[2] \in Tables(dst[dbMap[cur]]) \cup results'[cur].created
      BY <2>1, <2>3, SameQuestion
    <3>3. opt.destTables = <<>> <=> Extracts
      BY <3>2 DEF Extracts
    <3>4. IF opt.destTables = <<>> THEN p[2] \in Created(cur) ELSE p[2] \in Tables(dst[dbMap[cur]])
      BY <2>1, <3>1, <3>3, ReadyPair
    <3> QED
      BY <2>1, <3>3, <3>4
  <2> QED
    BY <2>1, <2>2, <2>3
<1> QED
  BY <1>1, <1>2, <1>3, ResultSteps

\* A worker never copies into a table that neither was on the destination nor
\* came with the extracted DDL: the pair filter, the plan of the DDL and the
\* DDL filter agree on every pair, outside of the cases DestinationReady names.
THEOREM DestinationReadyHolds == Spec => []DestinationReady
<1>1. Init => PairsInv /\ FilterInv /\ DestinationReady
  BY SMTT(30) DEF Init, PairsInv, FilterInv, DestinationReady
<1> QED
  BY <1>1, LoopInvHolds, PairsNext, FilterNext, ReadyNext, PTL DEF Spec

----------------------------------------------------------------------------
(* The tables asked for *)

\* The tables of a database that are to be copied.
Due(d) == {t \in Wanted(d) : ~(SkipExisting /\ Present(d, t))}

\* The others are in the list of --skip-existing.
Listed(d) ==
    ~Collide(d) =>
        \A t \in Wanted(d) \ Due(d) : \E s \in skips :
            s.db = dbMap[d] /\ (opt.destTables = <<>> => s.rel = Redirect(t))

Exactly(d, tables) == tables \subseteq Wanted(d) /\ (~Collide(d) => tables = Due(d))

Sources(pairs) == {p[1] : p \in pairs}

\* The pairs are of the tables asked for; the filter takes those away that are
\* on the destination.
WantedInv ==
    phase \in {"selected", "prepared"} /\ ~Global /\ sel.fresh /\ ~Off(cur) =>
        /\ phase = "selected" =>
              /\ Sources(sel.pairs) = Wanted(cur)
              /\ SkipExisting => inv[dbMap[cur]] = Tables(dst[dbMap[cur]])
              /\ opt.destTables # <<>> => \A t \in Wanted(cur) : DestOf(t) \in Tables(dst[dbMap[cur]])
        /\ phase = "prepared" => Exactly(cur, Sources(sel.pairs)) /\ Listed(cur)

ResultsInv ==
    \A d \in DOMAIN results :
        results[d].fresh /\ ~Changed(flags, "metadata-only") /\ ~Off(d) =>
            Exactly(d, Sources(results[d].copied)) /\ Listed(d)

\* A table asked for has rows of its own.
LEMMA WantedHasRows ==
  ASSUME NEW d
  PROVE  Wanted(d) \subseteq QueryUserTables(src[d])
BY DEF Wanted, Under, FilterTablesBySchema

\* Names of tables with rows stand for themselves.
LEMMA UnderItself ==
  ASSUME NEW c, WellFormed(c), NEW names \in SUBSET QueryUserTables(c)
  PROVE  Under(c, names) = names
<1>1. \A t \in Partitions(c) : RootOf(c, t) \notin QueryUserTables(c)
  BY TreeRoot
<1> QED
  BY <1>1 DEF Under

\* The first components of pairs made of tables.
LEMMA SourcesOf ==
  ASSUME NEW ts
  PROVE  Sources(Redirected(ts)) = ts
<1> DEFINE pair(t) == <<t, Redirect(t)>>
<1>1. \A t : pair(t)[1] = t
  OBVIOUS
<1>2. Redirected(ts) = {pair(t) : t \in ts}
  BY DEF Redirected
<1> HIDE DEF pair
<1>3. Sources(Redirected(ts)) = {p[1] : p \in {pair(t) : t \in ts}}
  BY <1>2 DEF Sources
<1> QED
  BY SMTT(30), <1>1, <1>3

\* The pairs of --include-table and --dest-table are of the tables asked for.
LEMMA WantedByPosition ==
  ASSUME LoopInv, phase = "loop", NEW d \in todo, ~Global, opt.destTables # <<>>, ~DestTablesInvalid(d)
  PROVE  /\ Sources(ExcludeTablePair(d)) = Wanted(d)
         /\ \A t \in Wanted(d) : DestOf(t) \in Tables(dst[dbMap[d]])
<1> DEFINE c == src[d]
           user == QueryUserTables(c)
           s == TablesByDb(d, opt.includedTables)
           t == TablesByDb(dbMap[d], opt.destTables)
           excl == Range(TablesByDb(d, opt.excludedTables))
           name(k) == <<opt.includedTables[k][2], opt.includedTables[k][3]>>
           dest(k) == <<opt.destTables[k][2], opt.destTables[k][3]>>
<1>1. d \in DOMAIN dbMap /\ phase \in Looping
  BY DEF LoopInv, VisitInv, Looping
<1>2. /\ opt.copyMode = "table" /\ NamesTables(flags)
      /\ opt.destTables \in Seq(DbTable) /\ opt.includedTables \in Seq(DbTable)
      /\ opt.excludedTables \in Seq(DbTable) /\ OneDatabase(opt.excludedTables)
      /\ Len(opt.includedTables) = Len(opt.destTables)
  BY <1>1 DEF LoopInv, OptionInv, OptionFacts
<1>3. WellFormed(c)
  BY <1>1 DEF LoopInv, SourceInv, VisitInv, Global
<1>4. /\ DestTableMode(d)
      /\ s = [k \in 1 .. Len(opt.destTables) |-> name(k)]
      /\ t = [k \in 1 .. Len(opt.destTables) |-> dest(k)]
  BY <1>1, DestTableLists
<1>5. /\ DOMAIN opt.includedTables = 1 .. Len(opt.destTables)
      /\ DOMAIN opt.destTables = 1 .. Len(opt.destTables)
  BY SMTT(30), <1>2
<1>6. /\ \A k \in DOMAIN opt.includedTables : name(k) \in user
      /\ \A k \in DOMAIN opt.excludedTables : <<opt.excludedTables[k][2], opt.excludedTables[k][3]>> \in user
      /\ \A k \in DOMAIN opt.destTables : dest(k) \in QueryUserTables(dst[dbMap[d]])
  BY <1>2, <1>4 DEF DestTablesInvalid, ValidatePartTables
<1>7. excl \in SUBSET user
  <2> SUFFICES ASSUME NEW x \in excl PROVE x \in user
    OBVIOUS
  <2>1. PICK k \in DOMAIN opt.excludedTables : x = <<opt.excludedTables[k][2], opt.excludedTables[k][3]>>
    BY <1>2, FoundByDb, ZenonT(30)
  <2> QED
    BY <1>6, <2>1
<1> HIDE DEF name, dest
<1>8. Range(s) = {name(k) : k \in 1 .. Len(opt.destTables)} /\ Range(s) \in SUBSET user
  <2> HIDE DEF s
  <2>1. Range(s) = {name(k) : k \in 1 .. Len(opt.destTables)}
    BY <1>4 DEF Range
  <2> QED
    BY <1>5, <1>6, <2>1
<1>9. Wanted(d) = Range(s) \ excl
  <2>1. Wanted(d) = Under(c, Range(s)) \ Under(c, excl)
    BY <1>2 DEF Wanted
  <2> HIDE DEF s, excl, c
  <2>2. Under(c, Range(s)) = Range(s) /\ Under(c, excl) = excl
    BY <1>3, <1>7, <1>8, UnderItself DEF user
  <2> QED
    BY <2>1, <2>2
<1>10. Sources(ExcludeTablePair(d)) = Wanted(d)
  <2> DEFINE pair(k) == <<s[k], t[k]>>
             ks == {n \in DOMAIN s : s[n] \in user \ excl}
  <2>1. ExcludeTablePair(d) = {pair(k) : k \in ks}
    BY DEF ExcludeTablePair
  <2> HIDE DEF s, t, excl, user
  <2>2. \A k : pair(k)[1] = s[k]
    OBVIOUS
  <2> HIDE DEF pair
  <2>3. Sources(ExcludeTablePair(d)) = {s[k] : k \in ks}
    <3>1. Sources(ExcludeTablePair(d)) = {p[1] : p \in {pair(k) : k \in ks}}
      BY <2>1 DEF Sources
    <3> HIDE DEF ks
    <3> QED
      BY SMTT(30), <2>2, <3>1
  <2>4. {s[k] : k \in ks} = Range(s) \ excl
    BY <1>8 DEF Range
  <2> QED
    BY <1>9, <2>3, <2>4
<1>11. ASSUME NEW u \in Wanted(d)
       PROVE  DestOf(u) \in Tables(dst[dbMap[d]])
  <2> DEFINE n == CHOOSE k \in DOMAIN opt.includedTables : name(k) = u
  <2>1. \E k \in DOMAIN opt.includedTables : name(k) = u
    BY <1>5, <1>8, <1>9, <1>11
  <2>2. n \in DOMAIN opt.includedTables
    BY <2>1
  <2>3. DestOf(u) = dest(n)
    BY DEF DestOf, name, dest
  <2> HIDE DEF n
  <2> QED
    BY <1>5, <1>6, <2>2, <2>3 DEF Tables, QueryUserTables, Leaves
<1> QED
  BY <1>10, <1>11

\* GetUserTables with empty caches selects the tables asked for.
LEMMA WantedPairs ==
  ASSUME LoopInv, phase = "loop", NEW d \in todo, ~Global, ~DestTablesInvalid(d),
         cache = NoCache, ~Off(d)
  PROVE  Sources(SelectedTables(d).pairs) = Wanted(d)
<1> DEFINE c == src[d]
           under(tables) == Under(c, Range(TablesByDb(d, tables)))
<1>1. d \in DOMAIN dbMap /\ phase \in Looping
  BY DEF LoopInv, VisitInv, Looping
<1>2. WellFormed(c) /\ ver \in {6, 7} /\ ~(ver >= 7 /\ (MultiLevel(c) \/ SplitTree(c)))
  BY <1>1 DEF LoopInv, SourceInv, VisitInv, Global, Off, LeafListOff
<1>3. NamesTables(flags) <=> opt.copyMode = "table"
  BY <1>1 DEF LoopInv, OptionInv, OptionFacts, Off, NothingListed
<1>4. SrcLeafTables(d) = QueryLeafTables(c, ver)
  BY DEF SrcLeafTables, NoCache
<1>5. Excluded(d) = under(opt.excludedTables) /\ Included(d).tables = under(opt.includedTables)
  <2> DEFINE expand(names) == ExpandPartTables(names, QueryUserTables(c), SrcLeafTables(d)).tables
  <2>1. \A names : expand(names) = Under(c, names)
    BY SMTT(30), <1>2, <1>4, ExpandsToUnder
  <2>2. /\ Excluded(d) = expand(Range(TablesByDb(d, opt.excludedTables)))
        /\ Included(d).tables = expand(Range(TablesByDb(d, opt.includedTables)))
    BY ZenonT(30) DEF Excluded, Included
  <2> HIDE DEF expand
  <2> QED
    BY <2>1, <2>2
<1>6. CASE opt.copyMode # "table"
  <2>1. Wanted(d) = FilterTablesBySchema(QueryUserTables(c)) \ under(opt.excludedTables)
    BY <1>3, <1>6 DEF Wanted
  <2>2. SelectedTables(d).pairs = Redirected(FilterTablesBySchema(QueryUserTables(c)) \ Excluded(d))
    BY <1>6, SelectedFields
  <2> QED
    BY <1>5, <2>1, <2>2, SourcesOf
<1>7. CASE opt.copyMode = "table" /\ opt.destTables = <<>>
  <2>1. Wanted(d) = under(opt.includedTables) \ under(opt.excludedTables)
    BY <1>3, <1>7 DEF Wanted
  <2>2. SelectedTables(d).pairs = Redirected(Included(d).tables \ Excluded(d))
    BY <1>7, SelectedFields
  <2> QED
    BY <1>5, <2>1, <2>2, SourcesOf
<1>8. CASE opt.copyMode = "table" /\ opt.destTables # <<>>
  <2>1. SelectedTables(d).pairs = ExcludeTablePair(d)
    BY <1>8, SelectedFields
  <2> QED
    BY <1>8, <2>1, WantedByPosition
<1> QED
  BY <1>6, <1>7, <1>8

\* Without --dest-table the pair filter takes away the pairs whose table or root
\* is on the destination, unless two tables collide.
LEMMA FilterAgrees ==
  ASSUME LoopInv, PairsInv, WantedInv, phase = "selected", ~Global, sel.fresh, ~Off(cur),
         SkipExisting, opt.destTables = <<>>, ~Collide(cur),
         NEW f \in LeafToRoot(sel.partMap), NEW p \in sel.pairs
  PROVE  p[2] = Redirect(p[1]) /\ (PairExists(cur, p, f) <=> Present(cur, p[1]))
<1> DEFINE c == src[cur]
           t == p[1]
           there == Tables(dst[dbMap[cur]])
<1>1. /\ Sources(sel.pairs) = Wanted(cur) /\ inv[dbMap[cur]] = there
      /\ sel.partMap = SourceMapping(cur) /\ SoundPair(cur, p)
  BY DEF WantedInv, PairsInv
<1>2. WellFormed(c) /\ ver \in {6, 7} /\ ~LeafListOff(cur)
  BY DEF LoopInv, SourceInv, VisitInv, Global, Looping, Off
<1>3. p[2] = Redirect(t) /\ t \in Wanted(cur) /\ t \in QueryUserTables(c)
  <2>1. p[2] = Redirect(t)
    BY <1>1 DEF SoundPair
  <2>2. t \in Wanted(cur)
    BY <1>1 DEF Sources
  <2> QED
    BY <2>1, <2>2, WantedHasRows
<1>4. ~SharesName(cur, t)
  BY <1>3 DEF Collide
<1>5. /\ Redirect(t) \in DOMAIN f <=> t \in Partitions(c)
      /\ t \in Partitions(c) => f[Redirect(t)] = Redirect(RootOf(c, t))
  <2>1. f \in LeafToRoot(SourceMapping(cur))
    BY <1>1
  <2> QED
    BY SMTT(30), <1>2, <1>3, <1>4, <2>1, RootInMap
<1>6. /\ PairExists(cur, p, f) <=> \/ Redirect(t) \in there
                                   \/ Redirect(t) \in DOMAIN f /\ f[Redirect(t)] \in there
      /\ Present(cur, t) <=> Redirect(t) \in there \/ (t \in Partitions(c) /\ Redirect(RootOf(c, t)) \in there)
  BY <1>1, <1>3, ZenonT(30) DEF PairExists, IsDestTableExisting, Present, DestOf
<1> QED
  BY <1>3, <1>5, <1>6

\* With --dest-table every table asked for has its table on the destination, so
\* that --skip-existing leaves nothing to copy.
LEMMA FilterLeavesNothing ==
  ASSUME PairsInv, WantedInv, phase = "selected", ~Global, sel.fresh, ~Off(cur),
         SkipExisting, opt.destTables # <<>>
  PROVE  /\ \A t \in Wanted(cur) : Present(cur, t)
         /\ \A p \in sel.pairs : \A f : PairExists(cur, p, f)
<1>1. /\ inv[dbMap[cur]] = Tables(dst[dbMap[cur]])
      /\ \A t \in Wanted(cur) : DestOf(t) \in Tables(dst[dbMap[cur]])
      /\ \A p \in sel.pairs : SoundPair(cur, p)
  BY DEF WantedInv, PairsInv
<1>2. \A t \in Wanted(cur) : Present(cur, t)
  BY <1>1 DEF Present
<1>3. \A p \in sel.pairs : p[2] \in Tables(dst[dbMap[cur]])
  BY <1>1 DEF SoundPair
<1> QED
  BY <1>1, <1>2, <1>3 DEF PairExists, IsDestTableExisting

\* The pair filter leaves the tables that are to be copied, and lists the others.
LEMMA FilterExact ==
  ASSUME LoopInv, PairsInv, WantedInv, phase = "selected", ~Global, sel.fresh, ~Off(cur),
         NEW f, SkipExisting => f \in LeafToRoot(sel.partMap)
  PROVE  /\ Exactly(cur, Sources(FilterTablePairs(cur, f)))
         /\ ~Collide(cur) =>
               \A t \in Wanted(cur) \ Due(cur) : \E s \in PairSkips(cur, f) :
                  s.db = dbMap[cur] /\ (opt.destTables = <<>> => s.rel = Redirect(t))
<1>1. Sources(sel.pairs) = Wanted(cur)
  BY DEF WantedInv
<1>2. CASE ~SkipExisting
  <2>1. FilterTablePairs(cur, f) = sel.pairs /\ Due(cur) = Wanted(cur)
    BY <1>2 DEF FilterTablePairs, Due
  <2> QED
    BY <1>1, <2>1 DEF Exactly
<1>3. CASE SkipExisting
  <2> DEFINE left == FilterTablePairs(cur, f)
             entry(p) == [db |-> dbMap[cur], rel |-> p[2], reason |-> "exists"]
  <2>1. left = {p \in sel.pairs : ~PairExists(cur, p, f)}
    BY <1>3 DEF FilterTablePairs
  <2>2. Due(cur) = {t \in Wanted(cur) : ~Present(cur, t)}
    BY <1>3 DEF Due
  <2>3. PairSkips(cur, f) = {entry(p) : p \in sel.pairs \ left}
    BY DEF PairSkips
  <2>4. \A p : entry(p).db = dbMap[cur] /\ entry(p).rel = p[2]
    OBVIOUS
  <2> HIDE DEF left, entry
  <2>5. \A p \in sel.pairs : PairExists(cur, p, f) =>
           \E s \in PairSkips(cur, f) : s.db = dbMap[cur] /\ s.rel = p[2]
    <3>1. \A p \in sel.pairs : PairExists(cur, p, f) => entry(p) \in PairSkips(cur, f)
      BY <2>1, <2>3
    <3> QED
      BY <2>4, <3>1
  <2>6. \A t \in Wanted(cur) : \E p \in sel.pairs : p[1] = t
    BY <1>1 DEF Sources
  <2>7. Sources(left) \subseteq Wanted(cur)
    BY <1>1, <2>1 DEF Sources
  <2> SUFFICES ASSUME ~Collide(cur)
               PROVE  /\ Sources(left) = Due(cur)
                      /\ \A t \in Wanted(cur) \ Due(cur) : \E s \in PairSkips(cur, f) :
                            s.db = dbMap[cur] /\ (opt.destTables = <<>> => s.rel = Redirect(t))
    BY <2>7 DEF Exactly, left
  <2>8. CASE opt.destTables # <<>>
    <3>1. /\ \A t \in Wanted(cur) : Present(cur, t)
          /\ \A p \in sel.pairs : PairExists(cur, p, f)
      BY <1>3, <2>8, FilterLeavesNothing
    <3>2. Sources(left) = {} /\ Due(cur) = {}
      BY <2>1, <2>2, <3>1 DEF Sources
    <3>3. \A t \in Wanted(cur) \ Due(cur) : \E s \in PairSkips(cur, f) : s.db = dbMap[cur]
      BY <2>5, <2>6, <3>1, ZenonT(30)
    <3> QED
      BY <2>8, <3>2, <3>3
  <2>9. CASE opt.destTables = <<>>
    <3>1. \A p \in sel.pairs : p[2] = Redirect(p[1]) /\ (PairExists(cur, p, f) <=> Present(cur, p[1]))
      BY <1>3, <2>9, FilterAgrees, ZenonT(30)
    <3>2. Sources(left) \subseteq Due(cur)
      BY <2>1, <2>2, <2>7, <3>1 DEF Sources
    <3>3. ASSUME NEW t \in Due(cur)
          PROVE  t \in Sources(left)
      <4>1. PICK p \in sel.pairs : p[1] = t
        BY <2>2, <2>6
      <4>2. p \in left
        BY <2>1, <2>2, <3>1, <4>1
      <4> QED
        BY <4>1, <4>2 DEF Sources
    <3>4. ASSUME NEW t \in Wanted(cur), t \notin Due(cur)
          PROVE  \E s \in PairSkips(cur, f) : s.db = dbMap[cur] /\ s.rel = Redirect(t)
      <4>1. PICK p \in sel.pairs : p[1] = t
        BY <2>6
      <4>2. PairExists(cur, p, f) /\ p[2] = Redirect(t)
        BY <2>2, <3>1, <3>4, <4>1
      <4> QED
        BY <2>5, <4>2
    <3> QED
      BY <3>2, <3>3, <3>4
  <2> QED
    BY <2>8, <2>9
<1> QED
  BY <1>2, <1>3

\* The table map loses a table only to one of the same name on the destination.
LEMMA MapExact ==
  ASSUME LoopInv, PairsInv, phase = "prepared", ~Global, Exactly(cur, Sources(sel.pairs)),
         NEW m \in (IF Extracts THEN TableMaps(sel.pairs) ELSE {sel.pairs})
  PROVE  Exactly(cur, Sources(m))
<1>1. CASE ~Extracts
  BY <1>1
<1>2. CASE Extracts
  <2>1. opt.destTables = <<>>
    BY <1>2 DEF Extracts, LoopInv, OptionInv, OptionFacts, Looping
  <2>2. \A p \in sel.pairs : p[2] = Redirect(p[1])
    BY <2>1 DEF PairsInv, SoundPair
  <2>3. m \subseteq sel.pairs /\ \A p \in sel.pairs : \E q \in m : q[2] = p[2]
    <3>1. m \subseteq sel.pairs /\ {p[2] : p \in m} = {p[2] : p \in sel.pairs}
      BY <1>2 DEF TableMaps
    <3> QED
      BY SMTT(30), <3>1
  <2>4. Sources(m) \subseteq Sources(sel.pairs)
    BY <2>3 DEF Sources
  <2>5. \A p \in sel.pairs : p[1] \in Wanted(cur) /\ p[1] \in QueryUserTables(src[cur])
    <3>1. Sources(sel.pairs) \subseteq Wanted(cur)
      BY DEF Exactly
    <3> QED
      BY <3>1, WantedHasRows DEF Sources
  <2>6. ~Collide(cur) => Sources(sel.pairs) \subseteq Sources(m)
    <3> SUFFICES ASSUME ~Collide(cur), NEW p \in sel.pairs
                 PROVE  p[1] \in Sources(m)
      BY DEF Sources
    <3>1. PICK q \in m : q[2] = p[2]
      BY <2>3
    <3>2. q[1] = p[1]
      BY SMTT(30), <2>2, <2>3, <2>5, <3>1 DEF Collide, SharesName
    <3> QED
      BY <3>1, <3>2 DEF Sources
  <2> QED
    BY <2>4, <2>6 DEF Exactly
<1> QED
  BY <1>1, <1>2

\* What is asked for, what is due and what is listed depend on what no later
\* step changes.
LEMMA SameDemand ==
  ASSUME UNCHANGED <<flags, opt, ver, src, dst, dbMap>>
  PROVE  /\ \A d : Wanted(d)' = Wanted(d)
         /\ \A t : DestOf(t)' = DestOf(t)
         /\ \A d : Due(d)' = Due(d)
         /\ \A d : Collide(d)' <=> Collide(d)
         /\ \A d, tables : Exactly(d, tables)' <=> Exactly(d, tables)
<1>1. /\ \A t : Redirect(t)' = Redirect(t)
      /\ SkipExisting' <=> SkipExisting
      /\ \A d, t : SharesName(d, t)' <=> SharesName(d, t)
  BY SameQuestion
<1>2. \A d : Wanted(d)' = Wanted(d)
  BY ZenonT(30) DEF Wanted, FilterTablesBySchema
<1>3. \A t : DestOf(t)' = DestOf(t)
  <2> DEFINE at(o, t) == CHOOSE k \in DOMAIN o.includedTables :
                            <<o.includedTables[k][2], o.includedTables[k][3]>> = t
             dest(o, t) == <<o.destTables[at(o, t)][2], o.destTables[at(o, t)][3]>>
  <2>1. \A t : /\ DestOf(t) = IF opt.destTables = <<>> THEN Redirect(t) ELSE dest(opt, t)
               /\ DestOf(t)' = IF opt'.destTables = <<>> THEN Redirect(t)' ELSE dest(opt', t)
    BY ZenonT(30) DEF DestOf
  <2> HIDE DEF dest
  <2> QED
    BY <1>1, <2>1
<1>4. \A d, t : Present(d, t)' <=> Present(d, t)
  BY <1>1, <1>3 DEF Present
<1>5. \A d : Due(d)' = Due(d)
  BY <1>1, <1>2, <1>4 DEF Due
<1>6. \A d : Collide(d)' <=> Collide(d)
  BY <1>1, <1>2 DEF Collide
<1>7. \A d, tables : Exactly(d, tables)' <=> Exactly(d, tables)
  BY <1>2, <1>5, <1>6 DEF Exactly
<1> QED
  BY <1>2, <1>3, <1>5, <1>6, <1>7

\* A longer list lists what was listed.
LEMMA StillListed ==
  ASSUME UNCHANGED <<flags, opt, ver, src, dst, dbMap>>, NEW d, Listed(d),
         \A s \in skips : \E u \in skips' : u.db = s.db /\ u.rel = s.rel
  PROVE  Listed(d)'
<1>1. /\ Wanted(d)' = Wanted(d) /\ Due(d)' = Due(d) /\ (Collide(d)' <=> Collide(d))
      /\ \A t : Redirect(t)' = Redirect(t)
  BY SameDemand, SameQuestion
<1> SUFFICES ASSUME ~Collide(d), NEW t \in Wanted(d) \ Due(d)
             PROVE  \E s \in skips' : s.db = dbMap[d] /\ (opt.destTables = <<>> => s.rel = Redirect(t))
  BY <1>1 DEF Listed
<1>2. PICK s \in skips : s.db = dbMap[d] /\ (opt.destTables = <<>> => s.rel = Redirect(t))
  BY DEF Listed
<1> QED
  BY <1>2

\* dedupByDestFQN keeps an entry for every relation.
LEMMA DedupKeeps ==
  ASSUME NEW list, NEW s \in list
  PROVE  \E u \in Dedup(list) : u.db = s.db /\ u.rel = s.rel
<1> DEFINE same == {t \in list : t.db = s.db /\ t.rel = s.rel}
<1>1. \A t : Score(t.reason) \in {1, 2, 3}
  BY DEF Score
<1>2. ASSUME NEW u \in same, \A t \in same : Score(t.reason) <= Score(u.reason)
      PROVE  u \in Dedup(list)
  BY <1>2 DEF Dedup
<1>3. \E u \in same : \A t \in same : Score(t.reason) <= Score(u.reason)
  <2>1. s \in same
    OBVIOUS
  <2> HIDE DEF same
  <2>2. CASE \E u \in same : Score(u.reason) = 3
    BY SMTT(30), <1>1, <2>2
  <2>3. CASE (\E u \in same : Score(u.reason) = 2) /\ \A t \in same : Score(t.reason) # 3
    <3>1. \A t \in same : Score(t.reason) <= 2
      BY SMTT(30), <1>1, <2>3
    <3> QED
      BY <2>3, <3>1
  <2>4. CASE \A t \in same : Score(t.reason) # 3 /\ Score(t.reason) # 2
    <3>1. \A t \in same : Score(t.reason) = 1
      BY <1>1, <2>4
    <3> QED
      BY SMTT(30), <2>1, <3>1
  <2> QED
    BY <2>2, <2>3, <2>4
<1> QED
  BY <1>2, <1>3

\* No step loses an entry of the list.
LEMMA SkipsKept ==
  ASSUME LoopInv, [Next]_vars
  PROVE  \A s \in skips : \E u \in skips' : u.db = s.db /\ u.rel = s.rel
<1>1. CASE skips \subseteq skips'
  BY <1>1
<1>2. CASE skips' = Dedup(skips)
  BY <1>2, DedupKeeps
<1>3. CASE Setup \/ Connect \/ NameDatabases
  BY <1>1, <1>3 DEF Setup, Connect, NameDatabases
<1>4. ASSUME NEW d \in todo, SelectTables(d)
      PROVE  skips' = skips
  BY <1>4 DEF SelectTables
<1>5. CASE Prepare
  BY <1>1, <1>5 DEF Prepare
<1>6. CASE Migrate
  <2>1. skips \subseteq skips'
    BY <1>6 DEF Migrate
  <2> QED
    BY <1>1, <2>1
<1>7. CASE Summary
  BY <1>2, <1>7 DEF Summary
<1>8. CASE UNCHANGED vars
  BY <1>1, <1>8 DEF vars
<1> QED
  BY <1>1, <1>3, <1>4, <1>5, <1>6, <1>7, <1>8, ZenonT(30) DEF Next, Ended

\* Every step keeps the pairs those of the tables asked for.
LEMMA WantedNext == LoopInv /\ PairsInv /\ WantedInv /\ [Next]_vars => WantedInv'
<1> DEFINE there == Tables(dst[dbMap[cur]])
           goal == /\ phase = "selected" =>
                         /\ Sources(sel.pairs) = Wanted(cur)
                         /\ SkipExisting => inv[dbMap[cur]] = there
                         /\ opt.destTables # <<>> => \A t \in Wanted(cur) : DestOf(t) \in there
                   /\ phase = "prepared" => Exactly(cur, Sources(sel.pairs)) /\ Listed(cur)
<1> SUFFICES ASSUME LoopInv, PairsInv, WantedInv, [Next]_vars, phase' \in {"selected", "prepared"},
                    ~Global', sel'.fresh, ~Off(cur)'
             PROVE  goal'
  BY DEF WantedInv
<1>1. UNCHANGED <<flags, opt, ver, src, dst, dbMap>>
  BY SelectionSteps
<1>2. /\ ~Global /\ (SkipExisting' <=> SkipExisting) /\ ~Off(cur')
      /\ \A d : Wanted(d)' = Wanted(d)
      /\ \A t : DestOf(t)' = DestOf(t)
      /\ \A d, tables : Exactly(d, tables)' <=> Exactly(d, tables)
  BY <1>1, SameQuestion, SameDemand
<1>3. CASE UNCHANGED <<phase, cur, sel, inv, cache, skips>>
  <2>1. goal
    BY <1>2, <1>3 DEF WantedInv
  <2>2. Listed(cur) => Listed(cur)'
    <3>1. \A s \in skips : \E u \in skips' : u.db = s.db /\ u.rel = s.rel
      BY SkipsKept
    <3>2. \A d : Listed(d) => Listed(d)'
      BY <1>1, <3>1, StillListed
    <3> QED
      BY <1>3, <3>2
  <2> QED
    BY <1>1, <1>2, <1>3, <2>1, <2>2, ZenonT(30)
<1>4. ASSUME phase = "loop", phase' = "selected", cur' \in todo, sel' = SelectedTables(cur'),
             ~DestTablesInvalid(cur'),
             SkipExisting => inv' = Put(inv, dbMap[cur'], DestInventory(cur'))
      PROVE  goal'
  <2> DEFINE d == cur'
  <2>1. cache = NoCache
    BY <1>2, <1>4, SelectedFields
  <2>2. Sources(sel'.pairs) = Wanted(d)
    BY <1>2, <1>4, <2>1, WantedPairs
  <2>3. SkipExisting => inv'[dbMap[d]] = Tables(dst[dbMap[d]])
    <3>1. DestInventory(d) = QueryUserTables(dst[dbMap[d]]) \cup RootsOf(QueryLeafTables(dst[dbMap[d]], 7))
      BY <2>1 DEF DestInventory, DestLeafTables, NoCache
    <3>2. DestInventory(d) = Tables(dst[dbMap[d]])
      BY <3>1, WholeInventory
    <3>3. SkipExisting => inv'[dbMap[d]] = DestInventory(d)
      BY <1>4 DEF Put
    <3> QED
      BY <3>2, <3>3
  <2>4. opt.destTables # <<>> => \A t \in Wanted(d) : DestOf(t) \in Tables(dst[dbMap[d]])
    BY <1>2, <1>4, WantedByPosition
  <2>5. phase' # "prepared"
    BY <1>4
  <2> QED
    BY <1>1, <1>2, <1>4, <2>2, <2>3, <2>4, <2>5, ZenonT(30)
<1>5. ASSUME phase = "selected", phase' = "prepared", UNCHANGED <<cur, inv, cache>>,
             NEW f, NEW parents, Filters(f, parents)
      PROVE  goal'
  <2>1. /\ sel'.pairs = FilterTablePairs(cur, f) /\ sel.fresh /\ ~Off(cur)
        /\ SkipExisting => f \in LeafToRoot(sel.partMap)
        /\ skips' = skips \cup PairSkips(cur, f)
    <3>1. /\ sel'.pairs = FilterTablePairs(cur, f) /\ sel'.fresh = sel.fresh
          /\ SkipExisting => f \in LeafToRoot(sel.partMap)
          /\ skips' = skips \cup PairSkips(cur, f)
      BY <1>5 DEF Filters
    <3> QED
      BY <1>2, <1>5, <3>1
  <2>2. /\ Exactly(cur, Sources(FilterTablePairs(cur, f)))
        /\ ~Collide(cur) =>
              \A t \in Wanted(cur) \ Due(cur) : \E s \in PairSkips(cur, f) :
                 s.db = dbMap[cur] /\ (opt.destTables = <<>> => s.rel = Redirect(t))
    BY <1>2, <1>5, <2>1, FilterExact
  <2>3. Listed(cur)'
    <3>1. /\ Wanted(cur)' = Wanted(cur) /\ Due(cur)' = Due(cur) /\ (Collide(cur)' <=> Collide(cur))
          /\ \A t : Redirect(t)' = Redirect(t)
      <4>1. \A d : Wanted(d)' = Wanted(d) /\ Due(d)' = Due(d) /\ (Collide(d)' <=> Collide(d))
        BY <1>1, SameDemand
      <4> QED
        BY <1>1, <1>5, <4>1, SameQuestion
    <3>2. ~Collide(cur) =>
             \A t \in Wanted(cur) \ Due(cur) : \E s \in skips' :
                s.db = dbMap[cur] /\ (opt.destTables = <<>> => s.rel = Redirect(t))
      BY <2>1, <2>2
    <3> QED
      BY <1>1, <1>5, <3>1, <3>2 DEF Listed
  <2>4. Exactly(cur, Sources(sel.pairs))'
    BY <1>2, <1>5, <2>1, <2>2
  <2>5. phase' # "selected"
    BY <1>5
  <2> QED
    BY <2>3, <2>4, <2>5
<1> QED
  BY <1>2, <1>3, <1>4, <1>5, SelectionSteps

\* Every step keeps the results those asked for.
LEMMA ResultsNext == LoopInv /\ PairsInv /\ WantedInv /\ ResultsInv /\ [Next]_vars => ResultsInv'
<1> SUFFICES ASSUME LoopInv, PairsInv, WantedInv, ResultsInv, [Next]_vars, NEW d \in DOMAIN results',
                    results'[d].fresh, ~Changed(flags', "metadata-only"), ~Off(d)'
             PROVE  Exactly(d, Sources(results[d].copied))' /\ Listed(d)'
  BY DEF ResultsInv
<1>1. CASE results' = <<>>
  BY SMTT(30), <1>1
<1>2. ASSUME UNCHANGED <<flags, opt, ver, src, dst, dbMap>>,
             Exactly(d, Sources(results'[d].copied)), Listed(d)
      PROVE  Exactly(d, Sources(results[d].copied))' /\ Listed(d)'
  <2>1. \A tables : Exactly(d, tables)' <=> Exactly(d, tables)
    BY <1>2, SameDemand
  <2>2. \A s \in skips : \E u \in skips' : u.db = s.db /\ u.rel = s.rel
    BY SkipsKept
  <2>3. Listed(d)'
    BY <1>2, <2>2, StillListed
  <2> QED
    BY <1>2, <2>1, <2>3, ZenonT(30)
<1>3. ASSUME UNCHANGED <<flags, opt, ver, src, dst, dbMap>>, d \in DOMAIN results, results'[d] = results[d]
      PROVE  Exactly(d, Sources(results[d].copied))' /\ Listed(d)'
  <2>1. ~Off(d)
    BY <1>3, SameQuestion
  <2>2. Exactly(d, Sources(results'[d].copied)) /\ Listed(d)
    BY <1>3, <2>1 DEF ResultsInv
  <2> QED
    BY <1>2, <1>3, <2>2, ZenonT(30)
<1>4. CASE Migrate /\ phase' # "fatal"
  <2>1. /\ phase = "prepared" /\ UNCHANGED <<flags, opt, ver, src, dst, dbMap>>
        /\ DOMAIN results' = DOMAIN results \cup {cur}
        /\ \A e \in DOMAIN results : results'[e] = results[e]
        /\ results'[cur].fresh = sel.fresh
        /\ IF Changed(flags, "metadata-only") THEN results'[cur].copied = {}
           ELSE results'[cur].copied \in IF Extracts THEN TableMaps(sel.pairs) ELSE {sel.pairs}
    BY <1>4, Migrated
  <2>2. CASE d \in DOMAIN results
    BY <1>3, <2>1, <2>2
  <2>3. CASE d = cur
    <3>1. ~Changed(flags, "metadata-only") /\ ~Off(cur) /\ sel.fresh
      BY <2>1, <2>3, SameQuestion
    <3>2. ~Global
      BY <2>1, <3>1 DEF Global, LoopInv, OptionInv, OptionFacts, Looping
    <3>3. Exactly(cur, Sources(sel.pairs)) /\ Listed(cur)
      BY <2>1, <3>1, <3>2 DEF WantedInv
    <3>4. Exactly(cur, Sources(results'[cur].copied))
      BY <2>1, <3>1, <3>2, <3>3, MapExact
    <3> QED
      BY <1>2, <2>1, <2>3, <3>3, <3>4, ZenonT(30)
  <2> QED
    BY <2>1, <2>2, <2>3
<1> QED
  BY <1>1, <1>3, <1>4, ResultSteps

\* The loop copies exactly the tables asked for, and lists those it leaves out
\* under --skip-existing, whatever the order of the databases: outside of the
\* cases SelectionExact names.
THEOREM SelectionExactHolds == Spec => []SelectionExact
<1>1. Init => PairsInv /\ WantedInv /\ ResultsInv
  BY SMTT(30) DEF Init, PairsInv, WantedInv, ResultsInv
<1>2. ResultsInv => SelectionExact
  BY DEF ResultsInv, SelectionExact, Exactly, Sources, Due, Listed, Off
<1> QED
  BY <1>1, <1>2, LoopInvHolds, PairsNext, WantedNext, ResultsNext, PTL DEF Spec

=============================================================================
