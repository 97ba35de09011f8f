------------------------------ MODULE Options ------------------------------
(***************************************************************************)
(* The command line: the validators of copy/copy_validator.go and the      *)
(* Option that option.NewOption builds from it.                            *)
(*                                                                         *)
(* A command line is a record: set, the flags given (flags.Changed), and   *)
(* the lists of names some of them carry, <<>> for a flag not given.  A    *)
(* schema is <<database, schema>>, a table <<database, schema, name>>.     *)
(* The tables of a --...-file flag and of its --... twin share one field,  *)
(* as getTables reads the one or the other.                                *)
(***************************************************************************)
EXTENDS Naturals, Integers, Sequences, FiniteSets, Functions, FiniteSetsExt

excludedDb == {"template0", "template1"}

\* public.cbcopy_test of the database postgres.
CbcopyTestTable == <<"postgres", "public", "cbcopy_test">>

Changed(f, flag) == flag \in f.set

ArrayIsDuplicated(s) == \E i, j \in DOMAIN s : i < j /\ s[i] = s[j]

----------------------------------------------------------------------------
(* The validators, in the order of NewValidatorManager.                    *)

\* The validators look at the length of the list of --include-table, and at the
\* name of the --include-table-file.
NamesTables(f) ==
    (Changed(f, "include-table") /\ f.include # <<>>) \/ Changed(f, "include-table-file")

DbSchema == STRING \X STRING
DbTable == STRING \X STRING \X STRING

CommandLine ==
    [set : SUBSET STRING, dbname : Seq(STRING), destDbname : Seq(STRING),
     schema : Seq(DbSchema), destSchema : Seq(DbSchema), mapping : Seq(DbSchema \X DbSchema),
     include : Seq(DbTable), dest : Seq(DbTable), exclude : Seq(DbTable),
     portRange : BOOLEAN, connectionMode : STRING, compressType : STRING]

\* A list of names comes with the flag that carries it; a file may be empty.
IsCommandLine(f) ==
    /\ f \in CommandLine /\ IsFiniteSet(f.set)
    /\ f.dbname # <<>> => Changed(f, "dbname")
    /\ f.schema # <<>> => Changed(f, "schema")
    /\ f.mapping # <<>> => Changed(f, "schema-mapping-file")
    /\ f.include # <<>> => NamesTables(f)
    /\ f.dest # <<>> => Changed(f, "dest-table") \/ Changed(f, "dest-table-file")

\* (Variant: the numbers of databases may differ.)
ValidateDatabaseUncounted(f) ==
    /\ f.destDbname # <<>> => f.dbname # <<>> \/ NamesTables(f)
    /\ ~ArrayIsDuplicated(f.dbname) /\ ~ArrayIsDuplicated(f.destDbname)
    /\ excludedDb \cap Range(f.dbname \o f.destDbname) = {}
ValidateDatabase(f) ==
    /\ f.destDbname # <<>> => f.dbname # <<>> \/ NamesTables(f)
    /\ f.destDbname # <<>> /\ f.dbname # <<>> => Len(f.destDbname) = Len(f.dbname)
    /\ ~ArrayIsDuplicated(f.dbname) /\ ~ArrayIsDuplicated(f.destDbname)
    /\ Changed(f, "include-table-file") => Len(f.destDbname) <= 1
    /\ excludedDb \cap Range(f.dbname \o f.destDbname) = {}

ValidateSchema(f) ==
    /\ f.destSchema # <<>> => f.schema # <<>> \/ NamesTables(f)
    /\ f.destSchema # <<>> /\ f.schema # <<>> => Len(f.destSchema) = Len(f.schema)
    /\ ~ArrayIsDuplicated(f.schema) /\ ~ArrayIsDuplicated(f.destSchema)
    /\ Changed(f, "include-table-file") => Len(f.destSchema) <= 1

ValidateTableCombination(srcTables, destTables) ==
    /\ destTables # <<>> => Len(srcTables) = Len(destTables)
    /\ ~ArrayIsDuplicated(destTables) /\ ~ArrayIsDuplicated(srcTables)

\* The lists of the files are compared only if --dest-table-file is given.
ValidateTable(f) ==
    LET direct(flag, list) == IF Changed(f, flag) THEN list ELSE <<>>
    IN  /\ ValidateTableCombination(direct("include-table", f.include), direct("dest-table", f.dest))
        /\ Changed(f, "dest-table-file") =>
               /\ Changed(f, "include-table-file")
               /\ ValidateTableCombination(f.include, f.dest)

CopyModeFlags == {"full", "dbname", "schema", "include-table", "include-table-file",
                  "global-metadata-only", "schema-mapping-file"}
TableModeFlags == {"truncate", "append", "skip-existing"}

\* A list may be given and empty, a file that is given may be.
ValidateCopyMode(f) ==
    \/ f.set \cap {"full", "global-metadata-only", "schema-mapping-file"} # {}
    \/ f.schema # <<>> \/ f.dbname # <<>> \/ NamesTables(f)
ValidateTableMode(f) ==
    \/ Changed(f, "metadata-only") \/ Changed(f, "global-metadata-only")
    \/ Cardinality(f.set \cap TableModeFlags) = 1

\* first-second, two integers: abstracted to whether it has that form.
ValidateDataPortRange(f) == f.portRange

ExclusiveGroups ==
    LET meta == {"metadata-only", "global-metadata-only"}
        dest == {"dest-table", "dest-table-file"}
    IN  { {"debug", "quiet"}, CopyModeFlags,
          meta \cup {"truncate", "append"}, meta \cup {"copy-jobs"}, meta \cup dest,
          {"exclude-table", "exclude-table-file"}, dest,
          {"include-table", "include-table-file"}, {"full", "with-global-metadata"},
          meta \cup {"data-only"},
          {"data-only", "with-global-metadata", "global-metadata-only"},
          {"data-only", "metadata-jobs", "global-metadata-only"},
          dest \cup {"metadata-jobs", "global-metadata-only"},
          dest \cup {"with-global-metadata", "global-metadata-only"},
          meta, {"include-table-file", "dest-table"}, {"dest-dbname", "dest-schema"},
          {"truncate", "append"}, {"global-metadata-only", "exclude-table-file"},
          meta \cup {"on-segment-threshold"},
          {"dest-table-file", "dest-dbname", "dest-schema", "schema-mapping-file"},
          {"owner-mapping-file", "data-only"},
          {"dest-tablespace", "data-only", "global-metadata-only"},
          {"dest-tablespace"} \cup dest,
          {"tablespace-mapping-file", "dest-tablespace"},
          {"tablespace-mapping-file", "data-only", "global-metadata-only"},
          {"tablespace-mapping-file"} \cup dest }

ValidateExclusiveFlags(f) ==
    \A group \in ExclusiveGroups : Cardinality(f.set \cap group) <= 1

ValidateOwnerMappingFile(f) ==
    Changed(f, "owner-mapping-file") =>
        f.set \cap {"dbname", "schema", "include-table-file", "schema-mapping-file"} # {}

ValidateConnectionMode(f) == f.connectionMode \in {"push", "pull"}
ValidateCompressType(f) == f.compressType \in {"gzip", "snappy", "zstd"}

ValidateAll(f) ==
    /\ ValidateDatabase(f) /\ ValidateSchema(f) /\ ValidateTable(f)
    /\ ValidateCopyMode(f) /\ ValidateTableMode(f) /\ ValidateDataPortRange(f)
    /\ ValidateExclusiveFlags(f) /\ ValidateOwnerMappingFile(f)
    /\ ValidateConnectionMode(f) /\ ValidateCompressType(f)

----------------------------------------------------------------------------
(* The option.  --global-metadata-only is turned into a metadata-only copy *)
(* of a test table first.                                                  *)

MakeIncludeOptions(f) ==
    [f EXCEPT !.set = @ \cup {"copy-jobs", "metadata-jobs", "metadata-only",
                              "with-global-metadata", "include-table", "truncate"},
              !.include = Append(@, CbcopyTestTable)]

SetupFlags(f) == IF Changed(f, "global-metadata-only") THEN MakeIncludeOptions(f) ELSE f

\* validateTables and validateSchemas: every name belongs to one database.
OneDatabase(names) == Cardinality({names[i][1] : i \in DOMAIN names}) <= 1

\* getSchemas: the mapping file is read only without --schema, and replaces
\* both lists.
SourceSchemas(f) ==
    IF f.schema = <<>> THEN [i \in DOMAIN f.mapping |-> f.mapping[i][1]] ELSE f.schema
DestSchemas(f) ==
    IF f.schema = <<>> /\ f.mapping # <<>> THEN [i \in DOMAIN f.mapping |-> f.mapping[i][2]]
    ELSE f.destSchema

\* An error of NewOption, or the Fatal of ParseSchemaMappingFile for a file
\* without a line.
OptionError(f) ==
    \/ Changed(f, "schema-mapping-file") /\ f.schema = <<>> /\ f.mapping = <<>>
    \/ ~(/\ OneDatabase(f.exclude) /\ OneDatabase(f.include) /\ OneDatabase(f.dest)
         /\ OneDatabase(SourceSchemas(f)) /\ OneDatabase(DestSchemas(f)))

\* NewOption: a later kind of name overrides an earlier one.
CopyMode(f) ==
    CASE f.include # <<>>                            -> "table"
      [] f.include = <<>> /\ SourceSchemas(f) # <<>> -> "schema"
      [] f.include = <<>> /\ SourceSchemas(f) = <<>> /\ f.dbname # <<>> -> "db"
      [] OTHER                                       -> "full"
TableMode(f) ==
    CASE Changed(f, "skip-existing") -> "skip-existing"
      [] ~Changed(f, "skip-existing") /\ Changed(f, "append") -> "append"
      [] OTHER -> "truncate"

NewOption(f) ==
    [copyMode |-> CopyMode(f), tableMode |-> TableMode(f),
     sourceDbnames |-> f.dbname, destDbnames |-> f.destDbname,
     excludedTables |-> f.exclude, includedTables |-> f.include, destTables |-> f.dest,
     sourceSchemas |-> SourceSchemas(f), destSchemas |-> DestSchemas(f)]

ContainsMetadata(f) == Changed(f, "metadata-only") \/ ~Changed(f, "data-only")

\* getTablesByDb: the tables of one database in their order, without the
\* database.
TablesByDb(db, tables) ==
    LET mine == {i \in DOMAIN tables : tables[i][1] = db}
        nth(k) == CHOOSE i \in mine : Cardinality({j \in mine : j <= i}) = k
    IN  [k \in 1 .. Cardinality(mine) |-> <<tables[nth(k)][2], tables[nth(k)][3]>>]

\* GetSchemaMap indexes the destination schemas by position, and panics when
\* there are fewer of them than source schemas.
SchemaMapPanics(o) == Len(o.sourceSchemas) > Len(o.destSchemas)
GetSchemaMap(o) ==
    [s \in {o.sourceSchemas[i][2] : i \in DOMAIN o.sourceSchemas} |->
        LET last == Max({i \in DOMAIN o.sourceSchemas : o.sourceSchemas[i][2] = s})
        IN  o.destSchemas[last][2]]

=============================================================================
