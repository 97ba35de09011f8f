--------------------------- MODULE MetadataExtract ---------------------------
(***************************************************************************)
(* The extraction of the metadata of one database (meta/builtin,           *)
(* extractDDL): which objects are read and in what order, what they depend *)
(* on among themselves, and the entries each section of the table of       *)
(* contents gets (retrieve... and backup... of extract_helper.go).         *)
(***************************************************************************)
EXTENDS MetadataScript

(***************************************************************************)
(* The objects collected, in the order of backupPredata.                   *)
(***************************************************************************)
tableOnly == job.inTables # {}

\* Up to version 6 the partitions come with their root, but for an external
\* leaf, which is made first and exchanged into its partition.  From version
\* 7 on every partition is a table of its own, and an external leaf is taken
\* by both conditions.
SplitTablesByPartitionType(tables) ==
  Each(LAMBDA r :
         (IF GetExternalTableDefinitions(r) /\ GetPartitionTableMap(r) = "l" THEN <<r>> ELSE <<>>) \o
         (IF AtLeast(7) \/ GetPartitionTableMap(r) \notin {"l", "i"} THEN <<r>> ELSE <<>>),
       tables)

\* Without --skip-existing; what FilterTablesByDestExisting drops with it is
\* DdlSkipped of DatabaseLoop.
RetrieveAndProcessTables ==
  SplitTablesByPartitionType(
    GetIncludedUserTableRelations \o (IF AtLeast(6) THEN GetForeignTableRelations ELSE <<>>))

retrieveFunctions == IF tableOnly THEN <<>> ELSE GetFunctionsAllVersions
retrieveTransforms == IF Before(7) THEN <<>> ELSE GetTransforms
retrieveRangeTypes == IF Before(6) THEN <<>> ELSE GetRangeTypes
retrieveTypes == GetBaseTypes \o GetCompositeTypes \o GetDomainTypes \o retrieveRangeTypes
retrieveConstraints == SelectSeq(GetConstraints, LAMBDA r : cat[r.on].kind # "domain")
retrieveProtocols == GetExternalProtocols
retrieveViews == GetAllViews
retrieveTSObjects ==
  IF Before(5) THEN <<>>
  ELSE GetTextSearchParsers \o GetTextSearchConfigurations \o
       GetTextSearchTemplates \o GetTextSearchDictionaries
retrieveOperatorObjects == GetOperators \o GetOperatorClasses
retrieveAggregates == GetAggregates
retrieveCasts == GetCasts
retrieveFDWObjects ==
  IF Before(6) THEN <<>> ELSE GetForeignDataWrappers \o GetForeignServers \o GetUserMappings

convertToSortableSlice(rows) == [i \in DOMAIN rows |-> rows[i].oid]

Sortables ==
  retrieveFunctions \o RetrieveAndProcessTables \o
  (IF tableOnly THEN <<>>
   ELSE retrieveProtocols \o retrieveTypes \o
        (IF job.inSchemas = {} THEN retrieveTransforms \o retrieveFDWObjects ELSE <<>>) \o
        retrieveTSObjects \o retrieveOperatorObjects \o retrieveAggregates \o retrieveCasts) \o
  retrieveViews \o retrieveConstraints

(***************************************************************************)
(* The dependencies among them.                                            *)
(***************************************************************************)
createBackupSet == {r.oid : r \in Range(Sortables)}

IsType(o) == cat[o].kind \in {"base", "composite", "domain", "range"}
IsProc(o) == cat[o].kind \in {"function", "aggregate"}

\* What pg_depend says of an object.  Version 4 does not know the protocol of
\* an external table.
PgDepend(r) ==
  {n \in r.needs : ~(job.version = 4 /\ r.kind = "table" /\ cat[n].kind = "protocol")} \cup
  (IF r.kind = "constraint" THEN {r.on} ELSE {}) \cup GetAttachPartitionInfo(r)

\* From version 7 on a constraint waits for the partitions that inherit it.
SyntheticConstraintDeps(r) ==
  IF AtLeast(7) /\ r.kind = "constraint" /\ Marked(r, "with partitions")
  THEN {t.oid : t \in {x \in Range(RetrieveAndProcessTables) : x.parent = r.on}} ELSE {}

\* Of a type and a function that depend on each other, the function is
\* sorted first.
breakCircularDependencies(depMap) ==
  [o \in DOMAIN depMap |->
     depMap[o] \ {t \in depMap[o] : IsProc(o) /\ IsType(t) /\ o \in depMap[t]}]

GetDependencies ==
  LET backupSet == createBackupSet
  IN  breakCircularDependencies(
        [o \in backupSet |->
           ((PgDepend(cat[o]) \cup SyntheticConstraintDeps(cat[o])) \cap backupSet) \ {o}])

\* (Variant: the protocols of external tables are not added.)
NoProtocolDependencies(depMap) == depMap

AddProtocolDependenciesForGPDB4(depMap) ==
  [o \in DOMAIN depMap |->
     depMap[o] \cup
     (IF cat[o].kind # "table" THEN {}
      ELSE {n \in cat[o].needs : n \in DOMAIN depMap /\ cat[n].kind = "protocol"})]

relevantDeps ==
  IF job.version = 4 /\ ~tableOnly THEN AddProtocolDependenciesForGPDB4(GetDependencies)
  ELSE GetDependencies

(***************************************************************************)
(* The sections of the table of contents.                                  *)
(***************************************************************************)
backupResourceQueues == Each(PrintCreateResourceQueueStatements, GetResourceQueues)
backupResourceGroups ==
  IF Before(5) THEN <<>>
  ELSE PrintResetResourceGroupStatements \o
       Each(PrintCreateResourceGroupStatements, GetResourceGroups)
backupRoles == Each(PrintCreateRoleStatements, GetRoles)
backupRoleGrants == Each(PrintRoleMembershipStatements, GetRoleMembers)
backupTablespaces == Each(PrintCreateTablespaceStatements, GetTablespaces)
backupDatabaseGUCs == Each(PrintDatabaseGUCs, GetDatabaseGUCs)
backupRoleGUCs == Each(PrintRoleGUCStatements, GetRoleGUCs)

backupGlobals ==
  backupResourceQueues \o backupResourceGroups \o backupRoles \o backupRoleGrants \o
  (IF ShouldReplaceTablespace THEN <<>> ELSE backupTablespaces) \o
  backupDatabaseGUCs \o backupRoleGUCs

backupSchemas ==
  Each(PrintCreateSchemaStatements,
       GetAllUserSchemas(createAlteredPartitionSchemaSet(RetrieveAndProcessTables)))
backupExtensions == IF Before(5) THEN <<>> ELSE Each(PrintCreateExtensionStatements, GetExtensions)
backupCollations == IF Before(6) THEN <<>> ELSE Each(PrintCreateCollationStatements, GetCollations)
backupShellTypes ==
  Each(PrintCreateShellTypeStatements, GetShellTypes \o GetBaseTypes \o retrieveRangeTypes)
backupEnumTypes == IF Before(5) THEN <<>> ELSE Each(PrintCreateEnumTypeStatements, GetEnumTypes)
backupProceduralLanguages ==
  Each(PrintCreateFunctionStatement,
       ExtractLanguageFunctions(retrieveFunctions, GetProceduralLanguages)) \o
  Each(PrintCreateLanguageStatements, GetProceduralLanguages)
backupOperatorFamilies ==
  IF Before(5) THEN <<>> ELSE Each(PrintCreateOperatorFamilyStatements, GetOperatorFamilies)
backupAccessMethods ==
  IF Before(7) THEN <<>> ELSE Each(PrintAccessMethodStatements, GetAccessMethods)
backupSequences == Each(PrintCreateSequenceStatements, GetAllSequences)
backupConversions == Each(PrintCreateConversionStatements, GetConversions)

\* What backupPredata writes before the sort.
backupPredata ==
  (IF tableOnly THEN <<>>
   ELSE backupSchemas \o backupExtensions \o backupCollations \o backupShellTypes \o
        backupEnumTypes \o
        (IF job.inSchemas = {} THEN backupProceduralLanguages ELSE <<>>) \o
        backupOperatorFamilies \o backupAccessMethods) \o
  backupSequences

PrintObject(r) ==
  CASE r.kind = "base" -> PrintCreateBaseTypeStatement(r)
    [] r.kind = "composite" -> PrintCreateCompositeTypeStatement(r)
    [] r.kind = "domain" -> PrintCreateDomainStatement(r)
    [] r.kind = "range" -> PrintCreateRangeTypeStatement(r)
    [] r.kind = "function" -> PrintCreateFunctionStatement(r)
    [] r.kind \in {"table", "foreign"} -> PrintCreateTableStatement(r)
    [] r.kind = "protocol" -> PrintCreateExternalProtocolStatement(r)
    [] r.kind = "view" -> PrintCreateViewStatement(r)
    [] r.kind = "tsparser" -> PrintCreateTextSearchParserStatement(r)
    [] r.kind = "tsconfiguration" -> PrintCreateTextSearchConfigurationStatement(r)
    [] r.kind = "tstemplate" -> PrintCreateTextSearchTemplateStatement(r)
    [] r.kind = "tsdictionary" -> PrintCreateTextSearchDictionaryStatement(r)
    [] r.kind = "operator" -> PrintCreateOperatorStatement(r)
    [] r.kind = "opclass" -> PrintCreateOperatorClassStatement(r)
    [] r.kind = "aggregate" -> PrintCreateAggregateStatement(r)
    [] r.kind = "cast" -> PrintCreateCastStatement(r)
    [] r.kind = "fdw" -> PrintCreateForeignDataWrapperStatement(r)
    [] r.kind = "server" -> PrintCreateServerStatement(r)
    [] r.kind = "usermapping" -> PrintCreateUserMappingStatement(r)
    [] r.kind = "constraint" -> PrintConstraintStatement(r)
    [] r.kind = "transform" -> PrintCreateTransformStatement(r)

\* The functions whose metadata was read and that no object printed.
LeftOver(objects) ==
  SelectSeq(cat, LAMBDA r :
    /\ ~tableOnly /\ IsProc(r.oid) /\ SchemaFilterClause(r.schema)
    /\ r.oid \notin Range(objects))

PrintDependentObjectStatements(objects) ==
  FlattenSeq([i \in DOMAIN objects |-> PrintObject(cat[objects[i]])]) \o
  printExtensionFunctionACLs(LeftOver(objects))

\* What is written from the sort on.
backupDependentObjects(objects) ==
  PrintDependentObjectStatements(objects) \o
  Each(PrintIdentityColumns, GetAllSequences) \o
  Each(PrintAlterSequenceStatements, GetAllSequences) \o
  Each(PrintExchangeExternalPartitionStatements,
       SelectSeq(GetExternalPartitionInfo, LAMBDA r : r \in Range(RetrieveAndProcessTables)))

backupIndexes == Each(PrintCreateIndexStatements, GetIndexes)
backupRules == Each(PrintCreateRuleStatements, GetRules)
backupTriggers == Each(PrintCreateTriggerStatements, GetTriggers)
backupDefaultPrivileges == Each(PrintDefaultPrivilegesStatements, GetDefaultPrivileges)
backupEventTriggers == Each(PrintCreateEventTriggerStatements, GetEventTriggers)
backupRowLevelSecurityPolicies == Each(PrintCreatePolicyStatements, GetPolicies)
backupExtendedStatistic == Each(PrintCreateExtendedStatistics, GetExtendedStatistics)

\* No index is written for a destination of HashData 3.  The argument
\* tableOnly is that of CopyTableMetaData.
backupPostdata ==
  (IF job.dest = "HDW 3" THEN <<>> ELSE backupIndexes) \o backupRules \o backupTriggers \o
  (IF job.mode = "table" \/ Before(6) THEN <<>>
   ELSE backupDefaultPrivileges \o (IF job.inSchemas = {} THEN backupEventTriggers ELSE <<>>)) \o
  (IF job.mode = "table" \/ Before(7) THEN <<>>
   ELSE backupRowLevelSecurityPolicies \o backupExtendedStatistic)

=============================================================================
