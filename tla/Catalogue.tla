------------------------------ MODULE Catalogue ------------------------------
(***************************************************************************)
(* What the metadata copy reads from the source database: the Get...       *)
(* functions of meta/builtin (queries_*.go), each a query on the system    *)
(* catalogue with the filters of the run.                                  *)
(*                                                                         *)
(* cat is the catalogue: a sequence of rows, in which the place of a row   *)
(* is its oid.  A row has its kind, its schema (0 for none and for the     *)
(* system schemas), the extension it belongs to (0 for none), its owner    *)
(* and access list, needs (the objects its definition refers to), on (the  *)
(* table, or domain, it is part of), parent (of a partition, or of its     *)
(* index) and marks, the set of the other facts a query or a printer asks  *)
(* about.                                                                  *)
(*                                                                         *)
(* job is what the copy is asked for: the source version (7 also stands    *)
(* for the Cloudberry family, which the code treats alike), the version of *)
(* the destination, the schemas and tables included (empty for all), and   *)
(* the maps of owners and tablespaces.                                     *)
(***************************************************************************)
EXTENDS Privileges, SequencesExt

VARIABLES cat, job

AtLeast(v) == job.version >= v
Before(v) == job.version < v

Marked(r, m) == m \in r.marks

Rows(kind, Keep(_)) == SelectSeq(cat, LAMBDA r : r.kind = kind /\ Keep(r))
AllRows(kind) == Rows(kind, LAMBDA r : TRUE)

(***************************************************************************)
(* The filters.  A system object has an oid below FIRST_NORMAL_OBJECT_ID.  *)
(***************************************************************************)
SchemaFilterClause(s) == s # 0 /\ (job.inSchemas = {} \/ s \in job.inSchemas)

SchemaFilterClauseNotFilterPgCatalog(s) ==
  job.inSchemas = {} \/ s \in job.inSchemas

SchemaFilterClauseWithAlteredPartitionSchemas(s, altered) ==
  job.inSchemas = {} \/ s \in job.inSchemas \cup altered

ExtensionFilterClause(r) == r.ext = 0

relationAndSchemaFilterClause(r) ==
  /\ SchemaFilterClause(r.schema)
  /\ job.inTables = {} \/ r.oid \in job.inTables

Normal(r) == ~Marked(r, "system")
InSchema(r) == SchemaFilterClause(r.schema) /\ ExtensionFilterClause(r)
IncludedRelation(r) == relationAndSchemaFilterClause(r) /\ ExtensionFilterClause(r)

\* The filter of what is part of a table: it is on the table's row.
OfIncludedTable(r) == r.on # 0 /\ IncludedRelation(cat[r.on])

(***************************************************************************)
(* Relations.                                                              *)
(***************************************************************************)
GetPartitionTableMap(r) ==
  CASE Marked(r, "root") -> "p"
    [] Marked(r, "middle") -> "i"
    [] r.parent # 0 -> "l"
    [] OTHER -> ""

GetExternalTableDefinitions(r) == Marked(r, "external")

\* Up to version 6 an external table has the relkind of a table, then that
\* of a foreign table.
IsTable(r) == r.kind = "table" /\ ~(AtLeast(7) /\ GetExternalTableDefinitions(r))

getUserTableRelations == SelectSeq(cat, LAMBDA r : IsTable(r) /\ IncludedRelation(r))

getUserTableRelationsWithIncludeFiltering ==
  SelectSeq(cat, LAMBDA r : IsTable(r) /\ r.oid \in job.inTables)

GetIncludedUserTableRelations ==
  IF job.inTables # {} THEN getUserTableRelationsWithIncludeFiltering
  ELSE getUserTableRelations

GetForeignTableRelations ==
  SelectSeq(cat, LAMBDA r : /\ r.kind = "foreign" \/ (r.kind = "table" /\ ~IsTable(r))
                            /\ IncludedRelation(r))

\* Where partitions were moved to another schema than their root's.
GetPartitionAlteredSchema(r) ==
  IF AtLeast(7) THEN {} ELSE {n \in r.needs : cat[n].kind = "schema"}
createAlteredPartitionSchemaSet(tables) ==
  UNION {GetPartitionAlteredSchema(r) : r \in Range(tables)}

\* From version 6 on a column is read once per entry of its access list.
GetColumnDefinitions(r) ==
  IF AtLeast(6) /\ Marked(r, "column granted twice") THEN {"column twice"} ELSE {}

GetAttachPartitionInfo(r) ==
  IF AtLeast(7) /\ r.kind = "table" /\ r.parent # 0 THEN {r.parent} ELSE {}

\* An external leaf is exchanged into its partition up to version 6.
GetExternalPartitionInfo ==
  IF AtLeast(7) THEN <<>>
  ELSE Rows("table", LAMBDA r : GetExternalTableDefinitions(r) /\ r.parent # 0)

GetAllSequences == Rows("sequence", IncludedRelation)

GetAllViews == Rows("view", LAMBDA r : IncludedRelation(r) /\ ~Marked(r, "null"))

GetConstraints ==
  Rows("constraint", LAMBDA r :
    /\ IF cat[r.on].kind = "domain" THEN InSchema(r)
       ELSE /\ relationAndSchemaFilterClause(cat[r.on])
            /\ ExtensionFilterClause(cat[r.on])
            /\ ~Marked(r, "inherited")
            /\ AtLeast(7) \/ cat[r.on].parent = 0
    /\ Before(6) => ~Marked(r, "null"))

(***************************************************************************)
(* Schemas, extensions, types.                                             *)
(***************************************************************************)
GetAllUserSchemas(altered) ==
  Rows("schema", LAMBDA r :
    /\ SchemaFilterClauseWithAlteredPartitionSchemas(r.oid, altered)
    /\ ExtensionFilterClause(r))

GetExtensions == Rows("extension", Normal)
GetAccessMethods == Rows("accessmethod", Normal)
GetCollations == Rows("collation", LAMBDA r : SchemaFilterClause(r.schema))
GetShellTypes == Rows("shell", InSchema)
GetBaseTypes == Rows("base", InSchema)
GetCompositeTypes == Rows("composite", InSchema)
GetDomainTypes == Rows("domain", InSchema)
GetEnumTypes == Rows("enum", InSchema)
GetRangeTypes == Rows("range", InSchema)

(***************************************************************************)
(* Functions and what is made of them.                                     *)
(***************************************************************************)
GetFunctions4 == Rows("function", LAMBDA r : SchemaFilterClause(r.schema))

\* A function of which a definition is NULL was dropped meanwhile; that of a
\* procedure has no result.
GetFunctions ==
  Rows("function", LAMBDA r :
    /\ InSchema(r)
    /\ AtLeast(6) => ~Marked(r, "implicit")
    /\ ~Marked(r, "null"))

GetFunctionsAllVersions == IF Before(5) THEN GetFunctions4 ELSE GetFunctions

GetFunctionOidToInfoMap == {r.oid : r \in {x \in Range(cat) : x.kind \in {"function", "aggregate"}}}

GetAggregates ==
  Rows("aggregate", LAMBDA r :
    /\ SchemaFilterClause(r.schema)
    /\ AtLeast(5) => ExtensionFilterClause(r) /\ ~Marked(r, "null"))

\* The types and the function of a cast are what it needs.
GetCasts ==
  Rows("cast", LAMBDA r :
    /\ ExtensionFilterClause(r)
    /\ \E s \in {0} \cup {cat[n].schema : n \in r.needs} :
         \/ SchemaFilterClause(s)
         \/ Normal(r) /\ SchemaFilterClauseNotFilterPgCatalog(s))

GetProceduralLanguages ==
  Rows("language", LAMBDA r : Normal(r) /\ (AtLeast(5) => ExtensionFilterClause(r)))
GetTransforms == AllRows("transform")
GetConversions == Rows("conversion", InSchema)
GetOperators ==
  Rows("operator", LAMBDA r : SchemaFilterClause(r.schema) /\ (AtLeast(5) => ExtensionFilterClause(r)))
GetOperatorFamilies == Rows("opfamily", InSchema)
GetOperatorClasses ==
  Rows("opclass", LAMBDA r : SchemaFilterClause(r.schema) /\ (AtLeast(5) => ExtensionFilterClause(r)))
GetTextSearchParsers == Rows("tsparser", InSchema)
GetTextSearchTemplates == Rows("tstemplate", InSchema)
GetTextSearchDictionaries == Rows("tsdictionary", InSchema)
GetTextSearchConfigurations == Rows("tsconfiguration", InSchema)
GetExternalProtocols == AllRows("protocol")
GetForeignDataWrappers == Rows("fdw", LAMBDA r : Normal(r) /\ ExtensionFilterClause(r))
GetForeignServers == Rows("server", LAMBDA r : Normal(r) /\ ExtensionFilterClause(r))
GetUserMappings == Rows("usermapping", ExtensionFilterClause)

(***************************************************************************)
(* Post-data.                                                              *)
(***************************************************************************)
\* The indexes read, before the check of their definitions.
QueryIndexes ==
  Rows("index", LAMBDA r :
    /\ OfIncludedTable(r)
    /\ AtLeast(6) => ~Marked(r, "primary")
    /\ IF AtLeast(7) THEN Normal(r) ELSE ~Marked(r, "invalid") /\ cat[r.on].parent = 0)

\* From version 7 on the indexes are put in an order in which a parent is
\* before its partitions' indexes: of every index in turn, the ancestors not
\* yet put, topmost first.
ParentsFirst(indexes) ==
  LET present == {r.oid : r \in Range(indexes)}
      chain[o \in present] ==
        IF cat[o].parent \in present THEN Append(chain[cat[o].parent], cat[o])
        ELSE <<cat[o]>>
      upTo[i \in 0..Len(indexes)] ==
        IF i = 0 THEN <<>>
        ELSE LET put == upTo[i - 1]
             IN  put \o SelectSeq(chain[indexes[i].oid], LAMBDA r : r \notin Range(put))
  IN  upTo[Len(indexes)]

GetIndexes ==
  LET verified == SelectSeq(QueryIndexes, LAMBDA r : ~Marked(r, "null"))
  IN  IF Before(7) THEN verified ELSE ParentsFirst(verified)

GetRules == Rows("rule", LAMBDA r : OfIncludedTable(r) /\ ~Marked(r, "null"))
GetTriggers == Rows("trigger", LAMBDA r : OfIncludedTable(r) /\ ~Marked(r, "null"))
GetDefaultPrivileges == AllRows("defaultprivileges")
GetEventTriggers == Rows("eventtrigger", ExtensionFilterClause)
GetPolicies == AllRows("policy")
GetExtendedStatistics == AllRows("statistics")

(***************************************************************************)
(* Globals.                                                                *)
(***************************************************************************)
GetResourceQueues == AllRows("resqueue")
GetResourceGroups == AllRows("resgroup")
GetRoles == Rows("role", LAMBDA r : AtLeast(7) => Normal(r))
GetRoleMembers == Rows("rolemember", LAMBDA r : AtLeast(7) => Normal(r))
GetRoleGUCs ==
  Rows("roleguc", LAMBDA r : (Before(6) => ~Marked(r, "in database")) /\ (AtLeast(7) => Normal(r)))
GetDatabaseGUCs == AllRows("databaseguc")
GetTablespaces == Rows("tablespace", Normal)

=============================================================================
