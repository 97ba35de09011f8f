--------------------------- MODULE MetadataScript ---------------------------
(***************************************************************************)
(* What the metadata copy writes: the Print... functions of meta/builtin   *)
(* (predata_*.go, postdata.go, metadata_globals.go), each giving the       *)
(* entries it adds to the table of contents (TOC) for one object.          *)
(*                                                                         *)
(* An entry is executed as one statement of the destination, so its parts  *)
(* succeed or fail together.  It has the section and the object type it is *)
(* selected by (meta when the type ends in METADATA), what it does and to  *)
(* which object, the objects and roles it names (needs), the objects that  *)
(* must not be there yet (absent), the owner and the grants it sets, the   *)
(* object it refers to, and flaws: reasons for which the destination       *)
(* refuses the text.                                                       *)
(***************************************************************************)
EXTENDS Catalogue

Entry(sec, type, does, oid, needs) ==
  [sec |-> sec, type |-> type, meta |-> FALSE, does |-> does, oid |-> oid,
   all |-> {oid}, needs |-> needs, absent |-> {}, to |-> NoRole,
   grants |-> <<>>, ref |-> 0, flaws |-> {}]

Each(P(_), rows) == FlattenSeq([i \in DOMAIN rows |-> P(rows[i])])

(***************************************************************************)
(* Tablespaces: --dest-tablespace names one tablespace for all (the map    *)
(* has one key, without a value), or a map from tablespace to tablespace.  *)
(***************************************************************************)
TransformTablespace ==
  LET keys == DOMAIN job.tablespaces
  IN  IF \E k \in keys : keys = {k} /\ job.tablespaces[k] = 0
      THEN [single |-> CHOOSE k \in keys : TRUE, map |-> <<>>]
      ELSE [single |-> 0, map |-> job.tablespaces]

ShouldReplaceTablespace ==
  TransformTablespace.single # 0 \/ DOMAIN TransformTablespace.map # {}

GetDestTablespace(t) ==
  LET to == TransformTablespace
  IN  IF to.single # 0 THEN to.single
      ELSE IF t \in DOMAIN to.map THEN to.map[t] ELSE t

WithDestTablespaces(needs) ==
  {IF cat[n].kind = "tablespace" THEN GetDestTablespace(n) ELSE n : n \in needs}

(***************************************************************************)
(* Owner and privileges.                                                   *)
(***************************************************************************)
Needs(r) == r.needs \cup (IF r.schema = 0 THEN {} ELSE {r.schema})

OwnerOf(r) == GetOwnerStatement(job.ownerMap, r.owner)
PrivilegesOf(r, type) ==
  GetPrivilegesStatements(job.ownerMap, r.owner, ConstructMetadataMap(r.acl), type)
Grantees(grants) == {grants[i].to : i \in DOMAIN grants} \ {Public}

\* The metadata of a post-data object is marked as such.
PrintStatements(entries, sec) ==
  [i \in DOMAIN entries |-> [entries[i] EXCEPT !.sec = sec, !.meta = sec = "postdata"]]

\* The keyword of an owner statement is PROCEDURE for a procedure, that of
\* the privileges is FUNCTION.
PrintObjectMetadata(r, sec, type) ==
  LET grants == PrivilegesOf(r, type)
      own == [Entry(sec, type, "owner", r.oid, {r.oid, OwnerOf(r)}) EXCEPT !.to = OwnerOf(r)]
      acl == [Entry(sec, type, "grant", r.oid, {r.oid} \cup Grantees(grants)) EXCEPT
                !.grants = grants,
                !.flaws = IF Marked(r, "procedure") THEN {"procedure as function"} ELSE {}]
  IN  PrintStatements(
        (IF r.owner = NoRole \/ (Before(5) /\ type = "LANGUAGE") THEN <<>> ELSE <<own>>) \o
        (IF grants = <<>> THEN <<>> ELSE <<acl>>), sec)

\* The CREATE of an object, then its metadata.
CreateOf(r, sec, type) ==
  <<Entry(sec, type, "create", r.oid, Needs(r))>> \o PrintObjectMetadata(r, sec, type)

(***************************************************************************)
(* Pre-data written in the order of the catalogue.                         *)
(***************************************************************************)
PrintCreateSchemaStatements(r) ==
  (IF Marked(r, "public") THEN <<>> ELSE <<Entry("predata", "SCHEMA", "create", r.oid, {})>>) \o
  PrintObjectMetadata(r, "predata", "SCHEMA")

PrintCreateExtensionStatements(r) == CreateOf(r, "predata", "EXTENSION")
PrintCreateCollationStatements(r) == CreateOf(r, "predata", "COLLATION")

PrintCreateShellTypeStatements(r) == <<Entry("predata", "TYPE", "shell", r.oid, Needs(r) \ r.needs)>>
PrintCreateEnumTypeStatements(r) == CreateOf(r, "predata", "TYPE")

ExtractLanguageFunctions(functions, languages) ==
  SelectSeq(functions, LAMBDA f : \E l \in Range(languages) : f.oid \in l.needs)

\* The functions of the language are given the owner of the language, which
\* is not looked up in the map of owners.
PrintCreateLanguageStatements(r) ==
  <<Entry("predata", "LANGUAGE", "create", r.oid, r.needs),
    [Entry("predata", "LANGUAGE", "owner", r.oid, r.needs \cup {r.owner}) EXCEPT
       !.all = r.needs, !.to = r.owner]>> \o
  PrintObjectMetadata(r, "predata", "LANGUAGE")

PrintCreateOperatorFamilyStatements(r) == CreateOf(r, "predata", "OPERATOR FAMILY")
PrintAccessMethodStatements(r) == CreateOf(r, "predata", "ACCESS METHOD")
PrintCreateConversionStatements(r) == CreateOf(r, "predata", "CONVERSION")

PrintCreateSequenceStatements(r) ==
  IF Marked(r, "identity") THEN <<>> ELSE CreateOf(r, "predata", "SEQUENCE")

\* An identity column is an ALTER TABLE entered as a SEQUENCE.
PrintIdentityColumns(r) ==
  IF Marked(r, "identity") THEN <<Entry("predata", "SEQUENCE", "create", r.oid, Needs(r) \cup {r.on})>>
  ELSE <<>>

PrintAlterSequenceStatements(r) ==
  IF Marked(r, "identity") \/ r.on = 0 THEN <<>>
  ELSE <<[Entry("predata", "SEQUENCE OWNER", "alter", r.oid, {r.oid, r.on}) EXCEPT !.ref = r.on]>>

(***************************************************************************)
(* Pre-data written in the order of the sort.                              *)
(***************************************************************************)
PrintCreateBaseTypeStatement(r) == CreateOf(r, "predata", "TYPE")
PrintCreateCompositeTypeStatement(r) == CreateOf(r, "predata", "TYPE")
PrintCreateRangeTypeStatement(r) == CreateOf(r, "predata", "TYPE")

\* A domain is created with its constraints.
PrintCreateDomainStatement(r) ==
  LET checks == {c \in Range(GetConstraints) : c.on = r.oid}
  IN  CreateOf([r EXCEPT !.needs = @ \cup UNION {c.needs : c \in checks}], "predata", "DOMAIN")

PrintCreateFunctionStatement(r) == CreateOf(r, "predata", "FUNCTION")
PrintCreateAggregateStatement(r) == CreateOf(r, "predata", "AGGREGATE")

TableType(r) ==
  IF r.kind = "foreign" \/ (GetExternalTableDefinitions(r) /\ AtLeast(7))
  THEN "FOREIGN TABLE" ELSE "TABLE"

\* The external leaf of a partitioned table is made under a name of its own
\* up to version 6.
AppendExtPartSuffix(r) == IF Before(7) THEN "create aside" ELSE "create"

\* The table, its owner, its privileges and its place in a partitioned table
\* are one entry.  A partition is not attached to a table that already has
\* the constraints it must have itself.
PrintCreateTableStatement(r) ==
  LET type == TableType(r)
      grants == PrivilegesOf(r, type)
      attach == GetAttachPartitionInfo(r)
      does == IF GetExternalTableDefinitions(r) /\ r.parent # 0
              THEN AppendExtPartSuffix(r) ELSE "create"
  IN  <<[Entry("predata", type, does, r.oid,
               WithDestTablespaces(Needs(r)) \cup attach \cup {OwnerOf(r)} \cup Grantees(grants))
         EXCEPT !.to = OwnerOf(r), !.grants = grants, !.flaws = GetColumnDefinitions(r),
                !.ref = IF attach = {} THEN 0 ELSE r.parent,
                !.absent = {c.oid : c \in {x \in Range(cat) : /\ x.kind = "constraint" /\ x.on \in attach
                                                                /\ Marked(x, "with partitions")}}]>>

PrintExchangeExternalPartitionStatements(r) ==
  <<Entry("predata", "EXCHANGE PARTITION", "exchange", r.oid, {r.parent})>>

\* Only a protocol with functions of its own is created.
PrintCreateExternalProtocolStatement(r) ==
  (IF \E f \in r.needs \cap GetFunctionOidToInfoMap : cat[f].schema # 0
   THEN <<Entry("predata", "PROTOCOL", "create", r.oid, r.needs)>> ELSE <<>>) \o
  PrintObjectMetadata(r, "predata", "PROTOCOL")

PrintCreateViewStatement(r) ==
  LET type == IF Marked(r, "materialized") THEN "MATERIALIZED VIEW" ELSE "VIEW"
  IN  CreateOf([r EXCEPT !.needs = WithDestTablespaces(@)], "predata", type)

PrintCreateTextSearchParserStatement(r) == CreateOf(r, "predata", "TEXT SEARCH PARSER")
PrintCreateTextSearchTemplateStatement(r) == CreateOf(r, "predata", "TEXT SEARCH TEMPLATE")
PrintCreateTextSearchDictionaryStatement(r) == CreateOf(r, "predata", "TEXT SEARCH DICTIONARY")
PrintCreateTextSearchConfigurationStatement(r) == CreateOf(r, "predata", "TEXT SEARCH CONFIGURATION")
PrintCreateOperatorStatement(r) == CreateOf(r, "predata", "OPERATOR")
PrintCreateOperatorClassStatement(r) == CreateOf(r, "predata", "OPERATOR CLASS")
PrintCreateCastStatement(r) == CreateOf(r, "predata", "CAST")
PrintCreateForeignDataWrapperStatement(r) == CreateOf(r, "predata", "FOREIGN DATA WRAPPER")
PrintCreateServerStatement(r) == CreateOf(r, "predata", "FOREIGN SERVER")
PrintCreateUserMappingStatement(r) == <<Entry("predata", "USER MAPPING", "create", r.oid, r.needs)>>

\* A transform without a known function is left out.
PrintCreateTransformStatement(r) ==
  IF r.needs \cap GetFunctionOidToInfoMap = {} THEN <<>> ELSE CreateOf(r, "predata", "TRANSFORM")

\* A constraint that is NOT VALID, or has no definition, is post-data.
PrintConstraintStatement(r) ==
  LET sec == IF Marked(r, "null") \/ Marked(r, "not valid") THEN "postdata" ELSE "predata"
      create == Entry(sec, "CONSTRAINT", "create", r.oid, r.needs \cup {r.on})
  IN  <<[create EXCEPT !.ref = r.on, !.flaws = IF Marked(r, "null") THEN {"no definition"} ELSE {}]>> \o
      PrintObjectMetadata(r, sec, "CONSTRAINT")

\* The functions of extensions keep the privileges they were given.  The list of
\* statements is never emptied: a function enters those of the ones before it
\* once more.
printExtensionFunctionACLs(rows) ==
  LET acl(r) == SelectSeq(PrintObjectMetadata(r, "predata", "FUNCTION"), LAMBDA e : e.does = "grant")
  IN  FlattenSeq([k \in DOMAIN rows |->
        IF acl(rows[k]) = <<>> THEN <<>> ELSE Each(acl, SubSeq(rows, 1, k))])

(***************************************************************************)
(* Post-data.                                                              *)
(***************************************************************************)
Meta(type, r, needs) ==
  [Entry("postdata", type, "alter", r.oid, {r.oid} \cup needs) EXCEPT !.meta = TRUE]

\* A unique index that lacks partition keys is given them for a destination
\* that asks for them.
EnsurePartitionKeysInUniqueIndexDefs(r) ==
  IF Before(7) /\ job.dest = "7" THEN {} ELSE {"partition key"}

PrintCreateIndexStatements(r) ==
  IF Marked(r, "of constraint") \/ (Before(6) /\ Marked(r, "primary")) THEN <<>>
  ELSE <<[Entry("postdata", "INDEX", "create", r.oid, r.needs \cup {r.on}) EXCEPT
            !.ref = r.on,
            !.flaws = IF Marked(r, "partition key missing") /\ job.dest = "7"
                      THEN EnsurePartitionKeysInUniqueIndexDefs(r) ELSE {}]>> \o
       (IF Marked(r, "tablespace") THEN <<Meta("INDEX", r, r.needs)>> ELSE <<>>) \o
       (IF r.parent # 0 /\ AtLeast(7) THEN <<Meta("INDEX", r, {r.parent})>> ELSE <<>>) \o
       (IF Marked(r, "clustered") THEN <<Meta("INDEX", r, {r.on})>> ELSE <<>>)

OnTable(r, type) ==
  <<[Entry("postdata", type, "create", r.oid, r.needs \cup {r.on}) EXCEPT !.ref = r.on]>>

PrintCreateRuleStatements(r) == OnTable(r, "RULE")
PrintCreateTriggerStatements(r) == OnTable(r, "TRIGGER")

PrintDefaultPrivilegesStatements(r) ==
  LET grants == PrivilegesOf(r, "TABLE")
  IN  <<Entry("postdata", "DEFAULT PRIVILEGES", "create", r.oid, Needs(r) \cup Grantees(grants))>>

PrintCreateEventTriggerStatements(r) ==
  <<Entry("postdata", "EVENT TRIGGER", "create", r.oid, r.needs)>> \o
  (IF Marked(r, "disabled") THEN <<Meta("EVENT TRIGGER", r, {})>> ELSE <<>>) \o
  PrintObjectMetadata(r, "postdata", "EVENT TRIGGER")

PrintCreatePolicyStatements(r) ==
  <<[Entry("postdata", "POLICY", "alter", r.on, {r.on}) EXCEPT !.ref = r.on]>> \o OnTable(r, "POLICY")

PrintCreateExtendedStatistics(r) ==
  OnTable(r, "STATISTICS EXT") \o PrintObjectMetadata(r, "postdata", "STATISTICS EXT")

(***************************************************************************)
(* Globals.                                                                *)
(***************************************************************************)
\* What every cluster has is altered, the rest is created.
Global(r, type) ==
  <<Entry("global", type, IF Marked(r, "system") THEN "alter" ELSE "create", r.oid, r.needs)>>

PrintCreateResourceQueueStatements(r) == Global(r, "RESOURCE QUEUE")

\* The groups every cluster has are set to their least before the settings
\* of the source are applied; the system group is there from version 7 on.
PrintResetResourceGroupStatements ==
  Each(LAMBDA r : <<Entry("global", "RESOURCE GROUP", "alter", r.oid, {r.oid})>>,
       Rows("resgroup", LAMBDA r : Marked(r, "system")))

PrintCreateResourceGroupStatements(r) == Global(r, "RESOURCE GROUP")

\* CREATE ROLE and ALTER ROLE with the role's queue and group, one entry.
PrintCreateRoleStatements(r) ==
  LET used == {n \in r.needs : cat[n].kind = "resqueue" \/ AtLeast(5)}
  IN  <<Entry("global", "ROLE", "create", r.oid, used)>>

PrintRoleMembershipStatements(r) == <<Entry("global", "ROLE GRANT", "create", r.oid, r.needs)>>

PrintCreateTablespaceStatements(r) ==
  <<Entry("global", "TABLESPACE", "create", r.oid, {})>> \o
  PrintObjectMetadata(r, "global", "TABLESPACE")

\* The settings of the database name the database of the source.
PrintDatabaseGUCs(r) ==
  <<[Entry("global", "DATABASE GUC", "create", r.oid, r.needs) EXCEPT
       !.flaws = IF job.renamed THEN {"source database name"} ELSE {}]>>

PrintRoleGUCStatements(r) ==
  <<[Entry("global", "ROLE GUCS", "create", r.oid, WithDestTablespaces(r.needs)) EXCEPT
       !.flaws = IF Marked(r, "in database") /\ job.renamed THEN {"source database name"} ELSE {}]>>

=============================================================================
