---------------------------- MODULE MetadataCopy ----------------------------
(***************************************************************************)
(* The copy of the metadata of one database (meta/builtin): extractDDL     *)
(* reads the catalogue, sorts the objects that depend on one another and   *)
(* writes the table of contents; executeDDL restores the global and the    *)
(* pre-data entries, type by type, and CopyPostData the post-data ones, in *)
(* three batches that are each executed on all connections.                *)
(*                                                                         *)
(* toc is the table of contents, db the destination: the objects and the   *)
(* shell types it has, the external leaves made under a name of their own  *)
(* (aside), the owner of every object, its access list once it was granted *)
(* on (a sequence of at most one set), and failed, the statements that     *)
(* ended with an error, which the code counts and logs.                    *)
(*                                                                         *)
(* The entries of the dependent objects are executed one after the other,  *)
(* which is how TablePipeline models their scheduler.                      *)
(***************************************************************************)
EXTENDS MetadataExtract, DependencySort

CONSTANT NumConns     \* --metadata-jobs

VARIABLES
  toc, db, phase,
  batches,   \* the post-data statements
  batch,     \* the batch of them in hand
  taken,     \* how many of its statements were taken by a connection
  running    \* the statements in execution: place in the batch, and outcome

postVars == <<batches, batch, taken, running>>
vars == <<cat, job, sortVars, toc, db, phase, postVars>>

(***************************************************************************)
(* The destination (external).  CREATE EXTENSION makes the members of the  *)
(* extension, and up to version 6 CREATE TABLE the partitions.  A function *)
(* may name a type of which only the shell is there.                       *)
(***************************************************************************)
TypeOf(r) ==
  CASE r.kind \in {"table", "foreign"} -> TableType(r)
    [] r.kind = "view" -> "VIEW"
    [] r.kind = "sequence" -> "SEQUENCE"
    [] r.kind = "function" -> "FUNCTION"
    [] r.kind = "aggregate" -> "AGGREGATE"
    [] r.kind = "schema" -> "SCHEMA"
    [] r.kind = "protocol" -> "PROTOCOL"
    [] r.kind = "tablespace" -> "TABLESPACE"
    [] r.kind \in {"base", "composite", "enum", "range"} -> "TYPE"
    [] r.kind = "domain" -> "DOMAIN"
    [] r.kind = "language" -> "LANGUAGE"
    [] r.kind = "fdw" -> "FOREIGN DATA WRAPPER"
    [] r.kind = "server" -> "FOREIGN SERVER"
    [] OTHER -> r.kind

ComesWith(o) ==
  {r.oid : r \in {x \in Range(cat) :
     \/ x.ext = o
     \/ Before(7) /\ x.kind = "table" /\ x.parent = o /\ ~GetExternalTableDefinitions(x)}}

RightsAt(d, o) ==
  IF d.acl[o] = <<>> THEN DefaultRights(TypeOf(cat[o]), d.owner[o]) ELSE Head(d.acl[o])

SetOwner(d, objects, to) ==
  [d EXCEPT
     !.owner = [o \in DOMAIN @ |-> IF o \in objects THEN to ELSE @[o]],
     !.acl = [o \in DOMAIN @ |->
                IF o \notin objects \/ @[o] = <<>> THEN @[o]
                ELSE <<{[x EXCEPT !.to = IF @ = d.owner[o] THEN to ELSE @] : x \in Head(@[o])}>>]]

SetRights(d, o, grants) ==
  IF grants = <<>> THEN d ELSE [d EXCEPT !.acl[o] = <<ApplyAll(RightsAt(d, o), grants)>>]

Missing(d, e) ==
  e.needs \ (d.objs \cup (IF cat[e.oid].kind = "function" THEN d.shells ELSE {}))

AlreadyExists(d, e) ==
  CASE e.does \in {"create", "create aside"} -> e.oid \in d.objs
    [] e.does = "shell" -> e.oid \in d.objs \cup d.shells
    [] OTHER -> FALSE

Refused(d, e) ==
  \/ Missing(d, e) # {}
  \/ e.flaws # {}
  \/ e.absent \cap d.objs # {}
  \/ e.does = "exchange" /\ e.oid \notin d.aside

Perform(d, e) ==
  CASE e.does = "create" ->
         LET made == [d EXCEPT !.objs = @ \cup {e.oid} \cup ComesWith(e.oid)]
             owned == IF e.to = NoRole THEN made ELSE SetOwner(made, {e.oid}, e.to)
         IN  SetRights(owned, e.oid, e.grants)
    [] e.does = "create aside" -> [d EXCEPT !.aside = @ \cup {e.oid}]
    [] e.does = "shell" -> [d EXCEPT !.shells = @ \cup {e.oid}]
    [] e.does = "exchange" -> [d EXCEPT !.objs = @ \cup {e.oid}]
    [] e.does = "owner" -> SetOwner(d, e.all, e.to)
    [] e.does = "grant" -> SetRights(d, e.oid, e.grants)
    [] e.does = "alter" -> d

(***************************************************************************)
(* The execution of statements.                                            *)
(***************************************************************************)

\* An error other than "already exists" is counted and the next statement is
\* executed.
Outcome(d, e) ==
  IF AlreadyExists(d, e) THEN "ignored" ELSE IF Refused(d, e) THEN "error" ELSE "done"

Record(d, e) ==
  [d EXCEPT !.failed = @ \cup {[oid |-> e.oid, does |-> e.does, missing |-> Missing(d, e),
                                flaws |-> e.flaws]}]

Complete(d, e, outcome) ==
  CASE outcome = "ignored" -> d [] outcome = "error" -> Record(d, e) [] outcome = "done" -> Perform(d, e)

ExecuteStatements(d, statements) ==
  LET after[i \in 0..Len(statements)] ==
        IF i = 0 THEN d
        ELSE LET before == after[i - 1]
             IN  Complete(before, statements[i], Outcome(before, statements[i]))
  IN  after[Len(statements)]

\* The entries of a section by type: those included, or, if none is given, all
\* but those excluded.
GetRestoreMetadataStatements(section, include, exclude) ==
  SelectSeq(toc, LAMBDA e :
    e.sec = section /\ IF include # {} THEN e.type \in include ELSE e.type \notin exclude)

\* One function of restorePredata: the statements of its object types.
RestoreTypesOf(from, to, include, exclude) ==
  /\ phase = from
  /\ phase' = to
  /\ db' = ExecuteStatements(db, GetRestoreMetadataStatements("predata", include, exclude))
  /\ UNCHANGED <<cat, job, sortVars, toc, postVars>>

(***************************************************************************)
(* extractDDL.                                                             *)
(***************************************************************************)

\* Up to the sort.
Extract ==
  /\ phase = "extract"
  /\ phase' = "sort"
  /\ toc' = (IF ~tableOnly \/ job.global THEN backupGlobals ELSE <<>>) \o backupPredata
  /\ BeginSort(convertToSortableSlice(Sortables), relevantDeps)
  /\ UNCHANGED <<cat, job, db, postVars>>

Sort ==
  /\ phase = "sort"
  /\ SortStep
  /\ UNCHANGED <<cat, job, toc, db, phase, postVars>>

\* The objects sorted, and what is written after them.
PrintSorted ==
  /\ phase = "sort"
  /\ sorting = "done"
  /\ toc' = toc \o backupDependentObjects(sorted) \o backupConversions \o backupPostdata
  /\ phase' = "global"
  /\ EndSort
  /\ UNCHANGED <<cat, job, db, postVars>>

SortFatal ==
  /\ phase = "sort"
  /\ sorting = "fatal"
  /\ phase' = "fatal"
  /\ UNCHANGED <<cat, job, sortVars, toc, db, postVars>>

(***************************************************************************)
(* executeDDL.                                                             *)
(***************************************************************************)
RemoveActiveRole(e) == ~(e.type = "ROLE" /\ e.oid = job.user)

GlobalTypes ==
  {"SESSION GUCS", "DATABASE GUC", "DATABASE METADATA", "RESOURCE QUEUE", "RESOURCE GROUP",
   "ROLE", "ROLE GUCS", "ROLE GRANT", "TABLESPACE"}

restoreGlobal ==
  /\ phase = "global"
  /\ phase' = "schemas"
  /\ db' = IF job.global
           THEN ExecuteStatements(db,
                  SelectSeq(GetRestoreMetadataStatements("global", GlobalTypes, {}), RemoveActiveRole))
           ELSE db
  /\ UNCHANGED <<cat, job, sortVars, toc, postVars>>

RestoreSchemas == RestoreTypesOf("schemas", "extensions", {"SCHEMA"}, {})
RestoreExtensions == RestoreTypesOf("extensions", "collations", {"EXTENSION"}, {})
RestoreCollations == RestoreTypesOf("collations", "types", {"COLLATION"}, {})
RestoreTypes == RestoreTypesOf("types", "families", {"TYPE"}, {})
RestoreOperatorFamilies == RestoreTypesOf("families", "sequences", {"OPERATOR FAMILY"}, {})
RestoreCreateSequences == RestoreTypesOf("sequences", "objects", {"SEQUENCE"}, {})

\* (Variant: the languages are restored with the dependent objects only.)
RestoreObjectsAlone ==
  RestoreTypesOf("objects", "parts", {},
             {"EXTENSION", "COLLATION", "LANGUAGE", "TYPE", "OPERATOR FAMILY", "SEQUENCE",
              "EXCHANGE PARTITION", "SEQUENCE OWNER", "CONVERSION", "CONSTRAINT", "SCHEMA"})

RestoreDependentObjects ==
  RestoreTypesOf("objects", "languages", {},
             {"EXTENSION", "COLLATION", "LANGUAGE", "TYPE", "OPERATOR FAMILY", "SEQUENCE",
              "EXCHANGE PARTITION", "SEQUENCE OWNER", "CONVERSION", "CONSTRAINT", "SCHEMA"})

RestoreProceduralLanguages == RestoreTypesOf("languages", "parts", {"LANGUAGE"}, {})
RestoreExternalParts == RestoreTypesOf("parts", "owners", {"EXCHANGE PARTITION"}, {})
RestoreSequenceOwner == RestoreTypesOf("owners", "conversions", {"SEQUENCE OWNER"}, {})
RestoreConversions == RestoreTypesOf("conversions", "constraints", {"CONVERSION"}, {})
RestoreConstraints == RestoreTypesOf("constraints", "batches", {"CONSTRAINT"}, {})

(***************************************************************************)
(* restorePostdata.                                                        *)
(***************************************************************************)
IsIndex(e) == e.type = "INDEX" /\ ~e.meta

\* (Variant: one batch for all but the metadata.)
TwoBatches(statements) ==
  <<<<>>, SelectSeq(statements, LAMBDA e : ~e.meta), SelectSeq(statements, LAMBDA e : e.meta)>>

\* The first index of every table, the rest, and the metadata of both.
BatchPostdataStatements(statements) ==
  LET first == {i \in DOMAIN statements :
                  /\ IsIndex(statements[i])
                  /\ \A j \in 1..(i - 1) :
                       IsIndex(statements[j]) => statements[j].ref # statements[i].ref}
      Places(P(_)) ==
        LET chosen == SelectSeq([i \in DOMAIN statements |-> i], P)
        IN  [i \in DOMAIN chosen |-> statements[chosen[i]]]
  IN  <<Places(LAMBDA i : i \in first),
        Places(LAMBDA i : i \notin first /\ ~statements[i].meta),
        Places(LAMBDA i : statements[i].meta)>>

BeginPostdata ==
  /\ phase = "batches"
  /\ phase' = "postdata"
  /\ batches' = BatchPostdataStatements(GetRestoreMetadataStatements("postdata", {}, {}))
  /\ UNCHANGED <<cat, job, sortVars, toc, db, batch, taken, running>>

Batch == batches[batch]

\* A connection takes the next statement of the batch.  What the statement
\* finds is decided when it starts.
TakeStatement ==
  /\ phase = "postdata"
  /\ taken < Len(Batch)
  /\ Cardinality(running) < NumConns
  /\ taken' = taken + 1
  /\ running' = running \cup {[at |-> taken + 1, outcome |-> Outcome(db, Batch[taken + 1])]}
  /\ UNCHANGED <<cat, job, sortVars, toc, db, phase, batches, batch>>

FinishStatement ==
  /\ phase = "postdata"
  /\ \E s \in running :
       /\ running' = running \ {s}
       /\ db' = Complete(db, Batch[s.at], s.outcome)
  /\ UNCHANGED <<cat, job, sortVars, toc, phase, batches, batch, taken>>

\* The workers of the batch have returned.
NextBatch ==
  /\ phase = "postdata"
  /\ running = {}
  /\ taken = Len(Batch)
  /\ taken' = 0
  /\ batch' = IF batch < 3 THEN batch + 1 ELSE batch
  /\ phase' = IF batch < 3 THEN phase ELSE "done"
  /\ UNCHANGED <<cat, job, sortVars, toc, db, batches, running>>

Ended == phase \in {"done", "fatal"} /\ UNCHANGED vars

\* The destination has what every cluster has, and what the job says.
AtDest == {r.oid : r \in {x \in Range(cat) : Marked(x, "system") \/ Marked(x, "public")}} \cup
          {job.user} \cup job.atDest

\* cat and job are chosen by the module that instantiates this one.
RestoreInit ==
  /\ toc = <<>>
  /\ db = [objs |-> AtDest, shells |-> {}, aside |-> {}, failed |-> {},
           owner |-> [o \in DOMAIN cat |-> job.user], acl |-> [o \in DOMAIN cat |-> <<>>]]
  /\ phase = "extract"
  /\ batches = <<>> /\ batch = 1 /\ taken = 0 /\ running = {}
  /\ SortIdle

Next ==
  \/ Extract \/ Sort \/ PrintSorted \/ SortFatal
  \/ restoreGlobal \/ RestoreSchemas \/ RestoreExtensions \/ RestoreCollations \/ RestoreTypes
  \/ RestoreOperatorFamilies \/ RestoreCreateSequences \/ RestoreDependentObjects
  \/ RestoreProceduralLanguages \/ RestoreExternalParts \/ RestoreSequenceOwner
  \/ RestoreConversions \/ RestoreConstraints
  \/ BeginPostdata \/ TakeStatement \/ FinishStatement \/ NextBatch \/ Ended

(***************************************************************************)
(* Properties.                                                             *)
(***************************************************************************)
GlobalKinds == {"role", "resqueue", "resgroup", "rolemember", "roleguc", "databaseguc", "tablespace"}

OnTables == {"constraint", "index", "rule", "trigger"}

\* What the job asks for: in the whole database everything but what belongs
\* to the system or to an extension, else what is in the schemas, or is one
\* of the tables or a part of one.
Asked(r) ==
  /\ r.kind # "none" /\ ~Marked(r, "system") /\ r.ext = 0
  /\ IF r.kind \in GlobalKinds THEN job.global
     ELSE CASE job.mode = "database" -> TRUE
            [] job.mode = "schema" ->
                 \/ {r.oid, r.schema} \cap job.inSchemas # {}
                 \/ r.on # 0 /\ cat[r.on].schema \in job.inSchemas
            [] job.mode = "table" ->
                 r.oid \in job.inTables \/ (r.kind \in OnTables /\ r.on \in job.inTables)

\* What has no entry of its own: definitions that were dropped while the
\* catalogue was read; the index of a constraint; the constraints of a
\* domain and of a partition; the functions made with a range type; a shell
\* type, which is only announced; tablespaces that are replaced.  And what
\* the code leaves out: the indexes of a destination of HashData 3.
LeftOut(r) ==
  \/ r.marks \cap {"null", "of constraint", "primary", "inherited", "implicit", "invalid"} # {}
  \/ r.kind = "shell"
  \/ r.kind = "constraint" /\ cat[r.on].kind = "domain"
  \/ r.kind = "tablespace" /\ ShouldReplaceTablespace
  \/ r.kind = "index" /\ job.dest = "HDW 3"

Lost(r) == Asked(r) /\ ~LeftOut(r) /\ r.oid \notin db.objs

FailedOids == {f.oid : f \in db.failed}

\* When the metadata copy ends, everything the job asked for is at the
\* destination, or the copy has counted an error for it (for a partition of
\* a version that creates partitions with their root, for the root): no
\* query filter, object type list or restore phase drops an object without
\* a trace.
NothingLostSilently ==
  phase = "done" =>
    \A r \in Range(cat) :
      Lost(r) => {r.oid, r.parent} \cap FailedOids # {}

\* The kinds of objects whose statement is restored in an earlier phase than
\* what it may refer to, whatever the sort says: TYPE before the dependent
\* objects, the identity columns with the sequences, the languages after the
\* functions, the constraints last, the access methods ahead of the sorted
\* objects, and post-data after all.
Inversions ==
  ({"composite", "range"} \X {"domain", "table", "view"}) \cup
  {<<"base", "function">>, <<"range", "function">>, <<"range", "opclass">>,
   <<"sequence", "table">>, <<"function", "language">>, <<"transform", "language">>,
   <<"view", "constraint">>, <<"accessmethod", "function">>, <<"opfamily", "accessmethod">>,
   <<"constraint", "index">>}

\* An object that the copy tried to create and that is missing in the end
\* has a cause other than the order of the statements: its text is refused,
\* or something it refers to was not asked for, or is missing itself, or is
\* restored later by one of the known inversions.  And the sort stops the
\* run only for an external leaf of version 7, which is listed twice.
FailuresExplained ==
  /\ phase = "done" =>
       \A f \in db.failed :
         f.does = "create" /\ f.oid \notin db.objs =>
           \/ f.flaws # {}
           \/ \E n \in f.missing :
                \/ n \notin db.objs
                \/ <<cat[f.oid].kind, cat[n].kind>> \in Inversions
  /\ phase = "fatal" =>
       \E r \in Range(cat) : AtLeast(7) /\ GetExternalTableDefinitions(r) /\ r.parent # 0

\* The rights of an object of the source, with the roles mapped.
SourceRights(r) ==
  IF r.acl.null THEN DefaultRights(TypeOf(r), OwnerOf(r))
  ELSE LET held == UNION {{[to |-> getMappedRole(job.ownerMap, i.grantee), priv |-> i.perm[k],
                            opt |-> k < Len(i.perm) /\ i.perm[k + 1] = "*"] :
                             k \in {n \in DOMAIN i.perm : i.perm[n] # "*"}} :
                          i \in Range(r.acl.items)}
       IN  {x \in held : x.opt \/ [x EXCEPT !.opt = TRUE] \notin held}

\* The objects whose owner or rights the statements cannot carry over: the
\* grants on aggregates, which EXECUTE is never written for; TRUNCATE, which
\* ALL adds on a foreign table; the functions of a language, which get the
\* owner of the language; identity sequences, which have no entry; and the
\* partitions that come with their root.
NotCarried(r) ==
  \/ r.kind = "aggregate" /\ ~r.acl.null
  \/ TypeOf(r) = "FOREIGN TABLE" /\ ~r.acl.null
  \/ \E l \in Range(cat) : l.kind = "language" /\ r.oid \in l.needs
  \/ Marked(r, "identity")
  \/ Before(7) /\ r.parent # 0

\* When the metadata copy ends, an object it created, and for which it has
\* counted no error, has at the destination the owner and exactly the rights
\* it has at the source, with the roles mapped: PUBLIC and the owner have
\* neither kept a default right that was revoked nor lost one, and every
\* grant option is there.
PrivilegesKept ==
  phase = "done" =>
    \A r \in Range(cat) :
      Asked(r) /\ r.owner # NoRole /\ r.oid \in db.objs \ FailedOids /\ ~NotCarried(r) =>
        /\ db.owner[r.oid] = OwnerOf(r)
        /\ RightsAt(db, r.oid) = SourceRights(r)

Running == {Batch[s.at] : s \in running}

\* Two connections never create indexes of the same table at once unless the
\* table has an index already or the creation of its first index has failed
\* (the deadlock that BatchPostdataStatements works around); and when the
\* metadata of a post-data object is executed, the object is there, or its
\* creation has failed.
IndexBatches ==
  phase = "postdata" /\ running # {} =>
    /\ \A e, f \in Running :
         IsIndex(e) /\ IsIndex(f) /\ e # f /\ e.ref = f.ref =>
           \E o \in db.objs \cup FailedOids : cat[o].kind = "index" /\ cat[o].on = e.ref
    /\ \A e \in Running : e.meta => e.oid \in db.objs \cup FailedOids

=============================================================================
