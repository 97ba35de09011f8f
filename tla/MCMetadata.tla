----------------------------- MODULE MCMetadata -----------------------------
(***************************************************************************)
(* MetadataCopy on a catalogue that has an object of every kind, for every *)
(* source version and kind of job, with one variation at a time: another   *)
(* dependency, another mark, another access list, or another option.       *)
(***************************************************************************)
EXTENDS MetadataCopy

NoAcl == [null |-> TRUE, items |-> <<>>]
Acl(items) == [null |-> FALSE, items |-> items]
To(role, perm) == [grantee |-> role, perm |-> perm]

Row(kind, schema, owner, needs) ==
  [kind |-> kind, schema |-> schema, ext |-> 0, owner |-> owner, acl |-> NoAcl,
   needs |-> needs, on |-> 0, parent |-> 0, marks |-> {}]

On(row, table) == [row EXCEPT !.on = table]
With(row, marks) == [row EXCEPT !.marks = marks]

AllOnTable == <<"a", "r", "w", "d", "D", "x", "t">>

\* Roles 1 (the user of the copy), 2 and 3; schemas 10 (public), 11 and 12.
Base == <<
  Row("role", 0, NoRole, {}),
  Row("role", 0, NoRole, {4, 5}),
  Row("role", 0, NoRole, {4}),
  Row("resqueue", 0, NoRole, {}),
  Row("resgroup", 0, NoRole, {}),
  [Row("tablespace", 0, 1, {}) EXCEPT !.acl = Acl(<<To(1, <<"C">>), To(2, <<"C", "*">>)>>)],
  Row("rolemember", 0, NoRole, {2, 3}),
  Row("roleguc", 0, NoRole, {2, 6}),
  Row("databaseguc", 0, NoRole, {}),
  [With(Row("schema", 0, 1, {}), {"public"}) EXCEPT
     !.acl = Acl(<<To(1, <<"U", "C">>), To(Public, <<"U">>)>>)],
  [Row("schema", 0, 2, {}) EXCEPT !.acl = Acl(<<To(2, <<"U", "C">>), To(3, <<"U">>)>>)],
  Row("schema", 0, 1, {}),
  Row("extension", 11, NoRole, {}),                                          \* 13
  [Row("function", 11, 1, {}) EXCEPT !.ext = 13, !.acl = Acl(<<To(1, <<"X">>)>>)],
  Row("collation", 11, 2, {}),
  Row("enum", 11, 2, {}),
  Row("base", 11, 2, {18}),
  Row("function", 11, 2, {17}),
  Row("composite", 11, 2, {16}),
  Row("domain", 11, 2, {16}),                                                \* 20
  On(Row("constraint", 11, NoRole, {22}), 20),
  [Row("function", 11, 2, {16}) EXCEPT !.acl = Acl(<<To(2, <<"X">>), To(3, <<"X", "*">>)>>)],
  [Row("table", 11, 2, {6, 16, 24}) EXCEPT
     !.acl = Acl(<<To(2, AllOnTable), To(3, <<"r", "a", "*">>), To(Public, <<"r">>)>>)],
  On(Row("sequence", 11, 2, {}), 23),
  With(Row("table", 11, 2, {12, 20}), {"root"}),                             \* 25
  [Row("table", 12, 2, {20}) EXCEPT !.parent = 25],
  Row("view", 11, 3, {22, 23}),
  On(Row("constraint", 11, NoRole, {}), 23),
  With(On(Row("constraint", 11, NoRole, {23, 28}), 25), {"with partitions"}),
  On(Row("index", 11, NoRole, {}), 23),                                      \* 30
  On(Row("index", 11, NoRole, {22}), 23),
  On(Row("index", 11, NoRole, {}), 25),
  [On(Row("index", 12, NoRole, {}), 26) EXCEPT !.parent = 32],
  On(Row("rule", 11, NoRole, {}), 23),
  On(Row("trigger", 11, NoRole, {22}), 23),                                  \* 35
  Row("aggregate", 11, 2, {22}),
  Row("operator", 11, 2, {22}),
  Row("opfamily", 11, 2, {}),
  Row("opclass", 11, 2, {22, 37, 38}),
  Row("cast", 0, NoRole, {16, 22}),                                          \* 40
  Row("language", 0, 2, {42}),
  Row("function", 11, 2, {}),
  Row("protocol", 0, 2, {44}),
  Row("function", 11, 2, {}),
  With(Row("table", 11, 2, {43}), {"external"}),                             \* 45
  Row("fdw", 0, 2, {}),
  Row("server", 0, 2, {46}),
  Row("usermapping", 0, NoRole, {2, 47}),
  Row("foreign", 11, 2, {47}),
  Row("transform", 0, NoRole, {20, 22}),                                     \* 50
  Row("tsparser", 11, NoRole, {22}),
  Row("tstemplate", 11, NoRole, {22}),
  Row("tsdictionary", 11, 2, {52}),
  Row("tsconfiguration", 11, 2, {51, 53}),
  Row("conversion", 11, 2, {22}),                                            \* 55
  Row("defaultprivileges", 11, NoRole, {2}),
  Row("eventtrigger", 0, 2, {22}),
  On(Row("policy", 11, NoRole, {}), 23),
  On(Row("statistics", 11, 2, {}), 23),
  Row("accessmethod", 0, NoRole, {14}),                                      \* 60
  Row("shell", 11, NoRole, {}),
  Row("range", 11, 2, {}),
  With(Row("resgroup", 0, NoRole, {}), {"system"}),
  With(Row("role", 0, NoRole, {}), {"system"}),
  On(Row("index", 11, NoRole, {}), 23)                                       \* 65
>>

Since(kind) ==
  CASE kind \in {"extension", "enum", "resgroup", "tsparser", "tstemplate", "tsdictionary",
                 "tsconfiguration", "opfamily"} -> 5
    [] kind \in {"collation", "range", "fdw", "server", "usermapping", "foreign",
                 "defaultprivileges", "eventtrigger"} -> 6
    [] kind \in {"transform", "policy", "statistics", "accessmethod"} -> 7
    [] OTHER -> 4

\* The catalogue of a version: the kinds it has, with their oids.  Up to
\* version 6 the index of a partition comes with that of the root; the
\* settings of a role in a database are there from version 6 on.
Exists(c, o, v) ==
  Since(c[o].kind) <= v /\ (c[o].kind = "index" /\ c[o].parent # 0 => v = 7)

CatalogueOf(c, v) ==
  [o \in DOMAIN c |->
     LET row == IF Exists(c, o, v) THEN c[o] ELSE Row("none", 0, NoRole, {})
     IN  [oid |-> o, kind |-> row.kind, schema |-> row.schema,
          ext |-> IF v < 5 THEN 0 ELSE row.ext,
          owner |-> IF v < 5 /\ row.kind = "language" THEN 1 ELSE row.owner,
          acl |-> row.acl, needs |-> {n \in row.needs : Exists(c, n, v)},
          on |-> row.on, parent |-> row.parent, marks |-> {m \in row.marks : m = "in database" => v >= 6}]]

Needing(o, n) == [Base EXCEPT ![o].needs = @ \cup {n}]
Marking(o, m) == [Base EXCEPT ![o].marks = @ \cup {m}]
Granting(o, items) == [Base EXCEPT ![o].acl = Acl(items)]

Dependencies ==
  {Needing(19, 20), Needing(19, 23), Needing(27, 28), Needing(23, 17), Needing(23, 20), Needing(23, 36),
   Needing(25, 23), Needing(44, 41), Needing(44, 23), Needing(44, 19), Needing(50, 41),
   Needing(60, 44), Needing(38, 60), Needing(62, 44), Needing(29, 32), Needing(25, 45), Needing(30, 17)}

Marks ==
  {Marking(23, "column granted twice"), Marking(22, "procedure"), Marking(26, "external"),
   Marking(24, "identity"), Marking(29, "not valid"), Marking(28, "null"), Marking(27, "materialized"),
   Marking(32, "partition key missing"), Marking(30, "null"), Marking(31, "clustered"),
   Marking(57, "disabled"), Marking(42, "null"), Marking(9, "null"), Marking(8, "in database"),
   [Marking(30, "tablespace") EXCEPT ![30].needs = {6}], Marking(30, "of constraint")}

Grants23 == {<<>>, <<To(3, <<"r">>)>>, <<To(2, <<"r", "*", "w">>), To(3, AllOnTable)>>}
Rights ==
  {Granting(23, i) : i \in Grants23} \cup
  {Granting(36, <<To(2, <<"X">>), To(3, <<"X">>)>>), Granting(49, <<To(2, AllOnTable)>>),
   Granting(20, <<To(2, <<"U">>)>>), Granting(24, <<To(2, <<"r", "w", "U">>), To(3, <<"U">>)>>),
   Granting(41, <<To(2, <<"U">>), To(3, <<"U">>)>>), Granting(43, <<To(3, <<"r">>)>>)}

Catalogues == {Base} \cup Dependencies \cup Marks \cup Rights

\* The schemas of tables that are named are not created: they are there, and
\* in one of the two cases so are the types and the function.
Modes ==
  {[mode |-> "database", inSchemas |-> {}, inTables |-> {}, there |-> {}],
   [mode |-> "schema", inSchemas |-> {11}, inTables |-> {}, there |-> {}],
   [mode |-> "table", inSchemas |-> {11, 12}, inTables |-> {23, 24, 25, 26},
    there |-> {11, 12, 16, 20, 22}],
   [mode |-> "table", inSchemas |-> {11}, inTables |-> {23, 27}, there |-> {11}]}

Plain == [dest |-> "7", global |-> TRUE, renamed |-> FALSE, ownerMap |-> <<>>,
          tablespaces |-> <<>>, atDest |-> {}]

OptionSets ==
  {[Plain EXCEPT !.global = FALSE], [Plain EXCEPT !.global = FALSE, !.atDest = {2, 3, 6, 11, 12}],
   [Plain EXCEPT !.renamed = TRUE], [Plain EXCEPT !.dest = "HDW 3"], [Plain EXCEPT !.dest = "6"],
   [Plain EXCEPT !.ownerMap = 2 :> 3], [Plain EXCEPT !.ownerMap = (2 :> 1) @@ (3 :> 1)],
   [Plain EXCEPT !.tablespaces = 100 :> 0, !.atDest = {100}],
   [Plain EXCEPT !.tablespaces = 6 :> 100, !.atDest = {100}],
   [Plain EXCEPT !.tablespaces = 6 :> 100]}

Cases ==
  ((Catalogues \X {Plain}) \cup
   ({Base, Granting(23, <<To(3, <<"r">>), To(2, <<"r", "*", "w">>)>>)} \X OptionSets))

Init ==
  /\ \E v \in 4..7, m \in Modes, c \in Cases :
       /\ cat = CatalogueOf(c[1], v)
       /\ job = [version |-> v, mode |-> m.mode, inSchemas |-> m.inSchemas, inTables |-> m.inTables,
                 dest |-> c[2].dest, global |-> c[2].global, renamed |-> c[2].renamed,
                 ownerMap |-> c[2].ownerMap, tablespaces |-> c[2].tablespaces, user |-> 1,
                 atDest |-> c[2].atDest \cup m.there]
  /\ RestoreInit

Spec == Init /\ [][Next]_vars

=============================================================================
