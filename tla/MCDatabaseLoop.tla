--------------------------- MODULE MCDatabaseLoop ---------------------------
(***************************************************************************)
(* Instances of DatabaseLoop: command lines that give at most two of the   *)
(* flags that name sources, at most two of those that name destinations,   *)
(* and at most two of the others, and small catalogues.                    *)
(***************************************************************************)
EXTENDS DatabaseLoop, TLC

Small(set) == {s \in SUBSET set : Cardinality(s) <= 2}

\* The list a flag may carry; <<>> without the flag.
Given(set, names, lists) == IF set \cap names = {} THEN {<<>>} ELSE lists

FlagSets ==
    {a \cup b \cup c \cup d \cup e :
        a \in {m \in Small(CopyModeFlags) : Cardinality(m) <= 1 \/ "dbname" \in m},
        b \in Small({"dest-dbname", "dest-schema", "dest-table"}),
        c \in {{}, {"truncate"}, {"append", "skip-existing"}, {"skip-existing"}},
        d \in Small({"metadata-only", "data-only", "with-global-metadata"}),
        e \in SUBSET {"exclude-table", "dest-tablespace"}}

Lines(flagSets) ==
    UNION {[set : {set},
            dbname : Given(set, {"dbname"}, {<<"d1">>, <<"d1", "postgres">>}),
            destDbname : Given(set, {"dest-dbname"}, {<<"e1">>, <<"e1", "e2">>}),
            schema : Given(set, {"schema"}, {<<<<"d1", "s1">>>>, <<<<"d1", "s2">>>>, <<<<"d1", "s1">>, <<"d1", "s2">>>>}),
            destSchema : Given(set, {"dest-schema"}, {<<<<"e1", "x">>>>, <<<<"e1", "x">>, <<"e1", "y">>>>}),
            include : Given(set, {"include-table", "include-table-file"},
                            {<<>>, <<<<"d1", "s1", "r">>>>, <<<<"d1", "s1", "v">>>>, <<<<"d1", "s1", "t">>, <<"postgres", "s1", "t">>>>,
                             <<<<"d1", "s1", "t">>, <<"d1", "s2", "t">>>>}),
            dest : Given(set, {"dest-table"}, {<<<<"e1", "x", "t">>>>,
                                               <<<<"e1", "x", "t">>, <<"e1", "s1", "t">>>>}),
            exclude : Given(set, {"exclude-table"}, {<<<<"d1", "s1", "r">>>>, <<<<"d1", "s1", "t">>>>}),
            mapping : Given(set, {"schema-mapping-file"},
                            {<<>>, <<<<<<"d1", "s1">>, <<"e1", "x">>>>, <<<<"d1", "s2">>, <<"e1", "x">>>>>>}),
            portRange : {TRUE}, connectionMode : {"push"}, compressType : {"zstd"}] : set \in flagSets}

MCCommandLines == Lines(FlagSets)

T1 == <<"s1", "t">>
T2 == <<"s2", "t">>
XT == <<"x", "t">>
R == <<"s1", "r">>
M == <<"s1", "m">>
A == <<"s1", "a">>
B == <<"s1", "b">>
A2 == <<"s2", "a">>
XA == <<"x", "a">>
XB == <<"x", "b">>
XR == <<"x", "r">>
V == <<"s1", "v">>

Flat == (A :> R) @@ (B :> R)
Deep == (M :> R) @@ (A :> M)
Split == (A2 :> R) @@ (B :> R)
Twins == (A :> R) @@ (XA :> XB)
Cat(plain, parent, nonPhys) == [plain |-> plain, parent |-> parent, nonPhys |-> nonPhys]

MCCatalogues == {Cat({}, <<>>, {V}), Cat({T1, T2}, <<>>, {V}), Cat({T1}, Flat, {}), Cat({T2}, Deep, {}),
                 Cat({T2}, Split, {}), Cat({}, Twins, {})}
MCOtherCatalogues == {Cat({}, <<>>, {}), Cat({T1}, A :> R, {})}
MCDestCatalogues == {Cat({}, <<>>, {}), Cat({T1}, <<>>, {}), Cat({T1, XT, XR}, <<>>, {}),
                     Cat({}, A :> R, {}), Cat({A}, <<>>, {})}

\* The command lines of the two runs that show a documented promise broken.
IncludeExisting ==
    {l \in Lines({{"include-table", "skip-existing"}}) : l.include # <<<<"d1", "s1", "v">>>>}
FlatCatalogues == {Cat({T1}, Flat, {})}
FullExclude == Lines({{"full", "truncate", "exclude-table"}})

=============================================================================
