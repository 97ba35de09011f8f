# A TLA+ model of cbcopy

cbcopy migrates databases between Greenplum and Cloudberry clusters. This
directory holds TLA+ modules that model its control, TLC configurations that
check them on small instances, and TLAPS proofs for every size.

## The system and its parts

| part | source | module |
| --- | --- | --- |
| doCopy for one database: metadata goroutine, pair channel, copy workers, bars, post-data | `copy/copy.go`, `copy/copy_metadata.go`, `copy/copy_manager.go` | `TablePipeline`, abstract: `TableMigration` |
| pre-data restore, scheduler of dependent statements, announcement of pairs | `meta/builtin/parallel_depend.go`, `restore_helper.go`, `builtin.go` | `TablePipeline` |
| one table's copy: TableCopier, CopyOperation, the statement sequences of the strategies | `copy/copy_manager.go`, `copy_operation.go`, `copy_command.go` | `CopyOperation` |
| connection slots and their transactions | `internal/dbconn/dbconn.go` | `CopyOperation` |
| strategy choice, pairing of segments, hosts and ports, the helper port table | `copy/copy_command.go`, `copy_port_helper.go`, `helper/server.go` | `SegmentWiring` |
| cbcopy_helper while it streams: listeners, diallers, codecs, exit status | `helper/` | `HelperStream` |
| record readers | `internal/reader/` | `RecordReader` |
| options and validators | `option/option.go`, `copy/copy_validator.go` | `Options` |
| database loop, table selection, partition cache, `--skip-existing` filters | `copy/copy.go`, `copy_query_wrapper.go`, `copy_query.go`, `copy_metadata.go`, `meta/builtin/skip_existing.go` | `DatabaseLoop` |
| signal handler, teardown, cleanup, retries | `utils/util.go`, `copy/copy.go` | `RunLifecycle` (in `TablePipeline` a signal ends the process) |
| catalogue queries | `meta/builtin/queries_*.go` | `Catalogue` |
| owners and privileges | `predata_acl.go`, `queries_acl.go` | `Privileges` |
| statements and table of contents | `predata_*.go`, `postdata.go`, `metadata_globals.go`, `toc/toc.go` | `MetadataScript` |
| what is extracted, in which order | `extract_helper.go`, `builtin.go` | `MetadataExtract` |
| dependency sort | `dependencies.go` | `DependencySort` |
| restore of globals, pre-data phases, post-data batches | `builtin.go`, `restore_helper.go`, `parallel.go` | `MetadataCopy` |
| statistics, incremental backup, cluster commands | `statistics.go`, `queries_incremental.go`, `internal/cluster` | not modelled: not called by cbcopy |

How they interact. For every database doCopy builds `TableMap` (destination
name to source name) and calls `MigrateMetadata`. If metadata is migrated, a
goroutine (`restorePredata`) replays the DDL; whenever a worker of its pool has
executed a `CREATE TABLE`, it takes the table's pair (or the pairs of its
leaves) out of the map and sends it on `tablec`. What is left in the map is sent
at the end, then the channel is closed. Otherwise `fillTablePairChan` sends all
pairs and `CopyManager.Copy` closes the channel. Copy workers receive pairs and
copy each over their own pair of connection slots: COPY TO on the source and
COPY FROM (or INSERT from an external table) on the destination, joined by
cbcopy_helper processes. Every table ends in one of three result files. doCopy
waits for workers, `donec` and progress bars, and restores post-data.

## Modules

### TablePipeline

State: the program counters `main` (doCopy), `restore` (restorePredata),
`ddlPc` and `copyPc` (the two pools); the shared `tabMap`, `running`, `tasks`,
`tablec`, `tablecClosed`, `donecClosed`; `result` (the result files) and the
counts of the two bars. Actions carry the names of the functions they model;
`main` steps through `MigrateMetadata`, `FillTablePairChan`, `StartCopy`,
`CloseTables`, `JoinWorkers`, `Wait`, `Finish`, `RestorePostMetadata`. The
statement of a DDL worker takes three steps (execute, announce, send), because
copy workers run in between; `rest` holds the pairs a sending loop has left.
`Signal` and `ExitProcess` are the signal handler: it sets `WasTerminated`, runs
its cleanup, and ends the process wherever the others are.

Abstractions. A statement is its number and the relation it creates; whether it
succeeds makes no difference to the control, so it has no outcome. The phases
before and after the dependent objects are two counts of statements. What a copy
does is left to `CopyOperation`. `DependsOn` (what a statement refers to) is not
known to the code; it states what the order of statements must respect, and the
extraction's topological sort is assumed (`PipelineAssumption`: dependencies
come earlier). `Uid` and `RelevantDeps` are constants since the statements that
the TOC returns carry no object id, and the map of dependencies that the
scheduler reads is never assigned.

### TableMigration

What a user may rely on: a table is begun at most once, gets one result, and
post-data starts only when no table is left. `TablePipeline` implements it by
the mapping in `Migration`.

### CopyOperation

One copy worker and its goroutines. State: the locals of `Copy` (`cur`,
`failed`, `inTxn`, `skipped`), a program counter for each side of each table's
operation (`toPc`, `fromPc`), since an abandoned one lives on, the cancelled
contexts, and the destination slot: `tx` (is `dbconn.Tx` set, and is the
transaction usable), `work` (the tables as the transaction sees them), `dest` (as
committed). A table's contents are two facts: are the earlier records there, and
how many source records have been added.

Each call of dbconn is one step, except the load, which starts and ends: while
it runs the slot is taken (`SetMaxOpenConns(1)`, and `Tx` serialises). Every
statement may fail; a COMMIT may fail and have taken effect; a load may succeed
with fewer rows than were sent, as a helper may end without an error status.

### SegmentWiring

How the helpers of one table find each other. `shape` holds the two clusters
and the strategy that `CreateCopyStrategy` picks for them. Helpers of the
listening side bind the first free port of their host and then write a port
file (`HelperListens`, `HelperWritesFile`), other copies take and release ports
of the same hosts, `PollPorts` is the successful round of `waitForHelperPorts`,
and `Dial` follows the address lists that the `Form...` functions build by
position. A port is a number of a small range, a host a model value.

### HelperStream

The processes of one destination segment. `shape` fixes direction, number of
senders and codec, and with it which of the four servers and clients run. Each
goroutine has its own place: the main goroutines (`step`), one thread per
connection in the receiver (`thread`), the accept loop (`listener`). A block
reaches stdout in two system calls, so that a missing lock would show. Kills,
failing system calls and deadlines that strike while a client is missing count
as `faults`.

### RecordReader

`readRecord`, `fill` and `Read` with the boundary searches of the three
readers. Bytes are the four classes the searches tell apart. The network
delivers any number of bytes at a time and may fail. `RecordEnds` defines the
record boundaries of the whole stream without reference to buffers.

### Options and DatabaseLoop

`Options` translates the validators, in the order in which they run, and what
`NewOption` makes of an accepted command line. `DatabaseLoop` is `doCopy`: the
map of databases, and for each of them the selection (`SelectTables`), the
filter of pairs and the tablespace map (`Prepare`), and what is copied and
created (`Migrate`). A catalogue is its plain tables, the parent of each
partition, and its relations without rows; a partition may be in another schema
than its parent. `QueryLeafTables` is the list of leaves as the queries write it:
from version 7 on with the direct parent for the root, and with the parent's
schema before the leaf's name. Go's map order is the choice of the next
database, and of the root that `leafToRoot` and `leafTableMap` keep for a leaf
name with several (`LeafToRoot`). The leaf cache and the inventory of the
destination are variables, as they outlive a round. Lists and files may be empty
where the validators let them pass (`NamesTables`, `ValidateCopyMode`).

### RunLifecycle

A process from `Initialize` to `os.Exit`, its signal handler, the server
sessions of its workers, and the retry that the README of cbcopy advises. `main`
and `handler` both go through `doCleanup` step by step; `group` is
`CleanupGroup`. A crash is possible anywhere. What survives it is `created`,
`loads` and `succeeded`. `empty` is the set of tables without rows on the
source, chosen from `EmptySets`: their copy is skipped (`Skip`), and recorded in
another file than the successes, unless the query that asks fails.

### Metadata

`Catalogue` says which rows each query returns, by version and by the filters
of the run. `Privileges` parses access lists and writes them as REVOKE and
GRANT. `MetadataScript` gives the entries each `Print...` function adds to the
table of contents: what a statement does, to which object, what it needs, and
whom it grants to. `MetadataExtract` puts them in order and collects
dependencies; which tables `--skip-existing` takes out of the DDL
(FilterTablesByDestExisting) is part of `DatabaseLoop`. `DependencySort` is
`TopologicalSort`, loop by loop.
`MetadataCopy` composes them: extraction, sort, then the phases of
`restorePredata` and the post-data batches against a destination that accepts a
statement when what it needs is there. `MCMetadata` has a catalogue of 65 rows
with an object of every kind.

## Runs

| run | what it shows | bounds |
| --- | --- | --- |
| `pipeline_gp7` | type, capacity, close protocol, exactly-once, creation before copy, dependency order, post-data last | a root with two leaves, each its own statement, and a plain table; 2 + 2 workers; all legal modes; one statement in the early and late phases |
| `pipeline_gp6` | termination; refinement of `TableMigration`; creation before copy | the root's statement creates and announces both leaves and comes last, after a plain table and a view on it |
| `copy_operation` | success implies complete; no writes after a table is left; only cancelled goroutines are left behind; failed tables are untouched; every table is recorded | two tables of 0 or 1 rows, all flags, all strategies |
| `truncate_empty` | violated: `--truncate` does not clear a table that is empty on the source (README.md:188 says it does) | the same |
| `segments` | no dial is refused; every source feeds exactly the destination it should; wiring is completed | 1 to 3 segments on each side, on 2 hosts of 3 ports, one helper of another copy |
| `helper_stream` | blocks are not torn; a receiver that returns no error has everything, with named exceptions; no failure without a fault; all helpers end | 1 or 2 senders of 2 blocks, 2 dial attempts (4 in the code), 2 faults, three codecs |
| `record_reader` | no byte is lost; blocks end records; reading ends | all streams of 5 bytes, a buffer of 3, any chunks |
| `database_loop` | exactly the selected tables are copied; their destinations exist; globals once; no unexplained fatal error | 2 databases, catalogues of up to 4 relations with flat, two-level and split trees of partitions and with tables that share a name on the destination, all flag sets of `MCDatabaseLoop` |
| `include_existing` | violated: with `--skip-existing`, `--include-table` of existing tables creates relations that were not named (README.md:349) | the command lines with both flags |
| `full_exclude` | violated: after an empty database, the leaves of an excluded root are copied (README.md:344) | `--full --exclude-table` |
| `lifecycle` | status 0 means complete but for empty tables; no orphaned sessions after a signal; retries load a table once; the process ends | 2 tables, one of them possibly empty, 2 jobs, 2 runs, all loading modes |
| `metadata` | dependency order, nothing lost without an error, failures explained, owners and rights kept, index batches | the 65 rows, versions 4 to 7, four kinds of job, one variation at a time, 2 connections |

The bounds are enough for the cases that matter: two workers of each kind can
race for a pair; three pairs fill a channel of capacity three; a second table
meets every leftover of a first one; one row tells a full load from a partial
one. Three segments on two hosts share a host and make every comparison of
counts go each way; three ports can run out. Two senders can tear each other's
blocks, and two faults can hit both sides. Five bytes exceed the buffer and hold
a quoted end of line before and after a refill. Two databases in any order show
what one round leaves to the next. Two runs are a failure and its retry. A
variation at a time tells what each dependency, mark or option changes in a
catalogue that is otherwise copied whole. `Workers` is a symmetry of
`pipeline_gp7`, which has no liveness property.

Exceptions. Several properties name the cases in which the code does not do
what one would wish, so that anything else is a violation: CSV records larger
than the buffer may be split inside a quoted field (`BlocksEndRecords`); a cut
stream may look complete: anywhere if it is not compressed, before its first
byte with zstd, and before its first byte with gzip where `OneTimeServer` drops
the error (`NilIsComplete`; `CopyOperation` compares row counts for that
reason); two abandoned external-table loads at
once may commit and begin on the slot of a third table (`Crowded` in
`SucceededIsComplete`), and one may commit the TRUNCATE of a table that then
fails (`Stragglers` in `FailedIsUntouched`, which also leaves out the
external-table strategies, as they commit their TRUNCATE before they load); from
version 7 on the leaf list is wrong for partition trees of several levels or
several schemas (`LeafListOff`), tables redirected to one name collide
(`SharesName`), and a cache survives an empty database (`SelectionExact`,
`DestinationReady`); an `--include-table-file` without a line copies everything,
although README.md:350 says "Copy only the specified table(s) listed in the
file" (`NothingListed`); before version 7 a partition in another schema than its
root is not created, or not where it is copied to, with `--schema` or
`--dest-schema` (`Strays`), and from version 7 on a partition named by
`--include-table` is not (`DestinationReady`);
`--append` repeats a table whose commit was not recorded (`LoadedOnce`);
restorePredata restores some kinds before what they may need (`Inversions`), and
from version 7 on an external leaf stops the sort (`FailuresExplained`); grants
on aggregates, and a few others, are not carried over (`NotCarried`). A table
that is empty on the source has no line in a succeed file, and its destination
is left as it was; with `--skip-existing`, a retry leaves out the tables that a
failed run created and did not load (`ZeroIsComplete`). The exceptions of
`SelectionExact` and `DestinationReady` all occur in `database_loop`: without
any one of them the run finds a violation. A hazard that such an exception
leaves open has no property in `PROJECT.json` but a note.

Fairness. `TablePipeline` assumes that every goroutine that can run does, and
that a process that has been signalled exits; it does not assume a signal.
`CopyOperation` assumes that goroutines run and that every statement ends, since
a listening helper gives up at its accept deadline (600 s) and a dialling one
when its peer is gone. `SegmentWiring` assumes that the operating system runs
every helper and that cbcopy keeps polling; `HelperStream` the same of processes
and goroutines, and that the deadline's clock runs; `RecordReader` that the peer
sends or goes away; `RunLifecycle` that goroutines run, that a COPY ends one way
or the other, and that the server drops sessions nobody waits for. None assumes
a signal, a crash, a fault or a retry. `DatabaseLoop` and `MetadataCopy` have no
liveness property.

## Proofs

Every safety property of `TablePipeline`, `CopyOperation`, `RunLifecycle`,
`HelperStream`, `RecordReader`, `SegmentWiring`, `DatabaseLoop` and
`DependencySort` is proved for every value of the constants; `TablePipeline` is proved to implement
`TableMigration`. The inductive invariants in the last column were model-checked
on the configurations of the runs before they were proved.

| theorem | module | rests on |
| --- | --- | --- |
| `TypeInvariant` | `TablePipeline_proofs` | nothing else |
| `ChannelProtocolHolds` | `TablePipeline_proofs` | `ControlInv` |
| `ExactlyOnceHolds` | `TablePipeline_proofs` | `ControlInv`, `WorkerInv` |
| `SendNeverBlocksHolds` | `TablePipeline_proofs` | `ControlInv`, `ExactlyOnce` |
| `DependenciesFirstHolds` | `TablePipeline_proofs` | `ControlInv`, `SchedInv` |
| `CreateBeforeCopyHolds` | `TablePipeline_proofs` | `ExactlyOnce`, `SchedInv`, `CreatedInv` |
| `PostAfterDataHolds` | `TablePipeline_proofs` | `ExactlyOnce`, `SchedInv`, `EndInv` |
| `PipelineImplementsMigration` | `TablePipeline_proofs` | `ControlInv`, `WorkerInv`, `ExactlyOnce`, `EndInv` |
| `TypeOKHolds` | `CopyOperation_proofs` | `SlotInv` |
| `OnlyCancelledLeftBehindHolds` | `CopyOperation_proofs` | `SlotInv` |
| `NoLateWritesHolds` | `CopyOperation_proofs` | `SlotInv` |
| `SucceededIsCompleteHolds` | `CopyOperation_proofs` | `SlotInv`, `KeepInv`, `SuccInv` |
| `FailedIsUntouchedHolds` | `CopyOperation_proofs` | `SlotInv`, `KeepInv`, `FailInv` |
| `LoadedOnceHolds` | `RunLifecycle_proofs` | `DiskInv` |
| `ZeroIsCompleteHolds` | `RunLifecycle_proofs` | `DiskInv`, `DoneInv`, `StatusInv` |
| `NoOrphansHolds` | `RunLifecycle_proofs` | `DoneInv`, `OrphanInv` |
| `StreamsIntactHolds` | `HelperStream_proofs` | `HolderInv`, `HalvesInv` |
| `NilIsCompleteHolds` | `HelperStream_proofs` | `FlowInv`, `NilInv` |
| `FailsOnlyOnFaultHolds` | `HelperStream_proofs` | `WireInv`, `MainInv`, `ServeInv`, `CleanInv` |
| `NothingLostHolds` | `RecordReader_proofs` | `PiecesInv` |
| `BlocksEndRecordsHolds` | `RecordReader_proofs` | `PiecesInv`, `StartInv` |
| `NoRefusedDialHolds` | `SegmentWiring_proofs` | `ShapeInv`, `BoundInv`, `PortsInv`, `ConnsInv` |
| `WiredExactlyHolds` | `SegmentWiring_proofs` | the same |
| `FatalsExplainedHolds` | `DatabaseLoop_proofs` | `LoopInv` |
| `GlobalsOnceHolds` | `DatabaseLoop_proofs` | `LoopInv`, `FirstBroughtGlobals` |
| `DestinationReadyHolds` | `DatabaseLoop_proofs` | `LoopInv`, `PairsInv`, `FilterInv` |
| `SelectionExactHolds` | `DatabaseLoop_proofs` | `LoopInv`, `PairsInv`, `WantedInv`, `ResultsInv` |
| `SortCorrect` | `DependencySort_proofs` | `IInv` |

Assumptions. `PipelineAssumption`: finite sets, at least one worker of each
kind, `--metadata-only` without `--data-only` or `--dest-table`, a channel
capacity of at least the number of tables, and statements listed after those
they refer to. The last one is what the extraction's sort provides: `SortCorrect`
proves it of the sorted objects. `SortCorrect` itself assumes a slice without
duplicates (`SortInit`), which an external leaf of version 7 breaks.
`CopyAssumption`: row counts are natural numbers. `JobsAssumption`,
`StreamAssumption`, `ReaderAssumption` and `WiringAssumption`: at least one copy
job; at least one sender and one dial attempt; a buffer of at least one byte; at
least one segment and one port, and finitely many hosts. `EmptySetsAssumption`:
the sets of empty tables are sets of tables. `CommandLinesAssumption`:
a list of names comes with the flag that carries it (a file may be empty), and
the databases it names are on the source. `CataloguesAssumption`: a relation is a
plain table or in a partition tree, its name is a schema and a relation, and a
tree has at most two levels of partitions, which is as far as `RootOf` and
`WalkToRoot` follow it. The destination's catalogues are arbitrary.

The argument. Apart from the type of the pipeline, none of the properties says
enough to be kept by a step on its own, so each is proved together with others.

Pipeline:

- `ControlInv` says which goroutines can be at work together: restorePredata
  does not run when `fillTablePairChan` does; the DDL workers have not started
  before "schedule" and have exited from "late" on; only a worker at "send" has
  pairs in hand. The close protocol follows at once.
- `WorkerInv` says that a copy worker has a pair in hand from the receive to the
  record. With it, every step moves pairs from one place to the next or moves
  none: one lemma for each kind of move (`PlaceSendRest`, `PlaceAnnounce`,
  `PlaceSendPair`, `PlaceReceive`, `PlaceRecord`, `PlaceStays`), one for each
  goroutine.
- A pair about to be sent is not in the channel, and no pair is there twice;
  by the pigeonhole principle the channel is not full.
- `SchedInv` says that at most one statement is scheduled and not finished, in
  the task channel or with one worker, and that everything before it has been
  executed. It holds because all statements share one identity; the workers'
  parallelism is nominal.
- `CreatedInv` is `CreateBeforeCopy` for all pairs outside the map. Before the
  workers exit, only an announcement takes pairs out of the map; afterwards
  every statement has been executed (`AllExecuted`).
- `EndInv` says that the bar counts each table once, when its copy has ended,
  and that the workers do not come back after the join. Post-data therefore
  starts when no pair is in the map, in a hand or in the channel.
- The refinement: by these invariants the state of a table in `TableMigration`
  changes only with its own receive and record, and every other step stutters.

One table's copy:

- `SlotInv` joins the types with `WorkerInv`, `SidesInv`, `AwaitInv`, `RowsInv`
  and `WorkInv`. `SidesInv` says how far the two sides of an operation may be
  when the worker is at each of its places, and that what it leaves behind is
  cancelled.
- `WorkInv` says that only the table in flight has uncommitted work, so that a
  commit or a rollback of the slot reaches no other table.
- `KeepInv` says that up to the COMMIT the slot holds what it should of the
  table in flight, or the COMMIT will be refused, or CopyFrom has failed and
  there will be none. The middle case is the one a straggler causes: it has
  taken the transaction away and nobody is left to begin another.

A process and its retries:

- `DiskInv` ties the lines of the succeed files to the loads. `DoneInv` says who
  has called `CleanupGroup.Done`; `StatusInv` that main passes its look at the
  flag with error code 0 only with complete copies, or after the handler's
  Done, and then its own Done panics; a copy is complete when it is recorded, or
  skipped as empty. `OrphanInv` follows the handler from one
  side to the other while it ends the backends.

Helpers:

- `FlowInv` relates a sender's stream to its goroutine in the receiver: one that
  ends has set the error or accounts for its stream, whose end then is one of
  those `NilIsComplete` lists. `HolderInv` says that the
  first half of a block in the making is the last thing on stdout and that its
  goroutine holds the lock. `WireInv`, `MainInv` and `ServeInv` say how far the
  processes are; `CleanInv` says of a run without faults that whoever is dialled
  listens, and that a deadline that passes finds every client connected.

Records:

- `PiecesInv` says that what was returned, what Read collects and what the buffer
  holds are adjacent slices of the stream; `StartInv` that the CSV reader starts
  each search where a record starts. That the byte loop of the CSV reader finds
  the last end of a record in its buffer, and that quotes counted from a record's
  start agree with those counted from the start of the stream, are inductions
  over the input, done as arguments about a least counterexample (`WFMin`).

Wiring:

- `Wire(s)` is the one connection that copies source segment s: to the
  destination at s modulo their number, by the entry s of the address lists.
  `PortsInv` says that a port list is complete and holds each listener's port at
  its place, although the code joins ports and hosts by sorting and position.
  `ConnsInv` says that no connection is made but a `Wire`. A listener waits for
  as many clients as there are wires to it (`WireCount`), so that it still
  accepts whoever dials (`StillAccepts`).

Database loop:

- `LoopInv` carries to every round what the rest of the program may rely on.
  Its heart is `OptionFacts`: what the validators and `NewOption` establish
  together about the lists of an option (`OptionSound`), such as that the lists of
  `--include-table` and `--dest-table` have the same length, and that schemas are
  not mixed with tables. It also says that every database is visited once, that
  `--schema` and `--include-table` have a single one, for which the caches are
  empty, and that the tablespace map was filled by an earlier database.
  `FatalsExplained` follows step by step; the property alone does not say what
  the lists are.
- `FirstBroughtGlobals` names the database that brought the global objects: the
  first one migrated, since `i` is 0 just as long as there are no results.
- `PairsInv` says where a pair comes from: the table is of the mode, and its
  partner is its redirected name, or a validated table of `--dest-table`.
  `FilterInv` says that no pair left by the pair filter is on the destination,
  itself or by the root that a choice of `leafToRoot` gives it, which is the root
  of its tree when the leaf list is right and no other table shares its name
  (`LeafNames`, `RootInMap`). The plan of the DDL then holds the table or its root
  (`InPlan`), and the DDL filter, which asks for the root under the name that
  `TranslateToDestFQN` gives (`SameName`), cannot drop it (`KeptInPlan`).
- `WantedInv` says that a database whose turn came with empty caches gets the
  pairs of the tables asked for: `expandPartTables` finds what the names stand for
  (`ExpandsToUnder`), and positions match in the two lists of `--dest-table`
  (`WantedByPosition`). The pair filter takes away what the destination has and
  lists it (`FilterExact`), the table map loses a table only to a colliding one
  (`MapExact`), and dedupByDestFQN keeps an entry for every relation
  (`DedupKeeps`).

Dependency sort:

- `DependenciesFirst` does not say why an object may be queued. `IInv` adds what
  `inDegrees` counts: the dependencies of an object that are not emitted, or
  that are the item in hand while the inner loop has not come to the object
  (`Pending`). An object is in the queue or emitted exactly when it has none.
  When the queue is empty, what is left over therefore has pending dependencies
  among itself, which is a circle.

Only model-checked: everything that needs fairness (`Completes`,
`EveryTableRecorded`, `EventuallyWired`, `HelpersEnd`, `ReaderEnds`, `RunEnds`),
which is out of the prover's reach; and the invariants of `MetadataCopy`, the
sort apart (`NothingLostSilently`, `FailuresExplained`, `PrivilegesKept`,
`IndexBatches`). Those compare what the phases restore with a catalogue that
`MCMetadata` lists row by row, and the table of contents between the two is
built by filtering and concatenating sequences, facts about which need
induction over data.

## What the mutants are

Definitions marked "(Variant: ...)" restate one definition with a plausible
mistake; each property is violated when its variant is put in place.

## Not modelled

- The text of SQL statements. A statement is what it does, what it needs and
  whom it grants to; quoting, wording and layout are left out.
- List files read line by line, the owner mapping file, message texts.
- The helper's resolve and checksum modes and its command line.
- Connect, Close and the version parser of dbconn, and the moment between the
  return of COMMIT or ROLLBACK and the assignment that clears `dbconn.Tx`:
  `CopyOperation` takes each call as one step.
- Codecs beyond what a cut stream looks like.
- `statistics.go`, `queries_statistics.go`, `queries_incremental.go` and
  `internal/cluster`: cbcopy does not call them.
- The modules are composed by their interfaces, not in one state space:
  `CopyOperation` takes from `HelperStream` that a load may end short,
  `RunLifecycle` takes from `CopyOperation` the points that survive a process,
  `TablePipeline` takes from `DependencySort` the order of statements, and
  `HelperStream` takes blocks from `RecordReader`.
