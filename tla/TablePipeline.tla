--------------------------- MODULE TablePipeline ---------------------------
(***************************************************************************)
(* One database's share of a cbcopy run: the body of the loop of doCopy    *)
(* (copy/copy.go).  Four kinds of goroutines share the channel tablec of   *)
(* table pairs:                                                            *)
(*                                                                         *)
(*   main      doCopy itself: MigrateMetadata, CopyManager.Copy, Wait,     *)
(*             Finish, RestorePostMetadata;                                *)
(*   restore   restorePredata, which replays the pre-data DDL, schedules   *)
(*             the dependent statements, and finally closes tablec;        *)
(*   MetaConns the workers of ExecuteDependentStatements; a worker that    *)
(*             has executed a CREATE TABLE announces the table's pairs;    *)
(*   CopyConns the workers of CopyManager, which copy the announced pairs. *)
(*                                                                         *)
(* The signal handler may end the process at any point.  What one table    *)
(* copy does on its two connections is the subject of CopyOperation; here  *)
(* it is a choice among the results TableCopier.Copy can record.           *)
(***************************************************************************)
EXTENDS Naturals, Sequences, FiniteSets

CONSTANTS
    Tables,         \* the destination names of the pairs: the keys of TableMap
    Roots,          \* partitioned tables that hold no data themselves
    NoRel,          \* the "relation" of a statement that is not a CREATE TABLE
    NStmts,         \* number of dependent pre-data statements
    StmtRel,        \* StmtRel[i]: the relation statement i creates, or NoRel
    DependsOn,      \* DependsOn[i]: the statements that statement i refers to
    PartNameMap,    \* destination root -> its leaf tables
    SrcIsGP7,       \* source is GPDB 7+ or of the Cloudberry family
    NEarly, NLate,  \* statements restored before and after the dependent ones
    Cap,            \* capacity of tablec: len(destTables)
    MetaConns,      \* connection slots of the metadata connection
    CopyConns,      \* connection slots of the data connections
    Modes           \* the combinations of flags to consider

Stmts == 1 .. NStmts
Rels == Tables \cup Roots

\* A run's flags.  --metadata-only excludes --data-only and --dest-table.
FlagSets == [metaOnly : BOOLEAN, dataOnly : BOOLEAN, destTables : BOOLEAN]
LegalFlags(m) == m.metaOnly => ~m.dataOnly /\ ~m.destTables

ASSUME PipelineAssumption ==
    /\ IsFiniteSet(Tables) /\ IsFiniteSet(MetaConns) /\ IsFiniteSet(CopyConns)
    /\ MetaConns # {} /\ CopyConns # {}
    /\ NoRel \notin Rels /\ Tables \cap Roots = {}
    /\ NStmts \in Nat /\ NEarly \in Nat /\ NLate \in Nat
    /\ StmtRel \in [Stmts -> Rels \cup {NoRel}]
    /\ DependsOn \in [Stmts -> SUBSET Stmts]
    /\ \A i \in Stmts : \A j \in DependsOn[i] : j < i
    /\ PartNameMap \in [Roots -> SUBSET Tables]
    /\ SrcIsGP7 \in BOOLEAN
    /\ Cap \in Nat /\ Cardinality(Tables) <= Cap
    /\ Modes \subseteq {m \in FlagSets : LegalFlags(m)}

VARIABLES
    mode,       \* the flags of this run
    alive,      \* the process has not exited
    terminated, \* utils.WasTerminated
    main,       \* where doCopy is
    restore,    \* where restorePredata is
    phase,      \* statements of the early (then late) phases already executed
    next,       \* the statement scheduleStatements looks at
    running,    \* runningTasks
    tasks,      \* the channel of scheduled statements
    ddlPc, ddlTask, ddlOut,     \* the dependent-statement workers
    executed,   \* dependent statements that have been executed
    tabMap,     \* TableMap: pairs that no CREATE TABLE has announced yet
    rest,       \* pairs the loop of RestoreCleanup or fillTablePairChan has left
    tablec, tablecClosed,       \* the channel of table pairs
    donecClosed,                \* donec
    copyPc, copyTab,            \* the copy workers
    result,     \* what the result files say of each table
    barMeta, barData            \* increments of the two progress bars

mainVars == <<mode, alive, terminated, main>>
restoreVars == <<restore, phase, next, rest>>
ddlVars == <<running, tasks, ddlPc, ddlTask, ddlOut, executed, tabMap>>
chanVars == <<tablec, tablecClosed, donecClosed>>
copyVars == <<copyPc, copyTab, result>>
barVars == <<barMeta, barData>>
vars == <<mainVars, restoreVars, ddlVars, chanVars, copyVars, barVars>>

Outcomes == {"succeeded", "failed", "skipped"}

----------------------------------------------------------------------------
(* Which parts of the run the flags select. *)

ContainsMetadata == mode.metaOnly \/ ~mode.dataOnly

\* The pairs come from fillTablePairChan and not from restored DDL.
FillsChannel == ~ContainsMetadata \/ mode.destTables

\* (Variant: CopyManager.Copy closes the channel in every mode.)
CopyAlwaysCloses == TRUE

\* CopyManager.Copy closes the channel itself.
CopyCloses == ~ContainsMetadata \/ mode.destTables

\* The bar doCopy finishes belongs to a container that holds the bar of the
\* restored statements as well when the DDL is restored.  Progress.Wait
\* returns when every bar of the container has reached its total.
MetaTotal == NEarly + NStmts + NLate
\* (Variant: the bars are not waited for.)
BarsIgnored == TRUE

BarsComplete ==
    /\ ~FillsChannel => barMeta = MetaTotal
    /\ ~mode.metaOnly => barData = Cardinality(Tables)

----------------------------------------------------------------------------
(* The scheduler's view of statements and dependencies. *)

\* (Variant: every statement has an identity of its own.)
UidOfEntry(i) == i

\* GetSQLStatementForObjectTypes fills neither Oid nor ClassOID.
Uid(i) == 0

\* The dependency map that the scheduler reads is a package variable that
\* nothing assigns: backupDependentObjects declares a local of that name.
RelevantDeps(uid) == {}

IsDependentStatementRunning(t, depMap) == Uid(t) \in depMap

ShouldScheduleStatement(i) ==
    /\ \A t \in running :
          /\ Uid(t) # Uid(i)
          /\ ~IsDependentStatementRunning(t, RelevantDeps(Uid(i)))
    /\ Cardinality(running) < Cardinality(MetaConns)

IsPartitioned(r) == r \in Roots /\ PartNameMap[r] # {}

\* (Variants: a version 7 root announces its leaves; a relation is announced
\* without a look at the map.)
LookupWithoutWorkaround(i) ==
    IF IsPartitioned(StmtRel[i]) THEN PartNameMap[StmtRel[i]] \cap tabMap
                                 ELSE {StmtRel[i]} \cap tabMap
LookupUnchecked(i) == {StmtRel[i]}

\* The pairs that the execution of statement i announces.
LookupSourceTables(i) ==
    IF ~SrcIsGP7 /\ IsPartitioned(StmtRel[i])
    THEN PartNameMap[StmtRel[i]] \cap tabMap
    ELSE {StmtRel[i]} \cap tabMap

\* What the destination server creates when it executes statement i: before
\* version 7 the statement of a root creates the leaves too.
Creates(i) ==
    IF ~SrcIsGP7 /\ IsPartitioned(StmtRel[i])
    THEN PartNameMap[StmtRel[i]] ELSE {StmtRel[i]}

----------------------------------------------------------------------------
Init ==
    /\ mode \in Modes
    /\ alive = TRUE /\ terminated = FALSE
    /\ main = "migrate" /\ restore = "off"
    /\ phase = 0 /\ next = 1
    /\ running = {} /\ tasks = <<>>
    /\ ddlPc = [w \in MetaConns |-> "off"]
    /\ ddlTask = [w \in MetaConns |-> 0]
    /\ ddlOut = [w \in MetaConns |-> {}]
    /\ executed = {}
    /\ tabMap = Tables
    /\ rest = IF FillsChannel THEN Tables ELSE {}
    /\ tablec = <<>> /\ tablecClosed = FALSE /\ donecClosed = FALSE
    /\ copyPc = [c \in CopyConns |-> "off"]
    /\ copyTab = [c \in CopyConns |-> NoRel]
    /\ result = [t \in Tables |-> "none"]
    /\ barMeta = 0 /\ barData = 0

\* A send blocks while the buffer is full; a send on a closed channel panics
\* (see ChannelProtocol, which rules it out).
Send(t) ==
    /\ Len(tablec) < Cap
    /\ tablec' = Append(tablec, t)

----------------------------------------------------------------------------
(* main *)

MigrateMetadata ==
    /\ main = "migrate"
    /\ IF FillsChannel
       THEN /\ main' = "fill"
            /\ UNCHANGED restore
       ELSE /\ main' = "copy"
            /\ restore' = "early"
    /\ UNCHANGED <<mode, alive, terminated, phase, next, rest>>
    /\ UNCHANGED <<ddlVars, chanVars, copyVars, barVars>>

FillTablePairChan ==
    /\ main = "fill"
    /\ \/ \E t \in rest :
            /\ Send(t)
            /\ rest' = rest \ {t}
            /\ UNCHANGED <<main, donecClosed>>
       \/ /\ rest = {}
          /\ donecClosed' = TRUE
          /\ main' = "copy"
          /\ UNCHANGED <<rest, tablec>>
    /\ UNCHANGED <<mode, alive, terminated, restore, phase, next, tablecClosed>>
    /\ UNCHANGED <<ddlVars, copyVars, barVars>>

\* CopyManager.Copy starts the workers, which may run before it closes the
\* channel; with --metadata-only it is not called.
StartCopy ==
    /\ main = "copy"
    /\ IF mode.metaOnly
       THEN /\ main' = "wait"
            /\ UNCHANGED copyPc
       ELSE /\ main' = IF CopyCloses THEN "close" ELSE "join"
            /\ copyPc' = [c \in CopyConns |-> "idle"]
    /\ UNCHANGED <<mode, alive, terminated, copyTab, result>>
    /\ UNCHANGED <<restoreVars, ddlVars, chanVars, barVars>>

CloseTables ==
    /\ main = "close"
    /\ tablecClosed' = TRUE
    /\ main' = "join"
    /\ UNCHANGED <<mode, alive, terminated, tablec, donecClosed>>
    /\ UNCHANGED <<restoreVars, ddlVars, copyVars, barVars>>

JoinWorkers ==
    /\ main = "join"
    /\ \A c \in CopyConns : copyPc[c] = "exited"
    /\ main' = "wait"
    /\ UNCHANGED <<mode, alive, terminated>>
    /\ UNCHANGED <<restoreVars, ddlVars, chanVars, copyVars, barVars>>

Wait ==
    /\ main = "wait"
    /\ ContainsMetadata => donecClosed
    /\ main' = "finish"
    /\ UNCHANGED <<mode, alive, terminated>>
    /\ UNCHANGED <<restoreVars, ddlVars, chanVars, copyVars, barVars>>

Finish ==
    /\ main = "finish"
    /\ BarsComplete
    /\ main' = "post"
    /\ UNCHANGED <<mode, alive, terminated>>
    /\ UNCHANGED <<restoreVars, ddlVars, chanVars, copyVars, barVars>>

\* RestorePostMetadata, the closing of the connections and ResetCache.
RestorePostMetadata ==
    /\ main = "post"
    /\ main' = "done"
    /\ UNCHANGED <<mode, alive, terminated>>
    /\ UNCHANGED <<restoreVars, ddlVars, chanVars, copyVars, barVars>>

Main ==
    /\ alive
    /\ \/ MigrateMetadata \/ FillTablePairChan \/ StartCopy \/ CloseTables
       \/ JoinWorkers \/ Wait \/ Finish \/ RestorePostMetadata

----------------------------------------------------------------------------
(* restore *)

\* RestoreSchemas, RestoreExtensions, ..., RestoreCreateSequences: statement
\* after statement on one connection, an error is counted and passed over.
RestoreEarly ==
    /\ restore = "early"
    /\ IF phase < NEarly
       THEN /\ phase' = phase + 1 /\ barMeta' = barMeta + 1
            /\ UNCHANGED <<restore, ddlPc>>
       ELSE /\ phase' = 0 /\ restore' = "schedule"
            /\ ddlPc' = [w \in MetaConns |-> "idle"]
            /\ UNCHANGED barMeta
    /\ UNCHANGED <<next, rest, running, tasks, ddlTask, ddlOut, executed, tabMap>>
    /\ UNCHANGED <<mainVars, chanVars, copyVars, barData>>

\* scheduleStatements: sleeps while the statement may not be scheduled, and
\* closes the task channel (here: leaves "schedule") after the last one.
ScheduleStatement ==
    /\ restore = "schedule"
    /\ IF next <= NStmts
       THEN /\ ShouldScheduleStatement(next)
            /\ running' = running \cup {next}
            /\ tasks' = Append(tasks, next)
            /\ next' = next + 1
            /\ UNCHANGED restore
       ELSE /\ restore' = "drain"
            /\ UNCHANGED <<running, tasks, next>>
    /\ UNCHANGED <<phase, rest, ddlPc, ddlTask, ddlOut, executed, tabMap>>
    /\ UNCHANGED <<mainVars, chanVars, copyVars, barVars>>

\* (Variant: the workers are not waited for.)
WorkerPoolNoWait ==
    /\ restore = "drain"
    /\ restore' = "late"
    /\ UNCHANGED <<phase, next, rest>>
    /\ UNCHANGED <<mainVars, ddlVars, chanVars, copyVars, barVars>>

WorkerPoolWait ==
    /\ restore = "drain"
    /\ \A w \in MetaConns : ddlPc[w] = "exited"
    /\ restore' = "late"
    /\ UNCHANGED <<phase, next, rest>>
    /\ UNCHANGED <<mainVars, ddlVars, chanVars, copyVars, barVars>>

\* RestoreProceduralLanguages, ..., RestoreConstraints.
RestoreLate ==
    /\ restore = "late"
    /\ IF phase < NLate
       THEN /\ phase' = phase + 1 /\ barMeta' = barMeta + 1
            /\ UNCHANGED <<restore, rest>>
       ELSE /\ restore' = "cleanup" /\ rest' = tabMap
            /\ UNCHANGED <<phase, barMeta>>
    /\ UNCHANGED <<next, barData>>
    /\ UNCHANGED <<mainVars, ddlVars, chanVars, copyVars>>

\* RestoreCleanup announces what no CREATE TABLE has announced, and
\* restorePredata closes the channels.
RestoreCleanup ==
    /\ restore = "cleanup"
    /\ \/ \E t \in rest :
            /\ Send(t)
            /\ rest' = rest \ {t}
            /\ UNCHANGED restore
       \/ /\ rest = {}
          /\ restore' = "close"
          /\ UNCHANGED <<rest, tablec>>
    /\ UNCHANGED <<phase, next, tablecClosed, donecClosed>>
    /\ UNCHANGED <<mainVars, ddlVars, copyVars, barVars>>

CloseChannels ==
    /\ \/ /\ restore = "close"
          /\ tablecClosed' = TRUE /\ restore' = "closeDone"
          /\ UNCHANGED donecClosed
       \/ /\ restore = "closeDone"
          /\ donecClosed' = TRUE /\ restore' = "end"
          /\ UNCHANGED tablecClosed
    /\ UNCHANGED <<phase, next, rest, tablec>>
    /\ UNCHANGED <<mainVars, ddlVars, copyVars, barVars>>

Restore ==
    /\ alive
    /\ \/ RestoreEarly \/ ScheduleStatement \/ WorkerPoolWait
       \/ RestoreLate \/ RestoreCleanup \/ CloseChannels

----------------------------------------------------------------------------
(* The workers of ExecuteDependentStatements. *)

TakeTask(w) ==
    /\ ddlPc[w] = "idle"
    /\ \/ /\ tasks # <<>>
          /\ ddlTask' = [ddlTask EXCEPT ![w] = Head(tasks)]
          /\ tasks' = Tail(tasks)
          /\ ddlPc' = [ddlPc EXCEPT ![w] = "exec"]
       \/ /\ tasks = <<>> /\ restore = "drain"
          /\ ddlPc' = [ddlPc EXCEPT ![w] = "exited"]
          /\ UNCHANGED <<ddlTask, tasks>>
    /\ UNCHANGED <<running, ddlOut, executed, tabMap>>
    /\ UNCHANGED <<mainVars, restoreVars, chanVars, copyVars, barVars>>

\* The statement runs; whether it succeeds, fails or finds the object there,
\* the worker goes on in the same way.
ExecStatement(w) ==
    /\ ddlPc[w] = "exec"
    /\ executed' = executed \cup {ddlTask[w]}
    /\ ddlPc' = [ddlPc EXCEPT ![w] = "lookup"]
    /\ UNCHANGED <<running, tasks, ddlTask, ddlOut, tabMap>>
    /\ UNCHANGED <<mainVars, restoreVars, chanVars, copyVars, barVars>>

\* (Variant: the announced pairs stay in the map.)
AnnounceAndKeep(w) ==
    /\ ddlPc[w] = "lookup"
    /\ barMeta' = barMeta + 1
    /\ ddlOut' = [ddlOut EXCEPT ![w] = LookupSourceTables(ddlTask[w])]
    /\ ddlPc' = [ddlPc EXCEPT ![w] = "send"]
    /\ UNCHANGED <<running, tasks, ddlTask, executed, tabMap, barData>>
    /\ UNCHANGED <<mainVars, restoreVars, chanVars, copyVars>>

AnnounceTables(w) ==
    /\ ddlPc[w] = "lookup"
    /\ barMeta' = barMeta + 1
    /\ ddlOut' = [ddlOut EXCEPT ![w] = LookupSourceTables(ddlTask[w])]
    /\ tabMap' = tabMap \ LookupSourceTables(ddlTask[w])
    /\ ddlPc' = [ddlPc EXCEPT ![w] = "send"]
    /\ UNCHANGED <<running, tasks, ddlTask, executed, barData>>
    /\ UNCHANGED <<mainVars, restoreVars, chanVars, copyVars>>

SendPairs(w) ==
    /\ ddlPc[w] = "send"
    /\ \/ \E t \in ddlOut[w] :
            /\ Send(t)
            /\ ddlOut' = [ddlOut EXCEPT ![w] = @ \ {t}]
            /\ UNCHANGED <<ddlPc, running>>
       \/ /\ ddlOut[w] = {}
          /\ running' = running \ {ddlTask[w]}
          /\ ddlPc' = [ddlPc EXCEPT ![w] = "idle"]
          /\ UNCHANGED <<ddlOut, tablec>>
    /\ UNCHANGED <<tasks, ddlTask, executed, tabMap, tablecClosed, donecClosed>>
    /\ UNCHANGED <<mainVars, restoreVars, copyVars, barVars>>

MetaWorker(w) ==
    /\ alive
    /\ \/ TakeTask(w) \/ ExecStatement(w) \/ AnnounceTables(w) \/ SendPairs(w)

----------------------------------------------------------------------------
(* The workers of CopyManager. *)

ReceivePair(c) ==
    /\ copyPc[c] = "idle"
    /\ \/ /\ tablec # <<>>
          /\ copyTab' = [copyTab EXCEPT ![c] = Head(tablec)]
          /\ tablec' = Tail(tablec)
          /\ copyPc' = [copyPc EXCEPT ![c] = "check"]
       \/ /\ tablec = <<>> /\ tablecClosed
          /\ copyPc' = [copyPc EXCEPT ![c] = "exited"]
          /\ UNCHANGED <<copyTab, tablec>>
    /\ UNCHANGED <<tablecClosed, donecClosed, result>>
    /\ UNCHANGED <<mainVars, restoreVars, ddlVars, barVars>>

\* A worker that finds the run terminated returns with the pair it took.
CheckTerminated(c) ==
    /\ copyPc[c] = "check"
    /\ copyPc' = [copyPc EXCEPT ![c] = IF terminated THEN "exited" ELSE "copy"]
    /\ UNCHANGED <<copyTab, result>>
    /\ UNCHANGED <<mainVars, restoreVars, ddlVars, chanVars, barVars>>

\* (Variant: the bar is not advanced.)
CopyWithoutIncrement(c) ==
    /\ copyPc[c] = "copy"
    /\ copyPc' = [copyPc EXCEPT ![c] = "record"]
    /\ UNCHANGED <<copyTab, result, barVars>>
    /\ UNCHANGED <<mainVars, restoreVars, ddlVars, chanVars>>

\* TableCopier.Copy returns and cleanupAfterCopy advances the bar ...
CopyTable(c) ==
    /\ copyPc[c] = "copy"
    /\ barData' = barData + 1
    /\ copyPc' = [copyPc EXCEPT ![c] = "record"]
    /\ UNCHANGED <<copyTab, result, barMeta>>
    /\ UNCHANGED <<mainVars, restoreVars, ddlVars, chanVars>>

\* ... before it writes the table's name to one of the three result files.
RecordResult(c) ==
    /\ copyPc[c] = "record"
    /\ \E r \in Outcomes : result' = [result EXCEPT ![copyTab[c]] = r]
    /\ copyPc' = [copyPc EXCEPT ![c] = "idle"]
    /\ copyTab' = [copyTab EXCEPT ![c] = NoRel]
    /\ UNCHANGED <<mainVars, restoreVars, ddlVars, chanVars, barVars>>

CopyWorker(c) ==
    /\ alive
    /\ \/ ReceivePair(c) \/ CheckTerminated(c) \/ CopyTable(c) \/ RecordResult(c)

----------------------------------------------------------------------------
(* The signal handler. *)

Signal ==
    /\ alive /\ ~terminated /\ main # "done"
    /\ terminated' = TRUE
    /\ UNCHANGED <<mode, alive, main>>
    /\ UNCHANGED <<restoreVars, ddlVars, chanVars, copyVars, barVars>>

\* doCleanup has ended; os.Exit(2) stops every goroutine where it stands.
ExitProcess ==
    /\ alive /\ terminated
    /\ alive' = FALSE
    /\ UNCHANGED <<mode, terminated, main>>
    /\ UNCHANGED <<restoreVars, ddlVars, chanVars, copyVars, barVars>>

\* The database is done, or the process is gone.
Stopped ==
    /\ main = "done" \/ ~alive
    /\ UNCHANGED vars

Next ==
    \/ Main
    \/ Restore
    \/ \E w \in MetaConns : MetaWorker(w)
    \/ \E c \in CopyConns : CopyWorker(c)
    \/ Signal
    \/ ExitProcess
    \/ Stopped

Spec == Init /\ [][Next]_vars

\* Every goroutine keeps running; the signal need not come.
Fairness ==
    /\ WF_vars(Main) /\ WF_vars(Restore) /\ WF_vars(ExitProcess)
    /\ \A w \in MetaConns : WF_vars(MetaWorker(w))
    /\ \A c \in CopyConns : WF_vars(CopyWorker(c))

FairSpec == Spec /\ Fairness

----------------------------------------------------------------------------
(* Properties. *)

RestorePcs == {"off", "early", "schedule", "drain", "late", "cleanup",
               "close", "closeDone", "end"}
MainPcs == {"migrate", "fill", "copy", "close", "join", "wait", "finish",
            "post", "done"}

\* Every variable of doCopy, restorePredata and the two worker pools stays in
\* the domain the code gives it.
TypeOK ==
    /\ mode \in Modes /\ alive \in BOOLEAN /\ terminated \in BOOLEAN
    /\ main \in MainPcs /\ restore \in RestorePcs
    /\ phase \in Nat /\ next \in Nat \ {0}
    /\ running \subseteq Stmts /\ tasks \in Seq(Stmts) /\ executed \subseteq Stmts
    /\ ddlPc \in [MetaConns -> {"off", "idle", "exec", "lookup", "send", "exited"}]
    /\ ddlTask \in [MetaConns -> Stmts \cup {0}]
    /\ \A w \in MetaConns : ddlPc[w] \in {"exec", "lookup", "send"} => ddlTask[w] \in Stmts
    /\ ddlOut \in [MetaConns -> SUBSET Tables]
    /\ tabMap \subseteq Tables /\ rest \subseteq Tables
    /\ tablec \in Seq(Tables)
    /\ tablecClosed \in BOOLEAN /\ donecClosed \in BOOLEAN
    /\ copyPc \in [CopyConns -> {"off", "idle", "check", "copy", "record", "exited"}]
    /\ copyTab \in [CopyConns -> Tables \cup {NoRel}]
    /\ result \in [Tables -> Outcomes \cup {"none"}]
    /\ barMeta \in Nat /\ barData \in Nat

\* The goroutines that are about to send on tablec.
Sending ==
    \/ main = "fill" /\ rest # {}
    \/ restore = "cleanup" /\ rest # {}
    \/ \E w \in MetaConns : ddlOut[w] # {}

\* A send on tablec never blocks: there is always room, even when nobody
\* receives (with --metadata-only CopyManager.Copy is never called, and
\* fillTablePairChan runs before the workers are started).
SendNeverBlocks == Sending => Len(tablec) < Cap

\* tablec is closed once, by restorePredata or by CopyManager.Copy and never by
\* both, and nobody sends on it afterwards: Go would panic on either.
ChannelProtocol ==
    tablecClosed =>
        /\ ~Sending
        /\ main \notin {"migrate", "fill", "copy", "close"} \/ ~FillsChannel
        /\ restore \notin {"early", "schedule", "drain", "late", "cleanup", "close"}

\* The pairs no goroutine has taken out of the map yet.
Unannounced ==
    rest \cup (IF FillsChannel \/ restore \in {"cleanup", "close", "closeDone", "end"}
               THEN {} ELSE tabMap)
Announcing == UNION {ddlOut[w] : w \in MetaConns}
Queued == {tablec[i] : i \in 1 .. Len(tablec)}
Held == {copyTab[c] : c \in CopyConns} \ {NoRel}
Recorded == {t \in Tables : result[t] # "none"}

\* Every pair of TableMap is in exactly one place: still in the map, with one
\* DDL worker, once in the channel, with one copy worker, or in one result
\* file.  So no table is copied twice and none is forgotten, whichever way the
\* statements, the announcements and the copies interleave.
ExactlyOnce ==
    /\ Unannounced \cup Announcing \cup Queued \cup Held \cup Recorded = Tables
    /\ Unannounced \cap (Announcing \cup Queued \cup Held \cup Recorded) = {}
    /\ Announcing \cap (Queued \cup Held \cup Recorded) = {}
    /\ Queued \cap (Held \cup Recorded) = {}
    /\ Held \cap Recorded = {}
    /\ \A v, w \in MetaConns : v # w => ddlOut[v] \cap ddlOut[w] = {}
    /\ \A i, j \in 1 .. Len(tablec) : tablec[i] = tablec[j] => i = j
    /\ \A c, d \in CopyConns : copyTab[c] = copyTab[d] => c = d \/ copyTab[c] = NoRel

\* While the DDL is being restored, a pair reaches the channel only after the
\* statement that creates its destination table has been executed; what
\* RestoreCleanup adds at the end comes after every statement.
CreateBeforeCopy ==
    ~FillsChannel =>
        \A t \in Announcing \cup Queued \cup Held \cup Recorded :
            \/ \E i \in executed : t \in Creates(i)
            \/ executed = Stmts

\* A dependent statement is executed only when the statements it refers to have
\* been executed, and no statement it refers to is still running.
DependenciesFirst ==
    \A w \in MetaConns :
        ddlPc[w] \in {"exec", "lookup", "send"} =>
            \A j \in DependsOn[ddlTask[w]] : j \in executed /\ j \notin running

\* Post-data (indexes, triggers, rules) is restored only when every table has a
\* recorded result and every pre-data statement has been executed, even if a
\* termination signal has made copy workers return with a pair in hand.
PostAfterData ==
    main \in {"post", "done"} =>
        /\ ~mode.metaOnly => Recorded = Tables
        /\ ~FillsChannel => executed = Stmts /\ restore \in {"closeDone", "end"}

\* doCopy gets through the database unless the process is terminated: nobody
\* waits forever for tasks, pairs, donec or the progress bars.
Completes == <>(main = "done" \/ ~alive)

\* The table lifecycle a user sees, read off the pipeline's state.
TableState(t) ==
    IF result[t] # "none" THEN result[t]
    ELSE IF \E c \in CopyConns : copyTab[c] = t /\ copyPc[c] \in {"copy", "record"}
         THEN "copying" ELSE "waiting"

Migration == INSTANCE TableMigration WITH
    wantData <- ~mode.metaOnly,
    table <- [t \in Tables |-> TableState(t)],
    stage <- IF ~alive THEN "killed"
             ELSE IF main \in {"post", "done"} THEN "post" ELSE "data"

\* The pipeline implements TableMigration: each step of doCopy, restorePredata
\* or a worker is a step of the table lifecycle or leaves it unchanged.
ImplementsMigration == Migration!Spec

=============================================================================
