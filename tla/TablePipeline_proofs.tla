----------------------- MODULE TablePipeline_proofs -----------------------
(***************************************************************************)
(* Proofs about TablePipeline, for any set of tables, any list of          *)
(* statements, any legal flags and any number of workers: types, the       *)
(* channel and the places of a pair; then the order of things (room in     *)
(* tablec, statements before those that refer to them, tables before their *)
(* rows, post-data after the data), and that TablePipeline implements      *)
(* TableMigration.                                                         *)
(***************************************************************************)
EXTENDS TablePipeline, FiniteSetTheorems, TLAPS

\* Every leaf that names no prover is for Zenon.
USE Zenon

----------------------------------------------------------------------------
(* Sequences, as the channels use them. *)

\* What a send does to a channel.
LEMMA AppendProps ==
  ASSUME NEW S, NEW s \in Seq(S), NEW e \in S
  PROVE  /\ Append(s, e) \in Seq(S)
         /\ Len(Append(s, e)) = Len(s) + 1
         /\ \A i \in 1 .. Len(s) : Append(s, e)[i] = s[i]
         /\ Append(s, e)[Len(s) + 1] = e
  BY SMTT(30)

\* What a receive does to a channel.
LEMMA HeadTailProps ==
  ASSUME NEW S, NEW s \in Seq(S), s # <<>>
  PROVE  /\ Head(s) \in S /\ Head(s) = s[1]
         /\ Tail(s) \in Seq(S)
         /\ Len(s) > 0 /\ Len(Tail(s)) = Len(s) - 1
         /\ \A i \in 1 .. Len(s) - 1 : Tail(s)[i] = s[i + 1]
  BY SMTT(30)

\* A pair that is sent is a table, so the channel stays a channel of tables.
LEMMA SendType ==
  ASSUME tablec \in Seq(Tables), NEW t \in Tables, Send(t)
  PROVE  tablec' \in Seq(Tables)
  BY AppendProps DEF Send

\* A channel that is made is an empty sequence.
LEMMA EmptySeq == ASSUME NEW S PROVE <<>> \in Seq(S) /\ Len(<<>>) = 0
  BY SMTT(30)

----------------------------------------------------------------------------
(* Every variable keeps its type. *)

\* doCopy starts with variables of their types.
LEMMA InitType == Init => TypeOK
  <1> SUFFICES ASSUME Init PROVE TypeOK
    OBVIOUS
  <1>1. tasks \in Seq(Stmts) /\ tablec \in Seq(Tables)
    BY EmptySeq DEF Init
  <1>2. rest \subseteq Tables /\ next \in Nat \ {0}
    BY SMTT(30) DEF Init
  <1> QED
    BY <1>1, <1>2 DEF Init, TypeOK, MainPcs, RestorePcs

\* No step of doCopy breaks a type.
LEMMA MainType == TypeOK /\ Main => TypeOK'
  <1> SUFFICES ASSUME TypeOK, Main PROVE TypeOK'
    OBVIOUS
  <1> USE PipelineAssumption
  <1> USE DEF TypeOK, MainPcs, RestorePcs, mainVars, restoreVars, ddlVars,
              chanVars, copyVars, barVars
  <1>1. CASE MigrateMetadata
    BY <1>1 DEF MigrateMetadata
  <1>2. CASE FillTablePairChan
    <2>1. tablec' \in Seq(Tables)
      BY <1>2, SendType DEF FillTablePairChan
    <2> QED
      BY <1>2, <2>1 DEF FillTablePairChan
  <1>3. CASE StartCopy
    BY <1>3 DEF StartCopy
  <1>4. CASE CloseTables
    BY <1>4 DEF CloseTables
  <1>5. CASE JoinWorkers
    BY <1>5 DEF JoinWorkers
  <1>6. CASE Wait
    BY <1>6 DEF Wait
  <1>7. CASE Finish
    BY <1>7 DEF Finish
  <1>8. CASE RestorePostMetadata
    BY <1>8 DEF RestorePostMetadata
  <1> QED
    BY <1>1, <1>2, <1>3, <1>4, <1>5, <1>6, <1>7, <1>8 DEF Main

\* No step of restorePredata breaks a type.
LEMMA RestoreType == TypeOK /\ Restore => TypeOK'
  <1> SUFFICES ASSUME TypeOK, Restore PROVE TypeOK'
    OBVIOUS
  <1> USE PipelineAssumption
  <1> USE DEF TypeOK, RestorePcs, mainVars, restoreVars, ddlVars,
              chanVars, copyVars, barVars
  <1>1. CASE RestoreEarly
    BY SMTT(30), <1>1 DEF RestoreEarly
  <1>2. CASE ScheduleStatement
    <2>1. next <= NStmts => next \in Stmts
      BY SMTT(30) DEF Stmts
    <2>2. tasks' \in Seq(Stmts)
      <3>1. tasks \in Seq(Stmts)
        OBVIOUS
      <3>2. tasks' = tasks \/ (next \in Stmts /\ tasks' = Append(tasks, next))
        BY <1>2, <2>1 DEF ScheduleStatement
      <3> HIDE DEF TypeOK
      <3> QED
        BY SMTT(30), <3>1, <3>2, AppendProps
    <2>3. running' \subseteq Stmts /\ next' \in Nat \ {0}
      BY SMTT(30), <1>2, <2>1 DEF ScheduleStatement
    <2> QED
      BY <1>2, <2>2, <2>3 DEF ScheduleStatement
  <1>3. CASE WorkerPoolWait
    BY <1>3 DEF WorkerPoolWait
  <1>4. CASE RestoreLate
    BY SMTT(30), <1>4 DEF RestoreLate
  <1>5. CASE RestoreCleanup
    <2>1. tablec' \in Seq(Tables)
      BY <1>5, SendType DEF RestoreCleanup
    <2> QED
      BY <1>5, <2>1 DEF RestoreCleanup
  <1>6. CASE CloseChannels
    BY <1>6 DEF CloseChannels
  <1> QED
    BY <1>1, <1>2, <1>3, <1>4, <1>5, <1>6 DEF Restore

\* No step of a DDL worker breaks a type.
LEMMA MetaWorkerType ==
  ASSUME TypeOK, NEW w \in MetaConns, MetaWorker(w) PROVE TypeOK'
  <1> USE PipelineAssumption
  <1> USE DEF TypeOK, mainVars, restoreVars, ddlVars, chanVars, copyVars, barVars
  <1>1. CASE TakeTask(w)
    <2>1. CASE tasks # <<>> /\ ddlTask' = [ddlTask EXCEPT ![w] = Head(tasks)]
               /\ tasks' = Tail(tasks) /\ ddlPc' = [ddlPc EXCEPT ![w] = "exec"]
      <3>1. tasks' \in Seq(Stmts) /\ Head(tasks) \in Stmts
        BY <2>1, HeadTailProps
      <3> QED
        BY <1>1, <2>1, <3>1 DEF TakeTask
    <2>2. CASE ddlPc' = [ddlPc EXCEPT ![w] = "exited"] /\ UNCHANGED <<ddlTask, tasks>>
      BY <1>1, <2>2 DEF TakeTask
    <2> QED
      BY <1>1, <2>1, <2>2 DEF TakeTask
  <1>2. CASE ExecStatement(w)
    BY <1>2 DEF ExecStatement
  <1>3. CASE AnnounceTables(w)
    BY SMTT(30), <1>3 DEF AnnounceTables, LookupSourceTables
  <1>4. CASE SendPairs(w)
    <2>1. tablec' \in Seq(Tables)
      BY <1>4, SendType DEF SendPairs
    <2> QED
      BY SMTT(30), <1>4, <2>1 DEF SendPairs
  <1> QED
    BY <1>1, <1>2, <1>3, <1>4 DEF MetaWorker

\* No step of a copy worker breaks a type.
LEMMA CopyWorkerType ==
  ASSUME TypeOK, NEW c \in CopyConns, CopyWorker(c) PROVE TypeOK'
  <1> USE PipelineAssumption
  <1> USE DEF TypeOK, mainVars, restoreVars, ddlVars, chanVars, copyVars, barVars
  <1>1. CASE ReceivePair(c)
    <2>1. CASE tablec # <<>> /\ copyTab' = [copyTab EXCEPT ![c] = Head(tablec)]
               /\ tablec' = Tail(tablec) /\ copyPc' = [copyPc EXCEPT ![c] = "check"]
      <3>1. tablec' \in Seq(Tables) /\ Head(tablec) \in Tables
        BY <2>1, HeadTailProps
      <3> QED
        BY <1>1, <2>1, <3>1 DEF ReceivePair
    <2>2. CASE copyPc' = [copyPc EXCEPT ![c] = "exited"] /\ UNCHANGED <<copyTab, tablec>>
      BY <1>1, <2>2 DEF ReceivePair
    <2> QED
      BY <1>1, <2>1, <2>2 DEF ReceivePair
  <1>2. CASE CheckTerminated(c)
    BY <1>2 DEF CheckTerminated
  <1>3. CASE CopyTable(c)
    BY SMTT(30), <1>3 DEF CopyTable
  <1>4. CASE RecordResult(c)
    BY ZenonT(30), <1>4 DEF RecordResult, Outcomes
  <1> QED
    BY <1>1, <1>2, <1>3, <1>4 DEF CopyWorker

\* No step breaks a type.
LEMMA NextType == TypeOK /\ [Next]_vars => TypeOK'
  <1> SUFFICES ASSUME TypeOK, [Next]_vars PROVE TypeOK'
    OBVIOUS
  <1> USE DEF TypeOK, mainVars, restoreVars, ddlVars, chanVars, copyVars, barVars
  <1>1. CASE Signal
    BY <1>1 DEF Signal
  <1>2. CASE ExitProcess
    BY <1>2 DEF ExitProcess
  <1>3. CASE UNCHANGED vars
    BY <1>3 DEF vars
  <1> QED
    BY <1>1, <1>2, <1>3, MainType, RestoreType, MetaWorkerType, CopyWorkerType
    DEF Next, Stopped

\* Type correctness: for every database, every legal combination of flags and
\* any number of workers, the variables of doCopy, restorePredata and the worker
\* pools keep their types.
THEOREM TypeInvariant == Spec => []TypeOK
  BY InitType, NextType, PTL DEF Spec

----------------------------------------------------------------------------
(* Where the goroutines can be at the same time. *)

\* The first half of the inductive invariant: which goroutines are at work, who
\* has pairs to send, and when the channel is closed.
ControlInv ==
    /\ FillsChannel => /\ restore = "off"
                       /\ rest # {} => main \in {"migrate", "fill"}
    /\ ~FillsChannel => /\ main \notin {"fill", "close"}
                        /\ restore = "off" <=> main = "migrate"
                        /\ rest # {} => restore = "cleanup"
    /\ restore \in {"off", "early"} => \A w \in MetaConns : ddlPc[w] = "off"
    /\ restore \in {"late", "cleanup", "close", "closeDone", "end"}
          => \A w \in MetaConns : ddlPc[w] = "exited"
    /\ \A w \in MetaConns : ddlOut[w] # {} => ddlPc[w] = "send"
    /\ tablecClosed => IF FillsChannel
                       THEN main \in {"join", "wait", "finish", "post", "done"}
                       ELSE restore \in {"closeDone", "end"}

\* Who fills the channel depends on the flags alone.
LEMMA ModeFixed == ASSUME mode' = mode PROVE FillsChannel' <=> FillsChannel
  BY DEF FillsChannel, ContainsMetadata

\* ControlInv holds when doCopy starts.
LEMMA ControlInit == Init => ControlInv
  BY DEF Init, ControlInv

\* The steps of doCopy keep ControlInv.
LEMMA ControlMain == ASSUME TypeOK, ControlInv, Main PROVE ControlInv'
  <1> USE DEF ControlInv, mainVars, restoreVars, ddlVars, chanVars, copyVars, barVars
  <1>1. CASE MigrateMetadata
    BY <1>1, ModeFixed DEF MigrateMetadata
  <1>2. CASE FillTablePairChan
    BY <1>2, ModeFixed DEF FillTablePairChan
  <1>3. CASE StartCopy
    <2>1. CopyCloses <=> FillsChannel
      BY DEF CopyCloses, FillsChannel
    <2> QED
      BY <1>3, <2>1, ModeFixed DEF StartCopy
  <1>4. CASE CloseTables
    BY <1>4, ModeFixed DEF CloseTables
  <1>5. CASE JoinWorkers
    BY <1>5, ModeFixed DEF JoinWorkers
  <1>6. CASE Wait
    BY <1>6, ModeFixed DEF Wait
  <1>7. CASE Finish
    BY <1>7, ModeFixed DEF Finish
  <1>8. CASE RestorePostMetadata
    BY <1>8, ModeFixed DEF RestorePostMetadata
  <1> QED
    BY <1>1, <1>2, <1>3, <1>4, <1>5, <1>6, <1>7, <1>8 DEF Main

\* The steps of restorePredata keep ControlInv.
LEMMA ControlRestore == ASSUME TypeOK, ControlInv, Restore PROVE ControlInv'
  <1> USE DEF ControlInv, mainVars, restoreVars, ddlVars, chanVars, copyVars, barVars
  <1>1. CASE RestoreEarly
    BY <1>1, ModeFixed DEF RestoreEarly
  <1>2. CASE ScheduleStatement
    BY <1>2, ModeFixed DEF ScheduleStatement
  <1>3. CASE WorkerPoolWait
    BY <1>3, ModeFixed DEF WorkerPoolWait
  <1>4. CASE RestoreLate
    BY <1>4, ModeFixed DEF RestoreLate
  <1>5. CASE RestoreCleanup
    BY <1>5, ModeFixed DEF RestoreCleanup
  <1>6. CASE CloseChannels
    BY <1>6, ModeFixed DEF CloseChannels
  <1> QED
    BY <1>1, <1>2, <1>3, <1>4, <1>5, <1>6 DEF Restore

\* The steps of a DDL worker keep ControlInv.
LEMMA ControlMetaWorker ==
  ASSUME TypeOK, ControlInv, NEW w \in MetaConns, MetaWorker(w) PROVE ControlInv'
  <1> USE DEF ControlInv, TypeOK, mainVars, restoreVars, ddlVars, chanVars, copyVars, barVars
  <1>1. CASE TakeTask(w)
    BY <1>1, ModeFixed DEF TakeTask
  <1>2. CASE ExecStatement(w)
    BY <1>2, ModeFixed DEF ExecStatement
  <1>3. CASE AnnounceTables(w)
    BY <1>3, ModeFixed DEF AnnounceTables
  <1>4. CASE SendPairs(w)
    BY <1>4, ModeFixed DEF SendPairs
  <1> QED
    BY <1>1, <1>2, <1>3, <1>4 DEF MetaWorker

\* The steps of a copy worker keep ControlInv.
LEMMA ControlCopyWorker ==
  ASSUME ControlInv, NEW c \in CopyConns, CopyWorker(c) PROVE ControlInv'
  <1>1. UNCHANGED <<mode, main, restore, rest, ddlPc, ddlOut, tablecClosed>>
    BY DEF CopyWorker, ReceivePair, CheckTerminated, CopyTable, RecordResult,
       mainVars, restoreVars, ddlVars, chanVars
  <1> QED
    BY <1>1, ModeFixed DEF ControlInv

\* Every step keeps ControlInv.
LEMMA ControlNext == TypeOK /\ ControlInv /\ [Next]_vars => ControlInv'
  <1> SUFFICES ASSUME TypeOK, ControlInv, [Next]_vars PROVE ControlInv'
    OBVIOUS
  <1>1. CASE Signal \/ ExitProcess \/ UNCHANGED vars
    BY SMTT(30), <1>1, ModeFixed DEF ControlInv, Signal, ExitProcess, vars, mainVars,
       restoreVars, ddlVars, chanVars, copyVars, barVars
  <1> QED
    BY <1>1, ControlMain, ControlRestore, ControlMetaWorker, ControlCopyWorker
    DEF Next, Stopped

\* ControlInv says who may send and close.
LEMMA ControlImpliesProtocol == ControlInv => ChannelProtocol
  BY DEF ControlInv, ChannelProtocol, Sending

\* The close protocol of tablec: for every database and every legal combination
\* of flags, restorePredata and CopyManager.Copy never both close the channel,
\* and neither a DDL worker nor a sending loop sends on it once it is closed.
THEOREM ChannelProtocolHolds == Spec => []ChannelProtocol
  BY InitType, NextType, ControlInit, ControlNext, ControlImpliesProtocol, PTL DEF Spec

----------------------------------------------------------------------------
(* Where a pair can be. *)

\* The copy workers are started once, and one has a pair in hand from the
\* receive to the record.
WorkerInv ==
    /\ main \in {"migrate", "fill", "copy"} => \A c \in CopyConns : copyPc[c] = "off"
    /\ \A c \in CopyConns :
          /\ copyPc[c] \in {"off", "idle"} => copyTab[c] = NoRel
          /\ copyPc[c] \in {"check", "copy", "record"} => copyTab[c] \in Tables

\* No copy worker has a pair when doCopy starts.
LEMMA WorkerInit == Init => WorkerInv
  BY DEF Init, WorkerInv

\* A copy worker takes a pair when it receives and gives it up when it records.
LEMMA WorkerNext == TypeOK /\ WorkerInv /\ [Next]_vars => WorkerInv'
  <1> SUFFICES ASSUME TypeOK, WorkerInv, [Next]_vars PROVE WorkerInv'
    OBVIOUS
  <1> USE DEF WorkerInv, mainVars, copyVars
  <1>1. CASE Main
    BY <1>1 DEF Main, MigrateMetadata, FillTablePairChan, StartCopy, CloseTables,
       JoinWorkers, Wait, Finish, RestorePostMetadata
  <1>2. CASE UNCHANGED <<main, copyPc, copyTab>>
    BY <1>2
  <1>3. CASE Restore
    BY <1>2, <1>3 DEF Restore, RestoreEarly, ScheduleStatement, WorkerPoolWait,
       RestoreLate, RestoreCleanup, CloseChannels
  <1>4. ASSUME NEW w \in MetaConns, MetaWorker(w) PROVE WorkerInv'
    BY <1>2, <1>4 DEF MetaWorker, TakeTask, ExecStatement, AnnounceTables, SendPairs
  <1>5. ASSUME NEW c \in CopyConns, CopyWorker(c) PROVE WorkerInv'
    <2>1. CASE ReceivePair(c)
      <3>1. tablec # <<>> => Head(tablec) \in Tables
        BY HeadTailProps DEF TypeOK
      <3> QED
        BY ZenonT(30), <2>1, <3>1 DEF ReceivePair, TypeOK
    <2>2. CASE CheckTerminated(c)
      BY <2>2 DEF CheckTerminated, TypeOK
    <2>3. CASE CopyTable(c)
      BY <2>3 DEF CopyTable, TypeOK
    <2>4. CASE RecordResult(c)
      BY <2>4 DEF RecordResult, TypeOK
    <2> QED
      BY <1>5, <2>1, <2>2, <2>3, <2>4 DEF CopyWorker
  <1>6. CASE Signal \/ ExitProcess \/ UNCHANGED vars
    BY <1>2, <1>6 DEF Signal, ExitProcess, vars
  <1> QED
    BY <1>1, <1>3, <1>4, <1>5, <1>6 DEF Next, Stopped

\* No pair is in the channel twice.
Distinct == \A i, j \in 1 .. Len(tablec) : tablec[i] = tablec[j] => i = j

\* A send adds the pair to the queue.
LEMMA QueuedSend ==
  ASSUME tablec \in Seq(Tables), NEW t \in Tables, Send(t), Distinct, t \notin Queued
  PROVE  Queued' = Queued \cup {t} /\ Distinct'
  <1> DEFINE n == Len(tablec)
  <1>1. /\ n \in Nat /\ Len(tablec') = n + 1
        /\ \A i \in 1 .. n : tablec'[i] = tablec[i]
        /\ tablec'[n + 1] = t
    BY SMTT(30), AppendProps DEF Send
  <1>2. 1 .. n + 1 = (1 .. n) \cup {n + 1}
    BY SMTT(30), <1>1
  <1>3. Queued' = Queued \cup {t}
    BY <1>1, <1>2 DEF Queued
  <1>4. Distinct'
    BY SMTT(30), <1>1, <1>2 DEF Distinct, Queued
  <1> QED
    BY <1>3, <1>4

\* A receive takes one pair out of the queue, and the pair is not there twice.
LEMMA QueuedReceive ==
  ASSUME tablec \in Seq(Tables), tablec # <<>>, tablec' = Tail(tablec), Distinct
  PROVE  /\ Queued = Queued' \cup {Head(tablec)} /\ Head(tablec) \notin Queued'
         /\ Distinct'
  <1> DEFINE n == Len(tablec)
  <1>1. /\ n \in Nat \ {0} /\ Len(tablec') = n - 1
        /\ \A i \in 1 .. n - 1 : tablec'[i] = tablec[i + 1]
        /\ Head(tablec) = tablec[1]
    BY SMTT(30), HeadTailProps
  <1>2. Queued = Queued' \cup {Head(tablec)}
    <2>1. ASSUME NEW i \in 1 .. n PROVE tablec[i] \in Queued' \cup {Head(tablec)}
      <3>1. CASE i = 1
        BY <1>1, <3>1
      <3>2. CASE i # 1
        <4>1. i - 1 \in 1 .. n - 1 /\ tablec'[i - 1] = tablec[i]
          BY SMTT(30), <1>1, <3>2
        <4> QED
          BY <1>1, <4>1 DEF Queued
      <3> QED
        BY <3>1, <3>2
    <2>2. ASSUME NEW i \in 1 .. n - 1 PROVE tablec'[i] \in Queued
      <3>1. i + 1 \in 1 .. n /\ tablec'[i] = tablec[i + 1]
        BY SMTT(30), <1>1
      <3> QED
        BY <3>1 DEF Queued
    <2>3. Head(tablec) \in Queued
      BY SMTT(30), <1>1 DEF Queued
    <2> QED
      BY SMTT(30), <1>1, <2>1, <2>2, <2>3 DEF Queued
  <1>3. ASSUME NEW i \in 1 .. n - 1 PROVE tablec'[i] # Head(tablec)
    BY SMTT(30), <1>1 DEF Distinct
  <1>4. Distinct'
    BY SMTT(30), <1>1 DEF Distinct
  <1> QED
    BY <1>1, <1>2, <1>3, <1>4 DEF Queued

\* A step that moves no pair.
LEMMA PlaceStays ==
  ASSUME ExactlyOnce, Unannounced' = Unannounced,
         UNCHANGED <<ddlOut, tablec, copyTab, result>>
  PROVE  ExactlyOnce'
  <1>1. /\ Announcing' = Announcing /\ Queued' = Queued
        /\ Held' = Held /\ Recorded' = Recorded
    BY DEF Announcing, Queued, Held, Recorded
  <1> QED
    BY <1>1 DEF ExactlyOnce

\* A loop sends a pair of the map.
LEMMA PlaceSendRest ==
  ASSUME TypeOK, ExactlyOnce, NEW t \in Unannounced, Send(t),
         Unannounced' = Unannounced \ {t}, UNCHANGED <<ddlOut, copyTab, result>>
  PROVE  ExactlyOnce'
  <1>1. t \in Tables /\ t \notin Queued
    BY DEF ExactlyOnce
  <1>2. Queued' = Queued \cup {t} /\ Distinct'
    BY <1>1, QueuedSend DEF TypeOK, ExactlyOnce, Distinct
  <1>3. Announcing' = Announcing /\ Held' = Held /\ Recorded' = Recorded
    BY DEF Announcing, Held, Recorded
  <1> QED
    BY SMTT(30), <1>1, <1>2, <1>3 DEF ExactlyOnce, Distinct

\* A DDL worker takes pairs out of the map.
LEMMA PlaceAnnounce ==
  ASSUME TypeOK, ExactlyOnce, NEW w \in MetaConns, NEW S \in SUBSET Unannounced,
         ddlOut[w] = {}, ddlOut' = [ddlOut EXCEPT ![w] = S],
         Unannounced' = Unannounced \ S, UNCHANGED <<tablec, copyTab, result>>
  PROVE  ExactlyOnce'
  <1>1. ddlOut'[w] = S /\ \A v \in MetaConns : v # w => ddlOut'[v] = ddlOut[v]
    BY DEF TypeOK
  <1>2. Announcing' = Announcing \cup S
    BY <1>1 DEF Announcing
  <1>3. Queued' = Queued /\ Held' = Held /\ Recorded' = Recorded
    BY DEF Queued, Held, Recorded
  <1>4. \A v \in MetaConns : ddlOut[v] \cap S = {}
    BY SMTT(30) DEF ExactlyOnce, Announcing
  <1>5. \A u, v \in MetaConns : u # v => ddlOut'[u] \cap ddlOut'[v] = {}
    BY <1>1, <1>4 DEF ExactlyOnce
  <1> QED
    BY <1>2, <1>3, <1>5 DEF ExactlyOnce

\* A DDL worker sends a pair.
LEMMA PlaceSendPair ==
  ASSUME TypeOK, ExactlyOnce, NEW w \in MetaConns, NEW t \in ddlOut[w], Send(t),
         ddlOut' = [ddlOut EXCEPT ![w] = @ \ {t}],
         Unannounced' = Unannounced, UNCHANGED <<copyTab, result>>
  PROVE  ExactlyOnce'
  <1>1. t \in Announcing /\ t \in Tables /\ t \notin Queued
    BY DEF ExactlyOnce, Announcing
  <1>2. Queued' = Queued \cup {t} /\ Distinct'
    BY <1>1, QueuedSend DEF TypeOK, ExactlyOnce, Distinct
  <1>3. ddlOut'[w] = ddlOut[w] \ {t} /\ \A v \in MetaConns : v # w => ddlOut'[v] = ddlOut[v]
    BY DEF TypeOK
  <1>4. Announcing' = Announcing \ {t}
    <2>1. \A v \in MetaConns : v # w => t \notin ddlOut[v]
      BY DEF ExactlyOnce
    <2> QED
      BY SMTT(30), <1>3, <2>1 DEF Announcing
  <1>5. Held' = Held /\ Recorded' = Recorded
    BY DEF Held, Recorded
  <1>6. \A u, v \in MetaConns : u # v => ddlOut'[u] \cap ddlOut'[v] = {}
    BY ZenonT(30), <1>3 DEF ExactlyOnce
  <1> QED
    BY SMTT(30), <1>1, <1>2, <1>4, <1>5, <1>6 DEF ExactlyOnce, Distinct

\* A copy worker receives a pair.
LEMMA PlaceReceive ==
  ASSUME TypeOK, ExactlyOnce, NEW c \in CopyConns, copyTab[c] = NoRel,
         tablec # <<>>, tablec' = Tail(tablec),
         copyTab' = [copyTab EXCEPT ![c] = Head(tablec)],
         Unannounced' = Unannounced, UNCHANGED <<ddlOut, result>>
  PROVE  ExactlyOnce'
  <1> DEFINE t == Head(tablec)
  <1>1. t \in Tables /\ t # NoRel
    BY SMTT(30), HeadTailProps, PipelineAssumption DEF TypeOK, Rels
  <1>2. Queued = Queued' \cup {t} /\ t \notin Queued' /\ Distinct'
    BY QueuedReceive DEF TypeOK, ExactlyOnce, Distinct
  <1>3. copyTab'[c] = t /\ \A d \in CopyConns : d # c => copyTab'[d] = copyTab[d]
    BY DEF TypeOK
  <1>4. Held' = Held \cup {t}
    BY <1>1, <1>3 DEF Held
  <1>5. Announcing' = Announcing /\ Recorded' = Recorded
    BY DEF Announcing, Recorded
  <1>6. \A d, e \in CopyConns : copyTab'[d] = copyTab'[e] => d = e \/ copyTab'[d] = NoRel
    <2>1. t \notin Held
      BY <1>2 DEF ExactlyOnce
    <2>2. \A d \in CopyConns : copyTab[d] # t
      BY <1>1, <2>1 DEF Held
    <2> QED
      BY SMTT(30), <1>3, <2>2 DEF ExactlyOnce
  <1> HIDE DEF t
  <1> QED
    BY SMTT(30), <1>2, <1>4, <1>5, <1>6 DEF ExactlyOnce, Distinct

\* A copy worker records the result of its pair.
LEMMA PlaceRecord ==
  ASSUME TypeOK, ExactlyOnce, NEW c \in CopyConns, copyTab[c] \in Tables,
         NEW r \in Outcomes, result' = [result EXCEPT ![copyTab[c]] = r],
         copyTab' = [copyTab EXCEPT ![c] = NoRel],
         Unannounced' = Unannounced, UNCHANGED <<ddlOut, tablec>>
  PROVE  ExactlyOnce'
  <1> DEFINE t == copyTab[c]
  <1>1. t \in Tables /\ t # NoRel /\ t \in Held
    BY PipelineAssumption DEF Rels, Held
  <1>2. copyTab'[c] = NoRel /\ \A d \in CopyConns : d # c => copyTab'[d] = copyTab[d]
    BY DEF TypeOK
  <1>3. Held' = Held \ {t}
    <2>1. \A d \in CopyConns : d # c => copyTab[d] # t
      BY <1>1 DEF ExactlyOnce
    <2> QED
      BY <1>1, <1>2, <2>1 DEF Held
  <1>4. Recorded' = Recorded \cup {t}
    <2>1. r # "none"
      BY DEF Outcomes
    <2> QED
      BY <1>1, <2>1 DEF Recorded, TypeOK
  <1>5. Announcing' = Announcing /\ Queued' = Queued
    BY DEF Announcing, Queued
  <1>6. \A d, e \in CopyConns : copyTab'[d] = copyTab'[e] => d = e \/ copyTab'[d] = NoRel
    BY <1>2 DEF ExactlyOnce
  <1> HIDE DEF t
  <1> QED
    BY SMTT(30), <1>1, <1>3, <1>4, <1>5, <1>6 DEF ExactlyOnce

\* At first every pair is in the map.
LEMMA PlaceInit == Init => ExactlyOnce
  <1> SUFFICES ASSUME Init PROVE ExactlyOnce
    OBVIOUS
  <1>1. Unannounced = Tables
    BY DEF Init, Unannounced
  <1>2. /\ \A w \in MetaConns : ddlOut[w] = {}
        /\ \A c \in CopyConns : copyTab[c] = NoRel
        /\ \A t \in Tables : result[t] = "none"
        /\ Len(tablec) = 0
    BY EmptySeq DEF Init
  <1>3. Announcing = {} /\ Held = {} /\ Recorded = {} /\ Queued = {}
    BY SMTT(30), <1>2 DEF Announcing, Held, Recorded, Queued
  <1> QED
    BY SMTT(30), <1>1, <1>2, <1>3 DEF ExactlyOnce

\* The steps of doCopy move pairs from the map to the channel, or none.
LEMMA PlaceMain == ASSUME TypeOK, ControlInv, ExactlyOnce, Main PROVE ExactlyOnce'
  <1> USE DEF mainVars, restoreVars, ddlVars, chanVars, copyVars, barVars
  <1>1. CASE FillTablePairChan
    <2>1. Unannounced = rest /\ Unannounced' = rest'
      BY <1>1, ModeFixed DEF FillTablePairChan, ControlInv, Unannounced
    <2>2. UNCHANGED <<ddlOut, copyTab, result>>
      BY <1>1 DEF FillTablePairChan
    <2>3. CASE UNCHANGED <<rest, tablec>>
      BY <2>1, <2>2, <2>3, PlaceStays
    <2>4. CASE \E t \in rest : Send(t) /\ rest' = rest \ {t}
      BY <2>1, <2>2, <2>4, PlaceSendRest
    <2> QED
      BY <1>1, <2>3, <2>4 DEF FillTablePairChan
  <1>2. CASE ~FillTablePairChan
    <2>1. UNCHANGED <<mode, rest, tabMap, ddlOut, tablec, copyTab, result>>
      BY <1>2 DEF Main, MigrateMetadata, StartCopy, CloseTables, JoinWorkers, Wait,
         Finish, RestorePostMetadata
    <2>2. restore' = restore \/ (~FillsChannel /\ restore = "off" /\ restore' = "early")
      BY <1>2 DEF Main, MigrateMetadata, StartCopy, CloseTables, JoinWorkers, Wait,
         Finish, RestorePostMetadata, ControlInv
    <2>3. Unannounced' = Unannounced
      BY <2>1, <2>2, ModeFixed DEF Unannounced
    <2> QED
      BY <2>1, <2>3, PlaceStays
  <1> QED
    BY <1>1, <1>2

\* The steps of restorePredata move pairs from the map to the channel, or none.
LEMMA PlaceRestore == ASSUME TypeOK, ControlInv, ExactlyOnce, Restore PROVE ExactlyOnce'
  <1> USE DEF mainVars, restoreVars, ddlVars, chanVars, copyVars, barVars
  <1>1. CASE RestoreCleanup
    <2>1. Unannounced = rest /\ Unannounced' = rest'
      BY <1>1, ModeFixed DEF RestoreCleanup, Unannounced
    <2>2. UNCHANGED <<ddlOut, copyTab, result>>
      BY <1>1 DEF RestoreCleanup
    <2>3. CASE UNCHANGED <<rest, tablec>>
      BY <2>1, <2>2, <2>3, PlaceStays
    <2>4. CASE \E t \in rest : Send(t) /\ rest' = rest \ {t}
      BY <2>1, <2>2, <2>4, PlaceSendRest
    <2> QED
      BY <1>1, <2>3, <2>4 DEF RestoreCleanup
  <1>2. CASE RestoreLate
    <2>1. ~FillsChannel /\ rest = {} /\ UNCHANGED <<mode, ddlOut, tabMap, tablec, copyTab, result>>
      BY <1>2 DEF RestoreLate, ControlInv
    <2>2. Unannounced = tabMap
      BY <1>2, <2>1 DEF RestoreLate, Unannounced
    <2>3. Unannounced' = tabMap
      BY <1>2, <2>1, ModeFixed DEF RestoreLate, Unannounced
    <2> QED
      BY <2>1, <2>2, <2>3, PlaceStays
  <1>3. CASE RestoreEarly \/ ScheduleStatement \/ WorkerPoolWait \/ CloseChannels
    <2>1. UNCHANGED <<mode, rest, tabMap, ddlOut, tablec, copyTab, result>>
      BY <1>3 DEF RestoreEarly, ScheduleStatement, WorkerPoolWait, CloseChannels
    <2>2. restore' \in {"cleanup", "close", "closeDone", "end"}
             <=> restore \in {"cleanup", "close", "closeDone", "end"}
      BY <1>3 DEF RestoreEarly, ScheduleStatement, WorkerPoolWait, CloseChannels
    <2>3. Unannounced' = Unannounced
      BY <2>1, <2>2, ModeFixed DEF Unannounced
    <2> QED
      BY <2>1, <2>3, PlaceStays
  <1> QED
    BY <1>1, <1>2, <1>3 DEF Restore

\* The steps of a DDL worker move pairs from the map to its hand and to the channel.
LEMMA PlaceMetaWorker ==
  ASSUME TypeOK, ControlInv, ExactlyOnce, NEW w \in MetaConns, MetaWorker(w)
  PROVE  ExactlyOnce'
  <1> USE DEF mainVars, restoreVars, ddlVars, chanVars, copyVars, barVars
  <1>1. CASE TakeTask(w) \/ ExecStatement(w)
    <2>1. UNCHANGED <<mode, restore, rest, tabMap, ddlOut, tablec, copyTab, result>>
      BY <1>1 DEF TakeTask, ExecStatement
    <2>2. Unannounced' = Unannounced
      BY <2>1, ModeFixed DEF Unannounced
    <2> QED
      BY <2>1, <2>2, PlaceStays
  <1>2. CASE AnnounceTables(w)
    <2> DEFINE S == LookupSourceTables(ddlTask[w])
    <2>1. /\ UNCHANGED <<mode, restore, rest, tablec, copyTab, result>>
          /\ ddlPc[w] = "lookup" /\ tabMap' = tabMap \ S
          /\ ddlOut' = [ddlOut EXCEPT ![w] = S]
      BY <1>2 DEF AnnounceTables
    <2>2. S \subseteq tabMap
      BY DEF LookupSourceTables
    <2>3. restore \in {"schedule", "drain"}
      BY <2>1 DEF ControlInv, TypeOK, RestorePcs
    <2>4. ~FillsChannel /\ rest = {} /\ ddlOut[w] = {}
      BY <2>1, <2>3 DEF ControlInv
    <2>5. Unannounced = tabMap
      BY <2>3, <2>4 DEF Unannounced
    <2>6. Unannounced' = tabMap'
      BY <2>1, <2>3, <2>4, ModeFixed DEF Unannounced
    <2> HIDE DEF S
    <2> QED
      BY <2>1, <2>2, <2>4, <2>5, <2>6, PlaceAnnounce
  <1>3. CASE SendPairs(w)
    <2>1. UNCHANGED <<mode, restore, rest, tabMap, copyTab, result>>
      BY <1>3 DEF SendPairs
    <2>2. Unannounced' = Unannounced
      BY <2>1, ModeFixed DEF Unannounced
    <2>3. CASE UNCHANGED <<ddlOut, tablec>>
      BY <2>1, <2>2, <2>3, PlaceStays
    <2>4. CASE \E t \in ddlOut[w] : Send(t) /\ ddlOut' = [ddlOut EXCEPT ![w] = @ \ {t}]
      BY <2>1, <2>2, <2>4, PlaceSendPair
    <2> QED
      BY <1>3, <2>3, <2>4 DEF SendPairs
  <1> QED
    BY <1>1, <1>2, <1>3 DEF MetaWorker

\* The steps of a copy worker move a pair from the channel to a result file.
LEMMA PlaceCopyWorker ==
  ASSUME TypeOK, WorkerInv, ExactlyOnce, NEW c \in CopyConns, CopyWorker(c)
  PROVE  ExactlyOnce'
  <1> USE DEF mainVars, restoreVars, ddlVars, chanVars, copyVars, barVars
  <1>1. UNCHANGED <<mode, restore, rest, tabMap, ddlOut>>
    BY DEF CopyWorker, ReceivePair, CheckTerminated, CopyTable, RecordResult
  <1>2. Unannounced' = Unannounced
    BY <1>1, ModeFixed DEF Unannounced
  <1>3. CASE UNCHANGED <<tablec, copyTab, result>>
    BY <1>1, <1>2, <1>3, PlaceStays
  <1>4. CASE ReceivePair(c)
    <2>1. copyTab[c] = NoRel /\ UNCHANGED result
      BY <1>4 DEF ReceivePair, WorkerInv
    <2>2. CASE /\ tablec # <<>> /\ tablec' = Tail(tablec)
               /\ copyTab' = [copyTab EXCEPT ![c] = Head(tablec)]
      BY <1>1, <1>2, <2>1, <2>2, PlaceReceive
    <2> QED
      BY <1>3, <1>4, <2>1, <2>2 DEF ReceivePair
  <1>5. CASE RecordResult(c)
    <2>1. copyTab[c] \in Tables /\ UNCHANGED tablec
      BY <1>5 DEF RecordResult, WorkerInv
    <2>2. PICK r \in Outcomes : result' = [result EXCEPT ![copyTab[c]] = r]
      BY <1>5 DEF RecordResult
    <2>3. copyTab' = [copyTab EXCEPT ![c] = NoRel]
      BY <1>5 DEF RecordResult
    <2> QED
      BY <1>1, <1>2, <2>1, <2>2, <2>3, PlaceRecord
  <1>6. CASE CheckTerminated(c) \/ CopyTable(c)
    BY <1>3, <1>6 DEF CheckTerminated, CopyTable
  <1> QED
    BY <1>4, <1>5, <1>6 DEF CopyWorker

\* Every step keeps every pair in exactly one place.
LEMMA PlaceNext ==
  TypeOK /\ ControlInv /\ WorkerInv /\ ExactlyOnce /\ [Next]_vars => ExactlyOnce'
  <1> SUFFICES ASSUME TypeOK, ControlInv, WorkerInv, ExactlyOnce, [Next]_vars
               PROVE  ExactlyOnce'
    OBVIOUS
  <1>1. CASE Signal \/ ExitProcess \/ UNCHANGED vars
    <2>1. UNCHANGED <<mode, restore, rest, tabMap, ddlOut, tablec, copyTab, result>>
      BY <1>1 DEF Signal, ExitProcess, vars, mainVars, restoreVars, ddlVars,
         chanVars, copyVars
    <2>2. Unannounced' = Unannounced
      BY <2>1, ModeFixed DEF Unannounced
    <2> QED
      BY <2>1, <2>2, PlaceStays
  <1> QED
    BY <1>1, PlaceMain, PlaceRestore, PlaceMetaWorker, PlaceCopyWorker DEF Next, Stopped

\* No table is copied twice and none is lost on the way from TableMap through
\* the DDL workers, tablec and the copy workers to the result files.
THEOREM ExactlyOnceHolds == Spec => []ExactlyOnce
  BY InitType, NextType, ControlInit, ControlNext, WorkerInit, WorkerNext,
     PlaceInit, PlaceNext, PTL DEF Spec

----------------------------------------------------------------------------
(* Room in the channel. *)

\* A pair that is about to be sent is not in the channel, so that the channel
\* holds fewer pairs than there are tables.
LEMMA RoomForOneMore ==
  ASSUME TypeOK, Distinct, NEW t \in Tables, t \notin Queued
  PROVE  Len(tablec) < Cap
  <1> DEFINE n == Len(tablec)
             f == [i \in 1 .. n |-> tablec[i]]
             T == Tables \ {t}
  <1>1. n \in Nat /\ \A i \in 1 .. n : tablec[i] \in Tables
    BY SMTT(30) DEF TypeOK
  <1>2. f \in [1 .. n -> T]
    BY <1>1 DEF Queued
  <1>3. IsFiniteSet(T) /\ Cardinality(T) = Cardinality(Tables) - 1
    BY FS_RemoveElement, PipelineAssumption
  <1>4. Cardinality(Tables) \in Nat /\ Cardinality(Tables) <= Cap /\ Cap \in Nat
    BY FS_CardinalityType, PipelineAssumption
  <1>5. IsFiniteSet(1 .. n) /\ Cardinality(1 .. n) = n
    BY SMTT(30), <1>1, FS_Interval
  <1>6. ASSUME ~(n < Cap) PROVE FALSE
    <2>1. Cardinality(T) < Cardinality(1 .. n)
      BY SMTT(30), <1>1, <1>3, <1>4, <1>5, <1>6
    <2>2. \E i, j \in 1 .. n : i # j /\ f[i] = f[j]
      <3> HIDE DEF f, T, n
      <3> QED
        BY <1>2, <1>3, <1>5, <2>1, FS_PigeonHole
    <2> QED
      BY <2>2 DEF Distinct
  <1> QED
    BY <1>6

\* Whoever is about to send holds a pair that is not in the channel, and so finds room.
LEMMA PlaceImpliesRoom == TypeOK /\ ControlInv /\ ExactlyOnce => SendNeverBlocks
  <1> SUFFICES ASSUME TypeOK, ControlInv, ExactlyOnce, Sending
               PROVE  Len(tablec) < Cap
    BY DEF SendNeverBlocks
  <1>1. \E t \in Unannounced \cup Announcing : TRUE
    BY DEF Sending, Unannounced, Announcing
  <1>2. PICK t \in Unannounced \cup Announcing : TRUE
    BY <1>1
  <1>3. t \in Tables /\ t \notin Queued /\ Distinct
    BY DEF ExactlyOnce, Distinct
  <1> QED
    BY <1>3, RoomForOneMore

\* A send on tablec always finds room, whoever sends and whether or not a copy
\* worker ever receives: the capacity of len(destTables) is enough because no
\* pair is sent twice.
THEOREM SendNeverBlocksHolds == Spec => []SendNeverBlocks
  BY InitType, NextType, ControlInit, ControlNext, WorkerInit, WorkerNext,
     PlaceInit, PlaceNext, PlaceImpliesRoom, PTL DEF Spec

----------------------------------------------------------------------------
(* The scheduler. *)

Active(w) == ddlPc[w] \in {"exec", "lookup", "send"}

\* Because every statement has the same identity, at most one is between its
\* scheduling and its removal from runningTasks: it is in the task channel or
\* with one worker.  Everything scheduled before it has been executed.
SchedInv ==
    /\ next \in 1 .. NStmts + 1
    /\ restore \in {"off", "early"} => next = 1
    /\ restore \notin {"off", "early", "schedule"} => next = NStmts + 1
    /\ running \subseteq 1 .. next - 1
    /\ 1 .. next - 1 \subseteq executed \cup running
    /\ \A i, j \in running : i = j
    /\ tasks = <<>> \/ \E i \in running : tasks = <<i>>
    /\ tasks # <<>> => \A w \in MetaConns : ~Active(w)
    /\ \A v, w \in MetaConns : Active(v) /\ Active(w) => v = w
    /\ \A w \in MetaConns :
          /\ Active(w) => ddlTask[w] \in running
          /\ ddlPc[w] \in {"lookup", "send"} => ddlTask[w] \in executed
          /\ ddlPc[w] = "exited" =>
                tasks = <<>> /\ restore \notin {"off", "early", "schedule"}
    /\ running # {} => tasks # <<>> \/ \E w \in MetaConns : Active(w)

\* A task channel with one statement in it.
LEMMA OneTask ==
  ASSUME NEW i
  PROVE  Append(<<>>, i) = <<i>> /\ Head(<<i>>) = i /\ Tail(<<i>>) = <<>> /\ <<i>> # <<>>
  BY SMTT(30)

\* Nothing is scheduled when doCopy starts.
LEMMA SchedInit == Init => SchedInv
  BY SMTT(30), PipelineAssumption DEF Init, SchedInv, Active

\* A step that touches neither the scheduler nor the DDL workers.
LEMMA SchedStays ==
  ASSUME SchedInv, UNCHANGED <<restore, next, running, tasks, ddlPc, ddlTask, executed>>
  PROVE  SchedInv'
  BY DEF SchedInv, Active

\* With one statement at a time, the ones before it have been executed.
LEMMA SchedImpliesDependencies == TypeOK /\ SchedInv => DependenciesFirst
  <1> SUFFICES ASSUME TypeOK, SchedInv, NEW w \in MetaConns, Active(w),
                      NEW j \in DependsOn[ddlTask[w]]
               PROVE  j \in executed /\ j \notin running
    BY DEF DependenciesFirst, Active
  <1>1. ddlTask[w] \in running /\ ddlTask[w] \in Stmts
    BY DEF SchedInv, TypeOK
  <1>2. j \in Stmts /\ j < ddlTask[w]
    BY <1>1, PipelineAssumption
  <1>3. j \notin running
    BY SMTT(30), <1>1, <1>2 DEF SchedInv, Stmts
  <1>4. j \in 1 .. next - 1
    BY SMTT(30), <1>1, <1>2, PipelineAssumption DEF SchedInv, Stmts
  <1> QED
    BY <1>3, <1>4 DEF SchedInv

\* The scheduler sends a statement only when none is running.
LEMMA SchedSchedule == ASSUME TypeOK, SchedInv, ScheduleStatement PROVE SchedInv'
  <1>1. UNCHANGED <<ddlPc, ddlTask, executed>> /\ restore = "schedule"
    BY DEF ScheduleStatement
  <1>2. CASE next <= NStmts
    <2>1. /\ running' = running \cup {next} /\ tasks' = Append(tasks, next)
          /\ next' = next + 1 /\ restore' = restore /\ ShouldScheduleStatement(next)
      BY <1>2 DEF ScheduleStatement
    <2>2. running = {}
      BY <2>1 DEF ShouldScheduleStatement, Uid
    <2>3. tasks = <<>> /\ \A w \in MetaConns : ~Active(w)
      BY <2>2 DEF SchedInv
    <2>4. tasks' = <<next>> /\ tasks' # <<>> /\ running' = {next}
      <3>1. tasks' = Append(<<>>, next)
        BY <2>1, <2>3
      <3>2. running' = {next}
        BY <2>1, <2>2
      <3> QED
        BY <3>1, <3>2, OneTask
    <2>5. next \in 1 .. NStmts /\ 1 .. next' - 1 = (1 .. next - 1) \cup {next}
      BY SMTT(30), <1>2, <2>1, PipelineAssumption DEF SchedInv
    <2>6. next' \in 1 .. NStmts + 1 /\ next \in 1 .. next' - 1
      BY SMTT(30), <2>1, <2>5, PipelineAssumption
    <2>7. \A w \in MetaConns : ddlPc[w] # "exited"
      BY <1>1 DEF SchedInv
    <2> QED
      BY <1>1, <2>1, <2>2, <2>3, <2>4, <2>5, <2>6, <2>7 DEF SchedInv, Active
  <1>3. CASE ~(next <= NStmts)
    <2>1. restore' = "drain" /\ UNCHANGED <<running, tasks, next>>
      BY <1>3 DEF ScheduleStatement
    <2>2. next = NStmts + 1
      BY SMTT(30), <1>3, PipelineAssumption DEF SchedInv
    <2> QED
      BY <1>1, <2>1, <2>2 DEF SchedInv, Active
  <1> QED
    BY <1>2, <1>3

\* The steps of restorePredata keep SchedInv.
LEMMA SchedRestore == ASSUME TypeOK, ControlInv, SchedInv, Restore PROVE SchedInv'
  <1> USE DEF mainVars, restoreVars, ddlVars, chanVars, copyVars, barVars
  <1>1. CASE RestoreEarly
    <2>1. UNCHANGED <<next, running, tasks, ddlTask, executed>>
      BY <1>1 DEF RestoreEarly
    <2>2. restore = "early" /\ \A w \in MetaConns : ddlPc[w] = "off"
      BY <1>1 DEF RestoreEarly, ControlInv
    <2>3. \/ UNCHANGED <<restore, ddlPc>>
          \/ restore' = "schedule" /\ \A w \in MetaConns : ddlPc'[w] = "idle"
      BY <1>1 DEF RestoreEarly
    <2>4. \A w \in MetaConns : ~Active(w) /\ ddlPc'[w] \in {"off", "idle"}
      BY <2>2, <2>3 DEF Active
    <2>5. running = {} /\ tasks = <<>>
      BY SMTT(30), <2>2, <2>4 DEF SchedInv
    <2> QED
      BY <2>1, <2>2, <2>3, <2>4, <2>5 DEF SchedInv, Active
  <1>2. CASE ScheduleStatement
    BY <1>2, SchedSchedule
  <1>3. CASE WorkerPoolWait \/ RestoreLate \/ RestoreCleanup \/ CloseChannels
    <2>1. UNCHANGED <<next, running, tasks, ddlPc, ddlTask, executed>>
      BY <1>3 DEF WorkerPoolWait, RestoreLate, RestoreCleanup, CloseChannels
    <2>2. /\ restore \notin {"off", "early", "schedule"}
          /\ restore' \notin {"off", "early", "schedule"}
      BY <1>3 DEF WorkerPoolWait, RestoreLate, RestoreCleanup, CloseChannels
    <2> QED
      BY <2>1, <2>2 DEF SchedInv, Active
  <1> QED
    BY <1>1, <1>2, <1>3 DEF Restore

\* The steps of a DDL worker keep SchedInv.
LEMMA SchedMetaWorker ==
  ASSUME TypeOK, SchedInv, NEW w \in MetaConns, MetaWorker(w) PROVE SchedInv'
  <1> USE DEF mainVars, restoreVars, ddlVars, chanVars, copyVars, barVars
  <1>1. UNCHANGED <<restore, next>>
    BY DEF MetaWorker, TakeTask, ExecStatement, AnnounceTables, SendPairs
  <1>2. \A v \in MetaConns : v # w => ddlPc'[v] = ddlPc[v] /\ ddlTask'[v] = ddlTask[v]
    BY DEF MetaWorker, TakeTask, ExecStatement, AnnounceTables, SendPairs, TypeOK
  <1>3. CASE TakeTask(w)
    <2>1. UNCHANGED <<running, executed>> /\ ddlPc[w] = "idle"
      BY <1>3 DEF TakeTask
    <2>2. CASE tasks # <<>>
      <3>1. PICK i \in running : tasks = <<i>>
        BY <2>2 DEF SchedInv
      <3>2. tasks' = <<>> /\ ddlTask'[w] = i /\ ddlPc'[w] = "exec"
        BY SMTT(30), <1>3, <2>2, <3>1, OneTask DEF TakeTask, TypeOK
      <3>3. \A v \in MetaConns : ~Active(v)
        BY <2>2 DEF SchedInv
      <3> QED
        BY ZenonT(30), <1>1, <1>2, <2>1, <3>1, <3>2, <3>3 DEF SchedInv, Active
    <2>3. CASE tasks = <<>>
      <3>1. UNCHANGED <<tasks, ddlTask>> /\ ddlPc'[w] = "exited" /\ restore = "drain"
        BY <1>3, <2>3 DEF TakeTask, TypeOK
      <3> QED
        BY <1>1, <1>2, <2>1, <2>3, <3>1 DEF SchedInv, Active
    <2> QED
      BY <2>2, <2>3
  <1>4. CASE ExecStatement(w)
    <2>1. /\ UNCHANGED <<running, tasks, ddlTask>> /\ ddlPc[w] = "exec"
          /\ ddlPc'[w] = "lookup" /\ executed' = executed \cup {ddlTask[w]}
      BY <1>4 DEF ExecStatement, TypeOK
    <2> QED
      BY <1>1, <1>2, <2>1 DEF SchedInv, Active
  <1>5. CASE AnnounceTables(w)
    <2>1. /\ UNCHANGED <<running, tasks, ddlTask, executed>> /\ ddlPc[w] = "lookup"
          /\ ddlPc'[w] = "send"
      BY <1>5 DEF AnnounceTables, TypeOK
    <2> QED
      BY ZenonT(30), <1>1, <1>2, <2>1 DEF SchedInv, Active
  <1>6. CASE SendPairs(w)
    <2>1. UNCHANGED <<tasks, ddlTask, executed>> /\ ddlPc[w] = "send"
      BY <1>6 DEF SendPairs
    <2>2. CASE UNCHANGED <<ddlPc, running>>
      BY <1>1, <2>1, <2>2, SchedStays
    <2>3. CASE running' = running \ {ddlTask[w]} /\ ddlPc' = [ddlPc EXCEPT ![w] = "idle"]
      <3>1. ddlPc'[w] = "idle" /\ Active(w)
        BY <2>1, <2>3 DEF TypeOK, Active
      <3>2. running' = {} /\ tasks = <<>> /\ \A v \in MetaConns : v # w => ~Active(v)
        BY <2>3, <3>1 DEF SchedInv
      <3>3. running \subseteq executed
        <4>1. ddlTask[w] \in running /\ ddlTask[w] \in executed
          BY <2>1, <3>1 DEF SchedInv
        <4>2. \A i \in running : i = ddlTask[w]
          BY <4>1 DEF SchedInv
        <4> QED
          BY <4>1, <4>2
      <3> QED
        BY <1>1, <1>2, <2>1, <3>1, <3>2, <3>3 DEF SchedInv, Active
    <2> QED
      BY <1>6, <2>2, <2>3 DEF SendPairs
  <1> QED
    BY <1>3, <1>4, <1>5, <1>6 DEF MetaWorker

\* Every step keeps SchedInv.
LEMMA SchedNext == TypeOK /\ ControlInv /\ SchedInv /\ [Next]_vars => SchedInv'
  <1> SUFFICES ASSUME TypeOK, ControlInv, SchedInv, [Next]_vars PROVE SchedInv'
    OBVIOUS
  <1> USE DEF mainVars, restoreVars, ddlVars
  <1>1. CASE Main
    <2>1. UNCHANGED <<next, running, tasks, ddlPc, ddlTask, executed>>
      BY <1>1 DEF Main, MigrateMetadata, FillTablePairChan, StartCopy, CloseTables,
         JoinWorkers, Wait, Finish, RestorePostMetadata
    <2>2. restore' = restore \/ (restore = "off" /\ restore' = "early")
      BY <1>1 DEF Main, MigrateMetadata, FillTablePairChan, StartCopy, CloseTables,
         JoinWorkers, Wait, Finish, RestorePostMetadata, ControlInv
    <2> QED
      BY <2>1, <2>2 DEF SchedInv, Active
  <1>2. ASSUME NEW c \in CopyConns, CopyWorker(c) PROVE SchedInv'
    BY <1>2, SchedStays DEF CopyWorker, ReceivePair, CheckTerminated, CopyTable, RecordResult
  <1>3. CASE Signal \/ ExitProcess \/ UNCHANGED vars
    BY <1>3, SchedStays DEF Signal, ExitProcess, vars
  <1> QED
    BY <1>1, <1>2, <1>3, SchedRestore, SchedMetaWorker DEF Next, Stopped

\* A dependent statement is executed after the statements it refers to, however
\* many metadata workers there are: the scheduler's package-level dependency map
\* is empty, and it is the identity shared by all statements that orders them.
THEOREM DependenciesFirstHolds == Spec => []DependenciesFirst
  BY InitType, NextType, ControlInit, ControlNext, SchedInit, SchedNext,
     SchedImpliesDependencies, PTL DEF Spec

----------------------------------------------------------------------------
(* Tables exist before they are copied. *)

\* CreateBeforeCopy, said of the pairs that have left the map.
CreatedInv ==
    ~FillsChannel =>
        \A t \in Tables \ Unannounced :
            (\E i \in executed : t \in Creates(i)) \/ executed = Stmts

\* A pair that has left the map was announced after its CREATE TABLE.
LEMMA CreatedImpliesCreateBeforeCopy == ExactlyOnce /\ CreatedInv => CreateBeforeCopy
  <1> SUFFICES ASSUME ExactlyOnce, CreatedInv PROVE CreateBeforeCopy
    OBVIOUS
  <1>1. Announcing \cup Queued \cup Held \cup Recorded \subseteq Tables \ Unannounced
    BY DEF ExactlyOnce
  <1> QED
    BY <1>1 DEF CreatedInv, CreateBeforeCopy

\* No pair has left the map when doCopy starts.
LEMMA CreatedInit == Init => CreatedInv
  BY DEF Init, CreatedInv, Unannounced

Drained == \A w \in MetaConns : ddlPc[w] = "exited"

\* When the workers have exited, every statement has been executed.
LEMMA AllExecuted == ASSUME TypeOK, SchedInv, Drained PROVE executed = Stmts
  <1>1. restore \notin {"off", "early", "schedule"}
    BY PipelineAssumption DEF SchedInv, Drained
  <1>2. tasks = <<>> /\ \A w \in MetaConns : ~Active(w)
    BY PipelineAssumption DEF SchedInv, Active, Drained
  <1>3. running = {} /\ next = NStmts + 1
    BY <1>1, <1>2 DEF SchedInv
  <1>4. 1 .. next - 1 = Stmts
    BY SMTT(30), <1>3, PipelineAssumption DEF Stmts
  <1> QED
    BY <1>3, <1>4 DEF SchedInv, TypeOK

\* Executed statements stay executed, so a step that takes no pair out of the
\* map keeps the invariant.
LEMMA CreatedStays ==
  ASSUME CreatedInv, mode' = mode, executed \subseteq executed', executed' \subseteq Stmts,
         Unannounced \subseteq Unannounced'
  PROVE  CreatedInv'
  <1>1. \A i : Creates(i)' = Creates(i)
    BY DEF Creates, IsPartitioned
  <1> QED
    BY <1>1, ModeFixed DEF CreatedInv

\* While a DDL worker is left, only the announcement that follows a CREATE TABLE
\* takes pairs out of the map.
LEMMA CreatedNext ==
  TypeOK /\ ControlInv /\ SchedInv /\ CreatedInv /\ [Next]_vars => CreatedInv'
  <1> SUFFICES ASSUME TypeOK, ControlInv, SchedInv, CreatedInv, [Next]_vars
               PROVE  CreatedInv'
    OBVIOUS
  <1> USE DEF mainVars, restoreVars, ddlVars, chanVars, copyVars, barVars
  <1>1. mode' = mode /\ executed \subseteq executed'
    BY DEF Next, vars, Main, MigrateMetadata, FillTablePairChan, StartCopy, CloseTables,
       JoinWorkers, Wait, Finish, RestorePostMetadata, Restore, RestoreEarly,
       ScheduleStatement, WorkerPoolWait, RestoreLate, RestoreCleanup, CloseChannels,
       MetaWorker, TakeTask, ExecStatement, AnnounceTables, SendPairs, CopyWorker,
       ReceivePair, CheckTerminated, CopyTable, RecordResult, Signal, ExitProcess, Stopped
  <1>2. executed' \subseteq Stmts
    BY NextType DEF TypeOK
  <1>3. CASE FillsChannel
    BY <1>1, <1>3, ModeFixed DEF CreatedInv
  <1>4. CASE Drained
    <2>1. executed' = Stmts
      BY <1>1, <1>2, <1>4, AllExecuted
    <2> QED
      BY <2>1 DEF CreatedInv, Stmts
  <1>5. CASE ~FillsChannel /\ ~Drained
    <2>1. restore \notin {"late", "cleanup", "close", "closeDone", "end"} /\ rest = {}
      BY <1>5 DEF ControlInv, Drained
    <2>2. Unannounced = tabMap
      BY <1>5, <2>1 DEF Unannounced
    <2>3. restore' \notin {"cleanup", "close", "closeDone", "end"}
      BY <1>5, <2>1
      DEF Next, vars, Main, MigrateMetadata, FillTablePairChan, StartCopy, CloseTables,
       JoinWorkers, Wait, Finish, RestorePostMetadata, Restore, RestoreEarly, Drained,
       ScheduleStatement, WorkerPoolWait, RestoreLate, RestoreCleanup, CloseChannels,
       MetaWorker, TakeTask, ExecStatement, AnnounceTables, SendPairs, CopyWorker,
       ReceivePair, CheckTerminated, CopyTable, RecordResult, Signal, ExitProcess, Stopped
    <2>4. tabMap' \subseteq Unannounced'
      BY <1>1, <1>5, <2>3, ModeFixed DEF Unannounced
    <2>5. ASSUME NEW w \in MetaConns, AnnounceTables(w) PROVE CreatedInv'
      <3> DEFINE i == ddlTask[w]
      <3>1. /\ tabMap' = tabMap \ LookupSourceTables(i) /\ executed' = executed
            /\ ddlPc[w] = "lookup"
        BY <2>5 DEF AnnounceTables
      <3>2. i \in executed
        BY <3>1 DEF SchedInv
      <3>3. LookupSourceTables(i) \subseteq Creates(i)
        BY DEF LookupSourceTables, Creates
      <3>4. \A k : Creates(k)' = Creates(k)
        BY DEF Creates, IsPartitioned
      <3> HIDE DEF i
      <3>5. ASSUME NEW t \in Tables \ Unannounced'
            PROVE  (\E k \in executed' : t \in Creates(k)) \/ executed' = Stmts
        BY <1>5, <2>2, <2>4, <3>1, <3>2, <3>3 DEF CreatedInv
      <3> QED
        BY <3>4, <3>5 DEF CreatedInv, Stmts
    <2>6. CASE tabMap' = tabMap
      BY <1>1, <1>2, <2>2, <2>4, <2>6, CreatedStays
    <2>7. tabMap' = tabMap \/ \E w \in MetaConns : AnnounceTables(w)
      BY DEF Next, vars, Main, MigrateMetadata, FillTablePairChan, StartCopy, CloseTables,
       JoinWorkers, Wait, Finish, RestorePostMetadata, Restore, RestoreEarly,
       ScheduleStatement, WorkerPoolWait, RestoreLate, RestoreCleanup, CloseChannels,
       MetaWorker, TakeTask, ExecStatement, SendPairs, CopyWorker,
       ReceivePair, CheckTerminated, CopyTable, RecordResult, Signal, ExitProcess, Stopped
    <2> QED
      BY <2>5, <2>6, <2>7
  <1> QED
    BY <1>3, <1>4, <1>5

\* No pair is on its way to a copy worker before the CREATE TABLE of its
\* destination has been executed, and what RestoreCleanup adds follows every
\* pre-data statement.
THEOREM CreateBeforeCopyHolds == Spec => []CreateBeforeCopy
  BY InitType, NextType, ControlInit, ControlNext, WorkerInit, WorkerNext, PlaceInit,
     PlaceNext, SchedInit, SchedNext, CreatedInit, CreatedNext,
     CreatedImpliesCreateBeforeCopy, PTL DEF Spec

----------------------------------------------------------------------------
(* The end of doCopy. *)

\* The pairs whose copy has advanced the progress bar.
Counted == Recorded \cup {copyTab[c] : c \in {d \in CopyConns : copyPc[d] = "record"}}

\* The bar counts tables, each of them once; the copy workers have returned when
\* main is past their join, and do not come back; donec of restored DDL is closed
\* at the very end of restorePredata.
EndInv ==
    /\ barData = Cardinality(Counted)
    /\ mode.metaOnly => \A c \in CopyConns : copyPc[c] = "off"
    /\ main \in {"wait", "finish", "post", "done"} /\ ~mode.metaOnly
          => \A c \in CopyConns : copyPc[c] = "exited"
    /\ ~FillsChannel /\ (donecClosed \/ main \in {"finish", "post", "done"})
          => restore = "end"
    /\ main \in {"post", "done"} /\ ~mode.metaOnly => barData = Cardinality(Tables)

\* --metadata-only is a flag.
LEMMA ModeType == TypeOK => mode.metaOnly \in BOOLEAN
  BY PipelineAssumption DEF TypeOK, FlagSets

\* The bar counts tables.
LEMMA CountedTables == TypeOK /\ WorkerInv => Counted \subseteq Tables
  BY DEF TypeOK, WorkerInv, Counted, Recorded

\* EndInv holds when doCopy starts.
LEMMA EndInit == Init => EndInv
  <1> SUFFICES ASSUME Init PROVE EndInv
    OBVIOUS
  <1>1. Counted = {}
    BY DEF Init, Counted, Recorded
  <1> QED
    BY <1>1, FS_EmptySet DEF Init, EndInv

\* A step that changes nothing the invariant speaks of.
LEMMA EndStays ==
  ASSUME EndInv, UNCHANGED <<mode, main, restore, donecClosed, copyPc, copyTab, result, barData>>
  PROVE  EndInv'
  BY ModeFixed DEF EndInv, Counted, Recorded

\* When no worker is between the bar and the result file, the bar counts exactly
\* the recorded tables, so a full bar means that every table is recorded.
LEMMA FullBar ==
  ASSUME TypeOK, WorkerInv, EndInv, \A c \in CopyConns : copyPc[c] = "exited",
         barData = Cardinality(Tables)
  PROVE  Recorded = Tables
  <1>1. Counted = Recorded /\ Recorded \subseteq Tables
    BY DEF Counted, Recorded
  <1>2. IsFiniteSet(Tables)
    BY PipelineAssumption
  <1>3. Cardinality(Recorded) = Cardinality(Tables)
    BY <1>1 DEF EndInv
  <1> QED
    BY <1>1, <1>2, <1>3, FS_Subset

\* The steps of doCopy keep EndInv.
LEMMA EndMain == ASSUME TypeOK, ControlInv, WorkerInv, EndInv, Main PROVE EndInv'
  <1> USE ModeFixed
  <1> USE DEF mainVars, restoreVars, ddlVars, chanVars, copyVars, barVars
  <1>1. CASE StartCopy
    <2>1. /\ main = "copy" /\ UNCHANGED <<mode, restore, donecClosed, copyTab, result, barData>>
          /\ IF mode.metaOnly THEN main' = "wait" /\ copyPc' = copyPc
             ELSE main' \in {"close", "join"} /\ copyPc' = [c \in CopyConns |-> "idle"]
      BY <1>1 DEF StartCopy
    <2>2. \A c \in CopyConns : copyPc[c] # "record" /\ copyPc'[c] # "record"
      BY <2>1 DEF WorkerInv
    <2>3. Counted' = Counted
      BY <2>1, <2>2 DEF Counted, Recorded
    <2> QED
      BY <2>1, <2>3 DEF EndInv
  <1>2. CASE ~StartCopy
    <2>1. UNCHANGED <<mode, copyPc, copyTab, result, barData>>
      BY <1>2 DEF Main, MigrateMetadata, FillTablePairChan, CloseTables, JoinWorkers,
         Wait, Finish, RestorePostMetadata
    <2>2. Counted' = Counted
      BY <2>1 DEF Counted, Recorded
    <2>3. CASE MigrateMetadata
      BY <2>1, <2>2, <2>3 DEF EndInv, MigrateMetadata, ControlInv
    <2>4. CASE FillTablePairChan
      BY <2>1, <2>2, <2>4 DEF EndInv, FillTablePairChan, ControlInv
    <2>5. CASE CloseTables
      BY <2>1, <2>2, <2>5 DEF EndInv, CloseTables
    <2>6. CASE JoinWorkers
      BY <2>1, <2>2, <2>6 DEF EndInv, JoinWorkers
    <2>7. CASE Wait
      BY <2>1, <2>2, <2>7 DEF EndInv, Wait, FillsChannel
    <2>8. CASE Finish
      BY <2>1, <2>2, <2>8 DEF EndInv, Finish, BarsComplete
    <2>9. CASE RestorePostMetadata
      BY <2>1, <2>2, <2>9 DEF EndInv, RestorePostMetadata
    <2> QED
      BY <1>2, <2>3, <2>4, <2>5, <2>6, <2>7, <2>8, <2>9 DEF Main
  <1> QED
    BY <1>1, <1>2

\* The steps of restorePredata keep EndInv.
LEMMA EndRestore == ASSUME TypeOK, ControlInv, EndInv, Restore PROVE EndInv'
  <1> USE DEF mainVars, restoreVars, ddlVars, chanVars, copyVars, barVars
  <1>1. UNCHANGED <<mode, main, copyPc, copyTab, result, barData>>
    BY DEF Restore, RestoreEarly, ScheduleStatement, WorkerPoolWait, RestoreLate,
       RestoreCleanup, CloseChannels
  <1>2. Counted' = Counted
    BY <1>1 DEF Counted, Recorded
  <1>3. restore # "end" /\ (donecClosed' = donecClosed \/ restore' = "end")
    BY DEF Restore, RestoreEarly, ScheduleStatement, WorkerPoolWait, RestoreLate,
       RestoreCleanup, CloseChannels
  <1> QED
    BY SMTT(30), <1>1, <1>2, <1>3, ModeFixed DEF EndInv

\* The bar advances when the pair enters Counted, and only then.
LEMMA EndCopyWorker ==
  ASSUME TypeOK, WorkerInv, ExactlyOnce, EndInv, NEW c \in CopyConns, CopyWorker(c)
  PROVE  EndInv'
  <1> USE DEF mainVars, restoreVars, ddlVars, chanVars, copyVars, barVars
  <1>1. UNCHANGED <<mode, main, restore, donecClosed>>
    BY DEF CopyWorker, ReceivePair, CheckTerminated, CopyTable, RecordResult
  <1>2. copyPc[c] \notin {"off", "exited"}
    BY DEF CopyWorker, ReceivePair, CheckTerminated, CopyTable, RecordResult
  <1>3. main \notin {"wait", "finish", "post", "done"} /\ ~mode.metaOnly
    BY <1>2 DEF EndInv
  <1>4. SUFFICES barData' = Cardinality(Counted')
    BY <1>1, <1>3, ModeFixed DEF EndInv
  <1>5. CASE ReceivePair(c) \/ CheckTerminated(c)
    <2>1. /\ UNCHANGED <<result, barData>> /\ copyPc[c] # "record" /\ copyPc'[c] # "record"
          /\ \A d \in CopyConns : d # c => copyPc'[d] = copyPc[d] /\ copyTab'[d] = copyTab[d]
      BY <1>5 DEF ReceivePair, CheckTerminated, TypeOK
    <2>2. Counted' = Counted
      BY SMTT(30), <2>1 DEF Counted, Recorded
    <2> QED
      BY <2>1, <2>2 DEF EndInv
  <1>6. CASE CopyTable(c)
    <2> DEFINE t == copyTab[c]
    <2>1. /\ UNCHANGED <<result, copyTab>> /\ copyPc[c] = "copy" /\ copyPc'[c] = "record"
          /\ barData' = barData + 1 /\ \A d \in CopyConns : d # c => copyPc'[d] = copyPc[d]
      BY <1>6 DEF CopyTable, TypeOK
    <2>2. t \in Tables /\ t # NoRel
      BY <2>1, PipelineAssumption DEF WorkerInv, Rels
    <2>3. t \notin Recorded
      BY <2>2 DEF ExactlyOnce, Held
    <2>4. \A d \in CopyConns : d # c => copyTab[d] # t
      BY <2>2 DEF ExactlyOnce
    <2>5. t \notin Counted
      BY <2>1, <2>3, <2>4 DEF Counted
    <2>6. Counted' = Counted \cup {t}
      BY <2>1 DEF Counted, Recorded
    <2>7. IsFiniteSet(Counted)
      BY CountedTables, PipelineAssumption, FS_Subset
    <2>8. Cardinality(Counted') = Cardinality(Counted) + 1
      BY <2>5, <2>6, <2>7, FS_AddElement
    <2> QED
      BY <2>1, <2>8 DEF EndInv
  <1>7. CASE RecordResult(c)
    <2> DEFINE t == copyTab[c]
    <2>1. /\ UNCHANGED barData /\ copyPc[c] = "record" /\ copyPc'[c] = "idle" /\ copyTab'[c] = NoRel
          /\ \A d \in CopyConns : d # c => copyPc'[d] = copyPc[d] /\ copyTab'[d] = copyTab[d]
      BY <1>7 DEF RecordResult, TypeOK
    <2>2. t \in Tables
      BY <2>1 DEF WorkerInv
    <2>3. Recorded' = Recorded \cup {t}
      BY SMTT(30), <1>7, <2>2 DEF RecordResult, Recorded, Outcomes, TypeOK
    <2>4. Counted' = Counted
      BY <2>1, <2>3 DEF Counted
    <2> QED
      BY <2>1, <2>4 DEF EndInv
  <1> QED
    BY <1>5, <1>6, <1>7 DEF CopyWorker

\* Every step keeps EndInv.
LEMMA EndNext ==
  TypeOK /\ ControlInv /\ WorkerInv /\ ExactlyOnce /\ EndInv /\ [Next]_vars => EndInv'
  <1> SUFFICES ASSUME TypeOK, ControlInv, WorkerInv, ExactlyOnce, EndInv, [Next]_vars
               PROVE  EndInv'
    OBVIOUS
  <1> USE DEF mainVars, restoreVars, chanVars, copyVars, barVars
  <1>1. ASSUME NEW w \in MetaConns, MetaWorker(w) PROVE EndInv'
    BY <1>1, EndStays DEF MetaWorker, TakeTask, ExecStatement, AnnounceTables, SendPairs
  <1>2. CASE Signal \/ ExitProcess \/ UNCHANGED vars
    BY <1>2, EndStays DEF Signal, ExitProcess, vars
  <1> QED
    BY <1>1, <1>2, EndMain, EndRestore, EndCopyWorker DEF Next, Stopped

\* doCopy comes to post-data only when the bar of the tables is full.
LEMMA EndImpliesPost ==
  TypeOK /\ ControlInv /\ WorkerInv /\ SchedInv /\ EndInv => PostAfterData
  <1> SUFFICES ASSUME TypeOK, ControlInv, WorkerInv, SchedInv, EndInv,
                      main \in {"post", "done"}
               PROVE  /\ ~mode.metaOnly => Recorded = Tables
                      /\ ~FillsChannel => executed = Stmts /\ restore \in {"closeDone", "end"}
    BY DEF PostAfterData
  <1>1. ASSUME ~mode.metaOnly PROVE Recorded = Tables
    BY <1>1, FullBar DEF EndInv
  <1>2. ASSUME ~FillsChannel PROVE executed = Stmts /\ restore = "end"
    <2>1. restore = "end" /\ Drained
      BY <1>2 DEF EndInv, ControlInv, Drained
    <2> QED
      BY <2>1, AllExecuted
  <1> QED
    BY <1>1, <1>2

\* Indexes, triggers and rules are restored after the last table has its result
\* and after the last pre-data statement, also when a termination signal has made
\* copy workers return with a pair in hand: the progress bar is then short of its
\* total and Progress.Wait does not return.
THEOREM PostAfterDataHolds == Spec => []PostAfterData
  BY InitType, NextType, ControlInit, ControlNext, WorkerInit, WorkerNext, PlaceInit,
     PlaceNext, SchedInit, SchedNext, EndInit, EndNext, EndImpliesPost, PTL DEF Spec

----------------------------------------------------------------------------
(* TablePipeline implements TableMigration. *)

\* Who copies a table: the state of a table changes only through its result and
\* through the copy worker that has it.
Copying(t) == \E c \in CopyConns : copyTab[c] = t /\ copyPc[c] \in {"copy", "record"}

\* A step that neither records a result nor begins or ends a copy.
LEMMA StateStays ==
  ASSUME UNCHANGED result, NEW t, Copying(t)' <=> Copying(t)
  PROVE  TableState(t)' = TableState(t)
  BY DEF TableState, Copying

\* doCopy starts as TableMigration does.
LEMMA MigrationInit == Init => Migration!Init
  <1> SUFFICES ASSUME Init PROVE Migration!Init
    OBVIOUS
  <1>1. TypeOK
    BY InitType
  <1>2. (~mode.metaOnly) \in BOOLEAN
    BY <1>1, ModeType
  <1>3. \A t \in Tables : TableState(t) = "waiting"
    BY PipelineAssumption DEF Init, TableState, Rels
  <1> QED
    BY <1>2, <1>3 DEF Init, Migration!Init

\* main: only the end of Finish shows, and by then every table has a result.
LEMMA MigrationMain ==
  ASSUME TypeOK, WorkerInv, EndInv, EndInv', Main
  PROVE  [Migration!Next]_(Migration!vars)
  <1> USE DEF mainVars, copyVars
  <1>1. UNCHANGED <<mode, alive, copyTab, result>> /\ alive
    BY DEF Main, MigrateMetadata, FillTablePairChan, StartCopy, CloseTables,
       JoinWorkers, Wait, Finish, RestorePostMetadata
  <1>2. \A t \in Tables : Copying(t)' <=> Copying(t)
    <2>1. UNCHANGED copyPc \/ \A c \in CopyConns :
             copyPc[c] \notin {"copy", "record"} /\ copyPc'[c] \notin {"copy", "record"}
      BY DEF WorkerInv, Main, MigrateMetadata, FillTablePairChan, StartCopy, CloseTables,
         JoinWorkers, Wait, Finish, RestorePostMetadata
    <2> QED
      BY <1>1, <2>1 DEF Copying
  <1>3. \A t \in Tables : TableState(t)' = TableState(t)
    BY <1>1, <1>2, StateStays
  <1>4. CASE Finish
    <2>1. main = "finish" /\ main' = "post"
      BY <1>4 DEF Finish
    <2>2. ~mode.metaOnly => \A t \in Tables : TableState(t) \in Outcomes
      <3>1. ASSUME ~mode.metaOnly PROVE Recorded = Tables
        <4>1. /\ \A c \in CopyConns : copyPc[c] = "exited"
              /\ barData = Cardinality(Tables)
          BY <1>4, <2>1, <3>1 DEF EndInv, Finish, BarsComplete
        <4> QED
          BY <4>1, FullBar
      <3> QED
        BY <3>1 DEF Recorded, TableState, TypeOK
    <2>3. Migration!PostData
      BY <1>1, <1>3, <2>1, <2>2 DEF Migration!PostData, Migration!Results, Outcomes
    <2> QED
      BY <2>3 DEF Migration!Next
  <1>5. CASE ~Finish
    <2>1. main' \in {"post", "done"} <=> main \in {"post", "done"}
      BY <1>5 DEF Main, MigrateMetadata, FillTablePairChan, StartCopy, CloseTables,
         JoinWorkers, Wait, RestorePostMetadata
    <2> QED
      BY <1>1, <1>3, <2>1 DEF Migration!vars
  <1> QED
    BY <1>4, <1>5

\* A copy worker: CheckTerminated begins the copy of a table that waits, and
\* RecordResult ends it.
LEMMA MigrationCopyWorker ==
  ASSUME TypeOK, WorkerInv, ExactlyOnce, EndInv, NEW c \in CopyConns, CopyWorker(c)
  PROVE  [Migration!Next]_(Migration!vars)
  <1> USE DEF mainVars, restoreVars, ddlVars, chanVars, copyVars, barVars
  <1>0. PICK t : t = copyTab[c]
    OBVIOUS
  <1>1. UNCHANGED <<mode, main, alive>> /\ alive
    BY DEF CopyWorker, ReceivePair, CheckTerminated, CopyTable, RecordResult
  <1>2. copyPc[c] \notin {"off", "exited"}
    BY DEF CopyWorker, ReceivePair, CheckTerminated, CopyTable, RecordResult
  <1>3. main \notin {"post", "done"} /\ ~mode.metaOnly
    BY <1>2 DEF EndInv
  <1>4. ASSUME copyPc[c] \in {"check", "copy", "record"}
        PROVE  /\ t \in Tables /\ t # NoRel /\ result[t] = "none"
               /\ \A d \in CopyConns : copyTab[d] = t => d = c
    <2>1. t \in Tables /\ t # NoRel
      BY <1>0, <1>4, PipelineAssumption DEF WorkerInv, Rels
    <2> QED
      BY SMTT(30), <1>0, <2>1 DEF ExactlyOnce, Held, Recorded
  <1>5. CASE ReceivePair(c) \/ CopyTable(c) \/ (CheckTerminated(c) /\ terminated)
    <2>1. /\ UNCHANGED result
          /\ \A d \in CopyConns : d # c => copyPc'[d] = copyPc[d] /\ copyTab'[d] = copyTab[d]
          /\ \/ copyPc[c] \notin {"copy", "record"} /\ copyPc'[c] \notin {"copy", "record"}
             \/ /\ copyPc[c] \in {"copy", "record"} /\ copyPc'[c] \in {"copy", "record"}
                /\ copyTab'[c] = copyTab[c]
      BY <1>5 DEF ReceivePair, CopyTable, CheckTerminated, TypeOK
    <2>2. \A u \in Tables : Copying(u)' <=> Copying(u)
      BY <2>1 DEF Copying
    <2>3. \A u \in Tables : TableState(u)' = TableState(u)
      BY <2>1, <2>2, StateStays
    <2> QED
      BY <1>1, <2>3 DEF Migration!vars
  <1>6. CASE CheckTerminated(c) /\ ~terminated
    <2>1. /\ UNCHANGED <<result, copyTab>> /\ copyPc[c] = "check" /\ copyPc'[c] = "copy"
          /\ \A d \in CopyConns : d # c => copyPc'[d] = copyPc[d]
      BY <1>6 DEF CheckTerminated, TypeOK
    <2>2. TableState(t) = "waiting" /\ TableState(t)' = "copying"
      BY <1>0, <1>4, <2>1 DEF TableState
    <2>3. \A u \in Tables : u # t => TableState(u)' = TableState(u)
      BY <1>0, <2>1, StateStays DEF Copying
    <2>4. t \in Tables
      BY <1>4, <2>1
    <2>5. [u \in Tables |-> TableState(u)]'
            = [[u \in Tables |-> TableState(u)] EXCEPT ![t] = "copying"]
      BY <2>2, <2>3, <2>4
    <2>6. Migration!BeginTable(t)
      BY <1>1, <1>3, <2>2, <2>4, <2>5 DEF Migration!BeginTable
    <2> QED
      BY <2>4, <2>6 DEF Migration!Next
  <1>7. CASE RecordResult(c)
    <2>1. /\ copyPc[c] = "record" /\ copyPc'[c] = "idle" /\ copyTab'[c] = NoRel
          /\ \A d \in CopyConns : d # c => copyPc'[d] = copyPc[d] /\ copyTab'[d] = copyTab[d]
      BY <1>7 DEF RecordResult, TypeOK
    <2>2. t \in Tables /\ result[t] = "none"
      BY <1>4, <2>1
    <2>3. PICK r \in Outcomes : result' = [result EXCEPT ![t] = r]
      BY <1>0, <1>7 DEF RecordResult
    <2>4. TableState(t) = "copying" /\ TableState(t)' = r
      BY ZenonT(30), <1>0, <2>1, <2>2, <2>3 DEF TableState, TypeOK, Outcomes
    <2>5. ASSUME NEW u \in Tables, u # t PROVE TableState(u)' = TableState(u)
      <3>1. result'[u] = result[u]
        BY <2>2, <2>3, <2>5 DEF TypeOK
      <3>2. Copying(u)' <=> Copying(u)
        BY <1>0, <2>1, <2>5, PipelineAssumption DEF Copying, Rels
      <3> QED
        BY <3>1, <3>2 DEF TableState, Copying
    <2>6. [u \in Tables |-> TableState(u)]'
            = [[u \in Tables |-> TableState(u)] EXCEPT ![t] = r]
      BY <2>2, <2>4, <2>5
    <2>7. Migration!EndTable(t)
      BY <1>1, <1>3, <2>2, <2>3, <2>4, <2>6 DEF Migration!EndTable, Migration!Results, Outcomes
    <2> QED
      BY <2>2, <2>7 DEF Migration!Next
  <1> QED
    BY <1>5, <1>6, <1>7 DEF CopyWorker

\* Every step of the pipeline is a step of TableMigration or changes nothing it sees.
LEMMA MigrationNext ==
  TypeOK /\ WorkerInv /\ ExactlyOnce /\ EndInv /\ EndInv' /\ [Next]_vars
     => [Migration!Next]_(Migration!vars)
  <1> SUFFICES ASSUME TypeOK, WorkerInv, ExactlyOnce, EndInv, EndInv', [Next]_vars
               PROVE  [Migration!Next]_(Migration!vars)
    OBVIOUS
  <1> USE DEF mainVars, restoreVars, ddlVars, chanVars, copyVars, barVars
  <1>1. CASE UNCHANGED <<mode, main, copyPc, copyTab, result>>
    <2>1. \A t \in Tables : TableState(t)' = TableState(t)
      BY <1>1, StateStays DEF Copying
    <2>2. CASE UNCHANGED alive
      BY <1>1, <2>1, <2>2 DEF Migration!vars
    <2>3. CASE alive /\ ~alive'
      <3>1. Migration!Kill
        BY ZenonT(30), <1>1, <2>1, <2>3 DEF Migration!Kill
      <3> QED
        BY <3>1 DEF Migration!Next
    <2>4. UNCHANGED alive \/ (alive /\ ~alive')
      BY <1>1 DEF Next, vars, Main, MigrateMetadata, FillTablePairChan, StartCopy,
         CloseTables, JoinWorkers, Wait, Finish, RestorePostMetadata, Restore,
         RestoreEarly, ScheduleStatement, WorkerPoolWait, RestoreLate, RestoreCleanup,
         CloseChannels, MetaWorker, TakeTask, ExecStatement, AnnounceTables, SendPairs,
         CopyWorker, ReceivePair, CheckTerminated, CopyTable, RecordResult, Signal,
         ExitProcess, Stopped
    <2> QED
      BY <2>2, <2>3, <2>4
  <1>2. CASE Restore \/ (\E w \in MetaConns : MetaWorker(w)) \/ Signal \/ ExitProcess
             \/ UNCHANGED vars
    <2>1. UNCHANGED <<mode, main, copyPc, copyTab, result>>
      BY <1>2 DEF vars, Restore, RestoreEarly, ScheduleStatement, WorkerPoolWait,
         RestoreLate, RestoreCleanup, CloseChannels, MetaWorker, TakeTask, ExecStatement,
         AnnounceTables, SendPairs, Signal, ExitProcess
    <2> QED
      BY <1>1, <2>1
  <1> QED
    BY <1>2, MigrationMain, MigrationCopyWorker DEF Next, Stopped

\* Seen from outside, doCopy with its goroutines, channels and bars is the table
\* lifecycle of TableMigration: every step begins the copy of one waiting table,
\* gives one table its result, enters post-data with no table left, is the end of
\* the process, or does not show.
THEOREM PipelineImplementsMigration == Spec => ImplementsMigration
  <1>1. Init => Migration!Init
    BY MigrationInit
  <1>2. /\ TypeOK /\ ControlInv /\ WorkerInv /\ ExactlyOnce /\ EndInv
        /\ (TypeOK /\ ControlInv /\ WorkerInv /\ ExactlyOnce /\ EndInv)'
        /\ [Next]_vars
        => [Migration!Next]_(Migration!vars)
    BY MigrationNext
  <1> QED
    BY <1>1, <1>2, InitType, NextType, ControlInit, ControlNext, WorkerInit, WorkerNext,
       PlaceInit, PlaceNext, EndInit, EndNext, PTL
    DEF Spec, ImplementsMigration, Migration!Spec

============================================================================
