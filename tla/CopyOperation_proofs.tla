------------------------ MODULE CopyOperation_proofs ------------------------
(***************************************************************************)
(* Proofs about CopyOperation, for any list of tables and any numbers of   *)
(* rows.                                                                   *)
(***************************************************************************)
EXTENDS CopyOperation, TLAPS

\* Every leaf that names no prover is for Zenon.
USE Zenon

----------------------------------------------------------------------------
(* The worker and the two sides of its operations. *)

InExecute == {"ports", "dial", "await", "commit"}

\* The operation of t has a goroutine or a statement at work.
Active(t) == toPc[t] = "running" \/ fromPc[t] \notin {"off", "done"}

\* The worker has left the operation of t, or will not come back to it.
Left(t) == result[t] # "none" \/ (t = cur /\ worker = "record")

\* Where the worker is: the table it is at, and the locals of Copy.
WorkerInv ==
    /\ worker \notin {"next", "done"} => cur \in Tables
    /\ worker \notin {"next", "done", "rollback"} => result[cur] = "none"
    /\ worker = "rollback" => result[cur] = "failed"
    /\ worker \notin {"next", "done", "record", "rollback"} => ~failed /\ ~skipped
    /\ worker = "record" => ~(failed /\ skipped)
    /\ worker \in {"truncate", "start", "rollback"} \cup InExecute => inTxn
    /\ worker = "rollback" => failed
    /\ worker = "truncate" => truncate

\* Where the two sides of an operation are: not started before StartListener;
\* what is left behind has been cancelled; a statement that loads rows belongs to
\* the table the worker is at.
SideOf(t) ==
    /\ result[t] = "none" /\ ~(t = cur /\ worker \in InExecute \cup {"record"})
          => toPc[t] = "off" /\ fromPc[t] = "off"
    /\ t \in cancelled => Left(t)
    /\ Left(t) /\ Active(t) => t \in cancelled
    /\ t = cur /\ worker = "record" /\ ~(failed /\ inTxn) => fromPc[t] \in {"off", "done"}
    /\ ~push /\ fromPc[t] \notin {"off", "done"} => t = cur /\ worker = "dial"
    /\ fromPc[t] = "running"
          => t = cur /\ worker \in {"ports", "dial", "await", "record", "rollback"}
SidesInv == \A t \in Tables : SideOf(t)

\* What the worker knows of the two sides: the dialling side starts after
\* waitForHelperPorts, and is done when the worker waits for the other one; both
\* are done when the worker commits.
AwaitInv ==
    /\ worker = "ports" => (IF push THEN toPc[cur] ELSE fromPc[cur]) = "off"
    /\ worker = "await" => DialerDone /\ ~DialerErr
    /\ worker = "commit" => /\ ListenerDone /\ DialerDone /\ ~ListenerErr /\ ~DialerErr
                            /\ RowCountsAgree

\* What the two sides know: the rows they report, and that only the
\* external-table strategies commit on their own.
RowsOf(t) ==
    /\ toPc[t] = "done" /\ ~toErr[t] => toRows[t] = srcRows[t]
    /\ fromPc[t] \notin {"drop", "done"} => fromRows[t] = 0
    /\ fromErr[t] => fromPc[t] = "done"
    /\ fromPc[t] \in {"commit1", "begin1", "create", "commit2", "begin2", "drop"}
          => strategy[t] = "ext"
RowsInv == \A t \in Tables : RowsOf(t)

----------------------------------------------------------------------------
(* The slot. *)

\* The worker may have uncommitted work on t.
InFlight(t) ==
    t = cur /\ worker \in {"truncate", "start", "record", "rollback"} \cup InExecute

\* Only the table in flight has uncommitted work, and it has none when the worker
\* goes on without a rollback; a table that has not been begun is as it was.
WorkOf(t) ==
    /\ ~InFlight(t) => work[t] = dest[t]
    /\ t = cur /\ worker = "record" /\ ~(failed /\ inTxn) => work[t] = dest[t]
    /\ result[t] = "none" /\ ~(InFlight(t) /\ worker # "truncate")
          => work[t] = Before /\ dest[t] = Before
WorkInv == \A t \in Tables : WorkOf(t)

\* What the destination should hold of t: without its earlier records under
\* --truncate, with the rows CopyFrom has reported.
Loaded(t) == [old |-> ~truncate, new |-> fromRows[t]]

MayBegin(u) == fromPc[u] \in {"commit1", "begin1", "create", "commit2", "begin2"}

\* The transaction has been taken away under the table in flight, and nobody will
\* begin another one.
TakenAway ==
    /\ tx = "none"
    /\ fromPc[cur] \notin {"begin1", "begin2"}
    /\ \A u \in Tables : u # cur => ~MayBegin(u)

\* Up to the COMMIT the slot holds what it should of the table in flight, or the
\* COMMIT will be refused, or CopyFrom has failed and there will be no COMMIT.
Keep ==
    /\ worker \in {"start"} \cup InExecute => work[cur] = Loaded(cur) \/ TakenAway \/ fromErr[cur]
    /\ worker \in InExecute /\ fromPc[cur] \in {"begin1", "create", "commit2", "begin2"}
          => work[cur] = Loaded(cur) /\ dest[cur] = Loaded(cur)
KeepInv == ~Crowded => Keep

\* After the COMMIT the table holds it.
Succ ==
    /\ worker = "record" /\ ~failed /\ ~skipped /\ validate => dest[cur] = After(cur)
    /\ \A t \in Tables : validate /\ result[t] = "succeeded" => dest[t] = After(t)
SuccInv == ~Crowded => Succ

\* Without stragglers and without commits of its own, an operation keeps its
\* transaction from BEGIN to COMMIT or ROLLBACK.
Kept(t) ==
    \/ dest[t] = Before
    \/ fromPc[t] = "done" /\ ~fromErr[t] /\ dest[t] = Loaded(t)
Intact ==
    worker \in {"truncate", "start"} \cup InExecute /\ (worker \in InExecute => strategy[cur] # "ext")
        => tx # "none" /\ dest[cur] = Before
Failing ==
    worker \in {"record", "rollback"} /\ failed /\ strategy[cur] # "ext"
        => Kept(cur) /\ (fromPc[cur] \notin {"off", "done"} => tx # "none")
Failed ==
    \A t \in Tables : result[t] = "failed" /\ ~(worker = "rollback" /\ cur = t) /\ strategy[t] # "ext"
        => Kept(t)
FailInv == Stragglers = {} => Intact /\ Failing /\ Failed

----------------------------------------------------------------------------
(* Types. *)

\* The four parts of TypeOK.
CtlType ==
    /\ push \in BOOLEAN /\ truncate \in BOOLEAN /\ validate \in BOOLEAN
    /\ worker \in WorkerPcs /\ cur \in Tables \cup {NoTable}
    /\ failed \in BOOLEAN /\ inTxn \in BOOLEAN /\ skipped \in BOOLEAN
    /\ strategy \in [Tables -> Strategies]
    /\ toPc \in [Tables -> {"off", "running", "done"}]
    /\ fromPc \in [Tables -> FromPcs]
    /\ cancelled \subseteq Tables
    /\ result \in [Tables -> {"none", "succeeded", "failed", "skipped"}]
ErrType == toErr \in [Tables -> BOOLEAN] /\ fromErr \in [Tables -> BOOLEAN]
RowType ==
    /\ srcRows \in [Tables -> RowCounts]
    /\ toRows \in [Tables -> Nat] /\ fromRows \in [Tables -> Nat]
SlotType ==
    /\ tx \in TxStates
    /\ work \in [Tables -> Contents] /\ dest \in [Tables -> Contents]
    /\ tx = "none" => work = dest

\* TypeOK is the conjunction of its parts.
LEMMA TypeParts == TypeOK <=> CtlType /\ ErrType /\ RowType /\ SlotType
BY DEF TypeOK, CtlType, ErrType, RowType, SlotType

\* Every step preserves the types of the locals of Copy and Execute.
LEMMA CtlTypeNext ==
    ASSUME CtlType, WorkerInv, [Next]_vars
    PROVE  CtlType'
<1> USE DEF CtlType, WorkerPcs, FromPcs, Strategies, flags, workerVars, toVars,
fromVars, destVars
<1>1. CASE TakeTable
  BY <1>1 DEF TakeTable
<1>2. CASE ShouldSkipCopy
  BY <1>2 DEF ShouldSkipCopy
<1>3. CASE SetupSession
  BY <1>3 DEF SetupSession, WorkerGoto, WorkerFails
<1>4. CASE BeginTable
  BY <1>4 DEF BeginTable, WorkerFails
<1>5. CASE TruncateTable
  BY <1>5 DEF TruncateTable, WorkerGoto, WorkerFails
<1>6. CASE StartListener
  BY ZenonT(30), <1>6 DEF StartListener, FirstFromStep
<1>7. CASE WaitForHelperPorts
  <2>1. CASE HandleFailure /\ UNCHANGED <<toPc, fromPc>>
    <3>1. cur \in Tables
      BY <1>7 DEF WaitForHelperPorts, WorkerInv
    <3>2. cancelled' \subseteq Tables
      BY <2>1, <3>1 DEF HandleFailure
    <3> QED
      BY <1>7, <2>1, <3>2 DEF WaitForHelperPorts, HandleFailure
  <2>2. CASE WorkerGoto("dial")
    BY <1>7, <2>2 DEF WaitForHelperPorts, WorkerGoto, FirstFromStep
  <2> QED
    BY <1>7, <2>1, <2>2 DEF WaitForHelperPorts
<1>8. CASE Dial
  <2>1. CASE HandleFailure
    BY <1>8, <2>1 DEF Dial, HandleFailure, WorkerInv
  <2>2. CASE WorkerGoto("await")
    BY <1>8, <2>2 DEF Dial, WorkerGoto
  <2> QED
    BY <1>8, <2>1, <2>2 DEF Dial
<1>9. CASE AwaitListener
  BY <1>9 DEF AwaitListener, WorkerGoto, WorkerFails
<1>10. CASE CommitTable
  BY <1>10 DEF CommitTable, WorkerGoto, WorkerFails
<1>11. CASE RecordResult
  BY <1>11 DEF RecordResult
<1>12. CASE RollbackTable
  BY <1>12 DEF RollbackTable, WorkerGoto
<1>13. ASSUME NEW t \in Tables, CopyTo(t)  PROVE CtlType'
  BY SMTT(30), <1>13 DEF CopyTo, EndCopyTo
<1>14. ASSUME NEW t \in Tables, CommitBeginCommit(t)  PROVE CtlType'
  BY SMTT(30), <1>14 DEF CommitBeginCommit, FromGoto, FromFails
<1>15. ASSUME NEW t \in Tables, CommitBeginBegin(t)  PROVE CtlType'
  BY SMTT(30), <1>15 DEF CommitBeginBegin, FromGoto, FromFails
<1>16. ASSUME NEW t \in Tables, CreateExternalTable(t)  PROVE CtlType'
  BY SMTT(30), <1>16 DEF CreateExternalTable, FromGoto, FromFails
<1>17. ASSUME NEW t \in Tables, StartLoad(t)  PROVE CtlType'
  BY SMTT(30), <1>17 DEF StartLoad, FromGoto, FromFails
<1>18. ASSUME NEW t \in Tables, Load(t)  PROVE CtlType'
  <2>1. \E pc \in {"drop", "done"} : fromPc' = [fromPc EXCEPT ![t] = pc]
    BY <1>18 DEF Load, FromFails
  <2> QED
    BY SMTT(30), <1>18, <2>1 DEF Load
<1>19. ASSUME NEW t \in Tables, DropExternalTable(t)  PROVE CtlType'
  BY SMTT(30), <1>19 DEF DropExternalTable, FromGoto, FromFails
<1>20. CASE UNCHANGED vars
  BY SMTT(30), <1>20 DEF vars
<1> HIDE DEF CtlType
<1> QED
  BY <1>1, <1>2, <1>3, <1>4, <1>5, <1>6, <1>7, <1>8, <1>9, <1>10, <1>11, <1>12,
  <1>13, <1>14, <1>15, <1>16, <1>17, <1>18, <1>19, <1>20 DEF Next, Worker,
  CopyFrom, Stopped

\* Every step preserves the types of the errors.
LEMMA ErrTypeNext ==
    ASSUME ErrType, [Next]_vars
    PROVE  ErrType'
<1> USE DEF ErrType, flags, workerVars, toVars, fromVars, destVars
<1>1. CASE TakeTable
  BY <1>1 DEF TakeTable
<1>2. CASE ShouldSkipCopy
  BY <1>2 DEF ShouldSkipCopy
<1>3. CASE SetupSession
  BY <1>3 DEF SetupSession, WorkerGoto, WorkerFails
<1>4. CASE BeginTable
  BY <1>4 DEF BeginTable, WorkerFails
<1>5. CASE TruncateTable
  BY <1>5 DEF TruncateTable, WorkerGoto, WorkerFails
<1>6. CASE StartListener
  BY <1>6 DEF StartListener, FirstFromStep
<1>7. CASE WaitForHelperPorts
  BY <1>7 DEF WaitForHelperPorts, HandleFailure, WorkerGoto, FirstFromStep,
  ListenerErr, ListenerDone
<1>8. CASE Dial
  BY <1>8 DEF Dial, HandleFailure, WorkerGoto, ListenerErr, ListenerDone,
  DialerErr, DialerDone
<1>9. CASE AwaitListener
  BY <1>9 DEF AwaitListener, WorkerGoto, WorkerFails
<1>10. CASE CommitTable
  BY <1>10 DEF CommitTable, WorkerGoto, WorkerFails
<1>11. CASE RecordResult
  BY <1>11 DEF RecordResult
<1>12. CASE RollbackTable
  BY <1>12 DEF RollbackTable, WorkerGoto
<1>13. ASSUME NEW t \in Tables, CopyTo(t)  PROVE ErrType'
  BY <1>13 DEF CopyTo, EndCopyTo
<1>14. ASSUME NEW t \in Tables, CommitBeginCommit(t)  PROVE ErrType'
  BY <1>14 DEF CommitBeginCommit, FromGoto, FromFails
<1>15. ASSUME NEW t \in Tables, CommitBeginBegin(t)  PROVE ErrType'
  BY <1>15 DEF CommitBeginBegin, FromGoto, FromFails
<1>16. ASSUME NEW t \in Tables, CreateExternalTable(t)  PROVE ErrType'
  BY <1>16 DEF CreateExternalTable, FromGoto, FromFails
<1>17. ASSUME NEW t \in Tables, StartLoad(t)  PROVE ErrType'
  BY <1>17 DEF StartLoad, FromGoto, FromFails
<1>18. ASSUME NEW t \in Tables, Load(t)  PROVE ErrType'
  BY <1>18 DEF Load, FromFails
<1>19. ASSUME NEW t \in Tables, DropExternalTable(t)  PROVE ErrType'
  BY <1>19 DEF DropExternalTable, FromGoto, FromFails
<1>20. CASE UNCHANGED vars
  BY <1>20 DEF vars
<1> HIDE DEF ErrType
<1> QED
  BY <1>1, <1>2, <1>3, <1>4, <1>5, <1>6, <1>7, <1>8, <1>9, <1>10, <1>11, <1>12,
  <1>13, <1>14, <1>15, <1>16, <1>17, <1>18, <1>19, <1>20 DEF Next, Worker,
  CopyFrom, Stopped

\* Every step preserves the types of the row counts.
LEMMA RowTypeNext ==
    ASSUME RowType, [Next]_vars
    PROVE  RowType'
<1> USE DEF RowType, flags, workerVars, toVars, fromVars, destVars
<1>1. CASE TakeTable
  BY <1>1 DEF TakeTable
<1>2. CASE ShouldSkipCopy
  BY <1>2 DEF ShouldSkipCopy
<1>3. CASE SetupSession
  BY <1>3 DEF SetupSession, WorkerGoto, WorkerFails
<1>4. CASE BeginTable
  BY <1>4 DEF BeginTable, WorkerFails
<1>5. CASE TruncateTable
  BY <1>5 DEF TruncateTable, WorkerGoto, WorkerFails
<1>6. CASE StartListener
  BY <1>6 DEF StartListener, FirstFromStep
<1>7. CASE WaitForHelperPorts
  BY <1>7 DEF WaitForHelperPorts, HandleFailure, WorkerGoto, FirstFromStep,
  ListenerErr, ListenerDone
<1>8. CASE Dial
  BY <1>8 DEF Dial, HandleFailure, WorkerGoto, ListenerErr, ListenerDone,
  DialerErr, DialerDone
<1>9. CASE AwaitListener
  BY <1>9 DEF AwaitListener, WorkerGoto, WorkerFails
<1>10. CASE CommitTable
  BY <1>10 DEF CommitTable, WorkerGoto, WorkerFails
<1>11. CASE RecordResult
  BY <1>11 DEF RecordResult
<1>12. CASE RollbackTable
  BY <1>12 DEF RollbackTable, WorkerGoto
<1>13. ASSUME NEW t \in Tables, CopyTo(t)  PROVE RowType'
  <2>1. PICK n \in Nat : toRows' = [toRows EXCEPT ![t] = n]
    BY <1>13, CopyAssumption DEF CopyTo, EndCopyTo
  <2> QED
    BY <1>13, <2>1 DEF CopyTo
<1>14. ASSUME NEW t \in Tables, CommitBeginCommit(t)  PROVE RowType'
  BY <1>14 DEF CommitBeginCommit, FromGoto, FromFails
<1>15. ASSUME NEW t \in Tables, CommitBeginBegin(t)  PROVE RowType'
  BY <1>15 DEF CommitBeginBegin, FromGoto, FromFails
<1>16. ASSUME NEW t \in Tables, CreateExternalTable(t)  PROVE RowType'
  BY <1>16 DEF CreateExternalTable, FromGoto, FromFails
<1>17. ASSUME NEW t \in Tables, StartLoad(t)  PROVE RowType'
  BY <1>17 DEF StartLoad, FromGoto, FromFails
<1>18. ASSUME NEW t \in Tables, Load(t)  PROVE RowType'
  <2>1. CASE fromRows' = fromRows
    BY <1>18, <2>1 DEF Load
  <2>2. CASE \E n \in Nat : fromRows' = [fromRows EXCEPT ![t] = n]
    BY <1>18, <2>2 DEF Load
  <2>3. CASE StatementFails /\ FromFails(t)
    BY <2>1, <2>3 DEF FromFails
  <2>4. (IF toPc[t] = "off" THEN 0 ELSE srcRows[t]) \in Nat
    BY CopyAssumption
  <2>5. \A n \in 0 .. (IF toPc[t] = "off" THEN 0 ELSE srcRows[t]) : n \in Nat
    BY SMTT(30), <2>4
  <2> QED
    BY <1>18, <2>2, <2>3, <2>5 DEF Load
<1>19. ASSUME NEW t \in Tables, DropExternalTable(t)  PROVE RowType'
  BY <1>19 DEF DropExternalTable, FromGoto, FromFails
<1>20. CASE UNCHANGED vars
  BY <1>20 DEF vars
<1> HIDE DEF RowType
<1> QED
  BY <1>1, <1>2, <1>3, <1>4, <1>5, <1>6, <1>7, <1>8, <1>9, <1>10, <1>11, <1>12,
  <1>13, <1>14, <1>15, <1>16, <1>17, <1>18, <1>19, <1>20 DEF Next, Worker,
  CopyFrom, Stopped

\* Every step preserves the types of the tables and the state of an idle slot.
LEMMA SlotTypeNext ==
    ASSUME CtlType, RowType, SlotType, WorkerInv, [Next]_vars
    PROVE  SlotType'
<1> USE DEF SlotType, Contents, TxStates, flags, workerVars, toVars, fromVars,
destVars
<1>1. CASE TakeTable
  BY <1>1 DEF TakeTable
<1>2. CASE ShouldSkipCopy
  BY <1>2 DEF ShouldSkipCopy
<1>3. CASE SetupSession
  BY <1>3 DEF SetupSession, StatementOk, StatementFails, WorkerGoto, WorkerFails
<1>4. CASE BeginTable
  BY <1>4 DEF BeginTable, BeginOk, BeginFails, WorkerFails
<1>5. CASE TruncateTable
  <2>1. [old |-> FALSE, new |-> 0] \in Contents
    BY DEF Contents
  <2> HIDE DEF Contents
  <2>2. CASE Apply(cur, [old |-> FALSE, new |-> 0])
    BY <1>5, <2>1, <2>2 DEF TruncateTable, Apply
  <2> QED
    BY <1>5, <2>2 DEF TruncateTable, StatementFails
<1>6. CASE StartListener
  BY <1>6 DEF StartListener, FirstFromStep
<1>7. CASE WaitForHelperPorts
  BY <1>7 DEF WaitForHelperPorts, HandleFailure, WorkerGoto, FirstFromStep,
  ListenerErr, ListenerDone
<1>8. CASE Dial
  BY <1>8 DEF Dial, HandleFailure, WorkerGoto, ListenerErr, ListenerDone,
  DialerErr, DialerDone
<1>9. CASE AwaitListener
  BY <1>9 DEF AwaitListener, WorkerGoto, WorkerFails
<1>10. CASE CommitTable
  BY <1>10 DEF CommitTable, CommitOk, CommitFails, WorkerGoto, WorkerFails
<1>11. CASE RecordResult
  BY <1>11 DEF RecordResult
<1>12. CASE RollbackTable
  BY <1>12 DEF RollbackTable, Rollback, WorkerGoto
<1>13. ASSUME NEW t \in Tables, CopyTo(t)  PROVE SlotType'
  BY <1>13 DEF CopyTo, EndCopyTo
<1>14. ASSUME NEW t \in Tables, CommitBeginCommit(t)  PROVE SlotType'
  BY <1>14 DEF CommitBeginCommit, CommitOk, CommitFails, FromGoto, FromFails
<1>15. ASSUME NEW t \in Tables, CommitBeginBegin(t)  PROVE SlotType'
  BY <1>15 DEF CommitBeginBegin, BeginOk, BeginFails, FromGoto, FromFails
<1>16. ASSUME NEW t \in Tables, CreateExternalTable(t)  PROVE SlotType'
  BY <1>16 DEF CreateExternalTable, StatementOk, StatementFails, FromGoto,
  FromFails
<1>17. ASSUME NEW t \in Tables, StartLoad(t)  PROVE SlotType'
  BY <1>17 DEF StartLoad, FromGoto, FromFails
<1>18. ASSUME NEW t \in Tables, Load(t)  PROVE SlotType'
  BY SMTT(30), <1>18 DEF Load, Apply, StatementFails, FromFails
<1>19. ASSUME NEW t \in Tables, DropExternalTable(t)  PROVE SlotType'
  BY <1>19 DEF DropExternalTable, StatementOk, StatementFails, FromGoto, FromFails
<1>20. CASE UNCHANGED vars
  BY <1>20 DEF vars
<1> HIDE DEF SlotType
<1> QED
  BY <1>1, <1>2, <1>3, <1>4, <1>5, <1>6, <1>7, <1>8, <1>9, <1>10, <1>11, <1>12,
  <1>13, <1>14, <1>15, <1>16, <1>17, <1>18, <1>19, <1>20 DEF Next, Worker,
  CopyFrom, Stopped

\* Every step preserves WorkerInv.
LEMMA WorkerNext ==
    ASSUME CtlType, WorkerInv, [Next]_vars
    PROVE  WorkerInv'
<1> USE DEF CtlType, WorkerInv, InExecute, WorkerPcs, flags, workerVars, toVars,
fromVars, destVars
<1>1. CASE TakeTable
  BY <1>1 DEF TakeTable
<1>2. CASE ShouldSkipCopy
  BY <1>2 DEF ShouldSkipCopy
<1>3. CASE SetupSession
  BY SMTT(30), <1>3 DEF SetupSession, WorkerGoto, WorkerFails
<1>4. CASE BeginTable
  BY SMTT(30), <1>4 DEF BeginTable, WorkerFails
<1>5. CASE TruncateTable
  <2>1. CASE WorkerGoto("start")
    BY <1>5, <2>1 DEF TruncateTable, WorkerGoto
  <2>2. CASE WorkerFails(TRUE)
    BY <1>5, <2>2 DEF TruncateTable, WorkerFails
  <2> QED
    BY <1>5, <2>1, <2>2 DEF TruncateTable
<1>6. CASE StartListener
  BY <1>6 DEF StartListener, FirstFromStep
<1>7. CASE WaitForHelperPorts
  <2>1. CASE HandleFailure
    BY <1>7, <2>1 DEF WaitForHelperPorts, HandleFailure
  <2>2. CASE WorkerGoto("dial")
    BY <1>7, <2>2 DEF WaitForHelperPorts, WorkerGoto
  <2> QED
    BY <1>7, <2>1, <2>2 DEF WaitForHelperPorts
<1>8. CASE Dial
  BY <1>8 DEF Dial, HandleFailure, WorkerGoto, ListenerErr, ListenerDone,
  DialerErr, DialerDone
<1>9. CASE AwaitListener
  BY <1>9 DEF AwaitListener, WorkerGoto, WorkerFails
<1>10. CASE CommitTable
  <2>1. CASE WorkerGoto("record")
    BY <1>10, <2>1 DEF CommitTable, WorkerGoto
  <2>2. CASE WorkerFails(inTxn)
    BY <1>10, <2>2 DEF CommitTable, WorkerFails
  <2> QED
    BY <1>10, <2>1, <2>2 DEF CommitTable
<1>11. CASE RecordResult
  BY <1>11 DEF RecordResult
<1>12. CASE RollbackTable
  BY <1>12 DEF RollbackTable, WorkerGoto
<1>13. ASSUME NEW t \in Tables, CopyTo(t)  PROVE WorkerInv'
  BY <1>13 DEF CopyTo, EndCopyTo
<1>14. ASSUME NEW t \in Tables, CommitBeginCommit(t)  PROVE WorkerInv'
  BY <1>14 DEF CommitBeginCommit, FromGoto, FromFails
<1>15. ASSUME NEW t \in Tables, CommitBeginBegin(t)  PROVE WorkerInv'
  BY <1>15 DEF CommitBeginBegin, FromGoto, FromFails
<1>16. ASSUME NEW t \in Tables, CreateExternalTable(t)  PROVE WorkerInv'
  BY <1>16 DEF CreateExternalTable, FromGoto, FromFails
<1>17. ASSUME NEW t \in Tables, StartLoad(t)  PROVE WorkerInv'
  BY <1>17 DEF StartLoad, FromGoto, FromFails
<1>18. ASSUME NEW t \in Tables, Load(t)  PROVE WorkerInv'
  BY <1>18 DEF Load, FromFails
<1>19. ASSUME NEW t \in Tables, DropExternalTable(t)  PROVE WorkerInv'
  BY <1>19 DEF DropExternalTable, FromGoto, FromFails
<1>20. CASE UNCHANGED vars
  BY <1>20 DEF vars
<1> HIDE DEF WorkerInv
<1> QED
  BY <1>1, <1>2, <1>3, <1>4, <1>5, <1>6, <1>7, <1>8, <1>9, <1>10, <1>11, <1>12,
  <1>13, <1>14, <1>15, <1>16, <1>17, <1>18, <1>19, <1>20 DEF Next, Worker,
  CopyFrom, Stopped

----------------------------------------------------------------------------
(* Control. *)

\* What a step of CopyFrom on t does to the control state: it goes on, and starts to
\* load only if it has not been cancelled.
FromStep(t) ==
    /\ fromPc[t] \notin {"off", "done"}
    /\ \E pc \in FromPcs \ {"off"} :
          /\ fromPc' = [fromPc EXCEPT ![t] = pc]
          /\ pc = "running" => fromPc[t] = "start" /\ t \notin cancelled
    /\ \A u \in Tables : u # t => fromErr'[u] = fromErr[u] /\ fromRows'[u] = fromRows[u]
    /\ UNCHANGED <<flags, workerVars, toVars>>

\* Every step of CopyFrom is such a step.
LEMMA FromSteps ==
    ASSUME CtlType, ErrType, RowType, NEW t \in Tables, CopyFrom(t)
    PROVE  FromStep(t)
<1> USE DEF FromStep, CtlType, FromPcs
<1>1. CASE CommitBeginCommit(t)
  BY SMTT(30), <1>1 DEF CommitBeginCommit, FromGoto, FromFails, ErrType
<1>2. CASE CommitBeginBegin(t)
  BY SMTT(30), <1>2 DEF CommitBeginBegin, FromGoto, FromFails, ErrType
<1>3. CASE CreateExternalTable(t)
  BY SMTT(30), <1>3 DEF CreateExternalTable, FromGoto, FromFails, ErrType
<1>4. CASE StartLoad(t)
  BY <1>4 DEF StartLoad, FromGoto, FromFails, ErrType
<1>5. CASE Load(t)
  <2>1. \E pc \in {"drop", "done"} : fromPc' = [fromPc EXCEPT ![t] = pc]
    BY <1>5 DEF Load, FromFails
  <2>2. \A u \in Tables : u # t => fromErr'[u] = fromErr[u]
    BY <1>5 DEF Load, FromFails, ErrType
  <2>3. \A u \in Tables : u # t => fromRows'[u] = fromRows[u]
    BY <1>5 DEF Load, FromFails, RowType
  <2> QED
    BY <1>5, <2>1, <2>2, <2>3 DEF Load
<1>6. CASE DropExternalTable(t)
  BY <1>6 DEF DropExternalTable, FromGoto, FromFails, ErrType
<1> QED
  BY <1>1, <1>2, <1>3, <1>4, <1>5, <1>6 DEF CopyFrom


\* Every step preserves SidesInv.
LEMMA SidesNext ==
    ASSUME CtlType, ErrType, RowType, WorkerInv, SidesInv, AwaitInv, [Next]_vars
    PROVE  SidesInv'
<1> USE DEF SideOf, Left, Active, InExecute, WorkerInv, CtlType, WorkerPcs, flags,
workerVars, toVars, fromVars, destVars
<1>1. CASE TakeTable
  <2> SUFFICES ASSUME NEW u \in Tables  PROVE SideOf(u)'
    BY DEF SidesInv
  <2>1. SideOf(u)
    BY DEF SidesInv
  <2> QED
    BY <1>1, <2>1 DEF TakeTable
<1>2. CASE ShouldSkipCopy
  <2> SUFFICES ASSUME NEW u \in Tables  PROVE SideOf(u)'
    BY DEF SidesInv
  <2>1. SideOf(u)
    BY DEF SidesInv
  <2> QED
    BY <1>2, <2>1 DEF ShouldSkipCopy
<1>3. CASE SetupSession
  <2> SUFFICES ASSUME NEW u \in Tables  PROVE SideOf(u)'
    BY DEF SidesInv
  <2>1. SideOf(u)
    BY DEF SidesInv
  <2> QED
    BY <1>3, <2>1 DEF SetupSession, WorkerGoto, WorkerFails
<1>4. CASE BeginTable
  <2> SUFFICES ASSUME NEW u \in Tables  PROVE SideOf(u)'
    BY DEF SidesInv
  <2>1. SideOf(u)
    BY DEF SidesInv
  <2> QED
    BY <1>4, <2>1 DEF BeginTable, WorkerFails
<1>5. CASE TruncateTable
  <2> SUFFICES ASSUME NEW u \in Tables  PROVE SideOf(u)'
    BY DEF SidesInv
  <2>1. SideOf(u)
    BY DEF SidesInv
  <2> QED
    BY <1>5, <2>1 DEF TruncateTable, WorkerGoto, WorkerFails
<1>6. CASE StartListener
  <2> SUFFICES ASSUME NEW u \in Tables  PROVE SideOf(u)'
    BY DEF SidesInv
  <2>1. SideOf(u)
    BY DEF SidesInv
  <2> QED
    BY <1>6, <2>1 DEF StartListener, FirstFromStep
<1>7. CASE WaitForHelperPorts
  <2> SUFFICES ASSUME NEW u \in Tables  PROVE SideOf(u)'
    BY DEF SidesInv
  <2>1. SideOf(u)
    BY DEF SidesInv
  <2>2. CASE HandleFailure /\ UNCHANGED <<toPc, fromPc>>
    <3>1. ListenerErr => ~Active(cur)
      BY <1>7, <2>2 DEF WaitForHelperPorts, HandleFailure, AwaitInv, ListenerDone
    <3> HIDE DEF Active
    <3>2. cur \in Tables /\ result[cur] = "none" /\ (~push => fromPc[cur] = "off")
      BY <1>7 DEF WaitForHelperPorts, AwaitInv
    <3>3. cur \in cancelled' \/ ~Active(cur)
      BY <2>2, <3>1 DEF HandleFailure
    <3> USE DEF Active
    <3> QED
      BY <1>7, <2>1, <2>2, <3>2, <3>3 DEF WaitForHelperPorts, HandleFailure
  <2>3. CASE WorkerGoto("dial")
    BY <1>7, <2>1, <2>3 DEF WaitForHelperPorts, WorkerGoto, FirstFromStep
  <2> QED
    BY <1>7, <2>2, <2>3 DEF WaitForHelperPorts
<1>8. CASE Dial
  <2> SUFFICES ASSUME NEW u \in Tables  PROVE SideOf(u)'
    BY DEF SidesInv
  <2>1. SideOf(u)
    BY DEF SidesInv
  <2>2. worker = "dial" /\ DialerDone /\ UNCHANGED <<cur, inTxn, result, push, toPc, fromPc>>
    BY <1>8 DEF Dial, HandleFailure, WorkerGoto
  <2>3. CASE DialerErr
    <3>1. worker' = "record" /\ failed' /\ cancelled' \in {cancelled, cancelled \cup {cur}}
      BY <1>8, <2>3 DEF Dial, HandleFailure
    <3>2. cur \notin cancelled' => ListenerDone
      BY <1>8, <2>3 DEF Dial, HandleFailure
    <3>3. cur \in cancelled' \/ (toPc[cur] = "done" /\ fromPc[cur] = "done")
      BY <2>2, <3>2 DEF ListenerDone, DialerDone
    <3>4. ~push => fromPc[cur] = "done"
      BY <2>2 DEF DialerDone
    <3>5. cancelled \subseteq cancelled' /\ (u \in cancelled' => u \in cancelled \/ u = cur)
      BY <3>1
    <3>6. CASE u = cur
      BY <2>1, <2>2, <3>1, <3>3, <3>4, <3>5, <3>6
    <3>7. CASE u # cur
      BY <2>1, <2>2, <3>1, <3>5, <3>7
    <3> QED
      BY <3>6, <3>7
  <2>4. CASE ~DialerErr
    <3>1. worker' = "await" /\ UNCHANGED <<cancelled, failed>>
      BY <1>8, <2>4 DEF Dial, WorkerGoto
    <3>2. ~push => fromPc[cur] = "done"
      BY <2>2 DEF DialerDone
    <3> QED
      BY <2>1, <2>2, <3>1, <3>2
  <2> QED
    BY <2>3, <2>4
<1>9. CASE AwaitListener
  <2> SUFFICES ASSUME NEW u \in Tables  PROVE SideOf(u)'
    BY DEF SidesInv
  <2>1. SideOf(u)
    BY DEF SidesInv
  <2>2. toPc[cur] = "done" /\ fromPc[cur] = "done"
    BY <1>9 DEF AwaitListener, AwaitInv, ListenerDone, DialerDone
  <2> QED
    BY <1>9, <2>1, <2>2 DEF AwaitListener, WorkerGoto, WorkerFails
<1>10. CASE CommitTable
  <2> SUFFICES ASSUME NEW u \in Tables  PROVE SideOf(u)'
    BY DEF SidesInv
  <2>1. SideOf(u)
    BY DEF SidesInv
  <2>2. toPc[cur] = "done" /\ fromPc[cur] = "done"
    BY <1>10 DEF CommitTable, AwaitInv, ListenerDone, DialerDone
  <2> QED
    BY <1>10, <2>1, <2>2 DEF CommitTable, WorkerGoto, WorkerFails
<1>11. CASE RecordResult
  <2> SUFFICES ASSUME NEW u \in Tables  PROVE SideOf(u)'
    BY DEF SidesInv
  <2>1. SideOf(u)
    BY DEF SidesInv
  <2> QED
    BY <1>11, <2>1 DEF RecordResult
<1>12. CASE RollbackTable
  <2> SUFFICES ASSUME NEW u \in Tables  PROVE SideOf(u)'
    BY DEF SidesInv
  <2>1. SideOf(u)
    BY DEF SidesInv
  <2> QED
    BY <1>12, <2>1 DEF RollbackTable, WorkerGoto, SlotFree
<1>13. ASSUME NEW t \in Tables, CopyTo(t)  PROVE SidesInv'
  <2> SUFFICES ASSUME NEW u \in Tables  PROVE SideOf(u)'
    BY DEF SidesInv
  <2>1. SideOf(u)
    BY DEF SidesInv
  <2> QED
    BY <1>13, <2>1 DEF CopyTo, EndCopyTo
<1>14. ASSUME NEW t \in Tables, CopyFrom(t)  PROVE SidesInv'
  <2> SUFFICES ASSUME NEW u \in Tables  PROVE SideOf(u)'
    BY DEF SidesInv
  <2>1. SideOf(u) /\ SideOf(t)
    BY DEF SidesInv
  <2>2. FromStep(t)
    BY <1>14, FromSteps
  <2>3. CASE u = t
    <3>1. PICK pc \in FromPcs \ {"off"} :
             /\ fromPc' = [fromPc EXCEPT ![t] = pc]
             /\ pc = "running" => fromPc[t] = "start" /\ t \notin cancelled
      BY <2>2 DEF FromStep
    <3>2. fromPc'[u] = pc
      BY <2>3, <3>1
    <3> QED
      BY <2>1, <2>2, <2>3, <3>1, <3>2 DEF FromStep, AwaitInv, ListenerDone, DialerDone
  <2>4. CASE u # t
    BY <2>1, <2>2, <2>4 DEF FromStep
  <2> QED
    BY <2>3, <2>4
<1>15. CASE UNCHANGED vars
  <2> SUFFICES ASSUME NEW u \in Tables  PROVE SideOf(u)'
    BY DEF SidesInv
  <2>1. SideOf(u)
    BY DEF SidesInv
  <2> QED
    BY <1>15, <2>1 DEF vars
<1> HIDE DEF SidesInv
<1> QED
  BY <1>1, <1>2, <1>3, <1>4, <1>5, <1>6, <1>7, <1>8, <1>9, <1>10, <1>11, <1>12,
  <1>13, <1>14, <1>15 DEF Next, Worker, Stopped

\* Every step preserves AwaitInv.
LEMMA AwaitNext ==
    ASSUME CtlType, ErrType, RowType, WorkerInv, SidesInv, AwaitInv, [Next]_vars
    PROVE  AwaitInv'
<1> USE DEF AwaitInv, RowCountsAgree, ListenerDone, ListenerErr, DialerDone,
DialerErr, flags, workerVars, toVars, fromVars, destVars
<1>1. CASE TakeTable
  BY <1>1 DEF TakeTable
<1>2. CASE ShouldSkipCopy
  BY <1>2 DEF ShouldSkipCopy
<1>3. CASE SetupSession
  BY <1>3 DEF SetupSession, WorkerGoto, WorkerFails
<1>4. CASE BeginTable
  BY <1>4 DEF BeginTable, WorkerFails
<1>5. CASE TruncateTable
  BY <1>5 DEF TruncateTable, WorkerGoto, WorkerFails
<1>6. CASE StartListener
  BY <1>6 DEF StartListener, CtlType, WorkerInv, SidesInv, SideOf, InExecute
<1>7. CASE WaitForHelperPorts
  BY <1>7 DEF WaitForHelperPorts, HandleFailure, WorkerGoto, FirstFromStep,
  ListenerErr, ListenerDone
<1>8. CASE Dial
  BY <1>8 DEF Dial, HandleFailure, WorkerGoto, ListenerErr, ListenerDone,
  DialerErr, DialerDone
<1>9. CASE AwaitListener
  BY <1>9 DEF AwaitListener, WorkerGoto, WorkerFails
<1>10. CASE CommitTable
  BY <1>10 DEF CommitTable, WorkerGoto, WorkerFails
<1>11. CASE RecordResult
  BY <1>11 DEF RecordResult
<1>12. CASE RollbackTable
  BY <1>12 DEF RollbackTable, WorkerGoto
<1>13. ASSUME NEW t \in Tables, CopyTo(t)  PROVE AwaitInv'
  BY SMTT(30), <1>13 DEF CopyTo, EndCopyTo
<1>14. ASSUME NEW t \in Tables, CopyFrom(t)  PROVE AwaitInv'
  <2>1. FromStep(t)
    BY <1>14, FromSteps
  <2>2. fromPc'[cur] = fromPc[cur] \/ (t = cur /\ fromPc[cur] \notin {"off", "done"})
    <3>1. PICK pc : fromPc' = [fromPc EXCEPT ![t] = pc]
      BY <2>1 DEF FromStep
    <3> QED
      BY SMTT(30), <2>1, <3>1 DEF FromStep, CtlType
  <2>3. CASE t = cur
    BY <2>1, <2>2, <2>3 DEF FromStep
  <2>4. CASE t # cur
    <3>1. worker \in {"ports", "await", "commit"} => cur \in Tables
      BY DEF WorkerInv
    <3>2. worker \in {"ports", "await", "commit"} =>
             /\ fromPc'[cur] = fromPc[cur] /\ fromErr'[cur] = fromErr[cur]
             /\ fromRows'[cur] = fromRows[cur]
      BY <2>1, <2>2, <2>4, <3>1 DEF FromStep
    <3> QED
      BY <2>1, <3>2 DEF FromStep
  <2> QED
    BY <2>3, <2>4
<1>15. CASE UNCHANGED vars
  BY <1>15 DEF vars
<1> HIDE DEF AwaitInv
<1> QED
  BY <1>1, <1>2, <1>3, <1>4, <1>5, <1>6, <1>7, <1>8, <1>9, <1>10, <1>11, <1>12,
  <1>13, <1>14, <1>15 DEF Next, Worker, Stopped

\* Every step preserves RowsInv.
LEMMA RowsNext ==
    ASSUME CtlType, ErrType, RowType, WorkerInv, SidesInv, AwaitInv, RowsInv,
    [Next]_vars
    PROVE  RowsInv'
<1> USE DEF RowsOf, CtlType, ErrType, RowType, flags, workerVars, toVars, fromVars,
destVars
<1>1. CASE TakeTable
  <2> SUFFICES ASSUME NEW u \in Tables  PROVE RowsOf(u)'
    BY DEF RowsInv
  <2>1. RowsOf(u)
    BY DEF RowsInv
  <2> QED
    BY <1>1, <2>1 DEF TakeTable
<1>2. CASE ShouldSkipCopy
  <2> SUFFICES ASSUME NEW u \in Tables  PROVE RowsOf(u)'
    BY DEF RowsInv
  <2>1. RowsOf(u)
    BY DEF RowsInv
  <2> QED
    BY <1>2, <2>1 DEF ShouldSkipCopy
<1>3. CASE SetupSession
  <2> SUFFICES ASSUME NEW u \in Tables  PROVE RowsOf(u)'
    BY DEF RowsInv
  <2>1. RowsOf(u)
    BY DEF RowsInv
  <2> QED
    BY <1>3, <2>1 DEF SetupSession, WorkerGoto, WorkerFails
<1>4. CASE BeginTable
  <2> SUFFICES ASSUME NEW u \in Tables  PROVE RowsOf(u)'
    BY DEF RowsInv
  <2>1. RowsOf(u)
    BY DEF RowsInv
  <2> QED
    BY <1>4, <2>1 DEF BeginTable, WorkerFails
<1>5. CASE TruncateTable
  <2> SUFFICES ASSUME NEW u \in Tables  PROVE RowsOf(u)'
    BY DEF RowsInv
  <2>1. RowsOf(u)
    BY DEF RowsInv
  <2> QED
    BY <1>5, <2>1 DEF TruncateTable, WorkerGoto, WorkerFails
<1>6. CASE StartListener
  <2> SUFFICES ASSUME NEW u \in Tables  PROVE RowsOf(u)'
    BY DEF RowsInv
  <2>1. RowsOf(u)
    BY DEF RowsInv
  <2>2. fromPc[cur] = "off" /\ toPc[cur] = "off" /\ cur \in Tables
    BY <1>6 DEF StartListener, WorkerInv, SidesInv, SideOf, InExecute
  <2> QED
    BY SMTT(30), <1>6, <2>1, <2>2 DEF StartListener, FirstFromStep
<1>7. CASE WaitForHelperPorts
  <2> SUFFICES ASSUME NEW u \in Tables  PROVE RowsOf(u)'
    BY DEF RowsInv
  <2>1. RowsOf(u)
    BY DEF RowsInv
  <2>2. cur \in Tables /\ (push => toPc[cur] = "off") /\ (~push => fromPc[cur] = "off")
    BY <1>7 DEF WaitForHelperPorts, WorkerInv, AwaitInv
  <2>3. CASE UNCHANGED <<toPc, fromPc>>
    BY <1>7, <2>1, <2>3 DEF WaitForHelperPorts, HandleFailure, WorkerGoto
  <2>4. CASE WorkerGoto("dial")
    BY <1>7, <2>1, <2>2, <2>4 DEF WaitForHelperPorts, WorkerGoto, FirstFromStep
  <2> QED
    BY <1>7, <2>3, <2>4 DEF WaitForHelperPorts
<1>8. CASE Dial
  <2> SUFFICES ASSUME NEW u \in Tables  PROVE RowsOf(u)'
    BY DEF RowsInv
  <2>1. RowsOf(u)
    BY DEF RowsInv
  <2> QED
    BY <1>8, <2>1 DEF Dial, HandleFailure, WorkerGoto, ListenerErr, ListenerDone,
    DialerErr, DialerDone
<1>9. CASE AwaitListener
  <2> SUFFICES ASSUME NEW u \in Tables  PROVE RowsOf(u)'
    BY DEF RowsInv
  <2>1. RowsOf(u)
    BY DEF RowsInv
  <2> QED
    BY <1>9, <2>1 DEF AwaitListener, WorkerGoto, WorkerFails
<1>10. CASE CommitTable
  <2> SUFFICES ASSUME NEW u \in Tables  PROVE RowsOf(u)'
    BY DEF RowsInv
  <2>1. RowsOf(u)
    BY DEF RowsInv
  <2> QED
    BY <1>10, <2>1 DEF CommitTable, WorkerGoto, WorkerFails
<1>11. CASE RecordResult
  <2> SUFFICES ASSUME NEW u \in Tables  PROVE RowsOf(u)'
    BY DEF RowsInv
  <2>1. RowsOf(u)
    BY DEF RowsInv
  <2> QED
    BY <1>11, <2>1 DEF RecordResult
<1>12. CASE RollbackTable
  <2> SUFFICES ASSUME NEW u \in Tables  PROVE RowsOf(u)'
    BY DEF RowsInv
  <2>1. RowsOf(u)
    BY DEF RowsInv
  <2> QED
    BY <1>12, <2>1 DEF RollbackTable, WorkerGoto
<1>13. ASSUME NEW t \in Tables, CopyTo(t)  PROVE RowsInv'
  <2> SUFFICES ASSUME NEW u \in Tables  PROVE RowsOf(u)'
    BY DEF RowsInv
  <2>1. RowsOf(u)
    BY DEF RowsInv
  <2> QED
    BY SMTT(30), <1>13, <2>1 DEF CopyTo, EndCopyTo
<1>14. ASSUME NEW t \in Tables, CommitBeginCommit(t)  PROVE RowsInv'
  <2> SUFFICES ASSUME NEW u \in Tables  PROVE RowsOf(u)'
    BY DEF RowsInv
  <2>1. RowsOf(u)
    BY DEF RowsInv
  <2> QED
    BY <1>14, <2>1 DEF CommitBeginCommit, FromGoto, FromFails
<1>15. ASSUME NEW t \in Tables, CommitBeginBegin(t)  PROVE RowsInv'
  <2> SUFFICES ASSUME NEW u \in Tables  PROVE RowsOf(u)'
    BY DEF RowsInv
  <2>1. RowsOf(u)
    BY DEF RowsInv
  <2> QED
    BY <1>15, <2>1 DEF CommitBeginBegin, FromGoto, FromFails
<1>16. ASSUME NEW t \in Tables, CreateExternalTable(t)  PROVE RowsInv'
  <2> SUFFICES ASSUME NEW u \in Tables  PROVE RowsOf(u)'
    BY DEF RowsInv
  <2>1. RowsOf(u)
    BY DEF RowsInv
  <2> QED
    BY <1>16, <2>1 DEF CreateExternalTable, FromGoto, FromFails
<1>17. ASSUME NEW t \in Tables, StartLoad(t)  PROVE RowsInv'
  <2> SUFFICES ASSUME NEW u \in Tables  PROVE RowsOf(u)'
    BY DEF RowsInv
  <2>1. RowsOf(u)
    BY DEF RowsInv
  <2>2. fromPc[t] = "start" /\ UNCHANGED <<toPc, toErr, toRows, srcRows, strategy, fromRows>>
    BY <1>17 DEF StartLoad, FromGoto, FromFails
  <2>3. \/ fromPc' = [fromPc EXCEPT ![t] = "running"] /\ fromErr' = fromErr
        \/ /\ fromPc' = [fromPc EXCEPT ![t] = "done"]
           /\ fromErr' = [fromErr EXCEPT ![t] = TRUE]
    BY <1>17 DEF StartLoad, FromGoto, FromFails
  <2> QED
    BY SMTT(30), <2>1, <2>2, <2>3
<1>18. ASSUME NEW t \in Tables, Load(t)  PROVE RowsInv'
  <2> SUFFICES ASSUME NEW u \in Tables  PROVE RowsOf(u)'
    BY DEF RowsInv
  <2>1. RowsOf(u)
    BY DEF RowsInv
  <2> QED
    BY ZenonT(30), <1>18, <2>1 DEF Load, FromFails
<1>19. ASSUME NEW t \in Tables, DropExternalTable(t)  PROVE RowsInv'
  <2> SUFFICES ASSUME NEW u \in Tables  PROVE RowsOf(u)'
    BY DEF RowsInv
  <2>1. RowsOf(u)
    BY DEF RowsInv
  <2> QED
    BY <1>19, <2>1 DEF DropExternalTable, FromGoto, FromFails
<1>20. CASE UNCHANGED vars
  <2> SUFFICES ASSUME NEW u \in Tables  PROVE RowsOf(u)'
    BY DEF RowsInv
  <2>1. RowsOf(u)
    BY DEF RowsInv
  <2> QED
    BY <1>20, <2>1 DEF vars
<1> HIDE DEF RowsInv
<1> QED
  BY <1>1, <1>2, <1>3, <1>4, <1>5, <1>6, <1>7, <1>8, <1>9, <1>10, <1>11, <1>12,
  <1>13, <1>14, <1>15, <1>16, <1>17, <1>18, <1>19, <1>20 DEF Next, Worker,
  CopyFrom, Stopped

----------------------------------------------------------------------------
(* The work on the slot. *)

\* Every step preserves WorkInv.
LEMMA WorkNext ==
    ASSUME CtlType, ErrType, RowType, SlotType, WorkerInv, SidesInv, WorkInv,
    [Next]_vars
    PROVE  WorkInv'
<1> USE DEF WorkOf, InFlight, InExecute, WorkerInv, SlotType, CtlType, WorkerPcs,
TxStates, flags, workerVars, toVars, fromVars, destVars
<1>1. CASE TakeTable
  <2> SUFFICES ASSUME NEW u \in Tables  PROVE WorkOf(u)'
    BY DEF WorkInv
  <2>1. WorkOf(u)
    BY DEF WorkInv
  <2> QED
    BY <1>1, <2>1 DEF TakeTable
<1>2. CASE ShouldSkipCopy
  <2> SUFFICES ASSUME NEW u \in Tables  PROVE WorkOf(u)'
    BY DEF WorkInv
  <2>1. WorkOf(u)
    BY DEF WorkInv
  <2> QED
    BY <1>2, <2>1 DEF ShouldSkipCopy
<1>3. CASE SetupSession
  <2> SUFFICES ASSUME NEW u \in Tables  PROVE WorkOf(u)'
    BY DEF WorkInv
  <2>1. WorkOf(u)
    BY DEF WorkInv
  <2> QED
    BY <1>3, <2>1 DEF SetupSession, StatementOk, StatementFails, WorkerGoto,
    WorkerFails
<1>4. CASE BeginTable
  <2> SUFFICES ASSUME NEW u \in Tables  PROVE WorkOf(u)'
    BY DEF WorkInv
  <2>1. WorkOf(u)
    BY DEF WorkInv
  <2> QED
    BY <1>4, <2>1 DEF BeginTable, BeginOk, BeginFails, WorkerFails
<1>5. CASE TruncateTable
  <2> SUFFICES ASSUME NEW u \in Tables  PROVE WorkOf(u)'
    BY DEF WorkInv
  <2>1. WorkOf(u)
    BY DEF WorkInv
  <2> QED
    BY <1>5, <2>1 DEF TruncateTable, Apply, StatementFails, WorkerGoto, WorkerFails
<1>6. CASE StartListener
  <2> SUFFICES ASSUME NEW u \in Tables  PROVE WorkOf(u)'
    BY DEF WorkInv
  <2>1. WorkOf(u)
    BY DEF WorkInv
  <2> QED
    BY <1>6, <2>1 DEF StartListener, FirstFromStep
<1>7. CASE WaitForHelperPorts
  <2> SUFFICES ASSUME NEW u \in Tables  PROVE WorkOf(u)'
    BY DEF WorkInv
  <2>1. WorkOf(u)
    BY DEF WorkInv
  <2> QED
    BY <1>7, <2>1 DEF WaitForHelperPorts, HandleFailure, WorkerGoto, FirstFromStep,
    ListenerErr, ListenerDone
<1>8. CASE Dial
  <2> SUFFICES ASSUME NEW u \in Tables  PROVE WorkOf(u)'
    BY DEF WorkInv
  <2>1. WorkOf(u)
    BY DEF WorkInv
  <2> QED
    BY <1>8, <2>1 DEF Dial, HandleFailure, WorkerGoto, ListenerErr, ListenerDone,
    DialerErr, DialerDone
<1>9. CASE AwaitListener
  <2> SUFFICES ASSUME NEW u \in Tables  PROVE WorkOf(u)'
    BY DEF WorkInv
  <2>1. WorkOf(u)
    BY DEF WorkInv
  <2> QED
    BY <1>9, <2>1 DEF AwaitListener, WorkerGoto, WorkerFails
<1>10. CASE CommitTable
  <2> SUFFICES ASSUME NEW u \in Tables  PROVE WorkOf(u)'
    BY DEF WorkInv
  <2>1. WorkOf(u)
    BY DEF WorkInv
  <2> QED
    BY <1>10, <2>1 DEF CommitTable, CommitOk, CommitFails, WorkerGoto, WorkerFails
<1>11. CASE RecordResult
  <2> SUFFICES ASSUME NEW u \in Tables  PROVE WorkOf(u)'
    BY DEF WorkInv
  <2>1. WorkOf(u)
    BY DEF WorkInv
  <2> QED
    BY <1>11, <2>1 DEF RecordResult
<1>12. CASE RollbackTable
  <2> SUFFICES ASSUME NEW u \in Tables  PROVE WorkOf(u)'
    BY DEF WorkInv
  <2>1. WorkOf(u)
    BY DEF WorkInv
  <2> QED
    BY <1>12, <2>1 DEF RollbackTable, Rollback, WorkerGoto
<1>13. ASSUME NEW t \in Tables, CopyTo(t)  PROVE WorkInv'
  <2> SUFFICES ASSUME NEW u \in Tables  PROVE WorkOf(u)'
    BY DEF WorkInv
  <2>1. WorkOf(u)
    BY DEF WorkInv
  <2> QED
    BY <1>13, <2>1 DEF CopyTo, EndCopyTo
<1>14. ASSUME NEW t \in Tables, CommitBeginCommit(t)  PROVE WorkInv'
  <2> SUFFICES ASSUME NEW u \in Tables  PROVE WorkOf(u)'
    BY DEF WorkInv
  <2>1. WorkOf(u)
    BY DEF WorkInv
  <2> QED
    BY <1>14, <2>1 DEF CommitBeginCommit, CommitOk, CommitFails, FromGoto,
    FromFails
<1>15. ASSUME NEW t \in Tables, CommitBeginBegin(t)  PROVE WorkInv'
  <2> SUFFICES ASSUME NEW u \in Tables  PROVE WorkOf(u)'
    BY DEF WorkInv
  <2>1. WorkOf(u)
    BY DEF WorkInv
  <2> QED
    BY <1>15, <2>1 DEF CommitBeginBegin, BeginOk, BeginFails, FromGoto, FromFails
<1>16. ASSUME NEW t \in Tables, CreateExternalTable(t)  PROVE WorkInv'
  <2> SUFFICES ASSUME NEW u \in Tables  PROVE WorkOf(u)'
    BY DEF WorkInv
  <2>1. WorkOf(u)
    BY DEF WorkInv
  <2> QED
    BY <1>16, <2>1 DEF CreateExternalTable, StatementOk, StatementFails, FromGoto,
    FromFails
<1>17. ASSUME NEW t \in Tables, StartLoad(t)  PROVE WorkInv'
  <2> SUFFICES ASSUME NEW u \in Tables  PROVE WorkOf(u)'
    BY DEF WorkInv
  <2>1. WorkOf(u)
    BY DEF WorkInv
  <2> QED
    BY <1>17, <2>1 DEF StartLoad, FromGoto, FromFails
<1>18. ASSUME NEW t \in Tables, Load(t)  PROVE WorkInv'
  <2> SUFFICES ASSUME NEW u \in Tables  PROVE WorkOf(u)'
    BY DEF WorkInv
  <2>1. WorkOf(u)
    BY DEF WorkInv
  <2>2. /\ t = cur /\ worker \in {"ports", "dial", "await", "record", "rollback"}
        /\ worker = "record" => failed /\ inTxn
    BY <1>18 DEF Load, SidesInv, SideOf
  <2>3. u # t => work'[u] = work[u] /\ dest'[u] = dest[u]
    BY <1>18 DEF Load, Apply, StatementFails
  <2> QED
    BY <1>18, <2>1, <2>2, <2>3 DEF Load
<1>19. ASSUME NEW t \in Tables, DropExternalTable(t)  PROVE WorkInv'
  <2> SUFFICES ASSUME NEW u \in Tables  PROVE WorkOf(u)'
    BY DEF WorkInv
  <2>1. WorkOf(u)
    BY DEF WorkInv
  <2> QED
    BY <1>19, <2>1 DEF DropExternalTable, StatementOk, StatementFails, FromGoto,
    FromFails
<1>20. CASE UNCHANGED vars
  <2> SUFFICES ASSUME NEW u \in Tables  PROVE WorkOf(u)'
    BY DEF WorkInv
  <2>1. WorkOf(u)
    BY DEF WorkInv
  <2> QED
    BY <1>20, <2>1 DEF vars
<1> HIDE DEF WorkInv
<1> QED
  BY <1>1, <1>2, <1>3, <1>4, <1>5, <1>6, <1>7, <1>8, <1>9, <1>10, <1>11, <1>12,
  <1>13, <1>14, <1>15, <1>16, <1>17, <1>18, <1>19, <1>20 DEF Next, Worker,
  CopyFrom, Stopped

\* The inductive invariant of the control state and of the work on the slot.
SlotInv ==
    /\ CtlType /\ ErrType /\ RowType /\ SlotType
    /\ WorkerInv /\ SidesInv /\ AwaitInv /\ RowsInv /\ WorkInv

\* It holds at first.
LEMMA SlotInit == Init => SlotInv
<1> SUFFICES ASSUME Init  PROVE SlotInv
  OBVIOUS
<1>1. CtlType
  BY DEF Init, CtlType, WorkerPcs, FromPcs, Strategies
<1>2. ErrType
  BY DEF Init, ErrType
<1>3. RowType
  BY DEF Init, RowType
<1>4. Before \in Contents
  BY DEF Before, Contents
<1>5. SlotType
  BY <1>4 DEF Init, SlotType, TxStates
<1>6. WorkerInv
  BY DEF Init, WorkerInv, InExecute
<1>7. SidesInv
  BY DEF Init, SidesInv, SideOf, Left, Active, InExecute
<1>8. AwaitInv
  BY DEF Init, AwaitInv
<1>9. RowsInv
  BY DEF Init, RowsInv, RowsOf
<1>10. WorkInv
  BY DEF Init, WorkInv, WorkOf, InFlight, InExecute
<1> QED
  BY <1>1, <1>2, <1>3, <1>5, <1>6, <1>7, <1>8, <1>9, <1>10 DEF SlotInv

\* Every step preserves it.
LEMMA SlotNext == SlotInv /\ [Next]_vars => SlotInv'
BY CtlTypeNext, ErrTypeNext, RowTypeNext, SlotTypeNext, WorkerNext, SidesNext,
   AwaitNext, RowsNext, WorkNext DEF SlotInv

\* It holds throughout.
LEMMA SlotAlways == Spec => []SlotInv
BY SlotInit, SlotNext, PTL DEF Spec

\* TableCopier.Copy, CopyOperation.Execute and dbconn keep the types of their
\* state, and a connection whose Tx is nil has no uncommitted work.
THEOREM TypeOKHolds == Spec => []TypeOK
<1>1. SlotInv => TypeOK
  BY TypeParts DEF SlotInv
<1> QED
  BY <1>1, SlotAlways, PTL

\* Whoever leaves an operation behind with a side still at work has cancelled its
\* context (CopyOperation.handleFailure), whatever the tables, the strategies and
\* the order in which the sides fail.
THEOREM OnlyCancelledLeftBehindHolds == Spec => []OnlyCancelledLeftBehind
<1>1. SlotInv => OnlyCancelledLeftBehind
  BY DEF SlotInv, SidesInv, SideOf, Left, Active, OnlyCancelledLeftBehind
<1> QED
  BY <1>1, SlotAlways, PTL

\* No step changes a table the worker has left.
LEMMA LeftAlone ==
    ASSUME SlotInv, [Next]_vars, NEW t \in Tables, result[t] # "none",
           ~(worker = "rollback" /\ cur = t)
    PROVE  dest'[t] = dest[t]
<1> USE DEF flags, workerVars, toVars, fromVars, destVars
<1>1. work[t] = dest[t]
  BY DEF SlotInv, WorkerInv, WorkInv, WorkOf, InFlight, InExecute
<1>2. CASE UNCHANGED dest
  BY <1>2
<1>3. CASE TruncateTable
  <2>1. t # cur
    BY <1>3 DEF TruncateTable, SlotInv, WorkerInv
  <2> QED
    BY <1>3, <2>1 DEF TruncateTable, Apply, StatementFails, SlotInv, SlotType
<1>4. CASE CommitTable
  BY <1>1, <1>4 DEF CommitTable, CommitOk, CommitFails
<1>5. ASSUME NEW u \in Tables, CommitBeginCommit(u)  PROVE dest'[t] = dest[t]
  BY <1>1, <1>5 DEF CommitBeginCommit, CommitOk, CommitFails
<1>6. ASSUME NEW u \in Tables, Load(u)  PROVE dest'[t] = dest[t]
  <2>1. u # t
    BY <1>6 DEF Load, SlotInv, WorkerInv, SidesInv, SideOf
  <2> QED
    BY <1>6, <2>1 DEF Load, Apply, StatementFails, SlotInv, SlotType
<1>7. Worker => UNCHANGED dest \/ TruncateTable \/ CommitTable
  BY DEF Worker, TakeTable, ShouldSkipCopy, SetupSession, BeginTable, StartListener,
         WaitForHelperPorts, Dial, AwaitListener, RecordResult, RollbackTable,
         StatementOk, StatementFails, BeginOk, BeginFails, Rollback
<1>8. ASSUME NEW u \in Tables, CopyTo(u) \/ CopyFrom(u)
      PROVE  UNCHANGED dest \/ CommitBeginCommit(u) \/ Load(u)
  BY <1>8 DEF CopyTo, CopyFrom, CommitBeginBegin, CreateExternalTable, StartLoad,
              DropExternalTable, StatementOk, StatementFails, BeginOk, BeginFails
<1> QED
  BY <1>2, <1>3, <1>4, <1>5, <1>6, <1>7, <1>8 DEF Next, Stopped, vars

\* Neither the goroutine of an abandoned operation nor the commit or rollback of a
\* later table's transaction changes a table that TableCopier has left, although
\* they all share one connection and its transaction.
THEOREM NoLateWritesHolds == Spec => NoLateWrites
<1>1. SlotInv /\ [Next]_vars =>
        [\A t \in Tables : result[t] # "none" /\ ~(worker = "rollback" /\ cur = t)
            => dest'[t] = dest[t]]_vars
  BY LeftAlone
<1> QED
  BY <1>1, SlotAlways, PTL DEF Spec, NoLateWrites

----------------------------------------------------------------------------
(* The transaction of the table in flight. *)

\* An operation that was cancelled stays cancelled and keeps its strategy.
LEMMA StragglersStay == SlotInv /\ [Next]_vars => Stragglers \subseteq Stragglers'
<1> SUFFICES ASSUME SlotInv, [Next]_vars
             PROVE  Stragglers \subseteq Stragglers'
  OBVIOUS
<1> USE DEF flags, workerVars
<1>1. push' = push /\ cancelled \subseteq cancelled'
  BY DEF Next, vars, Stopped, Worker, TakeTable, ShouldSkipCopy, SetupSession, BeginTable,
         TruncateTable, StartListener, WaitForHelperPorts, Dial, AwaitListener,
         CommitTable, RecordResult, RollbackTable, CopyTo, CopyFrom, CommitBeginCommit,
         CommitBeginBegin, CreateExternalTable, StartLoad, Load, DropExternalTable,
         WorkerGoto, WorkerFails, HandleFailure
<1>2. strategy' = strategy \/ StartListener
  BY DEF Next, vars, Stopped, Worker, TakeTable, ShouldSkipCopy, SetupSession, BeginTable,
         TruncateTable, WaitForHelperPorts, Dial, AwaitListener,
         CommitTable, RecordResult, RollbackTable, CopyTo, CopyFrom, CommitBeginCommit,
         CommitBeginBegin, CreateExternalTable, StartLoad, Load, DropExternalTable,
         WorkerGoto, WorkerFails, HandleFailure
<1>3. \A u \in cancelled : strategy'[u] = strategy[u]
  <2>1. CASE StartListener
    <3>1. cur \notin cancelled
      BY <2>1 DEF StartListener, SlotInv, WorkerInv, SidesInv, SideOf, Left
    <3> QED
      BY <2>1, <3>1 DEF StartListener, SlotInv, CtlType
  <2> QED
    BY <1>2, <2>1
<1> QED
  BY <1>1, <1>3 DEF Stragglers

\* Whoever else may still commit or begin on the slot is a straggler.
LEMMA OthersAreStragglers ==
    ASSUME SlotInv, NEW u \in Tables, u # cur, MayBegin(u)
    PROVE  u \in Stragglers
<1>1. SideOf(u) /\ RowsOf(u)
  BY DEF SlotInv, SidesInv, RowsInv
<1>2. push /\ u \in cancelled
  BY <1>1 DEF SideOf, Left, Active, MayBegin
<1>3. strategy[u] = "ext"
  BY <1>1 DEF RowsOf, MayBegin
<1> QED
  BY <1>2, <1>3 DEF Stragglers

\* One straggler that ends leaves nobody who may begin.
LEMMA LastStraggler ==
    ASSUME SlotInv, ~Crowded, NEW t \in Tables, t # cur, MayBegin(t),
           NEW u \in Tables, u # cur, u # t
    PROVE  ~MayBegin(u)
BY OthersAreStragglers DEF Crowded

\* The worker's own steps up to the COMMIT, and CopyTo, keep it.
LEMMA KeepWorker ==
    ASSUME SlotInv, Keep, Worker \/ \E t \in Tables : CopyTo(t)
    PROVE  Keep'
<1> USE DEF flags, workerVars, toVars, fromVars, destVars
<1>1. CASE worker' \notin {"start"} \cup InExecute
  BY <1>1 DEF Keep
<1>2. CASE BeginTable /\ worker' = "start"
  <2>1. cur \in Tables /\ result[cur] = "none" /\ worker = "begin" /\ ~truncate
    BY <1>2 DEF BeginTable, SlotInv, WorkerInv, WorkerFails
  <2>2. work[cur] = Before
    BY <2>1 DEF SlotInv, WorkInv, WorkOf, InFlight, InExecute
  <2>3. fromRows[cur] = 0 /\ fromPc[cur] = "off"
    BY <2>1 DEF SlotInv, SidesInv, SideOf, RowsInv, RowsOf, InExecute
  <2>4. UNCHANGED <<work, cur, fromRows, truncate>>
    BY <1>2 DEF BeginTable, BeginOk, BeginFails, WorkerFails
  <2>5. Loaded(cur) = Before
    BY <2>1, <2>3 DEF Loaded, Before
  <2>6. work'[cur'] = Loaded(cur)'
    BY <2>2, <2>4, <2>5 DEF Loaded
  <2> QED
    BY <1>2, <2>6 DEF Keep, InExecute
<1>3. CASE TruncateTable /\ worker' = "start"
  <2>1. cur \in Tables /\ result[cur] = "none" /\ worker = "truncate" /\ truncate
    BY <1>3 DEF TruncateTable, SlotInv, WorkerInv
  <2>2. fromRows[cur] = 0
    BY <2>1 DEF SlotInv, SidesInv, SideOf, RowsInv, RowsOf, InExecute
  <2>3. Apply(cur, [old |-> FALSE, new |-> 0]) /\ UNCHANGED <<cur, fromRows, truncate>>
    BY <1>3 DEF TruncateTable, WorkerGoto, WorkerFails
  <2>4. work'[cur] = [old |-> FALSE, new |-> 0]
    BY <2>1, <2>3 DEF Apply, SlotInv, SlotType
  <2>5. Loaded(cur) = [old |-> FALSE, new |-> 0]
    BY <2>1, <2>2 DEF Loaded
  <2>6. work'[cur'] = Loaded(cur)'
    BY <2>3, <2>4, <2>5 DEF Loaded
  <2> QED
    BY <1>3, <2>6 DEF Keep, InExecute
<1>4. CASE /\ worker \in {"start"} \cup InExecute
           /\ UNCHANGED <<cur, truncate, tx, work, dest, fromRows, fromErr>>
           /\ \A u \in Tables : u # cur => fromPc'[u] = fromPc[u]
           /\ fromPc'[cur] = fromPc[cur] \/ fromPc'[cur] \in {"commit1", "start"}
           /\ worker = "start" => fromPc[cur] = "off"
  <2>1. Loaded(cur)' = Loaded(cur)
    BY <1>4 DEF Loaded
  <2>2. TakenAway => TakenAway'
    BY <1>4 DEF TakenAway, MayBegin
  <2> QED
    BY <1>4, <2>1, <2>2 DEF Keep, InExecute
<1>5. CASE StartListener
  <2>1. cur \in Tables /\ result[cur] = "none" /\ worker = "start"
    BY <1>5 DEF StartListener, SlotInv, WorkerInv
  <2>2. fromPc[cur] = "off"
    BY <2>1 DEF SlotInv, SidesInv, SideOf, InExecute
  <2> QED
    BY <1>4, <1>5, <2>1, <2>2 DEF StartListener, FirstFromStep, SlotInv, CtlType
<1>6. CASE WaitForHelperPorts /\ WorkerGoto("dial")
  <2>1. cur \in Tables
    BY <1>6 DEF WaitForHelperPorts, SlotInv, WorkerInv
  <2> QED
    BY <1>4, <1>6, <2>1 DEF WaitForHelperPorts, WorkerGoto, FirstFromStep, SlotInv, CtlType,
                            InExecute
<1>7. CASE Dial \/ AwaitListener \/ \E t \in Tables : CopyTo(t)
  <2>1. CASE worker' \in {"start"} \cup InExecute
    <3>1. worker \in {"start"} \cup InExecute
      BY <1>7, <2>1 DEF Dial, AwaitListener, CopyTo, InExecute
    <3>2. UNCHANGED <<cur, truncate, tx, work, dest, fromRows, fromErr, fromPc>>
      BY <1>7 DEF Dial, AwaitListener, CopyTo, HandleFailure, WorkerGoto, WorkerFails
    <3>3. worker = "start" => fromPc[cur] = "off"
      BY DEF SlotInv, WorkerInv, SidesInv, SideOf, InExecute
    <3> QED
      BY <1>4, <3>1, <3>2, <3>3
  <2> QED
    BY <1>1, <2>1
<1>8. CASE TakeTable \/ ShouldSkipCopy \/ SetupSession \/ CommitTable \/ RecordResult
           \/ RollbackTable
  BY <1>1, <1>8 DEF TakeTable, ShouldSkipCopy, SetupSession, CommitTable, RecordResult,
                    RollbackTable, WorkerGoto, WorkerFails, InExecute
<1>9. CASE BeginTable
  BY <1>1, <1>2, <1>9 DEF BeginTable, WorkerFails, InExecute
<1>10. CASE TruncateTable
  BY <1>1, <1>3, <1>10 DEF TruncateTable, WorkerGoto, WorkerFails, InExecute
<1>11. CASE WaitForHelperPorts
  BY <1>1, <1>6, <1>11 DEF WaitForHelperPorts, HandleFailure, InExecute
<1> QED
  BY <1>5, <1>7, <1>8, <1>9, <1>10, <1>11 DEF Worker

\* A step of an abandoned operation keeps it: a COMMIT that fails may take the
\* transaction away, but then no other straggler is there to begin a new one.
LEMMA KeepOther ==
    ASSUME SlotInv, ~Crowded, Keep, NEW t \in Tables, CopyFrom(t), t # cur,
           worker \in {"start"} \cup InExecute
    PROVE  Keep'
<1> USE DEF flags, workerVars, toVars, destVars
<1>1. FromStep(t)
  BY FromSteps DEF SlotInv
<1>2. /\ cur \in Tables /\ UNCHANGED <<worker, cur>>
      /\ fromPc'[cur] = fromPc[cur] /\ fromErr'[cur] = fromErr[cur]
      /\ \A u \in Tables : u # t => fromPc'[u] = fromPc[u]
  BY <1>1 DEF FromStep, SlotInv, CtlType, WorkerInv, InExecute
<1>3. Loaded(cur)' = Loaded(cur)
  BY <1>1, <1>2 DEF FromStep, Loaded
<1>4. worker = "start" => fromPc[cur] = "off"
  BY <1>2 DEF SlotInv, WorkerInv, SidesInv, SideOf, InExecute
<1>5. CASE CommitBeginCommit(t)
  <2>1. MayBegin(t)
    BY <1>5 DEF CommitBeginCommit, MayBegin
  <2>2. CASE tx = "open" /\ dest' = work /\ work' = work
    <3>1. ~TakenAway
      BY <2>2 DEF TakenAway
    <3> QED
      BY <1>2, <1>3, <2>2, <3>1 DEF Keep
  <2>3. CASE CommitFails /\ FromFails(t) /\ work' = dest /\ dest' = dest
    <3>1. CASE worker \in InExecute /\ fromPc[cur] \in {"begin1", "create", "commit2", "begin2"}
      BY <1>2, <1>3, <2>3, <3>1 DEF Keep
    <3>2. CASE ~(worker \in InExecute /\ fromPc[cur] \in {"begin1", "create", "commit2", "begin2"})
      <4>1. fromPc'[t] = "done"
        BY <2>3 DEF FromFails, SlotInv, CtlType
      <4>2. \A u \in Tables : u # cur => ~MayBegin(u)'
        BY <1>2, <2>1, <4>1, LastStraggler DEF MayBegin
      <4>3. fromPc'[cur] \notin {"begin1", "begin2"}
        BY <1>2, <1>4, <3>2
      <4>4. TakenAway'
        BY <1>2, <2>3, <4>2, <4>3 DEF TakenAway, CommitFails
      <4> QED
        BY <1>2, <3>2, <4>4 DEF Keep
    <3> QED
      BY <3>1, <3>2
  <2> QED
    BY <1>5, <2>2, <2>3 DEF CommitBeginCommit, CommitOk, CommitFails
<1>6. CASE CommitBeginBegin(t) \/ CreateExternalTable(t)
  <2>1. MayBegin(t)
    BY <1>6 DEF CommitBeginBegin, CreateExternalTable, MayBegin
  <2>2. ~TakenAway
    BY <2>1 DEF TakenAway
  <2>3. UNCHANGED <<work, dest>>
    BY <1>6 DEF CommitBeginBegin, CreateExternalTable, BeginOk, BeginFails, StatementOk,
                StatementFails
  <2> QED
    BY <1>2, <1>3, <2>2, <2>3 DEF Keep
<1>7. CASE StartLoad(t) \/ DropExternalTable(t)
  <2>1. UNCHANGED <<work, dest>> /\ (tx = "none" => tx' = "none")
    BY <1>7 DEF StartLoad, DropExternalTable, StatementOk, StatementFails
  <2>2. fromPc'[t] \in {"running", "done"}
    BY <1>7 DEF StartLoad, DropExternalTable, FromGoto, FromFails, SlotInv, CtlType
  <2>3. TakenAway => TakenAway'
    BY <1>2, <2>1, <2>2 DEF TakenAway, MayBegin
  <2> QED
    BY <1>2, <1>3, <2>1, <2>3 DEF Keep
<1>8. ~Load(t)
  BY DEF Load, SlotInv, SidesInv, SideOf
<1> QED
  BY <1>5, <1>6, <1>7, <1>8 DEF CopyFrom

\* A step of the table's own CopyFrom keeps it.
LEMMA KeepOwn ==
    ASSUME SlotInv, Keep, cur \in Tables, CopyFrom(cur), worker \in {"start"} \cup InExecute
    PROVE  Keep'
<1> USE DEF flags, workerVars, toVars, destVars
<1>1. FromStep(cur)
  BY FromSteps DEF SlotInv
<1>2. /\ UNCHANGED <<worker, cur, truncate>> /\ fromPc[cur] \notin {"off", "done"}
      /\ \A u \in Tables : u # cur => fromPc'[u] = fromPc[u]
  BY <1>1 DEF FromStep, SlotInv, CtlType
<1>3. worker \in InExecute
  BY <1>2 DEF SlotInv, WorkerInv, SidesInv, SideOf, InExecute
<1>4. ~fromErr[cur]
  BY <1>2 DEF SlotInv, RowsInv, RowsOf
<1>5. CASE FromFails(cur)
  <2>1. fromErr'[cur] /\ fromPc'[cur] = "done"
    BY <1>5 DEF FromFails, SlotInv, CtlType, ErrType
  <2> QED
    BY <1>2, <2>1 DEF Keep
<1>6. ASSUME fromRows' = fromRows
      PROVE  Loaded(cur)' = Loaded(cur)
  BY <1>2, <1>6 DEF Loaded
<1>7. CASE CommitBeginCommit(cur)
  <2>1. CASE CommitOk /\ FromGoto(cur, IF fromPc[cur] = "commit1" THEN "begin1" ELSE "begin2")
    <3>1. ~TakenAway
      BY <2>1 DEF TakenAway, CommitOk
    <3>2. work[cur] = Loaded(cur)
      BY <1>3, <1>4, <3>1 DEF Keep
    <3>3. work'[cur] = Loaded(cur)' /\ dest'[cur] = Loaded(cur)'
      BY <1>6, <2>1, <3>2 DEF CommitOk, FromGoto
    <3> QED
      BY <1>2, <3>3 DEF Keep
  <2> QED
    BY <1>5, <1>7, <2>1 DEF CommitBeginCommit
<1>8. CASE CommitBeginBegin(cur) \/ CreateExternalTable(cur)
  <2>1. CASE FromFails(cur)
    BY <1>5, <2>1
  <2>2. CASE fromRows' = fromRows
    <3>1. work[cur] = Loaded(cur) /\ dest[cur] = Loaded(cur)
      BY <1>3, <1>8 DEF CommitBeginBegin, CreateExternalTable, Keep
    <3>2. UNCHANGED <<work, dest>>
      BY <1>8 DEF CommitBeginBegin, CreateExternalTable, BeginOk, BeginFails,
                  StatementOk, StatementFails
    <3> QED
      BY <1>2, <1>6, <2>2, <3>1, <3>2 DEF Keep
  <2> QED
    BY <1>8, <2>1, <2>2 DEF CommitBeginBegin, CreateExternalTable, FromGoto
<1>9. CASE StartLoad(cur) \/ DropExternalTable(cur)
  <2>1. CASE FromFails(cur)
    BY <1>5, <2>1
  <2>2. CASE FromGoto(cur, "running") \/ FromGoto(cur, "done")
    <3>1. UNCHANGED <<work, dest>> /\ (tx = "none" => tx' = "none")
      BY <1>9 DEF StartLoad, DropExternalTable, StatementOk, StatementFails
    <3>2. fromPc'[cur] \in {"running", "done"} /\ UNCHANGED <<fromRows, fromErr>>
      BY <2>2 DEF FromGoto, SlotInv, CtlType
    <3>3. TakenAway => TakenAway'
      BY <1>2, <3>1, <3>2 DEF TakenAway, MayBegin
    <3> QED
      BY <1>2, <1>4, <1>6, <3>1, <3>2, <3>3, <1>3 DEF Keep
  <2> QED
    BY <1>9, <2>1, <2>2 DEF StartLoad, DropExternalTable
<1>10. CASE Load(cur)
  <2>1. CASE FromFails(cur)
    BY <1>5, <2>1
  <2>2. ASSUME NEW n \in 0 .. (IF toPc[cur] = "off" THEN 0 ELSE srcRows[cur]),
               Apply(cur, [work[cur] EXCEPT !.new = @ + n]),
               fromRows' = [fromRows EXCEPT ![cur] = n],
               fromPc' = [fromPc EXCEPT ![cur] = IF strategy[cur] = "ext" THEN "drop" ELSE "done"],
               UNCHANGED fromErr
        PROVE  Keep'
    <3>1. fromPc'[cur] \in {"drop", "done"} /\ fromRows'[cur] = n
      BY <2>2 DEF SlotInv, CtlType, RowType
    <3>2. CASE work[cur] = Loaded(cur)
      <4>1. n \in Nat
        BY SMTT(30), CopyAssumption DEF SlotInv, RowType
      <4>2. fromRows[cur] = 0
        BY <1>10 DEF Load, SlotInv, RowsInv, RowsOf
      <4>3. work[cur] = [old |-> ~truncate, new |-> 0]
        BY <3>2, <4>2 DEF Loaded
      <4>4. [work[cur] EXCEPT !.new = @ + n] = [old |-> ~truncate, new |-> n]
        BY SMTT(30), <4>1, <4>3
      <4>5. work'[cur] = [old |-> ~truncate, new |-> n]
        BY <2>2, <4>4 DEF Apply, SlotInv, SlotType
      <4>6. work'[cur'] = Loaded(cur)'
        BY <1>2, <3>1, <4>5 DEF Loaded
      <4> QED
        BY <1>2, <3>1, <4>6 DEF Keep
    <3>3. CASE TakenAway
      <4>1. TakenAway'
        BY <1>2, <2>2, <3>1, <3>3 DEF TakenAway, MayBegin, Apply
      <4> QED
        BY <1>2, <3>1, <4>1 DEF Keep
    <3> QED
      BY <1>3, <1>4, <3>2, <3>3 DEF Keep
  <2> QED
    BY <1>10, <2>1, <2>2 DEF Load
<1> QED
  BY <1>7, <1>8, <1>9, <1>10 DEF CopyFrom

\* Every step preserves KeepInv.
LEMMA KeepNext == SlotInv /\ KeepInv /\ [Next]_vars => KeepInv'
<1> SUFFICES ASSUME SlotInv, KeepInv, [Next]_vars, ~Crowded'
             PROVE  Keep'
  BY DEF KeepInv
<1>1. ~Crowded
  BY StragglersStay DEF Crowded
<1>2. Keep
  BY <1>1 DEF KeepInv
<1>3. CASE Worker \/ \E t \in Tables : CopyTo(t)
  BY <1>2, <1>3, KeepWorker
<1>4. ASSUME NEW t \in Tables, CopyFrom(t)  PROVE Keep'
  <2>1. UNCHANGED worker
    BY <1>4, FromSteps DEF SlotInv, FromStep, workerVars
  <2>2. CASE worker \notin {"start"} \cup InExecute
    BY <2>1, <2>2 DEF Keep
  <2>3. CASE worker \in {"start"} \cup InExecute /\ t = cur
    BY <1>2, <1>4, <2>3, KeepOwn
  <2>4. CASE worker \in {"start"} \cup InExecute /\ t # cur
    BY <1>1, <1>2, <1>4, <2>4, KeepOther
  <2> QED
    BY <2>2, <2>3, <2>4
<1>5. CASE UNCHANGED vars
  BY <1>2, <1>5 DEF vars, flags, workerVars, toVars, fromVars, destVars, Keep, TakenAway, MayBegin,
                    Loaded
<1> QED
  BY <1>3, <1>4, <1>5 DEF Next, Stopped

----------------------------------------------------------------------------
(* What the result files say. *)

\* A table that is about to be recorded as copied is not changed any more.
LEMMA RecordAlone ==
    ASSUME SlotInv, worker = "record", ~failed, NEW t \in Tables, CopyFrom(t)
    PROVE  dest'[cur] = dest[cur]
<1>1. cur \in Tables /\ SideOf(cur) /\ WorkOf(cur)
  BY DEF SlotInv, WorkerInv, SidesInv, WorkInv
<1>2. work[cur] = dest[cur] /\ fromPc[cur] # "running"
  BY <1>1 DEF WorkOf, SideOf
<1>3. CASE CommitBeginCommit(t)
  BY <1>2, <1>3 DEF CommitBeginCommit, CommitOk, CommitFails
<1>4. ~Load(t)
  BY <1>2 DEF Load, SlotInv, SidesInv, SideOf
<1> QED
  BY <1>3, <1>4 DEF CopyFrom, CommitBeginBegin, CreateExternalTable, StartLoad, DropExternalTable,
                    StatementOk, StatementFails, BeginOk, BeginFails, destVars

\* The COMMIT of a validated table makes all of its rows visible.
LEMMA CommitCompletes ==
    ASSUME SlotInv, Keep, CommitTable, ~failed', validate
    PROVE  dest'[cur] = After(cur)
<1>1. worker = "commit" /\ cur \in Tables
  BY DEF CommitTable, SlotInv, WorkerInv
<1>2. CommitOk
  BY DEF CommitTable, WorkerFails
<1>3. /\ toPc[cur] = "done" /\ ~toErr[cur] /\ ~fromErr[cur]
      /\ fromRows[cur] = toRows[cur]
  BY <1>1 DEF SlotInv, AwaitInv, ListenerDone, ListenerErr, DialerDone, DialerErr, RowCountsAgree
<1>4. toRows[cur] = srcRows[cur]
  BY <1>1, <1>3 DEF SlotInv, RowsInv, RowsOf
<1>5. work[cur] = Loaded(cur)
  BY <1>1, <1>2, <1>3 DEF Keep, InExecute, TakenAway, CommitOk
<1> QED
  BY <1>2, <1>3, <1>4, <1>5 DEF CommitOk, Loaded, After

\* Every step preserves SuccInv.
LEMMA SuccNext == SlotInv /\ KeepInv /\ SuccInv /\ [Next]_vars => SuccInv'
<1> SUFFICES ASSUME SlotInv, KeepInv, SuccInv, [Next]_vars, ~Crowded'
             PROVE  Succ'
  BY DEF SuccInv
<1> USE DEF flags, workerVars, toVars, fromVars
<1>1. Keep /\ Succ
  BY StragglersStay DEF Crowded, KeepInv, SuccInv
<1>2. UNCHANGED <<truncate, validate, srcRows>>
  BY DEF Next, vars, Stopped, Worker, TakeTable, ShouldSkipCopy, SetupSession, BeginTable,
         TruncateTable, StartListener, WaitForHelperPorts, Dial, AwaitListener,
         CommitTable, RecordResult, RollbackTable, CopyTo, CopyFrom, CommitBeginCommit,
         CommitBeginBegin, CreateExternalTable, StartLoad, Load, DropExternalTable
<1>3. \A t \in Tables : After(t)' = After(t)
  BY <1>2 DEF After
<1>4. \A t \in Tables : result[t] = "succeeded" => dest'[t] = dest[t]
  BY LeftAlone DEF SlotInv, WorkerInv
<1>5. CASE worker = "record" /\ UNCHANGED <<worker, cur, failed, skipped, result>>
  <2>1. cur \in Tables
    BY <1>5 DEF SlotInv, WorkerInv
  <2>2. CASE ~failed
    <3>1. dest'[cur] = dest[cur]
      BY <1>5, <2>2, RecordAlone
         DEF Next, vars, Stopped, Worker, TakeTable, ShouldSkipCopy, SetupSession, BeginTable,
             TruncateTable, StartListener, WaitForHelperPorts, Dial, AwaitListener,
             CommitTable, RecordResult, RollbackTable, CopyTo, destVars
    <3> QED
      BY <1>1, <1>2, <1>3, <1>4, <1>5, <2>1, <3>1 DEF Succ
  <2> QED
    BY <1>1, <1>2, <1>3, <1>4, <1>5, <2>2 DEF Succ
<1>6. CASE RecordResult
  <2>1. cur \in Tables /\ worker' # "record" /\ dest' = dest
    BY <1>6 DEF RecordResult, SlotInv, WorkerInv, destVars
  <2>2. \A t \in Tables : t # cur => result'[t] = result[t]
    BY <1>6 DEF RecordResult, SlotInv, CtlType
  <2>3. validate /\ result'[cur] = "succeeded" => dest[cur] = After(cur)
    BY <1>1, <1>6, <2>1 DEF RecordResult, SlotInv, CtlType, Succ
  <2> QED
    BY <1>1, <1>2, <1>3, <2>1, <2>2, <2>3 DEF Succ
<1>7. CASE CommitTable
  <2>1. cur \in Tables /\ UNCHANGED <<cur, result>>
    BY <1>7 DEF CommitTable, WorkerGoto, WorkerFails, SlotInv, WorkerInv
  <2>2. ~failed' /\ validate => dest'[cur] = After(cur)
    BY <1>1, <1>7, CommitCompletes
  <2> QED
    BY <1>1, <1>2, <1>3, <1>4, <2>1, <2>2 DEF Succ
<1>8. CASE UNCHANGED result /\ (worker' = "record" => failed' \/ skipped')
  BY <1>1, <1>2, <1>3, <1>4, <1>8 DEF Succ
<1>9. CASE TakeTable \/ ShouldSkipCopy \/ SetupSession \/ BeginTable \/ TruncateTable
           \/ StartListener \/ WaitForHelperPorts \/ Dial \/ AwaitListener \/ RollbackTable
  BY <1>8, <1>9 DEF TakeTable, ShouldSkipCopy, SetupSession, BeginTable, TruncateTable, StartListener,
                    WaitForHelperPorts, Dial, AwaitListener, RollbackTable, WorkerGoto, WorkerFails,
                    HandleFailure
<1>10. CASE UNCHANGED workerVars
  BY <1>5, <1>8, <1>10
<1>11. ASSUME NEW t \in Tables, CopyTo(t) \/ CopyFrom(t)  PROVE UNCHANGED workerVars
  BY <1>11, FromSteps DEF CopyTo, FromStep, SlotInv
<1> QED
  BY <1>6, <1>7, <1>9, <1>10, <1>11 DEF Next, Worker, Stopped, vars

\* Kept depends on nothing that changes once the table's CopyFrom is done.
LEMMA KeptStays ==
    ASSUME NEW t \in Tables, Kept(t), dest'[t] = dest[t], truncate' = truncate,
           fromPc[t] = "done" =>
              /\ fromPc'[t] = "done" /\ fromErr'[t] = fromErr[t]
              /\ fromRows'[t] = fromRows[t]
    PROVE  Kept(t)'
BY DEF Kept, Loaded

\* A step of the worker preserves what is known of failed tables.
LEMMA FailWorker ==
    ASSUME SlotInv, Keep, Intact, Failing, Failed, Worker
    PROVE  Intact' /\ Failing' /\ Failed'
<1> USE DEF flags, workerVars, toVars, fromVars, destVars
<1>1. truncate' = truncate /\ fromErr' = fromErr /\ fromRows' = fromRows
  BY DEF Worker, TakeTable, ShouldSkipCopy, SetupSession, BeginTable, TruncateTable, StartListener,
         WaitForHelperPorts, Dial, AwaitListener, CommitTable, RecordResult, RollbackTable
<1>2. \A t \in Tables : result[t] # "none" => fromPc'[t] = fromPc[t] /\ strategy'[t] = strategy[t]
  <2>1. CASE worker \in {"start", "ports"}
    <3>1. cur \in Tables /\ result[cur] = "none"
      BY <2>1 DEF SlotInv, WorkerInv
    <3> QED
      BY <2>1, <3>1 DEF Worker, TakeTable, ShouldSkipCopy, SetupSession, BeginTable, TruncateTable,
                        StartListener, WaitForHelperPorts, Dial, AwaitListener, CommitTable,
                        RecordResult, RollbackTable, WorkerGoto, HandleFailure, SlotInv, CtlType
  <2> QED
    BY <2>1 DEF Worker, TakeTable, ShouldSkipCopy, SetupSession, BeginTable, TruncateTable,
                StartListener, WaitForHelperPorts, Dial, AwaitListener, CommitTable,
                RecordResult, RollbackTable, WorkerGoto, WorkerFails, HandleFailure
<1>3. ASSUME NEW t \in Tables, result[t] = "failed", ~(worker = "rollback" /\ cur = t),
             strategy'[t] # "ext"
      PROVE  Kept(t)'
  <2>1. dest'[t] = dest[t]
    BY <1>3, LeftAlone DEF Next
  <2> QED
    BY <1>1, <1>2, <1>3, <2>1, KeptStays DEF Failed
<1>4. CASE worker \notin {"record", "rollback"}
  <2>1. result' = result /\ (worker' = "rollback" => FALSE)
    BY <1>4 DEF Worker, TakeTable, ShouldSkipCopy, SetupSession, BeginTable, TruncateTable,
                StartListener, WaitForHelperPorts, Dial, AwaitListener, CommitTable,
                RecordResult, RollbackTable, WorkerGoto, WorkerFails, HandleFailure
  <2>2. Failed'
    BY <1>3, <1>4, <2>1 DEF Failed
  <2>3. worker \in {"setup", "begin", "truncate", "start"}
           => cur \in Tables /\ result[cur] = "none" /\ fromPc[cur] = "off"
    BY DEF SlotInv, WorkerInv, SidesInv, SideOf, InExecute
  <2>4. worker \in {"setup", "begin"} => dest[cur] = Before
    BY <2>3 DEF SlotInv, WorkInv, WorkOf, InFlight, InExecute
  <2>5. CASE TakeTable \/ ShouldSkipCopy
    <3>1. worker' \in {"isempty", "done", "setup", "record"}
      BY <2>5 DEF TakeTable, ShouldSkipCopy
    <3>2. ~failed'
      BY <2>5 DEF TakeTable, ShouldSkipCopy, SlotInv, WorkerInv
    <3> QED
      BY <2>2, <3>1, <3>2 DEF Intact, Failing, InExecute
  <2>6. CASE SetupSession
    <3>1. UNCHANGED <<cur, dest, fromPc>> /\ worker = "setup" /\ worker' \in {"begin", "record"}
      BY <2>6 DEF SetupSession, StatementOk, StatementFails, WorkerGoto, WorkerFails
    <3>2. Kept(cur)' /\ fromPc'[cur'] = "off"
      BY <2>3, <2>4, <3>1 DEF Kept
    <3> QED
      BY <2>2, <3>1, <3>2 DEF Intact, Failing, InExecute
  <2>7. CASE BeginTable
    <3>1. UNCHANGED <<cur, dest, fromPc>> /\ worker = "begin"
      BY <2>7 DEF BeginTable, BeginOk, BeginFails, WorkerFails
    <3>2. Kept(cur)' /\ fromPc'[cur'] = "off" /\ dest'[cur'] = Before
      BY <2>3, <2>4, <3>1 DEF Kept
    <3>3. worker' = "record" \/ tx' # "none"
      BY <2>7 DEF BeginTable, BeginOk, WorkerFails
    <3> QED
      BY <2>2, <3>2, <3>3 DEF Intact, Failing, InExecute
  <2>8. CASE TruncateTable
    <3>1. worker = "truncate" /\ tx # "none" /\ dest[cur] = Before
      BY <2>8 DEF TruncateTable, Intact, InExecute
    <3>2. UNCHANGED <<cur, dest, fromPc>> /\ tx' # "none"
      BY <2>8, <3>1 DEF TruncateTable, Apply, StatementFails, WorkerGoto, WorkerFails
    <3>3. Kept(cur)' /\ fromPc'[cur'] = "off" /\ dest'[cur'] = Before
      BY <2>3, <3>1, <3>2 DEF Kept
    <3> QED
      BY <2>2, <3>2, <3>3 DEF Intact, Failing
  <2>9. CASE StartListener \/ WaitForHelperPorts \/ Dial \/ AwaitListener
    <3>1. /\ worker \in {"start"} \cup InExecute /\ UNCHANGED <<cur, dest, tx>>
          /\ worker' \in InExecute \cup {"record"}
          /\ worker = "start" \/ strategy' = strategy
      BY <2>9 DEF StartListener, WaitForHelperPorts, Dial, AwaitListener, WorkerGoto, WorkerFails,
                  HandleFailure, InExecute
    <3>2. strategy'[cur'] # "ext" => tx' # "none" /\ dest'[cur'] = Before
      BY <3>1 DEF Intact, InExecute
    <3>3. strategy'[cur'] # "ext" => Kept(cur)'
      BY <3>2 DEF Kept
    <3> QED
      BY <2>2, <3>1, <3>2, <3>3 DEF Intact, Failing, InExecute
  <2>10. CASE CommitTable
    <3>1. /\ worker = "commit" /\ worker' = "record" /\ cur \in Tables /\ ~failed
          /\ UNCHANGED <<cur, strategy, fromPc>>
      BY <2>10 DEF CommitTable, WorkerGoto, WorkerFails, SlotInv, WorkerInv
    <3>2. fromPc[cur] = "done" /\ ~fromErr[cur]
      BY <3>1 DEF SlotInv, AwaitInv, ListenerDone, ListenerErr, DialerDone, DialerErr
    <3>3. CASE failed' /\ strategy[cur] # "ext"
      <4>1. dest[cur] = Before
        BY <3>1, <3>3 DEF Intact, InExecute
      <4>2. tx = "open" => work[cur] = Loaded(cur)
        BY <3>1, <3>2 DEF Keep, InExecute, TakenAway
      <4>3. CommitFails
        BY <2>10, <3>1, <3>3 DEF CommitTable, WorkerGoto
      <4>4. dest'[cur] = Before \/ dest'[cur] = Loaded(cur)
        BY <4>1, <4>2, <4>3 DEF CommitFails
      <4>5. Loaded(cur)' = Loaded(cur)
        BY <1>1, <3>1 DEF Loaded
      <4>6. Kept(cur)'
        BY <1>1, <3>1, <3>2, <4>4, <4>5 DEF Kept
      <4> QED
        BY <2>2, <3>1, <3>2, <4>6 DEF Intact, Failing, InExecute
    <3> QED
      BY <2>2, <3>1, <3>3 DEF Intact, Failing, InExecute
  <2> QED
    BY <1>4, <2>5, <2>6, <2>7, <2>8, <2>9, <2>10 DEF Worker, RecordResult, RollbackTable
<1>5. CASE RecordResult
  <2>1. /\ worker = "record" /\ worker' \in {"next", "rollback"} /\ cur \in Tables
        /\ UNCHANGED <<cur, failed, strategy, fromPc, tx, dest>>
        /\ worker' = "rollback" => failed
    BY <1>5 DEF RecordResult, SlotInv, WorkerInv
  <2>2. failed /\ strategy[cur] # "ext" => Kept(cur)'
    BY <1>1, <2>1, KeptStays DEF Failing
  <2>3. \A t \in Tables : t # cur => result'[t] = result[t]
    BY <1>5 DEF RecordResult, SlotInv, CtlType
  <2>4. result'[cur] = "failed" => failed
    BY <1>5, <2>1 DEF RecordResult, SlotInv, CtlType
  <2>5. Failing'
    BY <2>1, <2>2 DEF Failing
  <2>6. Failed'
    BY <1>3, <2>1, <2>2, <2>3, <2>4 DEF Failed
  <2> QED
    BY <2>1, <2>5, <2>6 DEF Intact, InExecute
<1>6. CASE RollbackTable
  <2>1. /\ worker = "rollback" /\ worker' = "next" /\ cur \in Tables /\ failed
        /\ UNCHANGED <<cur, strategy, result, fromPc, dest>>
    BY <1>6 DEF RollbackTable, Rollback, WorkerGoto, SlotInv, WorkerInv
  <2>2. strategy[cur] # "ext" => Kept(cur)'
    BY <1>1, <2>1, KeptStays DEF Failing
  <2>3. Failed'
    BY <1>3, <2>1, <2>2 DEF Failed
  <2> QED
    BY <2>1, <2>3 DEF Intact, Failing, InExecute
<1> QED
  BY <1>4, <1>5, <1>6 DEF Worker, TakeTable, ShouldSkipCopy, SetupSession, BeginTable, TruncateTable,
                StartListener, WaitForHelperPorts, Dial, AwaitListener, CommitTable

\* A step of CopyFrom preserves it when there are no stragglers.
LEMMA FailFrom ==
    ASSUME SlotInv, Stragglers = {}, Intact, Failing, Failed, NEW t \in Tables, CopyFrom(t)
    PROVE  Intact' /\ Failing' /\ Failed'
<1> USE DEF flags, workerVars, toVars, destVars
<1>1. FromStep(t)
  BY FromSteps DEF SlotInv
<1>2. UNCHANGED <<worker, cur, failed, strategy, result, truncate>> /\ fromPc[t] \notin {"off", "done"}
  BY <1>1 DEF FromStep
<1>3. \A u \in Tables : u # t => /\ fromPc'[u] = fromPc[u] /\ fromErr'[u] = fromErr[u]
                                 /\ fromRows'[u] = fromRows[u]
  BY <1>1 DEF FromStep, SlotInv, CtlType
<1>4. ASSUME NEW u \in Tables, Kept(u), dest'[u] = dest[u]
      PROVE  Kept(u)'
  BY <1>2, <1>3, <1>4, KeptStays
<1>5. Failed'
  <2> SUFFICES ASSUME NEW u \in Tables, result[u] = "failed", ~(worker = "rollback" /\ cur = u),
                      strategy[u] # "ext"
               PROVE  Kept(u)'
    BY <1>2 DEF Failed
  <2>1. dest'[u] = dest[u]
    BY LeftAlone DEF Next
  <2> QED
    BY <1>4, <2>1 DEF Failed
<1>6. CASE t # cur
  <2>1. ~MayBegin(t) /\ ~Load(t)
    BY <1>6, OthersAreStragglers DEF Load, SlotInv, SidesInv, SideOf
  <2>2. StartLoad(t) \/ DropExternalTable(t)
    BY <2>1 DEF CopyFrom, CommitBeginCommit, CommitBeginBegin, CreateExternalTable, MayBegin
  <2>3. dest' = dest /\ (tx # "none" => tx' # "none")
    BY <2>2 DEF StartLoad, DropExternalTable, StatementOk, StatementFails
  <2>4. Intact'
    BY <1>2, <2>3 DEF Intact
  <2>5. worker \in {"record", "rollback"} => cur \in Tables
    BY DEF SlotInv, WorkerInv
  <2>6. Failing'
    BY <1>2, <1>3, <1>4, <1>6, <2>3, <2>5 DEF Failing
  <2> QED
    BY <1>5, <2>4, <2>6
<1>7. CASE t = cur
  <2>1. CASE strategy[cur] # "ext"
    <3>1. StartLoad(t) \/ Load(t)
      BY <1>7, <2>1 DEF CopyFrom, CommitBeginCommit, CommitBeginBegin, CreateExternalTable,
                        DropExternalTable, SlotInv, RowsInv, RowsOf
    <3>2. tx # "none" => dest' = dest /\ tx' # "none"
      BY <3>1 DEF StartLoad, Load, Apply, StatementFails
    <3>3. Intact'
      BY <1>2, <2>1, <3>2 DEF Intact
    <3>4. Failing'
      <4>1. CASE worker \in {"record", "rollback"} /\ failed
        <5>1. tx # "none" /\ Kept(cur)
          BY <1>2, <1>7, <2>1, <4>1 DEF Failing
        <5>2. Kept(cur)'
          BY <1>2, <1>4, <1>7, <3>2, <5>1
        <5> QED
          BY <3>2, <5>1, <5>2 DEF Failing
      <4> QED
        BY <1>2, <4>1 DEF Failing
    <3> QED
      BY <1>5, <3>3, <3>4
  <2>2. CASE strategy[cur] = "ext"
    <3>1. worker \notin {"truncate", "start"}
      BY <1>2, <1>7 DEF SlotInv, WorkerInv, SidesInv, SideOf, InExecute
    <3> QED
      BY <1>2, <1>5, <2>2, <3>1 DEF Intact, Failing
  <2> QED
    BY <2>1, <2>2
<1> QED
  BY <1>6, <1>7

\* Every step preserves FailInv.
LEMMA FailNext == SlotInv /\ KeepInv /\ FailInv /\ [Next]_vars => FailInv'
<1> SUFFICES ASSUME SlotInv, KeepInv, FailInv, [Next]_vars, Stragglers' = {}
             PROVE  Intact' /\ Failing' /\ Failed'
  BY DEF FailInv
<1>1. Stragglers = {}
  BY StragglersStay
<1>2. Keep /\ Intact /\ Failing /\ Failed
  BY <1>1 DEF KeepInv, Crowded, FailInv
<1>3. CASE Worker
  BY <1>2, <1>3, FailWorker
<1>4. ASSUME NEW t \in Tables, CopyFrom(t)  PROVE Intact' /\ Failing' /\ Failed'
  BY <1>1, <1>2, <1>4, FailFrom
<1>5. CASE UNCHANGED <<flags, workerVars, fromVars, destVars>>
  BY <1>2, <1>5 DEF flags, workerVars, fromVars, destVars, Intact, Failing, Failed, Kept, Loaded
<1> QED
  BY <1>3, <1>4, <1>5 DEF Next, CopyTo, Stopped, vars

\* The three hold at first.
LEMMA ResultsInit == Init => KeepInv /\ SuccInv /\ FailInv
BY DEF Init, KeepInv, Keep, SuccInv, Succ, FailInv, Intact, Failing, Failed, InExecute

\* And throughout.
LEMMA ResultsAlways == Spec => [](SlotInv /\ KeepInv /\ SuccInv /\ FailInv)
BY SlotInit, SlotNext, ResultsInit, KeepNext, SuccNext, FailNext, PTL DEF Spec

\* A table that TableCopier reports as copied, with --validate, holds all of the
\* source's rows, and its earlier ones unless --truncate, as long as at most one
\* abandoned external-table load shares its connection.
THEOREM SucceededIsCompleteHolds == Spec => []SucceededIsComplete
<1>1. SuccInv => SucceededIsComplete
  BY DEF SuccInv, Succ, SucceededIsComplete
<1> QED
  BY <1>1, ResultsAlways, PTL

\* A COPY that TableCopier reports as failed is all or nothing, as long as no
\* abandoned external-table load shares its connection.
THEOREM FailedIsUntouchedHolds == Spec => []FailedIsUntouched
<1>1. FailInv => FailedIsUntouched
  BY DEF FailInv, Failed, Kept, Loaded, FailedIsUntouched
<1> QED
  BY <1>1, ResultsAlways, PTL

=============================================================================
