--------------------------- MODULE CopyOperation ---------------------------
(***************************************************************************)
(* One copy worker (TableCopier and CopyOperation, package copy) that      *)
(* copies table after table over its two connection slots.                 *)
(*                                                                         *)
(* A copy has two sides, COPY TO on the source and COPY FROM (or, for the  *)
(* external-table strategies, INSERT ... SELECT) on the destination.  The  *)
(* listening side, the destination with --connection-mode push and the     *)
(* source with pull, runs in a goroutine of its own; the worker waits for  *)
(* its ports and runs the other side itself.  If the worker gives up first *)
(* it cancels the goroutine's context and leaves it behind, and goes on    *)
(* with the next table on the same slots.                                  *)
(*                                                                         *)
(* The transaction a slot is in (dbconn.Tx) belongs to the connection and  *)
(* not to the goroutine that began it: Commit, Begin and Exec act on       *)
(* whatever transaction is there.                                          *)
(***************************************************************************)
EXTENDS Naturals, FiniteSets

CONSTANTS
    Tables,     \* the tables this worker is given
    NoTable,    \* no table
    RowCounts   \* possible numbers of rows in a source table

ASSUME CopyAssumption ==
    /\ NoTable \notin Tables
    /\ RowCounts \subseteq Nat

VARIABLES
    push, truncate, validate,   \* flags of the run
    srcRows,    \* rows of each source table
    worker,     \* where TableCopier.Copy is
    cur,        \* the table being copied
    failed,     \* Copy's err is not nil
    inTxn,      \* Copy's inTxn
    skipped,    \* Copy's isSkipped
    strategy,   \* the strategy of each table's copy
    toPc, toRows, toErr,        \* CopyTo of each table's operation
    fromPc, fromRows, fromErr,  \* CopyFrom of each table's operation
    cancelled,  \* operations whose context has been cancelled
    result,     \* what the result files say
    tx,         \* the destination slot's transaction
    work,       \* the tables as that transaction sees them
    dest        \* the tables as committed

flags == <<push, truncate, validate, srcRows>>
workerVars == <<worker, cur, failed, inTxn, skipped, strategy, cancelled, result>>
toVars == <<toPc, toRows, toErr>>
fromVars == <<fromPc, fromRows, fromErr>>
destVars == <<tx, work, dest>>
vars == <<flags, workerVars, toVars, fromVars, destVars>>

\* "master": COPY on the coordinator; "segment": COPY ON SEGMENT; "ext":
\* INSERT from an external web table (ExtDestGeCopy and ExtDestLtCopy).
Strategies == {"master", "segment", "ext"}

\* A destination table: are its earlier records there, and how many records
\* of the source have been added.
Contents == [old : BOOLEAN, new : Nat]
Before == [old |-> TRUE, new |-> 0]
After(t) == [old |-> ~truncate, new |-> srcRows[t]]

----------------------------------------------------------------------------
(* The destination slot: dbconn.DBConn over database/sql. *)

\* (Variant: a pool of more than one connection behind the slot.)
SlotAlwaysFree == TRUE

\* Statements on one connection run one at a time.
SlotFree == \A u \in Tables : fromPc[u] # "running"

\* Tx is nil exactly when tx = "none".  "aborted": a statement of the
\* transaction has failed, or the connection was closed under it.
TxStates == {"none", "open", "aborted"}

\* A statement outside of a transaction takes effect at once.
Apply(t, c) ==
    /\ tx \in {"none", "open"}
    /\ work' = [work EXCEPT ![t] = c]
    /\ dest' = IF tx = "none" THEN [dest EXCEPT ![t] = c] ELSE dest
    /\ UNCHANGED tx

\* A statement that changes no table, or fails.
StatementOk == tx \in {"none", "open"} /\ UNCHANGED destVars
StatementFails ==
    /\ tx' = IF tx = "open" THEN "aborted" ELSE tx
    /\ UNCHANGED <<work, dest>>

\* (Variant: a Begin that does not keep the transaction.)
BeginAutocommit ==
    /\ tx = "none"
    /\ UNCHANGED destVars

\* Begin: refused if a transaction is there; BEGIN or the SET TRANSACTION
\* after it may fail.
BeginOk ==
    /\ tx = "none"
    /\ tx' = "open"
    /\ UNCHANGED <<work, dest>>
BeginFails ==
    /\ \/ UNCHANGED tx
       \/ tx = "none" /\ tx' = "aborted"
    /\ UNCHANGED <<work, dest>>

\* Commit: whatever happens, dbconn forgets the transaction.  COMMIT of an
\* aborted transaction rolls back and is an error; a COMMIT whose answer is
\* lost is an error too, although it may have taken effect.
CommitOk ==
    /\ tx = "open"
    /\ dest' = work /\ tx' = "none"
    /\ UNCHANGED work
CommitFails ==
    /\ tx' = "none"
    /\ \/ work' = dest /\ UNCHANGED dest
       \/ tx = "open" /\ dest' = work /\ UNCHANGED work

\* (Variant: only the pointer is forgotten, the transaction stays.)
ForgetTx ==
    /\ tx' = "none"
    /\ UNCHANGED <<work, dest>>

Rollback ==
    /\ tx' = "none"
    /\ work' = dest
    /\ UNCHANGED dest

----------------------------------------------------------------------------
Init ==
    /\ push \in BOOLEAN /\ truncate \in BOOLEAN /\ validate \in BOOLEAN
    /\ srcRows \in [Tables -> RowCounts]
    /\ worker = "next" /\ cur = NoTable
    /\ failed = FALSE /\ inTxn = FALSE /\ skipped = FALSE
    /\ strategy = [t \in Tables |-> "master"]
    /\ toPc = [t \in Tables |-> "off"] /\ fromPc = [t \in Tables |-> "off"]
    /\ toRows = [t \in Tables |-> 0] /\ fromRows = [t \in Tables |-> 0]
    /\ toErr = [t \in Tables |-> FALSE] /\ fromErr = [t \in Tables |-> FALSE]
    /\ cancelled = {}
    /\ result = [t \in Tables |-> "none"]
    /\ tx = "none"
    /\ work = [t \in Tables |-> Before] /\ dest = [t \in Tables |-> Before]

----------------------------------------------------------------------------
(* CopyTo, on the source slot. *)

EndCopyTo(t, err) ==
    /\ toPc' = [toPc EXCEPT ![t] = "done"]
    /\ toErr' = [toErr EXCEPT ![t] = err]
    /\ toRows' = [toRows EXCEPT ![t] = IF err THEN 0 ELSE srcRows[t]]

\* COPY TO PROGRAM returns.  It has no context: nothing cuts it short.
CopyTo(t) ==
    /\ toPc[t] = "running"
    /\ \E err \in BOOLEAN : EndCopyTo(t, err)
    /\ UNCHANGED <<flags, workerVars, fromVars, destVars>>

----------------------------------------------------------------------------
(* CopyFrom, on the destination slot. *)

FromGoto(t, pc) ==
    /\ fromPc' = [fromPc EXCEPT ![t] = pc]
    /\ UNCHANGED <<fromRows, fromErr>>

\* (Variant: an error return that leaves the done channel open.)
FailsSilently(t) ==
    /\ fromPc' = [fromPc EXCEPT ![t] = "off"]
    /\ fromErr' = [fromErr EXCEPT ![t] = TRUE]
    /\ UNCHANGED fromRows

FromFails(t) ==
    /\ fromPc' = [fromPc EXCEPT ![t] = "done"]
    /\ fromErr' = [fromErr EXCEPT ![t] = TRUE]
    /\ UNCHANGED fromRows

\* The external-table strategies commit, create the external table, and commit
\* again before they load.  No step of this looks at the context.
CommitBeginCommit(t) ==
    /\ fromPc[t] \in {"commit1", "commit2"} /\ SlotFree
    /\ \/ CommitOk /\ FromGoto(t, IF fromPc[t] = "commit1" THEN "begin1" ELSE "begin2")
       \/ CommitFails /\ FromFails(t)
    /\ UNCHANGED <<flags, workerVars, toVars>>

CommitBeginBegin(t) ==
    /\ fromPc[t] \in {"begin1", "begin2"} /\ SlotFree
    /\ \/ BeginOk /\ FromGoto(t, IF fromPc[t] = "begin1" THEN "create" ELSE "start")
       \/ BeginFails /\ FromFails(t)
    /\ UNCHANGED <<flags, workerVars, toVars>>

CreateExternalTable(t) ==
    /\ fromPc[t] = "create" /\ SlotFree
    /\ \/ StatementOk /\ FromGoto(t, "commit2")
       \/ StatementFails /\ FromFails(t)
    /\ UNCHANGED <<flags, workerVars, toVars>>

\* ExecContext refuses to start a statement once its context is cancelled.
StartLoad(t) ==
    /\ fromPc[t] = "start" /\ SlotFree
    /\ IF t \in cancelled \/ tx = "aborted"
       THEN FromFails(t)
       ELSE FromGoto(t, "running")
    /\ UNCHANGED <<flags, workerVars, toVars, destVars>>

\* COPY FROM PROGRAM or INSERT returns.  A helper that ends without an error
\* status after only part of the stream makes it succeed with fewer rows.
Load(t) ==
    /\ fromPc[t] = "running"
    /\ \/ \E n \in 0 .. (IF toPc[t] = "off" THEN 0 ELSE srcRows[t]) :
            /\ Apply(t, [work[t] EXCEPT !.new = @ + n])
            /\ fromRows' = [fromRows EXCEPT ![t] = n]
            /\ fromPc' = [fromPc EXCEPT ![t] = IF strategy[t] = "ext" THEN "drop" ELSE "done"]
            /\ UNCHANGED fromErr
       \/ StatementFails /\ FromFails(t)
    /\ UNCHANGED <<flags, workerVars, toVars>>

DropExternalTable(t) ==
    /\ fromPc[t] = "drop" /\ SlotFree
    /\ \/ StatementOk /\ FromGoto(t, "done")
       \/ StatementFails /\ FromFails(t)
    /\ UNCHANGED <<flags, workerVars, toVars>>

CopyFrom(t) ==
    \/ CommitBeginCommit(t) \/ CommitBeginBegin(t) \/ CreateExternalTable(t)
    \/ StartLoad(t) \/ Load(t) \/ DropExternalTable(t)

FirstFromStep(s) == IF s = "ext" THEN "commit1" ELSE "start"

----------------------------------------------------------------------------
(* TableCopier.Copy *)

WorkerGoto(pc) ==
    /\ worker' = pc
    /\ UNCHANGED <<cur, failed, inTxn, skipped, strategy, cancelled, result>>

WorkerFails(txn) ==
    /\ worker' = "record"
    /\ failed' = TRUE /\ inTxn' = txn
    /\ UNCHANGED <<cur, skipped, strategy, cancelled, result>>

TakeTable ==
    /\ worker = "next"
    /\ \/ \E t \in Tables :
            /\ result[t] = "none"
            /\ cur' = t /\ worker' = "isempty"
       \/ /\ \A t \in Tables : result[t] # "none"
          /\ worker' = "done" /\ cur' = NoTable
    /\ failed' = FALSE /\ inTxn' = FALSE /\ skipped' = FALSE
    /\ UNCHANGED <<strategy, cancelled, result>>
    /\ UNCHANGED <<flags, toVars, fromVars, destVars>>

\* shouldSkipCopy: the query waits for the source connection, which an
\* abandoned COPY TO may still occupy; an error counts as "not empty".
ShouldSkipCopy ==
    /\ worker = "isempty"
    /\ \A u \in Tables : toPc[u] # "running"
    /\ \/ srcRows[cur] = 0 /\ skipped' = TRUE /\ worker' = "record"
       \/ skipped' = FALSE /\ worker' = "setup"
    /\ UNCHANGED <<cur, failed, inTxn, strategy, cancelled, result>>
    /\ UNCHANGED <<flags, toVars, fromVars, destVars>>

\* prepareForCopy
SetupSession ==
    /\ worker = "setup" /\ SlotFree
    /\ \/ StatementOk /\ WorkerGoto("begin")
       \/ StatementFails /\ WorkerFails(FALSE)
    /\ UNCHANGED <<flags, toVars, fromVars>>

BeginTable ==
    /\ worker = "begin" /\ SlotFree
    /\ \/ /\ BeginOk
          /\ worker' = IF truncate THEN "truncate" ELSE "start"
          /\ inTxn' = TRUE
          /\ UNCHANGED <<cur, failed, skipped, strategy, cancelled, result>>
       \/ BeginFails /\ WorkerFails(TRUE)
    /\ UNCHANGED <<flags, toVars, fromVars>>

TruncateTable ==
    /\ worker = "truncate" /\ SlotFree
    /\ \/ Apply(cur, [old |-> FALSE, new |-> 0]) /\ WorkerGoto("start")
       \/ StatementFails /\ WorkerFails(TRUE)
    /\ UNCHANGED <<flags, toVars, fromVars>>

----------------------------------------------------------------------------
(* CopyOperation.Execute *)

\* The listening side starts in a goroutine.
StartListener ==
    /\ worker = "start"
    /\ worker' = "ports"
    /\ \E s \in Strategies :
          /\ strategy' = [strategy EXCEPT ![cur] = s]
          /\ IF push
             THEN /\ fromPc' = [fromPc EXCEPT ![cur] = FirstFromStep(s)]
                  /\ UNCHANGED toPc
             ELSE /\ toPc' = [toPc EXCEPT ![cur] = "running"]
                  /\ UNCHANGED fromPc
    /\ UNCHANGED <<cur, failed, inTxn, skipped, cancelled, result>>
    /\ UNCHANGED <<flags, toRows, toErr, fromRows, fromErr, destVars>>

ListenerErr == IF push THEN fromErr[cur] ELSE toErr[cur]
ListenerDone == (IF push THEN fromPc[cur] ELSE toPc[cur]) = "done"
ListenerUp ==
    IF push THEN fromPc[cur] \in {"running", "drop", "done"}
            ELSE toPc[cur] \in {"running", "done"}
DialerErr == IF push THEN toErr[cur] ELSE fromErr[cur]
DialerDone == (IF push THEN toPc[cur] ELSE fromPc[cur]) = "done"

\* (Variant: the context is not cancelled.)
NoCancelHandleFailure == WorkerFails(inTxn)

\* handleFailure: an error of the listener is returned once the listener is
\* done; otherwise its context is cancelled and nobody waits for it.
HandleFailure ==
    /\ worker' = "record" /\ failed' = TRUE
    /\ IF ListenerErr
       THEN ListenerDone /\ UNCHANGED cancelled
       ELSE cancelled' = cancelled \cup {cur}
    /\ UNCHANGED <<cur, inTxn, skipped, strategy, result>>

\* waitForHelperPorts, and the start of the dialling side.
WaitForHelperPorts ==
    /\ worker = "ports"
    /\ \/ \* the listener has failed, or the retries are used up
          HandleFailure /\ UNCHANGED <<toPc, fromPc>>
       \/ /\ ~ListenerErr /\ ListenerUp
          /\ WorkerGoto("dial")
          /\ IF push
             THEN /\ toPc' = [toPc EXCEPT ![cur] = "running"]
                  /\ UNCHANGED fromPc
             ELSE /\ fromPc' = [fromPc EXCEPT ![cur] = FirstFromStep(strategy[cur])]
                  /\ UNCHANGED toPc
    /\ UNCHANGED <<flags, toRows, toErr, fromRows, fromErr, destVars>>

Dial ==
    /\ worker = "dial" /\ DialerDone
    /\ IF DialerErr THEN HandleFailure ELSE WorkerGoto("await")
    /\ UNCHANGED <<flags, toVars, fromVars, destVars>>

\* (Variant: the counts are not compared.)
RowCountsIgnored == TRUE

RowCountsAgree == validate => fromRows[cur] = toRows[cur]

AwaitListener ==
    /\ worker = "await" /\ ListenerDone
    /\ IF ListenerErr \/ ~RowCountsAgree
       THEN WorkerFails(inTxn) ELSE WorkerGoto("commit")
    /\ UNCHANGED <<flags, toVars, fromVars, destVars>>

CommitTable ==
    /\ worker = "commit" /\ SlotFree
    /\ \/ CommitOk /\ WorkerGoto("record")
       \/ CommitFails /\ WorkerFails(inTxn)
    /\ UNCHANGED <<flags, toVars, fromVars>>

\* cleanupAfterCopy: the result file first, then the rollback.
RecordResult ==
    /\ worker = "record"
    /\ result' = [result EXCEPT ![cur] =
                    IF skipped THEN "skipped"
                    ELSE IF failed THEN "failed" ELSE "succeeded"]
    /\ worker' = IF failed /\ inTxn THEN "rollback" ELSE "next"
    /\ UNCHANGED <<cur, failed, inTxn, skipped, strategy, cancelled>>
    /\ UNCHANGED <<flags, toVars, fromVars, destVars>>

RollbackTable ==
    /\ worker = "rollback" /\ SlotFree
    /\ Rollback
    /\ WorkerGoto("next")
    /\ UNCHANGED <<flags, toVars, fromVars>>

Worker ==
    \/ TakeTable \/ ShouldSkipCopy \/ SetupSession \/ BeginTable \/ TruncateTable
    \/ StartListener \/ WaitForHelperPorts \/ Dial \/ AwaitListener \/ CommitTable
    \/ RecordResult \/ RollbackTable

----------------------------------------------------------------------------
Stopped ==
    /\ worker = "done"
    /\ UNCHANGED vars

Next ==
    \/ Worker
    \/ \E t \in Tables : CopyTo(t) \/ CopyFrom(t)
    \/ Stopped

Spec == Init /\ [][Next]_vars

\* The goroutines run, and the servers end every statement: a helper that
\* listens gives up at its accept deadline.
Fairness ==
    /\ WF_vars(Worker)
    /\ \A t \in Tables : WF_vars(CopyTo(t)) /\ WF_vars(CopyFrom(t))

FairSpec == Spec /\ Fairness

----------------------------------------------------------------------------
(* Properties. *)

WorkerPcs == {"next", "isempty", "setup", "begin", "truncate", "start", "ports",
              "dial", "await", "commit", "record", "rollback", "done"}
FromPcs == {"off", "commit1", "begin1", "create", "commit2", "begin2", "start",
            "running", "drop", "done"}

\* The locals of Copy and Execute, the slot and the tables have their types, and
\* a slot without a transaction (Tx is nil) has no uncommitted work.
TypeOK ==
    /\ push \in BOOLEAN /\ truncate \in BOOLEAN /\ validate \in BOOLEAN
    /\ srcRows \in [Tables -> RowCounts]
    /\ worker \in WorkerPcs /\ cur \in Tables \cup {NoTable}
    /\ failed \in BOOLEAN /\ inTxn \in BOOLEAN /\ skipped \in BOOLEAN
    /\ strategy \in [Tables -> Strategies]
    /\ toPc \in [Tables -> {"off", "running", "done"}]
    /\ fromPc \in [Tables -> FromPcs]
    /\ toRows \in [Tables -> Nat] /\ fromRows \in [Tables -> Nat]
    /\ toErr \in [Tables -> BOOLEAN] /\ fromErr \in [Tables -> BOOLEAN]
    /\ cancelled \subseteq Tables
    /\ result \in [Tables -> {"none", "succeeded", "failed", "skipped"}]
    /\ tx \in TxStates
    /\ work \in [Tables -> Contents] /\ dest \in [Tables -> Contents]
    /\ tx = "none" => work = dest

\* The abandoned CopyFroms that may still commit and begin on the slot.
Stragglers == {u \in cancelled : push /\ strategy[u] = "ext"}
Crowded == \E u, v \in Stragglers : u # v

\* A table in the success file of a validated run holds exactly the records it
\* should: all of the source's, and the earlier ones unless --truncate.  One
\* straggler cannot break this: when its COMMIT fails it takes the table's
\* transaction along, but then nobody begins another one, and the table's own
\* COMMIT is refused.  (With two, the second may begin one.)
SucceededIsComplete ==
    \A t \in Tables : validate /\ result[t] = "succeeded" /\ ~Crowded => dest[t] = After(t)

\* Once the worker has left a table, nothing changes that table any more: not
\* the goroutine of an abandoned operation, and not the rollback or commit of
\* a later table's transaction.
NoLateWrites ==
    [][\A t \in Tables :
         result[t] # "none" /\ ~(worker = "rollback" /\ cur = t)
            => dest'[t] = dest[t]]_vars

\* A goroutine that is still at work when the worker has left its table has had
\* its context cancelled: nobody stops waiting for it without saying so.  A
\* CopyFrom acts on that; the CopyTo of pull mode does not look at the context
\* and ends when its own statement does.
OnlyCancelledLeftBehind ==
    \A t \in Tables :
        result[t] # "none" /\ (toPc[t] = "running" \/ fromPc[t] \notin {"off", "done"})
            => t \in cancelled

\* A COPY on the coordinator or on the segments is all or nothing: a table in
\* the failure file either is as it was, or the answer to its COMMIT was lost
\* and it holds what was loaded.  (The external-table strategies commit a
\* TRUNCATE before they load, and an abandoned one may commit another table's.)
FailedIsUntouched ==
    \A t \in Tables :
        result[t] = "failed" /\ ~(worker = "rollback" /\ cur = t)
            /\ strategy[t] # "ext" /\ Stragglers = {}
        => \/ dest[t] = Before
           \/ /\ fromPc[t] = "done" /\ ~fromErr[t]
              /\ dest[t] = [old |-> ~truncate, new |-> fromRows[t]]

\* Every table of the worker ends in a result file: no wait for ports, for the
\* other side, for the source connection or for the slot lasts forever.
EveryTableRecorded == <>(worker = "done")

\* "--truncate - First, clear the existing records in the table, and then
\* insert the migrated records": a table the run is done with has no earlier
\* records (shouldSkipCopy returns before prepareForCopy truncates).
TruncateClears ==
    \A t \in Tables : truncate /\ result[t] \in {"succeeded", "skipped"} => ~dest[t].old
=============================================================================
