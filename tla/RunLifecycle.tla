---------------------------- MODULE RunLifecycle ----------------------------
(***************************************************************************)
(* One cbcopy process from Initialize to os.Exit, the goroutine of its      *)
(* signal handler, the server sessions of its workers, and the runs the     *)
(* README advises after a failure (--exclude-table-file=cbcopy_succeed_...).*)
(*                                                                         *)
(* The copy of a table is reduced to the points that survive the process:   *)
(* the table's creation, its TRUNCATE, its COMMIT and its line in a result  *)
(* file (CopyOperation.tla has the rest).  loads[t] counts how often the    *)
(* rows of the source table are in the destination table; a table that is   *)
(* empty on the source is skipped and stays so in all runs.                 *)
(***************************************************************************)
EXTENDS Integers, FiniteSets

CONSTANTS Tables,     \* the selected tables
          EmptySets,  \* the sets of tables that may be without rows on the source
          Jobs,       \* --copy-jobs
          MaxRuns     \* bound: how often cbcopy is started

\* dbconn.Connect refuses a pool of fewer than one connection.
ASSUME JobsAssumption == Jobs \in Nat \ {0}

ASSUME EmptySetsAssumption == EmptySets \subseteq SUBSET Tables

Sides == {"src", "dest"}

VARIABLES
    mode,        \* the data loading mode of all runs
    handled,     \* the sides whose type TerminateHangingCopySessions knows
    empty,       \* the tables without rows on the source
    run,         \* number of the current process
    main,        \* where the main goroutine is
    handler,     \* where the goroutine of the signal handler is
    terminated,  \* utils.WasTerminated
    group,       \* the counter of utils.CleanupGroup
    conns,       \* the management connections that are open
    errorCode,   \* gplog's error code
    code,        \* what the process exited with
    wk,          \* progress of each table in the current process
    gone,        \* workers that returned because of the flag
    sessions,    \* backends running a COPY of the current process
    late,        \* tables whose COPY the signal came too late for
    created,     \* destination tables that exist
    loads,
    succeeded,   \* lines of the cbcopy_succeed files
    unrecorded   \* per table, commits that left no line in a succeed file

disk == <<created, loads, succeeded, unrecorded>>
proc == <<main, handler, terminated, group, conns, errorCode, code>>
work == <<wk, gone, sessions, late>>
once == <<mode, handled, empty, run>>
vars == <<disk, proc, work, once>>

None == -1
Alive == code = None
SessionsOf(t) == {[side |-> x, table |-> t] : x \in Sides}

-----------------------------------------------------------------------------
(* The life of the main goroutine before the teardown.                      *)

\* Initialize adds one to CleanupGroup and starts the handler's goroutine.
Initialize ==
    /\ main = "src" /\ handler = "idle" /\ terminated = FALSE
    /\ group = 1 /\ conns = {} /\ errorCode = 0 /\ code = None
    /\ gone = 0 /\ late = {}

Init ==
    /\ mode \in {"truncate", "append", "skip"}
    /\ handled \in {Sides, {"src"}}
    /\ empty \in EmptySets
    /\ run = 1 /\ sessions = {}
    /\ created = {} /\ succeeded = {}
    /\ loads = [t \in Tables |-> 0]
    /\ unrecorded = [t \in Tables |-> 0]
    /\ wk = [t \in Tables |-> "todo"]
    /\ Initialize

\* gplog.Fatal in the main goroutine: error code 2 and a panic that Run's
\* deferred doTeardown recovers.
Fatal == errorCode' = 2 /\ main' = "check"

\* doSetup: the source's management connection, then the destination's; each
\* failure is fatal.
Setup ==
    /\ Alive /\ main \in Sides
    /\ \/ /\ conns' = conns \cup {main}
          /\ main' = IF main = "src" THEN "dest" ELSE "copy"
          /\ UNCHANGED errorCode
       \/ Fatal /\ UNCHANGED conns
    /\ UNCHANGED <<disk, work, once, handler, terminated, group, code>>

\* The restore goroutine creates a table and hands its pair to the workers.
Create(t) ==
    /\ Alive /\ main = "copy" /\ wk[t] = "todo"
    /\ created' = created \cup {t}
    /\ wk' = [wk EXCEPT ![t] = "queued"]
    /\ UNCHANGED <<loads, succeeded, unrecorded, proc, gone, sessions, late, once>>

Busy == {t \in Tables : wk[t] \in {"taken", "loading", "committed"}}

\* A worker receives a pair; it returns when it sees the flag.
Take(t) ==
    /\ Alive /\ wk[t] = "queued" /\ Cardinality(Busy) + gone < Jobs
    /\ IF terminated
       THEN gone' = gone + 1 /\ wk' = [wk EXCEPT ![t] = "dropped"]
       ELSE UNCHANGED gone /\ wk' = [wk EXCEPT ![t] = "taken"]
    /\ UNCHANGED <<disk, proc, sessions, late, once>>

\* Copy of a table that shouldSkipCopy finds empty: prepareForCopy is not
\* reached, and cleanupAfterCopy writes the table's line to cbcopy_skipped, not
\* to cbcopy_succeed, and leaves the error code alone.
Skip(t) ==
    /\ Alive /\ wk[t] = "taken" /\ t \in empty
    /\ wk' = [wk EXCEPT ![t] = "skipped"]
    /\ UNCHANGED <<disk, proc, gone, sessions, late, once>>

\* shouldSkipCopy of a table that has rows, or whose IsEmptyTable fails, which
\* is an error in the log and no reason to skip; then prepareForCopy and the
\* start of the two COPY statements.  The strategies over external tables
\* commit the TRUNCATE before the load (CommitBegin).
Load(t) ==
    /\ Alive /\ wk[t] = "taken"
    /\ \/ t \notin empty /\ UNCHANGED errorCode
       \/ errorCode' = 1
    /\ wk' = [wk EXCEPT ![t] = "loading"]
    /\ sessions' = sessions \cup SessionsOf(t)
    /\ late' = IF terminated THEN late \cup {t} ELSE late
    /\ \/ UNCHANGED loads
       \/ mode = "truncate" /\ loads' = [loads EXCEPT ![t] = 0]
    /\ UNCHANGED <<created, succeeded, unrecorded, main, handler, terminated, group, conns, code,
                   gone, once>>

\* Commit on the destination.
Commit(t) ==
    /\ Alive /\ wk[t] = "loading" /\ SessionsOf(t) \subseteq sessions
    /\ wk' = [wk EXCEPT ![t] = "committed"]
    /\ loads' = [loads EXCEPT ![t] = IF mode = "truncate" THEN 1 ELSE @ + 1]
    /\ unrecorded' = [unrecorded EXCEPT ![t] = @ + 1]
    /\ sessions' = sessions \ SessionsOf(t)
    /\ UNCHANGED <<created, succeeded, proc, gone, late, once>>

\* cleanupAfterCopy of a committed table: its line in cbcopy_succeed.
Record(t) ==
    /\ Alive /\ wk[t] = "committed"
    /\ wk' = [wk EXCEPT ![t] = "succeeded"]
    /\ succeeded' = succeeded \cup {t}
    /\ unrecorded' = [unrecorded EXCEPT ![t] = @ - 1]
    /\ UNCHANGED <<created, loads, proc, gone, sessions, late, once>>

\* (Variant: the deferred call takes err when it is declared, so it is nil.)
FailRecorded(t) ==
    /\ Alive /\ wk[t] \in {"taken", "loading", "committed"}
    /\ wk' = [wk EXCEPT ![t] = "succeeded"]
    /\ succeeded' = succeeded \cup {t}
    /\ sessions' = sessions \ SessionsOf(t)
    /\ UNCHANGED <<created, loads, unrecorded, proc, gone, late, once>>

\* cleanupAfterCopy of a copy that failed, or whose COMMIT was lost on its way
\* back: gplog.Error sets the error code.  One of its two statements may still
\* run when Execute returns (handleFailure cancels and does not wait).
Fail(t) ==
    /\ Alive /\ wk[t] \in {"taken", "loading", "committed"}
    /\ wk' = [wk EXCEPT ![t] = "failed"]
    /\ errorCode' = 1
    /\ \/ sessions' = sessions \ SessionsOf(t)
       \/ \E s \in SessionsOf(t) \cap sessions :
             sessions' = (sessions \ SessionsOf(t)) \cup {s}
    /\ UNCHANGED <<disk, main, handler, terminated, group, conns, code, gone, late, once>>

\* CopyManager.Copy returns, the rest of doCopy runs, Run returns or fails.
CopyReturns ==
    /\ Alive /\ main = "copy" /\ Busy = {}
    /\ \/ gone = Jobs
       \/ \A t \in Tables : wk[t] \notin {"todo", "queued"}
    /\ \/ main' = "check" /\ UNCHANGED errorCode
       \/ Fatal
    /\ UNCHANGED <<disk, work, once, handler, terminated, group, conns, code>>

-----------------------------------------------------------------------------
(* Teardown: the main goroutine and the signal handler both run doCleanup.  *)

\* SIGINT or SIGTERM: the flag is set before the cleanup begins.
Signal ==
    /\ Alive /\ handler = "idle"
    /\ terminated' = TRUE /\ handler' = "begin"
    /\ UNCHANGED <<disk, work, once, main, group, conns, errorCode, code>>

\* (Variant: doTeardown waits whether or not there was a signal.)
TeardownAlwaysWaits ==
    /\ Alive /\ main = "check"
    /\ main' = "wait"
    /\ UNCHANGED <<disk, work, once, handler, terminated, group, conns, errorCode, code>>

\* doTeardown's look at WasTerminated.
Teardown ==
    /\ Alive /\ main = "check"
    /\ main' = IF terminated THEN "wait" ELSE "begin"
    /\ late' = IF terminated THEN late ELSE Tables
    /\ UNCHANGED <<disk, wk, gone, sessions, once, handler, terminated, group, conns, errorCode, code>>

\* (Variant: nobody waits for the handler's cleanup.)
NoWait ==
    /\ Alive /\ main = "wait"
    /\ main' = "begin"
    /\ UNCHANGED <<disk, work, once, handler, terminated, group, conns, errorCode, code>>

\* CleanupGroup.Wait, then the deferred doCleanup of doTeardown.
WaitCleanup ==
    /\ Alive /\ main = "wait" /\ group = 0
    /\ main' = "begin"
    /\ UNCHANGED <<disk, work, once, handler, terminated, group, conns, errorCode, code>>

At(who) == IF who = "main" THEN main ELSE handler
GoTo(who, where) ==
    IF who = "main" THEN main' = where /\ UNCHANGED handler
                    ELSE handler' = where /\ UNCHANGED main

\* (Variant: the connections are closed before the sessions are terminated.)
CloseFirst(who) ==
    /\ Alive /\ At(who) = "begin"
    /\ GoTo(who, IF terminated THEN "kill src" ELSE "close")
    /\ conns' = {}
    /\ UNCHANGED <<disk, work, once, terminated, group, errorCode, code>>

\* doCleanup reads the flag once.
BeginCleanup(who) ==
    /\ Alive /\ At(who) = "begin"
    /\ GoTo(who, IF terminated THEN "kill src" ELSE "close")
    /\ UNCHANGED <<disk, work, once, terminated, group, conns, errorCode, code>>

\* TerminateHangingCopySessions on one side.  Without its connection it panics
\* on the source (doCleanup recovers and goes on to Done) and is not called on
\* the destination; a type it does not know is an error.
TerminateHangingCopySessions(who, side) ==
    /\ Alive /\ At(who) = (IF side = "src" THEN "kill src" ELSE "kill dest")
    /\ IF side \notin conns
       THEN GoTo(who, IF side = "src" THEN "done" ELSE "close")
       ELSE GoTo(who, IF side = "src" THEN "kill dest" ELSE "close")
    /\ errorCode' = IF side \in conns \ handled THEN 1 ELSE errorCode
    /\ sessions' = IF side \in conns \cap handled
                   THEN {s \in sessions : s.side # side}
                   ELSE sessions
    /\ UNCHANGED <<disk, once, terminated, group, conns, code, wk, gone, late>>

CloseConns(who) ==
    /\ Alive /\ At(who) = "close"
    /\ GoTo(who, "done")
    /\ conns' = {}
    /\ UNCHANGED <<disk, work, once, terminated, group, errorCode, code>>

\* CleanupGroup.Done stands after the recover: a negative counter ends the
\* process.
Done(who) ==
    /\ Alive /\ At(who) = "done"
    /\ group' = group - 1
    /\ IF group = 0
       THEN code' = 2 /\ UNCHANGED <<main, handler>>
       ELSE GoTo(who, "exit") /\ UNCHANGED code
    /\ UNCHANGED <<disk, work, once, terminated, conns, errorCode>>

\* os.Exit: 2 from the handler, gplog's error code from doTeardown.
Exit(who) ==
    /\ Alive /\ At(who) = "exit"
    /\ code' = IF who = "main" THEN errorCode ELSE 2
    /\ UNCHANGED <<disk, work, once, main, handler, terminated, group, conns, errorCode>>

\* The process is killed, or a goroutine nobody recovers panics (a Fatal in the
\* restore goroutine, a worker that polls through a closed connection).
Crash ==
    /\ Alive
    /\ code' = 2 /\ main' = "crashed"
    /\ UNCHANGED <<disk, work, once, handler, terminated, group, conns, errorCode>>

-----------------------------------------------------------------------------
(* Outside the process.                                                     *)

\* Backends whose statement was cancelled or whose client is gone end.
Unattended(t) ==
    {s \in sessions : s.table = t /\ (~Alive \/ wk[t] = "failed")}
SessionsEnd(t) ==
    /\ Unattended(t) # {}
    /\ sessions' = sessions \ Unattended(t)
    /\ UNCHANGED <<disk, proc, wk, gone, late, once>>

\* The README's retry: all tables but the ones in the succeed files.  With
\* --skip-existing a table that exists is no longer selected either.  The
\* server has dropped the backends of the dead process (a TRUNCATE would wait
\* for their locks).
Retry ==
    /\ ~Alive /\ run < MaxRuns /\ code # 0 /\ sessions = {}
    /\ run' = run + 1
    /\ wk' = [t \in Tables |->
                IF t \in succeeded \/ (mode = "skip" /\ t \in created)
                THEN "excluded" ELSE "todo"]
    /\ main' = "src" /\ handler' = "idle" /\ terminated' = FALSE
    /\ group' = 1 /\ conns' = {} /\ errorCode' = 0 /\ code' = None
    /\ gone' = 0 /\ late' = {}
    /\ UNCHANGED <<disk, mode, handled, empty, sessions>>

Ended == ~Alive /\ (run = MaxRuns \/ code = 0) /\ sessions = {} /\ UNCHANGED vars

Worker(t) == Take(t) \/ Skip(t) \/ Load(t) \/ Commit(t) \/ Record(t) \/ Fail(t)
Cleanup(who) ==
    \/ BeginCleanup(who) \/ CloseConns(who) \/ Done(who) \/ Exit(who)
    \/ \E side \in Sides : TerminateHangingCopySessions(who, side)
Main ==
    \/ Setup \/ CopyReturns \/ Teardown \/ WaitCleanup \/ Cleanup("main")
    \/ \E t \in Tables : Create(t)

Next ==
    \/ Main \/ Signal \/ Cleanup("handler") \/ Crash
    \/ \E t \in Tables : Worker(t)
    \/ \E t \in Tables : SessionsEnd(t)
    \/ Retry \/ Ended

\* Goroutines that can run do run, a COPY ends one way or the other, and the
\* server drops the backends nobody waits for.  Nobody has to send a signal,
\* kill the process or retry.
Spec ==
    /\ Init /\ [][Next]_vars
    /\ WF_vars(Main) /\ WF_vars(Cleanup("handler"))
    /\ WF_vars(\E t \in Tables : Worker(t))
    /\ WF_vars(\E t \in Tables : SessionsEnd(t))

-----------------------------------------------------------------------------
(* Properties.                                                              *)

\* Exit status 0 (doTeardown's "Copy completed successfully") means that every
\* selected table has its line in a cbcopy_succeed file, except a table that is
\* empty on the source: that one has its line in cbcopy_skipped, and what the
\* destination table held it still holds, --truncate or not (TruncateClears of
\* CopyOperation).  A table with rows is never skipped, and a signal that made
\* workers return early must not end in 0, whichever goroutine exits first:
\* what prevents it is the second CleanupGroup.Done, which panics.
\* --skip-existing runs after a failure leave out what the failed run created.
ZeroIsComplete ==
    code = 0 => \A t \in Tables :
                   \/ t \in succeeded
                   \/ wk[t] = "skipped" /\ t \in empty
                   \/ wk[t] = "excluded"

\* A process that a signal ended and that reached its os.Exit (or the panic of
\* the second Done) leaves no backend running on a cluster whose type
\* TerminateHangingCopySessions knows, except COPYs begun by workers that had
\* passed their look at WasTerminated before the signal, and statements that
\* failed copies left behind when doTeardown had passed its own.
NoOrphans ==
    (~Alive /\ terminated /\ main # "crashed" /\ handler \notin {"begin", "kill src", "kill dest"})
        => \A s \in sessions : s.side \notin handled \/ s.table \in late

\* Retries as the README describes them neither lose nor repeat a table: a table
\* with a line in a cbcopy_succeed file holds its rows, exactly once under
\* --truncate; under --append once more for each commit that was followed by a
\* crash, or by a lost answer, instead of its line.
LoadedOnce ==
    \A t \in Tables :
       /\ t \in succeeded /\ mode = "truncate" => loads[t] = 1
       /\ mode # "truncate" => loads[t] = unrecorded[t] + (IF t \in succeeded THEN 1 ELSE 0)

\* Every process ends: the teardown of the main goroutine never waits for a
\* cleanup that nobody runs.
RunEnds == Alive ~> ~Alive
=============================================================================
