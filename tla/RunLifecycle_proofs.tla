------------------------ MODULE RunLifecycle_proofs ------------------------
(***************************************************************************)
(* Proofs about RunLifecycle, for any set of tables, any number of copy    *)
(* jobs and any number of retries.                                         *)
(***************************************************************************)
EXTENDS RunLifecycle, TLAPS

----------------------------------------------------------------------------
(* Types. *)

WkStates == {"todo", "queued", "taken", "loading", "committed", "succeeded",
             "failed", "dropped", "excluded", "skipped"}
CleanupPcs == {"begin", "kill src", "kill dest", "close", "done", "exit"}
MainPcs == {"src", "dest", "copy", "check", "wait", "crashed"} \cup CleanupPcs
Session == [side : Sides, table : Tables]

\* Where the goroutines, the tables and the backends are; the flag is set
\* exactly when the handler has been woken.
ControlType ==
    /\ mode \in {"truncate", "append", "skip"} /\ handled \subseteq Sides
    /\ main \in MainPcs /\ handler \in {"idle"} \cup CleanupPcs
    /\ terminated \in BOOLEAN /\ (terminated <=> handler # "idle")
    /\ conns \subseteq Sides
    /\ wk \in [Tables -> WkStates]
    /\ sessions \subseteq Session /\ late \subseteq Tables
    /\ succeeded \subseteq Tables /\ created \subseteq Tables /\ empty \subseteq Tables

\* The counters and the codes.
CountType ==
    /\ group \in Int /\ gone \in Nat
    /\ errorCode \in {0, 1, 2} /\ code \in {None, 0, 1, 2}
    /\ loads \in [Tables -> Int] /\ unrecorded \in [Tables -> Int]

LifeType == ControlType /\ CountType

----------------------------------------------------------------------------
(* What survives a process. *)

\* A line in a succeed file belongs to a table this process has finished with or
\* leaves out, and --truncate makes the committed load the only one.
DiskInv ==
    \A t \in Tables :
        /\ t \in succeeded => wk[t] \in {"succeeded", "excluded"}
        /\ wk[t] = "succeeded" => t \in succeeded
        /\ wk[t] = "skipped" => t \in empty
        /\ wk[t] = "committed" /\ mode = "truncate" => loads[t] = 1

----------------------------------------------------------------------------
(* The exit status. *)

\* Every table of this process has been copied or skipped, or is not in its
\* selection.
Complete == \A t \in Tables : wk[t] \in {"succeeded", "skipped", "excluded"}

\* Who has called CleanupGroup.Done: while the process lives, at most one of
\* the two goroutines, for the second call ends the process.
DoneInv ==
    Alive => /\ ~(main = "exit" /\ handler = "exit")
             /\ main = "exit" \/ handler = "exit" => group = 0
             /\ main # "exit" /\ handler # "exit" => group = 1

\* An error code of 0 means that no copy failed; workers return early only after
\* a signal; and main goes past its look at the flag with an error code of 0 only
\* when the copies are complete, or after the handler's Done, in which case its
\* own Done ends the process.
StatusInv ==
    /\ \A t \in Tables : wk[t] = "failed" => errorCode # 0
    /\ \A t \in Tables : wk[t] = "dropped" => terminated
    /\ gone # 0 => terminated
    /\ main = "check" /\ errorCode = 0 => Complete \/ terminated
    /\ main = "wait" => terminated
    /\ main \in CleanupPcs /\ errorCode = 0 =>
          Complete \/ (handler = "exit" /\ main # "exit")
    /\ code = 0 => Complete

----------------------------------------------------------------------------
(* The backends. *)

\* No backend on a side in S that the handler could have ended.
NoneOn(S) ==
    \A s \in sessions : s.side \in S \cap handled => s.table \in late

\* Nothing has been copied and nothing will be.
Idle ==
    /\ main # "copy" /\ sessions = {}
    /\ \A t \in Tables : wk[t] \in {"todo", "excluded"}

\* The management connections are there while the handler needs them, unless
\* there is nothing to end or main has passed its look at the flag; the handler
\* ends the backends of one side after the other.
OrphanInv ==
    /\ main = "dest" => "src" \in conns \/ handler \in {"done", "exit"}
    /\ main \in Sides => Idle
    /\ main \in CleanupPcs => late = Tables \/ handler = "exit"
    /\ conns = Sides \/ late = Tables \/ Idle \/ handler \in {"done", "exit"}
    /\ handler = "kill dest" => NoneOn({"src"})
    /\ handler \in {"close", "done", "exit"} => NoneOn(Sides)

----------------------------------------------------------------------------
\* The two backends of a table's copy.
LEMMA SessionsOfType ==
  ASSUME NEW t \in Tables
  PROVE  SessionsOf(t) \subseteq Session /\ \A s \in SessionsOf(t) : s.table = t
  BY DEF SessionsOf, Session

\* The first process starts with variables of their types.
LEMMA InitType == Init => LifeType
  <1> SUFFICES ASSUME Init PROVE ControlType /\ CountType
    BY DEF LifeType
  <1> USE DEF Init, Initialize
  <1>1. ControlType
    BY EmptySetsAssumption DEF ControlType, Sides, MainPcs, CleanupPcs, WkStates
  <1>2. CountType
    BY DEF CountType
  <1> QED
    BY <1>1, <1>2

\* No step takes the main goroutine, the handler or the process out of its type.
LEMMA NextControl == ASSUME ControlType, [Next]_vars PROVE ControlType'
  <1> USE DEF ControlType, MainPcs, CleanupPcs, WkStates, Session, Sides, Alive,
             disk, proc, work, once
  <1>1. CASE Setup
    BY <1>1 DEF Setup, Fatal
  <1>2. CASE CopyReturns
    BY <1>2 DEF CopyReturns, Fatal
  <1>3. CASE Teardown
    BY <1>3 DEF Teardown
  <1>4. CASE WaitCleanup
    BY <1>4 DEF WaitCleanup
  <1>5. CASE Signal
    BY <1>5 DEF Signal
  <1>6. CASE Crash
    BY <1>6 DEF Crash
  <1>7. CASE Retry
    BY <1>7 DEF Retry
  <1>8. ASSUME NEW t \in Tables, Create(t) PROVE ControlType'
    BY <1>8 DEF Create
  <1>9. ASSUME NEW t \in Tables, Take(t) PROVE ControlType'
    BY <1>9 DEF Take
  <1>21. ASSUME NEW t \in Tables, Skip(t) PROVE ControlType'
    BY <1>21 DEF Skip
  <1>10. ASSUME NEW t \in Tables, Load(t) PROVE ControlType'
    BY <1>10, SessionsOfType DEF Load
  <1>11. ASSUME NEW t \in Tables, Commit(t) PROVE ControlType'
    BY <1>11 DEF Commit, SessionsOf
  <1>12. ASSUME NEW t \in Tables, Record(t) PROVE ControlType'
    BY <1>12 DEF Record
  <1>13. ASSUME NEW t \in Tables, Fail(t) PROVE ControlType'
    BY <1>13 DEF Fail, SessionsOf
  <1>14. ASSUME NEW t \in Tables, SessionsEnd(t) PROVE ControlType'
    BY <1>14 DEF SessionsEnd, Unattended
  <1>15. ASSUME NEW who \in {"main", "handler"}, BeginCleanup(who) PROVE ControlType'
    BY <1>15 DEF BeginCleanup, At, GoTo
  <1>16. ASSUME NEW who \in {"main", "handler"}, CloseConns(who) PROVE ControlType'
    BY <1>16 DEF CloseConns, At, GoTo
  <1>17. ASSUME NEW who \in {"main", "handler"}, Done(who) PROVE ControlType'
    BY <1>17 DEF Done, At, GoTo
  <1>18. ASSUME NEW who \in {"main", "handler"}, Exit(who) PROVE ControlType'
    BY <1>18 DEF Exit, At, GoTo
  <1>19. ASSUME NEW who \in {"main", "handler"}, NEW side \in Sides,
                TerminateHangingCopySessions(who, side)
         PROVE  ControlType'
    BY <1>19 DEF TerminateHangingCopySessions, At, GoTo
  <1>20. CASE UNCHANGED vars
    BY <1>20 DEF vars
  <1> QED
    BY <1>1, <1>2, <1>3, <1>4, <1>5, <1>6, <1>7, <1>8, <1>9, <1>10,
       <1>11, <1>12, <1>13, <1>14, <1>15, <1>16, <1>17, <1>18, <1>19, <1>20, <1>21
    DEF Next, Main, Worker, Cleanup, Ended

\* No step takes a counter or a code out of its type.
LEMMA NextCount == ASSUME ControlType, CountType, [Next]_vars PROVE CountType'
  <1> USE DEF ControlType, CountType, disk, proc, work, once
  <1>1. CASE Setup
    BY <1>1 DEF Setup, Fatal
  <1>2. CASE CopyReturns
    BY <1>2 DEF CopyReturns, Fatal
  <1>3. CASE Teardown
    BY <1>3 DEF Teardown
  <1>4. CASE WaitCleanup
    BY <1>4 DEF WaitCleanup
  <1>5. CASE Signal
    BY <1>5 DEF Signal
  <1>6. CASE Crash
    BY <1>6 DEF Crash
  <1>7. CASE Retry
    BY <1>7 DEF Retry
  <1>8. ASSUME NEW t \in Tables, Create(t) PROVE CountType'
    BY <1>8 DEF Create
  <1>9. ASSUME NEW t \in Tables, Take(t) PROVE CountType'
    BY <1>9 DEF Take
  <1>21. ASSUME NEW t \in Tables, Skip(t) PROVE CountType'
    BY <1>21 DEF Skip
  <1>10. ASSUME NEW t \in Tables, Load(t) PROVE CountType'
    BY <1>10 DEF Load, SessionsOf
  <1>11. ASSUME NEW t \in Tables, Commit(t) PROVE CountType'
    BY <1>11 DEF Commit, SessionsOf
  <1>12. ASSUME NEW t \in Tables, Record(t) PROVE CountType'
    BY <1>12 DEF Record
  <1>13. ASSUME NEW t \in Tables, Fail(t) PROVE CountType'
    BY <1>13 DEF Fail, SessionsOf
  <1>14. ASSUME NEW t \in Tables, SessionsEnd(t) PROVE CountType'
    BY <1>14 DEF SessionsEnd, Unattended
  <1>15. ASSUME NEW who \in {"main", "handler"}, BeginCleanup(who) PROVE CountType'
    BY <1>15 DEF BeginCleanup, At, GoTo
  <1>16. ASSUME NEW who \in {"main", "handler"}, CloseConns(who) PROVE CountType'
    BY <1>16 DEF CloseConns, At, GoTo
  <1>17. ASSUME NEW who \in {"main", "handler"}, Done(who) PROVE CountType'
    BY <1>17 DEF Done, At, GoTo
  <1>18. ASSUME NEW who \in {"main", "handler"}, Exit(who) PROVE CountType'
    BY <1>18 DEF Exit, At, GoTo
  <1>19. ASSUME NEW who \in {"main", "handler"}, NEW side \in Sides,
                TerminateHangingCopySessions(who, side)
         PROVE  CountType'
    BY <1>19 DEF TerminateHangingCopySessions, At, GoTo
  <1>20. CASE UNCHANGED vars
    BY <1>20 DEF vars
  <1> QED
    BY <1>1, <1>2, <1>3, <1>4, <1>5, <1>6, <1>7, <1>8, <1>9, <1>10,
       <1>11, <1>12, <1>13, <1>14, <1>15, <1>16, <1>17, <1>18, <1>19, <1>20, <1>21
    DEF Next, Main, Worker, Cleanup, Ended

\* No step breaks a type.
LEMMA NextType == ASSUME LifeType, [Next]_vars PROVE LifeType'
  BY NextControl, NextCount DEF LifeType

\* Nothing has been loaded when the first run starts.
LEMMA DiskInit == Init => DiskInv /\ LoadedOnce
  BY DEF Init, DiskInv, LoadedOnce

\* No step, in a first run or in a retry, breaks what is on disk.
LEMMA DiskNext ==
  ASSUME LifeType, DiskInv, LoadedOnce, [Next]_vars PROVE (DiskInv /\ LoadedOnce)'
  <1> USE DEF LifeType, ControlType, CountType, DiskInv, LoadedOnce, WkStates,
             disk, proc, work, once
  <1>1. CASE Setup
    BY <1>1 DEF Setup, Fatal
  <1>2. CASE CopyReturns
    BY <1>2 DEF CopyReturns, Fatal
  <1>3. CASE Teardown
    BY <1>3 DEF Teardown
  <1>4. CASE WaitCleanup
    BY <1>4 DEF WaitCleanup
  <1>5. CASE Signal
    BY <1>5 DEF Signal
  <1>6. CASE Crash
    BY <1>6 DEF Crash
  <1>7. CASE Retry
    BY <1>7 DEF Retry
  <1>8. ASSUME NEW t \in Tables, Create(t) PROVE (DiskInv /\ LoadedOnce)'
    BY <1>8 DEF Create
  <1>9. ASSUME NEW t \in Tables, Take(t) PROVE (DiskInv /\ LoadedOnce)'
    BY <1>9 DEF Take
  <1>21. ASSUME NEW t \in Tables, Skip(t) PROVE (DiskInv /\ LoadedOnce)'
    BY <1>21 DEF Skip
  <1>10. ASSUME NEW t \in Tables, Load(t) PROVE (DiskInv /\ LoadedOnce)'
    BY <1>10 DEF Load, SessionsOf
  <1>11. ASSUME NEW t \in Tables, Commit(t) PROVE (DiskInv /\ LoadedOnce)'
    BY <1>11 DEF Commit, SessionsOf
  <1>12. ASSUME NEW t \in Tables, Record(t) PROVE (DiskInv /\ LoadedOnce)'
    BY <1>12 DEF Record
  <1>13. ASSUME NEW t \in Tables, Fail(t) PROVE (DiskInv /\ LoadedOnce)'
    BY <1>13 DEF Fail, SessionsOf
  <1>14. ASSUME NEW t \in Tables, SessionsEnd(t) PROVE (DiskInv /\ LoadedOnce)'
    BY <1>14 DEF SessionsEnd, Unattended
  <1>15. ASSUME NEW who \in {"main", "handler"}, BeginCleanup(who)
         PROVE  (DiskInv /\ LoadedOnce)'
    BY <1>15 DEF BeginCleanup, At, GoTo
  <1>16. ASSUME NEW who \in {"main", "handler"}, CloseConns(who)
         PROVE  (DiskInv /\ LoadedOnce)'
    BY <1>16 DEF CloseConns, At, GoTo
  <1>17. ASSUME NEW who \in {"main", "handler"}, Done(who)
         PROVE  (DiskInv /\ LoadedOnce)'
    BY <1>17 DEF Done, At, GoTo
  <1>18. ASSUME NEW who \in {"main", "handler"}, Exit(who)
         PROVE  (DiskInv /\ LoadedOnce)'
    BY <1>18 DEF Exit, At, GoTo
  <1>19. ASSUME NEW who \in {"main", "handler"}, NEW side \in Sides,
                TerminateHangingCopySessions(who, side)
         PROVE  (DiskInv /\ LoadedOnce)'
    BY <1>19 DEF TerminateHangingCopySessions, At, GoTo
  <1>20. CASE UNCHANGED vars
    BY <1>20 DEF vars
  <1> QED
    BY <1>1, <1>2, <1>3, <1>4, <1>5, <1>6, <1>7, <1>8, <1>9, <1>10,
       <1>11, <1>12, <1>13, <1>14, <1>15, <1>16, <1>17, <1>18, <1>19, <1>20, <1>21
    DEF Next, Main, Worker, Cleanup, Ended

\* The exit codes are numbers, different from one another and from None.
LEMMA Codes == None \notin {0, 1, 2} /\ 1 # 0 /\ 2 # 0 /\ 1 - 1 = 0
  BY DEF None

\* Nothing is done when a run starts.
LEMMA DoneInit == Init => DoneInv
  BY DEF Init, Initialize, DoneInv

\* No step breaks DoneInv.
LEMMA DoneNext == ASSUME LifeType, DoneInv, [Next]_vars PROVE DoneInv'
  <1> USE DEF LifeType, ControlType, CountType, DoneInv, MainPcs, CleanupPcs, Alive, Sides,
             disk, proc, work, once
  <1>1. CASE Setup
    BY <1>1, Codes DEF Setup, Fatal
  <1>2. CASE CopyReturns
    BY <1>2, Codes DEF CopyReturns, Fatal
  <1>3. CASE Teardown
    BY <1>3, Codes DEF Teardown
  <1>4. CASE WaitCleanup
    BY <1>4, Codes DEF WaitCleanup
  <1>5. CASE Signal
    BY <1>5, Codes DEF Signal
  <1>6. CASE Crash
    BY <1>6, Codes DEF Crash
  <1>7. CASE Retry
    BY <1>7, Codes DEF Retry
  <1>8. ASSUME NEW t \in Tables, Create(t) PROVE DoneInv'
    BY <1>8, Codes DEF Create
  <1>9. ASSUME NEW t \in Tables, Take(t) PROVE DoneInv'
    BY <1>9, Codes DEF Take
  <1>21. ASSUME NEW t \in Tables, Skip(t) PROVE DoneInv'
    BY <1>21, Codes DEF Skip
  <1>10. ASSUME NEW t \in Tables, Load(t) PROVE DoneInv'
    BY <1>10, Codes DEF Load, SessionsOf
  <1>11. ASSUME NEW t \in Tables, Commit(t) PROVE DoneInv'
    BY <1>11, Codes DEF Commit, SessionsOf
  <1>12. ASSUME NEW t \in Tables, Record(t) PROVE DoneInv'
    BY <1>12, Codes DEF Record
  <1>13. ASSUME NEW t \in Tables, Fail(t) PROVE DoneInv'
    BY <1>13, Codes DEF Fail, SessionsOf
  <1>14. ASSUME NEW t \in Tables, SessionsEnd(t) PROVE DoneInv'
    BY <1>14, Codes DEF SessionsEnd, Unattended
  <1>15. ASSUME NEW who \in {"main", "handler"}, BeginCleanup(who) PROVE DoneInv'
    BY <1>15, Codes DEF BeginCleanup, At, GoTo
  <1>16. ASSUME NEW who \in {"main", "handler"}, CloseConns(who) PROVE DoneInv'
    BY <1>16, Codes DEF CloseConns, At, GoTo
  <1>17. ASSUME NEW who \in {"main", "handler"}, Done(who) PROVE DoneInv'
    BY <1>17, Codes DEF Done, At, GoTo
  <1>18. ASSUME NEW who \in {"main", "handler"}, Exit(who) PROVE DoneInv'
    BY <1>18, Codes DEF Exit, At, GoTo
  <1>19. ASSUME NEW who \in {"main", "handler"}, NEW side \in Sides,
                TerminateHangingCopySessions(who, side)
         PROVE  DoneInv'
    BY <1>19, Codes DEF TerminateHangingCopySessions, At, GoTo
  <1>20. CASE UNCHANGED vars
    BY <1>20 DEF vars
  <1> QED
    BY <1>1, <1>2, <1>3, <1>4, <1>5, <1>6, <1>7, <1>8, <1>9, <1>10,
       <1>11, <1>12, <1>13, <1>14, <1>15, <1>16, <1>17, <1>18, <1>19, <1>20, <1>21
    DEF Next, Main, Worker, Cleanup, Ended

\* No status is set when a run starts.
LEMMA StatusInit == Init => StatusInv
  BY DEF Init, Initialize, StatusInv, CleanupPcs, None

\* No step breaks StatusInv: doTeardown and the handler set the status they exit with.
LEMMA StatusNext == ASSUME LifeType, DoneInv, StatusInv, [Next]_vars PROVE StatusInv'
  <1> USE DEF LifeType, ControlType, CountType, DoneInv, StatusInv, Complete, WkStates,
             MainPcs, CleanupPcs, Alive, Sides, Busy, disk, proc, work, once
  <1>1. CASE Setup
    BY <1>1, Codes DEF Setup, Fatal
  <1>2. CASE CopyReturns
    <2>1. CASE errorCode' = 0
      <3>1. errorCode = 0 /\ Busy = {} /\ UNCHANGED <<wk, gone, terminated, handler, code>>
        BY <1>2, <2>1, Codes DEF CopyReturns, Fatal
      <3>2. ASSUME gone = Jobs PROVE terminated
        <4>1. gone # 0
          BY <3>2, JobsAssumption
        <4> QED
          BY <4>1
      <3>3. ASSUME \A t \in Tables : wk[t] \notin {"todo", "queued"}, ~terminated
            PROVE  Complete
        BY <3>1, <3>3
      <3>4. gone = Jobs \/ \A t \in Tables : wk[t] \notin {"todo", "queued"}
        BY <1>2 DEF CopyReturns
      <3>5. main' = "check"
        BY <1>2 DEF CopyReturns, Fatal
      <3> QED
        BY <2>1, <3>1, <3>2, <3>3, <3>4, <3>5
    <2>2. CASE errorCode' # 0
      BY <1>2, <2>2 DEF CopyReturns, Fatal
    <2> QED
      BY <2>1, <2>2
  <1>3. CASE Teardown
    BY <1>3, Codes DEF Teardown
  <1>4. CASE WaitCleanup
    BY <1>4, Codes DEF WaitCleanup
  <1>5. CASE Signal
    BY <1>5, Codes DEF Signal
  <1>6. CASE Crash
    BY <1>6, Codes DEF Crash
  <1>7. CASE Retry
    BY <1>7, Codes DEF Retry
  <1>8. ASSUME NEW t \in Tables, Create(t) PROVE StatusInv'
    BY <1>8, Codes DEF Create
  <1>9. ASSUME NEW t \in Tables, Take(t) PROVE StatusInv'
    BY <1>9, Codes DEF Take
  <1>21. ASSUME NEW t \in Tables, Skip(t) PROVE StatusInv'
    BY <1>21, Codes DEF Skip
  <1>10. ASSUME NEW t \in Tables, Load(t) PROVE StatusInv'
    BY <1>10, Codes DEF Load, SessionsOf
  <1>11. ASSUME NEW t \in Tables, Commit(t) PROVE StatusInv'
    BY <1>11, Codes DEF Commit, SessionsOf
  <1>12. ASSUME NEW t \in Tables, Record(t) PROVE StatusInv'
    BY <1>12, Codes DEF Record
  <1>13. ASSUME NEW t \in Tables, Fail(t) PROVE StatusInv'
    BY <1>13, Codes DEF Fail, SessionsOf
  <1>14. ASSUME NEW t \in Tables, SessionsEnd(t) PROVE StatusInv'
    BY <1>14, Codes DEF SessionsEnd, Unattended
  <1>15. ASSUME NEW who \in {"main", "handler"}, BeginCleanup(who) PROVE StatusInv'
    BY <1>15, Codes DEF BeginCleanup, At, GoTo
  <1>16. ASSUME NEW who \in {"main", "handler"}, CloseConns(who) PROVE StatusInv'
    BY <1>16, Codes DEF CloseConns, At, GoTo
  <1>17. ASSUME NEW who \in {"main", "handler"}, Done(who) PROVE StatusInv'
    BY <1>17, Codes DEF Done, At, GoTo
  <1>18. ASSUME NEW who \in {"main", "handler"}, Exit(who) PROVE StatusInv'
    BY <1>18, Codes DEF Exit, At, GoTo
  <1>19. ASSUME NEW who \in {"main", "handler"}, NEW side \in Sides,
                TerminateHangingCopySessions(who, side)
         PROVE  StatusInv'
    BY <1>19, Codes DEF TerminateHangingCopySessions, At, GoTo
  <1>20. CASE UNCHANGED vars
    BY <1>20 DEF vars
  <1> QED
    BY <1>1, <1>2, <1>3, <1>4, <1>5, <1>6, <1>7, <1>8, <1>9, <1>10,
       <1>11, <1>12, <1>13, <1>14, <1>15, <1>16, <1>17, <1>18, <1>19, <1>20, <1>21
    DEF Next, Main, Worker, Cleanup, Ended

\* There is no session before a run starts.
LEMMA OrphanInit == Init => OrphanInv
  BY DEF Init, Initialize, OrphanInv, Idle, CleanupPcs, NoneOn, Sides

\* No step breaks OrphanInv: the handler ends the backends of one side after the other.
LEMMA OrphanNext == ASSUME LifeType, DoneInv, OrphanInv, [Next]_vars PROVE OrphanInv'
  <1> USE DEF LifeType, ControlType, DoneInv, OrphanInv, Idle, NoneOn, Session, WkStates,
             MainPcs, CleanupPcs, None, Alive, Sides,
             disk, proc, work, once
  <1>1. CASE Setup
    BY <1>1 DEF Setup, Fatal
  <1>2. CASE CopyReturns
    BY <1>2 DEF CopyReturns, Fatal
  <1>3. CASE Teardown
    BY <1>3 DEF Teardown
  <1>4. CASE WaitCleanup
    BY <1>4, Codes DEF WaitCleanup
  <1>5. CASE Signal
    BY <1>5 DEF Signal
  <1>6. CASE Crash
    BY <1>6 DEF Crash
  <1>7. CASE Retry
    BY <1>7 DEF Retry
  <1>8. ASSUME NEW t \in Tables, Create(t) PROVE OrphanInv'
    BY <1>8 DEF Create
  <1>9. ASSUME NEW t \in Tables, Take(t) PROVE OrphanInv'
    BY <1>9 DEF Take
  <1>21. ASSUME NEW t \in Tables, Skip(t) PROVE OrphanInv'
    BY <1>21 DEF Skip
  <1>10. ASSUME NEW t \in Tables, Load(t) PROVE OrphanInv'
    <2>1. /\ wk[t] = "taken" /\ sessions' = sessions \cup SessionsOf(t)
          /\ UNCHANGED <<main, handler, terminated, conns, handled>>
          /\ late' = IF terminated THEN late \cup {t} ELSE late
      BY <1>10 DEF Load
    <2>2. ~Idle /\ late \subseteq late' /\ (late = Tables => late' = Tables)
      BY <2>1
    <2>3. ASSUME handler \in {"kill dest", "close", "done", "exit"}, NEW S, NoneOn(S)
          PROVE  NoneOn(S)'
      BY <2>1, <2>3, SessionsOfType
    <2> QED
      BY <2>1, <2>2, <2>3
  <1>11. ASSUME NEW t \in Tables, Commit(t) PROVE OrphanInv'
    BY <1>11 DEF Commit, SessionsOf
  <1>12. ASSUME NEW t \in Tables, Record(t) PROVE OrphanInv'
    BY <1>12 DEF Record
  <1>13. ASSUME NEW t \in Tables, Fail(t) PROVE OrphanInv'
    BY <1>13 DEF Fail, SessionsOf
  <1>14. ASSUME NEW t \in Tables, SessionsEnd(t) PROVE OrphanInv'
    BY <1>14 DEF SessionsEnd, Unattended
  <1>15. ASSUME NEW who \in {"main", "handler"}, BeginCleanup(who) PROVE OrphanInv'
    BY <1>15 DEF BeginCleanup, At, GoTo
  <1>16. ASSUME NEW who \in {"main", "handler"}, CloseConns(who) PROVE OrphanInv'
    BY <1>16 DEF CloseConns, At, GoTo
  <1>17. ASSUME NEW who \in {"main", "handler"}, Done(who) PROVE OrphanInv'
    BY <1>17 DEF Done, At, GoTo
  <1>18. ASSUME NEW who \in {"main", "handler"}, Exit(who) PROVE OrphanInv'
    BY <1>18 DEF Exit, At, GoTo
  <1>19. ASSUME NEW who \in {"main", "handler"}, NEW side \in Sides,
                TerminateHangingCopySessions(who, side)
         PROVE  OrphanInv'
    BY <1>19 DEF TerminateHangingCopySessions, At, GoTo
  <1>20. CASE UNCHANGED vars
    BY <1>20 DEF vars
  <1> QED
    BY <1>1, <1>2, <1>3, <1>4, <1>5, <1>6, <1>7, <1>8, <1>9, <1>10,
       <1>11, <1>12, <1>13, <1>14, <1>15, <1>16, <1>17, <1>18, <1>19, <1>20, <1>21
    DEF Next, Main, Worker, Cleanup, Ended

----------------------------------------------------------------------------
(* The theorems. *)

\* What the invariants need of a behaviour: how it starts and what its steps are.
LEMMA StepsOf == Spec => Init /\ [][Next]_vars
  BY PTL DEF Spec

\* The types hold throughout.
LEMMA LifeTypeHolds == Spec => []LifeType
  BY StepsOf, InitType, NextType, PTL

\* Retries over cbcopy_succeed files neither lose nor repeat a table, however
\* often cbcopy is started and wherever each process ends: a recorded table holds
\* its rows once under --truncate, and under --append once per commit.
THEOREM LoadedOnceHolds == Spec => []LoadedOnce
  <1>1. Init => DiskInv /\ LoadedOnce
    BY DiskInit
  <1>2. LifeType /\ DiskInv /\ LoadedOnce /\ [Next]_vars => (DiskInv /\ LoadedOnce)'
    BY DiskNext
  <1> QED
    BY <1>1, <1>2, StepsOf, LifeTypeHolds, PTL

\* What the exit status says holds throughout.
LEMMA ExitsSafely == Spec => [](DoneInv /\ StatusInv)
  <1>1. Init => DoneInv /\ StatusInv
    BY DoneInit, StatusInit
  <1>2. LifeType /\ DoneInv /\ StatusInv /\ [Next]_vars => (DoneInv /\ StatusInv)'
    BY DoneNext, StatusNext
  <1> QED
    BY <1>1, <1>2, StepsOf, LifeTypeHolds, PTL

\* Exit status 0 means that every selected table is in a cbcopy_succeed file, or
\* is empty on the source and in cbcopy_skipped, whenever a signal comes and whichever of the two goroutines cleans up first:
\* with an incomplete copy, main's Done is the second one and ends the process.
THEOREM ZeroIsCompleteHolds == Spec => []ZeroIsComplete
  <1>1. DiskInv /\ StatusInv => ZeroIsComplete
    BY DEF DiskInv, StatusInv, Complete, ZeroIsComplete
  <1>2. Init => DiskInv /\ LoadedOnce
    BY DiskInit
  <1>3. LifeType /\ DiskInv /\ LoadedOnce /\ [Next]_vars => (DiskInv /\ LoadedOnce)'
    BY DiskNext
  <1> QED
    BY <1>1, <1>2, <1>3, StepsOf, LifeTypeHolds, ExitsSafely, PTL

\* After a signal, the backends of both clusters have been ended when the process
\* is gone, but for COPYs begun after the signal and statements left behind when
\* doTeardown had passed its look at the flag.
THEOREM NoOrphansHolds == Spec => []NoOrphans
  <1>1. LifeType /\ OrphanInv => NoOrphans
    BY DEF LifeType, ControlType, OrphanInv, NoneOn, NoOrphans, CleanupPcs, Session
  <1>2. Init => OrphanInv
    BY OrphanInit
  <1>3. LifeType /\ DoneInv /\ OrphanInv /\ [Next]_vars => OrphanInv'
    BY OrphanNext
  <1> QED
    BY <1>1, <1>2, <1>3, StepsOf, LifeTypeHolds, ExitsSafely, PTL

=============================================================================
