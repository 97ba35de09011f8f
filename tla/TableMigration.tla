--------------------------- MODULE TableMigration ---------------------------
(***************************************************************************)
(* What the migration of one database promises about its tables, without   *)
(* goroutines, channels or progress bars: every table is copied at most    *)
(* once, ends in exactly one result file, and post-data is restored only   *)
(* when no table is left.  TablePipeline implements this specification.    *)
(***************************************************************************)
CONSTANTS Tables

VARIABLES
    wantData,   \* the run copies data (it is not --metadata-only)
    table,      \* what has happened to each table
    stage       \* "data", then "post"; or "killed"

vars == <<wantData, table, stage>>

Results == {"succeeded", "failed", "skipped"}

Init ==
    /\ wantData \in BOOLEAN
    /\ table = [t \in Tables |-> "waiting"]
    /\ stage = "data"

BeginTable(t) ==
    /\ stage = "data" /\ wantData
    /\ table[t] = "waiting"
    /\ table' = [table EXCEPT ![t] = "copying"]
    /\ UNCHANGED <<wantData, stage>>

EndTable(t) ==
    /\ stage = "data"
    /\ table[t] = "copying"
    /\ \E r \in Results : table' = [table EXCEPT ![t] = r]
    /\ UNCHANGED <<wantData, stage>>

PostData ==
    /\ stage = "data"
    /\ wantData => \A t \in Tables : table[t] \in Results
    /\ stage' = "post"
    /\ UNCHANGED <<wantData, table>>

Kill ==
    /\ stage # "killed"
    /\ stage' = "killed"
    /\ UNCHANGED <<wantData, table>>

Next ==
    \/ \E t \in Tables : BeginTable(t) \/ EndTable(t)
    \/ PostData
    \/ Kill

Spec == Init /\ [][Next]_vars

\* The data stage ends.
FairSpec == Spec /\ <>(stage # "data")
=============================================================================
