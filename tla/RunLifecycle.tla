---------------------------- MODULE RunLifecycle ----------------------------
(***************************************************************************)
(* What the run history promises its readers, whoever executes the runs.   *)
(* A monitoring or research run is one row of monitoring_runs.  The        *)
(* dashboard, the Simple page and the scheduler only ever read `status`,   *)
(* and rely on this: rows are created one after another, at most one is    *)
(* active, an active row only moves forward, and a terminal row is never   *)
(* touched again.                                                          *)
(*                                                                         *)
(* RunManager.tla models the threads, locks and transactions that are      *)
(* supposed to keep this promise, and is shown to implement it.            *)
(***************************************************************************)
EXTENDS Naturals

CONSTANT MaxRuns        \* how many rows are ever created

Runs == 1 .. MaxRuns    \* primary keys, handed out in increasing order

\* models/runs.py RunStatus; "absent" is a row that does not exist yet.
Active   == {"pending", "running"}
Terminal == {"completed", "completed_with_errors", "failed", "cancelled"}
Status   == {"absent"} \cup Active \cup Terminal

VARIABLES
    rows,       \* how many rows exist
    status      \* the status column of every row

rowVars == <<rows, status>>

Init ==
    /\ rows = 0
    /\ status = [r \in Runs |-> "absent"]

(***************************************************************************)
(* A new row is pending.  The transaction that inserts it also closes the  *)
(* rows nobody executes any more, so that no two rows are active.          *)
(***************************************************************************)
Create ==
    /\ rows < MaxRuns
    /\ rows' = rows + 1
    /\ status' = [r \in Runs |-> IF r = rows + 1 THEN "pending"
                                 ELSE IF status[r] \in Active THEN "failed"
                                 ELSE status[r]]

Begin(r) ==
    /\ status[r] = "pending"
    /\ status' = [status EXCEPT ![r] = "running"]
    /\ UNCHANGED rows

End(r, s) ==
    /\ status[r] \in Active
    /\ status' = [status EXCEPT ![r] = s]
    /\ UNCHANGED rows

Next ==
    \/ Create
    \/ \E r \in Runs : Begin(r) \/ \E s \in Terminal : End(r, s)

Spec == Init /\ [][Next]_rowVars
=============================================================================
