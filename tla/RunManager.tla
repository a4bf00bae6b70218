----------------------------- MODULE RunManager -----------------------------
(***************************************************************************)
(* aios/services/run_manager.py with the part of the two pipelines that it *)
(* drives (their entry, checkpoints and _finish), the start-up and the     *)
(* shutdown of the application (aios/app.py, lifespan).                    *)
(*                                                                         *)
(* A process p has request and scheduler threads that call start_run and   *)
(* cancel, one worker thread that executes runs, and the thread that runs  *)
(* lifespan.  The run rows live in SQLite and survive every process.       *)
(*                                                                         *)
(* One step is one critical section of RunManager._lock or one database    *)
(* transaction, whichever is smaller; start_run holds the lock from its    *)
(* first check to the submit, so starting[p] both is the lock and names    *)
(* the row the call has committed.                                         *)
(***************************************************************************)
EXTENDS Naturals

CONSTANTS
    Procs,      \* operating-system processes that open the database
    MaxRuns,    \* bound on the rows ever created
    StaleLimit, \* how many of the newest rows reset_stale_runs looks at
    OneCopy,    \* TRUE: a process starts only when no other one is alive
    DbMayFail   \* TRUE: a transaction of the worker may raise

ASSUME ConstantsAssumption ==
    /\ MaxRuns \in Nat
    /\ StaleLimit \in Nat \ {0}
    /\ OneCopy \in BOOLEAN
    /\ DbMayFail \in BOOLEAN

Runs  == 1 .. MaxRuns
NoRun == 0

\* models/runs.py RunStatus; "absent" is a row that does not exist yet.
Active   == {"pending", "running"}
Terminal == {"completed", "completed_with_errors", "failed", "cancelled"}
Status   == {"absent"} \cup Active \cup Terminal

VARIABLES
    \* --- the database
    rows,       \* number of rows; primary keys are handed out in order
    status,     \* [Runs -> Status]
    cancelReq,  \* [Runs -> BOOLEAN], the cancel_requested column
    \* --- the memory of each process
    life,       \* "off", "up", "stopping" (flags are set), "closed" (executor shut)
    starting,   \* the row a start_run holding _lock has committed, NoRun if the lock is free
    current,    \* _current_run_id
    flag,       \* _cancel_flags: "none" (no entry), "clear", "set"
    future,     \* _futures: "none", "queued", "taken", "done", "dropped"
    worker,     \* where the worker thread is
    executing,  \* the run id the worker thread was given
    cancelling, \* cancel(run_id) calls in flight: "no", "flagged", "checked"
    lost        \* history: a transaction of a worker has raised

dbVars  == <<rows, status, cancelReq>>
memVars == <<life, starting, current, flag, future, worker, executing, cancelling>>
vars    == <<rows, status, cancelReq, life, starting, current, flag, future,
             worker, executing, cancelling, lost>>

(***************************************************************************)
(* The worker thread:                                                      *)
(*   idle      waits for the executor's queue                              *)
(*   dispatch  in _execute, before the pipeline has marked the row running *)
(*   working   inside the pipeline, with a _check_cancel still ahead       *)
(*   tail      past the last _check_cancel: publishing                     *)
(*   unwinding RunCancelled was raised, _finish(CANCELLED) is next         *)
(*   crashed   an exception left the pipeline, _execute's handler is next  *)
(*   finally   about to enter _execute's finally block                     *)
(*   returned  _execute returned, the future is not marked done yet        *)
(***************************************************************************)
InPipeline == {"working", "tail", "unwinding"}
Stages == {"idle", "dispatch", "crashed", "finally", "returned"} \cup InPipeline

Init ==
    /\ rows = 0
    /\ status = [r \in Runs |-> "absent"]
    /\ cancelReq = [r \in Runs |-> FALSE]
    /\ life = [p \in Procs |-> "off"]
    /\ starting = [p \in Procs |-> NoRun]
    /\ current = [p \in Procs |-> NoRun]
    /\ flag = [p \in Procs |-> [r \in Runs |-> "none"]]
    /\ future = [p \in Procs |-> [r \in Runs |-> "none"]]
    /\ worker = [p \in Procs |-> "idle"]
    /\ executing = [p \in Procs |-> NoRun]
    /\ cancelling = [p \in Procs |-> [r \in Runs |-> "no"]]
    /\ lost = FALSE

-----------------------------------------------------------------------------
(***************************************************************************)
(* Processes.                                                              *)
(***************************************************************************)

\* The slip of a start-up that leaves the rows of the last process alone.
BootNoReset(p) ==
    /\ life[p] = "off"
    /\ OneCopy => \A q \in Procs : life[q] = "off"
    /\ life' = [life EXCEPT ![p] = "up"]
    /\ UNCHANGED <<rows, status, cancelReq, starting, current, flag, future,
                   worker, executing, cancelling, lost>>

\* The slip of a reset that writes the stage's word into the status column.
BootWritesStage(p) ==
    /\ life[p] = "off"
    /\ OneCopy => \A q \in Procs : life[q] = "off"
    /\ life' = [life EXCEPT ![p] = "up"]
    /\ status' = [r \in Runs |-> IF rows < r + StaleLimit /\ status[r] \in Active
                                 THEN "interrupted" ELSE status[r]]
    /\ UNCHANGED <<rows, cancelReq, starting, current, flag, future, worker,
                   executing, cancelling, lost>>

\* lifespan up to `yield`.  Nothing else of the process runs before
\* reset_stale_runs has committed, so booting is one step.
Boot(p) ==
    /\ life[p] = "off"
    /\ OneCopy => \A q \in Procs : life[q] = "off"
    /\ life' = [life EXCEPT ![p] = "up"]
    /\ status' = [r \in Runs |-> IF rows < r + StaleLimit /\ status[r] \in Active
                                 THEN "failed" ELSE status[r]]
    /\ UNCHANGED <<rows, cancelReq, starting, current, flag, future, worker,
                   executing, cancelling, lost>>

\* The memory of p is gone, whether it was killed or returned.
Gone(p) ==
    /\ life' = [life EXCEPT ![p] = "off"]
    /\ starting' = [starting EXCEPT ![p] = NoRun]
    /\ current' = [current EXCEPT ![p] = NoRun]
    /\ flag' = [flag EXCEPT ![p] = [r \in Runs |-> "none"]]
    /\ future' = [future EXCEPT ![p] = [r \in Runs |-> "none"]]
    /\ worker' = [worker EXCEPT ![p] = "idle"]
    /\ executing' = [executing EXCEPT ![p] = NoRun]
    /\ cancelling' = [cancelling EXCEPT ![p] = [r \in Runs |-> "no"]]
    /\ UNCHANGED <<dbVars, lost>>

Crash(p) == life[p] # "off" /\ Gone(p)

\* The interpreter joins the executor's threads and the threads still in a
\* request before it exits.
Exit(p) ==
    /\ life[p] = "closed"
    /\ worker[p] = "idle"
    /\ starting[p] = NoRun
    /\ \A r \in Runs : cancelling[p][r] = "no"
    /\ Gone(p)

\* shutdown(), the block under _lock: every flag is set.
ShutdownFlags(p) ==
    /\ life[p] = "up"
    /\ starting[p] = NoRun
    /\ life' = [life EXCEPT ![p] = "stopping"]
    /\ flag' = [flag EXCEPT ![p] =
                  [r \in Runs |-> IF @[r] = "none" THEN "none" ELSE "set"]]
    /\ UNCHANGED <<rows, status, cancelReq, starting, current, future, worker,
                   executing, cancelling, lost>>

\* shutdown(), executor.shutdown(cancel_futures=True): no lock is held.
ShutdownExecutor(p) ==
    /\ life[p] = "stopping"
    /\ life' = [life EXCEPT ![p] = "closed"]
    /\ future' = [future EXCEPT ![p] =
                    [r \in Runs |-> IF @[r] = "queued" THEN "dropped" ELSE @[r]]]
    /\ UNCHANGED <<rows, status, cancelReq, starting, current, flag, worker,
                   executing, cancelling, lost>>

-----------------------------------------------------------------------------
(***************************************************************************)
(* start_run.  A refused call changes nothing and is not a step.           *)
(***************************************************************************)

\* runs_repo.active_run: the newest row that is pending or running.
IsActiveRun(r) ==
    /\ status[r] \in Active
    /\ \A q \in Runs : status[q] \in Active => q <= r

\* existing.id in self._futures and not done()
Owns(p, r) == future[p][r] \in {"queued", "taken"}

\* The slip of an insert that leaves an orphan row active.
StartCommitKeepsOrphan(p) ==
    /\ life[p] # "off"
    /\ starting[p] = NoRun
    /\ current[p] = NoRun
    /\ \A r \in Runs : IsActiveRun(r) => ~Owns(p, r)
    /\ rows < MaxRuns
    /\ rows' = rows + 1
    /\ status' = [status EXCEPT ![rows + 1] = "pending"]
    /\ starting' = [starting EXCEPT ![p] = rows + 1]
    /\ UNCHANGED <<cancelReq, life, current, flag, future, worker, executing,
                   cancelling, lost>>

\* Takes the lock, finds no current run, and commits the transaction that
\* closes an orphan row and inserts the new one.  A scheduler thread may
\* still get here while lifespan is shutting the process down.
StartCommit(p) ==
    /\ life[p] # "off"
    /\ starting[p] = NoRun
    /\ current[p] = NoRun
    /\ \A r \in Runs : IsActiveRun(r) => ~Owns(p, r)
    /\ rows < MaxRuns
    /\ rows' = rows + 1
    /\ status' = [r \in Runs |-> IF r = rows + 1 THEN "pending"
                                 ELSE IF IsActiveRun(r) THEN "failed"
                                 ELSE status[r]]
    /\ starting' = [starting EXCEPT ![p] = rows + 1]
    /\ UNCHANGED <<cancelReq, life, current, flag, future, worker, executing,
                   cancelling, lost>>

\* Claims the slot, registers the flag and submits.  submit raises once the
\* executor is shut down: the claim stays and there is no future.
\* The slip of a submit whose run nobody can cancel.
StartSubmitNoFlag(p) ==
    /\ starting[p] # NoRun
    /\ current' = [current EXCEPT ![p] = starting[p]]
    /\ future' = IF life[p] = "closed" THEN future
                 ELSE [future EXCEPT ![p][starting[p]] = "queued"]
    /\ starting' = [starting EXCEPT ![p] = NoRun]
    /\ UNCHANGED <<rows, status, cancelReq, life, flag, worker, executing, cancelling, lost>>

StartSubmit(p) ==
    /\ starting[p] # NoRun
    /\ current' = [current EXCEPT ![p] = starting[p]]
    /\ flag' = [flag EXCEPT ![p][starting[p]] = "clear"]
    /\ future' = IF life[p] = "closed" THEN future
                 ELSE [future EXCEPT ![p][starting[p]] = "queued"]
    /\ starting' = [starting EXCEPT ![p] = NoRun]
    /\ UNCHANGED <<rows, status, cancelReq, life, worker, executing, cancelling, lost>>

-----------------------------------------------------------------------------
(***************************************************************************)
(* The worker thread.                                                      *)
(***************************************************************************)

\* The worker takes the next queued future and enters _execute.
Take(p, r) ==
    /\ worker[p] = "idle"
    /\ future[p][r] = "queued"
    /\ future' = [future EXCEPT ![p][r] = "taken"]
    /\ worker' = [worker EXCEPT ![p] = "dispatch"]
    /\ executing' = [executing EXCEPT ![p] = r]
    /\ UNCHANGED <<rows, status, cancelReq, life, starting, current, flag, cancelling, lost>>

Stop(p, s, st) ==
    /\ worker' = [worker EXCEPT ![p] = s]
    /\ status' = st
    /\ UNCHANGED <<rows, cancelReq, life, starting, current, flag, future,
                   executing, cancelling, lost>>

\* The first transaction of execute(): it does not look at the old status.
Begin(p) ==
    /\ worker[p] = "dispatch"
    /\ Stop(p, "working", [status EXCEPT ![executing[p]] = "running"])

\* The slip of a checkpoint that looks at one of the two signals only.
CancelSeenRowOnly(p) == cancelReq[executing[p]]

CancelSeen(p) == flag[p][executing[p]] = "set" \/ cancelReq[executing[p]]

\* _check_cancel: raises, or lets the run go on.  Passing any but the last
\* checkpoint leaves the worker where it is.
Checkpoint(p) ==
    /\ worker[p] = "working"
    /\ Stop(p, IF CancelSeen(p) THEN "unwinding" ELSE "tail", status)

\* _finish(FAILED) by the pipeline's own handler or an early return, and the
\* Classic run with an empty plan, which completes before any checkpoint.
FinishEarly(p) ==
    /\ worker[p] = "working"
    /\ \E s \in {"completed", "failed"} :
          Stop(p, "finally", [status EXCEPT ![executing[p]] = s])

\* The slip of a cancelled run whose row is not closed.
FinishCancelledSilent(p) ==
    /\ worker[p] = "unwinding"
    /\ Stop(p, "finally", status)

FinishCancelled(p) ==
    /\ worker[p] = "unwinding"
    /\ Stop(p, "finally", [status EXCEPT ![executing[p]] = "cancelled"])

FinishTail(p) ==
    /\ worker[p] = "tail"
    /\ \E s \in {"completed", "completed_with_errors", "failed"} :
          Stop(p, "finally", [status EXCEPT ![executing[p]] = s])

\* A transaction raises and is rolled back: the row stays as it is.
Lose(p, s) ==
    /\ DbMayFail
    /\ worker' = [worker EXCEPT ![p] = s]
    /\ lost' = TRUE
    /\ UNCHANGED <<dbVars, life, starting, current, flag, future, executing, cancelling>>

\* A transaction of execute() or _finish raises (the database stays locked
\* for the whole busy timeout), and nothing in the pipeline catches it.
Raise(p) ==
    /\ worker[p] \in {"dispatch"} \cup InPipeline
    /\ Lose(p, "crashed")

\* The handler of _execute marks the row, unless its transaction raises too.
Handle(p) ==
    /\ worker[p] = "crashed"
    /\ \/ Stop(p, "finally", IF status[executing[p]] \in Active
                             THEN [status EXCEPT ![executing[p]] = "failed"]
                             ELSE status)
       \/ Lose(p, "finally")

\* The slip of a clean-up that is skipped when the pipeline raised.
ReleaseKeepsSlot(p) ==
    /\ worker[p] = "finally"
    /\ starting[p] = NoRun
    /\ current' = IF current[p] = executing[p] /\ status[executing[p]] \in Terminal
                  THEN [current EXCEPT ![p] = NoRun] ELSE current
    /\ flag' = [flag EXCEPT ![p][executing[p]] = "none"]
    /\ worker' = [worker EXCEPT ![p] = "returned"]
    /\ UNCHANGED <<rows, status, cancelReq, life, starting, future, executing,
                   cancelling, lost>>

\* The finally block of _execute, under _lock.
Release(p) ==
    /\ worker[p] = "finally"
    /\ starting[p] = NoRun
    /\ current' = IF current[p] = executing[p]
                  THEN [current EXCEPT ![p] = NoRun] ELSE current
    /\ flag' = [flag EXCEPT ![p][executing[p]] = "none"]
    /\ worker' = [worker EXCEPT ![p] = "returned"]
    /\ UNCHANGED <<rows, status, cancelReq, life, starting, future, executing,
                   cancelling, lost>>

\* The executor marks the future done; only now is the row no longer owned.
Return(p) ==
    /\ worker[p] = "returned"
    /\ future' = [future EXCEPT ![p][executing[p]] = "done"]
    /\ worker' = [worker EXCEPT ![p] = "idle"]
    /\ executing' = [executing EXCEPT ![p] = NoRun]
    /\ UNCHANGED <<rows, status, cancelReq, life, starting, current, flag, cancelling, lost>>

-----------------------------------------------------------------------------
(***************************************************************************)
(* cancel(run_id): the flag is read under _lock and set, then the row is   *)
(* read, then it is written; the worker may move between any two of them.  *)
(* Only a route calls it, so it begins while the process still serves.     *)
(* Two calls for one run do the same thing and are one here.               *)
(***************************************************************************)

CancelFlag(p, r) ==
    /\ life[p] = "up"
    /\ r <= rows
    /\ starting[p] = NoRun
    /\ cancelling[p][r] = "no"
    /\ cancelling' = [cancelling EXCEPT ![p][r] = "flagged"]
    /\ flag' = IF flag[p][r] = "none" THEN flag
               ELSE [flag EXCEPT ![p][r] = "set"]
    /\ UNCHANGED <<rows, status, cancelReq, life, starting, current, future,
                   worker, executing, lost>>

CancelRead(p, r) ==
    /\ cancelling[p][r] = "flagged"
    /\ cancelling' = [cancelling EXCEPT ![p][r] =
                        IF status[r] \in Terminal THEN "no" ELSE "checked"]
    /\ UNCHANGED <<rows, status, cancelReq, life, starting, current, flag,
                   future, worker, executing, lost>>

\* The slip of a cancel that closes the row itself.
CancelWriteCloses(p, r) ==
    /\ cancelling[p][r] = "checked"
    /\ cancelling' = [cancelling EXCEPT ![p][r] = "no"]
    /\ cancelReq' = [cancelReq EXCEPT ![r] = TRUE]
    /\ status' = [status EXCEPT ![r] = "cancelled"]
    /\ UNCHANGED <<rows, life, starting, current, flag, future, worker, executing, lost>>

CancelWrite(p, r) ==
    /\ cancelling[p][r] = "checked"
    /\ cancelling' = [cancelling EXCEPT ![p][r] = "no"]
    /\ cancelReq' = [cancelReq EXCEPT ![r] = TRUE]
    /\ UNCHANGED <<rows, status, life, starting, current, flag, future, worker,
                   executing, lost>>

-----------------------------------------------------------------------------
Lifespan(p) == Boot(p) \/ Crash(p) \/ Exit(p) \/ ShutdownFlags(p) \/ ShutdownExecutor(p)

Start(p) == StartCommit(p) \/ StartSubmit(p)

Work(p) ==
    \/ \E r \in Runs : Take(p, r)
    \/ Begin(p) \/ Checkpoint(p)
    \/ FinishEarly(p) \/ FinishCancelled(p) \/ FinishTail(p)
    \/ Raise(p) \/ Handle(p) \/ Release(p) \/ Return(p)

Cancel(p) == \E r \in Runs : CancelFlag(p, r) \/ CancelRead(p, r) \/ CancelWrite(p, r)

Next == \E p \in Procs : Lifespan(p) \/ Start(p) \/ Work(p) \/ Cancel(p)

Spec == Init /\ [][Next]_vars

(***************************************************************************)
(* A thread that can take a step takes it: worker, the call that holds the *)
(* lock, the calls in flight, and a shutdown that has begun.  Nobody has   *)
(* to start a process, a run, a cancellation or a shutdown.                *)
(***************************************************************************)
Fairness ==
    \A p \in Procs :
        /\ WF_vars(Work(p))
        /\ WF_vars(StartSubmit(p))
        /\ \A r \in Runs : WF_vars(CancelRead(p, r) \/ CancelWrite(p, r))
        /\ WF_vars(ShutdownExecutor(p) \/ Exit(p))

FairSpec == Spec /\ Fairness

-----------------------------------------------------------------------------
(***************************************************************************)
(* Properties.                                                             *)
(***************************************************************************)

\* Every variable keeps its shape: rows, slots, flags, futures and stages.
TypeOK ==
    /\ rows \in 0 .. MaxRuns
    /\ status \in [Runs -> Status]
    /\ cancelReq \in [Runs -> BOOLEAN]
    /\ life \in [Procs -> {"off", "up", "stopping", "closed"}]
    /\ starting \in [Procs -> Runs \cup {NoRun}]
    /\ current \in [Procs -> Runs \cup {NoRun}]
    /\ flag \in [Procs -> [Runs -> {"none", "clear", "set"}]]
    /\ future \in [Procs -> [Runs -> {"none", "queued", "taken", "done", "dropped"}]]
    /\ worker \in [Procs -> Stages]
    /\ executing \in [Procs -> Runs \cup {NoRun}]
    /\ cancelling \in [Procs -> [Runs -> {"no", "flagged", "checked"}]]
    /\ lost \in BOOLEAN

\* Only the newest row can be pending or running.  That at most one run is
\* active follows, and so does that looking at StaleLimit rows at start-up
\* is enough (reset_stale_runs reads only the newest twenty).
ActiveIsNewest == \A r \in Runs : status[r] \in Active => r = rows

\* A run that is executing holds its process's slot and has its flag in
\* _cancel_flags, from before the worker takes it until its row is closed:
\* cancel and shutdown always reach it.
RunningIsCancellable ==
    \A p \in Procs : worker[p] \in {"dispatch"} \cup InPipeline =>
        /\ current[p] = executing[p]
        /\ flag[p][executing[p]] # "none"

\* No phantom run: while no transaction of a worker is lost, an active row
\* belongs to the slot of a live process or to the start_run that is about
\* to claim it.  Once every process is gone the next start-up closes it.
ActiveIsOwned ==
    ~lost =>
        \A r \in Runs : status[r] \in Active =>
            \/ \A p \in Procs : life[p] = "off"
            \/ \E p \in Procs : life[p] # "off" /\ r \in {starting[p], current[p]}

(***************************************************************************)
(* What keeps the three invariants above true when only one copy runs: the *)
(* inductive invariant of RunManagerProofs.                                *)
(***************************************************************************)

OneAlive == \A p, q \in Procs : life[p] # "off" /\ life[q] # "off" => p = q

\* A process that is not there owns nothing.
OffIsEmpty ==
    \A p \in Procs : life[p] = "off" =>
        /\ starting[p] = NoRun /\ current[p] = NoRun
        /\ worker[p] = "idle" /\ executing[p] = NoRun
        /\ \A r \in Runs : /\ flag[p][r] = "none" /\ future[p][r] = "none"
                           /\ cancelling[p][r] = "no"

RowsExist == \A r \in Runs : status[r] = "absent" <=> rows < r

\* A committed start_run names the newest row and nobody else knows it yet.
StartingIsNew ==
    \A p \in Procs : starting[p] # NoRun =>
        /\ starting[p] = rows /\ current[p] = NoRun
        /\ status[rows] = "pending" /\ future[p][rows] = "none"

\* The slot names the newest row, and only that run has a flag.
SlotIsNewest ==
    \A p \in Procs :
        /\ current[p] # NoRun => current[p] = rows
        /\ \A r \in Runs : /\ flag[p][r] # "none" => r = current[p]
                           /\ future[p][r] # "none" => r <= rows

\* A queued run has the slot, is pending, and the worker is through with
\* the run before it.
QueuedIsPending ==
    \A p \in Procs, r \in Runs : future[p][r] = "queued" =>
        /\ current[p] = r /\ status[r] = "pending" /\ flag[p][r] # "none"
        /\ worker[p] \in {"idle", "returned"}

\* The run the worker was given, its future, its row and its slot agree.
WorkerHasSlot ==
    \A p \in Procs :
        /\ worker[p] = "idle" <=> executing[p] = NoRun
        /\ \A r \in Runs : future[p][r] = "taken" <=> executing[p] = r
        /\ worker[p] \notin {"idle", "returned"} =>
              /\ current[p] = executing[p]
              /\ flag[p][executing[p]] # "none"
        /\ worker[p] = "dispatch" => status[executing[p]] = "pending"
        /\ worker[p] \in InPipeline => status[executing[p]] = "running"
        /\ worker[p] = "crashed" => status[executing[p]] \in Active

IInv ==
    /\ TypeOK /\ OneAlive /\ OffIsEmpty /\ RowsExist /\ ActiveIsNewest
    /\ StartingIsNew /\ SlotIsNewest /\ QueuedIsPending /\ WorkerHasSlot

\* The run rows keep the promise of RunLifecycle.
Lifecycle == INSTANCE RunLifecycle
KeepsLifecycle == Lifecycle!Spec

Published(p, r) == worker[p] = "tail" /\ executing[p] = r

\* A cancellation, by flag or by row, that is there before a run has passed
\* its last checkpoint keeps it from ever publishing, across crashes,
\* restarts and later runs.
StopIsHonoured ==
    \A p \in Procs, r \in Runs :
        [](/\ flag[p][r] = "set" \/ cancelReq[r]
           /\ ~Published(p, r)
           => []~Published(p, r))

\* A slot that is taken is freed again, however the run ends, whatever the
\* database refuses: no run blocks the ones after it for ever.
SlotIsFreed ==
    \A p \in Procs, r \in Runs : current[p] = r ~> current[p] # r

\* A queued run reaches a terminal status, unless every process has gone or a
\* transaction was lost.
RunEnds ==
    \A r \in Runs :
        status[r] = "pending" ~>
            status[r] \in Terminal \/ lost \/ \A p \in Procs : life[p] = "off"
=============================================================================
