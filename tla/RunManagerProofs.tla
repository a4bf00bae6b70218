-------------------------- MODULE RunManagerProofs --------------------------
(***************************************************************************)
(* Proofs about RunManager for any number of rows, any depth of the        *)
(* start-up reset that is at least one, any set of processes of which one  *)
(* at a time is alive (OneCopy), with or without failing transactions.     *)
(***************************************************************************)
EXTENDS RunManager, TLAPS

\* A row's status is one of three kinds, and the kinds exclude each other.
LEMMA StatusKinds ==
    /\ Active \cap Terminal = {}
    /\ "absent" \notin Active \cup Terminal
    /\ "pending" \in Active /\ "running" \in Active
    /\ "failed" \in Terminal /\ "cancelled" \in Terminal
    /\ "completed" \in Terminal /\ "completed_with_errors" \in Terminal
    /\ Status = {"absent"} \cup Active \cup Terminal
BY DEF Active, Terminal, Status

LEMMA RunNumbers == NoRun \notin Runs /\ Runs \subseteq Nat
BY ConstantsAssumption DEF NoRun, Runs

\* When only the newest row can be active, the row active_run returns is the
\* only active one.
LEMMA ActiveRunIsUnique ==
    ASSUME TypeOK, ActiveIsNewest, NEW r \in Runs
    PROVE  IsActiveRun(r) <=> status[r] \in Active
BY RunNumbers DEF TypeOK, ActiveIsNewest, IsActiveRun, Runs

LEMMA InitIInv == Init => IInv
<1> SUFFICES ASSUME Init PROVE IInv
  OBVIOUS
<1>1. TypeOK
  <2>1. 0 \in 0 .. MaxRuns /\ "absent" \in Status /\ "idle" \in Stages
    BY ConstantsAssumption DEF Status, Stages
  <2>2. rows \in 0 .. MaxRuns /\ status \in [Runs -> Status] /\ worker \in [Procs -> Stages]
    BY <2>1 DEF Init
  <2>3. /\ cancelReq \in [Runs -> BOOLEAN]
        /\ life \in [Procs -> {"off", "up", "stopping", "closed"}]
        /\ starting \in [Procs -> Runs \cup {NoRun}]
        /\ current \in [Procs -> Runs \cup {NoRun}]
        /\ executing \in [Procs -> Runs \cup {NoRun}]
        /\ lost \in BOOLEAN
    BY DEF Init
  <2>4. /\ flag \in [Procs -> [Runs -> {"none", "clear", "set"}]]
        /\ future \in [Procs -> [Runs -> {"none", "queued", "taken", "done", "dropped"}]]
        /\ cancelling \in [Procs -> [Runs -> {"no", "flagged", "checked"}]]
    BY DEF Init
  <2> QED BY <2>2, <2>3, <2>4 DEF TypeOK
<1>2. /\ OneAlive /\ OffIsEmpty /\ RowsExist /\ ActiveIsNewest /\ StartingIsNew /\ SlotIsNewest
      /\ QueuedIsPending /\ WorkerHasSlot
  BY RunNumbers, StatusKinds
  DEF Init, OneAlive, OffIsEmpty, RowsExist, ActiveIsNewest, StartingIsNew, SlotIsNewest,
      QueuedIsPending, WorkerHasSlot, InPipeline, Runs, NoRun
<1> QED BY <1>1, <1>2 DEF IInv

LEMMA BootIInv ==
    ASSUME IInv, OneCopy, NEW p \in Procs, Boot(p)
    PROVE  IInv'
<1> USE ConstantsAssumption, RunNumbers, StatusKinds DEF IInv, Boot
<1>1. TypeOK'
  BY DEF TypeOK
<1>2. OneAlive'
  BY DEF OneAlive, TypeOK
<1>3. /\ \A q \in Procs : worker[q] = "idle" /\ current[q] = NoRun /\ starting[q] = NoRun
      /\ \A q \in Procs, r \in Runs : future[q][r] = "none" /\ flag[q][r] = "none"
  BY DEF OffIsEmpty
<1>4. \A r \in Runs : status'[r] \notin Active
  BY DEF TypeOK, ActiveIsNewest, Runs
<1>5. OffIsEmpty'
  BY DEF OffIsEmpty, TypeOK
<1>6. RowsExist'
  BY DEF RowsExist, TypeOK
<1>7. ActiveIsNewest' /\ StartingIsNew' /\ SlotIsNewest' /\ QueuedIsPending'
  BY <1>3, <1>4 DEF ActiveIsNewest, StartingIsNew, SlotIsNewest, QueuedIsPending
<1>8. WorkerHasSlot'
  BY <1>3 DEF WorkerHasSlot, InPipeline
<1> QED BY <1>1, <1>2, <1>5, <1>6, <1>7, <1>8

LEMMA GoneIInv ==
    ASSUME IInv, NEW p \in Procs, Gone(p)
    PROVE  IInv'
<1> USE ConstantsAssumption, RunNumbers, StatusKinds DEF IInv, Gone, dbVars
<1>1. TypeOK'
  BY DEF TypeOK, Stages
<1>2. OneAlive' /\ OffIsEmpty'
  BY DEF OneAlive, OffIsEmpty, TypeOK
<1>3. RowsExist' /\ ActiveIsNewest'
  BY DEF RowsExist, ActiveIsNewest
<1>4. StartingIsNew' /\ SlotIsNewest'
  BY DEF StartingIsNew, SlotIsNewest, TypeOK
<1>5. QueuedIsPending'
  BY DEF QueuedIsPending, TypeOK
<1>6. WorkerHasSlot'
  BY DEF WorkerHasSlot, TypeOK, InPipeline
<1> QED BY <1>1, <1>2, <1>3, <1>4, <1>5, <1>6

LEMMA ShutdownFlagsIInv ==
    ASSUME IInv, NEW p \in Procs, ShutdownFlags(p)
    PROVE  IInv'
<1> USE ConstantsAssumption, RunNumbers DEF IInv, ShutdownFlags
<1>1. TypeOK'
  BY DEF TypeOK
<1>2. OneAlive' /\ OffIsEmpty'
  BY DEF OneAlive, OffIsEmpty, TypeOK
<1>3. RowsExist' /\ ActiveIsNewest'
  BY DEF RowsExist, ActiveIsNewest
<1>4. StartingIsNew' /\ SlotIsNewest'
  BY DEF StartingIsNew, SlotIsNewest, TypeOK
<1>5. QueuedIsPending'
  BY DEF QueuedIsPending, TypeOK
<1>6. WorkerHasSlot'
  <2>1. \A q \in Procs, r \in Runs : future'[q][r] = "taken" <=> future[q][r] = "taken"
    BY DEF TypeOK
  <2>2. \A q \in Procs, r \in Runs : flag[q][r] # "none" => flag'[q][r] # "none"
    BY DEF TypeOK
  <2>3. \A q \in Procs : worker[q] \notin {"idle", "returned"} => executing[q] \in Runs
    BY DEF WorkerHasSlot, TypeOK
  <2> QED BY <2>1, <2>2, <2>3 DEF WorkerHasSlot
<1> QED BY <1>1, <1>2, <1>3, <1>4, <1>5, <1>6

LEMMA ShutdownExecutorIInv ==
    ASSUME IInv, NEW p \in Procs, ShutdownExecutor(p)
    PROVE  IInv'
<1> USE ConstantsAssumption, RunNumbers DEF IInv, ShutdownExecutor
<1>1. TypeOK'
  BY DEF TypeOK
<1>2. OneAlive' /\ OffIsEmpty'
  BY DEF OneAlive, OffIsEmpty, TypeOK
<1>3. RowsExist' /\ ActiveIsNewest'
  BY DEF RowsExist, ActiveIsNewest
<1>4. StartingIsNew' /\ SlotIsNewest'
  BY DEF StartingIsNew, SlotIsNewest, TypeOK
<1>5. QueuedIsPending'
  BY DEF QueuedIsPending, TypeOK
<1>6. WorkerHasSlot'
  <2>1. \A q \in Procs, r \in Runs : future'[q][r] = "taken" <=> future[q][r] = "taken"
    BY DEF TypeOK
  <2>2. \A q \in Procs, r \in Runs : flag[q][r] # "none" => flag'[q][r] # "none"
    BY DEF TypeOK
  <2>3. \A q \in Procs : worker[q] \notin {"idle", "returned"} => executing[q] \in Runs
    BY DEF WorkerHasSlot, TypeOK
  <2> QED BY <2>1, <2>2, <2>3 DEF WorkerHasSlot
<1> QED BY <1>1, <1>2, <1>3, <1>4, <1>5, <1>6

\* The new row is the only active one: the row of an orphan is closed in the
\* same transaction, and no other process is alive to own a run.
LEMMA StartCommitIInv ==
    ASSUME IInv, NEW p \in Procs, StartCommit(p)
    PROVE  IInv'
<1> USE ConstantsAssumption, RunNumbers, StatusKinds DEF IInv, StartCommit
<1>1. rows + 1 \in Runs /\ rows' = rows + 1
  BY DEF TypeOK, Runs
<1>2. TypeOK'
  BY <1>1 DEF TypeOK, Runs
<1>3. \A q \in Procs : current[q] = NoRun /\ (q # p => starting[q] = NoRun)
  BY DEF OneAlive, OffIsEmpty
<1>4. \A r \in Runs : status'[r] = IF r = rows + 1 THEN "pending"
                                   ELSE IF status[r] \in Active THEN "failed" ELSE status[r]
  BY ActiveRunIsUnique DEF TypeOK
<1>5. OneAlive' /\ OffIsEmpty'
  BY DEF OneAlive, OffIsEmpty, TypeOK
<1>6. RowsExist' /\ ActiveIsNewest'
  BY <1>1, <1>4 DEF RowsExist, ActiveIsNewest, TypeOK, Runs
<1>7. StartingIsNew' /\ SlotIsNewest'
  <2>1. \A q \in Procs : starting'[q] = IF q = p THEN rows + 1 ELSE NoRun
    BY <1>3 DEF TypeOK
  <2>2. \A q \in Procs : future[q][rows + 1] = "none"
    BY <1>1 DEF SlotIsNewest, TypeOK, Runs
  <2>3. StartingIsNew'
    BY <1>1, <1>3, <1>4, <2>1, <2>2 DEF StartingIsNew
  <2>4. SlotIsNewest'
    BY <1>1, <1>3 DEF SlotIsNewest, TypeOK, Runs
  <2> QED BY <2>3, <2>4
<1>8. QueuedIsPending'
  <2>1. \A q \in Procs, r \in Runs : future[q][r] # "queued"
    BY <1>3 DEF QueuedIsPending
  <2> QED BY <2>1 DEF QueuedIsPending
<1>9. WorkerHasSlot'
  <2>1. \A q \in Procs : worker[q] \in {"idle", "returned"}
    BY <1>3 DEF WorkerHasSlot, TypeOK
  <2> QED BY <2>1 DEF WorkerHasSlot, InPipeline
<1> QED BY <1>2, <1>5, <1>6, <1>7, <1>8, <1>9

LEMMA StartSubmitIInv ==
    ASSUME IInv, NEW p \in Procs, StartSubmit(p)
    PROVE  IInv'
<1> USE ConstantsAssumption, RunNumbers, StatusKinds DEF IInv, StartSubmit
<1>1. starting[p] = rows /\ rows \in Runs /\ current[p] = NoRun
      /\ status[rows] = "pending" /\ future[p][rows] = "none"
  BY DEF StartingIsNew, TypeOK, Runs
<1>2. worker[p] \in {"idle", "returned"}
  BY <1>1 DEF WorkerHasSlot, TypeOK
<1>3. TypeOK'
  BY <1>1 DEF TypeOK
<1>4. OneAlive' /\ OffIsEmpty'
  BY <1>1 DEF OneAlive, OffIsEmpty, TypeOK
<1>5. RowsExist' /\ ActiveIsNewest' /\ StartingIsNew'
  BY <1>1 DEF RowsExist, ActiveIsNewest, StartingIsNew, TypeOK
<1>6. SlotIsNewest'
  BY <1>1 DEF SlotIsNewest, TypeOK, Runs
<1>7. QueuedIsPending'
  BY <1>1, <1>2 DEF QueuedIsPending, SlotIsNewest, TypeOK
<1>8. WorkerHasSlot'
  BY <1>1, <1>2 DEF WorkerHasSlot, TypeOK, InPipeline
<1> QED BY <1>3, <1>4, <1>5, <1>6, <1>7, <1>8

LEMMA TakeIInv ==
    ASSUME IInv, NEW p \in Procs, NEW r \in Runs, Take(p, r)
    PROVE  IInv'
<1> USE ConstantsAssumption, RunNumbers, StatusKinds DEF IInv, Take
<1>1. current[p] = r /\ status[r] = "pending" /\ flag[p][r] # "none"
      /\ starting[p] = NoRun
  BY DEF QueuedIsPending, StartingIsNew, TypeOK
<1>2. TypeOK'
  BY DEF TypeOK, Stages
<1>3. OneAlive' /\ OffIsEmpty'
  BY DEF OneAlive, OffIsEmpty, TypeOK
<1>4. RowsExist' /\ ActiveIsNewest' /\ StartingIsNew'
  BY <1>1 DEF RowsExist, ActiveIsNewest, StartingIsNew, TypeOK
<1>5. SlotIsNewest'
  BY DEF SlotIsNewest, TypeOK
<1>6. QueuedIsPending'
  BY <1>1 DEF QueuedIsPending, TypeOK
<1>7. WorkerHasSlot'
  BY <1>1 DEF WorkerHasSlot, TypeOK, InPipeline
<1> QED BY <1>2, <1>3, <1>4, <1>5, <1>6, <1>7

\* What every step of the worker inside _execute starts from.
LEMMA WorkerFacts ==
    ASSUME IInv, NEW p \in Procs, worker[p] \notin {"idle", "returned"}
    PROVE  /\ executing[p] \in Runs
           /\ current[p] = executing[p] /\ executing[p] = rows
           /\ starting[p] = NoRun
           /\ life[p] # "off"
           /\ \A q \in Procs : q # p => /\ current[q] = NoRun /\ starting[q] = NoRun
                                        /\ worker[q] = "idle"
           /\ \A q \in Procs, r \in Runs : future[q][r] # "queued"
BY RunNumbers DEF IInv, TypeOK, WorkerHasSlot, SlotIsNewest, StartingIsNew, OneAlive,
   OffIsEmpty, QueuedIsPending, Stages

\* The worker of p moves on to s, and the row it executes becomes t.
Moves(p, s, t) ==
    /\ worker' = [worker EXCEPT ![p] = s]
    /\ status' = [status EXCEPT ![executing[p]] = t]
    /\ lost' \in BOOLEAN
    /\ UNCHANGED <<rows, cancelReq, life, starting, current, flag, future, executing, cancelling>>

LEMMA StopMoves ==
    ASSUME IInv, NEW p \in Procs, NEW s, NEW t, Stop(p, s, [status EXCEPT ![executing[p]] = t])
    PROVE  Moves(p, s, t)
BY DEF IInv, TypeOK, Stop, Moves

\* A worker step that only moves the worker and the row it executes.
LEMMA StopIInv ==
    ASSUME IInv, NEW p \in Procs, worker[p] \notin {"idle", "returned"},
           NEW s \in Stages \ {"idle", "returned"}, NEW t \in Status \ {"absent"},
           Moves(p, s, t),
           s = "dispatch" => t = "pending",
           s \in InPipeline => t = "running",
           s = "crashed" => t \in Active
    PROVE  IInv'
<1> USE ConstantsAssumption, RunNumbers, StatusKinds DEF IInv, Moves
<1>1. /\ executing[p] \in Runs /\ executing[p] = rows
      /\ \A q \in Procs : q # p => worker[q] = "idle"
      /\ \A q \in Procs : starting[q] = NoRun
      /\ \A q \in Procs, r \in Runs : future[q][r] # "queued"
      /\ life[p] # "off"
  BY WorkerFacts
<1>2. TypeOK'
  BY <1>1 DEF TypeOK
<1>3. OneAlive' /\ OffIsEmpty'
  BY <1>1 DEF OneAlive, OffIsEmpty, TypeOK
<1>4. RowsExist' /\ ActiveIsNewest'
  BY <1>1 DEF RowsExist, ActiveIsNewest, TypeOK, Runs
<1>5. StartingIsNew' /\ SlotIsNewest' /\ QueuedIsPending'
  BY <1>1 DEF StartingIsNew, SlotIsNewest, QueuedIsPending
<1>6. WorkerHasSlot'
  BY <1>1 DEF WorkerHasSlot, TypeOK, InPipeline, Stages
<1> QED BY <1>2, <1>3, <1>4, <1>5, <1>6

LEMMA SameStatus ==
    ASSUME TypeOK, NEW r \in Runs
    PROVE  status = [status EXCEPT ![r] = status[r]]
BY DEF TypeOK

LEMMA BeginIInv ==
    ASSUME IInv, NEW p \in Procs, Begin(p)
    PROVE  IInv'
<1> USE DEF Begin
<1>1. "running" \in Status \ {"absent"} /\ "working" \in Stages \ {"idle", "returned"}
  BY DEF Status, Active, Stages, InPipeline
<1> QED BY <1>1, StopMoves, StopIInv DEF InPipeline

LEMMA CheckpointIInv ==
    ASSUME IInv, NEW p \in Procs, Checkpoint(p)
    PROVE  IInv'
<1> DEFINE s == IF CancelSeen(p) THEN "unwinding" ELSE "tail"
<1>1. executing[p] \in Runs
  BY WorkerFacts DEF Checkpoint
<1>2. status[executing[p]] = "running"
  BY <1>1 DEF Checkpoint, IInv, WorkerHasSlot, InPipeline
<1>3. Stop(p, s, [status EXCEPT ![executing[p]] = "running"])
  BY <1>1, <1>2, SameStatus DEF Checkpoint, IInv
<1>4. "running" \in Status \ {"absent"} /\ s \in Stages \ {"idle", "returned"} /\ s # "dispatch"
      /\ s # "crashed"
  BY DEF Status, Active, Stages, InPipeline
<1> HIDE DEF s
<1>5. Moves(p, s, "running")
  BY <1>3, StopMoves
<1> QED BY <1>4, <1>5, StopIInv DEF Checkpoint

LEMMA FinishIInv ==
    ASSUME IInv, NEW p \in Procs, FinishEarly(p) \/ FinishCancelled(p) \/ FinishTail(p)
    PROVE  IInv'
<1>1. PICK t \in Terminal : Moves(p, "finally", t)
  BY StatusKinds, StopMoves DEF FinishEarly, FinishCancelled, FinishTail
<1>2. t \in Status \ {"absent"}
  BY StatusKinds
<1>3. "finally" \in Stages \ {"idle", "returned"} /\ "finally" \notin InPipeline
  BY DEF Stages, InPipeline
<1>4. worker[p] \notin {"idle", "returned"}
  BY DEF FinishEarly, FinishCancelled, FinishTail
<1> QED BY <1>1, <1>2, <1>3, <1>4, StopIInv

LEMMA RaiseIInv ==
    ASSUME IInv, NEW p \in Procs, Raise(p)
    PROVE  IInv'
<1> DEFINE t == status[executing[p]]
<1>1. worker[p] \notin {"idle", "returned"}
  BY DEF Raise, InPipeline
<1>2. executing[p] \in Runs
  BY <1>1, WorkerFacts
<1>3. t \in Active
  BY <1>2 DEF Raise, IInv, WorkerHasSlot, Active
<1>4. Moves(p, "crashed", t)
  BY <1>2, SameStatus DEF Raise, Lose, Moves, dbVars, IInv
<1>5. t \in Status \ {"absent"} /\ "crashed" \in Stages \ {"idle", "returned"}
      /\ "crashed" \notin InPipeline
  BY <1>3 DEF Status, Active, Stages, InPipeline
<1> HIDE DEF t
<1> QED BY <1>1, <1>3, <1>4, <1>5, StopIInv

LEMMA HandleIInv ==
    ASSUME IInv, NEW p \in Procs, Handle(p)
    PROVE  IInv'
<1>1. worker[p] \notin {"idle", "returned"}
  BY DEF Handle
<1>2. executing[p] \in Runs /\ status[executing[p]] \in Active
  BY <1>1, WorkerFacts DEF Handle, IInv, WorkerHasSlot
<1>3. PICK t \in Status \ {"absent"} : Moves(p, "finally", t)
  <2>1. CASE Lose(p, "finally")
    <3>1. Moves(p, "finally", status[executing[p]])
      BY <1>2, <2>1, SameStatus DEF Lose, Moves, dbVars, IInv
    <3> QED BY <1>2, <3>1, StatusKinds
  <2>2. CASE ~Lose(p, "finally")
    <3>1. PICK t \in Status \ {"absent"} :
            Stop(p, "finally", [status EXCEPT ![executing[p]] = t])
      BY <1>2, <2>2, SameStatus, StatusKinds DEF Handle, IInv
    <3> QED BY <3>1, StopMoves
  <2> QED BY <2>1, <2>2
<1>4. "finally" \in Stages \ {"idle", "returned"} /\ "finally" \notin InPipeline
  BY DEF Stages, InPipeline
<1> QED BY <1>1, <1>3, <1>4, StopIInv

LEMMA ReleaseIInv ==
    ASSUME IInv, NEW p \in Procs, Release(p)
    PROVE  IInv'
<1> USE ConstantsAssumption, RunNumbers, StatusKinds DEF IInv, Release
<1>1. /\ executing[p] \in Runs /\ current[p] = executing[p]
      /\ \A q \in Procs, r \in Runs : future[q][r] # "queued"
  BY WorkerFacts
<1>2. TypeOK'
  BY <1>1 DEF TypeOK, Stages
<1>3. OneAlive' /\ OffIsEmpty'
  BY <1>1 DEF OneAlive, OffIsEmpty, TypeOK
<1>4. RowsExist' /\ ActiveIsNewest'
  BY DEF RowsExist, ActiveIsNewest
<1>5. StartingIsNew' /\ SlotIsNewest'
  BY <1>1 DEF StartingIsNew, SlotIsNewest, TypeOK
<1>6. QueuedIsPending'
  BY <1>1 DEF QueuedIsPending
<1>7. WorkerHasSlot'
  BY <1>1 DEF WorkerHasSlot, TypeOK, InPipeline
<1> QED BY <1>2, <1>3, <1>4, <1>5, <1>6, <1>7

LEMMA ReturnIInv ==
    ASSUME IInv, NEW p \in Procs, Return(p)
    PROVE  IInv'
<1> USE ConstantsAssumption, RunNumbers, StatusKinds DEF IInv, Return
<1>1. executing[p] \in Runs /\ future[p][executing[p]] = "taken"
  <2>1. executing[p] # NoRun
    BY DEF WorkerHasSlot
  <2>2. executing[p] \in Runs
    BY <2>1 DEF TypeOK
  <2> QED BY <2>2 DEF WorkerHasSlot
<1>2. TypeOK'
  BY <1>1 DEF TypeOK, Stages
<1>3. OneAlive' /\ OffIsEmpty'
  BY <1>1 DEF OneAlive, OffIsEmpty, TypeOK
<1>4. RowsExist' /\ ActiveIsNewest'
  BY DEF RowsExist, ActiveIsNewest
<1>5. StartingIsNew' /\ SlotIsNewest'
  BY <1>1 DEF StartingIsNew, SlotIsNewest, TypeOK
<1>6. QueuedIsPending'
  BY <1>1 DEF QueuedIsPending, TypeOK
<1>7. WorkerHasSlot'
  BY <1>1 DEF WorkerHasSlot, TypeOK, InPipeline
<1> QED BY <1>2, <1>3, <1>4, <1>5, <1>6, <1>7

\* A cancel call touches no row's status, no slot and no future.
LEMMA CancelIInv ==
    ASSUME IInv, NEW p \in Procs, Cancel(p)
    PROVE  IInv'
<1> USE ConstantsAssumption, RunNumbers DEF IInv
<1>1. PICK r \in Runs : CancelFlag(p, r) \/ CancelRead(p, r) \/ CancelWrite(p, r)
  BY DEF Cancel
<1>2. /\ rows' = rows /\ status' = status /\ life' = life /\ starting' = starting
      /\ current' = current /\ future' = future /\ worker' = worker
      /\ executing' = executing
  BY <1>1 DEF CancelFlag, CancelRead, CancelWrite
<1>3. \A q \in Procs : \A x \in Runs : (flag'[q][x] = "none") <=> (flag[q][x] = "none")
  BY <1>1 DEF CancelFlag, CancelRead, CancelWrite, TypeOK
<1>4. ASSUME NEW q \in Procs, NEW x \in Runs, life[q] = "off"
      PROVE  cancelling'[q][x] = "no"
  <2>1. life[p] # "off"
    BY <1>1 DEF CancelFlag, CancelRead, CancelWrite, OffIsEmpty
  <2>2. cancelling'[q] = cancelling[q]
    BY <1>1, <1>4, <2>1 DEF CancelFlag, CancelRead, CancelWrite, TypeOK
  <2>3. cancelling[q][x] = "no"
    BY <1>4 DEF OffIsEmpty
  <2> QED BY <2>2, <2>3
<1>5. TypeOK'
  <2>1. CASE CancelFlag(p, r)
    BY <2>1 DEF CancelFlag, TypeOK
  <2>2. CASE CancelRead(p, r)
    BY <2>2 DEF CancelRead, TypeOK
  <2>3. CASE CancelWrite(p, r)
    BY <2>3 DEF CancelWrite, TypeOK
  <2> QED BY <1>1, <2>1, <2>2, <2>3
<1>6. OneAlive' /\ OffIsEmpty'
  <2>1. OneAlive'
    BY <1>2 DEF OneAlive
  <2>2. ASSUME NEW q \in Procs, life'[q] = "off"
        PROVE  /\ starting'[q] = NoRun /\ current'[q] = NoRun
               /\ worker'[q] = "idle" /\ executing'[q] = NoRun
    BY <2>2, <1>2 DEF OffIsEmpty
  <2>3. ASSUME NEW q \in Procs, life'[q] = "off", NEW x \in Runs
        PROVE  flag'[q][x] = "none" /\ future'[q][x] = "none"
    BY <2>3, <1>2, <1>3 DEF OffIsEmpty
  <2>4. ASSUME NEW q \in Procs, life'[q] = "off", NEW x \in Runs
        PROVE  cancelling'[q][x] = "no"
    BY <2>4, <1>2, <1>4
  <2>5. OffIsEmpty'
    BY <2>2, <2>3, <2>4 DEF OffIsEmpty
  <2> QED BY <2>1, <2>5
<1>7. RowsExist' /\ ActiveIsNewest' /\ StartingIsNew'
  BY <1>2 DEF RowsExist, ActiveIsNewest, StartingIsNew
<1>8. SlotIsNewest' /\ QueuedIsPending'
  BY <1>2, <1>3, <1>5 DEF SlotIsNewest, QueuedIsPending, TypeOK
<1>9. WorkerHasSlot'
  <2>1. ASSUME NEW q \in Procs, worker[q] \notin {"idle", "returned"}
        PROVE  flag'[q][executing[q]] # "none"
    <3>1. executing[q] \in Runs
      BY <2>1 DEF WorkerHasSlot, TypeOK
    <3>2. flag[q][executing[q]] # "none"
      BY <2>1 DEF WorkerHasSlot
    <3> QED BY <1>3, <3>1, <3>2
  <2> QED BY <1>2, <1>5, <2>1 DEF WorkerHasSlot, TypeOK
<1> QED BY <1>5, <1>6, <1>7, <1>8, <1>9

\* The inductive invariant is kept by every step of every process, as long
\* as a process starts only when no other one is alive.
LEMMA NextIInv ==
    ASSUME OneCopy, IInv, [Next]_vars
    PROVE  IInv'
<1>1. CASE UNCHANGED vars
  BY <1>1 DEF vars, IInv, TypeOK, OneAlive, OffIsEmpty, RowsExist, ActiveIsNewest,
     StartingIsNew, SlotIsNewest, QueuedIsPending, WorkerHasSlot
<1>2. CASE Next
  <2>1. PICK p \in Procs : Lifespan(p) \/ Start(p) \/ Work(p) \/ Cancel(p)
    BY <1>2 DEF Next
  <2>2. CASE Lifespan(p)
    BY <2>2, BootIInv, GoneIInv, ShutdownFlagsIInv, ShutdownExecutorIInv
       DEF Lifespan, Crash, Exit
  <2>3. CASE Start(p)
    BY <2>3, StartCommitIInv, StartSubmitIInv DEF Start
  <2>4. CASE Work(p)
    BY <2>4, TakeIInv, BeginIInv, CheckpointIInv, FinishIInv, RaiseIInv, HandleIInv,
       ReleaseIInv, ReturnIInv DEF Work
  <2>5. CASE Cancel(p)
    BY <2>5, CancelIInv
  <2> QED BY <2>1, <2>2, <2>3, <2>4, <2>5
<1> QED BY <1>1, <1>2

\* What the other theorems follow from: the newest row alone may be active, a live
\* process holds the slot of the row it executes, and a finished row is closed.
THEOREM RunManagerInvariant == OneCopy => (Spec => []IInv)
<1> SUFFICES ASSUME OneCopy PROVE Spec => []IInv
  OBVIOUS
<1>1. Init => IInv
  BY InitIInv
<1>2. IInv /\ [Next]_vars => IInv'
  BY NextIInv
<1> QED BY <1>1, <1>2, PTL DEF Spec

\* run_manager.py: rows, slots, flags, futures and stages keep their shape.
THEOREM RunManagerTypes == OneCopy => (Spec => []TypeOK)
<1>1. IInv => TypeOK
  BY DEF IInv
<1> QED BY RunManagerInvariant, <1>1, PTL

\* runs_repo.active_run and reset_stale_runs: for any number of runs, crashes and
\* restarts of a single copy, no row but the newest is pending or running.
THEOREM OnlyTheNewestIsActive == OneCopy => (Spec => []ActiveIsNewest)
<1>1. IInv => ActiveIsNewest
  BY DEF IInv
<1> QED BY RunManagerInvariant, <1>1, PTL

\* RunManager.cancel and shutdown: a run that is executing holds the slot of its
\* process and has its cancellation flag, so that both reach it.
THEOREM ExecutingIsCancellable == OneCopy => (Spec => []RunningIsCancellable)
<1>1. IInv => RunningIsCancellable
  BY DEF IInv, RunningIsCancellable, WorkerHasSlot, InPipeline
<1> QED BY RunManagerInvariant, <1>1, PTL

-----------------------------------------------------------------------------
(***************************************************************************)
(* No phantom run, while every transaction of the worker goes through.     *)
(***************************************************************************)

\* When the worker gives the slot back, the row has been closed.
ClosedBeforeRelease ==
    ~lost => \A p \in Procs :
                /\ worker[p] # "crashed"
                /\ worker[p] = "finally" => status[executing[p]] \in Terminal

LEMMA NextClosed ==
    ASSUME OneCopy, IInv, IInv', ClosedBeforeRelease, [Next]_vars
    PROVE  ClosedBeforeRelease'
<1> USE StatusKinds DEF ClosedBeforeRelease, Stop
<1>1. CASE UNCHANGED vars
  BY <1>1 DEF vars
<1>2. ASSUME NEW p \in Procs, Boot(p) \/ StartCommit(p) PROVE ClosedBeforeRelease'
  <2>1. \A q \in Procs : worker[q] \in {"idle", "returned"}
    <3>1. \A q \in Procs : current[q] = NoRun
      BY <1>2 DEF Boot, StartCommit, IInv, OneAlive, OffIsEmpty
    <3> QED BY <1>2, <3>1, RunNumbers DEF Boot, IInv, OffIsEmpty, WorkerHasSlot, TypeOK
  <2> QED BY <1>2, <2>1 DEF Boot, StartCommit
<1>3. ASSUME NEW p \in Procs, Gone(p) PROVE ClosedBeforeRelease'
  BY <1>3 DEF Gone, dbVars, IInv, TypeOK
<1>4. ASSUME NEW p \in Procs,
             ShutdownFlags(p) \/ ShutdownExecutor(p) \/ StartSubmit(p) \/ Cancel(p)
      PROVE  ClosedBeforeRelease'
  BY <1>4 DEF ShutdownFlags, ShutdownExecutor, StartSubmit, Cancel, CancelFlag, CancelRead,
     CancelWrite
<1>5. ASSUME NEW p \in Procs, Work(p) PROVE ClosedBeforeRelease'
  <2>1. ASSUME NEW r \in Runs, Take(p, r) PROVE ClosedBeforeRelease'
    BY <2>1 DEF Take, IInv, TypeOK
  <2>2. CASE Release(p) \/ Return(p)
    <3>1. lost' = lost /\ status' = status /\ \A q \in Procs :
            /\ worker'[q] = "crashed" => worker[q] = "crashed"
            /\ worker'[q] = "finally" => worker[q] = "finally" /\ executing'[q] = executing[q]
      BY <2>2 DEF Release, Return, IInv, TypeOK
    <3> QED BY <3>1
  <2>3. CASE Checkpoint(p)
    BY <2>3 DEF Checkpoint, IInv, TypeOK
  <2>4. CASE Raise(p) \/ Handle(p)
    BY <2>4 DEF Raise, Handle, Lose, IInv, TypeOK
  <2>5. CASE Begin(p) \/ FinishEarly(p) \/ FinishCancelled(p) \/ FinishTail(p)
    <3>1. /\ executing[p] \in Runs
          /\ \A q \in Procs : q # p => worker[q] = "idle"
      BY <2>5, WorkerFacts DEF Begin, FinishEarly, FinishCancelled, FinishTail
    <3>2. /\ executing' = executing /\ worker'[p] # "crashed"
          /\ worker'[p] = "finally" => status'[executing[p]] \in Terminal
          /\ \A q \in Procs : q # p => worker'[q] = "idle"
      BY <2>5, <3>1 DEF Begin, FinishEarly, FinishCancelled, FinishTail, IInv, TypeOK
    <3> QED BY <3>2
  <2> QED BY <1>5, <2>1, <2>2, <2>3, <2>4, <2>5 DEF Work
<1> QED BY <1>1, <1>2, <1>3, <1>4, <1>5 DEF Next, Lifespan, Start, Crash, Exit

LEMMA NextOwned ==
    ASSUME OneCopy, IInv, IInv', ClosedBeforeRelease, ActiveIsOwned, [Next]_vars
    PROVE  ActiveIsOwned'
<1> USE StatusKinds, RunNumbers DEF ActiveIsOwned, Stop
<1>1. CASE UNCHANGED vars
  BY <1>1 DEF vars
<1>2. ASSUME NEW p \in Procs, Boot(p) PROVE ActiveIsOwned'
  <2>1. \A r \in Runs : status'[r] \notin Active
    BY <1>2, ConstantsAssumption DEF Boot, IInv, TypeOK, ActiveIsNewest, Runs
  <2> QED BY <2>1
<1>3. ASSUME NEW p \in Procs, life[p] # "off", Gone(p) PROVE ActiveIsOwned'
  BY <1>3 DEF Gone, IInv, OneAlive, TypeOK
<1>4. ASSUME NEW p \in Procs, ShutdownFlags(p) \/ ShutdownExecutor(p) \/ Cancel(p)
      PROVE  ActiveIsOwned'
  BY <1>4 DEF ShutdownFlags, ShutdownExecutor, Cancel, CancelFlag, CancelRead, CancelWrite,
     IInv, TypeOK
<1>5. ASSUME NEW p \in Procs, StartCommit(p) PROVE ActiveIsOwned'
  <2>1. \A r \in Runs : status'[r] \in Active => r = rows + 1
    BY <1>5, ActiveRunIsUnique DEF StartCommit, IInv, TypeOK
  <2>2. starting'[p] = rows + 1 /\ life'[p] # "off"
    BY <1>5 DEF StartCommit, IInv, TypeOK
  <2> QED BY <2>1, <2>2
<1>6. ASSUME NEW p \in Procs, StartSubmit(p) PROVE ActiveIsOwned'
  <2>1. current[p] = NoRun /\ life' = life /\ status' = status /\ lost' = lost
        /\ current'[p] = starting[p]
        /\ \A q \in Procs : q # p => starting'[q] = starting[q] /\ current'[q] = current[q]
    BY <1>6 DEF StartSubmit, IInv, TypeOK, StartingIsNew
  <2> QED BY <2>1
<1>7. ASSUME NEW p \in Procs, NEW r \in Runs, Take(p, r) PROVE ActiveIsOwned'
  BY <1>7 DEF Take
<1>8. ASSUME NEW p \in Procs, Return(p) \/ Checkpoint(p) \/ Raise(p) PROVE ActiveIsOwned'
  BY <1>8 DEF Return, Checkpoint, Raise, Lose
<1>9. ASSUME NEW p \in Procs,
             Begin(p) \/ FinishEarly(p) \/ FinishCancelled(p) \/ FinishTail(p) \/ Handle(p)
      PROVE  ActiveIsOwned'
  <2>1. executing[p] = current[p] /\ executing[p] = rows /\ life[p] # "off"
    BY <1>9, WorkerFacts DEF Begin, FinishEarly, FinishCancelled, FinishTail, Handle
  <2>2. life' = life /\ current' = current /\ rows' = rows
    BY <1>9 DEF Begin, FinishEarly, FinishCancelled, FinishTail, Handle, Lose, dbVars
  <2>3. \A r \in Runs : status'[r] \in Active => r = current'[p]
    BY <2>1, <2>2 DEF IInv, ActiveIsNewest
  <2> QED BY <2>1, <2>2, <2>3
<1>10. ASSUME NEW p \in Procs, Release(p) PROVE ActiveIsOwned'
  <2>1. executing[p] = rows /\ (~lost => status[executing[p]] \in Terminal)
    BY <1>10, WorkerFacts DEF Release, ClosedBeforeRelease
  <2>2. ~lost' => \A r \in Runs : status'[r] \notin Active
    BY <1>10, <2>1 DEF Release, IInv, ActiveIsNewest
  <2> QED BY <2>2
<1> QED BY <1>1, <1>2, <1>3, <1>4, <1>5, <1>6, <1>7, <1>8, <1>9, <1>10
       DEF Next, Lifespan, Start, Work, Crash, Exit, Boot, ShutdownExecutor

\* RunManager.start_run and _execute: while no transaction of a worker is lost, an
\* active row belongs to the slot of a live process or to the start_run about to
\* claim it.
THEOREM NoPhantomRun == OneCopy => (Spec => []ActiveIsOwned)
<1> SUFFICES ASSUME OneCopy PROVE Spec => []ActiveIsOwned
  OBVIOUS
<1>1. Init => ClosedBeforeRelease /\ ActiveIsOwned
  BY StatusKinds DEF Init, ClosedBeforeRelease, ActiveIsOwned
<1>2. IInv /\ IInv' /\ ClosedBeforeRelease /\ [Next]_vars => ClosedBeforeRelease'
  BY NextClosed
<1>3. IInv /\ IInv' /\ ClosedBeforeRelease /\ ActiveIsOwned /\ [Next]_vars => ActiveIsOwned'
  BY NextOwned
<1>4. OneCopy
  OBVIOUS
<1> QED BY RunManagerInvariant, <1>1, <1>2, <1>3, <1>4, PTL DEF Spec

-----------------------------------------------------------------------------
(***************************************************************************)
(* The refinement: every step of RunManager is a step of RunLifecycle on   *)
(* the rows, or changes no row.                                            *)
(***************************************************************************)

LEMMA LifecycleStep ==
    ASSUME OneCopy, IInv, [Next]_vars
    PROVE  [Lifecycle!Next]_(Lifecycle!rowVars)
<1> DEFINE Ended == \E r \in Runs, s \in Terminal : Lifecycle!End(r, s)
<1> USE StatusKinds DEF Lifecycle!Terminal, Lifecycle!Active, Lifecycle!Runs, Terminal, Active,
        Runs
<1>1. CASE UNCHANGED vars
  BY <1>1 DEF vars, Lifecycle!rowVars
<1>2. ASSUME NEW p \in Procs, Lifespan(p)
      PROVE  Ended \/ UNCHANGED <<rows, status>>
  <2>1. CASE Boot(p)
    <3>1. CASE \A r \in Runs : status[r] \notin Active
      BY <2>1, <3>1 DEF Boot, IInv, TypeOK
    <3>2. CASE \E r \in Runs : status[r] \in Active
      <4>1. rows \in Runs /\ status[rows] \in Active
        BY <3>2 DEF IInv, ActiveIsNewest
      <4>2. status' = [status EXCEPT ![rows] = "failed"]
        <5>1. \A r \in Runs : rows < r + StaleLimit /\ status[r] \in Active <=> r = rows
          BY <4>1, ConstantsAssumption DEF IInv, ActiveIsNewest
        <5> QED BY <2>1, <5>1 DEF Boot, IInv, TypeOK
      <4>3. Lifecycle!End(rows, "failed")
        BY <2>1, <4>1, <4>2 DEF Boot, Lifecycle!End
      <4> QED BY <4>1, <4>3
    <3> QED BY <3>1, <3>2
  <2>2. CASE ~Boot(p)
    BY <1>2, <2>2 DEF Lifespan, Crash, Exit, Gone, dbVars, ShutdownFlags, ShutdownExecutor
  <2> QED BY <2>1, <2>2
<1>3. ASSUME NEW p \in Procs, Start(p)
      PROVE  Lifecycle!Create \/ UNCHANGED <<rows, status>>
  <2>1. CASE StartCommit(p)
    <3>1. \A r \in Runs : IsActiveRun(r) <=> status[r] \in Active
      BY ActiveRunIsUnique DEF IInv
    <3>2. Lifecycle!Create
      BY <2>1, <3>1 DEF StartCommit, Lifecycle!Create
    <3> QED BY <3>2
  <2>2. CASE StartSubmit(p)
    BY <2>2 DEF StartSubmit
  <2> QED BY <1>3, <2>1, <2>2 DEF Start
<1>4. ASSUME NEW p \in Procs, Work(p)
      PROVE  Ended \/ (\E r \in Runs : Lifecycle!Begin(r)) \/ UNCHANGED <<rows, status>>
  <2>1. CASE Begin(p)
    <3>1. executing[p] \in Runs /\ status[executing[p]] = "pending"
      BY <2>1, WorkerFacts DEF Begin, IInv, WorkerHasSlot
    <3>2. Lifecycle!Begin(executing[p])
      BY <2>1, <3>1 DEF Begin, Stop, Lifecycle!Begin
    <3> QED BY <3>1, <3>2
  <2>2. CASE FinishEarly(p) \/ FinishCancelled(p) \/ FinishTail(p)
    <3>1. executing[p] \in Runs /\ status[executing[p]] = "running"
      BY <2>2, WorkerFacts
      DEF FinishEarly, FinishCancelled, FinishTail, IInv, WorkerHasSlot, InPipeline
    <3>2. PICK s \in Terminal : Stop(p, "finally", [status EXCEPT ![executing[p]] = s])
      BY <2>2 DEF FinishEarly, FinishCancelled, FinishTail
    <3>3. Lifecycle!End(executing[p], s)
      BY <3>1, <3>2 DEF Stop, Lifecycle!End
    <3> QED BY <3>1, <3>3
  <2>3. CASE Handle(p)
    <3>1. executing[p] \in Runs /\ status[executing[p]] \in Active
      BY <2>3, WorkerFacts DEF Handle, IInv, WorkerHasSlot
    <3>2. Lifecycle!End(executing[p], "failed") \/ UNCHANGED <<rows, status>>
      BY <2>3, <3>1 DEF Handle, Stop, Lose, dbVars, Lifecycle!End
    <3> QED BY <3>1, <3>2
  <2>4. CASE \/ \E r \in Runs : Take(p, r)
             \/ Checkpoint(p) \/ Raise(p) \/ Release(p) \/ Return(p)
    BY <2>4 DEF Take, Checkpoint, Raise, Release, Return, Stop, Lose, dbVars
  <2> QED BY <1>4, <2>1, <2>2, <2>3, <2>4 DEF Work
<1>5. ASSUME NEW p \in Procs, Cancel(p)
      PROVE  UNCHANGED <<rows, status>>
  BY <1>5 DEF Cancel, CancelFlag, CancelRead, CancelWrite
<1>6. Ended => Lifecycle!Next
  BY DEF Lifecycle!Next
<1> QED
  BY <1>1, <1>2, <1>3, <1>4, <1>5, <1>6 DEF Next, Lifecycle!Next, Lifecycle!rowVars

\* RunManager implements RunLifecycle: whatever the threads, crashes and
\* restarts of a single copy do, its readers see rows that are created one
\* at a time, of which at most one is active, and that never leave a
\* terminal status.
THEOREM RunManagerRefinesLifecycle == OneCopy => (Spec => KeepsLifecycle)
<1> SUFFICES ASSUME OneCopy PROVE Spec => Lifecycle!Spec
  BY DEF KeepsLifecycle
<1>1. Init => Lifecycle!Init
  BY DEF Init, Lifecycle!Init, Runs, Lifecycle!Runs
<1>2. IInv /\ [Next]_vars => [Lifecycle!Next]_(Lifecycle!rowVars)
  BY LifecycleStep
<1>3. OneCopy
  OBVIOUS
<1> QED BY <1>1, <1>2, <1>3, RunManagerInvariant, PTL DEF Spec, Lifecycle!Spec

-----------------------------------------------------------------------------
(***************************************************************************)
(* A stop in time is honoured.                                             *)
(***************************************************************************)

\* Why run r never publishes in process p: a signal its last checkpoint will
\* see is there, or the run is over, or never was, in this process.
NeverPublishes(p, r) ==
    /\ ~Published(p, r)
    /\ \/ cancelReq[r]
       \/ flag[p][r] = "set"
       \/ /\ r <= rows
          /\ starting[p] # r
          /\ future[p][r] # "queued"
          /\ executing[p] = r => worker[p] \notin {"dispatch", "working"}

LEMMA StaysUnpublished ==
    ASSUME OneCopy, IInv, NEW p \in Procs, NEW r \in Runs, NeverPublishes(p, r), [Next]_vars
    PROVE  NeverPublishes(p, r)'
<1> USE RunNumbers DEF NeverPublishes, Published, Stop
<1>0. /\ TypeOK
      /\ flag[p][r] # "none" => r = rows /\ r = current[p]
  BY DEF IInv, TypeOK, SlotIsNewest
<1>1. CASE UNCHANGED vars
  BY <1>1 DEF vars
<1>2. ASSUME NEW q \in Procs, Lifespan(q) PROVE NeverPublishes(p, r)'
  <2>1. CASE Gone(q)
    BY <1>0, <2>1 DEF Gone, dbVars, TypeOK
  <2>2. CASE Boot(q)
    BY <1>0, <2>2 DEF Boot
  <2>3. CASE ShutdownFlags(q)
    BY <1>0, <2>3 DEF ShutdownFlags, TypeOK
  <2>4. CASE ShutdownExecutor(q)
    BY <1>0, <2>4 DEF ShutdownExecutor, TypeOK
  <2> QED BY <1>2, <2>1, <2>2, <2>3, <2>4 DEF Lifespan, Crash, Exit
<1>3. ASSUME NEW q \in Procs, StartCommit(q) PROVE NeverPublishes(p, r)'
  BY <1>0, <1>3 DEF StartCommit, TypeOK
<1>4. ASSUME NEW q \in Procs, StartSubmit(q) PROVE NeverPublishes(p, r)'
  <2>1. q = p => flag[p][r] = "none" \/ starting[p] # r
    BY <1>0, <1>4 DEF StartSubmit, IInv, StartingIsNew
  <2> QED BY <1>0, <1>4, <2>1 DEF StartSubmit, TypeOK
<1>5. ASSUME NEW q \in Procs, NEW s \in Runs, Take(q, s) PROVE NeverPublishes(p, r)'
  BY <1>0, <1>5 DEF Take, TypeOK
<1>6. ASSUME NEW q \in Procs, Begin(q) \/ FinishEarly(q) \/ FinishCancelled(q) \/ FinishTail(q)
                              \/ Raise(q) \/ Handle(q)
      PROVE  NeverPublishes(p, r)'
  <2>1. /\ UNCHANGED <<rows, cancelReq, starting, flag, future, executing>>
        /\ worker[p] \notin {"dispatch", "working"}
             => worker'[p] \notin {"dispatch", "working"}
        /\ worker[p] # "tail" => worker'[p] # "tail"
    BY <1>0, <1>6 DEF Begin, FinishEarly, FinishCancelled, FinishTail, Raise, Handle, Lose,
       dbVars, TypeOK, InPipeline
  <2> QED BY <2>1
<1>7. ASSUME NEW q \in Procs, Checkpoint(q) PROVE NeverPublishes(p, r)'
  BY <1>0, <1>7 DEF Checkpoint, CancelSeen, TypeOK
<1>8. ASSUME NEW q \in Procs, Release(q) PROVE NeverPublishes(p, r)'
  <2>1. q = p => executing[p] \in Runs /\ starting[p] = NoRun
                 /\ \A s \in Runs : future[p][s] # "queued"
    BY <1>8, WorkerFacts DEF Release
  <2> QED BY <1>0, <1>8, <2>1 DEF Release, TypeOK
<1>9. ASSUME NEW q \in Procs, Return(q) PROVE NeverPublishes(p, r)'
  BY <1>0, <1>9 DEF Return, TypeOK
<1>10. ASSUME NEW q \in Procs, Cancel(q) PROVE NeverPublishes(p, r)'
  <2>1. UNCHANGED <<rows, starting, future, worker, executing>>
    BY <1>10 DEF Cancel, CancelFlag, CancelRead, CancelWrite
  <2>2. flag[p][r] = "set" => flag'[p][r] = "set"
    BY <1>0, <1>10 DEF Cancel, CancelFlag, CancelRead, CancelWrite, TypeOK
  <2>3. ASSUME cancelReq[r] PROVE cancelReq'[r]
    <3>1. PICK s \in Runs : cancelReq' \in {cancelReq, [cancelReq EXCEPT ![s] = TRUE]}
      BY <1>10 DEF Cancel, CancelFlag, CancelRead, CancelWrite
    <3> QED BY <1>0, <2>3, <3>1, Zenon DEF TypeOK
  <2> QED BY <2>1, <2>2, <2>3
<1> QED BY <1>1, <1>2, <1>3, <1>4, <1>5, <1>6, <1>7, <1>8, <1>9, <1>10 DEF Next, Start, Work

\* RunManager.cancel and _check_cancel: a flag or a row that asks a run to stop before
\* its last checkpoint keeps it from ever publishing in that process, whatever
\* crashes, restarts and later runs come after.
THEOREM StopInTimeIsHonoured == OneCopy => (Spec => StopIsHonoured)
<1> SUFFICES ASSUME OneCopy, NEW p \in Procs, NEW r \in Runs
             PROVE  Spec => [](/\ flag[p][r] = "set" \/ cancelReq[r]
                               /\ ~Published(p, r)
                               => []~Published(p, r))
  BY DEF StopIsHonoured
<1>1. /\ flag[p][r] = "set" \/ cancelReq[r]
      /\ ~Published(p, r)
      => NeverPublishes(p, r)
  BY DEF NeverPublishes
<1>2. IInv /\ NeverPublishes(p, r) /\ [Next]_vars => NeverPublishes(p, r)'
  BY StaysUnpublished
<1>3. NeverPublishes(p, r) => ~Published(p, r)
  BY DEF NeverPublishes
<1>4. OneCopy
  OBVIOUS
<1> QED BY RunManagerInvariant, <1>1, <1>2, <1>3, <1>4, PTL DEF Spec
=============================================================================
