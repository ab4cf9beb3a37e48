--------------------------- MODULE AgentRunProofs ---------------------------
(***************************************************************************)
(* Proofs about AgentRun for every number of runs, tasks, files, workers,  *)
(* retries, faults and stops.                                              *)
(*                                                                         *)
(* The frame lemmas say which actions touch which variables; every part of *)
(* InductiveInvariant is then a lemma with one step for each action that   *)
(* can disturb it.  Runs stays an opaque set: no argument counts runs.     *)
(***************************************************************************)
EXTENDS AgentRun, FiniteSetTheorems, TLAPS

USE DEF Deliverers, Launchers

-----------------------------------------------------------------------------
(* Which actions touch which variables.                                    *)

RowStep ==
  \/ \E r \in Runs, t \in Tasks : CreateRun(r, t)
  \/ \E r \in Runs :
       \/ RequestCancel(r) \/ RetryOutputDelivery(r) \/ BootRecover(r)
       \/ ClaimRun(r) \/ FailQueued(r) \/ Interrupt(r) \/ FinalizeFailure(r)
       \/ FinalizeSuccess(r) \/ StagePending(r) \/ StageFault(r)
  \/ \E d \in Deliverers :
       CommitDelivery(d) \/ RefuseDelivery(d) \/ FailDelivery(d)
  \/ BootSettle

\* The columns of agent_runs and what hangs off them change in these actions.
LEMMA RowFrame == [Next]_vars => RowStep \/ UNCHANGED rowVars
<1>1. CASE UNCHANGED vars
  BY <1>1 DEF vars
<1>2. ASSUME NEW r \in Runs, Worker(r) PROVE RowStep \/ UNCHANGED rowVars
  BY <1>2 DEF Worker, RowStep, ClaimAbandon, ClaimIdentityChanged,
     ClaimBackoff, Recheck, InterruptWait, LaunchFails, CallModel,
     ModelReturns, FinalizeAbandon, FinalizeWait, FinishWorker
<1>3. ASSUME NEW r \in Runs, WorkerFault(r) PROVE RowStep \/ UNCHANGED rowVars
  BY <1>3 DEF WorkerFault, RowStep, ClaimFault, RecheckFault, InterruptFault,
     FinalizeFault
<1>4. ASSUME NEW l \in Launchers, Dispatch(l) PROVE UNCHANGED rowVars
  BY <1>4 DEF Dispatch, LaunchScan, LaunchScanFault, LaunchReserve
<1>5. ASSUME NEW d \in Deliverers, Deliver(d) PROVE RowStep \/ UNCHANGED rowVars
  BY <1>5 DEF Deliver, RowStep, Compensate
<1>6. CASE Owner
  BY <1>6 DEF Owner, RowStep, ChangeTask, ChangeRuntime
<1>7. CASE Startup
  BY <1>7 DEF Startup, RowStep, Boot
<1>8. ASSUME NEW r \in Runs, SignalCancel(r) PROVE UNCHANGED rowVars
  BY <1>8 DEF SignalCancel
<1>9. CASE ScheduleRestore \/ BeginShutdown \/ FinishShutdown \/ Crash
  BY <1>9 DEF ScheduleRestore, BeginShutdown, FinishShutdown, Crash, LoseMemory
<1> QED
  BY <1>1, <1>2, <1>3, <1>4, <1>5, <1>6, <1>7, <1>8, <1>9 DEF Next

FileStep ==
  \/ \E r \in Runs :
       RetryOutputDelivery(r) \/ BootRecover(r) \/ FinalizeSuccess(r)
  \/ \E d \in Deliverers : Deliver(d)
  \/ FinishShutdown \/ Crash \/ Boot

\* Open deliveries and the files on disk change in these actions.
LEMMA FileFrame == [Next]_vars => FileStep \/ UNCHANGED deliveryVars
<1>1. CASE UNCHANGED vars
  BY <1>1 DEF vars
<1>2. ASSUME NEW r \in Runs, Worker(r)
      PROVE  FileStep \/ UNCHANGED deliveryVars
  BY <1>2 DEF Worker, FileStep, ClaimAbandon, ClaimRun, ClaimIdentityChanged,
     FailQueued, ClaimBackoff, Recheck, Interrupt, InterruptWait, LaunchFails,
     CallModel, ModelReturns, FinalizeAbandon, FinalizeFailure, StagePending,
     FinalizeWait, FinishWorker, WorkerFrame
<1>3. ASSUME NEW r \in Runs, WorkerFault(r) PROVE UNCHANGED deliveryVars
  BY <1>3 DEF WorkerFault, ClaimFault, RecheckFault, InterruptFault,
     FinalizeFault, StageFault, WorkerFrame
<1>4. ASSUME NEW l \in Launchers, Dispatch(l) PROVE UNCHANGED deliveryVars
  BY <1>4 DEF Dispatch, LaunchScan, LaunchScanFault, LaunchReserve
<1>5. CASE Owner
  BY <1>5 DEF Owner, FileStep, CreateRun, RequestCancel, ChangeTask,
     ChangeRuntime
<1>6. CASE Startup
  BY <1>6 DEF Startup, FileStep, BootSettle
<1>7. ASSUME NEW r \in Runs, SignalCancel(r) PROVE UNCHANGED deliveryVars
  BY <1>7 DEF SignalCancel
<1>8. CASE ScheduleRestore \/ BeginShutdown
  BY <1>8 DEF ScheduleRestore, BeginShutdown
<1> QED
  BY <1>1, <1>2, <1>3, <1>4, <1>5, <1>6, <1>7, <1>8 DEF Next, FileStep

WorkerStep ==
  \/ \E r \in Runs : Worker(r) \/ WorkerFault(r)
  \/ \E l \in Launchers : LaunchReserve(l)
  \/ \E d \in Deliverers :
       CommitDelivery(d) \/ RefuseDelivery(d) \/ Compensate(d)
  \/ FinishShutdown \/ Crash

\* The state of the workers changes in these actions.
LEMMA WorkerStepFrame == [Next]_vars => WorkerStep \/ UNCHANGED workerVars
<1>1. CASE UNCHANGED vars
  BY <1>1 DEF vars
<1>2. ASSUME NEW l \in Launchers, Dispatch(l)
      PROVE  WorkerStep \/ UNCHANGED workerVars
  BY <1>2 DEF Dispatch, WorkerStep, LaunchScan, LaunchScanFault
<1>3. ASSUME NEW d \in Deliverers, Deliver(d)
      PROVE  WorkerStep \/ UNCHANGED workerVars
  BY <1>3 DEF Deliver, WorkerStep, FailDelivery, DeliveryFrame, workerVars
<1>4. CASE Owner
  BY <1>4 DEF Owner, CreateRun, RequestCancel, RetryOutputDelivery,
     RecoverOutput, ChangeTask, ChangeRuntime
<1>5. CASE Startup
  BY <1>5 DEF Startup, Boot, BootRecover, RecoverOutput, BootSettle
<1>6. ASSUME NEW r \in Runs, SignalCancel(r) PROVE UNCHANGED workerVars
  BY <1>6 DEF SignalCancel
<1>7. CASE ScheduleRestore \/ BeginShutdown
  BY <1>7 DEF ScheduleRestore, BeginShutdown
<1> QED
  BY <1>1, <1>2, <1>3, <1>4, <1>5, <1>6, <1>7 DEF Next, WorkerStep

ProcessStep ==
  \/ ScheduleRestore \/ BeginShutdown \/ FinishShutdown \/ Crash
  \/ Boot \/ BootSettle
  \/ \E r \in Runs : BootRecover(r)

\* The process starts, stops and freezes in these actions.
LEMMA ProcessFrame == [Next]_vars => ProcessStep \/ UNCHANGED processVars
<1>1. CASE UNCHANGED vars
  BY <1>1 DEF vars
<1>2. ASSUME NEW r \in Runs, Worker(r) PROVE UNCHANGED processVars
  BY <1>2 DEF Worker, ClaimAbandon, ClaimRun, ClaimIdentityChanged,
     FailQueued, ClaimBackoff, Recheck, Interrupt, InterruptWait, LaunchFails,
     CallModel, ModelReturns, FinalizeAbandon, FinalizeFailure,
     FinalizeSuccess, StagePending, FinalizeWait, FinishWorker, WorkerFrame,
     FinalizeFrame
<1>3. ASSUME NEW r \in Runs, WorkerFault(r) PROVE UNCHANGED processVars
  BY <1>3 DEF WorkerFault, ClaimFault, RecheckFault, InterruptFault,
     FinalizeFault, StageFault, WorkerFrame, FinalizeFrame
<1>4. ASSUME NEW l \in Launchers, Dispatch(l) PROVE UNCHANGED processVars
  BY <1>4 DEF Dispatch, LaunchScan, LaunchScanFault, LaunchReserve
<1>5. ASSUME NEW d \in Deliverers, Deliver(d) PROVE UNCHANGED processVars
  BY <1>5 DEF Deliver, CommitDelivery, RefuseDelivery, FailDelivery,
     Compensate, DeliveryFrame
<1>6. CASE Owner
  BY <1>6 DEF Owner, CreateRun, RequestCancel, RetryOutputDelivery,
     ChangeTask, ChangeRuntime
<1>7. ASSUME NEW r \in Runs, SignalCancel(r) PROVE UNCHANGED processVars
  BY <1>7 DEF SignalCancel
<1> QED
  BY <1>1, <1>2, <1>3, <1>4, <1>5, <1>6, <1>7 DEF Next, ProcessStep, Startup

\* The task, assignment, actor and runtime versions change in these actions.
LEMMA FactFrame ==
  [Next]_vars => \/ \E t \in Tasks : ChangeTask(t)
                 \/ ChangeRuntime
                 \/ \E d \in Deliverers : CommitDelivery(d) \/ FailDelivery(d)
                 \/ UNCHANGED factVars
<1>1. CASE UNCHANGED vars
  BY <1>1 DEF vars
<1>2. ASSUME NEW r \in Runs, Worker(r) PROVE UNCHANGED factVars
  BY <1>2 DEF Worker, ClaimAbandon, ClaimRun, ClaimIdentityChanged,
     FailQueued, ClaimBackoff, Recheck, Interrupt, InterruptWait, LaunchFails,
     CallModel, ModelReturns, FinalizeAbandon, FinalizeFailure,
     FinalizeSuccess, StagePending, FinalizeWait, FinishWorker, WorkerFrame,
     FinalizeFrame
<1>3. ASSUME NEW r \in Runs, WorkerFault(r) PROVE UNCHANGED factVars
  BY <1>3 DEF WorkerFault, ClaimFault, RecheckFault, InterruptFault,
     FinalizeFault, StageFault, WorkerFrame, FinalizeFrame
<1>4. ASSUME NEW l \in Launchers, Dispatch(l) PROVE UNCHANGED factVars
  BY <1>4 DEF Dispatch, LaunchScan, LaunchScanFault, LaunchReserve
<1>5. ASSUME NEW d \in Deliverers, RefuseDelivery(d) \/ Compensate(d)
      PROVE  UNCHANGED factVars
  BY <1>5 DEF RefuseDelivery, Compensate
<1>6. ASSUME NEW r \in Runs,
             \/ \E t \in Tasks : CreateRun(r, t)
             \/ RequestCancel(r) \/ RetryOutputDelivery(r) \/ SignalCancel(r)
      PROVE  UNCHANGED factVars
  BY <1>6 DEF CreateRun, RequestCancel, RetryOutputDelivery, RecoverOutput,
     SignalCancel
<1>7. CASE Startup
  BY <1>7 DEF Startup, Boot, BootRecover, RecoverOutput, BootSettle
<1>8. CASE ScheduleRestore \/ BeginShutdown \/ FinishShutdown \/ Crash
  BY <1>8 DEF ScheduleRestore, BeginShutdown, FinishShutdown, Crash, LoseMemory
<1> QED
  BY <1>1, <1>2, <1>3, <1>4, <1>5, <1>6, <1>7, <1>8 DEF Next, Owner, Deliver

\* The bound on storage faults only counts.
LEMMA FaultFrame == [Next]_vars => Fault \/ UNCHANGED faults
<1>1. CASE UNCHANGED vars
  BY <1>1 DEF vars
<1>2. ASSUME NEW r \in Runs, Worker(r) PROVE UNCHANGED faults
  BY <1>2 DEF Worker, ClaimAbandon, ClaimRun, ClaimIdentityChanged,
     FailQueued, ClaimBackoff, Recheck, Interrupt, InterruptWait, LaunchFails,
     CallModel, ModelReturns, FinalizeAbandon, FinalizeFailure,
     FinalizeSuccess, StagePending, FinalizeWait, FinishWorker
<1>3. ASSUME NEW r \in Runs, WorkerFault(r) PROVE Fault
  BY <1>3 DEF WorkerFault, ClaimFault, RecheckFault, InterruptFault,
     FinalizeFault, StageFault
<1>4. ASSUME NEW l \in Launchers, Dispatch(l) PROVE Fault \/ UNCHANGED faults
  BY <1>4 DEF Dispatch, LaunchScan, LaunchScanFault, LaunchReserve
<1>5. ASSUME NEW d \in Deliverers, Deliver(d) PROVE Fault \/ UNCHANGED faults
  BY <1>5 DEF Deliver, CommitDelivery, RefuseDelivery, FailDelivery, Compensate
<1>6. CASE Owner
  BY <1>6 DEF Owner, CreateRun, RequestCancel, RetryOutputDelivery,
     RecoverOutput, ChangeTask, ChangeRuntime
<1>7. CASE Startup
  BY <1>7 DEF Startup, Boot, BootRecover, RecoverOutput, BootSettle
<1>8. ASSUME NEW r \in Runs, SignalCancel(r) PROVE UNCHANGED faults
  BY <1>8 DEF SignalCancel
<1>9. CASE ScheduleRestore \/ BeginShutdown \/ FinishShutdown \/ Crash
  BY <1>9 DEF ScheduleRestore, BeginShutdown, FinishShutdown, Crash, LoseMemory
<1> QED
  BY <1>1, <1>2, <1>3, <1>4, <1>5, <1>6, <1>7, <1>8, <1>9 DEF Next

LaunchStep ==
  \/ \E r \in Runs, t \in Tasks : CreateRun(r, t)
  \/ \E r \in Runs : FinishWorker(r)
  \/ \E l \in Launchers : Dispatch(l)
  \/ FinishShutdown \/ Crash \/ BootSettle

\* Launches are started, moved on and forgotten in these actions.
LEMMA LaunchFrame == [Next]_vars => LaunchStep \/ UNCHANGED launchVars
<1>1. CASE UNCHANGED vars
  BY <1>1 DEF vars
<1>2. ASSUME NEW r \in Runs, Worker(r)
      PROVE  LaunchStep \/ UNCHANGED launchVars
  BY <1>2 DEF Worker, LaunchStep, ClaimAbandon, ClaimRun,
     ClaimIdentityChanged, FailQueued, ClaimBackoff, Recheck, Interrupt,
     InterruptWait, LaunchFails, CallModel, ModelReturns, FinalizeAbandon,
     FinalizeFailure, FinalizeSuccess, StagePending, FinalizeWait, WorkerFrame,
     FinalizeFrame
<1>3. ASSUME NEW r \in Runs, WorkerFault(r) PROVE UNCHANGED launchVars
  BY <1>3 DEF WorkerFault, ClaimFault, RecheckFault, InterruptFault,
     FinalizeFault, StageFault, WorkerFrame, FinalizeFrame
<1>4. ASSUME NEW d \in Deliverers, Deliver(d) PROVE UNCHANGED launchVars
  BY <1>4 DEF Deliver, CommitDelivery, RefuseDelivery, FailDelivery,
     Compensate, DeliveryFrame
<1>5. CASE Owner
  BY <1>5 DEF Owner, LaunchStep, RequestCancel, RetryOutputDelivery,
     RecoverOutput, ChangeTask, ChangeRuntime
<1>6. CASE Startup
  BY <1>6 DEF Startup, LaunchStep, Boot, BootRecover, RecoverOutput
<1>7. ASSUME NEW r \in Runs, SignalCancel(r) PROVE UNCHANGED launchVars
  BY <1>7 DEF SignalCancel
<1>8. CASE ScheduleRestore \/ BeginShutdown
  BY <1>8 DEF ScheduleRestore, BeginShutdown
<1> QED
  BY <1>1, <1>2, <1>3, <1>4, <1>5, <1>6, <1>7, <1>8 DEF Next, LaunchStep

\* Contexts are cancelled, and cancel handlers remembered, in these actions.
LEMMA SignalFrame ==
  [Next]_vars =>
    \/ \E r \in Runs : RequestCancel(r) \/ SignalCancel(r) \/ FinishWorker(r)
    \/ ScheduleRestore \/ BeginShutdown \/ FinishShutdown \/ Crash
    \/ UNCHANGED signalVars
<1>1. CASE UNCHANGED vars
  BY <1>1 DEF vars
<1>2. ASSUME NEW r \in Runs, Worker(r)
      PROVE  FinishWorker(r) \/ UNCHANGED signalVars
  BY <1>2 DEF Worker, ClaimAbandon, ClaimRun, ClaimIdentityChanged,
     FailQueued, ClaimBackoff, Recheck, Interrupt, InterruptWait, LaunchFails,
     CallModel, ModelReturns, FinalizeAbandon, FinalizeFailure,
     FinalizeSuccess, StagePending, FinalizeWait, WorkerFrame, FinalizeFrame
<1>3. ASSUME NEW r \in Runs, WorkerFault(r) PROVE UNCHANGED signalVars
  BY <1>3 DEF WorkerFault, ClaimFault, RecheckFault, InterruptFault,
     FinalizeFault, StageFault, WorkerFrame, FinalizeFrame
<1>4. ASSUME NEW l \in Launchers, Dispatch(l) PROVE UNCHANGED signalVars
  BY <1>4 DEF Dispatch, LaunchScan, LaunchScanFault, LaunchReserve
<1>5. ASSUME NEW d \in Deliverers, Deliver(d) PROVE UNCHANGED signalVars
  BY <1>5 DEF Deliver, CommitDelivery, RefuseDelivery, FailDelivery,
     Compensate, DeliveryFrame
<1>6. ASSUME NEW r \in Runs,
             \/ \E t \in Tasks : CreateRun(r, t)
             \/ RetryOutputDelivery(r)
      PROVE  UNCHANGED signalVars
  BY <1>6 DEF CreateRun, RetryOutputDelivery, RecoverOutput
<1>7. CASE Startup \/ ChangeRuntime \/ \E t \in Tasks : ChangeTask(t)
  BY <1>7 DEF Startup, Boot, BootRecover, RecoverOutput, BootSettle,
     ChangeTask, ChangeRuntime
<1> QED
  BY <1>1, <1>2, <1>3, <1>4, <1>5, <1>6, <1>7 DEF Next, Owner

-----------------------------------------------------------------------------
(* Type correctness.                                                       *)

\* The columns a statement names are columns of the row.
LEMMA ColumnNames ==
  /\ CancelColumns \in SUBSET Page!Columns
  /\ {"started_at"} \in SUBSET Page!Columns
  /\ {"completed_at", "result_bytes"} \in SUBSET Page!Columns
  /\ \A to : EndColumns(to) \in SUBSET Page!Columns
BY DEF CancelColumns, EndColumns, Page!Columns

LEMMA ColumnTypesStep ==
  ASSUME TypeOK, [Next]_vars PROVE ColumnTypes'
<1> USE DEF TypeOK, ColumnTypes
<1>1. ASSUME UNCHANGED columns PROVE ColumnTypes'
  BY <1>1
<1>2. ASSUME NEW r \in Runs, NEW names \in SUBSET Page!Columns, Written(r, names)
      PROVE  ColumnTypes'
  BY <1>2 DEF Written
<1>3. ASSUME NEW r \in Runs, NEW to, Dispose(r, to) PROVE ColumnTypes'
  BY <1>1, <1>2, <1>3, ColumnNames DEF Dispose
<1>4. ASSUME NEW r \in Runs, Retain(r) PROVE ColumnTypes'
  BY <1>2, <1>4, ColumnNames DEF Retain
<1>5. CASE UNCHANGED rowVars
  BY <1>1, <1>5 DEF rowVars
<1>6. ASSUME NEW r \in Runs, NEW t \in Tasks, CreateRun(r, t) PROVE ColumnTypes'
  BY <1>1, <1>6 DEF CreateRun
<1>7. ASSUME NEW r \in Runs, RequestCancel(r) PROVE ColumnTypes'
  BY <1>1, <1>2, <1>7, ColumnNames DEF RequestCancel
<1>8. ASSUME NEW r \in Runs, RetryOutputDelivery(r) \/ BootRecover(r)
      PROVE  ColumnTypes'
  BY <1>4, <1>5, <1>8 DEF RetryOutputDelivery, BootRecover, RecoverOutput
<1>9. ASSUME NEW r \in Runs, ClaimRun(r) PROVE ColumnTypes'
  BY <1>2, <1>9, ColumnNames DEF ClaimRun
<1>10. ASSUME NEW r \in Runs, FailQueued(r) PROVE ColumnTypes'
  <2>1. {"started_at"} \cup EndColumns("failed") \in SUBSET Page!Columns
    BY ColumnNames
  <2> QED BY <1>1, <1>2, <1>10, <2>1 DEF FailQueued
<1>11. ASSUME NEW r \in Runs, Interrupt(r) \/ FinalizeFailure(r)
       PROVE  ColumnTypes'
  BY <1>3, <1>5, <1>11 DEF Interrupt, FinalizeFailure, SettleOr
<1>12. ASSUME NEW r \in Runs, FinalizeSuccess(r) PROVE ColumnTypes'
  BY <1>3, <1>4, <1>5, <1>12 DEF FinalizeSuccess
<1>13. ASSUME NEW r \in Runs, StagePending(r) \/ StageFault(r)
       PROVE  ColumnTypes'
  BY <1>1, <1>3, <1>5, <1>13 DEF StagePending, StageFault, Stage
<1>14. ASSUME NEW d \in Deliverers,
              CommitDelivery(d) \/ RefuseDelivery(d) \/ FailDelivery(d)
       PROVE  ColumnTypes'
  <2>1. d[2] \in Runs
    BY DEF Deliverers
  <2>2. ASSUME SubmitRows(d[2], deliveryObject[d]) PROVE ColumnTypes'
    BY <1>2, <2>1, <2>2, ColumnNames DEF SubmitRows
  <2> QED
    BY <1>4, <1>5, <1>14, <2>1, <2>2 DEF CommitDelivery, RefuseDelivery, FailDelivery
<1>15. CASE BootSettle
  <2>1. ASSUME NEW r \in Runs
        PROVE  columns[r] \cup EndColumns(status'[r]) \in SUBSET Page!Columns
    BY ColumnNames
  <2>2. columns' = [r \in Runs |->
          IF Unready(r) THEN columns[r] \cup EndColumns(status'[r]) ELSE columns[r]]
    BY <1>15 DEF BootSettle
  <2> QED BY <2>1, <2>2
<1> QED
  BY <1>5, <1>6, <1>7, <1>8, <1>9, <1>10, <1>11, <1>12, <1>13, <1>14, <1>15,
     RowFrame DEF RowStep

LEMMA RowTypesStep ==
  ASSUME TypeOK, [Next]_vars PROVE RowTypes'
<1> USE DEF TypeOK, RowTypes, Statuses
<1>1. CASE UNCHANGED rowVars
  BY <1>1 DEF rowVars
<1>2. ASSUME NEW r \in Runs, NEW t \in Tasks, CreateRun(r, t) PROVE RowTypes'
  BY <1>2 DEF CreateRun, FactTypes
<1>3. ASSUME NEW r \in Runs, RequestCancel(r) PROVE RowTypes'
  BY <1>3 DEF RequestCancel
<1>4. ASSUME NEW r \in Runs, RecoverOutput(r) PROVE RowTypes'
  BY <1>4 DEF RecoverOutput, Retain, rowVars
<1>5. ASSUME NEW r \in Runs, RetryOutputDelivery(r) \/ BootRecover(r)
      PROVE  RowTypes'
  BY <1>1, <1>4, <1>5 DEF RetryOutputDelivery, BootRecover
<1>6. ASSUME NEW r \in Runs, ClaimRun(r) \/ FailQueued(r) PROVE RowTypes'
  BY <1>6 DEF ClaimRun, FailQueued
<1>7. ASSUME NEW r \in Runs,
             NEW to \in {"succeeded", "failed", "cancelled", "interrupted"},
             Dispose(r, to)
      PROVE  RowTypes'
  BY <1>7 DEF Dispose
<1>8. ASSUME NEW r \in Runs, Interrupt(r) PROVE RowTypes'
  BY <1>1, <1>7, <1>8 DEF Interrupt, SettleOr
<1>9. ASSUME NEW r \in Runs, FinalizeFailure(r) PROVE RowTypes'
  <2>1. CASE outcome[r] \in {"failed", "cancelled"}
    BY <1>7, <1>9, <2>1 DEF FinalizeFailure, SettleOr
  <2>2. CASE outcome[r] = "none"
    BY <1>9, <2>2 DEF FinalizeFailure, SettleOr, Dispose
  <2> QED BY <1>9, <2>1, <2>2 DEF FinalizeFailure, WorkerTypes
<1>10. ASSUME NEW r \in Runs, FinalizeSuccess(r) PROVE RowTypes'
  BY <1>1, <1>7, <1>10 DEF FinalizeSuccess, Retain
<1>11. ASSUME NEW r \in Runs, StagePending(r) \/ StageFault(r) PROVE RowTypes'
  BY <1>1, <1>7, <1>11 DEF StagePending, StageFault, Stage
<1>12. ASSUME NEW d \in Deliverers,
              CommitDelivery(d) \/ RefuseDelivery(d) \/ FailDelivery(d)
       PROVE  RowTypes'
  <2>1. d[2] \in Runs /\ deliveryObject[d] \in ObjectIds \cup {NoObject}
    BY DEF DeliveryTypes
  <2>2. ASSUME SubmitRows(d[2], deliveryObject[d]) PROVE RowTypes'
    BY <2>1, <2>2 DEF SubmitRows
  <2>3. ASSUME Retain(d[2]) PROVE RowTypes'
    BY <2>1, <2>3 DEF Retain
  <2> QED
    BY <1>1, <1>12, <2>2, <2>3 DEF CommitDelivery, RefuseDelivery, FailDelivery
<1>13. CASE BootSettle
  BY <1>13 DEF BootSettle
<1> QED
  BY <1>1, <1>2, <1>3, <1>5, <1>6, <1>8, <1>9, <1>10, <1>11, <1>12, <1>13,
     RowFrame DEF RowStep

LEMMA FactTypesStep ==
  ASSUME TypeOK, [Next]_vars PROVE FactTypes'
<1> USE DEF TypeOK, FactTypes
<1>1. CASE UNCHANGED factVars
  BY <1>1 DEF factVars
<1>2. ASSUME NEW t \in Tasks, ChangeTask(t) PROVE FactTypes'
  BY <1>2 DEF ChangeTask
<1>3. CASE ChangeRuntime
  BY <1>3 DEF ChangeRuntime
<1>4. ASSUME NEW r \in Runs, NEW o, SubmitRows(r, o) PROVE FactTypes'
  <2>1. taskVersion' \in [Tasks -> Nat]
    <3>1. CASE task[r] \in Tasks
      BY <1>4, <3>1 DEF SubmitRows
    <3>2. CASE task[r] \notin Tasks
      BY <1>4, <3>2 DEF SubmitRows
    <3> QED BY <3>1, <3>2
  <2>2. taskOpen' \in [Tasks -> BOOLEAN]
    BY <1>4 DEF SubmitRows
  <2> QED BY <1>4, <2>1, <2>2 DEF SubmitRows
<1>5. ASSUME NEW d \in Deliverers, CommitDelivery(d) \/ FailDelivery(d)
      PROVE  FactTypes'
  BY <1>1, <1>4, <1>5 DEF CommitDelivery, FailDelivery
<1> QED
  BY <1>1, <1>2, <1>3, <1>5, FactFrame

LEMMA ProcessTypesStep ==
  ASSUME TypeOK, [Next]_vars PROVE ProcessTypes'
<1> USE DEF TypeOK, ProcessTypes
<1>1. faults' \in Nat
  BY FaultFrame DEF Fault
<1>2. CASE UNCHANGED processVars
  BY <1>1, <1>2 DEF processVars
<1>3. CASE ScheduleRestore \/ BeginShutdown
  <2>1. restorePending' \in BOOLEAN
    BY <1>3 DEF ScheduleRestore, BeginShutdown
  <2>2. stops' \in Nat
    BY <1>3 DEF ScheduleRestore, BeginShutdown
  <2> QED BY <1>1, <1>3, <2>1, <2>2 DEF ScheduleRestore, BeginShutdown
<1>4. CASE FinishShutdown \/ Crash
  BY <1>1, <1>4 DEF FinishShutdown, Crash, LoseMemory
<1>5. CASE Boot \/ BootSettle
  BY <1>1, <1>5 DEF Boot, BootSettle
<1>6. ASSUME NEW r \in Runs, BootRecover(r) PROVE ProcessTypes'
  BY <1>1, <1>6 DEF BootRecover
<1> QED
  BY <1>2, <1>3, <1>4, <1>5, <1>6, ProcessFrame DEF ProcessStep

LEMMA LaunchTypesStep ==
  ASSUME TypeOK, [Next]_vars PROVE LaunchTypes'
<1> USE DEF TypeOK, LaunchTypes
<1>1. CASE UNCHANGED launchVars
  BY <1>1 DEF launchVars
<1>2. ASSUME NEW r \in Runs, NEW t \in Tasks, CreateRun(r, t) PROVE LaunchTypes'
  BY <1>2 DEF CreateRun
<1>3. ASSUME NEW r \in Runs, FinishWorker(r) PROVE LaunchTypes'
  BY <1>3 DEF FinishWorker
<1>4. ASSUME NEW l \in Launchers, LaunchScan(l) PROVE LaunchTypes'
  BY <1>4 DEF LaunchScan, Oldest, Queued
<1>5. ASSUME NEW l \in Launchers, LaunchScanFault(l) PROVE LaunchTypes'
  BY <1>5 DEF LaunchScanFault
<1>6. ASSUME NEW l \in Launchers, LaunchReserve(l) PROVE LaunchTypes'
  BY <1>6 DEF LaunchReserve
<1>7. CASE FinishShutdown \/ Crash
  BY <1>7 DEF FinishShutdown, Crash, LoseMemory
<1>8. CASE BootSettle
  BY <1>8 DEF BootSettle
<1> QED
  BY <1>1, <1>2, <1>3, <1>4, <1>5, <1>6, <1>7, <1>8, LaunchFrame
     DEF LaunchStep, Dispatch

LEMMA DeliveryTypesStep ==
  ASSUME TypeOK, [Next]_vars PROVE DeliveryTypes'
<1> USE DEF TypeOK, DeliveryTypes
<1>1. CASE UNCHANGED deliveryVars
  BY <1>1 DEF deliveryVars
<1>2. ASSUME NEW d \in Deliverers, BeginDelivery(d) PROVE DeliveryTypes'
  BY <1>2 DEF BeginDelivery
<1>3. ASSUME NEW r \in Runs, RetryOutputDelivery(r) \/ BootRecover(r)
      PROVE  DeliveryTypes'
  BY <1>1, <1>2, <1>3 DEF RetryOutputDelivery, BootRecover, RecoverOutput
<1>4. ASSUME NEW r \in Runs, FinalizeSuccess(r) PROVE DeliveryTypes'
  BY <1>1, <1>2, <1>4 DEF FinalizeSuccess
<1>5. ASSUME NEW d \in Deliverers, Deliver(d) PROVE DeliveryTypes'
  BY <1>5 DEF Deliver, CommitDelivery, RefuseDelivery, FailDelivery,
     Compensate, EndDelivery
<1>6. CASE FinishShutdown \/ Crash
  BY <1>6 DEF FinishShutdown, Crash, LoseMemory
<1>7. CASE Boot
  BY <1>7 DEF Boot
<1> QED
  BY <1>1, <1>3, <1>4, <1>5, <1>6, <1>7, FileFrame DEF FileStep

\* A worker step keeps the labels, the retry count, the outcome and the
\* counters in their sets, and uses a delay only while one is left.
LEMMA WorkerTypesStep ==
  ASSUME ConstantsAssumption, TypeOK, BackoffInBudget, [Next]_vars
  PROVE  WorkerTypes' /\ BackoffInBudget'
<1> DEFINE Good ==
      /\ pc \in [Runs -> WorkerPcs]
      /\ claimTry \in [Runs -> 0..ClaimRetries]
      /\ outcome \in [Runs -> {"none", "success", "failed", "cancelled"}]
      /\ calls \in [Runs -> Nat]
      /\ BackoffInBudget
<1> USE DEF TypeOK, WorkerTypes
<1>1. signalled' \subseteq Runs /\ signalDue' \subseteq Runs
  BY SignalFrame DEF signalVars, RequestCancel, SignalCancel, FinishWorker,
     ScheduleRestore, BeginShutdown, FinishShutdown, Crash, LoseMemory, InMap
<1>2. Good'
  <2> USE DEF ConstantsAssumption, BackoffInBudget, WorkerPcs, GoTo, OnlyPc
  <2>1. CASE UNCHANGED workerVars
    BY <2>1 DEF workerVars
  <2>2. ASSUME NEW r \in Runs,
               \/ ClaimAbandon(r) \/ ClaimRun(r) \/ ClaimIdentityChanged(r)
               \/ Interrupt(r) \/ InterruptWait(r) \/ FinalizeAbandon(r)
               \/ FinalizeFailure(r) \/ FinalizeSuccess(r) \/ StagePending(r)
               \/ FinalizeWait(r) \/ RecheckFault(r) \/ InterruptFault(r)
               \/ FinalizeFault(r) \/ StageFault(r)
        PROVE  Good'
    <3>1. PICK label \in WorkerPcs \ {"backoff"} : GoTo(r, label) /\ OnlyPc
      BY <2>2 DEF ClaimAbandon, ClaimRun, ClaimIdentityChanged, Interrupt,
         InterruptWait, FinalizeAbandon, FinalizeFailure, FinalizeSuccess,
         StagePending, FinalizeWait, RecheckFault, InterruptFault,
         FinalizeFault, StageFault
    <3> QED BY <3>1
  <2>3. ASSUME NEW r \in Runs, ClaimFault(r) \/ FailQueued(r) PROVE Good'
    BY <2>3 DEF ClaimFault, FailQueued, RetryClaim
  <2>4. ASSUME NEW r \in Runs, ClaimBackoff(r) PROVE Good'
    BY <2>4 DEF ClaimBackoff
  <2>5. ASSUME NEW r \in Runs, Recheck(r) \/ LaunchFails(r) \/ CallModel(r)
        PROVE  Good'
    BY <2>5 DEF Recheck, LaunchFails, CallModel
  <2>6. ASSUME NEW r \in Runs, ModelReturns(r) PROVE Good'
    BY <2>6 DEF ModelReturns
  <2>7. ASSUME NEW r \in Runs, FinishWorker(r) PROVE Good'
    BY <2>7 DEF FinishWorker
  <2>8. ASSUME NEW l \in Launchers, LaunchReserve(l) PROVE Good'
    BY <2>8 DEF LaunchReserve, LaunchTypes
  <2>9. ASSUME NEW d \in Deliverers,
               CommitDelivery(d) \/ RefuseDelivery(d) \/ Compensate(d)
        PROVE  Good'
    BY <2>9 DEF CommitDelivery, RefuseDelivery, Compensate, EndDelivery,
       WorkerGoes, DeliveryFrame
  <2>10. CASE FinishShutdown \/ Crash
    BY <2>10 DEF FinishShutdown, Crash, LoseMemory
  <2> QED
    BY <2>1, <2>2, <2>3, <2>4, <2>5, <2>6, <2>7, <2>8, <2>9, <2>10,
       WorkerStepFrame DEF WorkerStep, Worker, WorkerFault
<1> QED
  BY <1>1, <1>2

-----------------------------------------------------------------------------
(* What one step may do to one row.                                        *)

SameOutput(r) ==
  /\ delivery'[r] = delivery[r]
  /\ submissions'[r] = submissions[r] /\ artifact'[r] = artifact[r]
SameRequest(r) == r \in cancelRequested' <=> r \in cancelRequested
SameIdentity(r) == task'[r] = task[r] /\ frozenTask'[r] = frozenTask[r]

RowSame(r) ==
  status'[r] = status[r] /\ SameOutput(r) /\ SameRequest(r) /\ SameIdentity(r)

MoveQueue(r) ==
  /\ status[r] = "none" /\ status'[r] = "queued"
  /\ task'[r] \in Tasks /\ frozenTask'[r] = taskVersion[task'[r]]
  /\ SameOutput(r) /\ SameRequest(r)

MoveClaim(r) ==
  /\ status[r] = "queued" /\ status'[r] = "running" /\ pc'[r] = "recheck"
  /\ SameOutput(r) /\ SameRequest(r) /\ SameIdentity(r)

MoveCancel(r) ==
  /\ Active(r) /\ delivery[r] = "not_ready" /\ r \in cancelRequested'
  /\ status'[r] = IF status[r] = "queued" THEN "cancelled" ELSE status[r]
  /\ SameOutput(r) /\ SameIdentity(r)

MoveEnd(r) ==
  /\ \/ status[r] = "queued" /\ status'[r] = "failed"
     \/ /\ Unready(r) /\ status'[r] \in {"failed", "cancelled", "interrupted"}
        /\ r \in cancelRequested => status'[r] = "cancelled"
  /\ pc'[r] \notin ClaimedPcs
  /\ SameOutput(r) /\ SameRequest(r) /\ SameIdentity(r)

\* The answer of the model becomes durable.
Answered(r) ==
  /\ status[r] = "running" /\ r \notin cancelRequested /\ SameRequest(r)
  /\ calls[r] = 1 /\ pc'[r] \notin ClaimedPcs /\ SameIdentity(r)

MoveStage(r) ==
  /\ Answered(r) /\ delivery[r] = "not_ready"
  /\ status'[r] = "running" /\ delivery'[r] = "pending"
  /\ submissions'[r] = submissions[r] /\ artifact'[r] = artifact[r]

MoveRetain(r) ==
  /\ Answered(r)
  /\ status'[r] = "succeeded" /\ delivery'[r] = "retained"
  /\ submissions'[r] = submissions[r] /\ artifact'[r] = artifact[r]

MoveSubmit(r) ==
  /\ Answered(r)
  /\ status'[r] = "succeeded" /\ delivery'[r] = "submitted"
  /\ submissions'[r] = submissions[r] + 1 /\ artifact'[r] \in ObjectIds

RowMove(r) ==
  \/ RowSame(r) \/ MoveQueue(r) \/ MoveClaim(r) \/ MoveCancel(r) \/ MoveEnd(r)
  \/ MoveStage(r) \/ MoveRetain(r) \/ MoveSubmit(r)

\* What a request-side delivery finds: staged output, and no claimed worker.
LEMMA StagedRow ==
  ASSUME InductiveInvariant, NEW r \in Runs,
         status[r] = "running" /\ delivery[r] = "pending"
  PROVE  r \notin cancelRequested /\ calls[r] = 1 /\ pc[r] \notin ClaimedPcs
  BY DEF InductiveInvariant, CancellationHonoured, ModelAsked, WorkerOwnsRow,
     Unready

\* What an open output transaction finds.
LEMMA OpenDelivery ==
  ASSUME InductiveInvariant, NEW d \in Deliverers, deliveryPc[d] = "delivering"
  PROVE  /\ d[2] \in Runs
         /\ status[d[2]] = "running" /\ d[2] \notin cancelRequested
         /\ calls[d[2]] = 1 /\ pc[d[2]] \notin ClaimedPcs
         /\ deliveryObject[d] \in ObjectIds
<1>1. d[2] \in Runs /\ status[d[2]] = "running" /\ d[2] \notin cancelRequested
  BY DEF InductiveInvariant, OutputTransaction
<1>2. deliveryObject[d] \in ObjectIds
  BY DEF InductiveInvariant, FilesOwned, TypeOK, DeliveryTypes
<1>3. CASE d[1] = "request"
  BY <1>1, <1>2, <1>3, StagedRow DEF InductiveInvariant, OutputTransaction
<1>4. CASE d[1] = "worker"
  <2>1. d = <<"worker", d[2]>>
    BY <1>4
  <2>2. pc[d[2]] = "delivering"
    BY <1>1, <2>1 DEF InductiveInvariant, OutputTransaction
  <2> QED BY <1>1, <1>2, <2>2 DEF InductiveInvariant, ModelAsked, ClaimedPcs
<1> QED BY <1>3, <1>4

\* One step moves every row by one of these moves.
LEMMA RowMoves ==
  ASSUME InductiveInvariant, [Next]_vars, NEW r \in Runs
  PROVE  RowMove(r)
<1> USE DEF RowMove, RowSame, SameOutput, SameRequest, SameIdentity
<1>0. TypeOK /\ RowTypes /\ WorkerTypes
  BY DEF InductiveInvariant, TypeOK
<1>1. ASSUME UNCHANGED rowVars PROVE RowMove(r)
  BY <1>1 DEF rowVars
<1>2. ASSUME NEW q \in Runs, NEW t \in Tasks, CreateRun(q, t) PROVE RowMove(r)
  BY <1>0, <1>2 DEF CreateRun, MoveQueue, RowTypes
<1>3. ASSUME NEW q \in Runs, RequestCancel(q) PROVE RowMove(r)
  <2>1. delivery[q] = "not_ready"
    BY <1>0, <1>3 DEF RequestCancel, Active, InductiveInvariant, RowShape,
       RowTypes
  <2> QED BY <1>0, <1>3, <2>1 DEF RequestCancel, MoveCancel, RowTypes
<1>4. ASSUME NEW q \in Runs, RecoverOutput(q) PROVE RowMove(r)
  BY <1>0, <1>1, <1>4, StagedRow DEF RecoverOutput, Retain, MoveRetain,
     Answered, RowTypes, workerVars
<1>5. ASSUME NEW q \in Runs, RetryOutputDelivery(q) \/ BootRecover(q)
      PROVE  RowMove(r)
  BY <1>1, <1>4, <1>5 DEF RetryOutputDelivery, BootRecover
<1>6. ASSUME NEW q \in Runs, ClaimRun(q) PROVE RowMove(r)
  BY <1>0, <1>6 DEF ClaimRun, GoTo, MoveClaim, RowTypes, WorkerTypes
<1>7. ASSUME NEW q \in Runs, FailQueued(q) PROVE RowMove(r)
  BY <1>0, <1>7 DEF FailQueued, GoTo, MoveEnd, RowTypes, WorkerTypes, ClaimedPcs
<1>8. ASSUME NEW q \in Runs,
             NEW to \in {"failed", "cancelled", "interrupted"},
             Dispose(q, to), q \in cancelRequested => to = "cancelled",
             GoTo(q, "exit")
      PROVE  RowMove(r)
  BY <1>0, <1>8 DEF Dispose, GoTo, MoveEnd, RowTypes, WorkerTypes, ClaimedPcs
<1>9. ASSUME NEW q \in Runs, Interrupt(q) PROVE RowMove(r)
  BY <1>1, <1>8, <1>9 DEF Interrupt, SettleOr
<1>10. ASSUME NEW q \in Runs, FinalizeFailure(q) PROVE RowMove(r)
  <2>1. CASE outcome[q] \in {"failed", "cancelled"}
    BY <1>8, <1>10, <2>1 DEF FinalizeFailure, SettleOr
  <2>2. outcome[q] # "none"
    BY <1>10 DEF FinalizeFailure, InductiveInvariant, ModelAsked
  <2> QED BY <1>0, <1>10, <2>1, <2>2 DEF FinalizeFailure, WorkerTypes
<1>11. ASSUME NEW q \in Runs, FinalizeSuccess(q) PROVE RowMove(r)
  <2>1. calls[q] = 1
    BY <1>11 DEF FinalizeSuccess, InductiveInvariant, ModelAsked
  <2>2. CASE q \in cancelRequested
    BY <1>8, <1>11, <2>2 DEF FinalizeSuccess
  <2>3. ASSUME Retain(q), GoTo(q, "exit"), q \notin cancelRequested,
               StillRunning(q)
        PROVE  RowMove(r)
    BY <1>0, <2>1, <2>3 DEF Retain, GoTo, MoveRetain, Answered, RowTypes,
       WorkerTypes, ClaimedPcs, StillRunning
  <2> QED BY <1>1, <1>11, <2>2, <2>3 DEF FinalizeSuccess
<1>12. ASSUME NEW q \in Runs, StagePending(q) \/ StageFault(q) PROVE RowMove(r)
  <2>1. calls[q] = 1
    BY <1>12 DEF StagePending, StageFault, InductiveInvariant, ModelAsked
  <2>2. ASSUME Stage(q), GoTo(q, "exit") \/ GoTo(q, "finalizeWait"),
               q \notin cancelRequested, Unready(q)
        PROVE  RowMove(r)
    BY <1>0, <2>1, <2>2 DEF Stage, GoTo, MoveStage, Answered, RowTypes,
       WorkerTypes, ClaimedPcs, Unready
  <2>3. CASE StagePending(q)
    BY <1>1, <1>8, <2>2, <2>3 DEF StagePending
  <2>4. CASE StageFault(q)
    BY <1>1, <2>2, <2>4 DEF StageFault
  <2> QED BY <1>12, <2>3, <2>4
<1>13. ASSUME NEW d \in Deliverers,
              CommitDelivery(d) \/ RefuseDelivery(d) \/ FailDelivery(d)
       PROVE  RowMove(r)
  <2>1. deliveryPc[d] = "delivering"
    BY <1>13 DEF CommitDelivery, RefuseDelivery, FailDelivery
  <2>2. \A q \in Runs : q = d[2] => pc'[q] \notin ClaimedPcs
    BY <1>0, <1>13, <2>1, OpenDelivery DEF CommitDelivery, RefuseDelivery,
       FailDelivery, EndDelivery, WorkerGoes, ClaimedPcs, WorkerTypes
  <2>3. ASSUME SubmitRows(d[2], deliveryObject[d]) PROVE RowMove(r)
    BY <1>0, <2>1, <2>2, <2>3, OpenDelivery DEF SubmitRows, MoveSubmit,
       Answered, RowTypes
  <2>4. ASSUME Retain(d[2]) PROVE RowMove(r)
    BY <1>0, <2>1, <2>2, <2>4, OpenDelivery DEF Retain, MoveRetain, Answered,
       RowTypes
  <2> QED
    BY <1>1, <1>13, <2>3, <2>4 DEF CommitDelivery, RefuseDelivery, FailDelivery
<1>14. ASSUME BootSettle PROVE RowMove(r)
  <2>1. pc'[r] \notin ClaimedPcs
    BY <1>14 DEF BootSettle, workerVars, InductiveInvariant, WorkerOwnsRow,
       ClaimedPcs
  <2> QED BY <1>14, <2>1 DEF BootSettle, MoveEnd
<1> QED
  BY <1>1, <1>2, <1>3, <1>5, <1>6, <1>7, <1>9, <1>10, <1>11, <1>12, <1>13,
     <1>14, RowFrame DEF RowStep

LEMMA RowShapeStep ==
  ASSUME InductiveInvariant, [Next]_vars PROVE RowShape'
<1> SUFFICES ASSUME NEW r \in Runs
             PROVE  /\ delivery'[r] = "pending" => status'[r] = "running"
                    /\ delivery'[r] \in {"submitted", "retained"}
                         <=> status'[r] = "succeeded"
  BY DEF RowShape
<1>1. RowMove(r)
  BY RowMoves
<1> QED
  BY <1>1 DEF InductiveInvariant, RowShape, RowMove, RowSame, MoveQueue,
     MoveClaim, MoveCancel, MoveEnd, MoveStage, MoveRetain, MoveSubmit,
     SameOutput, Answered, Active, Unready

\* What a statement adds to the columns of a row is what its new status wants.
LEMMA ColumnsMove ==
  /\ ColumnsOf("queued") = ColumnsOf("none")
  /\ ColumnsOf("queued") \cup {"started_at"} = ColumnsOf("running")
  /\ ColumnsOf("queued") \cup CancelColumns = ColumnsOf("cancelled")
  /\ ColumnsOf("queued") \cup ({"started_at"} \cup EndColumns("failed"))
       = ColumnsOf("failed")
  /\ ColumnsOf("running") \cup {"completed_at", "result_bytes"}
       = ColumnsOf("succeeded")
BY DEF ColumnsOf, CancelColumns, EndColumns

LEMMA ColumnsEnd ==
  ASSUME NEW to \in {"failed", "cancelled", "interrupted"}
  PROVE  ColumnsOf("running") \cup EndColumns(to) = ColumnsOf(to)
BY DEF ColumnsOf, EndColumns

LEMMA ColumnsAgreeStep ==
  ASSUME InductiveInvariant, [Next]_vars PROVE ColumnsAgree'
<1>0. RowTypes /\ ColumnTypes /\ ColumnsAgree
  BY DEF InductiveInvariant, TypeOK
<1>1. ASSUME UNCHANGED <<status, columns>> PROVE ColumnsAgree'
  BY <1>0, <1>1 DEF ColumnsAgree
<1>2. ASSUME NEW r \in Runs, NEW to, NEW names,
             status' = [status EXCEPT ![r] = to], Written(r, names),
             ColumnsOf(status[r]) \cup names = ColumnsOf(to)
      PROVE  ColumnsAgree'
  BY <1>0, <1>2 DEF ColumnsAgree, Written, RowTypes, ColumnTypes
<1>3. ASSUME NEW r \in Runs, NEW to \in {"failed", "cancelled", "interrupted"},
             Dispose(r, to)
      PROVE  ColumnsAgree'
  BY <1>1, <1>2, <1>3, ColumnsEnd DEF Dispose, Unready
<1>4. ASSUME NEW r \in Runs, Retain(r), status[r] = "running" PROVE ColumnsAgree'
  BY <1>2, <1>4, ColumnsMove DEF Retain
<1>5. ASSUME UNCHANGED rowVars PROVE ColumnsAgree'
  BY <1>1, <1>5 DEF rowVars
<1>6. ASSUME NEW r \in Runs, NEW t \in Tasks, CreateRun(r, t) PROVE ColumnsAgree'
  BY <1>0, <1>6, ColumnsMove DEF CreateRun, ColumnsAgree, RowTypes
<1>7. ASSUME NEW r \in Runs, RequestCancel(r) PROVE ColumnsAgree'
  BY <1>1, <1>2, <1>7, ColumnsMove DEF RequestCancel
<1>8. ASSUME NEW r \in Runs, RetryOutputDelivery(r) \/ BootRecover(r)
      PROVE  ColumnsAgree'
  BY <1>4, <1>5, <1>8 DEF RetryOutputDelivery, BootRecover, RecoverOutput
<1>9. ASSUME NEW r \in Runs, ClaimRun(r) PROVE ColumnsAgree'
  BY <1>2, <1>9, ColumnsMove DEF ClaimRun
<1>10. ASSUME NEW r \in Runs, FailQueued(r) PROVE ColumnsAgree'
  BY <1>1, <1>2, <1>10, ColumnsMove DEF FailQueued
<1>11. ASSUME NEW r \in Runs, Interrupt(r) PROVE ColumnsAgree'
  BY <1>3, <1>5, <1>11 DEF Interrupt, SettleOr
<1>12. ASSUME NEW r \in Runs, FinalizeFailure(r) PROVE ColumnsAgree'
  <2>1. outcome[r] \in {"failed", "cancelled"}
    BY <1>12 DEF FinalizeFailure, InductiveInvariant, TypeOK, WorkerTypes, ModelAsked
  <2> QED BY <1>3, <1>12, <2>1 DEF FinalizeFailure, SettleOr
<1>13. ASSUME NEW r \in Runs, FinalizeSuccess(r) PROVE ColumnsAgree'
  BY <1>3, <1>4, <1>5, <1>13 DEF FinalizeSuccess, StillRunning
<1>14. ASSUME NEW r \in Runs, StagePending(r) \/ StageFault(r)
       PROVE  ColumnsAgree'
  BY <1>1, <1>3, <1>5, <1>14 DEF StagePending, StageFault, Stage
<1>15. ASSUME NEW d \in Deliverers,
              CommitDelivery(d) \/ RefuseDelivery(d) \/ FailDelivery(d)
       PROVE  ColumnsAgree'
  <2>1. d[2] \in Runs /\ status[d[2]] = "running"
    BY <1>15, OpenDelivery DEF CommitDelivery, RefuseDelivery, FailDelivery
  <2>2. ASSUME SubmitRows(d[2], deliveryObject[d]) PROVE ColumnsAgree'
    BY <1>2, <2>1, <2>2, ColumnsMove DEF SubmitRows
  <2> QED
    BY <1>4, <1>5, <1>15, <2>1, <2>2 DEF CommitDelivery, RefuseDelivery, FailDelivery
<1>16. CASE BootSettle
  <2> SUFFICES ASSUME NEW r \in Runs PROVE columns'[r] = ColumnsOf(status'[r])
    BY DEF ColumnsAgree
  <2>1. CASE Unready(r)
    <3>1. status'[r] \in {"cancelled", "interrupted"}
      BY <1>16, <2>1 DEF BootSettle
    <3>2. columns'[r] = columns[r] \cup EndColumns(status'[r])
      BY <1>16, <2>1 DEF BootSettle
    <3> QED BY <1>0, <2>1, <3>1, <3>2, ColumnsEnd DEF ColumnsAgree, Unready
  <2>2. CASE ~Unready(r)
    BY <1>0, <1>16, <2>2 DEF BootSettle, ColumnsAgree
  <2> QED BY <2>1, <2>2
<1> QED
  BY <1>5, <1>6, <1>7, <1>8, <1>9, <1>10, <1>11, <1>12, <1>13, <1>14, <1>15,
     <1>16, RowFrame DEF RowStep

LEMMA CancellationHonouredStep ==
  ASSUME InductiveInvariant, [Next]_vars PROVE CancellationHonoured'
<1> SUFFICES ASSUME NEW r \in cancelRequested'
             PROVE  status'[r] # "succeeded" /\ delivery'[r] = "not_ready"
  BY DEF CancellationHonoured
<1>1. r \in Runs
  BY RowTypesStep DEF InductiveInvariant, RowTypes
<1>2. RowMove(r)
  BY <1>1, RowMoves
<1>3. RowShape /\ CancellationHonoured /\ RowTypes
  BY DEF InductiveInvariant, TypeOK
<1> QED
  BY <1>1, <1>2, <1>3 DEF RowShape, CancellationHonoured, RowTypes, RowMove,
     RowSame, MoveQueue, MoveClaim, MoveCancel, MoveEnd, MoveStage, MoveRetain,
     MoveSubmit, SameOutput, SameRequest, Answered, Active, Unready

LEMMA RowsAgreeStep ==
  ASSUME InductiveInvariant, [Next]_vars PROVE RowsAgree'
<1> SUFFICES ASSUME NEW r \in Runs
             PROVE  /\ submissions'[r]
                         = (IF delivery'[r] = "submitted" THEN 1 ELSE 0)
                    /\ artifact'[r] # NoObject <=> delivery'[r] = "submitted"
  BY DEF RowsAgree
<1>1. RowMove(r)
  BY RowMoves
<1>2. RowShape /\ RowsAgree
  BY DEF InductiveInvariant
<1> QED
  BY <1>1, <1>2, ConstantsAssumption DEF ConstantsAssumption, RowShape,
     RowsAgree, RowMove, RowSame, MoveQueue, MoveClaim, MoveCancel, MoveEnd,
     MoveStage, MoveRetain, MoveSubmit, SameOutput, Answered

-----------------------------------------------------------------------------
(* What one step may do to one worker.                                     *)

Keeps(r) == outcome'[r] = outcome[r] /\ calls'[r] = calls[r]

PcBeforeClaim(r) ==
  /\ \/ pc[r] = "none" /\ pc'[r] = "claim" /\ process = "up"
     \/ /\ pc[r] \in {"claim", "failing", "backoff"}
        /\ pc'[r] \in {"claim", "failing", "backoff", "exit"}
  /\ Keeps(r)

PcClaims(r) ==
  /\ pc[r] = "claim" /\ pc'[r] = "recheck" /\ Keeps(r)
  /\ status[r] = "queued" /\ status'[r] = "running"
  /\ delivery'[r] = delivery[r]

PcBeforeCall(r) ==
  /\ \/ pc[r] = "recheck" /\ pc'[r] \in {"launching", "interrupt", "exit"}
     \/ /\ pc[r] \in {"interrupt", "interruptWait"}
        /\ pc'[r] \in {"interrupt", "interruptWait", "exit"}
  /\ Keeps(r)

PcGivesUp(r) ==
  /\ pc[r] \in {"recheck", "launching"} /\ pc'[r] = "finalize"
  /\ outcome'[r] = "failed" /\ calls'[r] = calls[r]

PcCalls(r) ==
  /\ pc[r] = "launching" /\ pc'[r] = "executing"
  /\ outcome'[r] = outcome[r] /\ calls'[r] = calls[r] + 1

PcAnswered(r) ==
  /\ pc[r] = "executing" /\ pc'[r] = "finalize"
  /\ outcome'[r] # "none" /\ calls'[r] = calls[r]

PcFinalizes(r) ==
  /\ \/ pc[r] = "finalize" /\ pc'[r] \in {"finalizeWait", "exit"}
     \/ /\ pc[r] = "finalize" /\ outcome[r] = "success"
        /\ pc'[r] \in {"delivering", "staging"}
     \/ pc[r] = "delivering" /\ pc'[r] \in {"staging", "exit"}
     \/ pc[r] = "staging" /\ pc'[r] \in {"finalizeWait", "exit"}
     \/ pc[r] = "finalizeWait" /\ pc'[r] \in {"finalize", "exit"}
  /\ Keeps(r)

PcLeaves(r) == pc'[r] = "none" /\ outcome'[r] = "none" /\ calls'[r] = calls[r]

PcMove(r) ==
  \/ pc'[r] = pc[r] /\ Keeps(r)
  \/ PcBeforeClaim(r) \/ PcClaims(r) \/ PcBeforeCall(r) \/ PcGivesUp(r)
  \/ PcCalls(r) \/ PcAnswered(r) \/ PcFinalizes(r) \/ PcLeaves(r)

\* One step moves every worker by one of these moves.
LEMMA PcMoves ==
  ASSUME InductiveInvariant, [Next]_vars, NEW r \in Runs
  PROVE  PcMove(r)
<1> USE DEF PcMove, Keeps, GoTo, OnlyPc, WorkerTypes
<1>0. WorkerTypes
  BY DEF InductiveInvariant, TypeOK
<1>1. ASSUME UNCHANGED workerVars PROVE PcMove(r)
  BY <1>1 DEF workerVars
<1>2. ASSUME NEW q \in Runs,
             \/ ClaimAbandon(q) \/ ClaimIdentityChanged(q) \/ FailQueued(q)
             \/ ClaimBackoff(q) \/ ClaimFault(q)
      PROVE  PcMove(r)
  BY <1>0, <1>2 DEF ClaimAbandon, ClaimIdentityChanged, FailQueued,
     ClaimBackoff, ClaimFault, RetryClaim, PcBeforeClaim
<1>3. ASSUME NEW q \in Runs, ClaimRun(q) PROVE PcMove(r)
  BY <1>0, <1>3 DEF ClaimRun, PcClaims, InductiveInvariant, TypeOK, RowTypes
<1>4. ASSUME NEW q \in Runs, Recheck(q) PROVE PcMove(r)
  BY <1>0, <1>4 DEF Recheck, PcBeforeCall, PcGivesUp
<1>5. ASSUME NEW q \in Runs,
             \/ RecheckFault(q) \/ Interrupt(q) \/ InterruptFault(q)
             \/ InterruptWait(q)
      PROVE  PcMove(r)
  BY <1>0, <1>5 DEF RecheckFault, Interrupt, InterruptFault, InterruptWait,
     PcBeforeCall
<1>6. ASSUME NEW q \in Runs, LaunchFails(q) \/ CallModel(q) PROVE PcMove(r)
  BY <1>0, <1>6 DEF LaunchFails, CallModel, PcGivesUp, PcCalls
<1>7. ASSUME NEW q \in Runs, ModelReturns(q) PROVE PcMove(r)
  BY <1>0, <1>7 DEF ModelReturns, PcAnswered
<1>8. ASSUME NEW q \in Runs,
             \/ FinalizeAbandon(q) \/ FinalizeFailure(q) \/ FinalizeSuccess(q)
             \/ FinalizeFault(q) \/ StagePending(q) \/ StageFault(q)
             \/ FinalizeWait(q)
      PROVE  PcMove(r)
  BY <1>0, <1>8 DEF FinalizeAbandon, FinalizeFailure, FinalizeSuccess,
     FinalizeFault, StagePending, StageFault, FinalizeWait, PcFinalizes
<1>9. ASSUME NEW q \in Runs, FinishWorker(q) PROVE PcMove(r)
  BY <1>0, <1>9 DEF FinishWorker, PcLeaves
<1>10. ASSUME NEW l \in Launchers, LaunchReserve(l) PROVE PcMove(r)
  BY <1>0, <1>10 DEF LaunchReserve, CanReserve, InMap, PcBeforeClaim
<1>11. ASSUME NEW d \in Deliverers,
              CommitDelivery(d) \/ RefuseDelivery(d) \/ Compensate(d)
       PROVE  PcMove(r)
  <2>1. CASE d[1] = "request"
    BY <1>11, <2>1 DEF CommitDelivery, RefuseDelivery, Compensate,
       EndDelivery, WorkerGoes, DeliveryFrame
  <2>2. CASE d[1] = "worker"
    <3>1. d[2] \in Runs /\ d = <<"worker", d[2]>>
      BY <2>2
    <3>2. pc[d[2]] = "delivering"
      BY <1>11, <3>1 DEF CommitDelivery, RefuseDelivery, Compensate,
         InductiveInvariant, OutputTransaction
    <3> QED
      BY <1>0, <1>11, <3>1, <3>2 DEF CommitDelivery, RefuseDelivery,
         Compensate, EndDelivery, WorkerGoes, DeliveryFrame, PcFinalizes
  <2> QED BY <2>1, <2>2
<1>12. CASE FinishShutdown \/ Crash
  BY <1>12 DEF FinishShutdown, Crash, LoseMemory, PcLeaves
<1> QED
  BY <1>1, <1>2, <1>3, <1>4, <1>5, <1>6, <1>7, <1>8, <1>9, <1>10, <1>11, <1>12,
     WorkerStepFrame DEF WorkerStep, Worker, WorkerFault

LEMMA ModelAskedStep ==
  ASSUME InductiveInvariant, [Next]_vars PROVE ModelAsked'
<1> SUFFICES ASSUME NEW r \in Runs
    PROVE  /\ calls'[r] \in {0, 1}
           /\ status'[r] \in {"none", "queued"}
              \/ pc'[r] \in {"recheck", "launching"} => calls'[r] = 0
           /\ (\/ pc'[r] \in {"executing", "delivering", "staging"}
               \/ outcome'[r] = "success" \/ delivery'[r] # "not_ready")
                => calls'[r] = 1
           /\ pc'[r] \in {"finalize", "finalizeWait", "delivering", "staging"}
                => outcome'[r] # "none"
  BY DEF ModelAsked
<1>1. RowMove(r) /\ PcMove(r)
  BY RowMoves, PcMoves
<1>2. ModelAsked /\ WorkerOwnsRow
  BY DEF InductiveInvariant
<1>3. /\ delivery'[r] # "not_ready"
           => delivery[r] # "not_ready" \/ calls[r] = 1
      /\ status'[r] \in {"none", "queued"} => status[r] \in {"none", "queued"}
  BY <1>1 DEF RowMove, RowSame, MoveQueue, MoveClaim, MoveCancel, MoveEnd,
     MoveStage, MoveRetain, MoveSubmit, SameOutput, Answered, Active
<1>4. pc[r] = "launching" => status[r] = "running" /\ delivery[r] = "not_ready"
  BY <1>2 DEF WorkerOwnsRow, ClaimedPcs, Unready
<1> QED
  BY <1>1, <1>2, <1>3, <1>4 DEF ModelAsked, PcMove, PcBeforeClaim, PcClaims,
     PcBeforeCall, PcGivesUp, PcCalls, PcAnswered, PcFinalizes, PcLeaves, Keeps

\* A worker step moves no other worker.
LEMMA WorkerGoesTo ==
  ASSUME NEW q \in Runs, Worker(q) \/ WorkerFault(q)
  PROVE  \E label : GoTo(q, label)
  BY DEF Worker, WorkerFault, ClaimAbandon, ClaimRun, ClaimIdentityChanged,
     FailQueued, ClaimBackoff, Recheck, Interrupt, InterruptWait, LaunchFails,
     CallModel, ModelReturns, FinalizeAbandon, FinalizeFailure,
     FinalizeSuccess, StagePending, FinalizeWait, FinishWorker, ClaimFault,
     RecheckFault, InterruptFault, FinalizeFault, StageFault, RetryClaim

\* Where the process can be after a step.
LEMMA ProcessMoves ==
  ASSUME [Next]_vars
  PROVE  \/ UNCHANGED <<process, restorePending>>
         \/ process = "up" /\ process' \in {"up", "closing"} /\ ~Serving'
         \/ FinishShutdown \/ Crash \/ Boot \/ BootSettle
  BY ProcessFrame DEF ProcessStep, ScheduleRestore, BeginShutdown, BootRecover,
     Serving, processVars

LEMMA WorkerOwnsRowStep ==
  ASSUME InductiveInvariant, [Next]_vars PROVE WorkerOwnsRow'
<1>1. ASSUME NEW r \in Runs, pc'[r] \in ClaimedPcs PROVE Unready(r)'
  <2>1. RowMove(r) /\ PcMove(r)
    BY RowMoves, PcMoves
  <2>2. CASE PcClaims(r)
    BY <2>2 DEF PcClaims, InductiveInvariant, RowShape, TypeOK, RowTypes,
       Unready
  <2>3. CASE pc[r] \in ClaimedPcs
    <3>1. Unready(r)
      BY <2>3 DEF InductiveInvariant, WorkerOwnsRow
    <3> QED
      BY <1>1, <2>1, <3>1 DEF Unready, RowMove, RowSame, MoveQueue, MoveClaim,
         MoveCancel, MoveEnd, MoveStage, MoveRetain, MoveSubmit, Answered,
         SameOutput
  <2> QED
    BY <1>1, <2>1, <2>2, <2>3 DEF PcMove, PcBeforeClaim, PcBeforeCall,
       PcGivesUp, PcCalls, PcAnswered, PcFinalizes, PcLeaves, ClaimedPcs
<1>2. ASSUME process' \in {"down", "recovering"}, NEW r \in Runs
      PROVE  pc'[r] = "none"
  <2>1. PcMove(r)
    BY PcMoves
  <2>2. CASE process \in {"down", "recovering"}
    <3>1. pc[r] = "none"
      BY <2>2 DEF InductiveInvariant, WorkerOwnsRow
    <3> QED
      BY <2>1, <2>2, <3>1 DEF PcMove, PcBeforeClaim, PcClaims, PcBeforeCall,
         PcGivesUp, PcCalls, PcAnswered, PcFinalizes, PcLeaves
  <2>3. CASE FinishShutdown \/ Crash
    BY <2>3 DEF FinishShutdown, Crash, LoseMemory
  <2> QED
    BY <1>2, <2>2, <2>3, ProcessMoves DEF Boot, BootSettle
<1> QED
  BY <1>1, <1>2 DEF WorkerOwnsRow

-----------------------------------------------------------------------------
(* Output transactions and files.                                          *)

\* While an output transaction is open nothing else writes rows or versions.
LEMMA ConnectionHeld ==
  ASSUME InductiveInvariant, [Next]_vars,
         NEW d \in Deliverers, deliveryPc[d] = "delivering"
  PROVE  \/ CommitDelivery(d) \/ RefuseDelivery(d) \/ FailDelivery(d)
         \/ UNCHANGED rowVars /\ UNCHANGED factVars
<1>1. ~DbFree
  BY DEF DbFree
<1>2. ASSUME NEW e \in Deliverers, deliveryPc[e] = "delivering" PROVE e = d
  BY <1>2 DEF InductiveInvariant, OutputTransaction
<1>3. ASSUME RowStep
      PROVE  CommitDelivery(d) \/ RefuseDelivery(d) \/ FailDelivery(d)
  BY <1>1, <1>2, <1>3 DEF RowStep, CreateRun, RequestCancel,
     RetryOutputDelivery, RecoverOutput, BootRecover, RequestsIdle, ClaimRun,
     FailQueued, Interrupt, FinalizeFailure, FinalizeSuccess, StagePending, StageFault,
     BootSettle, CommitDelivery, RefuseDelivery, FailDelivery
<1>4. ASSUME ChangeRuntime \/ \E t \in Tasks : ChangeTask(t) PROVE FALSE
  BY <1>1, <1>4 DEF ChangeTask, ChangeRuntime
<1>5. ASSUME NEW e \in Deliverers, CommitDelivery(e) \/ FailDelivery(e)
      PROVE  e = d
  BY <1>2, <1>5 DEF CommitDelivery, FailDelivery
<1> QED
  BY <1>3, <1>4, <1>5, RowFrame, FactFrame

\* A delivery is opened for a running row whose cancellation is not accepted,
\* on the free connection; a caller other than the worker found it staged.
Opened(d) ==
  /\ DbFree /\ deliveryPc[d] = "idle" /\ BeginDelivery(d)
  /\ status[d[2]] = "running" /\ d[2] \notin cancelRequested
  /\ d[1] = "request" => delivery[d[2]] = "pending"
  /\ d[1] = "worker" => pc'[d[2]] = "delivering"
  /\ OutputIdentityHolds(d[2])
  /\ process \notin {"down"} /\ UNCHANGED <<rowVars, factVars>>

FileMove ==
  \/ UNCHANGED deliveryVars
  \/ \E d \in Deliverers : Opened(d)
  \/ \E d \in Deliverers : Deliver(d)
  \/ FinishShutdown \/ Crash \/ Boot

LEMMA FileMoves ==
  ASSUME InductiveInvariant, [Next]_vars PROVE FileMove
<1>1. ASSUME NEW r \in Runs, RecoverOutput(r), process # "down"
      PROVE  UNCHANGED deliveryVars \/ Opened(<<"request", r>>)
  BY <1>1, StagedRow DEF RecoverOutput, Opened
<1>2. ASSUME NEW r \in Runs, RetryOutputDelivery(r) \/ BootRecover(r)
      PROVE  FileMove
  <2>1. RecoverOutput(r) \/ UNCHANGED deliveryVars
    BY <1>2 DEF RetryOutputDelivery, BootRecover
  <2>2. process # "down"
    BY <1>2 DEF RetryOutputDelivery, BootRecover, Serving
  <2> QED BY <1>1, <2>1, <2>2 DEF FileMove
<1>3. ASSUME NEW r \in Runs, FinalizeSuccess(r) PROVE FileMove
  <2>1. UNCHANGED deliveryVars \/ Opened(<<"worker", r>>)
    <3>1. deliveryPc[<<"worker", r>>] = "idle"
      BY <1>3 DEF FinalizeSuccess, InductiveInvariant, OutputTransaction
    <3>2. pc \in [Runs -> WorkerPcs]
      BY DEF InductiveInvariant, TypeOK, WorkerTypes
    <3> QED
      BY <1>3, <3>1, <3>2 DEF FinalizeSuccess, Opened, StillRunning, GoTo,
         FinalizeFrame, Alive
  <2> QED BY <2>1 DEF FileMove
<1> QED
  BY <1>2, <1>3, FileFrame DEF FileStep, FileMove

\* An output transaction that is open after a step was open before it, or the
\* step opened it.
LEMMA OpenOrOpened ==
  ASSUME InductiveInvariant, [Next]_vars,
         NEW d \in Deliverers, deliveryPc'[d] = "delivering"
  PROVE  deliveryPc[d] = "delivering" \/ Opened(d)
<1>0. DeliveryTypes
  BY DEF InductiveInvariant, TypeOK
<1>1. CASE UNCHANGED deliveryVars
  BY <1>1 DEF deliveryVars
<1>2. ASSUME NEW e \in Deliverers, Opened(e)
      PROVE  deliveryPc[d] = "delivering" \/ Opened(d)
  BY <1>0, <1>2 DEF Opened, BeginDelivery, DeliveryTypes
<1>3. ASSUME NEW e \in Deliverers, Deliver(e) PROVE deliveryPc[d] = "delivering"
  <2>1. PICK label \in {"idle", "compensating"} :
          deliveryPc' = [deliveryPc EXCEPT ![e] = label]
    BY <1>3 DEF Deliver, CommitDelivery, RefuseDelivery, FailDelivery,
       Compensate, EndDelivery
  <2> QED BY <1>0, <2>1 DEF DeliveryTypes
<1>4. CASE FinishShutdown \/ Crash
  BY <1>4 DEF FinishShutdown, Crash, LoseMemory
<1>5. CASE Boot
  BY <1>5 DEF Boot
<1> QED
  BY <1>1, <1>2, <1>3, <1>4, <1>5, FileMoves DEF FileMove

LEMMA OutputTransactionStep ==
  ASSUME InductiveInvariant, [Next]_vars PROVE OutputTransaction'
<1>0. DeliveryTypes /\ OutputTransaction /\ WorkerOwnsRow
  BY DEF InductiveInvariant, TypeOK
<1>1. CASE FinishShutdown \/ Crash
  BY <1>1 DEF FinishShutdown, Crash, LoseMemory, OutputTransaction, RequestsIdle
<1>2. CASE Boot
  BY <1>0, <1>2 DEF Boot, OutputTransaction, RequestsIdle, rowVars, workerVars
<1>3. CASE /\ ~(FinishShutdown \/ Crash \/ Boot)
  <2>1. process' = "down" => RequestsIdle'
    <3>1. ASSUME process' = "down" PROVE process = "down" /\ RequestsIdle
      BY <1>0, <1>3, <3>1, ProcessMoves DEF BootSettle, OutputTransaction
    <3>2. ASSUME RequestsIdle, process = "down" PROVE UNCHANGED deliveryVars
      BY <1>3, <3>2, FileMoves DEF FileMove, Opened, RequestsIdle, Deliver,
         CommitDelivery, RefuseDelivery, FailDelivery, Compensate
    <3> QED BY <3>1, <3>2 DEF RequestsIdle, deliveryVars
  <2>2. ASSUME NEW r \in Runs, deliveryPc'[<<"worker", r>>] # "idle"
        PROVE  pc'[r] = "delivering"
    <3>1. CASE deliveryPc[<<"worker", r>>] = "idle"
      BY <1>0, <1>3, <2>2, <3>1, FileMoves DEF FileMove, Opened,
         BeginDelivery, Deliver, CommitDelivery, RefuseDelivery, FailDelivery,
         Compensate, EndDelivery, deliveryVars, DeliveryTypes
    <3>2. CASE deliveryPc[<<"worker", r>>] # "idle"
      <4>1. pc[r] = "delivering"
        BY <1>0, <3>2 DEF OutputTransaction
      <4>2. ASSUME NEW d \in Deliverers,
                   CommitDelivery(d) \/ RefuseDelivery(d) \/ Compensate(d)
            PROVE  pc'[r] = "delivering"
        BY <1>0, <2>2, <4>1, <4>2 DEF CommitDelivery, RefuseDelivery,
           Compensate, EndDelivery, WorkerGoes, DeliveryTypes,
           InductiveInvariant, TypeOK, WorkerTypes
      <4>3. ASSUME NEW q \in Runs, Worker(q) \/ WorkerFault(q)
            PROVE  pc'[r] = "delivering"
        <5>1. pc[q] # "delivering"
          BY <4>3 DEF Worker, WorkerFault, ClaimAbandon, ClaimRun,
             ClaimIdentityChanged, FailQueued, ClaimBackoff, Recheck,
             Interrupt, InterruptWait, LaunchFails, CallModel, ModelReturns,
             FinalizeAbandon, FinalizeFailure, FinalizeSuccess, StagePending,
             FinalizeWait, FinishWorker, ClaimFault, RecheckFault,
             InterruptFault, FinalizeFault, StageFault
        <5>2. PICK label : GoTo(q, label)
          BY <4>3, WorkerGoesTo
        <5> QED BY <4>1, <5>1, <5>2 DEF GoTo
      <4>4. ASSUME NEW l \in Launchers, LaunchReserve(l)
            PROVE  pc'[r] = "delivering"
        BY <4>1, <4>4 DEF LaunchReserve, CanReserve, InMap
      <4> QED
        BY <1>3, <4>1, <4>2, <4>3, <4>4, WorkerStepFrame DEF WorkerStep,
           workerVars
    <3> QED BY <3>1, <3>2
  <2>3. ASSUME NEW d \in Deliverers, NEW e \in Deliverers,
               deliveryPc'[d] = "delivering", deliveryPc'[e] = "delivering"
        PROVE  d = e
    <3>1. ASSUME NEW g \in Deliverers, NEW h \in Deliverers, Opened(g),
                 deliveryPc'[h] = "delivering"
          PROVE  h = g
      BY <1>0, <3>1 DEF Opened, BeginDelivery, DbFree, DeliveryTypes
    <3> QED
      BY <1>0, <2>3, <3>1, OpenOrOpened DEF OutputTransaction
  <2>4. ASSUME NEW d \in Deliverers, deliveryPc'[d] = "delivering"
        PROVE  /\ status'[d[2]] = "running" /\ d[2] \notin cancelRequested'
               /\ d[1] = "request" => delivery'[d[2]] = "pending"
    <3>1. CASE deliveryPc[d] = "delivering"
      <4>1. ~(CommitDelivery(d) \/ RefuseDelivery(d) \/ FailDelivery(d))
        BY <1>0, <2>4 DEF CommitDelivery, RefuseDelivery, FailDelivery,
           EndDelivery, DeliveryTypes
      <4>2. UNCHANGED rowVars
        BY <3>1, <4>1, ConnectionHeld
      <4> QED
        BY <1>0, <3>1, <4>2 DEF OutputTransaction, rowVars
    <3>2. CASE deliveryPc[d] # "delivering"
      <4>1. Opened(d)
        BY <2>4, <3>2, OpenOrOpened
      <4> QED BY <4>1 DEF Opened, rowVars
    <3> QED BY <3>1, <3>2
  <2> QED BY <2>1, <2>2, <2>3, <2>4 DEF OutputTransaction
<1> QED BY <1>1, <1>2, <1>3

\* Only a submission changes what the artifact rows point at.
LEMMA ArtifactFrame ==
  [Next]_vars => \/ UNCHANGED artifact
                 \/ \E d \in Deliverers : CommitDelivery(d) \/ FailDelivery(d)
  BY RowFrame DEF RowStep, CreateRun, RequestCancel, RetryOutputDelivery,
     BootRecover, RecoverOutput, ClaimRun, FailQueued, Interrupt, SettleOr,
     FinalizeFailure, FinalizeSuccess, StagePending, StageFault, Dispose, Stage,
     Retain, RefuseDelivery, BootSettle, rowVars

LEMMA FilesOwnedStep ==
  ASSUME InductiveInvariant, [Next]_vars PROVE FilesOwned'
<1>0. FilesOwned /\ DeliveryTypes /\ artifact \in [Runs -> ObjectIds \cup {NoObject}]
  BY DEF InductiveInvariant, TypeOK, RowTypes
<1>1. ASSUME UNCHANGED <<objects, deliveryPc, deliveryObject, artifact>>
      PROVE  FilesOwned'
  BY <1>0, <1>1 DEF FilesOwned
<1>2. CASE UNCHANGED deliveryVars
  <2>1. ASSUME NEW d \in Deliverers PROVE ~CommitDelivery(d) /\ ~FailDelivery(d)
    BY <1>0, <1>2 DEF CommitDelivery, FailDelivery, EndDelivery, DeliveryTypes,
       deliveryVars
  <2> QED BY <1>1, <1>2, <2>1, ArtifactFrame DEF deliveryVars
<1>3. ASSUME NEW d \in Deliverers, Opened(d) PROVE FilesOwned'
  <2>1. PICK o \in ObjectIds \ objects :
          /\ \A q \in Runs : artifact[q] # o
          /\ objects' = objects \cup {o}
          /\ deliveryPc' = [deliveryPc EXCEPT ![d] = "delivering"]
          /\ deliveryObject' = [deliveryObject EXCEPT ![d] = o]
    BY <1>3 DEF Opened, BeginDelivery
  <2>2. UNCHANGED artifact
    BY <1>3 DEF Opened, rowVars
  <2>3. \A e \in Deliverers \ {d} :
          deliveryPc'[e] = deliveryPc[e] /\ deliveryObject'[e] = deliveryObject[e]
    BY <1>0, <2>1 DEF DeliveryTypes
  <2>4. deliveryPc'[d] = "delivering" /\ deliveryObject'[d] = o
    BY <1>0, <2>1 DEF DeliveryTypes
  <2> QED BY <1>0, <2>1, <2>2, <2>3, <2>4 DEF FilesOwned
<1>4. ASSUME NEW d \in Deliverers, Deliver(d) PROVE FilesOwned'
  <2>1. /\ d[2] \in Runs /\ deliveryPc[d] # "idle"
        /\ deliveryObject[d] \in objects
        /\ \A q \in Runs : artifact[q] = deliveryObject[d] =>
             q = d[2] /\ deliveryPc[d] = "compensating"
    BY <1>0, <1>4 DEF FilesOwned, Deliver, CommitDelivery, RefuseDelivery,
       FailDelivery, Compensate
  <2>2. \A e \in Deliverers \ {d} :
          deliveryPc'[e] = deliveryPc[e] /\ deliveryObject'[e] = deliveryObject[e]
    BY <1>0, <1>4 DEF Deliver, CommitDelivery, RefuseDelivery, FailDelivery,
       Compensate, EndDelivery, DeliveryTypes
  <2>3. ASSUME EndDelivery(d, "exit") \/ EndDelivery(d, "staging")
        PROVE  deliveryPc'[d] = "idle"
    BY <1>0, <2>3 DEF EndDelivery, DeliveryTypes
  <2>4. ASSUME SubmitRows(d[2], deliveryObject[d])
        PROVE  /\ artifact'[d[2]] = deliveryObject[d]
               /\ \A q \in Runs \ {d[2]} : artifact'[q] = artifact[q]
    BY <1>0, <2>1, <2>4 DEF SubmitRows
  <2>5. CASE CommitDelivery(d)
    BY <1>0, <2>1, <2>2, <2>3, <2>4, <2>5 DEF CommitDelivery, FilesOwned
  <2>6. CASE RefuseDelivery(d)
    BY <1>0, <2>1, <2>2, <2>3, <2>6 DEF RefuseDelivery, Retain, FilesOwned
  <2>7. CASE FailDelivery(d)
    <3>1. deliveryPc'[d] = "compensating" /\ UNCHANGED <<deliveryObject, objects>>
      BY <1>0, <2>7 DEF FailDelivery, DeliveryTypes
    <3>2. CASE UNCHANGED rowVars
      BY <1>0, <2>1, <2>2, <2>7, <3>1, <3>2 DEF FailDelivery, FilesOwned, rowVars
    <3>3. CASE SubmitRows(d[2], deliveryObject[d])
      BY <1>0, <2>1, <2>2, <2>4, <2>7, <3>1, <3>3 DEF FailDelivery, FilesOwned
    <3> QED BY <2>7, <3>2, <3>3 DEF FailDelivery
  <2>8. CASE Compensate(d)
    BY <1>0, <2>1, <2>2, <2>3, <2>8 DEF Compensate, FilesOwned, rowVars
  <2> QED BY <1>4, <2>5, <2>6, <2>7, <2>8 DEF Deliver
<1>5. CASE FinishShutdown \/ Crash
  BY <1>0, <1>5 DEF FinishShutdown, Crash, LoseMemory, FilesOwned, rowVars
<1>6. CASE Boot
  BY <1>0, <1>6 DEF Boot, FilesOwned, rowVars, InductiveInvariant,
     OutputTransaction, RequestsIdle
<1> QED
  BY <1>2, <1>3, <1>4, <1>5, <1>6, FileMoves DEF FileMove

LEMMA VersionsAnsweredStep ==
  ASSUME InductiveInvariant, [Next]_vars
  PROVE  VersionsAnswered' /\ OneAnswerPerVersion'
<1>0. /\ VersionsAnswered /\ OneAnswerPerVersion /\ RowTypes /\ FactTypes
      /\ RowShape
  BY DEF InductiveInvariant, TypeOK
<1>1. ASSUME NEW t \in Tasks
      PROVE  taskVersion'[t] \in Nat /\ taskVersion'[t] >= taskVersion[t]
  <2>1. CASE UNCHANGED factVars
    BY <1>0, <2>1 DEF factVars, FactTypes
  <2>2. ASSUME NEW u \in Tasks, ChangeTask(u)
        PROVE  taskVersion'[t] \in Nat /\ taskVersion'[t] >= taskVersion[t]
    BY <1>0, <2>2 DEF ChangeTask, FactTypes
  <2>3. CASE ChangeRuntime
    BY <1>0, <2>3 DEF ChangeRuntime, FactTypes
  <2>4. ASSUME NEW d \in Deliverers, SubmitRows(d[2], deliveryObject[d])
        PROVE  taskVersion'[t] \in Nat /\ taskVersion'[t] >= taskVersion[t]
    <3>1. taskVersion'[t] = (IF t = task[d[2]] THEN taskVersion[t] + 1
                             ELSE taskVersion[t])
      BY <1>0, <2>4 DEF SubmitRows, FactTypes
    <3> QED BY <1>0, <3>1 DEF FactTypes
  <2> QED
    BY <2>1, <2>2, <2>3, <2>4, FactFrame DEF CommitDelivery, FailDelivery
<1>2. ASSUME NEW r \in Runs
      PROVE  /\ status'[r] # "none" => task'[r] \in Tasks
             /\ status[r] # "none" =>
                  task'[r] = task[r] /\ frozenTask'[r] = frozenTask[r]
             /\ status[r] = "none" => delivery'[r] # "submitted"
  <2>1. RowMove(r)
    BY RowMoves
  <2> QED
    BY <1>0, <2>1 DEF RowMove, RowSame, MoveQueue, MoveClaim, MoveCancel,
       MoveEnd, MoveStage, MoveRetain, MoveSubmit, Answered, SameOutput,
       SameIdentity, Active, Unready, VersionsAnswered, RowShape
<1>3. ASSUME NEW r \in Runs, delivery[r] = "submitted"
      PROVE  frozenTask'[r] < taskVersion'[task'[r]]
  <2>1. status[r] = "succeeded" /\ task[r] \in Tasks
    BY <1>0, <1>3 DEF RowShape, VersionsAnswered
  <2>2. frozenTask[r] < taskVersion[task[r]]
    BY <1>0, <1>3 DEF VersionsAnswered
  <2> QED BY <1>0, <1>1, <1>2, <2>1, <2>2 DEF RowTypes, FactTypes
<1>4. ASSUME NEW r \in Runs, delivery[r] # "submitted", delivery'[r] = "submitted"
      PROVE  /\ frozenTask'[r] = taskVersion[task'[r]]
             /\ frozenTask'[r] < taskVersion'[task'[r]]
             /\ \A q \in Runs \ {r} : delivery'[q] = "submitted" => delivery[q] = "submitted"
  <2>1. PICK d \in Deliverers :
          deliveryPc[d] = "delivering" /\ SubmitRows(d[2], deliveryObject[d])
    <3>1. RowStep
      BY <1>0, <1>4, RowFrame DEF rowVars
    <3>2. ASSUME NEW q, Retain(q) \/ Stage(q) PROVE FALSE
      BY <1>0, <1>4, <3>2 DEF Retain, Stage, RowTypes
    <3>3. delivery' # delivery
      BY <1>4
    <3>4. ASSUME NEW q \in Runs PROVE ~RecoverOutput(q) /\ ~FinalizeSuccess(q)
      BY <3>2, <3>3 DEF RecoverOutput, FinalizeSuccess, Dispose, rowVars
    <3>5. ASSUME NEW q \in Runs PROVE ~StagePending(q) /\ ~StageFault(q)
      BY <3>2, <3>3 DEF StagePending, StageFault, Dispose, rowVars
    <3>6. PICK d \in Deliverers :
            CommitDelivery(d) \/ RefuseDelivery(d) \/ FailDelivery(d)
      BY <3>1, <3>3, <3>4, <3>5 DEF RowStep, CreateRun, RequestCancel,
         RetryOutputDelivery, BootRecover, ClaimRun, FailQueued, Interrupt,
         SettleOr, FinalizeFailure, Dispose, BootSettle, rowVars
    <3> QED
      BY <3>2, <3>3, <3>6 DEF CommitDelivery, RefuseDelivery, FailDelivery,
         rowVars
  <2>2. d[2] = r
    BY <1>0, <1>4, <2>1 DEF SubmitRows, RowTypes
  <2>3. status[r] = "running" /\ task[r] \in Tasks
    BY <1>0, <2>1, <2>2, OpenDelivery DEF VersionsAnswered
  <2>4. frozenTask[r] = taskVersion[task[r]]
    BY <1>0, <2>1, <2>2 DEF VersionsAnswered
  <2>5. taskVersion'[task[r]] = taskVersion[task[r]] + 1
    BY <1>0, <2>1, <2>2, <2>3 DEF SubmitRows, FactTypes
  <2>6. \A q \in Runs \ {r} : delivery'[q] = delivery[q]
    BY <1>0, <2>1, <2>2 DEF SubmitRows, RowTypes
  <2> QED BY <1>0, <1>2, <2>3, <2>4, <2>5, <2>6 DEF FactTypes
<1>5. ASSUME NEW d \in Deliverers, deliveryPc'[d] = "delivering"
      PROVE  frozenTask'[d[2]] = taskVersion'[task'[d[2]]]
  <2>1. CASE deliveryPc[d] = "delivering"
    <3>1. ~(CommitDelivery(d) \/ RefuseDelivery(d) \/ FailDelivery(d))
      BY <1>5 DEF CommitDelivery, RefuseDelivery, FailDelivery,
         EndDelivery, DeliveryTypes, InductiveInvariant, TypeOK
    <3>2. UNCHANGED rowVars /\ UNCHANGED factVars
      BY <2>1, <3>1, ConnectionHeld
    <3> QED BY <1>0, <2>1, <3>2 DEF VersionsAnswered, rowVars, factVars
  <2>2. CASE Opened(d)
    BY <2>2 DEF Opened, OutputIdentityHolds, rowVars, factVars
  <2> QED BY <1>5, <2>1, <2>2, OpenOrOpened
<1>6. VersionsAnswered'
  BY <1>2, <1>3, <1>4, <1>5 DEF VersionsAnswered
<1>7. ASSUME NEW q \in Runs, NEW r \in Runs, q # r, task'[q] = task'[r],
             delivery'[q] = "submitted", delivery'[r] = "submitted"
      PROVE  frozenTask'[q] # frozenTask'[r]
  <2>1. ASSUME NEW s \in Runs, delivery[s] = "submitted"
        PROVE  /\ task'[s] = task[s] /\ frozenTask'[s] = frozenTask[s]
               /\ frozenTask[s] < taskVersion[task[s]]
               /\ frozenTask[s] \in Nat /\ taskVersion[task[s]] \in Nat
               /\ task[s] # NoTask
    BY <1>0, <1>2, <2>1, ConstantsAssumption DEF ConstantsAssumption,
       VersionsAnswered, RowShape, RowTypes, FactTypes
  <2>2. CASE delivery[q] = "submitted" /\ delivery[r] = "submitted"
    BY <1>0, <1>7, <2>1, <2>2 DEF OneAnswerPerVersion
  <2>3. CASE delivery[q] # "submitted"
    BY <1>4, <1>7, <2>1, <2>3
  <2>4. CASE delivery[r] # "submitted"
    BY <1>4, <1>7, <2>1, <2>4
  <2> QED BY <2>2, <2>3, <2>4
<1>8. OneAnswerPerVersion'
  BY <1>7 DEF OneAnswerPerVersion
<1> QED BY <1>6, <1>8

-----------------------------------------------------------------------------
(* No run is left behind.                                                  *)

Attended == WorkerPcs \ {"none", "claim", "failing", "backoff", "exit"}

\* A worker that has claimed its run lets go of it only when the row has its
\* disposition or staged output, or when nothing may be written any more.
LEMMA LettingGo ==
  ASSUME InductiveInvariant, [Next]_vars, NEW r \in Runs,
         Unready(r), pc[r] \in Attended, pc'[r] \notin Attended
  PROVE  ~Unready(r)' \/ ~Serving'
<1>0. WorkerTypes /\ RowTypes
  BY DEF InductiveInvariant, TypeOK
<1>1. pc'[r] # pc[r]
  OBVIOUS
<1>2. CASE WorkerFault(r)
  BY <1>0, <1>2 DEF WorkerFault, ClaimFault, RecheckFault, InterruptFault,
     FinalizeFault, StageFault, GoTo, Attended, WorkerPcs, WorkerTypes
<1>3. ASSUME NEW to \in {"failed", "cancelled", "interrupted"}, Dispose(r, to)
      PROVE  ~Unready(r)'
  BY <1>0, <1>3 DEF Dispose, Unready, RowTypes
<1>4. CASE Interrupt(r)
  BY <1>3, <1>4 DEF Interrupt, Frozen, SettleOr, Serving, WorkerFrame,
     processVars
<1>5. CASE FinalizeFailure(r)
  <2>1. outcome[r] \in {"failed", "cancelled"}
    BY <1>0, <1>5 DEF FinalizeFailure, InductiveInvariant, ModelAsked,
       WorkerTypes
  <2> QED BY <1>3, <1>5, <2>1 DEF FinalizeFailure, SettleOr
<1>6. CASE FinalizeSuccess(r)
  BY <1>0, <1>3, <1>6 DEF FinalizeSuccess, Retain, StillRunning, GoTo, Unready,
     Attended, WorkerPcs, WorkerTypes, RowTypes
<1>7. CASE StagePending(r)
  BY <1>0, <1>3, <1>7 DEF StagePending, Stage, Unready, RowTypes
<1>8. CASE Recheck(r) \/ FinalizeAbandon(r)
  BY <1>0, <1>8 DEF Recheck, FinalizeAbandon, GoTo, Frozen, Serving, Attended,
     WorkerPcs, WorkerTypes, WorkerFrame, FinalizeFrame, processVars
<1>9. CASE InterruptWait(r) \/ FinalizeWait(r)
  BY <1>0, <1>9 DEF InterruptWait, FinalizeWait, GoTo, Serving, Attended,
     WorkerPcs, WorkerTypes, WorkerFrame, FinalizeFrame, processVars
<1>10. CASE Worker(r)
  BY <1>0, <1>4, <1>5, <1>6, <1>7, <1>8, <1>9, <1>10 DEF Worker, ClaimAbandon,
     ClaimRun, ClaimIdentityChanged, FailQueued, ClaimBackoff, LaunchFails,
     CallModel, ModelReturns, FinishWorker, GoTo, Attended, WorkerPcs,
     WorkerTypes
<1>11. ASSUME NEW q \in Runs, Worker(q) \/ WorkerFault(q) PROVE q = r
  BY <1>0, <1>1, <1>11, WorkerGoesTo DEF GoTo, WorkerTypes
<1>12. ASSUME NEW l \in Launchers PROVE ~LaunchReserve(l)
  BY <1>0 DEF LaunchReserve, CanReserve, InMap, Attended, WorkerTypes
<1>13. ASSUME NEW d \in Deliverers, CommitDelivery(d) \/ RefuseDelivery(d)
       PROVE  ~Unready(r)'
  <2>1. d[2] = r
    BY <1>0, <1>1, <1>13 DEF CommitDelivery, RefuseDelivery, EndDelivery,
       WorkerGoes, WorkerTypes
  <2> QED
    BY <1>0, <1>13, <2>1 DEF CommitDelivery, RefuseDelivery, SubmitRows, Retain,
       Unready, RowTypes
<1>14. ASSUME NEW d \in Deliverers PROVE ~Compensate(d)
  BY <1>0 DEF Compensate, EndDelivery, WorkerGoes, Attended, WorkerPcs,
     WorkerTypes
<1>15. CASE FinishShutdown \/ Crash
  BY <1>15 DEF FinishShutdown, Crash, LoseMemory, Serving
<1> QED
  BY <1>1, <1>2, <1>10, <1>11, <1>12, <1>13, <1>14, <1>15, WorkerStepFrame
     DEF WorkerStep, workerVars

LEMMA NoAbandonedRunStep ==
  ASSUME InductiveInvariant, [Next]_vars PROVE NoAbandonedRun'
<1> SUFFICES ASSUME NEW r \in Runs, Serving', Unready(r)'
             PROVE  pc'[r] \in Attended
  BY DEF NoAbandonedRun, Attended, WorkerPcs
<1>1. RowTypes
  BY DEF InductiveInvariant, TypeOK
<1>2. ~BootSettle
  BY <1>1 DEF BootSettle, Unready
<1>3. Serving
  BY <1>2, ProcessMoves DEF FinishShutdown, Crash, LoseMemory, Boot, Serving
<1>4. CASE Unready(r)
  <2>1. pc[r] \in Attended
    BY <1>3, <1>4 DEF InductiveInvariant, NoAbandonedRun, Attended
  <2> QED BY <1>4, <2>1, LettingGo
<1>5. CASE ~Unready(r)
  <2>1. RowMove(r)
    BY RowMoves
  <2>2. MoveClaim(r)
    BY <1>5, <2>1 DEF RowMove, RowSame, MoveQueue, MoveCancel, MoveEnd,
       MoveStage, MoveRetain, MoveSubmit, SameOutput, Unready, Active
  <2> QED BY <2>2 DEF MoveClaim, Attended, WorkerPcs
<1> QED BY <1>4, <1>5

-----------------------------------------------------------------------------
(* The theorems.                                                           *)

LEMMA InitInvariant == Init => InductiveInvariant
<1> SUFFICES ASSUME Init PROVE InductiveInvariant
  OBVIOUS
<1> USE ConstantsAssumption DEF ConstantsAssumption, Init
<1>1. TypeOK
  <2>1. RowTypes
    BY DEF RowTypes, Statuses
  <2>2. FactTypes
    BY DEF FactTypes
  <2>3. ProcessTypes /\ LaunchTypes
    BY DEF ProcessTypes, LaunchTypes
  <2>4. WorkerTypes
    BY DEF WorkerTypes, WorkerPcs
  <2>5. DeliveryTypes
    BY DEF DeliveryTypes
  <2>6. ColumnTypes
    BY DEF ColumnTypes
  <2> QED BY <2>1, <2>2, <2>3, <2>4, <2>5, <2>6 DEF TypeOK
<1>2. BackoffInBudget /\ RowShape /\ ColumnsAgree /\ WorkerOwnsRow
      /\ OutputTransaction
  BY DEF BackoffInBudget, RowShape, ColumnsAgree, ColumnsOf, WorkerOwnsRow,
     ClaimedPcs, OutputTransaction
<1>3. ModelAsked /\ RowsAgree /\ FilesOwned /\ CancellationHonoured
  BY DEF ModelAsked, RowsAgree, FilesOwned, CancellationHonoured
<1>4. VersionsAnswered /\ OneAnswerPerVersion /\ NoAbandonedRun
  BY DEF VersionsAnswered, OneAnswerPerVersion, NoAbandonedRun, Unready
<1> QED BY <1>1, <1>2, <1>3, <1>4 DEF InductiveInvariant

LEMMA NextInvariant == InductiveInvariant /\ [Next]_vars => InductiveInvariant'
<1> SUFFICES ASSUME InductiveInvariant, [Next]_vars PROVE InductiveInvariant'
  OBVIOUS
<1>1. TypeOK /\ BackoffInBudget
  BY DEF InductiveInvariant
<1>2. TypeOK' /\ BackoffInBudget'
  BY <1>1, ConstantsAssumption, RowTypesStep, ColumnTypesStep, FactTypesStep,
     ProcessTypesStep,
     WorkerTypesStep, LaunchTypesStep, DeliveryTypesStep DEF TypeOK
<1> QED
  BY <1>2, RowShapeStep, ColumnsAgreeStep, WorkerOwnsRowStep, OutputTransactionStep,
     ModelAskedStep, RowsAgreeStep, FilesOwnedStep, CancellationHonouredStep,
     VersionsAnsweredStep, NoAbandonedRunStep DEF InductiveInvariant

\* The invariant behind every safety theorem of this module: rows, workers,
\* output transactions and files fit together in every reachable state.
THEOREM Invariance == Spec => []InductiveInvariant
  BY InitInvariant, NextInvariant, PTL DEF Spec

\* Every variable keeps its type, for any number of runs, workers, retries,
\* faults and stops.
THEOREM TypeCorrect == Spec => []TypeOK
<1>1. InductiveInvariant => TypeOK
  BY DEF InductiveInvariant
<1> QED BY <1>1, Invariance, PTL

\* An accepted cancellation is final: finalizer, staged output, the recovery
\* endpoint and startup never turn the run into a success.
THEOREM CancellationIsHonoured == Spec => []CancellationHonoured
<1>1. InductiveInvariant => CancellationHonoured
  BY DEF InductiveInvariant
<1> QED BY <1>1, Invariance, PTL

\* Neither a claim retry, nor output recovery, nor a restart asks the model a
\* second time for the same run.
THEOREM ModelCalledAtMostOnce == Spec => []CalledAtMostOnce
<1>1. InductiveInvariant => CalledAtMostOnce
  BY DEF InductiveInvariant, ModelAsked, CalledAtMostOnce
<1> QED BY <1>1, Invariance, PTL

\* A run is submitted exactly when one submission and one artifact exist for
\* it, whichever of worker, endpoint and startup delivered it.
THEOREM SubmittedExactlyOnce == Spec => []OneSubmission
<1>1. InductiveInvariant => OneSubmission
  BY DEF InductiveInvariant, ModelAsked, RowsAgree, OneSubmission
<1> QED BY <1>1, Invariance, PTL

\* A registered artifact has its file, and no other run has the same one,
\* although files are renamed into place before the COMMIT and discarded after
\* a COMMIT whose result is unknown.
THEOREM ArtifactsAreBacked == Spec => []ArtifactBacked
<1>1. InductiveInvariant => ArtifactBacked
  BY DEF InductiveInvariant, FilesOwned, ArtifactBacked
<1> QED BY <1>1, Invariance, PTL

\* Whatever claims, cancellations, deliveries, failures and restarts did to a
\* run, its row agrees with itself as the web client reads it; and the client
\* polls the row exactly as long as it does not call the run over.
THEOREM RowsAreReadable == Spec => []EveryRunIsReadable
<1>1. ASSUME InductiveInvariant, NEW r \in Runs, status[r] # "none"
      PROVE  /\ Page!RunAgrees(Row(r))
             /\ Page!Lifecycle(Row(r)).phase # "unknown"
             /\ Page!NeedsPolling(Row(r)) <=> ~Page!Lifecycle(Row(r)).terminal
  <2> DEFINE outputs == IF delivery[r] = "submitted"
                        THEN {"submission_id", "artifact_id"} ELSE {}
             reasons == IF delivery[r] \in {"pending", "retained"}
                        THEN {"delivery_error"} ELSE {}
             row == Row(r)
  <2>1. status[r] \in Statuses \ {"none"}
    BY <1>1 DEF InductiveInvariant, TypeOK, RowTypes
  <2>2. delivery[r] \in {"not_ready", "pending", "retained", "submitted"}
    BY <1>1 DEF InductiveInvariant, TypeOK, RowTypes
  <2>3. row.columns = ColumnsOf(status[r]) \cup reasons \cup outputs
    BY <1>1 DEF InductiveInvariant, ColumnsAgree, RowsAgree, Row
  <2>4. /\ row.status = status[r] /\ row.delivery = delivery[r]
        /\ row.gate = "none" /\ row.closedFor = "none" /\ row.slot = "none"
    BY DEF Row
  <2>5. /\ delivery[r] = "pending" => status[r] = "running"
        /\ delivery[r] \in {"submitted", "retained"} <=> status[r] = "succeeded"
    BY <1>1 DEF InductiveInvariant, RowShape
  <2> HIDE DEF row
  <2>6. Page!RunAgrees(row)
    BY <2>1, <2>2, <2>3, <2>4, <2>5 DEF Page!RunAgrees, Page!TimesAgree,
       Page!OutcomeAgrees, Page!DeliveryAgrees, Page!Set, ColumnsOf, Statuses
  <2>7. Page!Lifecycle(row).phase # "unknown"
    BY <2>1, <2>2, <2>4, <2>5 DEF Page!Lifecycle, Page!Told, Page!ShownGate,
       Page!ShownReason, Page!Settling, Statuses
  <2>8. Page!NeedsPolling(row) <=> ~Page!Lifecycle(row).terminal
    BY <2>1, <2>2, <2>4, <2>5 DEF Page!Lifecycle, Page!Told, Page!ShownGate,
       Page!ShownReason, Page!Settling, Page!NeedsPolling, Statuses
  <2> QED BY <2>6, <2>7, <2>8 DEF row
<1>2. InductiveInvariant => EveryRunIsReadable
  BY <1>1 DEF EveryRunIsReadable
<1> QED BY <1>2, Invariance, PTL

\* Two runs of one task never answer the same version of it.
THEOREM VersionsAnsweredOnce == Spec => []OneAnswerPerVersion
<1>1. InductiveInvariant => OneAnswerPerVersion
  BY DEF InductiveInvariant
<1> QED BY <1>1, Invariance, PTL

\* While the sidecar serves, a claimed run has a worker that will dispose of it.
THEOREM NoRunIsAbandoned == Spec => []NoAbandonedRun
<1>1. InductiveInvariant => NoAbandonedRun
  BY DEF InductiveInvariant
<1> QED BY <1>1, Invariance, PTL

\* A terminal row never changes, and staged output is never forgotten.
THEOREM DispositionsAreFinal == Spec => DispositionIsFinal
<1>1. InductiveInvariant /\ [Next]_vars =>
        [\A r \in Runs :
           /\ status[r] \in Terminal =>
                status'[r] = status[r] /\ delivery'[r] = delivery[r]
           /\ delivery[r] = "pending" => delivery'[r] # "not_ready"]_vars
  <2> SUFFICES ASSUME InductiveInvariant, [Next]_vars, NEW r \in Runs
      PROVE  /\ status[r] \in Terminal =>
                  status'[r] = status[r] /\ delivery'[r] = delivery[r]
             /\ delivery[r] = "pending" => delivery'[r] # "not_ready"
    OBVIOUS
  <2>1. RowMove(r)
    BY RowMoves
  <2> QED
    BY <2>1 DEF RowMove, RowSame, MoveQueue, MoveClaim, MoveCancel, MoveEnd,
       MoveStage, MoveRetain, MoveSubmit, Answered, SameOutput, Active,
       Unready, Terminal
<1> QED
  BY <1>1, Invariance, PTL DEF Spec, DispositionIsFinal

-----------------------------------------------------------------------------
(* The limit on concurrent workers.                                        *)

\* A step reserves a worker below the limit, or lets no run into the map.
LEMMA MapGrowth ==
  ASSUME InductiveInvariant, [Next]_vars
  PROVE  \/ InMap' \subseteq InMap
         \/ \E r \in Runs : /\ InMap' = InMap \cup {r} /\ r \notin InMap
                            /\ Cardinality(InMap) < MaxConcurrentWorkers
<1>0. WorkerTypes
  BY DEF InductiveInvariant, TypeOK
<1>1. CASE UNCHANGED workerVars
  BY <1>1 DEF workerVars, InMap
<1>2. ASSUME NEW r \in Runs, Worker(r) \/ WorkerFault(r)
      PROVE  InMap' \subseteq InMap
  <2>1. pc[r] # "none"
    BY <1>2 DEF Worker, WorkerFault, ClaimAbandon, ClaimRun,
       ClaimIdentityChanged, FailQueued, ClaimBackoff, Recheck, Interrupt,
       InterruptWait, LaunchFails, CallModel, ModelReturns, FinalizeAbandon,
       FinalizeFailure, FinalizeSuccess, StagePending, FinalizeWait,
       FinishWorker, ClaimFault, RecheckFault, InterruptFault, FinalizeFault,
       StageFault
  <2> QED BY <1>0, <1>2, <2>1, WorkerGoesTo DEF GoTo, InMap, WorkerTypes
<1>3. ASSUME NEW l \in Launchers, LaunchReserve(l)
      PROVE  \/ InMap' \subseteq InMap
             \/ \E r \in Runs : /\ InMap' = InMap \cup {r} /\ r \notin InMap
                                /\ Cardinality(InMap) < MaxConcurrentWorkers
  <2>1. PICK r \in Runs :
          pc' = IF CanReserve(r) THEN [pc EXCEPT ![r] = "claim"] ELSE pc
    BY <1>3 DEF LaunchReserve, InductiveInvariant, TypeOK, LaunchTypes
  <2>2. CASE CanReserve(r)
    <3>1. InMap' = InMap \cup {r}
      BY <1>0, <2>1, <2>2 DEF InMap, WorkerTypes
    <3> QED BY <2>2, <3>1 DEF CanReserve
  <2> QED BY <2>1, <2>2 DEF InMap
<1>4. ASSUME NEW d \in Deliverers,
             CommitDelivery(d) \/ RefuseDelivery(d) \/ Compensate(d)
      PROVE  InMap' \subseteq InMap
  <2>1. ASSUME NEW r \in Runs, pc[r] = "none" PROVE pc'[r] = "none"
    <3>1. d # <<"worker", r>>
      BY <1>4, <2>1 DEF CommitDelivery, RefuseDelivery, Compensate,
         InductiveInvariant, OutputTransaction
    <3>2. d[1] = "worker" => d[2] # r
      BY <3>1
    <3> QED
      BY <1>0, <1>4, <2>1, <3>2 DEF CommitDelivery, RefuseDelivery, Compensate,
         EndDelivery, WorkerGoes, WorkerTypes
  <2> QED BY <2>1 DEF InMap
<1>5. CASE FinishShutdown \/ Crash
  BY <1>5 DEF FinishShutdown, Crash, LoseMemory, InMap
<1> QED
  BY <1>1, <1>2, <1>3, <1>4, <1>5, WorkerStepFrame DEF WorkerStep

\* However many launches scan and reserve at once, no more workers run than
\* the limit allows.
THEOREM WorkerLimit == Spec => []WorkersWithinLimit
<1>1. IsFiniteSet(InMap)
  <2>1. IsFiniteSet(Runs)
    BY FS_Interval, ConstantsAssumption DEF Runs, ConstantsAssumption
  <2> QED BY <2>1, FS_Subset DEF InMap
<1>2. Init => WorkersWithinLimit
  <2> SUFFICES ASSUME Init PROVE WorkersWithinLimit
    OBVIOUS
  <2>1. InMap = {}
    BY DEF Init, InMap
  <2> QED
    BY <2>1, FS_EmptySet, ConstantsAssumption
       DEF WorkersWithinLimit, ConstantsAssumption
<1>3. InductiveInvariant /\ WorkersWithinLimit /\ [Next]_vars
        => WorkersWithinLimit'
  <2> SUFFICES ASSUME InductiveInvariant, WorkersWithinLimit, [Next]_vars
               PROVE  Cardinality(InMap') <= MaxConcurrentWorkers
    BY DEF WorkersWithinLimit
  <2>1. MaxConcurrentWorkers \in Nat /\ Cardinality(InMap) \in Nat
    BY <1>1, FS_CardinalityType, ConstantsAssumption DEF ConstantsAssumption
  <2>2. CASE InMap' \subseteq InMap
    <3>1. Cardinality(InMap') <= Cardinality(InMap) /\ Cardinality(InMap') \in Nat
      BY <1>1, <2>2, FS_Subset, FS_CardinalityType
    <3> QED BY <2>1, <3>1 DEF WorkersWithinLimit
  <2>3. ASSUME NEW r \in Runs, InMap' = InMap \cup {r}, r \notin InMap,
               Cardinality(InMap) < MaxConcurrentWorkers
        PROVE  Cardinality(InMap') <= MaxConcurrentWorkers
    <3>1. Cardinality(InMap') = Cardinality(InMap) + 1
      BY <1>1, <2>3, FS_AddElement
    <3> QED BY <2>1, <2>3, <3>1
  <2> QED BY <2>2, <2>3, MapGrowth
<1> QED
  BY <1>2, <1>3, Invariance, PTL DEF Spec

-----------------------------------------------------------------------------
(* Every run keeps the promise of RunDisposition.                          *)

\* Asking the model leaves every row alone.
LEMMA CallFrame == [Next]_vars => UNCHANGED calls \/ UNCHANGED rowVars
<1>1. ASSUME NEW r \in Runs, CallModel(r) PROVE UNCHANGED rowVars
  BY <1>1 DEF CallModel
<1>2. ASSUME NEW r \in Runs, Worker(r) \/ WorkerFault(r), ~CallModel(r)
      PROVE  UNCHANGED calls
  BY <1>2 DEF Worker, WorkerFault, ClaimAbandon, ClaimRun,
     ClaimIdentityChanged, FailQueued, ClaimBackoff, Recheck, Interrupt,
     InterruptWait, LaunchFails, ModelReturns, FinalizeAbandon,
     FinalizeFailure, FinalizeSuccess, StagePending, FinalizeWait,
     FinishWorker, ClaimFault, RecheckFault, InterruptFault, FinalizeFault,
     StageFault, RetryClaim, OnlyPc
<1>3. ASSUME NEW l \in Launchers, LaunchReserve(l) PROVE UNCHANGED calls
  BY <1>3 DEF LaunchReserve
<1>4. ASSUME NEW d \in Deliverers,
             CommitDelivery(d) \/ RefuseDelivery(d) \/ Compensate(d)
      PROVE  UNCHANGED calls
  BY <1>4 DEF CommitDelivery, RefuseDelivery, Compensate, DeliveryFrame
<1>5. CASE FinishShutdown \/ Crash
  BY <1>5 DEF FinishShutdown, Crash, LoseMemory
<1> QED
  BY <1>1, <1>2, <1>3, <1>4, <1>5, WorkerStepFrame DEF WorkerStep, workerVars

\* For each run, whatever its workers, retries, deliveries and restarts do is
\* one of the steps the owner is promised, or invisible.
THEOREM Refinement == ASSUME NEW r \in Runs PROVE Spec => Run(r)!Spec
<1>1. Init => Run(r)!Init
  <2> SUFFICES ASSUME Init PROVE Run(r)!Init
    OBVIOUS
  <2>1. status[r] = "none" /\ calls[r] = 0 /\ r \notin cancelRequested
    BY DEF Init
  <2>2. Phase(r) = "absent"
    BY <2>1 DEF Phase, Unready
  <2> QED BY <2>1, <2>2 DEF Run!Init
<1>2. InductiveInvariant /\ [Next]_vars => [Run(r)!Next]_(Run(r)!vars)
  <2> SUFFICES ASSUME InductiveInvariant, [Next]_vars
               PROVE  Run(r)!Next \/ UNCHANGED Run(r)!vars
    OBVIOUS
  <2>0. RowTypes /\ RowShape /\ ModelAsked /\ WorkerOwnsRow /\ CancellationHonoured
    BY DEF InductiveInvariant, TypeOK
  <2>1. CASE calls'[r] # calls[r]
    <3>1. PcCalls(r) /\ UNCHANGED rowVars
      BY <2>1, PcMoves, CallFrame DEF PcMove, PcBeforeClaim, PcClaims,
         PcBeforeCall, PcGivesUp, PcAnswered, PcFinalizes, PcLeaves, Keeps
    <3>2. Unready(r) /\ calls[r] = 0 /\ calls'[r] = 1
      BY <2>0, <3>1 DEF PcCalls, WorkerOwnsRow, ClaimedPcs, ModelAsked
    <3> QED
      BY <3>1, <3>2 DEF Run!Next, Run!Ask, Phase, Unready, rowVars
  <2>2. CASE calls'[r] = calls[r]
    <3> USE DEF Phase, Unready, SameOutput, SameRequest
    <3>1. CASE RowSame(r)
      BY <2>2, <3>1 DEF RowSame, Run!vars
    <3>2. CASE MoveQueue(r)
      BY <2>2, <3>2 DEF MoveQueue, Run!Next, Run!Queue
    <3>3. CASE MoveClaim(r)
      BY <2>0, <2>2, <3>3 DEF MoveClaim, RowShape, RowTypes, Run!Next, Run!Claim
    <3>4. CASE MoveCancel(r)
      BY <2>0, <2>2, <3>4 DEF MoveCancel, Active, Run!Next, Run!Accept,
         Run!Waiting
    <3>5. CASE MoveEnd(r)
      BY <2>0, <2>2, <3>5 DEF MoveEnd, RowTypes, Run!Next, Run!End, Run!Ended
    <3>6. CASE MoveStage(r)
      BY <2>2, <3>6 DEF MoveStage, Answered, Run!Next, Run!Answer,
         Run!Published
    <3>7. CASE MoveRetain(r)
      BY <2>2, <3>7 DEF MoveRetain, Answered, Run!Next, Run!Answer,
         Run!Published
    <3>8. CASE MoveSubmit(r)
      BY <2>2, <3>8 DEF MoveSubmit, Answered, Run!Next, Run!Answer,
         Run!Published
    <3> QED
      BY <3>1, <3>2, <3>3, <3>4, <3>5, <3>6, <3>7, <3>8, RowMoves DEF RowMove
  <2> QED BY <2>1, <2>2
<1> QED
  BY <1>1, <1>2, Invariance, PTL DEF Spec, Run!Spec

=============================================================================
