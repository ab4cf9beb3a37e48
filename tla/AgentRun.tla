------------------------------ MODULE AgentRun ------------------------------
(***************************************************************************)
(* The life of an Agent Run inside one sidecar: the row in agent_runs, the *)
(* in-process worker that claims and executes it, the delivery of its      *)
(* output as a Task submission with a controlled file, cancellation, the   *)
(* restore freeze, and stop / start of the process.                        *)
(*                                                                         *)
(* SQLite is opened with one connection, so a transaction is one atomic    *)
(* step; the output transaction is the exception, because it writes files  *)
(* before its COMMIT: it is split at the COMMIT and owns the connection in *)
(* between.  Storage faults are transient errors of one transaction; at    *)
(* most MaxFaults of them happen in a behaviour.                           *)
(***************************************************************************)
EXTENDS Naturals, FiniteSets

\* The web client that reads the rows.
Page == INSTANCE AgentRunReading

CONSTANTS
  MaxRuns,              \* bound: how many runs are ever created
  Tasks,                \* the tasks the runs work on
  ObjectIds,            \* artifact ids (UUIDs) a delivery may draw
  NoTask,               \* task of a row that does not exist yet
  NoObject,             \* no file
  MaxConcurrentWorkers, \* agentRunMaxConcurrentWorkers (8)
  MaxQueued,            \* agentRunMaxQueued (32)
  ClaimRetries,         \* len(agentRunClaimRetryDelays) (3)
  MaxFaults,            \* bound: storage faults per behaviour
  MaxChanges,           \* bound: outside commands on tasks and on the runtime
  MaxStops              \* bound: crashes and shutdowns

ASSUME ConstantsAssumption ==
  /\ MaxRuns \in Nat /\ MaxConcurrentWorkers \in Nat \ {0} /\ MaxQueued \in Nat
  /\ ClaimRetries \in Nat /\ MaxFaults \in Nat /\ MaxChanges \in Nat
  /\ MaxStops \in Nat
  /\ NoTask \notin Tasks /\ NoObject \notin ObjectIds

\* Run ids are numbered in creation order: the queue is ordered by created_at.
Runs == 1..MaxRuns
MaxAccepted == MaxConcurrentWorkers + MaxQueued

\* A delivery is driven by the run's worker, or by a caller of
\* recoverAgentRunOutput (the HTTP endpoint, or startup recovery).
Deliverers == {"worker", "request"} \X Runs
\* launchQueuedAgentRuns is called by a finishing worker, or after a commit
\* that created the run (and once per queued run at startup).
Launchers == {"worker", "request"} \X Runs

VARIABLES
  \* -- the database --
  status,          \* agent_runs.status, "none" before the row exists
  delivery,        \* agent_runs.output_delivery_status
  task,            \* agent_runs.task_id
  frozenTask,      \* task / assignment / actor identity frozen in the row
  frozenRuntime,   \* adapter / provider identity frozen in the row
  columns,         \* of each run: those of started_at, completed_at, ... that are set
  cancelRequested, \* runs with an agent_run_cancel_requested event
  submissions,     \* number of task_submissions rows a run produced
  artifact,        \* object the run's task_artifacts row points at
  taskVersion,     \* version of the task, its assignment and its actor
  taskOpen,        \* is the task todo / in_progress?
  runtimeVersion,  \* version of the adapter and provider
  \* -- the file store --
  objects,         \* files in objects/
  \* -- the process --
  process, restorePending,
  pc,              \* worker of the run; "none": not in agentRunCancels
  claimTry, outcome,
  signalled,       \* runs whose context is cancelled
  signalDue,       \* cancel handlers that committed and must still signal
  launchPc, launchIds,
  deliveryPc, deliveryObject,
  bootQueue,       \* pending runs startup recovery has still to try
  \* -- observers --
  calls,           \* executions of the model for the run
  scanLost,        \* a queue scan failed since the process started
  \* -- bounds --
  faults, changes, stops

rowVars == <<status, delivery, task, frozenTask, frozenRuntime,
             columns, cancelRequested, submissions, artifact>>
factVars == <<taskVersion, taskOpen, runtimeVersion, changes>>
processVars == <<process, restorePending, bootQueue, stops>>
workerVars == <<pc, claimTry, outcome, calls>>
signalVars == <<signalled, signalDue>>
launchVars == <<launchPc, launchIds, scanLost>>
deliveryVars == <<deliveryPc, deliveryObject, objects>>
vars == <<rowVars, factVars, processVars, workerVars, signalVars, launchVars,
          deliveryVars, faults>>

-----------------------------------------------------------------------------
Statuses == {"none", "queued", "running", "succeeded", "failed", "cancelled",
             "interrupted"}
Terminal == {"succeeded", "failed", "cancelled", "interrupted"}
WorkerPcs == {"none", "claim", "failing", "backoff", "recheck", "interrupt",
              "interruptWait", "launching", "executing", "finalize",
              "delivering", "staging", "finalizeWait", "exit"}

InMap == {r \in Runs : pc[r] # "none"}
Active(r) == status[r] \in {"queued", "running"}
Queued == {r \in Runs : status[r] = "queued" /\ delivery[r] = "not_ready"}
Admitted == {r \in Runs : Active(r) /\ delivery[r] = "not_ready"}

\* The single pooled connection is free: no output transaction is open.
DbFree == \A d \in Deliverers : deliveryPc[d] # "delivering"
Alive == process \in {"up", "closing"}
Serving == process = "up" /\ ~restorePending
\* withAgentRunStorageLease refuses the operation.
Frozen == restorePending

RowTypes ==
  /\ status \in [Runs -> Statuses]
  /\ delivery \in [Runs -> {"not_ready", "pending", "submitted", "retained"}]
  /\ task \in [Runs -> Tasks \cup {NoTask}]
  /\ frozenTask \in [Runs -> Nat] /\ frozenRuntime \in [Runs -> Nat]
  /\ cancelRequested \subseteq Runs
  /\ submissions \in [Runs -> Nat]
  /\ artifact \in [Runs -> ObjectIds \cup {NoObject}]

ColumnTypes == columns \in [Runs -> SUBSET Page!Columns]

FactTypes ==
  /\ taskVersion \in [Tasks -> Nat] /\ taskOpen \in [Tasks -> BOOLEAN]
  /\ runtimeVersion \in Nat /\ changes \in Nat

ProcessTypes ==
  /\ process \in {"down", "recovering", "up", "closing"}
  /\ restorePending \in BOOLEAN
  /\ bootQueue \subseteq Runs /\ stops \in Nat /\ faults \in Nat

WorkerTypes ==
  /\ pc \in [Runs -> WorkerPcs]
  /\ claimTry \in [Runs -> 0..ClaimRetries]
  /\ outcome \in [Runs -> {"none", "success", "failed", "cancelled"}]
  /\ calls \in [Runs -> Nat]
  /\ signalled \subseteq Runs /\ signalDue \subseteq Runs

LaunchTypes ==
  /\ launchPc \in [Launchers -> {"idle", "due", "scanned"}]
  /\ launchIds \in [Launchers -> SUBSET Runs]
  /\ scanLost \in BOOLEAN

DeliveryTypes ==
  /\ deliveryPc \in [Deliverers -> {"idle", "delivering", "compensating"}]
  /\ deliveryObject \in [Deliverers -> ObjectIds \cup {NoObject}]
  /\ objects \subseteq ObjectIds

TypeOK == /\ RowTypes /\ ColumnTypes /\ FactTypes /\ ProcessTypes
          /\ WorkerTypes /\ LaunchTypes /\ DeliveryTypes

\* A fresh workspace in which the sidecar has started and serves.
Init ==
  /\ status = [r \in Runs |-> "none"]
  /\ delivery = [r \in Runs |-> "not_ready"]
  /\ task = [r \in Runs |-> NoTask]
  /\ frozenTask = [r \in Runs |-> 0] /\ frozenRuntime = [r \in Runs |-> 0]
  /\ columns = [r \in Runs |-> {}]
  /\ cancelRequested = {}
  /\ submissions = [r \in Runs |-> 0]
  /\ artifact = [r \in Runs |-> NoObject]
  /\ taskVersion = [t \in Tasks |-> 1] /\ taskOpen = [t \in Tasks |-> TRUE]
  /\ runtimeVersion = 1
  /\ objects = {}
  /\ process = "up" /\ restorePending = FALSE
  /\ pc = [r \in Runs |-> "none"]
  /\ claimTry = [r \in Runs |-> 0] /\ outcome = [r \in Runs |-> "none"]
  /\ signalled = {} /\ signalDue = {}
  /\ launchPc = [l \in Launchers |-> "idle"]
  /\ launchIds = [l \in Launchers |-> {}]
  /\ deliveryPc = [d \in Deliverers |-> "idle"]
  /\ deliveryObject = [d \in Deliverers |-> NoObject]
  /\ bootQueue = {}
  /\ calls = [r \in Runs |-> 0]
  /\ scanLost = FALSE
  /\ faults = 0 /\ changes = 0 /\ stops = 0

-----------------------------------------------------------------------------
(* Row transitions shared by several transactions.                         *)

\* validateFrozenAgentRunIdentity: the claim and the pre-launch check.
IdentityHolds(r) ==
  /\ frozenTask[r] = taskVersion[task[r]]
  /\ taskOpen[task[r]]
  /\ frozenRuntime[r] = runtimeVersion

\* validateAgentRunOutputIdentity and the status check of the submission:
\* adapter and provider no longer matter once the model has answered.
OutputIdentityHolds(r) ==
  /\ frozenTask[r] = taskVersion[task[r]]
  /\ taskOpen[task[r]]

Unready(r) == status[r] = "running" /\ delivery[r] = "not_ready"

\* The columns an UPDATE sets beside the status.
Written(r, names) == columns' = [columns EXCEPT ![r] = @ \cup names]
EndColumns(to) ==
  {"completed_at"} \cup (IF to = "failed" THEN {"error_code"} ELSE {})
                   \cup (IF to = "interrupted" THEN {"started_at"} ELSE {})
\* Variant: the cancellation of a queued run does not pretend that it started.
CancelColumns_OnlyEnd == {"completed_at"}
CancelColumns == {"started_at", "completed_at"}

\* A compare-and-swap of a claimed run without output to a terminal status:
\* no row matches, nothing changes.
Dispose(r, to) ==
  /\ status' = IF Unready(r) THEN [status EXCEPT ![r] = to] ELSE status
  /\ IF Unready(r) THEN Written(r, EndColumns(to)) ELSE UNCHANGED columns
  /\ UNCHANGED <<delivery, task, frozenTask, frozenRuntime, cancelRequested,
                 submissions, artifact>>

\* Variant: the disposition forgets an accepted cancellation.
SettleOr_Forgets(r, to) == Dispose(r, to)

\* settleRequestedAgentRunCancellation comes first in the same transaction.
SettleOr(r, to) ==
  Dispose(r, IF r \in cancelRequested THEN "cancelled" ELSE to)

Retain(r) ==
  /\ status' = [status EXCEPT ![r] = "succeeded"]
  /\ Written(r, {"completed_at", "result_bytes"})
  /\ delivery' = [delivery EXCEPT ![r] = "retained"]
  /\ UNCHANGED <<task, frozenTask, frozenRuntime, cancelRequested,
                 submissions, artifact>>

\* finalizeSuccessfulAgentRun returns without effect once the row has left
\* "running", which is how a commit that was reported as failed is absorbed.
StillRunning(r) == status[r] = "running"

Fault == faults < MaxFaults /\ faults' = faults + 1

GoTo(r, label) == pc' = [pc EXCEPT ![r] = label]

-----------------------------------------------------------------------------
(* Commands of the owner.                                                  *)

\* createAgentRun, retryAgentRun and the restart path share prepareAgentRun
\* and createAgentRunInTransaction; the handler launches after the commit.
CreateRun(r, t) ==
  /\ Serving /\ DbFree
  /\ status[r] = "none" /\ \A q \in Runs : q < r => status[q] # "none"
  /\ taskOpen[t]
  /\ \A q \in Runs : task[q] = t => ~Active(q)
  /\ Cardinality(Admitted) < MaxAccepted
  /\ status' = [status EXCEPT ![r] = "queued"]
  /\ task' = [task EXCEPT ![r] = t]
  /\ frozenTask' = [frozenTask EXCEPT ![r] = taskVersion[t]]
  /\ frozenRuntime' = [frozenRuntime EXCEPT ![r] = runtimeVersion]
  /\ launchPc' = [launchPc EXCEPT ![<<"request", r>>] = "due"]
  /\ UNCHANGED <<delivery, columns, cancelRequested, submissions, artifact, launchIds,
                 scanLost, factVars, processVars, workerVars, signalVars,
                 deliveryVars, faults>>

\* Variant: a run with staged output may be cancelled too.
RequestCancel_Staged(r) ==
  /\ Serving /\ DbFree /\ Active(r)
  /\ cancelRequested' = cancelRequested \cup {r}
  /\ status' = IF status[r] = "queued"
               THEN [status EXCEPT ![r] = "cancelled"] ELSE status
  /\ IF status[r] = "queued"
     THEN Written(r, CancelColumns) ELSE UNCHANGED columns
  /\ signalDue' = signalDue \cup {r}
  /\ UNCHANGED <<delivery, task, frozenTask, frozenRuntime, submissions,
                 artifact, factVars, processVars, workerVars, signalled,
                 launchVars, deliveryVars, faults>>

\* The transaction of cancelAgentRun: a run with staged output is refused, a
\* queued run is cancelled at once, a running one keeps only the intent.
RequestCancel(r) ==
  /\ Serving /\ DbFree
  /\ Active(r) /\ delivery[r] # "pending"
  /\ cancelRequested' = cancelRequested \cup {r}
  /\ status' = IF status[r] = "queued"
               THEN [status EXCEPT ![r] = "cancelled"] ELSE status
  /\ IF status[r] = "queued"
     THEN Written(r, CancelColumns) ELSE UNCHANGED columns
  /\ signalDue' = signalDue \cup {r}
  /\ UNCHANGED <<delivery, task, frozenTask, frozenRuntime, submissions,
                 artifact, factVars, processVars, workerVars, signalled,
                 launchVars, deliveryVars, faults>>

\* The rest of the handler, after the commit.
SignalCancel(r) ==
  /\ Alive /\ r \in signalDue
  /\ signalDue' = signalDue \ {r}
  /\ signalled' = IF r \in InMap THEN signalled \cup {r} ELSE signalled
  /\ UNCHANGED <<rowVars, factVars, processVars, workerVars, launchVars,
                 deliveryVars, faults>>

\* Any committed command on the task, its assignment or its actor: an edit, a
\* transition, a reassignment, a review that reopens the task.
ChangeTask(t) ==
  /\ Serving /\ DbFree /\ changes < MaxChanges
  /\ changes' = changes + 1
  /\ taskVersion' = [taskVersion EXCEPT ![t] = @ + 1]
  /\ \E open \in BOOLEAN : taskOpen' = [taskOpen EXCEPT ![t] = open]
  /\ UNCHANGED <<rowVars, runtimeVersion, processVars, workerVars, signalVars,
                 launchVars, deliveryVars, faults>>

\* A command on the adapter or the provider.
ChangeRuntime ==
  /\ Serving /\ DbFree /\ changes < MaxChanges
  /\ changes' = changes + 1
  /\ runtimeVersion' = runtimeVersion + 1
  /\ UNCHANGED <<rowVars, taskVersion, taskOpen, processVars, workerVars,
                 signalVars, launchVars, deliveryVars, faults>>

-----------------------------------------------------------------------------
(* The dispatcher: launchQueuedAgentRuns.                                  *)

Oldest(ids, n) == {r \in ids : Cardinality({q \in ids : q < r}) < n}

\* Capacity check under the mutex, then the FIFO query.
LaunchScan(l) ==
  /\ launchPc[l] = "due" /\ Alive /\ DbFree
  /\ LET scan == process = "up" /\ Cardinality(InMap) < MaxConcurrentWorkers
                 /\ Queued # {}
     IN  /\ launchPc' = [launchPc EXCEPT ![l] = IF scan THEN "scanned" ELSE "idle"]
         /\ launchIds' = IF scan
              THEN [launchIds EXCEPT ![l] = Oldest(Queued, MaxConcurrentWorkers)]
              ELSE launchIds
  /\ UNCHANGED <<rowVars, factVars, processVars, workerVars, signalVars,
                 scanLost, deliveryVars, faults>>

\* The query failed: the launch is given up until the next one.
LaunchScanFault(l) ==
  /\ launchPc[l] = "due" /\ process = "up" /\ DbFree
  /\ Cardinality(InMap) < MaxConcurrentWorkers
  /\ Fault
  /\ launchPc' = [launchPc EXCEPT ![l] = "idle"]
  /\ scanLost' = TRUE
  /\ UNCHANGED <<rowVars, factVars, processVars, workerVars, signalVars,
                 launchIds, deliveryVars>>

\* reserveAgentRunWorker checks again under the mutex that also inserts.
CanReserve(r) ==
  /\ process = "up" /\ r \notin InMap
  /\ Cardinality(InMap) < MaxConcurrentWorkers

\* startAgentRunWorker for the next id of the scan, which may be stale.
LaunchReserve(l) ==
  /\ launchPc[l] = "scanned" /\ Alive
  /\ \E r \in launchIds[l] :
       /\ \A q \in launchIds[l] : r <= q
       /\ launchIds' = [launchIds EXCEPT ![l] = @ \ {r}]
       /\ launchPc' = [launchPc EXCEPT ![l] =
                         IF launchIds[l] = {r} THEN "idle" ELSE @]
       /\ pc' = IF CanReserve(r) THEN [pc EXCEPT ![r] = "claim"] ELSE pc
  /\ UNCHANGED <<rowVars, factVars, processVars, claimTry, outcome, calls,
                 signalVars, scanLost, deliveryVars, faults>>

\* Variant: a finishing worker does not look for the next queued run.
FinishWorker_Silent(r) ==
  /\ pc[r] = "exit" /\ Alive
  /\ pc' = [pc EXCEPT ![r] = "none"]
  /\ outcome' = [outcome EXCEPT ![r] = "none"]
  /\ claimTry' = [claimTry EXCEPT ![r] = 0]
  /\ signalled' = signalled \ {r}
  /\ UNCHANGED <<rowVars, factVars, processVars, calls,
                 signalDue, launchVars, deliveryVars, faults>>

\* finishAgentRunWorker: leave the map, then launch.  (Two finishes of one run
\* whose launches overlap are taken one after the other.)
FinishWorker(r) ==
  /\ pc[r] = "exit" /\ Alive /\ launchPc[<<"worker", r>>] = "idle"
  /\ GoTo(r, "none")
  /\ outcome' = [outcome EXCEPT ![r] = "none"]
  /\ claimTry' = [claimTry EXCEPT ![r] = 0]
  /\ signalled' = signalled \ {r}
  /\ launchPc' = [launchPc EXCEPT ![<<"worker", r>>] = "due"]
  /\ UNCHANGED <<rowVars, factVars, processVars, calls,
                 signalDue, launchIds, scanLost, deliveryVars, faults>>

-----------------------------------------------------------------------------
(* The worker up to the model call: startAgentRunWorker, executeAgentRun.  *)

OnlyPc == UNCHANGED <<claimTry, outcome, calls>>
WorkerFrame == UNCHANGED <<factVars, processVars, signalVars, launchVars,
                           deliveryVars>>

\* The claim finds the storage frozen, or the row no longer queued.
ClaimAbandon(r) ==
  /\ pc[r] = "claim" /\ Alive /\ DbFree
  /\ Frozen \/ status[r] # "queued"
  /\ GoTo(r, "exit") /\ OnlyPc
  /\ WorkerFrame /\ UNCHANGED <<rowVars, faults>>

ClaimRun(r) ==
  /\ pc[r] = "claim" /\ Alive /\ DbFree /\ ~Frozen
  /\ status[r] = "queued" /\ IdentityHolds(r)
  /\ status' = [status EXCEPT ![r] = "running"]
  /\ Written(r, {"started_at"})
  /\ GoTo(r, "recheck") /\ OnlyPc
  /\ WorkerFrame
  /\ UNCHANGED <<delivery, task, frozenTask, frozenRuntime, cancelRequested,
                 submissions, artifact, faults>>

\* The claim rolls back; a second transaction will fail the run.
ClaimIdentityChanged(r) ==
  /\ pc[r] = "claim" /\ Alive /\ DbFree /\ ~Frozen
  /\ status[r] = "queued" /\ ~IdentityHolds(r)
  /\ GoTo(r, "failing") /\ OnlyPc
  /\ WorkerFrame /\ UNCHANGED <<rowVars, faults>>

\* executeAgentRun returned true: retry after a delay, within the budget.
RetryClaim(r) ==
  /\ GoTo(r, IF claimTry[r] < ClaimRetries THEN "backoff" ELSE "exit")
  /\ UNCHANGED <<claimTry, outcome, calls>>

ClaimFault(r) ==
  /\ pc[r] \in {"claim", "failing"} /\ Alive /\ DbFree /\ ~Frozen
  /\ Fault /\ RetryClaim(r)
  /\ WorkerFrame /\ UNCHANGED rowVars

\* failQueuedAgentRunIdentity: losing the row to a cancellation is an error
\* that the claim retries.
FailQueued(r) ==
  /\ pc[r] = "failing" /\ Alive /\ DbFree
  /\ \/ /\ Frozen
        /\ GoTo(r, "exit") /\ OnlyPc /\ UNCHANGED <<status, columns>>
     \/ /\ ~Frozen /\ status[r] = "queued"
        /\ status' = [status EXCEPT ![r] = "failed"]
        /\ Written(r, {"started_at"} \cup EndColumns("failed"))
        /\ GoTo(r, "exit") /\ OnlyPc
     \/ /\ ~Frozen /\ status[r] # "queued"
        /\ RetryClaim(r) /\ UNCHANGED <<status, columns>>
  /\ WorkerFrame
  /\ UNCHANGED <<delivery, task, frozenTask, frozenRuntime, cancelRequested,
                 submissions, artifact, faults>>

\* The select between the retry timer and the run's context.
ClaimBackoff(r) ==
  /\ pc[r] = "backoff" /\ Alive
  /\ \/ /\ GoTo(r, "claim") /\ claimTry' = [claimTry EXCEPT ![r] = @ + 1]
     \/ /\ r \in signalled
        /\ GoTo(r, "exit") /\ UNCHANGED claimTry
  /\ WorkerFrame
  /\ UNCHANGED <<outcome, calls, rowVars, faults>>

\* The second identity check, right before the executor starts.
Recheck(r) ==
  /\ pc[r] = "recheck" /\ Alive /\ DbFree
  /\ \/ /\ Frozen /\ GoTo(r, "exit") /\ UNCHANGED outcome
     \/ /\ ~Frozen /\ IdentityHolds(r)
        /\ GoTo(r, "launching") /\ UNCHANGED outcome
     \/ /\ ~Frozen /\ ~IdentityHolds(r)
        /\ GoTo(r, "finalize")
        /\ outcome' = [outcome EXCEPT ![r] = "failed"]
  /\ WorkerFrame
  /\ UNCHANGED <<claimTry, calls, rowVars, faults>>

RecheckFault(r) ==
  /\ pc[r] = "recheck" /\ Alive /\ DbFree /\ ~Frozen /\ Fault
  /\ GoTo(r, "interrupt") /\ OnlyPc
  /\ WorkerFrame /\ UNCHANGED rowVars

\* interruptClaimedAgentRun
Interrupt(r) ==
  /\ pc[r] = "interrupt" /\ Alive /\ DbFree
  /\ IF Frozen THEN UNCHANGED rowVars ELSE SettleOr(r, "interrupted")
  /\ GoTo(r, "exit") /\ OnlyPc
  /\ WorkerFrame /\ UNCHANGED faults

InterruptFault(r) ==
  /\ pc[r] = "interrupt" /\ Alive /\ DbFree /\ ~Frozen /\ Fault
  /\ GoTo(r, "interruptWait") /\ OnlyPc
  /\ WorkerFrame /\ UNCHANGED rowVars

\* The retry loop is bound to the API lifecycle, not to the run's context.
InterruptWait(r) ==
  /\ pc[r] = "interruptWait" /\ Alive
  /\ \/ GoTo(r, "interrupt")
     \/ process = "closing" /\ GoTo(r, "exit")
  /\ OnlyPc /\ WorkerFrame /\ UNCHANGED <<rowVars, faults>>

\* Nonce, key or executor command missing: the model is never called.
LaunchFails(r) ==
  /\ pc[r] = "launching" /\ Alive
  /\ GoTo(r, "finalize")
  /\ outcome' = [outcome EXCEPT ![r] = "failed"]
  /\ WorkerFrame
  /\ UNCHANGED <<claimTry, calls, rowVars, faults>>

CallModel(r) ==
  /\ pc[r] = "launching" /\ Alive
  /\ GoTo(r, "executing")
  /\ calls' = [calls EXCEPT ![r] = @ + 1]
  /\ WorkerFrame
  /\ UNCHANGED <<claimTry, outcome, rowVars, faults>>

\* agentrunner.Execute returns: an answer may still win over a signal.
ModelReturns(r) ==
  /\ pc[r] = "executing" /\ Alive
  /\ \E o \in {"success", "failed"} \cup
              (IF r \in signalled THEN {"cancelled"} ELSE {}) :
       outcome' = [outcome EXCEPT ![r] = o]
  /\ GoTo(r, "finalize")
  /\ WorkerFrame
  /\ UNCHANGED <<claimTry, calls, rowVars, faults>>

-----------------------------------------------------------------------------
(* Delivery of an output: completeAgentRunOutputInTransaction inside       *)
(* withAgentRunOutputTransaction, then finish.                             *)

DeliveryFrame == UNCHANGED <<processVars, claimTry, outcome, calls,
                             signalVars, launchVars>>

\* Where a worker goes when its part of a delivery is over.
WorkerGoes(d, label) ==
  pc' = IF d[1] = "worker" THEN [pc EXCEPT ![d[2]] = label] ELSE pc

\* BEGIN ... the files are renamed into objects/ before the rows commit.
BeginDelivery(d) ==
  \E o \in ObjectIds \ objects :
    /\ \A q \in Runs : artifact[q] # o
    /\ objects' = objects \cup {o}
    /\ deliveryPc' = [deliveryPc EXCEPT ![d] = "delivering"]
    /\ deliveryObject' = [deliveryObject EXCEPT ![d] = o]

\* The rows an output transaction leaves: run, submission, artifact, task.
SubmitRows(r, o) ==
  /\ status' = [status EXCEPT ![r] = "succeeded"]
  /\ Written(r, {"completed_at", "result_bytes"})
  /\ delivery' = [delivery EXCEPT ![r] = "submitted"]
  /\ submissions' = [submissions EXCEPT ![r] = @ + 1]
  /\ artifact' = [artifact EXCEPT ![r] = o]
  /\ taskVersion' = [taskVersion EXCEPT ![task[r]] = @ + 1]
  /\ taskOpen' = [taskOpen EXCEPT ![task[r]] = FALSE]
  /\ UNCHANGED <<task, frozenTask, frozenRuntime, cancelRequested,
                 runtimeVersion, changes>>

EndDelivery(d, label) ==
  /\ deliveryPc' = [deliveryPc EXCEPT ![d] = "idle"]
  /\ deliveryObject' = [deliveryObject EXCEPT ![d] = NoObject]
  /\ WorkerGoes(d, label)

CommitDelivery(d) ==
  /\ deliveryPc[d] = "delivering"
  /\ SubmitRows(d[2], deliveryObject[d])
  /\ EndDelivery(d, "exit")
  /\ DeliveryFrame /\ UNCHANGED <<objects, faults>>

\* A request error after the files were written: the savepoint rolls back,
\* the files are discarded, the result is retained on the run.
RefuseDelivery(d) ==
  /\ deliveryPc[d] = "delivering"
  /\ objects' = objects \ {deliveryObject[d]}
  /\ Retain(d[2])
  /\ EndDelivery(d, "exit")
  /\ DeliveryFrame /\ UNCHANGED <<factVars, faults>>

\* A storage error rolls the transaction back, or the COMMIT took effect but
\* was reported as an error; either way finish() runs next.
FailDelivery(d) ==
  /\ deliveryPc[d] = "delivering" /\ Fault
  /\ \/ UNCHANGED <<rowVars, factVars>>
     \/ SubmitRows(d[2], deliveryObject[d])
  /\ deliveryPc' = [deliveryPc EXCEPT ![d] = "compensating"]
  /\ DeliveryFrame /\ UNCHANGED <<pc, deliveryObject, objects>>

\* Variant: the files are discarded without asking the database.
Compensate_Blind(d) ==
  /\ deliveryPc[d] = "compensating" /\ DbFree
  /\ objects' = objects \ {deliveryObject[d]}
  /\ EndDelivery(d, "staging")
  /\ DeliveryFrame /\ UNCHANGED <<rowVars, factVars, faults>>

\* finish: a file no artifact row points at is discarded; when the query or
\* the discard fails the file stays for startup reconciliation.
Compensate(d) ==
  /\ deliveryPc[d] = "compensating" /\ DbFree
  /\ \/ /\ objects' = IF artifact[d[2]] = deliveryObject[d] THEN objects
                      ELSE objects \ {deliveryObject[d]}
        /\ UNCHANGED faults
     \/ Fault /\ UNCHANGED objects
  /\ EndDelivery(d, "staging")
  /\ DeliveryFrame /\ UNCHANGED <<rowVars, factVars>>

-----------------------------------------------------------------------------
(* finalizeAgentRunOutcomeObservedContext                                  *)

FinalizeFrame == UNCHANGED <<factVars, processVars, signalVars, launchVars>>

FinalizeAbandon(r) ==
  /\ pc[r] = "finalize" /\ Alive /\ Frozen
  /\ GoTo(r, "exit") /\ OnlyPc
  /\ FinalizeFrame /\ UNCHANGED <<rowVars, deliveryVars, faults>>

\* No result: the run fails or is cancelled, unless a cancellation settles it.
FinalizeFailure(r) ==
  /\ pc[r] = "finalize" /\ Alive /\ DbFree /\ ~Frozen
  /\ outcome[r] # "success"
  /\ SettleOr(r, outcome[r])
  /\ GoTo(r, "exit") /\ OnlyPc
  /\ FinalizeFrame /\ UNCHANGED <<deliveryVars, faults>>

\* finalizeSuccessfulAgentRun: cancellation first, then idempotent replays of
\* a row that is no longer running, then the delivery.
FinalizeSuccess(r) ==
  /\ pc[r] = "finalize" /\ Alive /\ DbFree /\ ~Frozen
  /\ outcome[r] = "success"
  /\ \/ /\ r \in cancelRequested
        /\ Dispose(r, "cancelled")
        /\ GoTo(r, "exit") /\ UNCHANGED deliveryVars
     \/ /\ r \notin cancelRequested /\ ~StillRunning(r)
        /\ GoTo(r, "exit") /\ UNCHANGED <<rowVars, deliveryVars>>
     \/ /\ r \notin cancelRequested /\ StillRunning(r)
        /\ OutputIdentityHolds(r)
        /\ BeginDelivery(<<"worker", r>>)
        /\ GoTo(r, "delivering") /\ UNCHANGED rowVars
     \/ /\ r \notin cancelRequested /\ StillRunning(r)
        /\ ~OutputIdentityHolds(r)
        /\ Retain(r)
        /\ GoTo(r, "exit") /\ UNCHANGED deliveryVars
  /\ OnlyPc /\ FinalizeFrame /\ UNCHANGED faults

\* Mutant: the worker gives the result up.
FinalizeFault_GivesUp(r) ==
  /\ pc[r] = "finalize" /\ Alive /\ DbFree /\ ~Frozen /\ Fault
  /\ GoTo(r, "exit")
  /\ OnlyPc /\ FinalizeFrame /\ UNCHANGED <<rowVars, deliveryVars>>

FinalizeFault(r) ==
  /\ pc[r] = "finalize" /\ Alive /\ DbFree /\ ~Frozen /\ Fault
  /\ GoTo(r, IF outcome[r] = "success" THEN "staging" ELSE "finalizeWait")
  /\ OnlyPc /\ FinalizeFrame /\ UNCHANGED <<rowVars, deliveryVars>>

Stage(r) ==
  /\ delivery' = [delivery EXCEPT ![r] = "pending"]
  /\ UNCHANGED <<status, columns, task, frozenTask, frozenRuntime,
                 cancelRequested, submissions, artifact>>

\* persistPendingAgentRunOutput, under the lease of the finalization attempt.
StagePending(r) ==
  /\ pc[r] = "staging" /\ Alive /\ DbFree
  /\ \/ /\ r \in cancelRequested
        /\ Dispose(r, "cancelled") /\ GoTo(r, "exit")
     \/ /\ r \notin cancelRequested /\ Unready(r)
        /\ Stage(r) /\ GoTo(r, "exit")
     \/ /\ r \notin cancelRequested /\ ~Unready(r)
        /\ GoTo(r, IF status[r] = "succeeded" \/ delivery[r] = "pending"
                   THEN "exit" ELSE "finalizeWait")
        /\ UNCHANGED rowVars
  /\ OnlyPc /\ FinalizeFrame /\ UNCHANGED <<deliveryVars, faults>>

\* The staging transaction fails, or commits and is reported as failed.
StageFault(r) ==
  /\ pc[r] = "staging" /\ Alive /\ DbFree /\ Fault
  /\ GoTo(r, "finalizeWait")
  /\ \/ UNCHANGED rowVars
     \/ r \notin cancelRequested /\ Unready(r) /\ Stage(r)
  /\ OnlyPc /\ FinalizeFrame /\ UNCHANGED deliveryVars

FinalizeWait(r) ==
  /\ pc[r] = "finalizeWait" /\ Alive
  /\ \/ GoTo(r, "finalize")
     \/ process = "closing" /\ GoTo(r, "exit")
  /\ OnlyPc /\ FinalizeFrame /\ UNCHANGED <<rowVars, deliveryVars, faults>>

\* recoverAgentRunOutputInTransaction: from the retry endpoint, or from
\* startup recovery, which tries the pending runs one after the other.
RecoverOutput(r) ==
  /\ DbFree /\ deliveryPc[<<"request", r>>] = "idle"
  /\ status[r] = "running" /\ delivery[r] = "pending"
  /\ \/ /\ OutputIdentityHolds(r)
        /\ BeginDelivery(<<"request", r>>) /\ UNCHANGED rowVars
     \/ /\ ~OutputIdentityHolds(r)
        /\ Retain(r) /\ UNCHANGED deliveryVars
  /\ UNCHANGED <<factVars, workerVars, signalVars, launchVars, faults>>

RetryOutputDelivery(r) ==
  Serving /\ RecoverOutput(r) /\ UNCHANGED processVars

-----------------------------------------------------------------------------
(* Restore freeze, shutdown, crash, startup.                               *)

LeaseHeld ==
  \/ signalDue # {}
  \/ \E d \in Deliverers : deliveryPc[d] # "idle"
  \/ \E r \in Runs : pc[r] = "staging"

\* scheduleBackupRestore takes the maintenance write lock, freezes storage
\* until the next start and signals every worker.
ScheduleRestore ==
  /\ Serving /\ ~LeaseHeld /\ stops < MaxStops
  /\ restorePending' = TRUE
  /\ signalled' = InMap
  /\ UNCHANGED <<rowVars, factVars, process, bootQueue, stops, workerVars,
                 signalDue, launchVars, deliveryVars, faults>>

\* Router.Close: shutdownAgentRuns cancels the lifecycle and waits.
BeginShutdown ==
  /\ process = "up" /\ stops < MaxStops
  /\ process' = "closing" /\ stops' = stops + 1
  /\ signalled' = InMap
  /\ UNCHANGED <<rowVars, factVars, restorePending, bootQueue, workerVars,
                 signalDue, launchVars, deliveryVars, faults>>

\* Everything in memory is gone; an open transaction is rolled back by SQLite
\* but the files it renamed stay.
LoseMemory ==
  /\ process' = "down"
  /\ pc' = [r \in Runs |-> "none"]
  /\ claimTry' = [r \in Runs |-> 0] /\ outcome' = [r \in Runs |-> "none"]
  /\ signalled' = {} /\ signalDue' = {}
  /\ launchPc' = [l \in Launchers |-> "idle"]
  /\ launchIds' = [l \in Launchers |-> {}]
  /\ deliveryPc' = [d \in Deliverers |-> "idle"]
  /\ deliveryObject' = [d \in Deliverers |-> NoObject]
  /\ bootQueue' = {} /\ scanLost' = FALSE
  /\ UNCHANGED <<rowVars, factVars, restorePending, calls, objects, faults>>

FinishShutdown ==
  /\ process = "closing" /\ InMap = {} /\ DbFree
  /\ LoseMemory /\ UNCHANGED stops

Crash ==
  /\ process # "down" /\ stops < MaxStops
  /\ stops' = stops + 1
  /\ LoseMemory

\* NewRouter: OpenWorkspaceArtifactStore quarantines every object that no row
\* references, then recoverAgentRunsOnStartup lists the pending runs.
Boot ==
  /\ process = "down"
  /\ process' = "recovering" /\ restorePending' = FALSE
  /\ objects' = objects \cap {artifact[r] : r \in Runs}
  /\ bootQueue' = {r \in Runs : status[r] = "running" /\ delivery[r] = "pending"}
  /\ UNCHANGED <<rowVars, factVars, stops, workerVars, signalVars, launchVars,
                 deliveryPc, deliveryObject, faults>>

RequestsIdle == \A d \in Deliverers : deliveryPc[d] = "idle"

BootRecover(r) ==
  /\ process = "recovering" /\ RequestsIdle
  /\ r \in bootQueue /\ \A q \in bootQueue : r <= q
  /\ bootQueue' = bootQueue \ {r}
  /\ \/ RecoverOutput(r)
     \/ /\ Fault
        /\ UNCHANGED <<rowVars, factVars, workerVars, signalVars, launchVars,
                       deliveryVars>>
  /\ UNCHANGED <<process, restorePending, stops>>

\* The settling transaction, then one launch per queued run.
BootSettle ==
  /\ process = "recovering" /\ RequestsIdle /\ bootQueue = {}
  /\ status' = [r \in Runs |->
       IF Unready(r)
       THEN IF r \in cancelRequested THEN "cancelled" ELSE "interrupted"
       ELSE status[r]]
  /\ columns' = [r \in Runs |->
       IF Unready(r) THEN columns[r] \cup EndColumns(status'[r]) ELSE columns[r]]
  /\ launchPc' = [l \in Launchers |->
       IF l[1] = "request" /\ l[2] \in Queued THEN "due" ELSE "idle"]
  /\ process' = "up"
  /\ UNCHANGED <<delivery, task, frozenTask, frozenRuntime, cancelRequested,
                 submissions, artifact, factVars, restorePending, bootQueue,
                 stops, workerVars, signalVars, launchIds, scanLost,
                 deliveryVars, faults>>

-----------------------------------------------------------------------------
Dispatch(l) == LaunchScan(l) \/ LaunchScanFault(l) \/ LaunchReserve(l)

Worker(r) ==
  \/ ClaimAbandon(r) \/ ClaimRun(r) \/ ClaimIdentityChanged(r)
  \/ FailQueued(r) \/ ClaimBackoff(r)
  \/ Recheck(r) \/ Interrupt(r) \/ InterruptWait(r)
  \/ LaunchFails(r) \/ CallModel(r) \/ ModelReturns(r)
  \/ FinalizeAbandon(r) \/ FinalizeFailure(r) \/ FinalizeSuccess(r)
  \/ StagePending(r) \/ FinalizeWait(r) \/ FinishWorker(r)

WorkerFault(r) ==
  \/ ClaimFault(r) \/ RecheckFault(r) \/ InterruptFault(r)
  \/ FinalizeFault(r) \/ StageFault(r)

Deliver(d) ==
  \/ CommitDelivery(d) \/ RefuseDelivery(d) \/ FailDelivery(d) \/ Compensate(d)

Owner ==
  \/ \E r \in Runs, t \in Tasks : CreateRun(r, t)
  \/ \E r \in Runs : RequestCancel(r) \/ RetryOutputDelivery(r)
  \/ \E t \in Tasks : ChangeTask(t)
  \/ ChangeRuntime

Startup == Boot \/ BootSettle \/ \E r \in Runs : BootRecover(r)

Next ==
  \/ Owner
  \/ \E r \in Runs : SignalCancel(r) \/ Worker(r) \/ WorkerFault(r)
  \/ \E l \in Launchers : Dispatch(l)
  \/ \E d \in Deliverers : Deliver(d)
  \/ ScheduleRestore \/ BeginShutdown \/ FinishShutdown \/ Crash
  \/ Startup

Spec == Init /\ [][Next]_vars

-----------------------------------------------------------------------------
(* Safety.                                                                 *)

\* Once a cancellation is accepted, no late answer, staged text, restart or
\* recovery turns the run into a success or stages output for it.
CancellationHonoured ==
  \A r \in cancelRequested : status[r] # "succeeded" /\ delivery[r] = "not_ready"

\* The model is asked at most once per run: neither claim retries, nor output
\* recovery, nor a restart of the sidecar repeats an execution.
CalledAtMostOnce == \A r \in Runs : calls[r] <= 1

\* Output exists only for runs whose model answered, and a run is submitted
\* exactly when there is exactly one submission for it, whatever commits were
\* reported wrongly and however finalizer, endpoint and startup overlap.
OneSubmission ==
  \A r \in Runs :
    /\ submissions[r] = (IF delivery[r] = "submitted" THEN 1 ELSE 0)
    /\ (artifact[r] # NoObject) <=> (delivery[r] = "submitted")
    /\ delivery[r] # "not_ready" => calls[r] = 1

\* The file of a registered artifact is on disk, and no two runs share one.
ArtifactBacked ==
  \A r \in Runs : artifact[r] # NoObject =>
    /\ artifact[r] \in objects
    /\ \A q \in Runs \ {r} : artifact[q] # artifact[r]

\* The row of a run as the client gets it: the delivery sets its error with its
\* status, and clears it with a submission.
Row(r) ==
  [status |-> status[r], delivery |-> delivery[r],
   columns |-> columns[r]
     \cup (IF delivery[r] \in {"pending", "retained"} THEN {"delivery_error"} ELSE {})
     \cup (IF submissions[r] > 0 THEN {"submission_id"} ELSE {})
     \cup (IF artifact[r] # NoObject THEN {"artifact_id"} ELSE {}),
   gate |-> "none", closedFor |-> "none", slot |-> "none", files |-> FALSE]

\* The web client throws a whole list of runs away when one row contradicts
\* itself: a run that ended before it began, an output without a submission, a
\* failure without a code. Whatever the service does to a run - claim, cancel,
\* stage, deliver, fail, restart in between - the client can read its row, has
\* a name for where it stands, and asks about it again exactly as long as it
\* does not call it over.
EveryRunIsReadable ==
  \A r \in Runs : status[r] # "none" =>
    /\ Page!RunAgrees(Row(r))
    /\ Page!Lifecycle(Row(r)).phase # "unknown"
    /\ Page!NeedsPolling(Row(r)) <=> ~Page!Lifecycle(Row(r)).terminal

\* A task version is answered by at most one submission.
OneAnswerPerVersion ==
  \A q, r \in Runs :
    /\ q # r /\ task[q] = task[r] /\ task[q] # NoTask
    /\ delivery[q] = "submitted" /\ delivery[r] = "submitted"
    => frozenTask[q] # frozenTask[r]

\* While the process serves, a claimed run without output has a worker that
\* will still give it a disposition: no exit of the worker leaves it behind.
NoAbandonedRun ==
  \A r \in Runs : Serving /\ Unready(r) =>
    pc[r] \in WorkerPcs \ {"none", "claim", "failing", "backoff", "exit"}

\* At no time do more workers run than the limit, although several launches
\* scan and reserve at once and each decided on a capacity it read earlier.
WorkersWithinLimit == Cardinality(InMap) <= MaxConcurrentWorkers

(* Action properties.                                                      *)

\* A terminal row never changes, and staged output never goes back.
DispositionIsFinal ==
  [][\A r \in Runs :
       /\ status[r] \in Terminal =>
            status'[r] = status[r] /\ delivery'[r] = delivery[r]
       /\ delivery[r] = "pending" => delivery'[r] # "not_ready"]_vars

(* Liveness.                                                               *)

\* Goroutines that can run do run: workers (the executor returns by its
\* deadline), launches, open deliveries and committed cancel handlers; a
\* shutdown finishes and a stopped sidecar is started again.  The owner, the
\* storage faults and the stops are under no obligation.
Fairness ==
  /\ \A r \in Runs : WF_vars(Worker(r)) /\ WF_vars(SignalCancel(r))
  /\ \A l \in Launchers : WF_vars(LaunchScan(l) \/ LaunchReserve(l))
  /\ \A d \in Deliverers :
       WF_vars(CommitDelivery(d) \/ RefuseDelivery(d) \/ Compensate(d))
  /\ WF_vars(FinishShutdown) /\ WF_vars(Startup)

LiveSpec == Spec /\ Fairness

\* A claimed run reaches a disposition or staged output, across storage
\* faults, cancellation, shutdown and crash; only a pending restore may hold
\* it until the restart the restore asks for.
ClaimedRunSettles ==
  \A r \in Runs : Unready(r) ~> (~Unready(r) \/ restorePending)

\* A queued run is eventually claimed, failed or cancelled: no order of
\* launches, finishes and reservations loses the wake-up, except a queue scan
\* that failed, which waits for the next launch.
QueuedRunIsTakenUp ==
  \A r \in Runs : status[r] = "queued" ~>
                    (status[r] # "queued" \/ restorePending \/ scanLost)

-----------------------------------------------------------------------------
(* What the row of a run shows of its disposition.                         *)

Phase(r) ==
  CASE status[r] = "none" -> "absent"
    [] Unready(r) -> "claimed"
    [] status[r] = "running" /\ ~Unready(r) -> "staged"
    [] status[r] = "succeeded" -> delivery[r]
    [] OTHER -> status[r]

Run(r) == INSTANCE RunDisposition
  WITH phase <- Phase(r), accepted <- r \in cancelRequested, asked <- calls[r]


-----------------------------------------------------------------------------
(* The inductive invariant behind CancellationHonoured, CalledAtMostOnce,  *)
(* OneSubmission, ArtifactBacked, OneAnswerPerVersion and NoAbandonedRun,  *)
(* in named parts.                                                         *)

\* A sleeping claim retry still has a delay to use.
BackoffInBudget == \A r \in Runs : pc[r] = "backoff" => claimTry[r] < ClaimRetries

\* The combinations of the two status columns the schema admits.
RowShape ==
  \A r \in Runs :
    /\ delivery[r] = "pending" => status[r] = "running"
    /\ delivery[r] \in {"submitted", "retained"} <=> status[r] = "succeeded"

\* The columns of a row follow from where its life has got to, whichever way
\* it got there.
ColumnsOf(at) ==
  IF at \in {"none", "queued"} THEN {}
  ELSE {"started_at"} \cup (IF at = "running" THEN {} ELSE {"completed_at"})
                      \cup (IF at = "succeeded" THEN {"result_bytes"} ELSE {})
                      \cup (IF at = "failed" THEN {"error_code"} ELSE {})
ColumnsAgree == \A r \in Runs : columns[r] = ColumnsOf(status[r])

\* A worker that has claimed its run and not finalized it owns the row.
ClaimedPcs == {"recheck", "interrupt", "interruptWait", "launching", "executing"}
WorkerOwnsRow ==
  /\ \A r \in Runs : pc[r] \in ClaimedPcs => Unready(r)
  /\ process \in {"down", "recovering"} => \A r \in Runs : pc[r] = "none"

\* Output transactions: at most one is open, its run is still running and not
\* cancelled, and a caller other than the worker only delivers staged output.
\* None outlives the process.
OutputTransaction ==
  /\ process = "down" => RequestsIdle
  /\ \A r \in Runs : deliveryPc[<<"worker", r>>] # "idle" => pc[r] = "delivering"
  /\ \A d, e \in Deliverers :
       deliveryPc[d] = "delivering" /\ deliveryPc[e] = "delivering" => d = e
  /\ \A d \in Deliverers : deliveryPc[d] = "delivering" =>
       /\ status[d[2]] = "running" /\ d[2] \notin cancelRequested
       /\ d[1] = "request" => delivery[d[2]] = "pending"

\* A run that can still reach the model was never there; one with an answer,
\* in memory or in the row, was there once; a worker finalizes an outcome.
ModelAsked ==
  \A r \in Runs :
    /\ calls[r] \in {0, 1}
    /\ status[r] \in {"none", "queued"} \/ pc[r] \in {"recheck", "launching"}
         => calls[r] = 0
    /\ (\/ pc[r] \in {"executing", "delivering", "staging"}
        \/ outcome[r] = "success" \/ delivery[r] # "not_ready")
         => calls[r] = 1
    /\ pc[r] \in {"finalize", "finalizeWait", "delivering", "staging"}
         => outcome[r] # "none"

\* Submissions and artifact rows appear with the submitted status only.
RowsAgree ==
  \A r \in Runs :
    /\ submissions[r] = (IF delivery[r] = "submitted" THEN 1 ELSE 0)
    /\ artifact[r] # NoObject <=> delivery[r] = "submitted"

\* Every file a row points at is on disk; the file of an unfinished delivery is
\* nobody else's, and it is on disk until finish() has decided about it.
FilesOwned ==
  /\ \A r \in Runs : artifact[r] # NoObject =>
       /\ artifact[r] \in objects
       /\ \A q \in Runs \ {r} : artifact[q] # artifact[r]
  /\ \A d \in Deliverers : deliveryPc[d] # "idle" =>
       /\ deliveryObject[d] \in objects
       /\ \A q \in Runs : artifact[q] = deliveryObject[d] =>
            q = d[2] /\ deliveryPc[d] = "compensating"
       /\ \A e \in Deliverers \ {d} : deliveryPc[e] # "idle" =>
            deliveryObject[e] # deliveryObject[d]

\* A submission answers the version its run was frozen at and moves the task
\* past it; an open delivery answers the current version.
VersionsAnswered ==
  /\ \A r \in Runs :
       /\ status[r] # "none" => task[r] \in Tasks
       /\ delivery[r] = "submitted" => frozenTask[r] < taskVersion[task[r]]
  /\ \A d \in Deliverers : deliveryPc[d] = "delivering" =>
       frozenTask[d[2]] = taskVersion[task[d[2]]]

InductiveInvariant ==
  /\ TypeOK /\ BackoffInBudget /\ RowShape /\ ColumnsAgree
  /\ WorkerOwnsRow /\ OutputTransaction /\ ModelAsked /\ RowsAgree /\ FilesOwned /\ CancellationHonoured
  /\ VersionsAnswered /\ OneAnswerPerVersion /\ NoAbandonedRun

=============================================================================
