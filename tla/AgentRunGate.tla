---------------------------- MODULE AgentRunGate ----------------------------
(***************************************************************************)
(* Start gates: an Agent Run that a person confirmed is queued, but waits  *)
(* until another run, its predecessor, has been submitted or accepted.  A  *)
(* reconciler, woken by commits and by a ticker, releases or closes gates; *)
(* a gate with an input slot (the run reads the files its predecessor will *)
(* submit) is released only by a person who confirms the exact files.      *)
(*                                                                         *)
(* Runs appear with the phases of RunDisposition, which AgentRun is shown  *)
(* to implement; their worker is reduced to the claim and the end.  A      *)
(* transaction is one step.  What is not atomic here: the clock read, the  *)
(* coordinator's mutex gates.mu, the maintenance read / write lock and the *)
(* transaction are taken one after the other.                              *)
(***************************************************************************)
EXTENDS Naturals, FiniteSets

\* The web client that reads the rows.
Page == INSTANCE AgentRunReading

CONSTANTS
  MaxRuns,     \* bound: how many runs are ever created
  People,      \* confirmation requests that may be in flight at once
  Windows,     \* periods of validity a person may choose, in clock steps
  MaxOpen,     \* agentRunStartGateMaxOpen (4)
  Horizon,     \* bound: the clock stops here
  MaxEdits,    \* bound: edits of predecessor tasks, deletions, identity drifts
  MaxWriters,  \* bound: maintenance commands (backup, import, restore)
  MaxFaults,   \* bound: failed reconciliation transactions
  MaxStops     \* bound: crashes

ASSUME ConstantsAssumption ==
  /\ MaxRuns \in Nat /\ MaxOpen \in Nat /\ Horizon \in Nat /\ MaxEdits \in Nat
  /\ MaxWriters \in Nat /\ MaxFaults \in Nat /\ MaxStops \in Nat
  /\ Windows \subseteq Nat \ {0}

\* Run ids are numbered in creation order (created_at, id).
Runs == 1..MaxRuns
NoRun == 0

VARIABLES
  \* -- the database --
  phase,      \* phase of the run (RunDisposition)
  review,     \* status of the run's submission
  gate,       \* projection of the gate events of the run
  closedFor,  \* payload of agent_run_start_gate_closed
  pred, require, slot, expires, \* payload of agent_run_start_gated
  bound,      \* edition of the files bound by the release event, 0: none
  edition,    \* edition of the run's submitted files (SourceTask reference)
  sourceDone, \* the run's task is done with this submission
  kept,       \* the files the run submitted are not deleted
  drifted,    \* runs whose frozen identity no longer holds
  \* -- the process --
  up, restorePending, now,
  writer,     \* maintenance.Lock: "none", "waiting", "holding"
  wakeup,     \* the token in the coordinator's channel
  recPc, recNow,               \* reconciler
  confirmPc, confirmRun, confirmNow, confirmSeen, \* confirmation handlers
  launchDue,  \* a call of launchQueuedAgentRuns must still happen
  workers,    \* runs with a reserved worker
  \* -- observers --
  ran,        \* edition of the files the run was claimed with
  agreed,     \* editions a person asked to bind to the run
  \* -- bounds --
  edits, writers, faults, stops

gateVars == <<gate, closedFor, pred, require, slot, expires, bound>>
sourceVars == <<edition, sourceDone, kept, drifted, edits>>
rowVars == <<phase, review>>
lockVars == <<writer, writers>>
recVars == <<recPc, recNow>>
confirmVars == <<confirmPc, confirmRun, confirmNow, confirmSeen, agreed>>
workerVars == <<launchDue, workers, ran>>
processVars == <<up, restorePending, stops>>
vars == <<rowVars, gateVars, sourceVars, processVars, lockVars, now, wakeup,
          recVars, confirmVars, workerVars, faults>>

-----------------------------------------------------------------------------
Phases == {"absent", "queued", "claimed", "staged", "submitted", "retained",
           "failed", "cancelled", "interrupted"}
Reviews == {"none", "pending_review", "accepted", "changes_requested", "withdrawn"}

FactTypes ==
  /\ phase \in [Runs -> Phases] /\ review \in [Runs -> Reviews]
  /\ gate \in [Runs -> {"none", "waiting", "released", "closed"}]
  /\ closedFor \in [Runs -> {"none", "run_not_queued", "expired", "predecessor"}]
  /\ pred \in [Runs -> Runs \cup {NoRun}]
  /\ require \in [Runs -> {"submitted", "accepted"}]
  /\ slot \in [Runs -> BOOLEAN] /\ expires \in [Runs -> Nat]
  /\ bound \in [Runs -> Nat] /\ edition \in [Runs -> Nat \ {0}]
  /\ sourceDone \in [Runs -> BOOLEAN] /\ kept \in [Runs -> BOOLEAN]
  /\ drifted \subseteq Runs /\ edits \in Nat

ProcessTypes ==
  /\ up \in BOOLEAN /\ restorePending \in BOOLEAN /\ now \in Nat
  /\ writer \in {"none", "waiting", "holding"} /\ wakeup \in BOOLEAN
  /\ recPc \in {"idle", "locking", "leasing", "launching"} /\ recNow \in Nat
  /\ writers \in Nat /\ faults \in Nat /\ stops \in Nat

ConfirmTypes ==
  /\ confirmPc \in [People -> {"idle", "locking", "deciding", "launching"}]
  /\ confirmRun \in [People -> Runs \cup {NoRun}]
  /\ confirmNow \in [People -> Nat] /\ confirmSeen \in [People -> Nat]
  /\ agreed \in [Runs -> SUBSET Nat]

WorkerTypes ==
  launchDue \in BOOLEAN /\ workers \subseteq Runs /\ ran \in [Runs -> Nat]

TypeOK == FactTypes /\ ProcessTypes /\ ConfirmTypes /\ WorkerTypes

\* A workspace without runs; the sidecar has started and serves.
Init ==
  /\ phase = [r \in Runs |-> "absent"] /\ review = [r \in Runs |-> "none"]
  /\ gate = [r \in Runs |-> "none"] /\ closedFor = [r \in Runs |-> "none"]
  /\ pred = [r \in Runs |-> NoRun]
  /\ require = [r \in Runs |-> "submitted"] /\ slot = [r \in Runs |-> FALSE]
  /\ expires = [r \in Runs |-> 0] /\ bound = [r \in Runs |-> 0]
  /\ edition = [r \in Runs |-> 1] /\ sourceDone = [r \in Runs |-> FALSE]
  /\ kept = [r \in Runs |-> TRUE] /\ drifted = {}
  /\ up = TRUE /\ restorePending = FALSE /\ now = 0
  /\ writer = "none" /\ wakeup = FALSE
  /\ recPc = "idle" /\ recNow = 0
  /\ confirmPc = [p \in People |-> "idle"]
  /\ confirmRun = [p \in People |-> NoRun]
  /\ confirmNow = [p \in People |-> 0] /\ confirmSeen = [p \in People |-> 0]
  /\ launchDue = FALSE /\ workers = {}
  /\ ran = [r \in Runs |-> 0] /\ agreed = [r \in Runs |-> {}]
  /\ edits = 0 /\ writers = 0 /\ faults = 0 /\ stops = 0

-----------------------------------------------------------------------------
(* Locks.                                                                  *)

\* A request holds the maintenance read lock from its admission to its end;
\* a new reader waits as soon as a writer waits (sync.RWMutex).
CanRead == writer = "none"
ReadersGone == \A p \in People : confirmPc[p] = "idle"
\* maintenanceMiddleware lets the request through.
Serving == up /\ CanRead /\ ~restorePending

\* gates.mu: the reconciler keeps it until it has launched, a confirmation
\* until its transaction has ended.
GatesFree ==
  recPc \in {"idle", "locking"} /\ \A p \in People : confirmPc[p] # "deciding"

-----------------------------------------------------------------------------
(* Facts.                                                                  *)

\* A gate that is open: neither released nor closed.
GateWaiting(r) == gate[r] = "waiting"

\* decideAgentRunStartGate, for a predecessor that shows phase ph.
\* Variant: a review that asks for changes releases an "accepted" gate.
Decide_AnyReview(ph, rv, req) ==
  CASE ph \in {"queued", "claimed", "staged"} -> "wait"
    [] ph = "submitted" -> IF req = "submitted" \/ rv # "pending_review"
                           THEN "release" ELSE "wait"
    [] OTHER -> "close"

Decide(ph, rv, req) ==
  CASE ph \in {"queued", "claimed", "staged"} -> "wait"
    [] ph = "submitted" -> IF req = "submitted" \/ rv = "accepted" THEN "release"
                           ELSE IF rv = "pending_review" THEN "wait" ELSE "close"
    [] OTHER -> "close"

\* The files of run q can be read as inputs of another task.
Usable(q) == review[q] = "accepted" /\ sourceDone[q] /\ kept[q]

Active(r) == phase[r] \in {"queued", "claimed", "staged"}

\* validateFrozenAgentRunIdentity, with the files a release event binds.
InputsHold(r, e) ==
  r \notin drifted /\ (slot[r] => Usable(pred[r]) /\ edition[pred[r]] = e)

-----------------------------------------------------------------------------
(* Commands of the owner.                                                  *)

IsNext(r) == phase[r] = "absent" /\ \A q \in Runs : q < r => phase[q] # "absent"

\* A run without a condition; only some of the commands that create one wake
\* the reconciler.
CreateRun(r) ==
  /\ Serving /\ IsNext(r)
  /\ phase' = [phase EXCEPT ![r] = "queued"]
  /\ launchDue' = TRUE
  /\ wakeup' \in {wakeup, TRUE}
  /\ UNCHANGED <<review, gateVars, sourceVars, processVars, lockVars, now,
                 recVars, confirmVars, workers, ran, faults>>

\* The confirmation of a proposal with a condition: the run and its gate are
\* one transaction, and a condition that is met or impossible is refused.
CreateGated(r, q, req, s, w) ==
  /\ Serving /\ IsNext(r) /\ phase[q] # "absent"
  /\ Decide(phase[q], review[q], req) = "wait"
  /\ Cardinality({g \in Runs : GateWaiting(g)}) < MaxOpen
  /\ s => req = "accepted" /\ ~(slot[q] /\ GateWaiting(q))
  /\ now + w <= Horizon
  /\ phase' = [phase EXCEPT ![r] = "queued"]
  /\ gate' = [gate EXCEPT ![r] = "waiting"]
  /\ pred' = [pred EXCEPT ![r] = q]
  /\ require' = [require EXCEPT ![r] = req]
  /\ slot' = [slot EXCEPT ![r] = s]
  /\ expires' = [expires EXCEPT ![r] = now + w]
  /\ launchDue' = TRUE
  /\ wakeup' = TRUE
  /\ UNCHANGED <<review, closedFor, bound, sourceVars, processVars, lockVars, now,
                 recVars, confirmVars, workers, ran, faults>>

\* cancelAgentRun on a queued run; its gate stays for the reconciler.
CancelQueued(r) ==
  /\ Serving /\ phase[r] = "queued"
  /\ phase' = [phase EXCEPT ![r] = "cancelled"]
  /\ wakeup' = TRUE
  /\ UNCHANGED <<review, gateVars, sourceVars, processVars, lockVars, now,
                 recVars, confirmVars, workerVars, faults>>

\* Review of a submission.  Withdrawal (the task is cancelled) wakes nobody.
ReviewOutput(q, verdict) ==
  /\ Serving /\ phase[q] = "submitted" /\ review[q] = "pending_review"
  /\ review' = [review EXCEPT ![q] = verdict]
  /\ sourceDone' = [sourceDone EXCEPT ![q] = (verdict = "accepted")]
  /\ wakeup' = (wakeup \/ verdict # "withdrawn")
  /\ UNCHANGED <<phase, gateVars, edition, kept, drifted, edits, processVars,
                 lockVars, now, recVars, confirmVars, workerVars, faults>>

\* The predecessor's task is edited, reopened or finished again.
EditSource(q) ==
  /\ Serving /\ edits < MaxEdits /\ review[q] = "accepted"
  /\ edits' = edits + 1
  /\ edition' = [edition EXCEPT ![q] = @ + 1]
  /\ \E done \in BOOLEAN : sourceDone' = [sourceDone EXCEPT ![q] = done]
  /\ UNCHANGED <<rowVars, gateVars, kept, drifted, processVars, lockVars, now,
                 wakeup, recVars, confirmVars, workerVars, faults>>

\* activeAgentRunReferencesControlledFile: an active run holds its inputs.
\* Variant: only the files in the frozen snapshot are looked at, and a run with
\* a slot has none there.
HeldByActiveRun_Snapshot(q) == FALSE

HeldByActiveRun(q) ==
  \E r \in Runs : Active(r) /\ slot[r] /\ pred[r] = q /\ gate[r] = "released"

DeleteFile(q) ==
  /\ Serving /\ edits < MaxEdits /\ kept[q]
  /\ phase[q] = "submitted" /\ review[q] # "pending_review"
  /\ ~HeldByActiveRun(q)
  /\ edits' = edits + 1
  /\ kept' = [kept EXCEPT ![q] = FALSE]
  /\ edition' = [edition EXCEPT ![q] = @ + 1]
  /\ UNCHANGED <<rowVars, gateVars, sourceDone, drifted, processVars, lockVars,
                 now, wakeup, recVars, confirmVars, workerVars, faults>>

\* Task, assignment, adapter or provider of a queued run changes.
DriftIdentity(r) ==
  /\ Serving /\ edits < MaxEdits /\ phase[r] = "queued" /\ r \notin drifted
  /\ edits' = edits + 1
  /\ drifted' = drifted \cup {r}
  /\ UNCHANGED <<rowVars, gateVars, edition, sourceDone, kept, processVars,
                 lockVars, now, wakeup, recVars, confirmVars, workerVars, faults>>

-----------------------------------------------------------------------------
(* Dispatcher and worker.                                                  *)

Dispatchable == {r \in Runs : phase[r] = "queued" /\ ~GateWaiting(r)}

\* launchQueuedAgentRuns by a handler or a finished worker.  It may be one of
\* several calls that are due.
Launch ==
  /\ up /\ launchDue
  /\ launchDue' \in BOOLEAN
  /\ workers' = workers \cup Dispatchable
  /\ UNCHANGED <<rowVars, gateVars, sourceVars, processVars, lockVars, now,
                 wakeup, recVars, confirmVars, ran, faults>>

WorkerLeaves(r) ==
  /\ workers' = workers \ {r}
  /\ launchDue' = TRUE

\* The claim gives up: storage frozen, row no longer queued, gate still open.
AbandonClaim(r) ==
  /\ up /\ CanRead /\ r \in workers /\ phase[r] # "claimed"
  /\ restorePending \/ phase[r] # "queued" \/ GateWaiting(r)
  /\ WorkerLeaves(r)
  /\ UNCHANGED <<rowVars, gateVars, sourceVars, processVars, lockVars, now,
                 wakeup, recVars, confirmVars, ran, faults>>

Claimable(r) ==
  up /\ CanRead /\ ~restorePending /\ r \in workers /\ phase[r] = "queued"
  /\ ~GateWaiting(r)

Claim(r) ==
  /\ Claimable(r) /\ InputsHold(r, bound[r])
  /\ phase' = [phase EXCEPT ![r] = "claimed"]
  /\ ran' = [ran EXCEPT ![r] = IF slot[r] THEN edition[pred[r]] ELSE 0]
  /\ UNCHANGED <<review, gateVars, sourceVars, processVars, lockVars, now,
                 wakeup, recVars, confirmVars, launchDue, workers, faults>>

\* AGENT_RUN_IDENTITY_CHANGED.
ClaimIdentityChanged(r) ==
  /\ Claimable(r) /\ ~InputsHold(r, bound[r])
  /\ phase' = [phase EXCEPT ![r] = "failed"]
  /\ WorkerLeaves(r) /\ wakeup' = TRUE
  /\ UNCHANGED <<review, gateVars, sourceVars, processVars, lockVars, now,
                 recVars, confirmVars, ran, faults>>

\* The rest of the run, as RunDisposition allows it.
FinishRun(r, to) ==
  /\ up /\ CanRead /\ ~restorePending
  /\ \/ phase[r] = "claimed" /\ r \in workers /\ WorkerLeaves(r)
     \/ /\ phase[r] = "staged" /\ to \in {"submitted", "retained"}
        /\ UNCHANGED <<workers, launchDue>>
  /\ phase' = [phase EXCEPT ![r] = to]
  /\ review' = IF to = "submitted" THEN [review EXCEPT ![r] = "pending_review"]
               ELSE review
  /\ wakeup' = TRUE
  /\ UNCHANGED <<gateVars, sourceVars, processVars, lockVars, now, recVars,
                 confirmVars, ran, faults>>

-----------------------------------------------------------------------------
(* The reconciler.                                                         *)

\* Variant: there is no ticker, passes are started by wake-ups only.
StartPass_NoTicker ==
  /\ up /\ recPc = "idle" /\ wakeup
  /\ recPc' = "locking" /\ recNow' = now
  /\ wakeup' = FALSE
  /\ UNCHANGED <<rowVars, gateVars, sourceVars, processVars, lockVars, now,
                 confirmVars, workerVars, faults>>

\* A token or the ticker; the clock is read before any lock is taken.
StartPass ==
  /\ up /\ recPc = "idle"
  /\ recPc' = "locking" /\ recNow' = now
  /\ wakeup' \in {FALSE, wakeup}
  /\ UNCHANGED <<rowVars, gateVars, sourceVars, processVars, lockVars, now,
                 confirmVars, workerVars, faults>>

LockGates ==
  /\ up /\ recPc = "locking" /\ GatesFree
  /\ recPc' = "leasing"
  /\ UNCHANGED <<rowVars, gateVars, sourceVars, processVars, lockVars, now,
                 wakeup, recNow, confirmVars, workerVars, faults>>

\* withAgentRunStorageLease refuses: a restore is pending.
SkipPass ==
  /\ up /\ recPc = "leasing" /\ CanRead /\ restorePending
  /\ recPc' = "idle"
  /\ UNCHANGED <<rowVars, gateVars, sourceVars, processVars, lockVars, now,
                 wakeup, recNow, confirmVars, workerVars, faults>>

FailPass ==
  /\ up /\ recPc = "leasing" /\ CanRead /\ ~restorePending
  /\ faults < MaxFaults /\ faults' = faults + 1
  /\ recPc' = "idle"
  /\ UNCHANGED <<rowVars, gateVars, sourceVars, processVars, lockVars, now,
                 wakeup, recNow, confirmVars, workerVars>>

\* What one turn of the loop decides about the open gate of r, when the turns
\* before it have closed the gates in closed and cancelled their runs.
Verdict(r, closed) ==
  IF phase[r] # "queued" \/ recNow >= expires[r] THEN "close"
  ELSE LET q == pred[r]
           seen == IF q \in closed /\ phase[q] = "queued" THEN "cancelled"
                   ELSE phase[q]
           decision == Decide(seen, review[q], require[r])
       IN  IF decision = "release" /\ slot[r]
           THEN IF Usable(q) THEN "wait" ELSE "close"
           ELSE decision

\* Variant: the newest gate is visited first.
VisitedBefore_Newest(q, r) == q > r

\* The loop visits the gates in creation order.
VisitedBefore(q, r) == q < r

\* Closed sets a loop in that order produces: exactly one.
ClosedByLoop(closed) ==
  \A r \in Runs :
    r \in closed <=>
      GateWaiting(r) /\ Verdict(r, {q \in closed : VisitedBefore(q, r)}) = "close"

\* Variant: the reconciler looks at the clock before it looks at the run.
CloseReason_ClockFirst(r) ==
  IF recNow >= expires[r] THEN "expired"
  ELSE IF phase[r] # "queued" THEN "run_not_queued" ELSE "predecessor"

\* The reason a turn closes a gate for.
CloseReason(r) ==
  IF phase[r] # "queued" THEN "run_not_queued"
  ELSE IF recNow >= expires[r] THEN "expired" ELSE "predecessor"

SettlePass ==
  /\ up /\ recPc = "leasing" /\ CanRead /\ ~restorePending
  /\ \E closed \in SUBSET Runs :
       LET released == {r \in Runs : GateWaiting(r) /\ Verdict(r, closed) = "release"}
       IN  /\ ClosedByLoop(closed)
           /\ gate' = [r \in Runs |-> IF r \in closed THEN "closed"
                                      ELSE IF r \in released THEN "released"
                                      ELSE gate[r]]
           /\ closedFor' = [r \in Runs |-> IF r \in closed THEN CloseReason(r)
                                           ELSE closedFor[r]]
           /\ phase' = [r \in Runs |-> IF r \in closed /\ phase[r] = "queued"
                                       THEN "cancelled" ELSE phase[r]]
           /\ recPc' = IF released # {} THEN "launching" ELSE "idle"
  /\ UNCHANGED <<review, pred, require, slot, expires, bound, sourceVars,
                 processVars, lockVars, now, wakeup, recNow, confirmVars,
                 workerVars, faults>>

\* The launch, still under gates.mu.
LaunchReleased ==
  /\ up /\ recPc = "launching"
  /\ recPc' = "idle"
  /\ workers' = workers \cup Dispatchable
  /\ UNCHANGED <<rowVars, gateVars, sourceVars, processVars, lockVars, now,
                 wakeup, recNow, confirmVars, launchDue, ran, faults>>

-----------------------------------------------------------------------------
(* Confirmation of the input files by a person.                            *)

\* The request arrives with the fingerprint of an edition shown earlier; the
\* middleware takes the read lock, the handler reads the clock.
Admit(p, r, e) ==
  /\ Serving /\ confirmPc[p] = "idle" /\ slot[r]
  /\ e \in 1..edition[pred[r]]
  /\ confirmPc' = [confirmPc EXCEPT ![p] = "locking"]
  /\ confirmRun' = [confirmRun EXCEPT ![p] = r]
  /\ confirmNow' = [confirmNow EXCEPT ![p] = now]
  /\ confirmSeen' = [confirmSeen EXCEPT ![p] = e]
  /\ agreed' = [agreed EXCEPT ![r] = @ \cup {e}]
  /\ UNCHANGED <<rowVars, gateVars, sourceVars, processVars, lockVars, now,
                 wakeup, recVars, workerVars, faults>>

ConfirmLock(p) ==
  /\ up /\ confirmPc[p] = "locking" /\ GatesFree
  /\ confirmPc' = [confirmPc EXCEPT ![p] = "deciding"]
  /\ UNCHANGED <<rowVars, gateVars, sourceVars, processVars, lockVars, now,
                 wakeup, recVars, confirmRun, confirmNow, confirmSeen, agreed,
                 workerVars, faults>>

\* The state in which readAgentRunStartGateInputs shows files to confirm.
AwaitingConfirmation(p) ==
  LET r == confirmRun[p]
  IN  /\ GateWaiting(r) /\ phase[r] = "queued" /\ confirmNow[p] < expires[r]
      /\ Decide(phase[pred[r]], review[pred[r]], "accepted") = "release"
      /\ Usable(pred[r])

\* The files are the ones the person was shown.
\* Variant: whatever files are there now are bound.
ShownFiles_Any(p) == confirmSeen[p] \in 1..edition[pred[confirmRun[p]]]

ShownFiles(p) == confirmSeen[p] = edition[pred[confirmRun[p]]]

\* The release event records the files a person confirmed.
ConfirmRelease(p) ==
  LET r == confirmRun[p]
  IN  /\ up /\ confirmPc[p] = "deciding"
      /\ AwaitingConfirmation(p) /\ ShownFiles(p)
      /\ InputsHold(r, edition[pred[r]])
      /\ gate' = [gate EXCEPT ![r] = "released"]
      /\ bound' = [bound EXCEPT ![r] = edition[pred[r]]]
      /\ confirmPc' = [confirmPc EXCEPT ![p] = "launching"]
      /\ UNCHANGED <<rowVars, closedFor, pred, require, slot, expires, sourceVars,
                     processVars, lockVars, now, wakeup, recVars, confirmRun,
                     confirmNow, confirmSeen, agreed, workerVars, faults>>

\* A replay, changed files, a drifted identity, or a gate that is not ready;
\* the last wakes the reconciler.
ConfirmRefuse(p) ==
  LET r == confirmRun[p]
  IN  /\ up /\ confirmPc[p] = "deciding"
      /\ ~(AwaitingConfirmation(p) /\ ShownFiles(p)
           /\ InputsHold(r, edition[pred[r]]))
      /\ wakeup' = (wakeup \/ (gate[r] # "released" /\ ~AwaitingConfirmation(p)))
      /\ confirmPc' = [confirmPc EXCEPT ![p] = "idle"]
      /\ UNCHANGED <<rowVars, gateVars, sourceVars, processVars, lockVars, now,
                     recVars, confirmRun, confirmNow, confirmSeen, agreed,
                     workerVars, faults>>

ConfirmLaunch(p) ==
  /\ up /\ confirmPc[p] = "launching"
  /\ confirmPc' = [confirmPc EXCEPT ![p] = "idle"]
  /\ workers' = workers \cup Dispatchable
  /\ UNCHANGED <<rowVars, gateVars, sourceVars, processVars, lockVars, now,
                 wakeup, recVars, confirmRun, confirmNow, confirmSeen, agreed,
                 launchDue, ran, faults>>

-----------------------------------------------------------------------------
(* Maintenance commands, clock, process.                                   *)

WriterWaits ==
  /\ up /\ writer = "none" /\ writers < MaxWriters
  /\ writer' = "waiting" /\ writers' = writers + 1
  /\ UNCHANGED <<rowVars, gateVars, sourceVars, processVars, now, wakeup,
                 recVars, confirmVars, workerVars, faults>>

WriterEnters ==
  /\ up /\ writer = "waiting" /\ ReadersGone
  /\ writer' = "holding"
  /\ UNCHANGED <<rowVars, gateVars, sourceVars, processVars, writers, now,
                 wakeup, recVars, confirmVars, workerVars, faults>>

\* A backup, an import, or the scheduling of a restore.
WriterLeaves ==
  /\ up /\ writer = "holding"
  /\ writer' = "none"
  /\ restorePending' \in {restorePending, TRUE}
  /\ UNCHANGED <<rowVars, gateVars, sourceVars, up, stops, writers, now, wakeup,
                 recVars, confirmVars, workerVars, faults>>

Tick ==
  /\ now < Horizon
  /\ now' = now + 1
  /\ UNCHANGED <<rowVars, gateVars, sourceVars, processVars, lockVars, wakeup,
                 recVars, confirmVars, workerVars, faults>>

Crash ==
  /\ up /\ stops < MaxStops
  /\ up' = FALSE /\ stops' = stops + 1
  /\ writer' = "none" /\ wakeup' = FALSE /\ recPc' = "idle"
  /\ confirmPc' = [p \in People |-> "idle"]
  /\ launchDue' = FALSE /\ workers' = {}
  /\ UNCHANGED <<rowVars, gateVars, sourceVars, restorePending, writers, now,
                 recNow, confirmRun, confirmNow, confirmSeen, agreed, ran,
                 faults>>

\* Variant: startup does not launch the queue.
Boot_NoLaunch ==
  /\ ~up
  /\ up' = TRUE /\ restorePending' = FALSE
  /\ \E ended \in {"interrupted", "cancelled"} :
       phase' = [r \in Runs |-> IF phase[r] = "claimed" THEN ended ELSE phase[r]]
  /\ wakeup' = TRUE
  /\ UNCHANGED <<review, gateVars, sourceVars, stops, lockVars, now, recVars,
                 confirmVars, workerVars, faults>>

\* Startup recovery ends claimed runs, the coordinator is woken, and one launch
\* is due per queued run.
Boot ==
  /\ ~up
  /\ up' = TRUE /\ restorePending' = FALSE
  /\ \E ended \in {"interrupted", "cancelled"} :
       phase' = [r \in Runs |-> IF phase[r] = "claimed" THEN ended ELSE phase[r]]
  /\ wakeup' = TRUE
  /\ launchDue' = \E r \in Runs : phase[r] = "queued"
  /\ UNCHANGED <<review, gateVars, sourceVars, stops, lockVars, now, recVars,
                 confirmVars, workers, ran, faults>>

-----------------------------------------------------------------------------
Owner ==
  \/ \E r \in Runs : CreateRun(r) \/ CancelQueued(r) \/ DriftIdentity(r)
  \/ \E r, q \in Runs, req \in {"submitted", "accepted"}, s \in BOOLEAN,
        w \in Windows : CreateGated(r, q, req, s, w)
  \/ \E q \in Runs :
       \/ \E verdict \in Reviews \ {"none", "pending_review"} : ReviewOutput(q, verdict)
       \/ EditSource(q) \/ DeleteFile(q)
  \/ \E p \in People, r \in {g \in Runs : slot[g]} :
       \E e \in 1..edition[pred[r]] : Admit(p, r, e)

Worker(r) ==
  \/ AbandonClaim(r) \/ Claim(r) \/ ClaimIdentityChanged(r)
  \/ \E to \in Phases \ {"absent", "queued", "claimed"} : FinishRun(r, to)

Reconcile == StartPass \/ LockGates \/ SkipPass \/ SettlePass \/ LaunchReleased

Confirm(p) ==
  ConfirmLock(p) \/ ConfirmRelease(p) \/ ConfirmRefuse(p) \/ ConfirmLaunch(p)

Maintenance == WriterWaits \/ WriterEnters \/ WriterLeaves

Next ==
  \/ Owner \/ Reconcile \/ FailPass \/ Maintenance \/ Tick \/ Crash \/ Boot
  \/ \E r \in Runs : Worker(r)
  \/ Launch
  \/ \E p \in People : Confirm(p)

Spec == Init /\ [][Next]_vars
-----------------------------------------------------------------------------
(* Safety.                                                                 *)

\* A gated run starts only behind a released gate, and a run whose gate was
\* closed has been cancelled: scan, claim, reconciler, owner and restart see
\* the gate at different times, and none lets the run pass.
StartsOnlyReleased ==
  \A r \in Runs :
    /\ gate[r] = "waiting" => phase[r] \in {"queued", "cancelled"}
    /\ gate[r] = "closed" => phase[r] = "cancelled"

\* A gate opens only for what the person asked: the predecessor's output was
\* submitted, for "accepted" it was accepted, and a slot has its files bound.
ReleaseIsEarned ==
  \A r \in Runs : gate[r] = "released" =>
    /\ phase[pred[r]] = "submitted"
    /\ require[r] = "accepted" => review[pred[r]] = "accepted"
    /\ slot[r] <=> bound[r] # 0

\* A run with a slot starts with the very files that were bound to it, and
\* they are files a person was shown and agreed to send.
RunsOnConfirmedFiles ==
  \A r \in Runs :
    /\ bound[r] # 0 => bound[r] \in agreed[r]
    /\ ran[r] # 0 => ran[r] = bound[r]

\* From the confirmation to the end of the run nobody deletes its files.
BoundFilesAreKept ==
  \A r \in Runs :
    slot[r] /\ gate[r] = "released" /\ Active(r) => kept[pred[r]]

\* What the decision record says of maintenance: reconciliation is skipped
\* under the maintenance write lock, so it never stands in a circle of waiting
\* with a maintenance command and a confirmation.
NoCircularWait ==
  ~ /\ up /\ writer = "waiting" /\ recPc = "leasing"
    /\ \E p \in People : confirmPc[p] = "locking"

(* Action properties.                                                      *)

\* A pass settles chains whole: no gate it leaves open waits for a run that is
\* over or that the same pass has just cancelled.
PassLeavesNoDeadGate ==
  [][recPc = "leasing" /\ recPc' # "leasing" /\ up' /\ ~restorePending
       /\ faults' = faults =>
       \A r \in Runs : gate'[r] = "waiting" =>
         /\ phase'[r] = "queued" /\ recNow < expires[r]
         /\ Decide(phase'[pred[r]], review[pred[r]], require[r]) # "close"]_vars

\* What the client gets of a run and its gate: the two columns of a phase ...
Status(r) ==
  CASE phase[r] \in {"claimed", "staged"} -> "running"
    [] phase[r] \in {"submitted", "retained"} -> "succeeded"
    [] OTHER -> phase[r]
Delivery(r) ==
  CASE phase[r] = "staged" -> "pending"
    [] phase[r] \in {"submitted", "retained"} -> phase[r]
    [] OTHER -> "not_ready"

\* ... and a slot that says what it waits for.
SlotStatus(r) ==
  IF ~slot[r] THEN "none"
  ELSE CASE gate[r] = "released" -> "bound"
         [] gate[r] = "closed" -> "closed"
         [] OTHER -> IF Decide(phase[pred[r]], review[pred[r]], require[r]) = "release"
                     THEN "awaiting_confirmation" ELSE "awaiting_predecessor"

Row(r) ==
  [status |-> Status(r), delivery |-> Delivery(r), gate |-> gate[r],
   closedFor |-> closedFor[r], slot |-> SlotStatus(r), files |-> bound[r] # 0]

Readable(r) == Page!GateAgrees(Row(r)) /\ Page!FilesAgree(Row(r))
Over(r) == phase[r] # "absent" /\ Page!Lifecycle(Row(r)).terminal

\* A gate and its run are written by different hands: a cancellation leaves the
\* gate to the reconciler, a confirmation releases it under another lock, and
\* the client reads both at any moment between. However a row changes, the
\* client can read it, and what it tells the person of a run that is over - and
\* why it never started - stands: no later step of the reconciler changes it.
ShownEndIsFinal ==
  [][\A r \in Runs : Row(r)' # Row(r) =>
       /\ Readable(r)'
       /\ Over(r) => Page!Lifecycle(Row(r))' = Page!Lifecycle(Row(r))]_vars

(* Liveness.                                                               *)

\* Goroutines that can run do run, time passes, the ticker ticks, maintenance
\* commands and a stopped sidecar come back; a waiter gets gates.mu after
\* finitely many others (sync.Mutex hands over to a starving waiter).
Fairness ==
  /\ WF_vars(Tick) /\ WF_vars(Boot)
  /\ WF_vars(WriterEnters) /\ WF_vars(WriterLeaves)
  /\ WF_vars(StartPass) /\ SF_vars(LockGates)
  /\ WF_vars(SkipPass \/ SettlePass) /\ WF_vars(LaunchReleased)
  /\ \A p \in People :
       /\ SF_vars(ConfirmLock(p))
       /\ WF_vars(ConfirmRelease(p) \/ ConfirmRefuse(p))
       /\ WF_vars(ConfirmLaunch(p))
  /\ \A r \in Runs : WF_vars(Worker(r))
  /\ WF_vars(Launch)

LiveSpec == Spec /\ Fairness

\* Every gate settles: released, or closed at the latest after its expiry,
\* whatever happens to the predecessor and however often the process stops.
GateSettles ==
  \A r \in Runs :
    gate[r] = "waiting" ~> (gate[r] # "waiting" \/ restorePending)

\* A released run is taken up: the launch after the release is not lost to a
\* crash, to a maintenance command, or to a claim that gave up.
ReleasedRunIsTakenUp ==
  \A r \in Runs :
    gate[r] = "released" /\ phase[r] = "queued" ~>
      (phase[r] # "queued" \/ restorePending)

-----------------------------------------------------------------------------
(* What a gated run shows of the promise in StartGate.                     *)

Earned(r) ==
  /\ gate[r] # "none" /\ phase[pred[r]] = "submitted"
  /\ require[r] = "accepted" => review[pred[r]] = "accepted"

Standing(r) ==
  CASE phase[r] \in {"absent", "queued"} -> phase[r]
    [] phase[r] \in {"failed", "cancelled", "interrupted"} -> "over"
    [] OTHER -> "started"

Promise(r) == INSTANCE StartGate
  WITH gate <- gate[r], run <- Standing(r), earned <- Earned(r)

-----------------------------------------------------------------------------
(* The inductive invariant behind the safety properties, in named parts.   *)

\* Runs are created in the order of their numbers, after their predecessor.
CreationOrder ==
  /\ \A q, r \in Runs : q < r /\ phase[r] # "absent" => phase[q] # "absent"
  /\ \A r \in Runs : gate[r] # "none" =>
       phase[r] # "absent" /\ pred[r] \in Runs /\ pred[r] < r

\* Only gates have slots, a slot requires acceptance, and files are bound only
\* to a released slot; only submitted output has a review.
GateShape ==
  /\ \A r \in Runs :
       /\ slot[r] => gate[r] # "none" /\ require[r] = "accepted"
       /\ bound[r] # 0 => slot[r] /\ gate[r] = "released"
  /\ \A q \in Runs : review[q] # "none" => phase[q] = "submitted"

\* A confirmation in flight is about a slot, with an edition its person saw.
ConfirmationShape ==
  \A p \in People : confirmPc[p] # "idle" =>
    /\ confirmRun[p] \in Runs /\ slot[confirmRun[p]]
    /\ confirmSeen[p] \in agreed[confirmRun[p]]

InductiveInvariant ==
  /\ TypeOK /\ CreationOrder /\ GateShape /\ ConfirmationShape
  /\ StartsOnlyReleased /\ ReleaseIsEarned /\ RunsOnConfirmedFiles
  /\ BoundFilesAreKept
=============================================================================
