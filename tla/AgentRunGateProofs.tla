------------------------- MODULE AgentRunGateProofs -------------------------
(***************************************************************************)
(* Proofs about AgentRunGate for every number of runs, confirmations,      *)
(* edits, maintenance commands, faults and stops.                          *)
(*                                                                         *)
(* Runs enter the arguments only through their order: a predecessor is     *)
(* created before the run that waits for it.                               *)
(***************************************************************************)
EXTENDS AgentRunGate, TLAPS

LEMMA RunNumbers == \A r \in Runs : r \in Nat /\ r # NoRun
  BY ConstantsAssumption DEF Runs, NoRun

-----------------------------------------------------------------------------
(* Which actions touch which variables.                                    *)

GateCreated(r) ==
  \E q \in Runs, req \in {"submitted", "accepted"}, s \in BOOLEAN, w \in Windows :
    CreateGated(r, q, req, s, w)

Finished(r) ==
  \E to \in Phases \ {"absent", "queued", "claimed"} : FinishRun(r, to)

Reviewed(q) ==
  \E verdict \in Reviews \ {"none", "pending_review"} : ReviewOutput(q, verdict)

Admitted(p) ==
  \E r \in {g \in Runs : slot[g]} : \E e \in 1..edition[pred[r]] : Admit(p, r, e)

FactStep ==
  \/ \E r \in Runs :
       \/ CreateRun(r) \/ GateCreated(r) \/ CancelQueued(r) \/ DriftIdentity(r)
       \/ Claim(r) \/ ClaimIdentityChanged(r) \/ Finished(r)
       \/ Reviewed(r) \/ EditSource(r) \/ DeleteFile(r)
  \/ \E p \in People : ConfirmRelease(p)
  \/ SettlePass \/ Boot

\* Rows, gates and the files they speak of change in these actions.
LEMMA FactFrame ==
  [Next]_vars => FactStep \/ UNCHANGED <<rowVars, gateVars, sourceVars>>
<1>1. CASE UNCHANGED vars
  BY <1>1 DEF vars
<1>2. CASE Owner
  BY <1>2 DEF Owner, FactStep, GateCreated, Reviewed, Admit
<1>3. CASE Reconcile \/ FailPass
  BY <1>3 DEF Reconcile, FactStep, StartPass, LockGates, SkipPass, FailPass,
     LaunchReleased
<1>4. CASE Maintenance \/ Tick \/ Crash \/ Boot \/ Launch
  BY <1>4 DEF Maintenance, FactStep, WriterWaits, WriterEnters, WriterLeaves,
     Tick, Crash, Launch
<1>5. ASSUME NEW r \in Runs, Worker(r)
      PROVE  FactStep \/ UNCHANGED <<rowVars, gateVars, sourceVars>>
  BY <1>5 DEF Worker, FactStep, Finished, AbandonClaim
<1>6. ASSUME NEW p \in People, Confirm(p)
      PROVE  FactStep \/ UNCHANGED <<rowVars, gateVars, sourceVars>>
  BY <1>6 DEF Confirm, FactStep, ConfirmLock, ConfirmRefuse, ConfirmLaunch
<1> QED
  BY <1>1, <1>2, <1>3, <1>4, <1>5, <1>6 DEF Next

ConfirmStep ==
  \/ \E p \in People :
       \/ Admitted(p) \/ ConfirmLock(p) \/ ConfirmRelease(p)
       \/ ConfirmRefuse(p) \/ ConfirmLaunch(p)
  \/ Crash

\* Confirmations in flight change in these actions.
LEMMA ConfirmFrame == [Next]_vars => ConfirmStep \/ UNCHANGED confirmVars
<1>1. CASE UNCHANGED vars
  BY <1>1 DEF vars
<1>2. CASE Owner
  BY <1>2 DEF Owner, ConfirmStep, Admitted, CreateRun, CreateGated,
     CancelQueued, DriftIdentity, ReviewOutput, EditSource, DeleteFile
<1>3. CASE Reconcile \/ FailPass
  BY <1>3 DEF Reconcile, StartPass, LockGates, SkipPass, FailPass, SettlePass,
     LaunchReleased
<1>4. CASE Maintenance \/ Tick \/ Crash \/ Boot \/ Launch
  BY <1>4 DEF Maintenance, ConfirmStep, WriterWaits, WriterEnters,
     WriterLeaves, Tick, Boot, Launch
<1>5. ASSUME NEW r \in Runs, Worker(r) PROVE UNCHANGED confirmVars
  BY <1>5 DEF Worker, AbandonClaim, Claim, ClaimIdentityChanged, FinishRun
<1>6. ASSUME NEW p \in People, Confirm(p) PROVE ConfirmStep
  BY <1>6 DEF Confirm, ConfirmStep
<1> QED
  BY <1>1, <1>2, <1>3, <1>4, <1>5, <1>6 DEF Next

WorkerStep ==
  \/ \E r \in Runs :
       \/ CreateRun(r) \/ GateCreated(r) \/ AbandonClaim(r) \/ Claim(r)
       \/ ClaimIdentityChanged(r) \/ Finished(r)
  \/ \E p \in People : ConfirmLaunch(p)
  \/ Launch \/ LaunchReleased \/ Crash \/ Boot

\* Launches, workers and what runs were claimed with change in these actions.
LEMMA WorkerFrame == [Next]_vars => WorkerStep \/ UNCHANGED workerVars
<1>1. CASE UNCHANGED vars
  BY <1>1 DEF vars
<1>2. CASE Owner
  BY <1>2 DEF Owner, WorkerStep, GateCreated, Admit, CancelQueued,
     DriftIdentity, ReviewOutput, EditSource, DeleteFile
<1>3. CASE Reconcile \/ FailPass
  BY <1>3 DEF Reconcile, WorkerStep, StartPass, LockGates, SkipPass, FailPass,
     SettlePass
<1>4. CASE Maintenance \/ Tick \/ Crash \/ Boot \/ Launch
  BY <1>4 DEF Maintenance, WorkerStep, WriterWaits, WriterEnters,
     WriterLeaves, Tick
<1>5. ASSUME NEW r \in Runs, Worker(r) PROVE WorkerStep
  BY <1>5 DEF Worker, WorkerStep, Finished
<1>6. ASSUME NEW p \in People, Confirm(p)
      PROVE  WorkerStep \/ UNCHANGED workerVars
  BY <1>6 DEF Confirm, WorkerStep, ConfirmLock, ConfirmRelease, ConfirmRefuse
<1> QED
  BY <1>1, <1>2, <1>3, <1>4, <1>5, <1>6 DEF Next

-----------------------------------------------------------------------------
(* Types.                                                                  *)

\* A run with a gate has a predecessor, and so has the run a confirmation in
\* flight is about.
LEMMA Predecessors ==
  ASSUME InductiveInvariant
  PROVE  /\ \A r \in Runs : gate[r] # "none" => pred[r] \in Runs /\ pred[r] < r
         /\ \A r \in Runs : slot[r] => pred[r] \in Runs /\ require[r] = "accepted"
         /\ \A p \in People : confirmPc[p] # "idle" =>
              /\ confirmRun[p] \in Runs /\ slot[confirmRun[p]]
              /\ pred[confirmRun[p]] \in Runs
              /\ require[confirmRun[p]] = "accepted"
  BY DEF InductiveInvariant, CreationOrder, GateShape, ConfirmationShape

LEMMA FactTypesStep == InductiveInvariant /\ [Next]_vars => FactTypes'
<1> SUFFICES ASSUME InductiveInvariant, [Next]_vars PROVE FactTypes'
  OBVIOUS
<1>0. TypeOK
  BY DEF InductiveInvariant
<1> USE DEF TypeOK, FactTypes
<1>1. ASSUME NEW r \in Runs, CreateRun(r) \/ CancelQueued(r) \/ DriftIdentity(r)
      PROVE  FactTypes'
  <2>1. CASE CreateRun(r) \/ CancelQueued(r)
    BY <1>0, <2>1 DEF CreateRun, CancelQueued, gateVars, sourceVars, Phases
  <2>2. CASE DriftIdentity(r)
    BY <1>0, <2>2 DEF DriftIdentity, rowVars, gateVars
  <2> QED BY <1>1, <2>1, <2>2
<1>2. ASSUME NEW r \in Runs, GateCreated(r) PROVE FactTypes'
  <2>1. PICK q \in Runs, req \in {"submitted", "accepted"}, s \in BOOLEAN,
             w \in Windows : CreateGated(r, q, req, s, w)
    BY <1>0, <1>2 DEF GateCreated
  <2>2. now + w \in Nat
    BY <1>0, ConstantsAssumption DEF ProcessTypes
  <2> QED BY <1>0, <2>1, <2>2 DEF CreateGated, sourceVars, Phases
<1>3. ASSUME NEW r \in Runs, Claim(r) \/ ClaimIdentityChanged(r) \/ Finished(r)
      PROVE  FactTypes'
  <2>1. CASE Claim(r) \/ ClaimIdentityChanged(r)
    BY <1>0, <2>1 DEF Claim, ClaimIdentityChanged, gateVars, sourceVars, Phases
  <2>2. CASE Finished(r)
    BY <1>0, <2>2 DEF Finished, FinishRun, gateVars, sourceVars, Reviews
  <2> QED BY <1>3, <2>1, <2>2
<1>4. ASSUME NEW q \in Runs, Reviewed(q) \/ EditSource(q) \/ DeleteFile(q)
      PROVE  FactTypes'
  <2>1. CASE Reviewed(q)
    BY <1>0, <2>1 DEF Reviewed, ReviewOutput, gateVars, Reviews
  <2>2. CASE EditSource(q)
    BY <1>0, <2>2 DEF EditSource, rowVars, gateVars
  <2>3. CASE DeleteFile(q)
    BY <1>0, <2>3 DEF DeleteFile, rowVars, gateVars
  <2> QED BY <1>4, <2>1, <2>2, <2>3
<1>5. ASSUME NEW p \in People, ConfirmRelease(p) PROVE FactTypes'
  <2>1. gate' = [gate EXCEPT ![confirmRun[p]] = "released"]
        /\ bound' = [bound EXCEPT ![confirmRun[p]] = edition[pred[confirmRun[p]]]]
        /\ UNCHANGED <<rowVars, closedFor, pred, require, slot, expires, sourceVars>>
    BY <1>0, <1>5 DEF ConfirmRelease
  <2>2. confirmRun[p] \in Runs /\ pred[confirmRun[p]] \in Runs
    BY <1>0, <1>5, Predecessors DEF ConfirmRelease
  <2>3. edition[pred[confirmRun[p]]] \in Nat
    BY <1>0, <2>2
  <2> QED BY <1>0, <2>1, <2>2, <2>3 DEF rowVars, sourceVars
<1>6. CASE SettlePass
  BY <1>0, <1>6 DEF SettlePass, CloseReason, sourceVars, Phases
<1>7. CASE Boot
  BY <1>0, <1>7 DEF Boot, gateVars, sourceVars, Phases
<1>8. CASE UNCHANGED <<rowVars, gateVars, sourceVars>>
  BY <1>0, <1>8 DEF rowVars, gateVars, sourceVars
<1> QED
  BY <1>0, <1>1, <1>2, <1>3, <1>4, <1>5, <1>6, <1>7, <1>8, FactFrame DEF FactStep

LEMMA ConfirmTypesStep == InductiveInvariant /\ [Next]_vars => ConfirmTypes'
<1> SUFFICES ASSUME InductiveInvariant, [Next]_vars PROVE ConfirmTypes'
  OBVIOUS
<1>0. TypeOK
  BY DEF InductiveInvariant
<1> USE DEF TypeOK, ConfirmTypes, ProcessTypes
<1>1. ASSUME NEW p \in People, Admitted(p) PROVE ConfirmTypes'
  <2>1. PICK r \in {g \in Runs : slot[g]} :
          \E e \in 1..edition[pred[r]] : Admit(p, r, e)
    BY <1>1 DEF Admitted
  <2>2. PICK e \in 1..edition[pred[r]] : Admit(p, r, e)
    BY <2>1
  <2>3. e \in Nat
    BY <1>0, Predecessors DEF FactTypes
  <2> QED BY <1>0, <2>2, <2>3 DEF Admit
<1>2. ASSUME NEW p \in People,
             ConfirmLock(p) \/ ConfirmRelease(p) \/ ConfirmRefuse(p)
               \/ ConfirmLaunch(p)
      PROVE  ConfirmTypes'
  BY <1>0, <1>2 DEF ConfirmLock, ConfirmRelease, ConfirmRefuse, ConfirmLaunch
<1>3. CASE Crash
  BY <1>0, <1>3 DEF Crash
<1>4. CASE UNCHANGED confirmVars
  BY <1>0, <1>4 DEF confirmVars
<1> QED
  BY <1>0, <1>1, <1>2, <1>3, <1>4, ConfirmFrame DEF ConfirmStep

LEMMA WorkerTypesStep == InductiveInvariant /\ [Next]_vars => WorkerTypes'
<1> SUFFICES ASSUME InductiveInvariant, [Next]_vars PROVE WorkerTypes'
  OBVIOUS
<1>0. TypeOK
  BY DEF InductiveInvariant
<1> USE DEF TypeOK, WorkerTypes
<1>1. ASSUME NEW r \in Runs, CreateRun(r) \/ GateCreated(r) PROVE WorkerTypes'
  BY <1>0, <1>1 DEF CreateRun, GateCreated, CreateGated
<1>2. ASSUME NEW r \in Runs, AbandonClaim(r) \/ ClaimIdentityChanged(r) \/ Finished(r)
      PROVE  WorkerTypes'
  BY <1>0, <1>2 DEF AbandonClaim, ClaimIdentityChanged, Finished, FinishRun,
     WorkerLeaves
<1>3. ASSUME NEW r \in Runs, Claim(r) PROVE WorkerTypes'
  <2>1. slot[r] => pred[r] \in Runs /\ edition[pred[r]] \in Nat
    BY <1>0, Predecessors DEF FactTypes
  <2> QED BY <1>0, <1>3, <2>1 DEF Claim
<1>4. ASSUME NEW p \in People, ConfirmLaunch(p) PROVE WorkerTypes'
  BY <1>0, <1>4 DEF ConfirmLaunch, Dispatchable
<1>5. CASE Launch \/ LaunchReleased \/ Crash \/ Boot
  BY <1>0, <1>5 DEF Launch, LaunchReleased, Crash, Boot, Dispatchable
<1>6. CASE UNCHANGED workerVars
  BY <1>0, <1>6 DEF workerVars
<1> QED
  BY <1>0, <1>1, <1>2, <1>3, <1>4, <1>5, <1>6, WorkerFrame DEF WorkerStep

LEMMA ProcessTypesStep == InductiveInvariant /\ [Next]_vars => ProcessTypes'
<1> SUFFICES ASSUME InductiveInvariant, [Next]_vars PROVE ProcessTypes'
  OBVIOUS
<1>0. ProcessTypes
  BY DEF InductiveInvariant, TypeOK
<1> USE DEF ProcessTypes, processVars, lockVars, recVars
<1>1. ASSUME NEW r \in Runs, CreateRun(r) \/ CancelQueued(r) \/ DriftIdentity(r)
      PROVE  ProcessTypes'
  BY <1>0, <1>1 DEF CreateRun, CancelQueued, DriftIdentity
<1>2. ASSUME NEW r \in Runs, GateCreated(r) PROVE ProcessTypes'
  BY <1>0, <1>2 DEF GateCreated, CreateGated
<1>3. ASSUME NEW q \in Runs, Reviewed(q) \/ EditSource(q) \/ DeleteFile(q)
      PROVE  ProcessTypes'
  <2>1. wakeup' \in BOOLEAN
    BY <1>0, <1>3 DEF Reviewed, ReviewOutput, EditSource, DeleteFile
  <2> QED BY <1>0, <1>3, <2>1 DEF Reviewed, ReviewOutput, EditSource, DeleteFile
<1>4. ASSUME NEW p \in People, Admitted(p) PROVE ProcessTypes'
  <2>1. PICK r \in {g \in Runs : slot[g]} :
          \E e \in 1..edition[pred[r]] : Admit(p, r, e)
    BY <1>4 DEF Admitted
  <2> QED BY <1>0, <2>1 DEF Admit
<1>5. CASE StartPass \/ LockGates \/ SkipPass \/ FailPass
  <2>1. CASE StartPass
    <3>1. wakeup' \in BOOLEAN
      BY <1>0, <2>1 DEF StartPass
    <3> QED BY <1>0, <2>1, <3>1 DEF StartPass
  <2>2. CASE LockGates \/ SkipPass \/ FailPass
    BY <1>0, <2>2 DEF LockGates, SkipPass, FailPass
  <2> QED BY <1>5, <2>1, <2>2
<1>6. CASE SettlePass
  BY <1>0, <1>6 DEF SettlePass
<1>7. CASE LaunchReleased \/ Launch \/ Tick
  <2>1. CASE LaunchReleased
    BY <1>0, <2>1 DEF LaunchReleased
  <2>2. CASE Launch
    BY <1>0, <2>2 DEF Launch
  <2>3. CASE Tick
    BY <1>0, <2>3 DEF Tick
  <2> QED BY <1>7, <2>1, <2>2, <2>3
<1>8. CASE Maintenance
  <2>1. CASE WriterWaits
    BY <1>0, <2>1 DEF WriterWaits
  <2>2. CASE WriterEnters
    BY <1>0, <2>2 DEF WriterEnters
  <2>3. CASE WriterLeaves
    <3>1. restorePending' \in BOOLEAN
      BY <1>0, <2>3 DEF WriterLeaves
    <3> QED BY <1>0, <2>3, <3>1 DEF WriterLeaves
  <2> QED BY <1>8, <2>1, <2>2, <2>3 DEF Maintenance
<1>9. CASE Crash \/ Boot
  <2>1. up' \in BOOLEAN /\ wakeup' \in BOOLEAN /\ restorePending' \in BOOLEAN
    BY <1>0, <1>9 DEF Crash, Boot
  <2>2. CASE Crash
    BY <1>0, <2>1, <2>2 DEF Crash
  <2>3. CASE Boot
    BY <1>0, <2>1, <2>3 DEF Boot
  <2> QED BY <1>9, <2>2, <2>3
<1>10. ASSUME NEW r \in Runs, Worker(r) PROVE ProcessTypes'
  <2>1. CASE AbandonClaim(r)
    BY <1>0, <2>1 DEF AbandonClaim
  <2>2. CASE Claim(r) \/ ClaimIdentityChanged(r)
    BY <1>0, <2>2 DEF Claim, ClaimIdentityChanged
  <2>3. CASE Finished(r)
    BY <1>0, <2>3 DEF Finished, FinishRun
  <2> QED BY <1>10, <2>1, <2>2, <2>3 DEF Worker, Finished
<1>11. ASSUME NEW p \in People, Confirm(p) PROVE ProcessTypes'
  <2>1. CASE ConfirmLock(p) \/ ConfirmRelease(p) \/ ConfirmLaunch(p)
    BY <1>0, <2>1 DEF ConfirmLock, ConfirmRelease, ConfirmLaunch
  <2>2. CASE ConfirmRefuse(p)
    <3>1. wakeup' \in BOOLEAN
      BY <1>0, <2>2 DEF ConfirmRefuse
    <3> QED BY <1>0, <2>2, <3>1 DEF ConfirmRefuse
  <2> QED BY <1>11, <2>1, <2>2 DEF Confirm
<1>12. CASE UNCHANGED vars
  BY <1>0, <1>12 DEF vars
<1>13. CASE Owner
  BY <1>1, <1>2, <1>3, <1>4, <1>13 DEF Owner, GateCreated, Reviewed, Admitted
<1> QED
  BY <1>5, <1>6, <1>7, <1>8, <1>9, <1>10, <1>11, <1>12, <1>13 DEF Next, Reconcile

LEMMA TypeStep == InductiveInvariant /\ [Next]_vars => TypeOK'
  BY FactTypesStep, ConfirmTypesStep, WorkerTypesStep, ProcessTypesStep DEF TypeOK

-----------------------------------------------------------------------------
(* What one step does to one run.  Every later lemma reads the actions only *)
(* through these relations.                                                 *)

SameCondition(r) ==
  /\ pred'[r] = pred[r] /\ require'[r] = require[r] /\ slot'[r] = slot[r]

SameGate(r) ==
  SameCondition(r) /\ gate'[r] = gate[r] /\ bound'[r] = bound[r]

RunStays(r) == phase'[r] = phase[r] /\ SameGate(r)

RunAppears(r) ==
  /\ phase[r] = "absent" /\ phase'[r] = "queued"
  /\ \A q \in Runs : q < r => phase[q] # "absent"
  /\ bound'[r] = bound[r]
  /\ \/ SameGate(r)
     \/ /\ gate'[r] = "waiting" /\ pred'[r] \in Runs
        /\ phase[pred'[r]] # "absent" /\ ~Earned(r)'
        /\ slot'[r] => require'[r] = "accepted"

RunAdvances(r) ==
  /\ SameGate(r)
  /\ \/ phase[r] = "queued" /\ phase'[r] = "cancelled"
     \/ /\ phase[r] = "queued" /\ gate[r] # "waiting"
        /\ phase'[r] \in {"claimed", "failed"}
     \/ /\ phase[r] \in {"claimed", "staged"}
        /\ phase'[r] \notin {"absent", "queued"}

GateCloses(r) ==
  /\ gate[r] = "waiting" /\ gate'[r] = "closed"
  /\ phase'[r] = IF phase[r] = "queued" THEN "cancelled" ELSE phase[r]
  /\ SameCondition(r) /\ bound'[r] = bound[r]

GateReleases(r) ==
  /\ gate[r] = "waiting" /\ phase[r] = "queued" /\ gate'[r] = "released"
  /\ phase'[r] = phase[r] /\ SameCondition(r)
  /\ phase[pred[r]] = "submitted"
  /\ require[r] = "accepted" => review[pred[r]] = "accepted"
  /\ \/ ~slot[r] /\ bound'[r] = bound[r]
     \/ /\ slot[r] /\ bound'[r] = edition[pred[r]]
        /\ edition[pred[r]] \in agreed[r] /\ kept[pred[r]]

RunMoves(r) ==
  RunStays(r) \/ RunAppears(r) \/ RunAdvances(r) \/ GateCloses(r) \/ GateReleases(r)

LEMMA DecideRelease ==
  ASSUME NEW ph, NEW rv, NEW req, Decide(ph, rv, req) = "release"
  PROVE  ph = "submitted" /\ (req = "submitted" \/ rv = "accepted")
  BY DEF Decide

LEMMA DecideWait ==
  ASSUME NEW ph, NEW rv, NEW req, Decide(ph, rv, req) = "wait"
  PROVE  ph = "submitted" => req # "submitted" /\ rv # "accepted"
  BY DEF Decide

LEMMA VerdictRelease ==
  ASSUME InductiveInvariant, NEW r \in Runs, GateWaiting(r), NEW closed,
         Verdict(r, closed) = "release"
  PROVE  /\ phase[r] = "queued" /\ ~slot[r]
         /\ phase[pred[r]] = "submitted"
         /\ require[r] = "accepted" => review[pred[r]] = "accepted"
<1>1. phase[r] = "queued" /\ ~slot[r]
  BY DEF Verdict
<1> DEFINE q == pred[r]
           seen == IF q \in closed /\ phase[q] = "queued" THEN "cancelled"
                   ELSE phase[q]
<1>2. Decide(seen, review[q], require[r]) = "release"
  BY <1>1 DEF Verdict
<1>3. seen = "submitted" /\ (require[r] = "submitted" \/ review[q] = "accepted")
  BY <1>2, DecideRelease
<1> QED BY <1>1, <1>3

\* The loop closes a gate only if it is open, and releases none it has closed.
LEMMA SettleMoves ==
  ASSUME InductiveInvariant, SettlePass, NEW r \in Runs
  PROVE  RunMoves(r)
<1> USE DEF InductiveInvariant, TypeOK, FactTypes
<1>1. PICK closed \in SUBSET Runs :
        LET released == {g \in Runs : GateWaiting(g) /\ Verdict(g, closed) = "release"}
        IN  /\ ClosedByLoop(closed)
            /\ gate' = [g \in Runs |-> IF g \in closed THEN "closed"
                                       ELSE IF g \in released THEN "released"
                                       ELSE gate[g]]
            /\ phase' = [g \in Runs |-> IF g \in closed /\ phase[g] = "queued"
                                        THEN "cancelled" ELSE phase[g]]
  BY DEF SettlePass
<1>2. SameCondition(r) /\ bound'[r] = bound[r]
  BY DEF SettlePass, SameCondition
<1>3. CASE r \in closed
  <2>1. gate[r] = "waiting"
    BY <1>1, <1>3 DEF ClosedByLoop, GateWaiting
  <2> QED BY <1>1, <1>2, <1>3, <2>1 DEF RunMoves, GateCloses
<1>4. CASE r \notin closed /\ GateWaiting(r) /\ Verdict(r, closed) = "release"
  <2>1. gate'[r] = "released" /\ phase'[r] = phase[r]
    BY <1>1, <1>4
  <2> QED BY <1>2, <1>4, <2>1, VerdictRelease DEF RunMoves, GateReleases, GateWaiting
<1>5. CASE r \notin closed /\ ~(GateWaiting(r) /\ Verdict(r, closed) = "release")
  <2>1. gate'[r] = gate[r] /\ phase'[r] = phase[r]
    BY <1>1, <1>5
  <2> QED BY <1>2, <2>1 DEF RunMoves, RunStays, SameGate
<1> QED BY <1>3, <1>4, <1>5

LEMMA ConfirmMoves ==
  ASSUME InductiveInvariant, NEW p \in People, ConfirmRelease(p), NEW r \in Runs
  PROVE  RunMoves(r)
<1> USE DEF InductiveInvariant, TypeOK, FactTypes
<1> DEFINE c == confirmRun[p]
<1>1. /\ c \in Runs /\ slot[c] /\ pred[c] \in Runs /\ require[c] = "accepted"
      /\ confirmSeen[p] \in agreed[c]
  BY Predecessors DEF ConfirmRelease, ConfirmationShape
<1>2. /\ gate' = [gate EXCEPT ![c] = "released"]
      /\ bound' = [bound EXCEPT ![c] = edition[pred[c]]]
      /\ UNCHANGED <<phase, review, pred, require, slot>>
  BY DEF ConfirmRelease, rowVars
<1>3. /\ gate[c] = "waiting" /\ phase[c] = "queued"
      /\ phase[pred[c]] = "submitted" /\ review[pred[c]] = "accepted"
      /\ kept[pred[c]]
  BY DecideRelease DEF ConfirmRelease, AwaitingConfirmation, GateWaiting, Usable
<1>4. confirmSeen[p] = edition[pred[c]]
  BY DEF ConfirmRelease, ShownFiles
<1>5. CASE r = c
  BY <1>1, <1>2, <1>3, <1>4, <1>5 DEF RunMoves, GateReleases, SameCondition
<1>6. CASE r # c
  BY <1>1, <1>2, <1>6 DEF RunMoves, RunStays, SameGate, SameCondition
<1> QED BY <1>5, <1>6

LEMMA EveryRunMoves ==
  ASSUME InductiveInvariant, [Next]_vars, NEW r \in Runs
  PROVE  RunMoves(r)
<1> USE DEF InductiveInvariant, TypeOK, FactTypes
<1>1. ASSUME NEW x \in Runs, CreateRun(x) PROVE RunMoves(r)
  BY <1>1 DEF CreateRun, IsNext, gateVars, RunMoves, RunStays, RunAppears,
     SameGate, SameCondition
<1>2. ASSUME NEW x \in Runs, GateCreated(x) PROVE RunMoves(r)
  <2>1. PICK q \in Runs, req \in {"submitted", "accepted"}, s \in BOOLEAN,
             w \in Windows : CreateGated(x, q, req, s, w)
    BY <1>2 DEF GateCreated
  <2>2. CASE x = r
    <3>1. /\ phase' = [phase EXCEPT ![r] = "queued"] /\ review' = review
          /\ pred'[r] = q /\ require'[r] = req /\ q # r
      BY <2>1, <2>2 DEF CreateGated, IsNext
    <3>2. ~(phase[q] = "submitted" /\ (req = "accepted" => review[q] = "accepted"))
      BY <2>1, DecideWait DEF CreateGated
    <3>3. ~Earned(r)'
      BY <3>1, <3>2 DEF Earned
    <3> QED BY <2>1, <2>2, <3>3 DEF CreateGated, IsNext, RunMoves, RunAppears
  <2>3. CASE x # r
    BY <2>1, <2>3 DEF CreateGated, RunMoves, RunStays, SameGate, SameCondition
  <2> QED BY <2>2, <2>3
<1>3. ASSUME NEW x \in Runs, CancelQueued(x) PROVE RunMoves(r)
  BY <1>3 DEF CancelQueued, gateVars, RunMoves, RunStays, RunAdvances,
     SameGate, SameCondition
<1>4. ASSUME NEW x \in Runs, Claim(x) \/ ClaimIdentityChanged(x) PROVE RunMoves(r)
  BY <1>4 DEF Claim, ClaimIdentityChanged, Claimable, GateWaiting, gateVars,
     RunMoves, RunStays, RunAdvances, SameGate, SameCondition
<1>5. ASSUME NEW x \in Runs, Finished(x) PROVE RunMoves(r)
  <2>1. PICK to \in Phases \ {"absent", "queued", "claimed"} : FinishRun(x, to)
    BY <1>5 DEF Finished
  <2>2. SameGate(r)
    BY <2>1 DEF FinishRun, gateVars, SameGate, SameCondition
  <2>3. CASE x = r
    BY <2>1, <2>2, <2>3 DEF FinishRun, RunMoves, RunAdvances
  <2>4. CASE x # r
    BY <2>1, <2>2, <2>4 DEF FinishRun, RunMoves, RunStays
  <2> QED BY <2>3, <2>4
<1>6. ASSUME NEW q \in Runs,
             DriftIdentity(q) \/ Reviewed(q) \/ EditSource(q) \/ DeleteFile(q)
      PROVE  RunMoves(r)
  BY <1>6 DEF DriftIdentity, Reviewed, ReviewOutput, EditSource, DeleteFile,
     rowVars, gateVars, RunMoves, RunStays, SameGate, SameCondition
<1>7. CASE Boot
  BY <1>7 DEF Boot, gateVars, RunMoves, RunStays, RunAdvances, SameGate,
     SameCondition
<1>8. CASE UNCHANGED <<rowVars, gateVars, sourceVars>>
  BY <1>8 DEF rowVars, gateVars, RunMoves, RunStays, SameGate, SameCondition
<1> QED
  BY <1>1, <1>2, <1>3, <1>4, <1>5, <1>6, <1>7, <1>8, FactFrame, SettleMoves,
     ConfirmMoves DEF FactStep

\* A review is written only for submitted output, and an acceptance stays.
LEMMA ReviewMoves ==
  ASSUME InductiveInvariant, [Next]_vars, NEW q \in Runs
  PROVE  /\ review[q] = "accepted" => review'[q] = "accepted"
         /\ review'[q] # "none" => phase'[q] = "submitted"
<1> USE DEF InductiveInvariant, TypeOK, FactTypes
<1>0. review[q] # "none" => phase[q] = "submitted"
  BY DEF GateShape
<1>1. phase[q] = "submitted" => phase'[q] = "submitted"
  BY EveryRunMoves DEF RunMoves, RunStays, RunAppears, RunAdvances, GateCloses,
     GateReleases
<1>2. ASSUME NEW x \in Runs, Reviewed(x)
      PROVE  /\ review[q] = "accepted" => review'[q] = "accepted"
             /\ review'[q] # "none" => phase'[q] = "submitted"
  <2>1. PICK verdict \in Reviews \ {"none", "pending_review"} : ReviewOutput(x, verdict)
    BY <1>2 DEF Reviewed
  <2> QED BY <2>1, <1>0, <1>1 DEF ReviewOutput
<1>3. ASSUME NEW x \in Runs, Finished(x)
      PROVE  /\ review[q] = "accepted" => review'[q] = "accepted"
             /\ review'[q] # "none" => phase'[q] = "submitted"
  <2>1. PICK to \in Phases \ {"absent", "queued", "claimed"} : FinishRun(x, to)
    BY <1>3 DEF Finished
  <2>2. phase[x] # "submitted" /\ phase' = [phase EXCEPT ![x] = to]
        /\ review' = IF to = "submitted" THEN [review EXCEPT ![x] = "pending_review"]
                     ELSE review
    BY <2>1 DEF FinishRun
  <2> QED BY <2>2, <1>0, <1>1
<1>4. ASSUME NEW x \in Runs,
             CreateRun(x) \/ GateCreated(x) \/ CancelQueued(x) \/ DriftIdentity(x)
               \/ Claim(x) \/ ClaimIdentityChanged(x) \/ EditSource(x) \/ DeleteFile(x)
      PROVE  review' = review
  BY <1>4 DEF CreateRun, GateCreated, CreateGated, CancelQueued, DriftIdentity,
     Claim, ClaimIdentityChanged, EditSource, DeleteFile, rowVars
<1>5. ASSUME NEW p \in People, ConfirmRelease(p) PROVE review' = review
  BY <1>5 DEF ConfirmRelease, rowVars
<1>6. CASE SettlePass \/ Boot \/ UNCHANGED <<rowVars, gateVars, sourceVars>>
  BY <1>6, <1>0, <1>1 DEF SettlePass, Boot, rowVars
<1> QED
  BY <1>0, <1>1, <1>2, <1>3, <1>4, <1>5, <1>6, FactFrame DEF FactStep

LEMMA CreationOrderStep ==
  ASSUME InductiveInvariant, [Next]_vars PROVE CreationOrder'
<1> USE DEF InductiveInvariant, TypeOK, FactTypes
<1>1. ASSUME NEW r \in Runs, phase[r] # "absent" PROVE phase'[r] # "absent"
  BY <1>1, EveryRunMoves DEF RunMoves, RunStays, RunAppears, RunAdvances,
     GateCloses, GateReleases
<1>2. ASSUME NEW q \in Runs, NEW r \in Runs, q < r, phase'[r] # "absent"
      PROVE  phase'[q] # "absent"
  <2>1. phase[r] # "absent" => phase[q] # "absent"
    BY <1>2 DEF CreationOrder
  <2>2. phase[r] = "absent" => phase[q] # "absent"
    BY <1>2, EveryRunMoves DEF RunMoves, RunStays, RunAppears, RunAdvances,
       GateCloses, GateReleases
  <2> QED BY <2>1, <2>2, <1>1
<1>3. ASSUME NEW r \in Runs, gate'[r] # "none"
      PROVE  phase'[r] # "absent" /\ pred'[r] \in Runs /\ pred'[r] < r
  <2>1. CASE RunAppears(r)
    <3>1. gate[r] = "none"
      BY <2>1 DEF RunAppears, CreationOrder
    <3>2. phase'[r] = "queued" /\ pred'[r] \in Runs /\ phase[pred'[r]] # "absent"
      BY <1>3, <2>1, <3>1 DEF RunAppears, SameGate
    <3>3. pred'[r] # r /\ ~(r < pred'[r])
      BY <2>1, <3>2 DEF RunAppears, CreationOrder
    <3>4. pred'[r] < r
      BY <3>2, <3>3, RunNumbers
    <3> QED BY <3>2, <3>4
  <2>2. CASE RunStays(r) \/ RunAdvances(r) \/ GateCloses(r) \/ GateReleases(r)
    <3>1. gate[r] # "none" /\ pred'[r] = pred[r]
      BY <1>3, <2>2 DEF RunStays, RunAdvances, GateCloses, GateReleases,
         SameGate, SameCondition
    <3> QED BY <3>1, <1>1 DEF CreationOrder
  <2> QED BY <2>1, <2>2, EveryRunMoves DEF RunMoves
<1> QED BY <1>2, <1>3 DEF CreationOrder

LEMMA SlotStays ==
  ASSUME InductiveInvariant, [Next]_vars, NEW r \in Runs
  PROVE  /\ gate[r] # "none" => SameCondition(r) /\ gate'[r] # "none"
         /\ slot[r] => slot'[r]
<1>1. gate[r] # "none" => ~RunAppears(r)
  BY DEF InductiveInvariant, CreationOrder, RunAppears
<1>2. gate[r] # "none" => SameCondition(r) /\ gate'[r] # "none"
  BY <1>1, EveryRunMoves DEF RunMoves, RunStays, RunAdvances, GateCloses,
     GateReleases, SameGate
<1>3. slot[r] => gate[r] # "none"
  BY DEF InductiveInvariant, GateShape
<1> QED BY <1>2, <1>3 DEF SameCondition

LEMMA GateShapeStep ==
  ASSUME InductiveInvariant, [Next]_vars PROVE GateShape'
<1> USE DEF InductiveInvariant, TypeOK, FactTypes
<1>1. ASSUME NEW r \in Runs
      PROVE  /\ slot'[r] => gate'[r] # "none" /\ require'[r] = "accepted"
             /\ bound'[r] # 0 => slot'[r] /\ gate'[r] = "released"
  <2>0. /\ slot[r] => gate[r] # "none" /\ require[r] = "accepted"
        /\ bound[r] # 0 => slot[r] /\ gate[r] = "released"
        /\ gate[r] # "none" => phase[r] # "absent"
    BY DEF GateShape, CreationOrder
  <2>1. CASE RunAppears(r)
    BY <2>0, <2>1 DEF RunAppears, SameGate, SameCondition
  <2>2. CASE RunStays(r) \/ RunAdvances(r)
    BY <2>0, <2>2 DEF RunStays, RunAdvances, SameGate, SameCondition
  <2>3. CASE GateCloses(r) \/ GateReleases(r)
    BY <2>0, <2>3 DEF GateCloses, GateReleases, SameCondition
  <2> QED BY <2>1, <2>2, <2>3, EveryRunMoves DEF RunMoves
<1> QED BY <1>1, ReviewMoves DEF GateShape

LEMMA ConfirmationShapeStep ==
  ASSUME InductiveInvariant, [Next]_vars PROVE ConfirmationShape'
<1> USE DEF InductiveInvariant, TypeOK, ConfirmTypes
<1> SUFFICES ASSUME NEW p \in People, confirmPc'[p] # "idle"
             PROVE  /\ confirmRun'[p] \in Runs /\ slot'[confirmRun'[p]]
                    /\ confirmSeen'[p] \in agreed'[confirmRun'[p]]
  BY DEF ConfirmationShape
<1>1. ASSUME confirmPc[p] # "idle", confirmRun'[p] = confirmRun[p],
             confirmSeen'[p] = confirmSeen[p],
             \A r \in Runs : agreed[r] \subseteq agreed'[r]
      PROVE  /\ confirmRun'[p] \in Runs /\ slot'[confirmRun'[p]]
             /\ confirmSeen'[p] \in agreed'[confirmRun'[p]]
  BY <1>1, SlotStays DEF ConfirmationShape
<1>2. ASSUME NEW x \in People, Admitted(x)
      PROVE  /\ confirmRun'[p] \in Runs /\ slot'[confirmRun'[p]]
             /\ confirmSeen'[p] \in agreed'[confirmRun'[p]]
  <2>1. PICK r \in {g \in Runs : slot[g]} :
          \E e \in 1..edition[pred[r]] : Admit(x, r, e)
    BY <1>2 DEF Admitted
  <2>2. PICK e \in 1..edition[pred[r]] : Admit(x, r, e)
    BY <2>1
  <2>3. \A g \in Runs : agreed[g] \subseteq agreed'[g]
    BY <2>2 DEF Admit
  <2>4. CASE x = p
    <3>1. confirmRun'[p] = r /\ confirmSeen'[p] = e /\ e \in agreed'[r]
      BY <2>2, <2>4 DEF Admit
    <3> QED BY <2>1, <3>1, SlotStays
  <2>5. CASE x # p
    BY <1>1, <2>2, <2>3, <2>5 DEF Admit
  <2> QED BY <2>4, <2>5
<1>3. ASSUME NEW x \in People,
             ConfirmLock(x) \/ ConfirmRelease(x) \/ ConfirmRefuse(x) \/ ConfirmLaunch(x)
      PROVE  /\ confirmPc[p] # "idle" /\ confirmRun'[p] = confirmRun[p]
             /\ confirmSeen'[p] = confirmSeen[p] /\ agreed' = agreed
  BY <1>3 DEF ConfirmLock, ConfirmRelease, ConfirmRefuse, ConfirmLaunch
<1>4. ~Crash
  BY DEF Crash
<1>5. CASE UNCHANGED confirmVars
  BY <1>1, <1>5 DEF confirmVars
<1> QED BY <1>1, <1>2, <1>3, <1>4, <1>5, ConfirmFrame DEF ConfirmStep

-----------------------------------------------------------------------------
(* The safety properties.                                                  *)

LEMMA StartsOnlyReleasedStep ==
  ASSUME InductiveInvariant, [Next]_vars PROVE StartsOnlyReleased'
<1> USE DEF InductiveInvariant, TypeOK, FactTypes
<1> SUFFICES ASSUME NEW r \in Runs
             PROVE  /\ gate'[r] = "waiting" => phase'[r] \in {"queued", "cancelled"}
                    /\ gate'[r] = "closed" => phase'[r] = "cancelled"
  BY DEF StartsOnlyReleased
<1>0. /\ gate[r] = "waiting" => phase[r] \in {"queued", "cancelled"}
      /\ gate[r] = "closed" => phase[r] = "cancelled"
      /\ gate[r] # "none" => phase[r] # "absent"
  BY DEF StartsOnlyReleased, CreationOrder
<1>1. CASE RunStays(r) \/ RunAppears(r)
  BY <1>0, <1>1 DEF RunStays, RunAppears, SameGate
<1>2. CASE RunAdvances(r)
  BY <1>0, <1>2 DEF RunAdvances, SameGate
<1>3. CASE GateCloses(r) \/ GateReleases(r)
  BY <1>0, <1>3 DEF GateCloses, GateReleases
<1> QED BY <1>1, <1>2, <1>3, EveryRunMoves DEF RunMoves

LEMMA ReleaseIsEarnedStep ==
  ASSUME InductiveInvariant, [Next]_vars PROVE ReleaseIsEarned'
<1> USE DEF InductiveInvariant, TypeOK, FactTypes
<1> SUFFICES ASSUME NEW r \in Runs, gate'[r] = "released"
             PROVE  /\ phase'[pred'[r]] = "submitted"
                    /\ require'[r] = "accepted" => review'[pred'[r]] = "accepted"
                    /\ slot'[r] <=> bound'[r] # 0
  BY DEF ReleaseIsEarned
<1>1. gate[r] # "none"
  BY EveryRunMoves DEF RunMoves, RunStays, RunAppears, RunAdvances, GateCloses,
     GateReleases, SameGate
<1>2. SameCondition(r) /\ pred[r] \in Runs
  BY <1>1, SlotStays DEF CreationOrder
<1>3. /\ phase[pred[r]] = "submitted"
      /\ require[r] = "accepted" => review[pred[r]] = "accepted"
      /\ slot'[r] <=> bound'[r] # 0
  <2>1. CASE gate[r] = "released"
    <3>1. bound'[r] = bound[r]
      BY <2>1, EveryRunMoves DEF RunMoves, RunStays, RunAppears, RunAdvances,
         GateCloses, GateReleases, SameGate
    <3> QED BY <1>2, <2>1, <3>1 DEF ReleaseIsEarned, SameCondition
  <2>2. CASE gate[r] # "released"
    <3>1. GateReleases(r)
      BY <1>1, <2>2, EveryRunMoves DEF RunMoves, RunStays, RunAppears,
         RunAdvances, GateCloses, SameGate
    <3>2. bound[r] = 0 /\ edition[pred[r]] # 0
      BY <1>2, <2>2 DEF GateShape
    <3> QED BY <1>2, <3>1, <3>2 DEF GateReleases, SameCondition
  <2> QED BY <2>1, <2>2
<1>4. phase'[pred[r]] = "submitted"
  BY <1>2, <1>3, EveryRunMoves DEF RunMoves, RunStays, RunAppears, RunAdvances,
     GateCloses, GateReleases
<1>5. require[r] = "accepted" => review'[pred[r]] = "accepted"
  BY <1>2, <1>3, ReviewMoves
<1> QED BY <1>2, <1>3, <1>4, <1>5 DEF SameCondition

LEMMA AgreementGrows ==
  ASSUME InductiveInvariant, [Next]_vars, NEW r \in Runs
  PROVE  agreed[r] \subseteq agreed'[r]
<1> USE DEF InductiveInvariant, TypeOK, ConfirmTypes
<1>1. ASSUME NEW p \in People, Admitted(p) PROVE agreed[r] \subseteq agreed'[r]
  BY <1>1 DEF Admitted, Admit
<1>2. ASSUME NEW p \in People,
             ConfirmLock(p) \/ ConfirmRelease(p) \/ ConfirmRefuse(p) \/ ConfirmLaunch(p)
      PROVE  agreed' = agreed
  BY <1>2 DEF ConfirmLock, ConfirmRelease, ConfirmRefuse, ConfirmLaunch
<1>3. CASE Crash \/ UNCHANGED confirmVars
  BY <1>3 DEF Crash, confirmVars
<1> QED BY <1>1, <1>2, <1>3, ConfirmFrame DEF ConfirmStep

LEMMA RunsOnConfirmedFilesStep ==
  ASSUME InductiveInvariant, [Next]_vars PROVE RunsOnConfirmedFiles'
<1> USE DEF InductiveInvariant, TypeOK, FactTypes, WorkerTypes
<1>1. ASSUME NEW r \in Runs, bound'[r] # 0 PROVE bound'[r] \in agreed'[r]
  <2>1. CASE bound'[r] = bound[r]
    BY <1>1, <2>1, AgreementGrows DEF RunsOnConfirmedFiles
  <2>2. CASE bound'[r] # bound[r]
    <3>1. bound'[r] \in agreed[r]
      BY <2>2, EveryRunMoves DEF RunMoves, RunStays, RunAppears, RunAdvances,
         GateCloses, GateReleases, SameGate
    <3> QED BY <3>1, AgreementGrows
  <2> QED BY <2>1, <2>2
<1>2. ASSUME NEW r \in Runs, ran'[r] # 0 PROVE ran'[r] = bound'[r]
  <2>0. ran[r] # 0 => ran[r] = bound[r]
    BY DEF RunsOnConfirmedFiles
  <2>1. bound[r] # 0 => bound'[r] = bound[r]
    <3>1. bound[r] # 0 => gate[r] = "released"
      BY DEF GateShape
    <3> QED BY <3>1, EveryRunMoves DEF RunMoves, RunStays, RunAppears,
               RunAdvances, GateCloses, GateReleases, SameGate
  <2>2. ASSUME NEW x \in Runs, Claim(x) PROVE ran'[r] = bound'[r]
    <3>1. bound' = bound /\ (x # r => ran'[r] = ran[r])
      BY <2>2 DEF Claim, gateVars
    <3>2. CASE x = r
      BY <1>2, <2>2, <3>1, <3>2 DEF Claim, InputsHold
    <3> QED BY <1>2, <2>0, <3>1, <3>2
  <2>3. CASE ran' = ran
    BY <1>2, <2>0, <2>1, <2>3
  <2>4. ASSUME NEW x \in Runs,
               CreateRun(x) \/ GateCreated(x) \/ AbandonClaim(x)
                 \/ ClaimIdentityChanged(x) \/ Finished(x)
        PROVE  ran' = ran
    BY <2>4 DEF CreateRun, GateCreated, CreateGated, AbandonClaim,
       ClaimIdentityChanged, Finished, FinishRun
  <2>5. ASSUME NEW p \in People, ConfirmLaunch(p) PROVE ran' = ran
    BY <2>5 DEF ConfirmLaunch
  <2>6. CASE Launch \/ LaunchReleased \/ Crash \/ Boot \/ UNCHANGED workerVars
    BY <2>3, <2>6 DEF Launch, LaunchReleased, Crash, Boot, workerVars
  <2> QED BY <2>2, <2>3, <2>4, <2>5, <2>6, WorkerFrame DEF WorkerStep
<1> QED BY <1>1, <1>2 DEF RunsOnConfirmedFiles

\* Files go only by a deletion, which looks at the runs that hold them.
LEMMA KeptMoves ==
  ASSUME InductiveInvariant, [Next]_vars
  PROVE  \/ kept' = kept
         \/ \E q \in Runs : /\ ~HeldByActiveRun(q) /\ kept' = [kept EXCEPT ![q] = FALSE]
                            /\ UNCHANGED <<rowVars, gateVars>>
<1>1. ASSUME NEW q \in Runs, DeleteFile(q)
      PROVE  /\ ~HeldByActiveRun(q) /\ kept' = [kept EXCEPT ![q] = FALSE]
             /\ UNCHANGED <<rowVars, gateVars>>
  BY <1>1 DEF DeleteFile
<1>2. ASSUME NEW r \in Runs,
             CreateRun(r) \/ GateCreated(r) \/ CancelQueued(r) \/ DriftIdentity(r)
               \/ Claim(r) \/ ClaimIdentityChanged(r) \/ Finished(r)
               \/ Reviewed(r) \/ EditSource(r)
      PROVE  kept' = kept
  BY <1>2 DEF CreateRun, GateCreated, CreateGated, CancelQueued, DriftIdentity,
     Claim, ClaimIdentityChanged, Finished, FinishRun, Reviewed, ReviewOutput,
     EditSource, sourceVars
<1>3. ASSUME NEW p \in People, ConfirmRelease(p) PROVE kept' = kept
  BY <1>3 DEF ConfirmRelease, sourceVars
<1>4. CASE SettlePass \/ Boot \/ UNCHANGED <<rowVars, gateVars, sourceVars>>
  BY <1>4 DEF SettlePass, Boot, sourceVars
<1> QED BY <1>1, <1>2, <1>3, <1>4, FactFrame DEF FactStep

LEMMA BoundFilesAreKeptStep ==
  ASSUME InductiveInvariant, [Next]_vars PROVE BoundFilesAreKept'
<1> USE DEF InductiveInvariant, TypeOK, FactTypes
<1> SUFFICES ASSUME NEW r \in Runs, slot'[r], gate'[r] = "released", Active(r)'
             PROVE  kept'[pred'[r]]
  BY DEF BoundFilesAreKept, Active
<1>1. gate[r] # "none"
  BY EveryRunMoves DEF RunMoves, RunStays, RunAppears, RunAdvances, GateCloses,
     GateReleases, SameGate
<1>2. SameCondition(r) /\ pred[r] \in Runs
  BY <1>1, SlotStays DEF CreationOrder
<1>3. slot[r] /\ pred'[r] = pred[r]
  BY <1>2 DEF SameCondition
<1>4. ASSUME gate[r] = "released" PROVE Active(r)
  <2>1. ~RunAppears(r)
    BY <1>1 DEF CreationOrder, RunAppears
  <2> QED BY <1>4, <2>1, EveryRunMoves DEF RunMoves, RunStays, RunAdvances,
             GateCloses, GateReleases, SameGate, Active
<1>5. kept[pred[r]]
  <2>1. CASE gate[r] = "released"
    BY <1>3, <1>4, <2>1 DEF BoundFilesAreKept
  <2>2. CASE gate[r] # "released"
    BY <1>1, <1>3, <2>2, EveryRunMoves DEF RunMoves, RunStays, RunAppears,
       RunAdvances, GateCloses, GateReleases, SameGate
  <2> QED BY <2>1, <2>2
<1>6. CASE kept' = kept
  BY <1>3, <1>5, <1>6
<1>7. ASSUME NEW q \in Runs, ~HeldByActiveRun(q),
             kept' = [kept EXCEPT ![q] = FALSE], UNCHANGED <<rowVars, gateVars>>
      PROVE  kept'[pred'[r]]
  <2>1. gate[r] = "released"
    BY <1>7 DEF gateVars
  <2>2. pred[r] # q
    BY <1>3, <1>4, <1>7, <2>1 DEF HeldByActiveRun
  <2> QED BY <1>2, <1>3, <1>5, <1>7, <2>2
<1> QED BY <1>6, <1>7, KeptMoves

-----------------------------------------------------------------------------
(* The inductive invariant.                                                *)

LEMMA InitInvariant == Init => InductiveInvariant
<1> SUFFICES ASSUME Init PROVE InductiveInvariant
  OBVIOUS
<1>1. TypeOK
  <2>1. FactTypes
    BY DEF Init, FactTypes, Phases, Reviews
  <2>2. ProcessTypes
    BY DEF Init, ProcessTypes
  <2>3. ConfirmTypes /\ WorkerTypes
    BY DEF Init, ConfirmTypes, WorkerTypes
  <2> QED BY <2>1, <2>2, <2>3 DEF TypeOK
<1>2. CreationOrder /\ GateShape /\ ConfirmationShape
  BY DEF Init, CreationOrder, GateShape, ConfirmationShape
<1>3. StartsOnlyReleased /\ ReleaseIsEarned /\ RunsOnConfirmedFiles
      /\ BoundFilesAreKept
  BY DEF Init, StartsOnlyReleased, ReleaseIsEarned, RunsOnConfirmedFiles,
     BoundFilesAreKept
<1> QED BY <1>1, <1>2, <1>3 DEF InductiveInvariant

LEMMA NextInvariant == InductiveInvariant /\ [Next]_vars => InductiveInvariant'
  BY TypeStep, CreationOrderStep, GateShapeStep, ConfirmationShapeStep,
     StartsOnlyReleasedStep, ReleaseIsEarnedStep, RunsOnConfirmedFilesStep,
     BoundFilesAreKeptStep DEF InductiveInvariant

\* In every reachable state the inductive invariant holds.
THEOREM Invariance == Spec => []InductiveInvariant
  BY InitInvariant, NextInvariant, PTL DEF Spec

\* Every variable keeps its type.
THEOREM TypeCorrect == Spec => []TypeOK
<1>1. InductiveInvariant => TypeOK
  BY DEF InductiveInvariant
<1> QED BY <1>1, Invariance, PTL

\* The scan, the claim, the reconciler, the owner and a restart look at a gate
\* at different times; whatever the order, a gated run starts only behind a
\* released gate, and a closed gate has cancelled its run.
THEOREM GatedRunsStartOnlyReleased == Spec => []StartsOnlyReleased
<1>1. InductiveInvariant => StartsOnlyReleased
  BY DEF InductiveInvariant
<1> QED BY <1>1, Invariance, PTL

\* A gate is released only after its predecessor has met the condition, and a
\* slot only with its files bound.
THEOREM ReleasesAreEarned == Spec => []ReleaseIsEarned
<1>1. InductiveInvariant => ReleaseIsEarned
  BY DEF InductiveInvariant
<1> QED BY <1>1, Invariance, PTL

\* A run with a slot is claimed with the edition a person agreed to send.
THEOREM ClaimedFilesAreConfirmed == Spec => []RunsOnConfirmedFiles
<1>1. InductiveInvariant => RunsOnConfirmedFiles
  BY DEF InductiveInvariant
<1> QED BY <1>1, Invariance, PTL

\* No deletion takes the files from a run between confirmation and end.
THEOREM ConfirmedFilesStay == Spec => []BoundFilesAreKept
<1>1. InductiveInvariant => BoundFilesAreKept
  BY DEF InductiveInvariant
<1> QED BY <1>1, Invariance, PTL

-----------------------------------------------------------------------------
(* What a pass leaves behind.                                              *)

LEMMA PassFrame ==
  ASSUME InductiveInvariant, [Next]_vars, recPc = "leasing", recPc' # "leasing"
  PROVE  SettlePass \/ SkipPass \/ FailPass \/ Crash
<1> USE DEF InductiveInvariant, TypeOK, ProcessTypes
<1>1. CASE Owner
  BY <1>1 DEF Owner, CreateRun, CreateGated, CancelQueued, DriftIdentity,
     ReviewOutput, EditSource, DeleteFile, Admit, recVars
<1>2. CASE Reconcile
  BY <1>2 DEF Reconcile, StartPass, LockGates, LaunchReleased
<1>3. CASE Maintenance \/ Tick \/ Boot \/ Launch
  BY <1>3 DEF Maintenance, WriterWaits, WriterEnters, WriterLeaves, Tick, Boot,
     Launch, recVars
<1>4. ASSUME NEW r \in Runs, Worker(r) PROVE recPc' = recPc
  BY <1>4 DEF Worker, AbandonClaim, Claim, ClaimIdentityChanged, FinishRun, recVars
<1>5. ASSUME NEW p \in People, Confirm(p) PROVE recPc' = recPc
  BY <1>5 DEF Confirm, ConfirmLock, ConfirmRelease, ConfirmRefuse,
     ConfirmLaunch, recVars
<1>6. CASE UNCHANGED vars
  BY <1>6 DEF vars, recVars
<1> QED BY <1>1, <1>2, <1>3, <1>4, <1>5, <1>6 DEF Next

\* Chains settle whole in one pass, of any length: a gate that stays open does
\* not wait for a run that is over, not even for one this pass has cancelled.
THEOREM ChainsSettleWhole == Spec => PassLeavesNoDeadGate
<1>1. InductiveInvariant /\ [Next]_vars =>
        [recPc = "leasing" /\ recPc' # "leasing" /\ up' /\ ~restorePending
           /\ faults' = faults =>
           \A r \in Runs : gate'[r] = "waiting" =>
             /\ phase'[r] = "queued" /\ recNow < expires[r]
             /\ Decide(phase'[pred[r]], review[pred[r]], require[r]) # "close"]_vars
  <2> SUFFICES ASSUME InductiveInvariant, [Next]_vars, recPc = "leasing",
                      recPc' # "leasing", up', ~restorePending, faults' = faults,
                      NEW r \in Runs, gate'[r] = "waiting"
               PROVE  /\ phase'[r] = "queued" /\ recNow < expires[r]
                      /\ Decide(phase'[pred[r]], review[pred[r]], require[r]) # "close"
    OBVIOUS
  <2> USE DEF InductiveInvariant, TypeOK, FactTypes
  <2>1. SettlePass
    BY PassFrame DEF SkipPass, FailPass, Crash, ProcessTypes
  <2>2. PICK closed \in SUBSET Runs :
          LET released == {g \in Runs : GateWaiting(g) /\ Verdict(g, closed) = "release"}
          IN  /\ ClosedByLoop(closed)
              /\ gate' = [g \in Runs |-> IF g \in closed THEN "closed"
                                         ELSE IF g \in released THEN "released"
                                         ELSE gate[g]]
              /\ phase' = [g \in Runs |-> IF g \in closed /\ phase[g] = "queued"
                                          THEN "cancelled" ELSE phase[g]]
    BY <2>1 DEF SettlePass
  <2> DEFINE before == {q \in closed : VisitedBefore(q, r)}
             q == pred[r]
             seen == IF q \in before /\ phase[q] = "queued" THEN "cancelled"
                     ELSE phase[q]
  <2>3. r \notin closed /\ gate[r] = "waiting" /\ phase'[r] = phase[r]
    BY <2>2
  <2>4. Verdict(r, before) # "close"
    BY <2>2, <2>3 DEF ClosedByLoop, GateWaiting
  <2>5. phase[r] = "queued" /\ ~(recNow >= expires[r])
    BY <2>4 DEF Verdict
  <2>6. Decide(seen, review[q], require[r]) # "close"
    BY <2>4, <2>5 DEF Verdict
  <2>7. q \in Runs /\ q < r
    BY <2>3 DEF CreationOrder
  <2>8. phase'[q] = seen
    BY <2>2, <2>7 DEF VisitedBefore
  <2> QED BY <2>3, <2>5, <2>6, <2>8 DEF ProcessTypes
<1> QED BY <1>1, Invariance, PTL DEF Spec, PassLeavesNoDeadGate

-----------------------------------------------------------------------------
(* What the web client tells of a run.                                     *)

\* The end of a run is told by the two columns of its phase, and of a cancelled
\* run also by its gate; before its end a run is not told as over.
LEMMA EndsAreTold ==
  ASSUME NEW row
  PROVE  /\ row.status \in {"queued", "running"} /\ row.delivery \in {"not_ready", "pending"}
              => ~Page!Lifecycle(row).terminal
         /\ row.status = "succeeded" /\ row.delivery = "retained" =>
              Page!Lifecycle(row) = Page!Told("succeeded", TRUE, TRUE, "none")
         /\ row.status = "succeeded" /\ row.delivery = "submitted" =>
              Page!Lifecycle(row) = Page!Told("submitted", FALSE, TRUE, "none")
         /\ row.status \in {"failed", "interrupted"} /\ row.delivery = "not_ready" =>
              Page!Lifecycle(row) = Page!Told("failed", TRUE, TRUE, row.status)
         /\ row.status = "cancelled" /\ row.delivery = "not_ready" =>
              Page!Lifecycle(row) =
                IF row.gate = "closed" /\ row.closedFor # "run_not_queued"
                THEN Page!Told("cancelled", TRUE, TRUE, row.closedFor)
                ELSE Page!Told("cancelled", FALSE, TRUE, "none")
<1>1. ASSUME row.status \in {"queued", "running"}, row.delivery \in {"not_ready", "pending"}
      PROVE  ~Page!Lifecycle(row).terminal
  BY <1>1 DEF Page!Lifecycle, Page!Told
<1>2. ASSUME row.status = "succeeded", row.delivery \in {"retained", "submitted"}
      PROVE  Page!Lifecycle(row) = IF row.delivery = "retained"
                                   THEN Page!Told("succeeded", TRUE, TRUE, "none")
                                   ELSE Page!Told("submitted", FALSE, TRUE, "none")
  BY <1>2 DEF Page!Lifecycle, Page!Told
<1>3. ASSUME row.status \in {"failed", "interrupted"}, row.delivery = "not_ready"
      PROVE  Page!Lifecycle(row) = Page!Told("failed", TRUE, TRUE, row.status)
  BY <1>3 DEF Page!Lifecycle, Page!Told
<1>4. ASSUME row.status = "cancelled", row.delivery = "not_ready"
      PROVE  Page!Lifecycle(row) =
               IF row.gate = "closed" /\ row.closedFor # "run_not_queued"
               THEN Page!Told("cancelled", TRUE, TRUE, row.closedFor)
               ELSE Page!Told("cancelled", FALSE, TRUE, "none")
  <2>1. ~(row.status = "queued" /\ row.delivery = "not_ready")
    BY <1>4
  <2>2. (Page!ShownGate(row) = "closed" /\ Page!ShownReason(row) # "run_not_queued")
          <=> (row.gate = "closed" /\ row.closedFor # "run_not_queued")
    BY <1>4 DEF Page!ShownGate, Page!ShownReason, Page!Settling
  <2>3. row.gate = "closed" => Page!ShownReason(row) = row.closedFor
    BY DEF Page!ShownReason, Page!Settling
  <2>4. CASE row.gate = "closed" /\ row.closedFor # "run_not_queued"
    BY <1>4, <2>1, <2>2, <2>3, <2>4 DEF Page!Lifecycle
  <2>5. CASE ~(row.gate = "closed" /\ row.closedFor # "run_not_queued")
    BY <1>4, <2>1, <2>2, <2>5 DEF Page!Lifecycle
  <2> QED BY <2>4, <2>5
<1> QED BY <1>1, <1>2, <1>3, <1>4

\* The reason of a closed gate is written once, with its closure; a run that is no
\* longer queued then is the reason itself.
LEMMA ReasonMoves ==
  ASSUME InductiveInvariant, [Next]_vars, NEW r \in Runs
  PROVE  /\ gate[r] # "waiting" => closedFor'[r] = closedFor[r]
         /\ gate[r] = "waiting" /\ gate'[r] = "closed" /\ phase[r] # "queued" =>
              closedFor'[r] = "run_not_queued"
<1> USE DEF InductiveInvariant, TypeOK, FactTypes
<1>1. CASE SettlePass
  <2>1. PICK closed \in SUBSET Runs :
          LET released == {g \in Runs : GateWaiting(g) /\ Verdict(g, closed) = "release"}
          IN  /\ ClosedByLoop(closed)
              /\ gate' = [g \in Runs |-> IF g \in closed THEN "closed"
                                         ELSE IF g \in released THEN "released"
                                         ELSE gate[g]]
              /\ closedFor' = [g \in Runs |-> IF g \in closed THEN CloseReason(g)
                                              ELSE closedFor[g]]
    BY <1>1 DEF SettlePass
  <2>2. r \in closed => gate[r] = "waiting"
    BY <2>1 DEF ClosedByLoop, GateWaiting
  <2>3. phase[r] # "queued" => CloseReason(r) = "run_not_queued"
    BY ONLY DEF CloseReason
  <2>4. gate[r] = "waiting" /\ gate'[r] = "closed" => r \in closed
    BY <2>1
  <2> QED BY <2>1, <2>2, <2>3, <2>4
<1>2. ASSUME NEW x \in Runs, GateCreated(x)
      PROVE  closedFor' = closedFor /\ (gate'[r] = gate[r] \/ gate'[r] = "waiting")
  BY <1>2 DEF GateCreated, CreateGated
<1>3. ASSUME NEW x \in Runs,
             \/ CreateRun(x) \/ CancelQueued(x) \/ DriftIdentity(x) \/ Claim(x)
             \/ ClaimIdentityChanged(x) \/ Finished(x) \/ Reviewed(x) \/ EditSource(x)
             \/ DeleteFile(x)
      PROVE  UNCHANGED <<gate, closedFor>>
  BY <1>3 DEF CreateRun, CancelQueued, DriftIdentity, Claim, ClaimIdentityChanged,
     Finished, FinishRun, Reviewed, ReviewOutput, EditSource, DeleteFile, gateVars
<1>4. ASSUME NEW p \in People, ConfirmRelease(p)
      PROVE  closedFor' = closedFor /\ (gate'[r] = gate[r] \/ gate'[r] = "released")
  BY <1>4 DEF ConfirmRelease
<1>5. CASE Boot \/ UNCHANGED <<rowVars, gateVars, sourceVars>>
  BY <1>5 DEF Boot, gateVars
<1> QED BY <1>1, <1>2, <1>3, <1>4, <1>5, FactFrame DEF FactStep

\* The columns of a run in each of its phases.
LEMMA ColumnsOfPhase ==
  ASSUME NEW r \in Runs, TypeOK
  PROVE  /\ phase[r] \in {"queued", "claimed", "staged"} =>
              Row(r).status \in {"queued", "running"} /\ Row(r).delivery \in {"not_ready", "pending"}
         /\ phase[r] \in {"submitted", "retained"} =>
              Row(r).status = "succeeded" /\ Row(r).delivery = phase[r]
         /\ phase[r] \in {"failed", "interrupted", "cancelled"} =>
              Row(r).status = phase[r] /\ Row(r).delivery = "not_ready"
  BY DEF Row, Status, Delivery

\* What a slot waits for, by its gate.
LEMMA NoSlotStatus == ASSUME NEW r, ~slot[r] PROVE SlotStatus(r) = "none"
  BY DEF SlotStatus

LEMMA OpenSlotStatus ==
  ASSUME NEW r, slot[r]
  PROVE  /\ gate[r] = "waiting" =>
              SlotStatus(r) \in {"awaiting_predecessor", "awaiting_confirmation"}
         /\ gate[r] = "released" => SlotStatus(r) = "bound"
         /\ gate[r] = "closed" => SlotStatus(r) = "closed"
<1>1. ASSUME gate[r] = "waiting"
      PROVE  SlotStatus(r) \in {"awaiting_predecessor", "awaiting_confirmation"}
  <2>1. CASE Decide(phase[pred[r]], review[pred[r]], require[r]) = "release"
    BY <1>1, <2>1 DEF SlotStatus
  <2>2. CASE Decide(phase[pred[r]], review[pred[r]], require[r]) # "release"
    BY <1>1, <2>2 DEF SlotStatus
  <2> QED BY <2>1, <2>2
<1>2. ASSUME gate[r] \in {"released", "closed"}
      PROVE  SlotStatus(r) = IF gate[r] = "released" THEN "bound" ELSE "closed"
  BY <1>2 DEF SlotStatus
<1> QED BY <1>1, <1>2

\* No step leaves a row and a gate that the client would refuse.
LEMMA RowsStayReadable ==
  ASSUME InductiveInvariant, NEW r \in Runs PROVE Readable(r)
<1> USE DEF InductiveInvariant, TypeOK, FactTypes
<1>1. /\ gate[r] = "waiting" => phase[r] \in {"queued", "cancelled"}
      /\ gate[r] = "closed" => phase[r] = "cancelled"
      /\ slot[r] => gate[r] # "none"
      /\ bound[r] # 0 => slot[r] /\ gate[r] = "released"
      /\ gate[r] = "released" => (slot[r] <=> bound[r] # 0)
  BY DEF StartsOnlyReleased, GateShape, ReleaseIsEarned
<1>2. /\ Row(r).gate = gate[r] /\ Row(r).closedFor = closedFor[r]
      /\ Row(r).slot = SlotStatus(r) /\ (Row(r).files <=> bound[r] # 0)
  BY DEF Row
<1>3. /\ gate[r] = "waiting" /\ ~Page!Settling(Row(r)) =>
           Row(r).status = "queued" /\ Row(r).delivery = "not_ready"
      /\ gate[r] = "closed" => Row(r).status = "cancelled" /\ Row(r).delivery = "not_ready"
  <2>1. phase[r] = "queued" => Row(r).status = "queued" /\ Row(r).delivery = "not_ready"
    BY DEF Row, Status, Delivery
  <2> QED BY <1>1, <1>2, <2>1, ColumnsOfPhase DEF Page!Settling
<1>4. Page!SlotAgrees(Row(r)) /\ Page!FilesAgree(Row(r))
  <2>1. CASE ~slot[r]
    BY <1>2, <2>1, NoSlotStatus DEF Page!SlotAgrees, Page!FilesAgree
  <2>2. CASE slot[r] /\ gate[r] = "waiting"
    BY <1>1, <1>2, <2>2, OpenSlotStatus DEF Page!SlotAgrees, Page!FilesAgree
  <2>3. CASE slot[r] /\ gate[r] = "released"
    BY <1>1, <1>2, <2>3, OpenSlotStatus DEF Page!SlotAgrees, Page!FilesAgree
  <2>4. CASE slot[r] /\ gate[r] = "closed"
    BY <1>1, <1>2, <2>4, OpenSlotStatus DEF Page!SlotAgrees, Page!FilesAgree
  <2> QED BY <1>1, <2>1, <2>2, <2>3, <2>4
<1> QED BY <1>2, <1>3, <1>4 DEF Readable, Page!GateAgrees

\* What the page tells of a run that is over, as a function of what never moves again.
EndTold(ph, closed, why) ==
  CASE ph = "retained" -> Page!Told("succeeded", TRUE, TRUE, "none")
    [] ph = "submitted" -> Page!Told("submitted", FALSE, TRUE, "none")
    [] ph \in {"failed", "interrupted"} -> Page!Told("failed", TRUE, TRUE, ph)
    [] OTHER -> IF closed /\ why # "run_not_queued"
                THEN Page!Told("cancelled", TRUE, TRUE, why)
                ELSE Page!Told("cancelled", FALSE, TRUE, "none")
ToldAtEnd(r) == EndTold(phase[r], gate[r] = "closed", closedFor[r])
Ends == {"submitted", "retained", "failed", "interrupted", "cancelled"}
Ended(r) == phase[r] \in Ends
TellsItsEnd(r) == Page!Lifecycle(Row(r)) = ToldAtEnd(r)

LEMMA ToldOfAnEnd ==
  ASSUME NEW r \in Runs, TypeOK
  PROVE  /\ Over(r) => Ended(r)
         /\ Ended(r) => TellsItsEnd(r)
<1>1. phase[r] \in Phases
  BY DEF TypeOK, FactTypes
<1>2. phase[r] \in {"queued", "claimed", "staged"} => ~Page!Lifecycle(Row(r)).terminal
  BY ColumnsOfPhase, EndsAreTold
<1>3. Row(r).gate = gate[r] /\ Row(r).closedFor = closedFor[r]
  BY DEF Row
<1>4. Over(r) => Ended(r)
  BY <1>1, <1>2 DEF Over, Ended, Ends, Phases
<1>5. CASE phase[r] \in {"retained", "submitted"}
  BY <1>4, <1>5, ColumnsOfPhase, EndsAreTold DEF TellsItsEnd, ToldAtEnd, EndTold
<1>6. CASE phase[r] \in {"failed", "interrupted"}
  BY <1>4, <1>6, ColumnsOfPhase, EndsAreTold DEF TellsItsEnd, ToldAtEnd, EndTold
<1>7. CASE phase[r] = "cancelled"
  BY <1>3, <1>4, <1>7, ColumnsOfPhase, EndsAreTold DEF TellsItsEnd, ToldAtEnd, EndTold
<1> QED BY <1>4, <1>5, <1>6, <1>7 DEF Ended, Ends

\* A run that has ended keeps its end, and a gate that is closed after that tells
\* no reason of its own.
LEMMA EndsStay ==
  ASSUME InductiveInvariant, [Next]_vars, NEW r \in Runs, Ended(r)
  PROVE  /\ phase'[r] = phase[r]
         /\ \/ gate'[r] = gate[r] /\ closedFor'[r] = closedFor[r]
            \/ /\ gate[r] = "waiting" /\ gate'[r] = "closed"
               /\ closedFor'[r] = "run_not_queued"
            \/ gate[r] = "waiting" /\ gate'[r] = "waiting"
<1> USE DEF InductiveInvariant, TypeOK, FactTypes, Ended, Ends
<1>1. phase'[r] = phase[r] /\ (gate'[r] = gate[r] \/ GateCloses(r))
  BY EveryRunMoves DEF RunMoves, RunStays, RunAppears, RunAdvances, GateCloses,
     GateReleases, SameGate
<1>2. CASE gate[r] = "waiting"
  BY <1>1, <1>2, ReasonMoves DEF GateCloses
<1>3. CASE gate[r] # "waiting"
  BY <1>1, <1>3, ReasonMoves DEF GateCloses
<1> QED BY <1>1, <1>2, <1>3

\* A gate and its run are written by different hands. Whatever the order in which
\* they write, the client can read what they leave, and what it said of a run that
\* is over, and why it never started, is not changed by the one who comes later.
THEOREM ShownEndsAreFinal == Spec => ShownEndIsFinal
<1>1. ASSUME InductiveInvariant, [Next]_vars, NEW r \in Runs
      PROVE  Readable(r)' /\ (Over(r) => Page!Lifecycle(Row(r))' = Page!Lifecycle(Row(r)))
  <2>1. InductiveInvariant'
    BY <1>1, NextInvariant
  <2>2. Readable(r)'
    BY <2>1, RowsStayReadable, PTL
  <2>3. ASSUME Over(r) PROVE Page!Lifecycle(Row(r))' = Page!Lifecycle(Row(r))
    <3>1. TypeOK /\ TypeOK'
      BY <1>1, <2>1 DEF InductiveInvariant
    <3>2. Ended(r)
      BY <2>3, <3>1, ToldOfAnEnd
    <3>3. Page!Lifecycle(Row(r)) = ToldAtEnd(r)
      BY <3>1, <3>2, ToldOfAnEnd DEF TellsItsEnd
    <3>4. Ended(r)'
      BY <1>1, <3>2, EndsStay DEF Ended
    <3>5. TellsItsEnd(r)'
      BY <3>1, <3>4, ToldOfAnEnd, PTL
    <3>6. ToldAtEnd(r)' = ToldAtEnd(r)
      BY <1>1, <3>2, EndsStay DEF ToldAtEnd, EndTold
    <3> QED BY <3>3, <3>5, <3>6 DEF TellsItsEnd
  <2> QED BY <2>2, <2>3
<1>2. InductiveInvariant /\ [Next]_vars =>
        [\A r \in Runs : Row(r)' # Row(r) =>
           /\ Readable(r)'
           /\ Over(r) => Page!Lifecycle(Row(r))' = Page!Lifecycle(Row(r))]_vars
  BY <1>1
<1> QED BY <1>2, Invariance, PTL DEF Spec, ShownEndIsFinal

-----------------------------------------------------------------------------
(* The sidecar implements the promise of StartGate, gate by gate.          *)

\* No step moves a run and earns the condition of its gate at the same time.
LEMMA OneThingAtATime ==
  ASSUME InductiveInvariant, [Next]_vars, NEW r \in Runs, NEW q \in Runs, q # r
  PROVE  \/ RunStays(r)
         \/ /\ phase'[q] = "submitted" <=> phase[q] = "submitted"
            /\ review'[q] = "accepted" <=> review[q] = "accepted"
<1> USE DEF InductiveInvariant, TypeOK, FactTypes
<1> DEFINE Apart == /\ phase'[q] = "submitted" <=> phase[q] = "submitted"
                    /\ review'[q] = "accepted" <=> review[q] = "accepted"
<1>1. ASSUME NEW x \in Runs, CreateRun(x) \/ GateCreated(x) PROVE Apart
  BY <1>1 DEF CreateRun, GateCreated, CreateGated, IsNext
<1>2. ASSUME NEW x \in Runs, CancelQueued(x) \/ Claim(x) \/ ClaimIdentityChanged(x)
      PROVE  Apart
  BY <1>2 DEF CancelQueued, Claim, ClaimIdentityChanged, Claimable
<1>3. ASSUME NEW x \in Runs, Finished(x) PROVE Apart \/ RunStays(r)
  <2>1. CASE x = r
    BY <1>3, <2>1 DEF Finished, FinishRun
  <2>2. CASE x # r
    BY <1>3, <2>2 DEF Finished, FinishRun, gateVars, RunStays, SameGate,
       SameCondition
  <2> QED BY <2>1, <2>2
<1>4. ASSUME NEW x \in Runs,
             DriftIdentity(x) \/ Reviewed(x) \/ EditSource(x) \/ DeleteFile(x)
      PROVE  RunStays(r)
  BY <1>4 DEF DriftIdentity, Reviewed, ReviewOutput, EditSource, DeleteFile,
     rowVars, gateVars, RunStays, SameGate, SameCondition
<1>5. ASSUME NEW p \in People, ConfirmRelease(p) PROVE Apart
  BY <1>5 DEF ConfirmRelease, rowVars
<1>6. CASE SettlePass
  BY <1>6 DEF SettlePass
<1>7. CASE Boot \/ UNCHANGED <<rowVars, gateVars, sourceVars>>
  BY <1>7 DEF Boot, rowVars
<1> QED
  BY <1>1, <1>2, <1>3, <1>4, <1>5, <1>6, <1>7, FactFrame DEF FactStep

\* Whatever reconciler, confirmations, worker, owner and restarts do is, for
\* each run, one of the steps its owner is promised, or invisible.
THEOREM Refinement == ASSUME NEW r \in Runs PROVE Spec => Promise(r)!Spec
<1>1. Init => Promise(r)!Init
  BY DEF Init, Promise!Init, Standing, Earned
<1>2. InductiveInvariant /\ [Next]_vars => [Promise(r)!Next]_(Promise(r)!vars)
  <2> SUFFICES ASSUME InductiveInvariant, [Next]_vars
               PROVE  Promise(r)!Next \/ UNCHANGED Promise(r)!vars
    OBVIOUS
  <2> USE DEF Promise!Next, Promise!vars
  <2>0. /\ phase[r] \in Phases /\ gate[r] \in {"none", "waiting", "released", "closed"}
        /\ phase'[r] \in Phases
        /\ gate[r] = "waiting" => phase[r] \in {"queued", "cancelled"}
        /\ gate[r] = "closed" => phase[r] = "cancelled"
        /\ gate[r] # "none" => phase[r] # "absent"
    BY TypeStep DEF InductiveInvariant, TypeOK, FactTypes, StartsOnlyReleased,
       CreationOrder
  <2>1. gate[r] # "none" => pred[r] \in Runs /\ pred[r] # r /\ SameCondition(r)
    BY SlotStays, Predecessors, RunNumbers
  <2>2. CASE RunStays(r)
    <3>1. Earned(r) => Earned(r)'
      BY <2>1, <2>2, EveryRunMoves, ReviewMoves DEF Earned, RunStays, SameGate,
         SameCondition, RunMoves, RunAppears, RunAdvances, GateCloses, GateReleases
    <3>2. gate[r] = "none" => ~Earned(r) /\ ~Earned(r)'
      BY <2>2 DEF Earned, RunStays, SameGate
    <3>3. Standing(r)' = Standing(r) /\ gate'[r] = gate[r]
      BY <2>2 DEF Standing, RunStays, SameGate
    <3> QED BY <3>1, <3>2, <3>3 DEF Promise!Earn, Earned
  <2>3. ASSUME ~RunStays(r), ~RunAppears(r) PROVE Earned(r)' = Earned(r)
    <3>1. CASE gate[r] = "none"
      <4>1. gate'[r] = "none"
        BY <2>3, <3>1, EveryRunMoves DEF RunMoves, RunAdvances, GateCloses,
           GateReleases, SameGate
      <4> QED BY <3>1, <4>1 DEF Earned
    <3>2. CASE gate[r] # "none"
      <4>1. Earned(r)' <=> Earned(r)
        BY <2>1, <2>3, <3>2, OneThingAtATime, SlotStays DEF Earned, SameCondition
      <4> QED BY <4>1 DEF Earned
    <3> QED BY <3>1, <3>2
  <2>4. CASE RunAppears(r)
    BY <2>0, <2>4 DEF RunAppears, SameGate, Standing, Earned, Promise!Confirm
  <2>5. CASE RunAdvances(r) /\ ~RunStays(r)
    <3>1. gate'[r] = gate[r] /\ Earned(r)' = Earned(r)
      BY <2>3, <2>5 DEF RunAdvances, RunAppears, SameGate
    <3>2. \/ Standing(r) = "queued" /\ Standing(r)' = "over"
          \/ /\ Standing(r) = "queued" /\ Standing(r)' = "started"
             /\ gate[r] \in {"none", "released"}
          \/ Standing(r) = "started" /\ Standing(r)' \in {"started", "over"}
      BY <2>0, <2>5 DEF RunAdvances, Standing, Phases
    <3> QED BY <3>1, <3>2 DEF Promise!Start, Promise!End
  <2>6. CASE GateCloses(r)
    <3>1. Earned(r)' = Earned(r)
      BY <2>0, <2>3, <2>6 DEF GateCloses, RunStays, RunAppears, SameGate
    <3>2. Standing(r) \in {"queued", "over"} /\ Standing(r)' = "over"
      BY <2>0, <2>6 DEF GateCloses, Standing
    <3> QED BY <2>6, <3>1, <3>2 DEF GateCloses, Promise!Close
  <2>7. CASE GateReleases(r)
    <3>1. Earned(r)' = Earned(r)
      BY <2>0, <2>3, <2>7 DEF GateReleases, RunStays, RunAppears, SameGate
    <3>2. Earned(r) /\ Standing(r) = "queued" /\ Standing(r)' = "queued"
      BY <2>7 DEF GateReleases, Earned, Standing
    <3> QED BY <2>7, <3>1, <3>2 DEF GateReleases, Promise!Release
  <2> QED BY <2>2, <2>4, <2>5, <2>6, <2>7, EveryRunMoves DEF RunMoves
<1> QED
  BY <1>1, <1>2, Invariance, PTL DEF Spec, Promise!Spec
=============================================================================
