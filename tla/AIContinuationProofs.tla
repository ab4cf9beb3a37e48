------------------------ MODULE AIContinuationProofs ------------------------
(***************************************************************************)
(* Proofs about AIContinuation for every set of leases, sessions and       *)
(* providers, every limit, and any number of changes, faults, stops and    *)
(* backups.                                                                *)
(*                                                                         *)
(* Most of what is proved is about one lease at a time. Every step of the  *)
(* system is, for a given lease, one of a dozen moves (EveryLeaseMoves);   *)
(* the invariants are then shown move by move.                             *)
(***************************************************************************)
EXTENDS AIContinuation, TLAPS

States == {"none"} \cup Active \cup Ended
Generations == {"none", "streaming", "completed", "failed", "cancelled"}
WorkerStates ==
  {"none", "launched", "accepted", "calling", "returned", "settled"}

\* The types of the rows, variable by variable.
RowTypes ==
  /\ status \in [Lease -> States]
  /\ turns \in [Lease -> 0..MaxTurns] /\ current \in [Lease -> 0..MaxTurns]
  /\ seen \in [Lease -> Nat]
  /\ generation \in [Lease -> [Turns -> Generations]]

OtherTypes ==
  /\ facts \in [Session -> Nat] /\ plan \in [Session -> Observations]
  /\ pc \in [Lease -> WorkerStates]
  /\ turn \in [Lease -> 0..MaxTurns]
  /\ refusal \in [Lease -> {"none", "busy", "changed", "failed"}]
  /\ stopPc \in [Lease -> {"idle", "revoked", "committed"}]
  /\ accepted \in [Lease -> 0..MaxTurns] /\ calls \in [Lease -> 0..MaxTurns]
  /\ issued \subseteq Lease /\ answered \subseteq Lease
  /\ unrecorded \subseteq Lease /\ signalled \subseteq Lease
  /\ scanRows \subseteq Lease /\ scanAt \in Lease \cup {NoLease}
  /\ process \in {"up", "closing", "down"}

LEMMA Types == ASSUME TypeOK PROVE RowTypes /\ OtherTypes
<1>1. RowTypes
  BY DEF TypeOK, RowTypes, Now, Rows, States, Generations
<1>2. OtherTypes
  BY DEF TypeOK, OtherTypes, WorkerStates
<1> QED BY <1>1, <1>2

LEMMA Limits ==
  /\ MaxTurns \in Nat \ {0}
  /\ SessionOf \in [Lease -> Session] /\ ProviderOf \in [Lease -> Provider]
  /\ NoLease \notin Lease
  BY ConstantsAssumption

-----------------------------------------------------------------------------
(* The moves of a lease.                                                   *)

SameTurns(l) ==
  turns'[l] = turns[l] /\ seen'[l] = seen[l] /\ generation'[l] = generation[l]
SameRow(l) ==
  status'[l] = status[l] /\ current'[l] = current[l] /\ SameTurns(l)
SameWorker(l) == pc'[l] = pc[l] /\ turn'[l] = turn[l]
SameSpent(l) == accepted'[l] = accepted[l] /\ calls'[l] = calls[l]
SameGrant(l) == l \in issued' <=> l \in issued

WorkerStops(l) ==
  \/ SameWorker(l)
  \/ pc'[l] = "settled" /\ turn'[l] = turn[l]
  \/ pc'[l] = "none" /\ turn'[l] \in {turn[l], 0}

Stays(l) == SameRow(l) /\ SameWorker(l) /\ SameSpent(l) /\ SameGrant(l)

Granted(l) ==
  /\ l \notin issued /\ l \in issued' /\ status'[l] = "waiting"
  /\ current'[l] = current[l] /\ SameTurns(l) /\ SameWorker(l) /\ SameSpent(l)

\* An active lease ends, or an ended one is tidied up.
Ends(l) ==
  /\ l \in issued /\ status'[l] \in Ended
  /\ current'[l] \in {current[l], 0} /\ SameTurns(l)
  /\ WorkerStops(l) /\ SameSpent(l) /\ SameGrant(l)

Tidied(l) ==
  /\ status[l] \notin Active /\ status'[l] = status[l]
  /\ current'[l] \in {current[l], 0} /\ SameTurns(l)
  /\ WorkerStops(l) /\ SameSpent(l) /\ SameGrant(l)

\* The scan or a worker without a turn writes that the lease waits.
Parks(l) ==
  /\ status[l] \in Active /\ status'[l] = "waiting"
  /\ \/ process # "down" /\ pc[l] = "none"
     \/ pc[l] = "returned" /\ turn[l] = 0
  /\ current'[l] = current[l] /\ SameTurns(l)
  /\ WorkerStops(l) /\ SameSpent(l) /\ SameGrant(l)

Begins(l) ==
  /\ status[l] = "waiting" /\ status'[l] = "running"
  /\ turns[l] < MaxTurns
  /\ turns'[l] = turns[l] + 1 /\ current'[l] = turns'[l]
  /\ turn'[l] = turns'[l]
  /\ seen[l] # facts[SessionOf[l]] /\ seen'[l] = facts[SessionOf[l]]
  /\ \A n \in Turns : n # turns'[l] => generation'[l][n] = generation[l][n]
  /\ pc[l] = "launched" /\ pc'[l] = "accepted"
  /\ accepted'[l] = accepted[l] + 1 /\ calls'[l] = calls[l] /\ SameGrant(l)

Asks(l) ==
  /\ pc[l] = "accepted" /\ pc'[l] = "calling" /\ l \notin signalled
  /\ calls'[l] = calls[l] + 1 /\ accepted'[l] = accepted[l]
  /\ turn'[l] = turn[l] /\ SameRow(l) /\ SameGrant(l)

Returns(l) ==
  /\ Executing(l) /\ pc'[l] = "returned" /\ turn'[l] = turn[l]
  /\ status'[l] = status[l] /\ current'[l] = current[l]
  /\ turns'[l] = turns[l] /\ seen'[l] = seen[l]
  /\ \A n \in Turns : n # turn[l] => generation'[l][n] = generation[l][n]
  /\ SameSpent(l) /\ SameGrant(l)

\* The turn is over and the lease waits for the next one.
Settles(l) ==
  /\ status[l] \in Active /\ status'[l] = "waiting"
  /\ pc[l] = "returned" /\ pc'[l] = "settled"
  /\ turn[l] # 0 /\ turn'[l] = turn[l] /\ generation[l][turn[l]] = "completed"
  /\ current[l] = turn[l] /\ current'[l] = 0 /\ SameTurns(l)
  /\ SameSpent(l) /\ SameGrant(l)

\* The worker moves and the row does not.
Works(l) ==
  /\ SameRow(l) /\ SameSpent(l) /\ SameGrant(l)
  /\ \/ pc[l] = "none" /\ pc'[l] = "launched" /\ turn'[l] = 0
     \/ pc[l] = "launched" /\ pc'[l] = "returned" /\ turn'[l] = turn[l]
     \/ /\ pc[l] = "returned" /\ pc'[l] = "settled" /\ turn'[l] = turn[l]
        /\ turn[l] = 0 \/ l \in unrecorded'
     \/ pc[l] = "settled" /\ pc'[l] = "none" /\ turn'[l] = turn[l]

Forgets(l) ==
  /\ process' = "down" /\ SameRow(l)
  /\ pc'[l] = "none" /\ turn'[l] = 0 /\ SameSpent(l) /\ SameGrant(l)

\* A restart: from the database as it was left, or from a backup.
Resumes(l) ==
  /\ process = "down"
  /\ \/ /\ status[l] \in Active /\ status'[l] = "interrupted" /\ current'[l] = 0
     \/ /\ status[l] # "running" /\ status'[l] = status[l]
        /\ current'[l] = current[l]
  /\ turns'[l] = turns[l] /\ seen'[l] = seen[l]
  /\ \A n \in Turns :
       generation[l][n] = "completed" => generation'[l][n] = "completed"
  /\ SameWorker(l) /\ SameSpent(l) /\ SameGrant(l)

Restored(l) ==
  /\ \E rows \in backups :
       /\ IF rows.status[l] \in Active
            THEN status'[l] = "interrupted" /\ current'[l] = 0
            ELSE status'[l] = rows.status[l] /\ current'[l] = rows.current[l]
       /\ turns'[l] = rows.turns[l] /\ seen'[l] = rows.seen[l]
  /\ SameWorker(l) /\ SameSpent(l) /\ SameGrant(l)

LeaseMoves(l) ==
  \/ Stays(l) \/ Granted(l) \/ Ends(l) \/ Tidied(l) \/ Parks(l) \/ Begins(l)
  \/ Asks(l) \/ Returns(l) \/ Settles(l) \/ Works(l) \/ Forgets(l) \/ Resumes(l)
  \/ Restored(l)

-----------------------------------------------------------------------------
(* Every step of the system is, for a given lease, one of these moves.     *)

LEMMA QuietSteps ==
  ASSUME InductiveInvariant, NEW l \in Lease, NEW x \in Lease,
         \/ ChangeProvider(x) \/ Expire(x) \/ StopRevoke(x) \/ StopFail(x)
         \/ StopSignal(x) \/ ScanSkip(x) \/ ScanVisit(x) \/ JudgeEnded(x)
         \/ JudgeReady(x) \/ WorkerTimeout(x)
         \/ ScanBegin \/ ScanEnd \/ TakeBackup \/ BeginShutdown \/ UNCHANGED vars
         \/ \E s \in Session, to \in Observations : ChangeFacts(s, to)
         \/ \E s \in Session, p \in Provider : StartChat(s, p)
         \/ \E c \in chats : EndChat(c)
  PROVE  Stays(l)
<1> USE DEF Stays, SameRow, SameTurns, SameWorker, SameSpent, SameGrant, rowVars,
            workerVars, observers
<1>1. CASE ChangeProvider(x) \/ Expire(x) \/ StopRevoke(x) \/ StopFail(x) \/ StopSignal(x)
  BY <1>1 DEF ChangeProvider, Expire, StopRevoke, StopFail, StopSignal
<1>2. CASE ScanSkip(x) \/ ScanVisit(x) \/ JudgeReady(x)
  BY <1>2 DEF ScanSkip, ScanVisit, JudgeReady, scanFrame
<1>3. CASE JudgeEnded(x)
  BY <1>3 DEF JudgeEnded, NextRow, scanFrame
<1>4. CASE WorkerTimeout(x)
  BY <1>4 DEF WorkerTimeout, workerFrame
<1>5. CASE ScanBegin \/ ScanEnd \/ TakeBackup \/ BeginShutdown \/ UNCHANGED vars
  BY <1>5 DEF ScanBegin, ScanEnd, TakeBackup, BeginShutdown, scanFrame, vars
<1>6. CASE \/ \E s \in Session, to \in Observations : ChangeFacts(s, to)
           \/ \E s \in Session, p \in Provider : StartChat(s, p)
           \/ \E c \in chats : EndChat(c)
  BY <1>6 DEF ChangeFacts, StartChat, EndChat
<1> QED BY <1>1, <1>2, <1>3, <1>4, <1>5, <1>6

LEMMA GrantAndStopSteps ==
  ASSUME InductiveInvariant, NEW l \in Lease, NEW x \in Lease,
         CreateAIContinuation(x) \/ StopCommit(x)
  PROVE  LeaseMoves(l)
<1> USE DEF SameTurns, SameWorker, SameSpent, SameGrant, workerVars
<1>0. RowTypes /\ OtherTypes
  BY Types DEF InductiveInvariant
<1>1. CASE CreateAIContinuation(x)
  <2>1. CASE x = l
    BY <1>0, <1>1, <2>1 DEF CreateAIContinuation, Update, LeaseMoves, Granted, RowTypes
  <2>2. CASE x # l
    BY <1>0, <1>1, <2>2 DEF CreateAIContinuation, Update, LeaseMoves, Stays, SameRow,
       RowTypes
  <2> QED BY <2>1, <2>2
<1>2. CASE StopCommit(x)
  <2>1. CASE x = l /\ status[x] \in Active
    <3>1. l \in issued
      BY <2>1 DEF InductiveInvariant, UngrantedIsUntouched, Untouched, Now, Active
    <3> QED
      BY <1>0, <1>2, <2>1, <3>1 DEF StopCommit, Update, LeaseMoves, Ends, RowTypes,
         WorkerStops, Ended, observers
  <2>2. CASE x # l \/ status[x] \notin Active
    BY <1>0, <1>2, <2>2 DEF StopCommit, Update, LeaseMoves, Stays, SameRow, RowTypes,
       observers
  <2> QED BY <2>1, <2>2
<1> QED BY <1>1, <1>2

LEMMA ActiveIsIssued ==
  ASSUME InductiveInvariant, NEW l \in Lease, status[l] \in Active
  PROVE  l \in issued
  BY DEF InductiveInvariant, UngrantedIsUntouched, Untouched, Now, Active

\* The scan ends a lease, or writes that it waits.
LEMMA ScanSteps ==
  ASSUME InductiveInvariant, NEW l \in Lease, NEW x \in Lease,
         \/ ScanOrphan(x) \/ JudgeExpired(x) \/ JudgeStopped(x)
         \/ JudgeComplete(x) \/ JudgeExhausted(x) \/ JudgeFails(x)
         \/ JudgeWaits(x) \/ Launch(x)
  PROVE  LeaseMoves(l)
<1> USE DEF SameTurns, SameWorker, SameSpent, SameGrant, workerVars, observers,
            scanFrame
<1>0. RowTypes /\ OtherTypes
  BY Types DEF InductiveInvariant
<1>1. CASE ScanOrphan(x)
  <2>1. x \in issued
    BY <1>1 DEF ScanOrphan, InductiveInvariant, UngrantedIsUntouched
  <2>2. CASE x = l /\ l \in scanFresh
    BY <1>0, <1>1, <2>1, <2>2 DEF ScanOrphan, Update, LeaseMoves, Ends, WorkerStops,
       RowTypes, Ended
  <2>3. CASE ~(x = l /\ l \in scanFresh)
    BY <1>0, <1>1, <2>3 DEF ScanOrphan, Update, LeaseMoves, Stays, SameRow, RowTypes
  <2> QED BY <2>2, <2>3
<1>2. CASE \/ JudgeExpired(x) \/ JudgeStopped(x) \/ JudgeComplete(x)
           \/ JudgeExhausted(x) \/ JudgeFails(x)
  <2>1. CASE NextRow(x) /\ UNCHANGED status
    BY <2>1 DEF NextRow, LeaseMoves, Stays, SameRow
  <2>2. ASSUME NEW to \in Ended, status[x] \in Active, Verdict(x, to)
        PROVE  LeaseMoves(l)
    <3>1. CASE x = l
      BY <1>0, <2>2, <3>1, ActiveIsIssued DEF Verdict, NextRow, Update, LeaseMoves,
         Ends, WorkerStops, RowTypes
    <3>2. CASE x # l
      BY <1>0, <2>2, <3>2 DEF Verdict, NextRow, Update, LeaseMoves, Stays, SameRow,
         RowTypes
    <3> QED BY <3>1, <3>2
  <2>3. \/ NextRow(x) /\ UNCHANGED status
        \/ \E to \in Ended : status[x] \in Active /\ Verdict(x, to)
    BY <1>2 DEF JudgeExpired, JudgeStopped, JudgeComplete, JudgeExhausted,
       JudgeFails, Eligible, Ended
  <2> QED BY <2>1, <2>2, <2>3
<1>3. CASE JudgeWaits(x)
  <2>1. scanAt = x /\ process # "down" /\ pc[x] = "none"
    BY <1>3 DEF JudgeWaits, Verdict, NextRow, Judging, InductiveInvariant, ScanIsAlone
  <2>2. CASE x = l
    BY <1>0, <1>3, <2>1, <2>2 DEF JudgeWaits, Eligible, Verdict, NextRow, Update,
       LeaseMoves, Parks, WorkerStops, RowTypes
  <2>3. CASE x # l
    BY <1>0, <1>3, <2>3 DEF JudgeWaits, Verdict, NextRow, Update, LeaseMoves, Stays,
       SameRow, RowTypes
  <2> QED BY <2>2, <2>3
<1>4. CASE Launch(x)
  <2>1. CASE Launchable(x) /\ x = l
    BY <1>0, <1>4, <2>1 DEF Launch, Launchable, LeaseMoves, Works, SameRow, OtherTypes,
       rowVars
  <2>2. CASE ~(Launchable(x) /\ x = l)
    BY <1>0, <1>4, <2>2 DEF Launch, LeaseMoves, Stays, SameRow, OtherTypes, rowVars
  <2> QED BY <2>1, <2>2
<1> QED BY <1>1, <1>2, <1>3, <1>4

\* The worker of a lease until its generation has come back.
LEMMA WorkerSteps ==
  ASSUME InductiveInvariant, NEW l \in Lease, NEW x \in Lease,
         \/ Accept(x) \/ RefuseBusy(x) \/ RefuseChanged(x) \/ RefuseFailed(x)
         \/ CallModel(x) \/ WorkerExit(x)
         \/ \E how \in {"completed", "failed", "cancelled"} : ModelReturns(x, how)
  PROVE  LeaseMoves(l)
<1> USE Limits DEF SameTurns, SameWorker, SameSpent, SameGrant, workerFrame
<1>0. RowTypes /\ OtherTypes
  BY Types DEF InductiveInvariant
<1>1. CASE Accept(x)
  <2>1. CASE x = l
    BY <1>0, <1>1, <2>1 DEF Accept, Acceptable, NoProgress, Update, LeaseMoves, Begins,
       RowTypes, OtherTypes, Turns
  <2>2. CASE x # l
    BY <1>0, <1>1, <2>2 DEF Accept, Update, LeaseMoves, Stays, SameRow, RowTypes,
       OtherTypes
  <2> QED BY <2>1, <2>2
<1>2. CASE RefuseBusy(x) \/ RefuseChanged(x) \/ RefuseFailed(x)
  <2>1. \E why \in {"busy", "changed", "failed"} : Refuse(x, why)
    BY <1>2 DEF RefuseBusy, RefuseChanged, RefuseFailed
  <2> QED
    BY <1>0, <2>1 DEF Refuse, LeaseMoves, Works, Stays, SameRow, OtherTypes, rowVars
<1>3. CASE CallModel(x)
  <2>1. CASE x = l
    BY <1>0, <1>3, <2>1 DEF CallModel, LeaseMoves, Asks, SameRow, OtherTypes, rowVars
  <2>2. CASE x # l
    BY <1>0, <1>3, <2>2 DEF CallModel, LeaseMoves, Stays, SameRow, OtherTypes, rowVars
  <2> QED BY <2>1, <2>2
<1>4. CASE WorkerExit(x)
  BY <1>0, <1>4 DEF WorkerExit, LeaseMoves, Works, Stays, SameRow, OtherTypes, rowVars
<1>5. ASSUME NEW how \in {"completed", "failed", "cancelled"}, ModelReturns(x, how)
      PROVE  LeaseMoves(l)
  <2>1. generation' \in {generation, [generation EXCEPT ![x][turn[x]] = how]}
    BY <1>5 DEF ModelReturns
  <2>2. CASE x = l
    <3>1. \A n \in Turns : n # turn[l] => generation'[l][n] = generation[l][n]
      BY <1>0, <2>1, <2>2 DEF RowTypes
    <3> QED BY <1>0, <1>5, <2>2, <3>1 DEF ModelReturns, LeaseMoves, Returns, OtherTypes
  <2>3. CASE x # l
    <3>1. generation'[l] = generation[l]
      BY <1>0, <2>1, <2>3 DEF RowTypes
    <3> QED
      BY <1>0, <1>5, <2>3, <3>1 DEF ModelReturns, LeaseMoves, Stays, SameRow, OtherTypes
  <2> QED BY <2>2, <2>3
<1> QED BY <1>1, <1>2, <1>3, <1>4, <1>5

\* What the worker writes when it has finished.
LEMMA FinishSteps ==
  ASSUME InductiveInvariant, NEW l \in Lease, NEW x \in Lease, Finish(x)
  PROVE  LeaseMoves(l)
<1> USE DEF SameTurns, SameWorker, SameSpent, SameGrant, workerFrame, Finishing
<1>0. RowTypes /\ OtherTypes
  BY Types DEF InductiveInvariant
<1>1. CASE x # l
  BY <1>0, <1>1 DEF Finish, FinishEnded, FinishCut, FinishRefused, FinishTurn,
     FinishLost, Settle, Update, LeaseMoves, Stays, SameRow, RowTypes, OtherTypes
<1>2. CASE x = l /\ FinishEnded(x)
  BY <1>0, <1>2 DEF FinishEnded, LeaseMoves, Tidied, WorkerStops, RowTypes, OtherTypes
<1>3. CASE x = l /\ FinishCut(x)
  BY <1>0, <1>3, ActiveIsIssued DEF FinishCut, Settle, Update, LeaseMoves, Ends,
     WorkerStops, Ended, RowTypes, OtherTypes
<1>4. CASE x = l /\ FinishRefused(x)
  <2>1. CASE refusal[l] = "busy"
    BY <1>0, <1>4, <2>1 DEF FinishRefused, Update, LeaseMoves, Parks, WorkerStops,
       RowTypes, OtherTypes
  <2>2. CASE refusal[l] = "failed"
    BY <1>0, <1>4, <2>2, ActiveIsIssued DEF FinishRefused, Update, LeaseMoves, Ends,
       WorkerStops, Ended, RowTypes, OtherTypes
  <2>3. CASE refusal[l] = "changed"
    BY <1>0, <1>4, <2>3 DEF FinishRefused, LeaseMoves, Works, SameRow, RowTypes,
       OtherTypes
  <2> QED BY <1>4, <2>1, <2>2, <2>3 DEF FinishRefused
<1>5. CASE x = l /\ FinishTurn(x)
  <2>1. /\ status' = [status EXCEPT ![l] = AfterTurn(generation[l][turn[l]])]
        /\ status[l] \in Active /\ current' = [current EXCEPT ![l] = 0]
        /\ turn[l] # 0 /\ current[l] = turn[l]
    BY <1>5 DEF FinishTurn, Settle, Update
  <2>2. CASE generation[l][turn[l]] = "completed"
    BY <1>0, <1>5, <2>1, <2>2 DEF FinishTurn, AfterTurn, LeaseMoves, Settles, RowTypes,
       OtherTypes
  <2>3. CASE generation[l][turn[l]] # "completed"
    <3>1. AfterTurn(generation[l][turn[l]]) \in Ended
      BY <2>3 DEF AfterTurn, Ended
    <3> QED
      BY <1>0, <1>5, <2>1, <3>1, ActiveIsIssued DEF FinishTurn, LeaseMoves, Ends,
         WorkerStops, RowTypes, OtherTypes
  <2> QED BY <2>2, <2>3
<1>6. CASE x = l /\ FinishLost(x)
  BY <1>0, <1>6 DEF FinishLost, LeaseMoves, Works, SameRow, RowTypes, OtherTypes
<1> QED BY <1>1, <1>2, <1>3, <1>4, <1>5, <1>6 DEF Finish

LEMMA BootSteps ==
  ASSUME InductiveInvariant, NEW l \in Lease, Boot
  PROVE  Resumes(l) \/ Restored(l)
<1> SameWorker(l) /\ SameSpent(l) /\ SameGrant(l) /\ process = "down"
  BY DEF Boot, workerVars, observers, SameWorker, SameSpent, SameGrant
<1>1. CASE Recover(Now, NotResumableIn(Now))
  <2>1. /\ turns'[l] = turns[l] /\ seen'[l] = seen[l]
        /\ \A n \in Turns :
             generation[l][n] = "completed" => generation'[l][n] = "completed"
    BY <1>1 DEF Recover, Now
  <2> QED
    BY <1>1, <2>1 DEF Recover, NotResumableIn, ActiveIn, Active, Now, Resumes
<1>2. ASSUME NEW rows \in backups, Recover(rows, ActiveIn(rows))
      PROVE  Restored(l)
  BY <1>2 DEF Recover, ActiveIn, Restored
<1> QED BY <1>1, <1>2 DEF Boot

\* Stops and starts of the process.
LEMMA ProcessSteps ==
  ASSUME InductiveInvariant, NEW l \in Lease,
         ScheduleRestore \/ FinishShutdown \/ Crash \/ Boot
  PROVE  LeaseMoves(l)
<1> USE DEF SameTurns, SameWorker, SameSpent, SameGrant, observers, rowVars
<1>0. RowTypes /\ OtherTypes
  BY Types DEF InductiveInvariant
<1>1. CASE ScheduleRestore
  <2>1. CASE Interrupt(ActiveLeases)
    BY <1>0, <1>1, <2>1, ActiveIsIssued DEF ScheduleRestore, Interrupt, ActiveLeases,
       LeaseMoves, Ends, Stays, SameRow, WorkerStops, Ended, workerVars
  <2>2. CASE UNCHANGED <<status, turns, current, seen, generation>>
    BY <1>1, <2>2 DEF ScheduleRestore, LeaseMoves, Stays, SameRow, workerVars
  <2> QED BY <1>1, <2>1, <2>2 DEF ScheduleRestore
<1>2. CASE FinishShutdown
  <2>1. CASE Interrupt(NotResumableIn(Now)) /\ l \in NotResumableIn(Now)
    <3>1. status[l] \in Active
      BY <2>1 DEF NotResumableIn, ActiveIn, Now
    <3> QED
      BY <1>0, <1>2, <2>1, <3>1, ActiveIsIssued DEF FinishShutdown, Forgotten, Interrupt,
         LeaseMoves, Ends, WorkerStops, Ended
  <2>2. CASE Interrupt(NotResumableIn(Now)) /\ l \notin NotResumableIn(Now)
    BY <1>0, <1>2, <2>2 DEF FinishShutdown, Forgotten, Interrupt, LeaseMoves, Forgets,
       SameRow
  <2>3. CASE UNCHANGED <<status, turns, current, seen, generation>>
    BY <1>2, <2>3 DEF FinishShutdown, Forgotten, LeaseMoves, Forgets, SameRow
  <2> QED BY <1>2, <2>1, <2>2, <2>3 DEF FinishShutdown
<1>3. CASE Crash
  BY <1>3 DEF Crash, Forgotten, LeaseMoves, Forgets, SameRow
<1>4. CASE Boot
  BY <1>4, BootSteps DEF LeaseMoves
<1> QED BY <1>1, <1>2, <1>3, <1>4

LEMMA EveryLeaseMoves ==
  ASSUME InductiveInvariant, [Next]_vars, NEW l \in Lease
  PROVE  LeaseMoves(l)
<1>1. CASE Coordinator
  BY <1>1, QuietSteps, ScanSteps DEF Coordinator, Scan, Judge, LeaseMoves
<1>2. CASE Person
  BY <1>2, QuietSteps, GrantAndStopSteps DEF Person, LeaseMoves
<1>3. CASE Process
  BY <1>3, QuietSteps, ProcessSteps DEF Process, LeaseMoves
<1>4. ASSUME NEW x \in Lease, Worker(x) PROVE LeaseMoves(l)
  BY <1>4, QuietSteps, WorkerSteps, FinishSteps DEF Worker, LeaseMoves
<1>5. CASE UNCHANGED vars
  BY <1>5, QuietSteps DEF LeaseMoves
<1> QED BY <1>1, <1>2, <1>3, <1>4, <1>5 DEF Next

-----------------------------------------------------------------------------
(* The inductive invariant, part by part.                                  *)

LEMMA FactsGoOn ==
  ASSUME InductiveInvariant, [Next]_vars
  PROVE  \A s \in Session : facts[s] <= facts'[s] /\ facts'[s] \in Nat
<1>0. RowTypes /\ OtherTypes
  BY Types DEF InductiveInvariant
<1>1. CASE \E s \in Session, to \in Observations : ChangeFacts(s, to)
  BY <1>0, <1>1 DEF ChangeFacts, OtherTypes
<1>2. CASE UNCHANGED facts
  BY <1>0, <1>2 DEF OtherTypes
<1>3. CASE Coordinator \/ Process
  BY <1>2, <1>3 DEF Coordinator, Process, Scan, Judge, ScanBegin, ScanEnd, ScanSkip,
     ScanOrphan, ScanVisit, JudgeExpired, JudgeStopped, JudgeComplete, JudgeExhausted,
     JudgeFails, JudgeWaits, JudgeEnded, JudgeReady, Launch, Verdict, NextRow,
     TakeBackup, ScheduleRestore, BeginShutdown, FinishShutdown, Crash, Boot, Forgotten,
     scanFrame, factVars
<1>4. ASSUME NEW l \in Lease, Worker(l) PROVE UNCHANGED facts
  BY <1>4 DEF Worker, Accept, RefuseBusy, RefuseChanged, RefuseFailed, Refuse,
     CallModel, WorkerTimeout, Finish, WorkerExit, ModelReturns, FinishEnded, FinishCut,
     FinishRefused, FinishTurn, FinishLost, Finishing, workerFrame, factVars
<1>5. CASE Person
  BY <1>1, <1>2, <1>5 DEF Person, CreateAIContinuation, ChangeProvider, Expire,
     StopRevoke, StopCommit, StopFail, StopSignal, StartChat, EndChat, factVars
<1>6. CASE UNCHANGED vars
  BY <1>2, <1>6 DEF vars, factVars
<1> QED BY <1>2, <1>3, <1>4, <1>5, <1>6 DEF Next

LEMMA UnrecordedGoesOn ==
  ASSUME InductiveInvariant, [Next]_vars PROVE unrecorded \subseteq unrecorded'
<1>1. CASE Coordinator \/ Process
  BY <1>1 DEF Coordinator, Process, Scan, Judge, ScanBegin, ScanEnd, ScanSkip,
     ScanOrphan, ScanVisit, JudgeExpired, JudgeStopped, JudgeComplete, JudgeExhausted,
     JudgeFails, JudgeWaits, JudgeEnded, JudgeReady, Launch, Verdict, NextRow,
     TakeBackup, ScheduleRestore, BeginShutdown, FinishShutdown, Crash, Boot, Forgotten,
     scanFrame, observers
<1>2. ASSUME NEW l \in Lease, Worker(l) PROVE unrecorded \subseteq unrecorded'
  BY <1>2 DEF Worker, Accept, RefuseBusy, RefuseChanged, RefuseFailed, Refuse,
     CallModel, WorkerTimeout, Finish, WorkerExit, ModelReturns, FinishEnded, FinishCut,
     FinishRefused, FinishTurn, FinishLost, Finishing, workerFrame
<1>3. CASE Person
  BY <1>3 DEF Person, CreateAIContinuation, ChangeFacts, ChangeProvider, Expire,
     StopRevoke, StopCommit, StopFail, StopSignal, StartChat, EndChat, observers
<1>4. CASE UNCHANGED vars
  BY <1>4 DEF vars, observers
<1> QED BY <1>1, <1>2, <1>3, <1>4 DEF Next

LEMMA OnlyBootRaises ==
  ASSUME InductiveInvariant, [Next]_vars, process = "down", ~Boot
  PROVE  process' = "down"
<1>1. CASE Coordinator
  BY <1>1 DEF Coordinator, Scan, Judge, ScanBegin, ScanEnd, ScanSkip,
     ScanOrphan, ScanVisit, JudgeExpired, JudgeStopped, JudgeComplete, JudgeExhausted,
     JudgeFails, JudgeWaits, JudgeEnded, JudgeReady, Launch, Verdict, NextRow,
     scanFrame, processVars
<1>2. ASSUME NEW l \in Lease, Worker(l) PROVE process' = "down"
  BY <1>2 DEF Worker, Accept, RefuseBusy, RefuseChanged, RefuseFailed, Refuse,
     CallModel, WorkerTimeout, Finish, WorkerExit, ModelReturns, FinishEnded, FinishCut,
     FinishRefused, FinishTurn, FinishLost, Finishing, workerFrame, processVars
<1>3. CASE Person
  BY <1>3 DEF Person, CreateAIContinuation, ChangeFacts, ChangeProvider, Expire,
     StopRevoke, StopCommit, StopFail, StopSignal, StartChat, EndChat, processVars
<1>4. CASE Process
  BY <1>4 DEF Process, TakeBackup, ScheduleRestore, BeginShutdown, FinishShutdown, Crash
<1>5. CASE UNCHANGED vars
  BY <1>5 DEF vars, processVars
<1> QED BY <1>1, <1>2, <1>3, <1>4, <1>5 DEF Next

LEMMA ActiveIsAccountedStep ==
  ASSUME InductiveInvariant, [Next]_vars PROVE ActiveIsAccounted'
<1>0. RowTypes /\ OtherTypes
  BY Types DEF InductiveInvariant
<1> SUFFICES ASSUME NEW l \in Lease, status'[l] \in Active
             PROVE  /\ turns'[l] = accepted'[l] /\ accepted'[l] <= seen'[l]
                    /\ seen'[l] <= facts'[SessionOf[l]]
  BY DEF ActiveIsAccounted, ActiveLeases
<1>1. /\ SessionOf[l] \in Session /\ facts[SessionOf[l]] \in Nat
      /\ facts[SessionOf[l]] <= facts'[SessionOf[l]] /\ facts'[SessionOf[l]] \in Nat
  BY <1>0, Limits, FactsGoOn DEF OtherTypes
<1>2. /\ turns[l] \in Nat /\ accepted[l] \in Nat /\ seen[l] \in Nat
  BY <1>0, Limits DEF RowTypes, OtherTypes
<1>3. status[l] \in Active => /\ turns[l] = accepted[l] /\ accepted[l] <= seen[l]
                              /\ seen[l] <= facts[SessionOf[l]]
  BY DEF InductiveInvariant, ActiveIsAccounted, ActiveLeases
<1>4. CASE Granted(l)
  <2>1. turns[l] = 0 /\ seen[l] = 0 /\ accepted[l] = 0
    BY <1>4 DEF Granted, InductiveInvariant, UngrantedIsUntouched, Untouched, Now
  <2> QED BY <1>1, <1>2, <1>4, <2>1 DEF Granted, SameTurns, SameSpent
<1>5. CASE Begins(l)
  BY <1>1, <1>2, <1>3, <1>5 DEF Begins, Active
<1>6. CASE \/ Stays(l) \/ Parks(l) \/ Asks(l) \/ Returns(l) \/ Settles(l) \/ Works(l)
           \/ Forgets(l)
  BY <1>1, <1>2, <1>3, <1>6 DEF Stays, Parks, Asks, Returns, Settles, Works, Forgets,
     SameRow, SameTurns, SameSpent
<1>7. CASE Resumes(l)
  BY <1>1, <1>2, <1>3, <1>7 DEF Resumes, SameSpent, Active
<1>8. ~Ends(l) /\ ~Tidied(l) /\ ~Restored(l)
  BY DEF Ends, Tidied, Restored, Active, Ended
<1> QED BY <1>4, <1>5, <1>6, <1>7, <1>8, EveryLeaseMoves DEF LeaseMoves

LEMMA CallsAreBegunStep ==
  ASSUME InductiveInvariant, [Next]_vars PROVE CallsAreBegun'
<1>0. RowTypes /\ OtherTypes
  BY Types DEF InductiveInvariant
<1> SUFFICES ASSUME NEW l \in Lease
             PROVE  /\ calls'[l] <= accepted'[l]
                    /\ accepted'[l] <= facts'[SessionOf[l]]
                    /\ pc'[l] = "accepted" => calls'[l] < accepted'[l]
  BY DEF CallsAreBegun
<1>1. /\ facts[SessionOf[l]] \in Nat /\ accepted[l] \in Nat /\ calls[l] \in Nat
      /\ facts[SessionOf[l]] <= facts'[SessionOf[l]] /\ facts'[SessionOf[l]] \in Nat
  BY <1>0, Limits, FactsGoOn DEF OtherTypes
<1>2. /\ calls[l] <= accepted[l] /\ accepted[l] <= facts[SessionOf[l]]
      /\ pc[l] = "accepted" => calls[l] < accepted[l]
  BY DEF InductiveInvariant, CallsAreBegun
<1>3. CASE Begins(l)
  <2>1. accepted[l] <= seen[l] /\ seen[l] <= facts[SessionOf[l]] /\ seen[l] \in Nat
    BY <1>0, <1>3 DEF Begins, InductiveInvariant, ActiveIsAccounted, ActiveLeases,
       Active, RowTypes
  <2> QED BY <1>1, <1>2, <1>3, <2>1 DEF Begins
<1>4. CASE Asks(l)
  BY <1>1, <1>2, <1>4 DEF Asks
<1>5. CASE \/ Stays(l) \/ Granted(l) \/ Ends(l) \/ Tidied(l) \/ Parks(l) \/ Returns(l)
           \/ Settles(l) \/ Works(l) \/ Forgets(l) \/ Resumes(l) \/ Restored(l)
  <2>1. SameSpent(l) /\ (pc'[l] = "accepted" => pc[l] = "accepted")
    BY <1>5 DEF Stays, Granted, Ends, Tidied, Parks, Returns, Settles, Works, Forgets,
       Resumes, Restored, SameWorker, WorkerStops
  <2> QED BY <1>1, <1>2, <2>1 DEF SameSpent
<1> QED BY <1>3, <1>4, <1>5, EveryLeaseMoves DEF LeaseMoves

LEMMA WorkersOwnTurnsStep ==
  ASSUME InductiveInvariant, [Next]_vars PROVE WorkersOwnTurns'
<1>0. RowTypes /\ OtherTypes
  BY Types DEF InductiveInvariant
<1> SUFFICES ASSUME NEW l \in Lease
             PROVE  /\ pc'[l] = "launched" => turn'[l] = 0
                    /\ Executing(l)' => turn'[l] # 0
                    /\ Owner(l)' => status'[l] # "waiting" \/ l \in unrecorded'
  BY DEF WorkersOwnTurns
<1>1. /\ pc[l] = "launched" => turn[l] = 0
      /\ Executing(l) => turn[l] # 0
      /\ Owner(l) => status[l] # "waiting" \/ l \in unrecorded
      /\ l \in unrecorded => l \in unrecorded'
  BY UnrecordedGoesOn DEF InductiveInvariant, WorkersOwnTurns
<1> USE DEF Executing, Owner
<1>2. CASE Begins(l)
  BY <1>0, <1>2, Limits DEF Begins, RowTypes
<1>3. CASE Granted(l)
  BY <1>1, <1>3 DEF Granted, SameWorker, InductiveInvariant, UngrantedIsUntouched
<1>4. CASE Stays(l) \/ Asks(l) \/ Returns(l) \/ Works(l) \/ Forgets(l)
  BY <1>1, <1>4 DEF Stays, Asks, Returns, Works, Forgets, SameRow, SameWorker
<1>5. CASE Ends(l) \/ Tidied(l) \/ Settles(l)
  BY <1>1, <1>5 DEF Ends, Tidied, Settles, WorkerStops, SameWorker, Active, Ended
<1>6. CASE Parks(l)
  BY <1>1, <1>6 DEF Parks, WorkerStops, SameWorker
<1>7. CASE Resumes(l) \/ Restored(l)
  BY <1>1, <1>7 DEF Resumes, Restored, SameWorker, Active
<1> QED BY <1>2, <1>3, <1>4, <1>5, <1>6, <1>7, EveryLeaseMoves DEF LeaseMoves

LEMMA RunningIsOwnedStep ==
  ASSUME InductiveInvariant, [Next]_vars PROVE RunningIsOwned'
<1>0. RowTypes /\ OtherTypes
  BY Types DEF InductiveInvariant
<1> SUFFICES
      ASSUME NEW l \in Lease, status'[l] = "running"
      PROVE  \/ l \in unrecorded'
             \/ process' = "down"
             \/ /\ Owner(l)' /\ turn'[l] = turns'[l] /\ current'[l] = turns'[l]
                /\ \A n \in 1..turns'[l] :
                     n # turns'[l] => generation'[l][n] = "completed"
  BY DEF RunningIsOwned
<1>1. ~Resumes(l) /\ ~Restored(l)
  BY DEF Resumes, Restored, Active
<1>2. process = "down" => process' = "down"
  BY <1>1, OnlyBootRaises, BootSteps
<1>3. /\ l \in unrecorded => l \in unrecorded'
      /\ 1..turns[l] \subseteq Turns
  BY <1>0, UnrecordedGoesOn, Limits DEF RowTypes, Turns
<1>4. status[l] = "running" =>
        \/ l \in unrecorded
        \/ process = "down"
        \/ /\ Owner(l) /\ turn[l] = turns[l] /\ current[l] = turns[l]
           /\ \A n \in 1..turns[l] : n # turns[l] => generation[l][n] = "completed"
  BY DEF InductiveInvariant, RunningIsOwned
<1>5. CASE Stays(l) \/ Asks(l)
  BY <1>2, <1>3, <1>4, <1>5 DEF Stays, Asks, SameRow, SameTurns, SameWorker, Owner
<1>6. CASE Begins(l)
  <2>1. \/ l \in unrecorded
        \/ \A n \in 1..turns[l] : generation[l][n] = "completed"
    BY <1>6 DEF Begins, InductiveInvariant, WaitingIsSettled
  <2>2. turns[l] \in Nat /\ turns'[l] = turns[l] + 1 /\ turns'[l] # 0
    BY <1>0, <1>6, Limits DEF Begins, RowTypes
  <2>3. Owner(l)' /\ turn'[l] = turns'[l] /\ current'[l] = turns'[l]
    BY <1>6, <2>2 DEF Begins, Owner
  <2>4. ASSUME l \notin unrecorded, NEW n \in 1..turns'[l], n # turns'[l]
        PROVE  generation'[l][n] = "completed"
    <3>1. n \in 1..turns[l]
      BY <2>2, <2>4
    <3> QED BY <1>3, <1>6, <2>1, <2>4, <3>1 DEF Begins
  <2> QED BY <1>3, <2>3, <2>4
<1>7. CASE Returns(l)
  BY <1>2, <1>3, <1>4, <1>7 DEF Returns, Owner
<1>8. CASE Works(l)
  BY <1>2, <1>3, <1>4, <1>8 DEF Works, SameRow, Owner
<1>9. CASE Forgets(l)
  BY <1>9 DEF Forgets
<1>10. ~Granted(l) /\ ~Ends(l) /\ ~Tidied(l) /\ ~Parks(l) /\ ~Settles(l)
  BY DEF Granted, Ends, Tidied, Parks, Settles, Active, Ended
<1> QED
  BY <1>1, <1>5, <1>6, <1>7, <1>8, <1>9, <1>10, EveryLeaseMoves DEF LeaseMoves

LEMMA WaitingIsSettledStep ==
  ASSUME InductiveInvariant, [Next]_vars PROVE WaitingIsSettled'
<1>0. RowTypes /\ OtherTypes
  BY Types DEF InductiveInvariant
<1> SUFFICES
      ASSUME NEW l \in Lease, status'[l] = "waiting"
      PROVE  \/ l \in unrecorded'
             \/ /\ current'[l] = 0
                /\ \A n \in 1..turns'[l] : generation'[l][n] = "completed"
  BY DEF WaitingIsSettled
<1>1. /\ l \in unrecorded => l \in unrecorded'
      /\ 1..turns[l] \subseteq Turns /\ turns[l] \in Nat
  BY <1>0, UnrecordedGoesOn, Limits DEF RowTypes, Turns
<1>2. status[l] = "waiting" =>
        \/ l \in unrecorded
        \/ /\ current[l] = 0
           /\ \A n \in 1..turns[l] : generation[l][n] = "completed"
  BY DEF InductiveInvariant, WaitingIsSettled
<1>3. status[l] = "running" /\ pc[l] # "none" =>
        \/ l \in unrecorded
        \/ /\ Owner(l) /\ turn[l] = turns[l]
           /\ \A n \in 1..turns[l] : n # turns[l] => generation[l][n] = "completed"
  BY DEF InductiveInvariant, RunningIsOwned, ScanIsAlone
<1>4. status[l] = "running" /\ pc[l] = "none" =>
        l \in unrecorded \/ process = "down"
  BY DEF InductiveInvariant, RunningIsOwned, Owner
<1>5. CASE Stays(l) \/ Asks(l) \/ Works(l) \/ Forgets(l)
  BY <1>1, <1>2, <1>5 DEF Stays, Asks, Works, Forgets, SameRow, SameTurns
<1>6. CASE Granted(l)
  <2>1. turns[l] = 0 /\ current[l] = 0
    BY <1>6 DEF Granted, InductiveInvariant, UngrantedIsUntouched, Untouched, Now
  <2> QED BY <1>6, <2>1 DEF Granted, SameTurns
<1>7. CASE Parks(l)
  <2>1. CASE status[l] = "waiting"
    BY <1>1, <1>2, <1>7, <2>1 DEF Parks, SameTurns
  <2>2. CASE status[l] = "running"
    BY <1>1, <1>3, <1>4, <1>7, <2>2 DEF Parks, Owner
  <2> QED BY <1>7, <2>1, <2>2 DEF Parks, Active
<1>8. CASE Returns(l)
  BY <1>1, <1>8 DEF Returns, Executing, InductiveInvariant, WorkersOwnTurns, Owner
<1>9. CASE Settles(l)
  <2>1. CASE status[l] = "waiting"
    BY <1>1, <1>2, <1>9, <2>1 DEF Settles
  <2>2. CASE status[l] = "running"
    BY <1>1, <1>3, <1>9, <2>2 DEF Settles, SameTurns
  <2> QED BY <1>9, <2>1, <2>2 DEF Settles, Active
<1>10. CASE Resumes(l)
  BY <1>1, <1>2, <1>10 DEF Resumes
<1>11. ~Ends(l) /\ ~Tidied(l) /\ ~Begins(l) /\ ~Restored(l)
  BY DEF Ends, Tidied, Begins, Restored, Active, Ended
<1> QED
  BY <1>5, <1>6, <1>7, <1>8, <1>9, <1>10, <1>11, EveryLeaseMoves DEF LeaseMoves

\* What can be new after a step, and by which action it came about.
LEMMA Origins ==
  ASSUME InductiveInvariant, [Next]_vars, NEW l \in Lease
  PROVE  /\ stopPc'[l] = "committed" => stopPc[l] = "committed" \/ StopCommit(l)
         /\ l \in answered' => l \in answered \/ StopSignal(l)
         /\ l \in signalled => l \in signalled' \/ ~Executing(l)'
         /\ Executing(l)' => Executing(l) \/ Accept(l)
         /\ l \in issued' => l \in issued \/ CreateAIContinuation(l)
         /\ l \in scanRows' => l \in scanRows \/ l \in ActiveLeases
         /\ backups' \subseteq backups \cup {Now}
         /\ \A c \in chats' : c \in chats \/ StartChat(c[1], c[2])
<1>0. RowTypes /\ OtherTypes
  BY Types DEF InductiveInvariant
<1> USE DEF Executing
<1>1. CASE Coordinator
  <2>1. UNCHANGED <<stopPc, answered, issued, backups, chats>>
    BY <1>1 DEF Coordinator, Scan, Judge, ScanBegin, ScanEnd, ScanSkip,
       ScanOrphan, ScanVisit, JudgeExpired, JudgeStopped, JudgeComplete, JudgeExhausted,
       JudgeFails, JudgeWaits, JudgeEnded, JudgeReady, Launch, Verdict, NextRow,
       scanFrame, processVars, observers
  <2>2. l \in scanRows' => l \in scanRows \/ l \in ActiveLeases
    BY <1>1 DEF Coordinator, Scan, Judge, ScanBegin, ScanEnd, ScanSkip,
       ScanOrphan, ScanVisit, JudgeExpired, JudgeStopped, JudgeComplete, JudgeExhausted,
       JudgeFails, JudgeWaits, JudgeEnded, JudgeReady, Launch, Verdict, NextRow
  <2>3. \/ UNCHANGED <<pc, signalled>>
        \/ \E x \in Lease : /\ pc' = [pc EXCEPT ![x] = "launched"]
                            /\ signalled' = signalled \ {x}
    BY <1>1 DEF Coordinator, Scan, Judge, ScanBegin, ScanEnd, ScanSkip,
       ScanOrphan, ScanVisit, JudgeExpired, JudgeStopped, JudgeComplete, JudgeExhausted,
       JudgeFails, JudgeWaits, JudgeEnded, JudgeReady, Launch, Verdict, NextRow,
       workerVars
  <2>4. /\ l \in signalled => l \in signalled' \/ ~Executing(l)'
        /\ Executing(l)' => Executing(l)
    BY <1>0, <2>1, <2>3 DEF OtherTypes
  <2> QED BY <2>1, <2>2, <2>4
<1>2. ASSUME NEW x \in Lease, Worker(x)
      PROVE  /\ UNCHANGED <<stopPc, answered, issued, backups, chats, scanRows>>
             /\ l \in signalled => l \in signalled' \/ ~Executing(l)'
             /\ Executing(l)' => Executing(l) \/ Accept(l)
  <2>1. UNCHANGED <<stopPc, answered, issued, backups, chats, scanRows>>
    BY <1>2 DEF Worker, Accept, RefuseBusy, RefuseChanged, RefuseFailed, Refuse,
       CallModel, WorkerTimeout, Finish, WorkerExit, ModelReturns, FinishEnded, FinishCut,
       FinishRefused, FinishTurn, FinishLost, Finishing, workerFrame, processVars
  <2>2. CASE Accept(x)
    BY <1>0, <2>1, <2>2 DEF Accept, OtherTypes
  <2>3. CASE WorkerExit(x)
    BY <1>0, <2>1, <2>3 DEF WorkerExit, OtherTypes
  <2>4. CASE CallModel(x) \/ WorkerTimeout(x)
    BY <1>0, <2>1, <2>4 DEF CallModel, WorkerTimeout, OtherTypes, workerVars
  <2>5. CASE RefuseBusy(x) \/ RefuseChanged(x) \/ RefuseFailed(x)
    BY <1>0, <2>1, <2>5 DEF RefuseBusy, RefuseChanged, RefuseFailed, Refuse, OtherTypes
  <2>6. CASE \E how \in {"completed", "failed", "cancelled"} : ModelReturns(x, how)
    BY <1>0, <2>1, <2>6 DEF ModelReturns, OtherTypes
  <2>7. CASE Finish(x)
    BY <1>0, <2>1, <2>7 DEF Finish, FinishEnded, FinishCut, FinishRefused, FinishTurn,
       FinishLost, Finishing, OtherTypes
  <2> QED BY <1>2, <2>1, <2>2, <2>3, <2>4, <2>5, <2>6, <2>7 DEF Worker
<1>3. CASE Person
  <2>1. UNCHANGED <<pc, scanRows, backups>> /\ signalled \subseteq signalled'
    BY <1>3 DEF Person, CreateAIContinuation, ChangeFacts, ChangeProvider, Expire,
       StopRevoke, StopCommit, StopFail, StopSignal, StartChat, EndChat, workerVars,
       processVars, scanVars
  <2>2. stopPc'[l] = "committed" => stopPc[l] = "committed" \/ StopCommit(l)
    <3>1. ASSUME NEW x \in Lease, StopRevoke(x) \/ StopFail(x) \/ StopSignal(x)
          PROVE  stopPc'[l] = "committed" => stopPc[l] = "committed"
      BY <1>0, <3>1 DEF StopRevoke, StopFail, StopSignal, OtherTypes
    <3>2. ASSUME NEW x \in Lease, StopCommit(x)
          PROVE  stopPc'[l] = "committed" => stopPc[l] = "committed" \/ StopCommit(l)
      BY <1>0, <3>2 DEF StopCommit, OtherTypes
    <3>3. \/ UNCHANGED stopPc
          \/ \E x \in Lease :
               StopRevoke(x) \/ StopFail(x) \/ StopSignal(x) \/ StopCommit(x)
      BY <1>3 DEF Person, CreateAIContinuation, ChangeFacts, ChangeProvider, Expire,
         StartChat, EndChat
    <3> QED BY <3>1, <3>2, <3>3
  <2>3. l \in answered' => l \in answered \/ StopSignal(l)
    BY <1>3 DEF Person, CreateAIContinuation, ChangeFacts, ChangeProvider, Expire,
       StopRevoke, StopCommit, StopFail, StopSignal, StartChat, EndChat, observers
  <2>4. l \in issued' => l \in issued \/ CreateAIContinuation(l)
    <3>1. \/ UNCHANGED issued
          \/ \E x \in Lease : CreateAIContinuation(x)
      BY <1>3 DEF Person, ChangeFacts, ChangeProvider, Expire,
         StopRevoke, StopCommit, StopFail, StopSignal, StartChat, EndChat, observers
    <3>2. ASSUME NEW x \in Lease, CreateAIContinuation(x)
          PROVE  issued' = issued \cup {x}
      BY <3>2 DEF CreateAIContinuation
    <3> QED BY <3>1, <3>2
  <2>5. \A c \in chats' : c \in chats \/ StartChat(c[1], c[2])
    <3>1. \/ chats' \subseteq chats
          \/ \E s \in Session, q \in Provider : StartChat(s, q)
      BY <1>3 DEF Person, CreateAIContinuation, ChangeFacts, ChangeProvider, Expire,
         StopRevoke, StopCommit, StopFail, StopSignal, EndChat
    <3>2. ASSUME NEW s \in Session, NEW q \in Provider, StartChat(s, q)
          PROVE  \A c \in chats' : c \in chats \/ StartChat(c[1], c[2])
      <4>1. chats' = chats \cup {<<s, q>>}
        BY <3>2 DEF StartChat
      <4>2. ASSUME NEW c, c = <<s, q>> PROVE StartChat(c[1], c[2])
        BY <3>2, <4>2
      <4> QED BY <4>1, <4>2
    <3> QED BY <3>1, <3>2
  <2> QED BY <2>1, <2>2, <2>3, <2>4, <2>5
<1>4. CASE Process
  <2>1. CASE Crash \/ FinishShutdown
    BY <2>1 DEF Crash, FinishShutdown, Forgotten, observers
  <2>2. CASE TakeBackup \/ ScheduleRestore \/ BeginShutdown \/ Boot
    BY <2>2 DEF TakeBackup, ScheduleRestore, BeginShutdown, Boot, observers, workerVars,
       scanVars
  <2> QED BY <1>4, <2>1, <2>2 DEF Process
<1>5. CASE UNCHANGED vars
  BY <1>5 DEF vars, observers, workerVars, scanVars, processVars
<1> QED BY <1>1, <1>2, <1>3, <1>4, <1>5 DEF Next

LEMMA UngrantedIsUntouchedStep ==
  ASSUME InductiveInvariant, [Next]_vars PROVE UngrantedIsUntouched'
<1> SUFFICES
      ASSUME NEW l \in Lease, l \notin issued'
      PROVE  /\ Untouched(Now, l)' /\ \A rows \in backups' : Untouched(rows, l)
             /\ accepted'[l] = 0 /\ turn'[l] = 0 /\ l \notin scanRows'
  BY DEF UngrantedIsUntouched, Untouched
<1>1. l \notin issued /\ ~Granted(l)
  BY EveryLeaseMoves DEF LeaseMoves, Stays, Granted, Ends, Tidied, Parks, Begins, Asks,
     Returns, Settles, Works, Forgets, Resumes, Restored, SameGrant
<1>2. /\ status[l] = "none" /\ turns[l] = 0 /\ current[l] = 0 /\ seen[l] = 0
      /\ \A rows \in backups : Untouched(rows, l)
      /\ accepted[l] = 0 /\ turn[l] = 0 /\ l \notin scanRows
  BY <1>1 DEF InductiveInvariant, UngrantedIsUntouched, Untouched, Now
<1>3. ~Ends(l) /\ ~Parks(l) /\ ~Begins(l) /\ ~Asks(l) /\ ~Returns(l) /\ ~Settles(l)
  BY <1>1, <1>2 DEF Ends, Parks, Begins, Asks, Returns, Settles, Active, Executing,
     InductiveInvariant, WorkersOwnTurns
<1>4. /\ status'[l] = "none" /\ turns'[l] = 0 /\ current'[l] = 0 /\ seen'[l] = 0
      /\ accepted'[l] = 0 /\ turn'[l] = 0
  <2>1. CASE Stays(l) \/ Tidied(l) \/ Works(l) \/ Forgets(l)
    BY <1>2, <2>1 DEF Stays, Tidied, Works, Forgets, SameRow, SameTurns, SameSpent,
       SameWorker, WorkerStops
  <2>2. CASE Resumes(l)
    BY <1>2, <2>2 DEF Resumes, SameSpent, SameWorker, Active
  <2>3. CASE Restored(l)
    BY <1>2, <2>3 DEF Restored, Untouched, SameSpent, SameWorker, Active
  <2> QED BY <1>1, <1>3, <2>1, <2>2, <2>3, EveryLeaseMoves DEF LeaseMoves
<1>5. \A rows \in backups' : Untouched(rows, l)
  BY <1>2, Origins DEF Untouched, Now
<1>6. l \notin scanRows'
  BY <1>2, Origins DEF ActiveLeases, Active
<1> QED BY <1>4, <1>5, <1>6 DEF Untouched, Now

LEMMA ScanIsAloneStep ==
  ASSUME InductiveInvariant, [Next]_vars PROVE ScanIsAlone'
<1>0. RowTypes /\ OtherTypes
  BY Types DEF InductiveInvariant
<1>a. /\ process = "down" => scan = "idle" /\ \A l \in Lease : pc[l] = "none"
      /\ scan \in {"judge", "launch"} =>
           scanAt \in Lease /\ scanAt \in scanRows /\ pc[scanAt] = "none"
  BY DEF InductiveInvariant, ScanIsAlone
<1>1. CASE Coordinator
  <2>1. process # "down" /\ process' = process
    BY <1>1, <1>a DEF Coordinator, Scan, Judge, ScanBegin, ScanEnd, ScanSkip,
       ScanOrphan, ScanVisit, JudgeExpired, JudgeStopped, JudgeComplete, JudgeExhausted,
       JudgeFails, JudgeWaits, JudgeEnded, JudgeReady, Judging, Launch, Verdict, NextRow,
       scanFrame, processVars
  <2>2. ASSUME NEW x \in Lease, ScanVisit(x) \/ JudgeReady(x)
        PROVE  scanAt' \in Lease /\ scanAt' \in scanRows' /\ pc'[scanAt'] = "none"
    BY <1>a, <2>2 DEF ScanVisit, JudgeReady, Judging, workerVars
  <2>3. \/ scan' \in {"idle", "list"}
        \/ \E x \in Lease : ScanVisit(x) \/ JudgeReady(x)
    BY <1>1 DEF Coordinator, Scan, Judge, ScanBegin, ScanEnd, ScanSkip,
       ScanOrphan, JudgeExpired, JudgeStopped, JudgeComplete, JudgeExhausted,
       JudgeFails, JudgeWaits, JudgeEnded, Launch, Verdict, NextRow
  <2> QED BY <2>1, <2>2, <2>3 DEF ScanIsAlone
<1>2. ASSUME NEW x \in Lease, Worker(x) PROVE ScanIsAlone'
  <2>1. UNCHANGED <<process, scan, scanRows, scanAt>> /\ pc[x] # "none"
    BY <1>2 DEF Worker, Accept, RefuseBusy, RefuseChanged, RefuseFailed, Refuse,
       CallModel, WorkerTimeout, Finish, WorkerExit, ModelReturns, Executing, FinishEnded,
       FinishCut, FinishRefused, FinishTurn, FinishLost, Finishing, workerFrame,
       processVars
  <2>2. pc' = pc \/ \E to : pc' = [pc EXCEPT ![x] = to]
    BY <1>2 DEF Worker, Accept, RefuseBusy, RefuseChanged, RefuseFailed, Refuse,
       CallModel, WorkerTimeout, Finish, WorkerExit, ModelReturns, FinishEnded,
       FinishCut, FinishRefused, FinishTurn, FinishLost, Finishing, workerVars
  <2> QED BY <1>0, <1>a, <2>1, <2>2 DEF ScanIsAlone, OtherTypes
<1>3. CASE Person \/ UNCHANGED vars
  <2>1. UNCHANGED <<process, scan, scanRows, scanAt, pc>>
    BY <1>3 DEF Person, CreateAIContinuation, ChangeFacts, ChangeProvider, Expire,
       StopRevoke, StopCommit, StopFail, StopSignal, StartChat, EndChat, vars,
       workerVars, processVars, scanVars
  <2> QED BY <1>a, <2>1 DEF ScanIsAlone
<1>4. CASE Process
  <2>1. CASE Crash \/ FinishShutdown
    BY <2>1 DEF Crash, FinishShutdown, Forgotten, ScanIsAlone
  <2>2. CASE TakeBackup \/ ScheduleRestore \/ BeginShutdown \/ Boot
    BY <1>a, <2>2 DEF TakeBackup, ScheduleRestore, BeginShutdown, Boot, workerVars,
       scanVars, ScanIsAlone
  <2> QED BY <1>4, <2>1, <2>2 DEF Process
<1> QED BY <1>1, <1>2, <1>3, <1>4 DEF Next

\* An ended lease stays ended, and nobody begins a turn for it.
LEMMA EndedMoves ==
  ASSUME InductiveInvariant, [Next]_vars, NEW l \in Lease, l \in issued,
         status[l] \notin Active
  PROVE  /\ status'[l] \notin Active /\ l \in issued'
         /\ ~Begins(l) /\ ~Granted(l)
<1>1. ~Begins(l) /\ ~Granted(l) /\ ~Parks(l) /\ ~Settles(l)
  BY DEF Begins, Granted, Parks, Settles, Active
<1>2. CASE Stays(l) \/ Asks(l) \/ Returns(l) \/ Works(l) \/ Forgets(l) \/ Tidied(l)
  BY <1>1, <1>2 DEF Stays, Asks, Returns, Works, Forgets, Tidied, SameRow, SameGrant
<1>3. CASE Ends(l) \/ Resumes(l) \/ Restored(l)
  BY <1>1, <1>3 DEF Ends, Resumes, Restored, SameGrant, Active, Ended
<1> QED BY <1>1, <1>2, <1>3, EveryLeaseMoves DEF LeaseMoves

LEMMA StopsAreKeptStep ==
  ASSUME InductiveInvariant, [Next]_vars PROVE StopsAreKept'
<1> SUFFICES
      ASSUME NEW l \in Lease
      PROVE  /\ stopPc'[l] = "committed" => status'[l] \notin Active /\ l \in issued'
             /\ l \in answered' =>
                  /\ status'[l] \notin Active /\ l \in issued'
                  /\ Executing(l)' => l \in signalled'
  BY DEF StopsAreKept
<1>0. RowTypes /\ OtherTypes
  BY Types DEF InductiveInvariant
<1>1. /\ stopPc[l] = "committed" => status[l] \notin Active /\ l \in issued
      /\ l \in answered =>
           /\ status[l] \notin Active /\ l \in issued
           /\ Executing(l) => l \in signalled
  BY DEF InductiveInvariant, StopsAreKept
<1>2. CASE StopCommit(l)
  <2>1. l \in issued /\ issued' = issued /\ UNCHANGED <<answered, pc, signalled>>
    BY <1>2 DEF StopCommit, InductiveInvariant, UngrantedIsUntouched, Untouched, Now,
       workerVars, observers
  <2>2. status'[l] \notin Active
    BY <1>0, <1>2 DEF StopCommit, Update, RowTypes, Active
  <2> QED BY <1>1, <2>1, <2>2 DEF Executing
<1>3. ASSUME ~StopCommit(l), stopPc'[l] = "committed"
      PROVE  status'[l] \notin Active /\ l \in issued'
  BY <1>1, <1>3, Origins, EndedMoves
<1>4. CASE StopSignal(l)
  <2>1. /\ stopPc[l] = "committed" /\ UNCHANGED <<pc, status, issued>>
        /\ signalled' = signalled \cup ({l} \cap Workers)
    BY <1>4 DEF StopSignal, rowVars, workerVars
  <2>2. Executing(l)' => l \in signalled'
    BY <2>1 DEF Executing, Workers
  <2>3. stopPc'[l] = "idle"
    BY <1>0, <1>4 DEF StopSignal, OtherTypes
  <2> QED BY <1>1, <2>1, <2>2, <2>3
<1>5. CASE ~StopCommit(l) /\ ~StopSignal(l) /\ l \in answered'
  <2>1. l \in answered
    BY <1>5, Origins
  <2>2. status'[l] \notin Active /\ l \in issued'
    BY <1>1, <2>1, EndedMoves
  <2>3. Executing(l)' => Executing(l)
    <3>1. ~Accept(l)
      BY <1>1, <2>1 DEF Accept, Acceptable, Active
    <3> QED BY <3>1, Origins
  <2> QED BY <1>1, <1>3, <2>1, <2>2, <2>3, Origins
<1> QED BY <1>2, <1>3, <1>4, <1>5

LEMMA ChatsYieldStep ==
  ASSUME InductiveInvariant, [Next]_vars PROVE ChatsYield'
<1>0. RowTypes /\ OtherTypes
  BY Types DEF InductiveInvariant
<1>a. ASSUME NEW l \in Lease, Executing(l)
      PROVE  /\ \A c \in chats : c[1] # SessionOf[l] /\ c[2] # ProviderOf[l]
             /\ \A k \in Lease \ {l} : Executing(k) =>
                  SessionOf[k] # SessionOf[l] /\ ProviderOf[k] # ProviderOf[l]
             /\ <<SessionOf[l], ProviderOf[l]>> \in Registered
  BY <1>a DEF InductiveInvariant, ChatsYield, Registered
<1>b. ASSUME NEW l \in Lease, status[l] \in Active
      PROVE  /\ \A c \in chats : c[1] # SessionOf[l]
             /\ \A k \in Lease \ {l} : status[k] \in Active => SessionOf[k] # SessionOf[l]
  BY <1>b DEF InductiveInvariant, ChatsYield, ActiveLeases
<1>1. ASSUME NEW l \in Lease, Executing(l)', NEW c \in chats'
      PROVE  c[1] # SessionOf[l] /\ c[2] # ProviderOf[l]
  <2>1. CASE Accept(l)
    <3>1. chats' = chats /\ ~Busy(SessionOf[l], ProviderOf[l])
      BY <2>1 DEF Accept, workerFrame
    <3> QED BY <1>1, <3>1 DEF Busy, Registered
  <2>2. CASE StartChat(c[1], c[2])
    <3>1. pc' = pc /\ ~Busy(c[1], c[2])
      BY <2>2 DEF StartChat, workerVars
    <3>2. Executing(l)
      BY <1>1, <3>1 DEF Executing
    <3>3. /\ <<SessionOf[l], ProviderOf[l]>>[1] = SessionOf[l]
          /\ <<SessionOf[l], ProviderOf[l]>>[2] = ProviderOf[l]
      OBVIOUS
    <3> QED BY <1>a, <3>1, <3>2, <3>3 DEF Busy
  <2>3. CASE Executing(l) /\ c \in chats
    BY <1>a, <2>3
  <2> QED BY <1>1, <2>1, <2>2, <2>3, Origins
<1>2. ASSUME NEW l \in Lease, NEW k \in Lease, Executing(l)', Accept(k), l # k
      PROVE  SessionOf[k] # SessionOf[l] /\ ProviderOf[k] # ProviderOf[l]
  <2>1. Executing(l)
    BY <1>0, <1>2 DEF Accept, Executing, OtherTypes
  <2>2. ~Busy(SessionOf[k], ProviderOf[k])
    BY <1>2 DEF Accept
  <2>3. /\ <<SessionOf[l], ProviderOf[l]>>[1] = SessionOf[l]
        /\ <<SessionOf[l], ProviderOf[l]>>[2] = ProviderOf[l]
    OBVIOUS
  <2> QED BY <1>a, <2>1, <2>2, <2>3 DEF Busy
<1>3. ASSUME NEW l \in Lease, NEW k \in Lease \ {l}, Executing(l)', Executing(k)'
      PROVE  SessionOf[k] # SessionOf[l] /\ ProviderOf[k] # ProviderOf[l]
  <2>1. CASE Executing(l) /\ Executing(k)
    BY <1>a, <2>1
  <2> QED BY <1>2, <1>3, <2>1, Origins
<1>4. ASSUME NEW l \in Lease, status'[l] \in Active
      PROVE  status[l] \in Active \/ CreateAIContinuation(l)
  <2>1. CASE l \in issued /\ status[l] \notin Active
    BY <1>4, <2>1, EndedMoves
  <2>2. CASE l \notin issued /\ l \in issued'
    BY <2>2, Origins
  <2>3. CASE l \notin issued'
    BY <1>4, <2>3, UngrantedIsUntouchedStep DEF UngrantedIsUntouched, Untouched, Now,
       Active
  <2> QED BY <2>1, <2>2, <2>3
<1>5. ASSUME NEW l \in Lease, CreateAIContinuation(l)
      PROVE  /\ \A c \in chats' : c[1] # SessionOf[l]
             /\ \A k \in Lease \ {l} :
                  status'[k] \in Active => SessionOf[k] # SessionOf[l]
  <2>1. /\ chats' = chats /\ status' = [status EXCEPT ![l] = "waiting"]
        /\ ActiveLeases \cap LeasesOf(SessionOf[l]) = {}
        /\ Observed(SessionOf[l]) \in {"ready", "blocked"}
    BY <1>5 DEF CreateAIContinuation, Update
  <2>2. ~Streaming(SessionOf[l])
    BY <2>1 DEF Observed
  <2> QED BY <1>0, <2>1, <2>2 DEF Streaming, ActiveLeases, LeasesOf, RowTypes
<1>6. ASSUME NEW l \in Lease, status'[l] \in Active, NEW c \in chats'
      PROVE  c[1] # SessionOf[l]
  <2>1. CASE CreateAIContinuation(l)
    BY <1>5, <2>1
  <2>2. CASE StartChat(c[1], c[2])
    <3>1. status' = status /\ ActiveLeases \cap LeasesOf(c[1]) = {}
      BY <2>2 DEF StartChat, rowVars
    <3> QED BY <1>6, <3>1 DEF ActiveLeases, LeasesOf
  <2>3. CASE status[l] \in Active /\ c \in chats
    BY <1>b, <2>3
  <2> QED BY <1>4, <1>6, <2>1, <2>2, <2>3, Origins
<1>7. ASSUME NEW l \in Lease, NEW k \in Lease \ {l}, status'[l] \in Active,
             status'[k] \in Active
      PROVE  SessionOf[k] # SessionOf[l]
  <2>1. CASE status[l] \in Active /\ status[k] \in Active
    BY <1>b, <2>1
  <2>2. CASE CreateAIContinuation(l)
    BY <1>5, <1>7, <2>2
  <2>3. CASE CreateAIContinuation(k)
    BY <1>5, <1>7, <2>3
  <2> QED BY <1>4, <1>7, <2>1, <2>2, <2>3
<1> QED BY <1>1, <1>3, <1>6, <1>7 DEF ChatsYield, ActiveLeases

-----------------------------------------------------------------------------
(* Types.                                                                  *)

FurtherTypes ==
  /\ backups \subseteq Rows /\ authorized \subseteq Lease /\ expired \subseteq Lease
  /\ restorePending \in BOOLEAN /\ closing \in BOOLEAN
  /\ revoked \subseteq Lease /\ scan \in {"idle", "list", "judge", "launch"}
  /\ scanRunning \subseteq Lease /\ scanFresh \subseteq Lease
  /\ chats \subseteq Session \X Provider
  /\ changes \in Nat /\ faults \in Nat /\ stops \in Nat

LEMMA TypesTogether == TypeOK <=> RowTypes /\ OtherTypes /\ FurtherTypes
<1>1. Now \in Rows <=> RowTypes
  BY DEF Now, Rows, RowTypes, States, Generations
<1> QED BY <1>1 DEF TypeOK, OtherTypes, FurtherTypes, WorkerStates

\* The same after a step, from the types of the variables.
LEMMA TypesTogetherNext ==
  ASSUME RowTypes', OtherTypes', FurtherTypes' PROVE TypeOK'
  BY TypesTogether, PTL

LEMMA PersonTypes ==
  ASSUME InductiveInvariant, Person PROVE TypeOK'
<1>0. RowTypes /\ OtherTypes /\ FurtherTypes
  BY TypesTogether DEF InductiveInvariant
<1> USE <1>0, TypesTogetherNext DEF rowVars, factVars, processVars, workerVars, scanVars,
        observers
<1>1. ASSUME NEW l \in Lease, CreateAIContinuation(l) PROVE TypeOK'
  BY <1>1 DEF CreateAIContinuation, Update, Written, RowTypes, OtherTypes, FurtherTypes, States, Active
<1>2. ASSUME NEW l \in Lease, ChangeProvider(l) PROVE TypeOK'
  BY <1>2 DEF ChangeProvider, RowTypes, OtherTypes, FurtherTypes
<1>3. ASSUME NEW l \in Lease, Expire(l) PROVE TypeOK'
  BY <1>3 DEF Expire, RowTypes, OtherTypes, FurtherTypes
<1>4. ASSUME NEW l \in Lease, StopRevoke(l) PROVE TypeOK'
  BY <1>4 DEF StopRevoke, RowTypes, OtherTypes, FurtherTypes
<1>5. ASSUME NEW l \in Lease, StopCommit(l) PROVE TypeOK'
  BY <1>5 DEF StopCommit, Update, Written, RowTypes, OtherTypes, FurtherTypes, States, Ended
<1>6. ASSUME NEW l \in Lease, StopFail(l) PROVE TypeOK'
  BY <1>6 DEF StopFail, RowTypes, OtherTypes, FurtherTypes
<1>7. ASSUME NEW l \in Lease, StopSignal(l) PROVE TypeOK'
  BY <1>7 DEF StopSignal, RowTypes, OtherTypes, FurtherTypes
<1>8. ASSUME NEW s \in Session, NEW to \in Observations, ChangeFacts(s, to) PROVE TypeOK'
  BY <1>8 DEF ChangeFacts, RowTypes, OtherTypes, FurtherTypes
<1>9. ASSUME NEW s \in Session, NEW q \in Provider, StartChat(s, q) PROVE TypeOK'
  BY <1>9 DEF StartChat, RowTypes, OtherTypes, FurtherTypes
<1>10. ASSUME NEW c \in chats, EndChat(c) PROVE TypeOK'
  BY <1>10 DEF EndChat, RowTypes, OtherTypes, FurtherTypes
<1> QED
  BY <1>1, <1>2, <1>3, <1>4, <1>5, <1>6, <1>7, <1>8, <1>9, <1>10 DEF Person

LEMMA CoordinatorTypes ==
  ASSUME InductiveInvariant, Coordinator PROVE TypeOK'
<1>0. RowTypes /\ OtherTypes /\ FurtherTypes
  BY TypesTogether DEF InductiveInvariant
<1> USE <1>0, TypesTogetherNext DEF rowVars, factVars, processVars, workerVars, scanFrame,
        observers
<1>1. CASE ScanBegin \/ ScanEnd
  BY <1>1 DEF ScanBegin, ScanEnd, ActiveLeases, RowTypes, OtherTypes, FurtherTypes
<1>2. ASSUME NEW l \in Lease, ScanSkip(l) \/ ScanVisit(l) \/ JudgeReady(l) PROVE TypeOK'
  BY <1>2 DEF ScanSkip, ScanVisit, JudgeReady, RowTypes, OtherTypes, FurtherTypes
<1>3. ASSUME NEW l \in Lease, ScanOrphan(l) PROVE TypeOK'
  BY <1>3 DEF ScanOrphan, Update, Written, RowTypes, OtherTypes, FurtherTypes, States, Ended
<1>4. ASSUME NEW l \in Lease, NextRow(l), faults' \in Nat,
             \/ \E to \in States : Update(l, to)
             \/ UNCHANGED <<status, scanFresh>>
      PROVE  TypeOK'
  BY <1>4 DEF NextRow, Update, Written, RowTypes, OtherTypes, FurtherTypes
<1>5. ASSUME NEW l \in Lease,
             \/ JudgeExpired(l) \/ JudgeStopped(l) \/ JudgeComplete(l)
             \/ JudgeExhausted(l) \/ JudgeFails(l) \/ JudgeWaits(l) \/ JudgeEnded(l)
      PROVE  TypeOK'
  <2>1. NextRow(l) /\ faults' \in Nat
    BY <1>5 DEF JudgeExpired, JudgeStopped, JudgeComplete, JudgeExhausted, JudgeFails,
       JudgeWaits, JudgeEnded, Verdict, FurtherTypes
  <2>2. \/ \E to \in States : Update(l, to)
        \/ UNCHANGED <<status, scanFresh>>
    BY <1>5 DEF JudgeExpired, JudgeStopped, JudgeComplete, JudgeExhausted, JudgeFails,
       JudgeWaits, JudgeEnded, Verdict, States, Active, Ended
  <2> QED BY <1>4, <2>1, <2>2
<1>6. ASSUME NEW l \in Lease, Launch(l) PROVE TypeOK'
  <2>1. RowTypes' /\ FurtherTypes'
    BY <1>6 DEF Launch, RowTypes, FurtherTypes
  <2>2. /\ pc' \in [Lease -> WorkerStates] /\ turn' \in [Lease -> 0..MaxTurns]
        /\ refusal' \in [Lease -> {"none", "busy", "changed", "failed"}]
        /\ signalled' \subseteq Lease
    BY <1>6, Limits DEF Launch, OtherTypes, WorkerStates
  <2>3. OtherTypes'
    BY <1>6, <2>2 DEF Launch, OtherTypes
  <2> QED BY <2>1, <2>3
<1> QED
  BY <1>1, <1>2, <1>3, <1>5, <1>6 DEF Coordinator, Scan, Judge

LEMMA WorkerTypes ==
  ASSUME InductiveInvariant, NEW l \in Lease, Worker(l) PROVE TypeOK'
<1>0. RowTypes /\ OtherTypes /\ FurtherTypes
  BY TypesTogether DEF InductiveInvariant
<1> USE <1>0, TypesTogetherNext, Limits DEF rowVars, factVars, processVars, workerVars,
        workerFrame
<1>1. CASE Accept(l)
  <2>1. /\ turns[l] + 1 \in 0..MaxTurns /\ turns[l] + 1 \in Turns
        /\ accepted[l] + 1 \in 0..MaxTurns /\ SessionOf[l] \in Session
    BY <1>1 DEF Accept, Acceptable, InductiveInvariant, ActiveIsAccounted, ActiveLeases,
       Active, RowTypes, OtherTypes, Turns
  <2>2. RowTypes'
    BY <1>1, <2>1 DEF Accept, Update, RowTypes, OtherTypes, States, Active, Generations
  <2> QED
    BY <1>1, <2>1, <2>2 DEF Accept, Update, Written, OtherTypes, FurtherTypes, WorkerStates
<1>2. CASE RefuseBusy(l) \/ RefuseChanged(l) \/ RefuseFailed(l)
  <2>1. /\ faults' \in Nat
        /\ \E why \in {"busy", "changed", "failed"} : Refuse(l, why)
    BY <1>2 DEF RefuseBusy, RefuseChanged, RefuseFailed, FurtherTypes
  <2>2. RowTypes' /\ FurtherTypes'
    BY <2>1 DEF Refuse, RowTypes, FurtherTypes
  <2>3. OtherTypes'
    BY <2>1 DEF Refuse, OtherTypes, WorkerStates
  <2> QED BY <2>2, <2>3
<1>3. CASE CallModel(l)
  <2>1. calls[l] + 1 \in 0..MaxTurns
    BY <1>3 DEF CallModel, InductiveInvariant, CallsAreBegun, OtherTypes
  <2> QED BY <1>3, <2>1 DEF CallModel, RowTypes, OtherTypes, FurtherTypes, WorkerStates
<1>4. CASE WorkerTimeout(l) \/ WorkerExit(l)
  BY <1>4 DEF WorkerTimeout, WorkerExit, RowTypes, OtherTypes, FurtherTypes, WorkerStates
<1>5. ASSUME NEW how \in {"completed", "failed", "cancelled"}, ModelReturns(l, how)
      PROVE  TypeOK'
  <2>1. \/ UNCHANGED generation
        \/ generation' = [generation EXCEPT ![l][turn[l]] = how]
    BY <1>5 DEF ModelReturns
  <2>2. generation' \in [Lease -> [Turns -> Generations]]
    <3>1. how \in Generations /\ generation[l] \in [Turns -> Generations]
      BY DEF RowTypes, Generations
    <3>2. [generation[l] EXCEPT ![turn[l]] = how] \in [Turns -> Generations]
      BY <3>1
    <3> QED BY <2>1, <3>1, <3>2 DEF RowTypes
  <2>3. RowTypes'
    BY <1>5, <2>2 DEF ModelReturns, RowTypes
  <2> QED BY <1>5, <2>3 DEF ModelReturns, OtherTypes, FurtherTypes, WorkerStates
<1>6. CASE Finish(l)
  <2>1. Finishing(l)
    BY <1>6 DEF Finish, FinishEnded, FinishCut, FinishRefused, FinishTurn, FinishLost
  <2>2. /\ unrecorded' \subseteq Lease /\ faults' \in Nat
        /\ scanFresh' \subseteq Lease
    BY <1>6 DEF Finish, FinishEnded, FinishCut, FinishRefused, FinishTurn, FinishLost,
       Settle, Update, Written, OtherTypes, FurtherTypes
  <2>3. /\ status' \in [Lease -> States]
        /\ current' \in [Lease -> 0..MaxTurns]
    <3>1. CASE FinishTurn(l)
      BY <3>1 DEF FinishTurn, AfterTurn, Settle, Update, RowTypes, States, Active, Ended
    <3>2. CASE FinishCut(l)
      BY <3>2 DEF FinishCut, Settle, Update, RowTypes, States, Ended
    <3>3. CASE FinishRefused(l)
      BY <3>3 DEF FinishRefused, Update, RowTypes, States, Active, Ended
    <3>4. CASE FinishEnded(l) \/ FinishLost(l)
      BY <3>4 DEF FinishEnded, FinishLost, RowTypes
    <3> QED BY <1>6, <3>1, <3>2, <3>3, <3>4 DEF Finish
  <2> QED
    BY <2>1, <2>2, <2>3 DEF Finishing, RowTypes, OtherTypes, FurtherTypes, WorkerStates
<1> QED BY <1>1, <1>2, <1>3, <1>4, <1>5, <1>6 DEF Worker

LEMMA ProcessTypes ==
  ASSUME InductiveInvariant, Process PROVE TypeOK'
<1>0. RowTypes /\ OtherTypes /\ FurtherTypes
  BY TypesTogether DEF InductiveInvariant
<1> USE <1>0, TypesTogetherNext DEF rowVars, factVars, processVars, workerVars, scanVars,
        observers
<1>a. ASSUME NEW cut, Interrupt(cut) PROVE RowTypes'
  BY <1>a, Limits DEF Interrupt, RowTypes, States, Ended
<1>1. CASE TakeBackup
  BY <1>1 DEF TakeBackup, Now, Rows, RowTypes, OtherTypes, FurtherTypes, States, Generations
<1>2. CASE ScheduleRestore
  <2>1. RowTypes'
    BY <1>2, <1>a DEF ScheduleRestore, RowTypes
  <2> QED BY <1>2, <2>1 DEF ScheduleRestore, Workers, OtherTypes, FurtherTypes
<1>3. CASE BeginShutdown
  BY <1>3 DEF BeginShutdown, Workers, RowTypes, OtherTypes, FurtherTypes
<1>4. CASE FinishShutdown \/ Crash
  <2>1. RowTypes' /\ Forgotten /\ faults' \in Nat /\ stops' \in Nat
    BY <1>4, <1>a DEF FinishShutdown, Crash, RowTypes, FurtherTypes
  <2>2. OtherTypes'
    BY <2>1, Limits DEF Forgotten, OtherTypes, WorkerStates
  <2>3. FurtherTypes'
    BY <2>1 DEF Forgotten, FurtherTypes
  <2> QED BY <2>1, <2>2, <2>3
<1>5. CASE Boot
  <2>1. ASSUME NEW rows \in Rows, NEW cut, Recover(rows, cut) PROVE RowTypes'
    BY <2>1, Limits DEF Recover, Rows, RowTypes, States, Ended, Generations
  <2>2. Now \in Rows
    BY DEF Now, Rows, RowTypes, States, Generations
  <2>3. RowTypes'
    BY <1>5, <2>1, <2>2 DEF Boot, FurtherTypes
  <2> QED BY <1>5, <2>3 DEF Boot, OtherTypes, FurtherTypes
<1> QED BY <1>1, <1>2, <1>3, <1>4, <1>5 DEF Process

LEMMA TypeOKStep ==
  ASSUME InductiveInvariant, [Next]_vars PROVE TypeOK'
<1>1. CASE UNCHANGED vars
  <2>1. RowTypes /\ OtherTypes /\ FurtherTypes
    BY TypesTogether DEF InductiveInvariant
  <2> QED
    BY <1>1, <2>1, TypesTogetherNext DEF vars, rowVars, factVars, processVars, workerVars,
       scanVars, observers, RowTypes, OtherTypes, FurtherTypes
<1> QED
  BY <1>1, PersonTypes, CoordinatorTypes, WorkerTypes, ProcessTypes DEF Next

-----------------------------------------------------------------------------
(* The theorems.                                                           *)

LEMMA InitInvariant == ASSUME Init PROVE InductiveInvariant
<1> USE Limits DEF Init
<1>1. TypeOK
  <2>1. RowTypes
    BY DEF RowTypes, States, Generations
  <2>2. OtherTypes
    BY DEF OtherTypes, WorkerStates, Observations
  <2>3. FurtherTypes
    BY DEF FurtherTypes
  <2> QED BY <2>1, <2>2, <2>3, TypesTogether
<1>2. UngrantedIsUntouched /\ ActiveIsAccounted
  BY DEF UngrantedIsUntouched, Untouched, Now, ActiveIsAccounted, ActiveLeases, Active
<1>3. CallsAreBegun /\ WorkersOwnTurns /\ RunningIsOwned /\ WaitingIsSettled
  BY DEF CallsAreBegun, WorkersOwnTurns, Executing, Owner, RunningIsOwned,
     WaitingIsSettled
<1>4. ScanIsAlone /\ StopsAreKept
  BY DEF ScanIsAlone, StopsAreKept
<1>5. BudgetKept /\ ChatsYield
  BY DEF BudgetKept, ChatsYield, Executing, ActiveLeases, Active
<1> QED BY <1>1, <1>2, <1>3, <1>4, <1>5 DEF InductiveInvariant

LEMMA BudgetKeptStep ==
  ASSUME InductiveInvariant, [Next]_vars PROVE BudgetKept'
<1>1. \A l \in Lease : accepted'[l] <= MaxTurns
  <2>1. accepted' \in [Lease -> 0..MaxTurns]
    BY TypeOKStep DEF TypeOK
  <2> QED BY <2>1, Limits
<1> QED BY <1>1, CallsAreBegunStep DEF BudgetKept, CallsAreBegun

LEMMA NextInvariant ==
  ASSUME InductiveInvariant, [Next]_vars PROVE InductiveInvariant'
  BY TypeOKStep, UngrantedIsUntouchedStep, ActiveIsAccountedStep, CallsAreBegunStep,
     WorkersOwnTurnsStep, RunningIsOwnedStep, ScanIsAloneStep, StopsAreKeptStep,
     WaitingIsSettledStep, BudgetKeptStep, ChatsYieldStep DEF InductiveInvariant

\* The inductive invariant holds of every reachable state, for every set of
\* leases and sessions and every limit (ai_continuation_worker.go).
THEOREM Invariance == Spec => []InductiveInvariant
  BY InitInvariant, NextInvariant, PTL DEF Spec

\* Rows, goroutines, scans and observers keep their types.
THEOREM TypeCorrect == Spec => []TypeOK
<1>1. InductiveInvariant => TypeOK
  BY DEF InductiveInvariant
<1> QED BY <1>1, Invariance, PTL

\* A lease that waits has no turn in doubt (finish, scan, recover).
THEOREM WaitingLeasesAreSettled == Spec => []WaitingIsSettled
<1>1. InductiveInvariant => WaitingIsSettled
  BY DEF InductiveInvariant
<1> QED BY <1>1, Invariance, PTL

\* No model is asked more often than turns were agreed to and there was news
\* to act upon (OnAccept, finish).
THEOREM BudgetIsKept == Spec => []BudgetKept
<1>1. InductiveInvariant => BudgetKept
  BY DEF InductiveInvariant
<1> QED BY <1>1, Invariance, PTL

\* One generation per session and provider, one active lease per session, and
\* no message of a person in between (aiGenerations.register, create).
THEOREM ChatsAndLeasesYield == Spec => []ChatsYield
<1>1. InductiveInvariant => ChatsYield
  BY DEF InductiveInvariant
<1> QED BY <1>1, Invariance, PTL

\* No late worker, restart or restored database opens an ended lease again.
THEOREM EndedLeasesAreFinal == Spec => EndedIsFinal
<1>1. InductiveInvariant /\ [Next]_vars =>
        [\A l \in Lease : status[l] \in Ended => status'[l] \notin Active]_vars
  <2> SUFFICES ASSUME InductiveInvariant, [Next]_vars, NEW l \in Lease,
                      status[l] \in Ended
               PROVE  status'[l] \notin Active
    OBVIOUS
  <2>1. status[l] \notin Active /\ l \in issued
    BY DEF InductiveInvariant, UngrantedIsUntouched, Untouched, Now, Ended, Active
  <2> QED BY <2>1, EndedMoves
<1> QED BY <1>1, Invariance, PTL DEF Spec, EndedIsFinal

\* After the answer to a stop the model is not asked again for that lease
\* (cancelOne, the launch guards and OnAccept).
THEOREM StopsAreHeeded == Spec => NoCallAfterStop
<1>1. InductiveInvariant /\ [Next]_vars =>
        [\A l \in answered : calls'[l] = calls[l]]_vars
  <2> SUFFICES ASSUME InductiveInvariant, [Next]_vars, NEW l \in answered
               PROVE  calls'[l] = calls[l]
    OBVIOUS
  <2>1. l \in Lease
    BY DEF InductiveInvariant, TypeOK
  <2>2. ~Asks(l)
    BY <2>1 DEF Asks, Executing, InductiveInvariant, StopsAreKept
  <2> QED
    BY <2>1, <2>2, EveryLeaseMoves DEF LeaseMoves, Stays, Granted, Ends, Tidied, Parks,
       Begins, Returns, Settles, Works, Forgets, Resumes, Restored, SameSpent
<1> QED BY <1>1, Invariance, PTL DEF Spec, NoCallAfterStop

LEMMA StepKeepsPromise ==
  ASSUME InductiveInvariant, [Next]_vars, NEW l \in Lease
  PROVE  [Promise(l)!Next]_(Promise(l)!vars)
<1> USE DEF Permission, Promise!Next, Promise!Grant, Promise!Spend, Promise!End,
        Promise!vars
<1>1. status[l] \in Active => l \in issued
  BY ActiveIsIssued
<1>2. CASE \/ Stays(l) \/ Tidied(l) \/ Parks(l) \/ Asks(l) \/ Returns(l) \/ Settles(l)
           \/ Works(l) \/ Forgets(l)
  <2>1. /\ SameGrant(l) /\ accepted'[l] = accepted[l]
        /\ status'[l] \in Active <=> status[l] \in Active
    BY <1>2 DEF Stays, Tidied, Parks, Asks, Returns, Settles, Works, Forgets, SameRow,
       SameSpent, Active
  <2> QED BY <2>1 DEF SameGrant
<1>3. CASE Granted(l)
  BY <1>1, <1>3 DEF Granted, SameSpent, Active
<1>4. CASE Ends(l) \/ Resumes(l) \/ Restored(l)
  <2>1. /\ SameGrant(l) /\ accepted'[l] = accepted[l]
        /\ status'[l] \notin Active \/ status'[l] = status[l]
    BY <1>4 DEF Ends, Resumes, Restored, SameSpent, Active, Ended
  <2> QED BY <1>1, <2>1 DEF SameGrant
<1>5. CASE Begins(l)
  <2>1. accepted[l] < MaxTurns
    BY <1>5 DEF Begins, InductiveInvariant, ActiveIsAccounted, ActiveLeases, Active
  <2> QED BY <1>1, <1>5, <2>1 DEF Begins, SameGrant, Active
<1> QED BY <1>2, <1>3, <1>4, <1>5, EveryLeaseMoves DEF LeaseMoves

\* Whatever the sidecar does is, for each lease, what the person who granted it
\* was promised (AuthorityLease).
THEOREM LeaseIsPromised == ASSUME NEW l \in Lease PROVE Spec => Promise(l)!Spec
<1>1. Init => Promise(l)!Init
  BY DEF Init, Promise!Init, Permission
<1>2. InductiveInvariant /\ [Next]_vars => [Promise(l)!Next]_(Promise(l)!vars)
  BY StepKeepsPromise
<1> QED BY <1>1, <1>2, Invariance, PTL DEF Spec, Promise!Spec

=============================================================================
