--------------------------- MODULE AIContinuation ---------------------------
(***************************************************************************)
(* Bounded background continuation of a work plan: a person grants a lease *)
(* on a saved session, and a coordinator in the process goes on with the   *)
(* plan by itself, one generation at a time, until the plan is complete,   *)
(* nothing moves any more, the turns or the time are used up, or the       *)
(* person stops it.                                                        *)
(*                                                                         *)
(* The lease row is the authority; the coordinator only knows its own      *)
(* goroutines. One connection serves the database, so a transaction is one *)
(* step. In between come the steps of other goroutines: a scan keeps the   *)
(* list of leases it read, a worker keeps what it was launched for, a stop *)
(* revokes, commits and signals in three places.                           *)
(*                                                                         *)
(* A generation is named by its lease and its turn. What the plan of a     *)
(* session, its proposals and runs amount to is one of a few Observations; *)
(* facts counts how often they have changed, and stands for their hash.    *)
(***************************************************************************)
EXTENDS Naturals, FiniteSets

CONSTANTS
  Lease, Session, Provider,
  SessionOf, ProviderOf,  \* what a lease is granted for
  Resumable,              \* leases that were allowed to outlive the process
  Sourced,                \* leases with knowledge sources in their scope
  NoLease,
  MaxTurns,               \* turns of a lease
  MaxWorkers,             \* background generations at a time
  MaxActive,              \* active leases
  MaxChanges, MaxFaults, MaxStops, MaxBackups  \* bounds

ASSUME ConstantsAssumption ==
  /\ SessionOf \in [Lease -> Session] /\ ProviderOf \in [Lease -> Provider]
  /\ Resumable \subseteq Lease /\ Sourced \subseteq Lease
  /\ NoLease \notin Lease
  /\ {MaxTurns, MaxWorkers, MaxActive} \subseteq Nat \ {0}
  /\ {MaxChanges, MaxFaults, MaxStops, MaxBackups} \subseteq Nat

VARIABLES
  \* -- the database --
  status,      \* ai_continuations.status, "none" before the row exists
  turns,       \* turns_started
  current,     \* current_generation_id: the turn it belongs to, 0 for NULL
  seen,        \* last_observation_hash, 0 for ''
  generation,  \* ai_generations.status of each turn
  plan,        \* what the plan of a session amounts to
  facts,       \* hash of what the plan rests on
  authorized,  \* leases whose provider and scope are as they were frozen
  expired,     \* leases whose expires_at has passed
  backups,     \* copies of the lease and generation rows
  \* -- the process --
  process, restorePending,
  closing,     \* the coordinator takes nothing new
  pc,          \* worker of a lease; "none": not in workers
  turn,        \* turn of the generation the worker had accepted, or 0
  refusal,     \* why a worker had none accepted
  signalled,   \* workers whose context is cancelled
  revoked,     \* tombstones of stops that have not committed
  scan, scanRows, scanRunning, scanFresh, scanAt,
  stopPc,
  chats,       \* manual generations: pairs of a session and a provider
  \* -- observers --
  issued,      \* leases ever granted
  accepted,    \* turns ever begun under a lease
  calls,       \* executions of the model for a lease
  answered,    \* leases whose stop was answered
  unrecorded,  \* leases for which the result of a turn could not be written
  \* -- bounds --
  changes, faults, stops

rowVars == <<status, turns, current, seen, generation>>
factVars == <<plan, facts, authorized, expired, changes>>
processVars == <<process, restorePending, closing, stops, backups>>
workerVars == <<pc, turn, refusal>>
scanVars == <<scan, scanRows, scanRunning, scanFresh, scanAt>>
observers == <<issued, accepted, calls, answered, unrecorded>>
vars == <<rowVars, factVars, processVars, workerVars, signalled, revoked,
          scanVars, stopPc, chats, observers, faults>>

Active == {"waiting", "running"}
Ended == {"completed", "stopped", "failed", "exhausted", "expired",
          "interrupted"}
Observations == {"ready", "blocked", "complete", "changed", "unavailable"}
Turns == 1..MaxTurns

Rows == [status : [Lease -> {"none"} \cup Active \cup Ended],
         turns : [Lease -> 0..MaxTurns],
         current : [Lease -> 0..MaxTurns],
         seen : [Lease -> Nat],
         generation : [Lease -> [Turns ->
           {"none", "streaming", "completed", "failed", "cancelled"}]]]

ActiveLeases == {l \in Lease : status[l] \in Active}
Workers == {l \in Lease : pc[l] # "none"}
LeasesOf(s) == {l \in Lease : SessionOf[l] = s}

\* aiGenerations.active: who holds a session and a provider.
Executing(l) == pc[l] \in {"accepted", "calling"}
Registered ==
  chats \cup {<<SessionOf[l], ProviderOf[l]>> : l \in {x \in Lease : Executing(x)}}
Busy(s, p) == \E r \in Registered : r[1] = s \/ r[2] = p

\* Is a generation of the session queued or streaming in the database?
Streaming(s) ==
  \/ \E c \in chats : c[1] = s
  \/ \E l \in LeasesOf(s), n \in Turns : generation[l][n] = "streaming"

\* What a transaction that looks at the session sees.
Observed(s) ==
  IF plan[s] # "changed" /\ Streaming(s) THEN "streaming" ELSE plan[s]

\* Variant: the hash covers the revision of the plan, so it is always another.
NoProgress_Churn(l) == FALSE

NoProgress(l) == seen[l] = facts[SessionOf[l]]

Init ==
  /\ status = [l \in Lease |-> "none"]
  /\ turns = [l \in Lease |-> 0]
  /\ current = [l \in Lease |-> 0]
  /\ seen = [l \in Lease |-> 0]
  /\ generation = [l \in Lease |-> [n \in Turns |-> "none"]]
  /\ plan = [s \in Session |-> "ready"]
  /\ facts = [s \in Session |-> 1]
  /\ authorized = Lease /\ expired = {} /\ backups = {}
  /\ process = "up" /\ restorePending = FALSE /\ closing = FALSE
  /\ pc = [l \in Lease |-> "none"]
  /\ turn = [l \in Lease |-> 0]
  /\ refusal = [l \in Lease |-> "none"]
  /\ signalled = {} /\ revoked = {}
  /\ scan = "idle" /\ scanRows = {} /\ scanRunning = {} /\ scanFresh = {}
  /\ scanAt = NoLease
  /\ stopPc = [l \in Lease |-> "idle"]
  /\ chats = {}
  /\ issued = {} /\ answered = {} /\ unrecorded = {}
  /\ accepted = [l \in Lease |-> 0] /\ calls = [l \in Lease |-> 0]
  /\ changes = 0 /\ faults = 0 /\ stops = 0

-----------------------------------------------------------------------------
(* The row of a lease. Every update raises its version, so a scan whose    *)
(* copy is older finds out when it writes.                                 *)

Written(l) == scanFresh' = scanFresh \ {l}

Update(l, to) == status' = [status EXCEPT ![l] = to] /\ Written(l)

Settle(l, to) == Update(l, to) /\ current' = [current EXCEPT ![l] = 0]

\* Rows of active leases, and those no restart choice covers as they are.
ActiveIn(rows) == {l \in Lease : rows.status[l] \in Active}
NotResumableIn(rows) ==
  {l \in ActiveIn(rows) :
     rows.status[l] = "running" \/ rows.current[l] # 0 \/ l \notin Resumable}

Now == [status |-> status, turns |-> turns, current |-> current, seen |-> seen,
        generation |-> generation]

\* interruptAIContinuations and its variant for what cannot be resumed.
Interrupt(cut) ==
  /\ status' = [l \in Lease |-> IF l \in cut THEN "interrupted" ELSE status[l]]
  /\ current' = [l \in Lease |-> IF l \in cut THEN 0 ELSE current[l]]
  /\ UNCHANGED <<turns, seen, generation>>

-----------------------------------------------------------------------------
(* The person, and everything else that moves the facts.                   *)

CreateAIContinuation(l) ==
  LET s == SessionOf[l] IN
  /\ process # "down" /\ ~restorePending /\ ~closing
  /\ l \notin issued /\ l \in authorized /\ l \notin expired
  /\ ActiveLeases \cap LeasesOf(s) = {}
  /\ Cardinality(ActiveLeases) < MaxActive
  /\ Observed(s) \in {"ready", "blocked"}
  /\ Update(l, "waiting")
  /\ issued' = issued \cup {l}
  /\ UNCHANGED <<turns, current, seen, generation, factVars, processVars,
                 workerVars, signalled, revoked, scan, scanRows, scanRunning,
                 scanAt, stopPc, chats, accepted, calls, answered, unrecorded,
                 faults>>

\* Proposals are decided, runs end, a turn rewrites the plan.
ChangeFacts(s, to) ==
  /\ process # "down" /\ changes < MaxChanges
  /\ changes' = changes + 1
  /\ plan' = [plan EXCEPT ![s] = to]
  /\ facts' = [facts EXCEPT ![s] = @ + 1]
  /\ UNCHANGED <<rowVars, authorized, expired, processVars, workerVars,
                 signalled, revoked, scanVars, stopPc, chats, observers, faults>>

ChangeProvider(l) ==
  /\ process # "down" /\ changes < MaxChanges /\ l \in authorized
  /\ changes' = changes + 1
  /\ authorized' = authorized \ {l}
  /\ UNCHANGED <<rowVars, plan, facts, expired, processVars, workerVars,
                 signalled, revoked, scanVars, stopPc, chats, observers, faults>>

Expire(l) ==
  /\ status[l] \in Active /\ l \notin expired
  /\ expired' = expired \cup {l}
  /\ UNCHANGED <<rowVars, plan, facts, authorized, changes, processVars,
                 workerVars, signalled, revoked, scanVars, stopPc, chats,
                 observers, faults>>

\* Variant: the session is not asked whether it is on its own.
StartChat_Unguarded(s, p) ==
  /\ process = "up" /\ ~restorePending
  /\ ~Busy(s, p)
  /\ chats' = chats \cup {<<s, p>>}
  /\ UNCHANGED <<rowVars, factVars, processVars, workerVars, signalled, revoked,
                 scanVars, stopPc, observers, faults>>

\* A message typed by the person. beginMu makes its acceptance one step.
StartChat(s, p) ==
  /\ process = "up" /\ ~restorePending
  /\ ActiveLeases \cap LeasesOf(s) = {} /\ ~Busy(s, p)
  /\ chats' = chats \cup {<<s, p>>}
  /\ UNCHANGED <<rowVars, factVars, processVars, workerVars, signalled, revoked,
                 scanVars, stopPc, observers, faults>>

EndChat(c) ==
  /\ c \in chats
  /\ chats' = chats \ {c}
  /\ UNCHANGED <<rowVars, factVars, processVars, workerVars, signalled, revoked,
                 scanVars, stopPc, observers, faults>>

-----------------------------------------------------------------------------
(* Stopping: revoke what runs here, commit, then signal again.             *)

StopRevoke(l) ==
  /\ process # "down" /\ stopPc[l] = "idle" /\ status[l] # "none"
  /\ revoked' = revoked \cup {l}
  /\ signalled' = signalled \cup ({l} \cap Workers)
  /\ stopPc' = [stopPc EXCEPT ![l] = "revoked"]
  /\ UNCHANGED <<rowVars, factVars, processVars, workerVars, scanVars, chats,
                 observers, faults>>

\* stopAIContinuationID. Cancelling a generation stops the lease of its turn
\* without revoking first.
StopCommit(l) ==
  /\ process # "down" /\ status[l] # "none"
  /\ \/ stopPc[l] = "revoked"
     \/ stopPc[l] = "idle" /\ turns[l] > 0
  /\ IF status[l] \in Active
       THEN Update(l, "stopped")
       ELSE UNCHANGED <<status, scanFresh>>
  /\ stopPc' = [stopPc EXCEPT ![l] = "committed"]
  /\ UNCHANGED <<turns, current, seen, generation, factVars, processVars,
                 workerVars, signalled, revoked, scan, scanRows, scanRunning,
                 scanAt, chats, observers, faults>>

\* The transaction fails: the caller gets an error, the tombstone stays.
StopFail(l) ==
  /\ stopPc[l] = "revoked" /\ faults < MaxFaults
  /\ stopPc' = [stopPc EXCEPT ![l] = "idle"]
  /\ faults' = faults + 1
  /\ UNCHANGED <<rowVars, factVars, processVars, workerVars, signalled, revoked,
                 scanVars, chats, observers>>

\* Variant: the workers were cancelled before, why do it again.
StopSignal_Quiet(l) ==
  /\ stopPc[l] = "committed"
  /\ revoked' = revoked \ {l}
  /\ answered' = answered \cup {l}
  /\ stopPc' = [stopPc EXCEPT ![l] = "idle"]
  /\ UNCHANGED <<rowVars, factVars, processVars, workerVars, signalled, scanVars,
                 chats, issued, accepted, calls, unrecorded, faults>>

StopSignal(l) ==
  /\ stopPc[l] = "committed"
  /\ signalled' = signalled \cup ({l} \cap Workers)
  /\ revoked' = revoked \ {l}
  /\ answered' = answered \cup {l}
  /\ stopPc' = [stopPc EXCEPT ![l] = "idle"]
  /\ UNCHANGED <<rowVars, factVars, processVars, workerVars, scanVars, chats,
                 issued, accepted, calls, unrecorded, faults>>

-----------------------------------------------------------------------------
(* The scan: reads the active rows, then takes them one by one.            *)

scanFrame == <<factVars, processVars, stopPc, chats, observers>>

ScanBegin ==
  /\ scan = "idle" /\ process # "down" /\ ~closing /\ ~restorePending
  /\ ActiveLeases # {}
  /\ scan' = "list" /\ scanRows' = ActiveLeases /\ scanFresh' = ActiveLeases
  /\ scanRunning' = {l \in ActiveLeases : status[l] = "running"}
  /\ UNCHANGED <<rowVars, scanFrame, workerVars, signalled, revoked, scanAt,
                 faults>>

ScanEnd ==
  /\ scan = "list" /\ (scanRows = {} \/ closing)
  /\ scan' = "idle" /\ scanRows' = {} /\ scanRunning' = {} /\ scanFresh' = {}
  /\ UNCHANGED <<rowVars, scanFrame, workerVars, signalled, revoked, scanAt,
                 faults>>

\* A lease whose goroutine is still there is left alone.
ScanSkip(l) ==
  /\ scan = "list" /\ l \in scanRows /\ ~closing /\ pc[l] # "none"
  /\ scanRows' = scanRows \ {l}
  /\ UNCHANGED <<rowVars, scanFrame, workerVars, signalled, revoked, scan,
                 scanRunning, scanFresh, scanAt, faults>>

\* Variant: somebody else will see to it.
ScanOrphan_Skips(l) ==
  /\ scan = "list" /\ l \in scanRows /\ ~closing /\ pc[l] = "none"
  /\ l \in scanRunning
  /\ scanRows' = scanRows \ {l}
  /\ UNCHANGED <<rowVars, scanFrame, workerVars, signalled, revoked, scan,
                 scanRunning, scanFresh, scanAt, faults>>

\* Listed as running, and nobody runs it: give it up, unless the copy is stale.
ScanOrphan(l) ==
  /\ scan = "list" /\ l \in scanRows /\ ~closing /\ pc[l] = "none"
  /\ l \in scanRunning
  /\ scanRows' = scanRows \ {l}
  /\ IF l \in scanFresh
       THEN Update(l, "interrupted")
       ELSE UNCHANGED <<status, scanFresh>>
  /\ UNCHANGED <<turns, current, seen, generation, scanFrame, workerVars,
                 signalled, revoked, scan, scanRunning, scanAt, faults>>

ScanVisit(l) ==
  /\ scan = "list" /\ l \in scanRows /\ ~closing /\ pc[l] = "none"
  /\ l \notin scanRunning
  /\ scan' = "judge" /\ scanAt' = l
  /\ UNCHANGED <<rowVars, scanFrame, workerVars, signalled, revoked, scanRows,
                 scanRunning, scanFresh, faults>>

Judging(l) == scan = "judge" /\ scanAt = l

\* Variant: the time is looked at elsewhere.
Eligible_Timeless(l) == status[l] \in Active /\ l \in authorized

\* The transaction reads the row again and goes by what it finds.
Eligible(l) == status[l] \in Active /\ l \notin expired /\ l \in authorized

NextRow(l) ==
  /\ Judging(l)
  /\ scan' = "list" /\ scanRows' = scanRows \ {l} /\ scanAt' = NoLease
  /\ UNCHANGED <<turns, current, seen, generation, scanFrame, workerVars,
                 signalled, revoked, scanRunning>>

Verdict(l, to) == NextRow(l) /\ Update(l, to)

JudgeExpired(l) ==
  /\ status[l] \in Active /\ l \in expired
  /\ Verdict(l, "expired")
  /\ UNCHANGED faults

JudgeStopped(l) ==
  /\ status[l] \in Active /\ l \notin expired
  /\ \/ l \notin authorized
     \/ Observed(SessionOf[l]) \in {"changed", "unavailable"}
     \/ /\ Observed(SessionOf[l]) = "ready" /\ turns[l] < MaxTurns
        /\ NoProgress(l)
  /\ Verdict(l, "stopped")
  /\ UNCHANGED faults

JudgeComplete(l) ==
  /\ Eligible(l) /\ Observed(SessionOf[l]) = "complete"
  /\ Verdict(l, "completed")
  /\ UNCHANGED faults

JudgeExhausted(l) ==
  /\ Eligible(l) /\ Observed(SessionOf[l]) = "ready" /\ turns[l] >= MaxTurns
  /\ Verdict(l, "exhausted")
  /\ UNCHANGED faults

\* The transaction fails and the lease is stopped, or that fails as well. Once
\* the coordinator's context is cancelled it fails for every lease whose
\* knowledge sources have to be looked up.
JudgeFails(l) ==
  \/ /\ faults < MaxFaults /\ faults' = faults + 1
     /\ \/ status[l] \in Active /\ Verdict(l, "stopped")
        \/ NextRow(l) /\ UNCHANGED <<status, scanFresh>>
  \/ /\ closing /\ l \in Sourced /\ Eligible(l)
     /\ Verdict(l, "stopped")
     /\ UNCHANGED faults

\* It has to wait, and the row says so whatever it said before.
JudgeWaits(l) ==
  /\ Eligible(l)
  /\ \/ Observed(SessionOf[l]) \in {"blocked", "streaming"}
     \/ /\ Observed(SessionOf[l]) = "ready" /\ turns[l] < MaxTurns
        /\ ~NoProgress(l) /\ Busy(SessionOf[l], ProviderOf[l])
  /\ Verdict(l, "waiting")
  /\ UNCHANGED faults

JudgeEnded(l) ==
  /\ status[l] \notin Active
  /\ NextRow(l)
  /\ UNCHANGED <<status, scanFresh, faults>>

JudgeReady(l) ==
  /\ Judging(l) /\ Eligible(l)
  /\ Observed(SessionOf[l]) = "ready" /\ turns[l] < MaxTurns
  /\ ~NoProgress(l) /\ ~Busy(SessionOf[l], ProviderOf[l])
  /\ scan' = "launch"
  /\ UNCHANGED <<rowVars, scanFrame, workerVars, signalled, revoked, scanRows,
                 scanRunning, scanFresh, scanAt, faults>>

Launchable(l) ==
  /\ ~closing /\ l \notin revoked /\ l \notin expired /\ pc[l] = "none"
  /\ Cardinality(Workers) < MaxWorkers

Launch(l) ==
  /\ scan = "launch" /\ scanAt = l
  /\ scan' = "list" /\ scanRows' = scanRows \ {l} /\ scanAt' = NoLease
  /\ IF Launchable(l)
       THEN /\ pc' = [pc EXCEPT ![l] = "launched"]
            /\ turn' = [turn EXCEPT ![l] = 0]
            /\ refusal' = [refusal EXCEPT ![l] = "none"]
            /\ signalled' = signalled \ {l}
       ELSE UNCHANGED <<workerVars, signalled>>
  /\ UNCHANGED <<rowVars, scanFrame, revoked, scanRunning, scanFresh, faults>>

Judge(l) ==
  \/ JudgeExpired(l) \/ JudgeStopped(l) \/ JudgeComplete(l) \/ JudgeExhausted(l)
  \/ JudgeFails(l) \/ JudgeWaits(l) \/ JudgeEnded(l) \/ JudgeReady(l)

Scan(l) == ScanSkip(l) \/ ScanOrphan(l) \/ ScanVisit(l) \/ Judge(l) \/ Launch(l)

-----------------------------------------------------------------------------
(* The worker of a lease: runAIGeneration, then finish.                    *)

workerFrame == <<factVars, processVars, revoked, scan, scanRows, scanRunning,
                 scanAt, stopPc, chats, issued, answered>>

\* What OnAccept asks in the transaction that accepts the generation.
Acceptable(l) ==
  /\ status[l] = "waiting" /\ turns[l] < MaxTurns
  /\ l \notin expired /\ l \in authorized
  /\ Observed(SessionOf[l]) = "ready" /\ ~NoProgress(l)

\* Before that runAIGeneration returns an error of its own.
Hindered(l) ==
  l \in signalled \/ restorePending \/ status[l] \notin Active

\* beginMu and the transaction make the acceptance one step: generation, turn
\* and the lease's move to running commit together, before any model request.
Accept(l) ==
  /\ pc[l] = "launched" /\ ~Hindered(l)
  /\ ~Busy(SessionOf[l], ProviderOf[l]) /\ Acceptable(l)
  /\ Update(l, "running")
  /\ turns' = [turns EXCEPT ![l] = @ + 1]
  /\ current' = [current EXCEPT ![l] = turns[l] + 1]
  /\ seen' = [seen EXCEPT ![l] = facts[SessionOf[l]]]
  /\ generation' = [generation EXCEPT ![l][turns[l] + 1] = "streaming"]
  /\ accepted' = [accepted EXCEPT ![l] = @ + 1]
  /\ turn' = [turn EXCEPT ![l] = turns[l] + 1]
  /\ pc' = [pc EXCEPT ![l] = "accepted"]
  /\ UNCHANGED <<workerFrame, refusal, signalled, calls, unrecorded, faults>>

Refuse(l, why) ==
  /\ pc[l] = "launched"
  /\ pc' = [pc EXCEPT ![l] = "returned"]
  /\ refusal' = [refusal EXCEPT ![l] = why]
  /\ UNCHANGED <<workerFrame, rowVars, scanFresh, turn, signalled, accepted,
                 calls, unrecorded>>

RefuseBusy(l) ==
  /\ ~Hindered(l) /\ Busy(SessionOf[l], ProviderOf[l])
  /\ Refuse(l, "busy")
  /\ UNCHANGED faults

RefuseChanged(l) ==
  /\ ~Hindered(l) /\ ~Busy(SessionOf[l], ProviderOf[l]) /\ ~Acceptable(l)
  /\ Refuse(l, "changed")
  /\ UNCHANGED faults

\* Cancelled, frozen, ended, another provider, or the transaction fails.
RefuseFailed(l) ==
  /\ \/ (Hindered(l) \/ l \notin authorized) /\ UNCHANGED faults
     \/ faults < MaxFaults /\ faults' = faults + 1
  /\ Refuse(l, "failed")

CallModel(l) ==
  /\ pc[l] = "accepted" /\ l \notin signalled
  /\ pc' = [pc EXCEPT ![l] = "calling"]
  /\ calls' = [calls EXCEPT ![l] = @ + 1]
  /\ UNCHANGED <<workerFrame, rowVars, scanFresh, turn, refusal, signalled,
                 accepted, unrecorded, faults>>

\* The model answers or not, or is cut short, and the end of the generation is
\* written. A signal may come too late for that.
ModelReturns(l, how) ==
  /\ Executing(l)
  /\ \/ l \in signalled /\ how = "cancelled"
     \/ pc[l] = "calling" /\ how \in {"completed", "failed"}
  /\ pc' = [pc EXCEPT ![l] = "returned"]
  /\ \/ /\ ~restorePending
        /\ generation' = [generation EXCEPT ![l][turn[l]] = how]
        /\ UNCHANGED faults
     \/ restorePending /\ UNCHANGED <<generation, faults>>
     \/ faults < MaxFaults /\ faults' = faults + 1 /\ UNCHANGED generation
  /\ UNCHANGED <<workerFrame, status, turns, current, seen, scanFresh, turn,
                 refusal, signalled, accepted, calls, unrecorded>>

\* Ten minutes, or the time the lease has left.
WorkerTimeout(l) ==
  /\ pc[l] \in {"launched", "accepted", "calling"} /\ l \notin signalled
  /\ signalled' = signalled \cup {l}
  /\ UNCHANGED <<workerFrame, rowVars, scanFresh, workerVars, accepted, calls,
                 unrecorded, faults>>

Finishing(l) ==
  /\ pc[l] = "returned"
  /\ pc' = [pc EXCEPT ![l] = "settled"]
  /\ UNCHANGED <<workerFrame, turns, seen, generation, turn, refusal, signalled,
                 accepted, calls>>

\* finish on a lease that was stopped or interrupted meanwhile.
FinishEnded(l) ==
  /\ Finishing(l) /\ ~restorePending /\ status[l] \notin Active
  /\ IF turn[l] # 0 /\ current[l] = turn[l]
       THEN current' = [current EXCEPT ![l] = 0] /\ Written(l)
       ELSE UNCHANGED <<current, scanFresh>>
  /\ UNCHANGED <<status, unrecorded, faults>>

FinishCut(l) ==
  /\ Finishing(l) /\ ~restorePending /\ status[l] \in Active
  /\ closing \/ l \in expired
  /\ Settle(l, IF closing THEN "interrupted" ELSE "expired")
  /\ UNCHANGED <<unrecorded, faults>>

\* Variant: a lease that was not touched is still waiting.
FinishRefused_Blind(l) ==
  /\ Finishing(l) /\ ~restorePending /\ ~closing /\ l \notin expired
  /\ turn[l] = 0
  /\ Update(l, IF refusal[l] = "failed" THEN "failed" ELSE "waiting")
  /\ UNCHANGED <<current, unrecorded, faults>>

FinishRefused(l) ==
  /\ Finishing(l) /\ ~restorePending /\ status[l] \in Active
  /\ ~closing /\ l \notin expired /\ turn[l] = 0
  /\ \/ refusal[l] = "busy" /\ Update(l, "waiting")
     \/ refusal[l] = "failed" /\ Update(l, "failed")
     \/ refusal[l] = "changed" /\ UNCHANGED <<status, scanFresh>>
  /\ UNCHANGED <<current, unrecorded, faults>>

\* Variant: a generation that failed may be tried again.
AfterTurn_Retries(end) ==
  CASE end \in {"completed", "failed"} -> "waiting"
    [] end = "cancelled" -> "stopped"
    [] OTHER -> "interrupted"

AfterTurn(end) ==
  CASE end = "completed" -> "waiting"
    [] end = "cancelled" -> "stopped"
    [] end = "failed" -> "failed"
    [] OTHER -> "interrupted"

FinishTurn(l) ==
  /\ Finishing(l) /\ ~restorePending /\ status[l] \in Active
  /\ ~closing /\ l \notin expired /\ turn[l] # 0 /\ current[l] = turn[l]
  /\ Settle(l, AfterTurn(generation[l][turn[l]]))
  /\ UNCHANGED <<unrecorded, faults>>

\* A restore is pending, another generation owns the lease, or the transaction
\* fails: the result is not written and nobody tries again.
FinishLost(l) ==
  /\ Finishing(l)
  /\ \/ restorePending /\ UNCHANGED faults
     \/ /\ status[l] \in Active /\ turn[l] # 0 /\ current[l] # turn[l]
        /\ ~closing /\ l \notin expired /\ UNCHANGED faults
     \/ faults < MaxFaults /\ faults' = faults + 1
  /\ unrecorded' = unrecorded \cup {l}
  /\ UNCHANGED <<status, current, scanFresh>>

WorkerExit(l) ==
  /\ pc[l] = "settled"
  /\ pc' = [pc EXCEPT ![l] = "none"]
  /\ signalled' = signalled \ {l}
  /\ UNCHANGED <<workerFrame, rowVars, scanFresh, turn, refusal, accepted, calls,
                 unrecorded, faults>>

Finish(l) ==
  \/ FinishEnded(l) \/ FinishCut(l) \/ FinishRefused(l) \/ FinishTurn(l)
  \/ FinishLost(l)

Worker(l) ==
  \/ Accept(l) \/ RefuseBusy(l) \/ RefuseChanged(l) \/ RefuseFailed(l)
  \/ CallModel(l) \/ WorkerTimeout(l) \/ Finish(l) \/ WorkerExit(l)
  \/ \E how \in {"completed", "failed", "cancelled"} : ModelReturns(l, how)

-----------------------------------------------------------------------------
(* The process: backup, scheduled restore, shutdown, crash, startup. A     *)
(* maintenance command waits for the scan, which holds the read lock.      *)

TakeBackup ==
  /\ process # "down" /\ ~restorePending /\ scan = "idle"
  /\ Cardinality(backups) < MaxBackups
  /\ backups' = backups \cup {Now}
  /\ UNCHANGED <<rowVars, factVars, process, restorePending, closing, stops,
                 workerVars, signalled, revoked, scanVars, stopPc, chats,
                 observers, faults>>

\* cancelAIRunsForRestore: the leases are revoked before the restart, unless
\* that write fails.
ScheduleRestore ==
  /\ process # "down" /\ scan = "idle" /\ backups # {}
  /\ restorePending' = TRUE /\ closing' = TRUE
  /\ signalled' = signalled \cup Workers
  /\ \/ Interrupt(ActiveLeases) /\ UNCHANGED faults
     \/ faults < MaxFaults /\ faults' = faults + 1 /\ UNCHANGED rowVars
  /\ UNCHANGED <<factVars, process, stops, backups, workerVars, revoked,
                 scanVars, stopPc, chats, observers>>

BeginShutdown ==
  /\ process = "up" /\ stops < MaxStops
  /\ process' = "closing" /\ closing' = TRUE /\ stops' = stops + 1
  /\ signalled' = signalled \cup Workers
  /\ UNCHANGED <<rowVars, factVars, restorePending, backups, workerVars, revoked,
                 scanVars, stopPc, chats, observers, faults>>

\* Everything the process only remembered.
Forgotten ==
  /\ process' = "down" /\ closing' = FALSE
  /\ pc' = [l \in Lease |-> "none"]
  /\ turn' = [l \in Lease |-> 0]
  /\ refusal' = [l \in Lease |-> "none"]
  /\ signalled' = {} /\ revoked' = {}
  /\ scan' = "idle" /\ scanRows' = {} /\ scanRunning' = {} /\ scanFresh' = {}
  /\ scanAt' = NoLease
  /\ stopPc' = [l \in Lease |-> "idle"]
  /\ chats' = {}
  /\ UNCHANGED <<factVars, restorePending, backups, observers>>

\* close: the scan and the workers are over, then what must not wait is cut.
FinishShutdown ==
  /\ process = "closing" /\ scan = "idle" /\ Workers = {}
  /\ \/ ~restorePending /\ Interrupt(NotResumableIn(Now)) /\ UNCHANGED faults
     \/ restorePending /\ UNCHANGED <<rowVars, faults>>
     \/ faults < MaxFaults /\ faults' = faults + 1 /\ UNCHANGED rowVars
  /\ Forgotten
  /\ UNCHANGED stops

Crash ==
  /\ process # "down" /\ stops < MaxStops
  /\ stops' = stops + 1
  /\ Forgotten
  /\ UNCHANGED <<rowVars, faults>>

\* The startup recoveries: of generations, then of leases.
Recover(rows, cut) ==
  /\ status' = [l \in Lease |-> IF l \in cut THEN "interrupted" ELSE rows.status[l]]
  /\ current' = [l \in Lease |-> IF l \in cut THEN 0 ELSE rows.current[l]]
  /\ turns' = rows.turns /\ seen' = rows.seen
  /\ generation' = [l \in Lease |-> [n \in Turns |->
       IF rows.generation[l][n] = "streaming" THEN "cancelled"
       ELSE rows.generation[l][n]]]

\* A pending restore is applied or rejected.
Boot ==
  /\ process = "down"
  /\ \/ Recover(Now, NotResumableIn(Now))
     \/ restorePending /\ \E rows \in backups : Recover(rows, ActiveIn(rows))
  /\ process' = "up" /\ restorePending' = FALSE
  /\ UNCHANGED <<factVars, closing, stops, backups, workerVars, signalled, revoked,
                 scanVars, stopPc, chats, observers, faults>>

-----------------------------------------------------------------------------
Coordinator == ScanBegin \/ ScanEnd \/ \E l \in Lease : Scan(l)

Person ==
  \/ \E l \in Lease : \/ CreateAIContinuation(l) \/ ChangeProvider(l) \/ Expire(l)
                       \/ StopRevoke(l) \/ StopCommit(l) \/ StopFail(l)
                       \/ StopSignal(l)
  \/ \E s \in Session, to \in Observations : ChangeFacts(s, to)
  \/ \E s \in Session, p \in Provider : StartChat(s, p)
  \/ \E c \in chats : EndChat(c)

Process ==
  \/ TakeBackup \/ ScheduleRestore \/ BeginShutdown \/ FinishShutdown \/ Crash
  \/ Boot

Next == Coordinator \/ Person \/ Process \/ \E l \in Lease : Worker(l)

Spec == Init /\ [][Next]_vars

\* The ticker wakes the one coordinator goroutine; a worker's context ends with
\* its deadline at the latest.
Fairness ==
  /\ WF_vars(Coordinator)
  /\ \A l \in Lease : WF_vars(Worker(l))

FairSpec == Spec /\ Fairness

-----------------------------------------------------------------------------
(* Properties.                                                             *)

\* Type invariant of the rows, of the coordinator and of the observers.
TypeOK ==
  /\ Now \in Rows /\ backups \subseteq Rows
  /\ plan \in [Session -> Observations] /\ facts \in [Session -> Nat]
  /\ authorized \subseteq Lease /\ expired \subseteq Lease
  /\ process \in {"up", "closing", "down"}
  /\ restorePending \in BOOLEAN /\ closing \in BOOLEAN
  /\ pc \in [Lease -> {"none", "launched", "accepted", "calling", "returned",
                       "settled"}]
  /\ turn \in [Lease -> 0..MaxTurns]
  /\ refusal \in [Lease -> {"none", "busy", "changed", "failed"}]
  /\ signalled \subseteq Lease /\ revoked \subseteq Lease
  /\ scan \in {"idle", "list", "judge", "launch"}
  /\ scanRows \subseteq Lease /\ scanRunning \subseteq Lease
  /\ scanFresh \subseteq Lease /\ scanAt \in Lease \cup {NoLease}
  /\ stopPc \in [Lease -> {"idle", "revoked", "committed"}]
  /\ chats \subseteq Session \X Provider
  /\ issued \subseteq Lease /\ answered \subseteq Lease
  /\ unrecorded \subseteq Lease
  /\ accepted \in [Lease -> 0..MaxTurns] /\ calls \in [Lease -> 0..MaxTurns]
  /\ {changes, faults, stops} \subseteq Nat

\* A lease that waits has no turn in doubt: every turn it has begun came back
\* as a completed generation, and none is current. The exception the code knows
\* of is a turn whose result could not be written (finish, scan).
WaitingIsSettled ==
  \A l \in Lease : status[l] = "waiting" =>
    \/ l \in unrecorded
    \/ /\ current[l] = 0
       /\ \A n \in 1..turns[l] : generation[l][n] = "completed"

\* A model is asked for a lease at most once per turn begun, turns are begun
\* within the limit that was agreed to, and no more often than there was
\* something new to act upon; whatever is restored, lost or repeated.
BudgetKept ==
  \A l \in Lease :
    /\ calls[l] <= accepted[l] /\ accepted[l] <= MaxTurns
    /\ accepted[l] <= facts[SessionOf[l]]

\* Only one generation at a time works in a session or with a provider, one
\* lease at a time is active in a session, and a person's own message never runs
\* in a session that is on its own (the registry and the guard).
ChatsYield ==
  /\ \A l \in Lease : Executing(l) =>
       /\ \A c \in chats : c[1] # SessionOf[l] /\ c[2] # ProviderOf[l]
       /\ \A m \in Lease \ {l} : Executing(m) =>
            SessionOf[m] # SessionOf[l] /\ ProviderOf[m] # ProviderOf[l]
  /\ \A l \in ActiveLeases :
       /\ \A c \in chats : c[1] # SessionOf[l]
       /\ \A m \in ActiveLeases \ {l} : SessionOf[m] # SessionOf[l]

\* After the answer to a stop no model is asked for that lease any more, even
\* by a worker launched from what a scan had read before (cancelOne, OnAccept).
NoCallAfterStop ==
  [][\A l \in answered : calls'[l] = calls[l]]_vars

\* A lease that has ended stays ended: through late workers, failed writes,
\* crashes, restarts and a restored database in which it was still active.
EndedIsFinal ==
  [][\A l \in Lease : status[l] \in Ended => status'[l] \notin Active]_vars

-----------------------------------------------------------------------------
(* The inductive invariant behind the safety properties, in named parts.   *)

\* A lease that was never granted has left no trace, not even in a backup.
Untouched(rows, l) ==
  /\ rows.status[l] = "none" /\ rows.turns[l] = 0
  /\ rows.current[l] = 0 /\ rows.seen[l] = 0

UngrantedIsUntouched ==
  \A l \in Lease \ issued :
    /\ Untouched(Now, l) /\ \A rows \in backups : Untouched(rows, l)
    /\ accepted[l] = 0 /\ turn[l] = 0 /\ l \notin scanRows

\* The row of an active lease agrees with what was ever begun, though a
\* restored row of an ended one may not.
ActiveIsAccounted ==
  \A l \in ActiveLeases :
    /\ turns[l] = accepted[l]
    /\ accepted[l] <= seen[l] /\ seen[l] <= facts[SessionOf[l]]

CallsAreBegun ==
  \A l \in Lease :
    /\ calls[l] <= accepted[l] /\ accepted[l] <= facts[SessionOf[l]]
    /\ pc[l] = "accepted" => calls[l] < accepted[l]

\* A worker knows the turn it had accepted, and owns it until it has finished.
Owner(l) == pc[l] \in {"accepted", "calling", "returned"} /\ turn[l] # 0

WorkersOwnTurns ==
  \A l \in Lease :
    /\ pc[l] = "launched" => turn[l] = 0
    /\ Executing(l) => turn[l] # 0
    /\ Owner(l) => status[l] # "waiting" \/ l \in unrecorded

RunningIsOwned ==
  \A l \in Lease : status[l] = "running" =>
    \/ l \in unrecorded
    \/ process = "down"
    \/ /\ Owner(l) /\ turn[l] = turns[l] /\ current[l] = turns[l]
       /\ \A n \in 1..turns[l] : n # turns[l] => generation[l][n] = "completed"

\* Nothing goes on in a process that is down, and while a lease is judged or
\* launched nobody else launches its worker.
ScanIsAlone ==
  /\ process = "down" => scan = "idle" /\ \A l \in Lease : pc[l] = "none"
  /\ scan \in {"judge", "launch"} =>
       scanAt \in Lease /\ scanAt \in scanRows /\ pc[scanAt] = "none"

StopsAreKept ==
  \A l \in Lease :
    /\ stopPc[l] = "committed" => status[l] \notin Active /\ l \in issued
    /\ l \in answered =>
         /\ status[l] \notin Active /\ l \in issued
         /\ Executing(l) => l \in signalled

InductiveInvariant ==
  /\ TypeOK /\ UngrantedIsUntouched /\ ActiveIsAccounted /\ CallsAreBegun
  /\ WorkersOwnTurns /\ RunningIsOwned /\ ScanIsAlone /\ StopsAreKept
  /\ WaitingIsSettled /\ BudgetKept /\ ChatsYield

-----------------------------------------------------------------------------
(* Implementation of the abstract permission, and liveness.                *)

\* The permission of a lease, as the person who granted it sees it.
Permission(l) ==
  IF l \notin issued THEN "unasked"
  ELSE IF status[l] \in Active THEN "open" ELSE "ended"

Promise(l) == INSTANCE AuthorityLease
  WITH permission <- Permission(l), spent <- accepted[l]

Excused == process # "up" \/ restorePending

\* A turn that runs comes to an end: the lease waits again or has ended, also
\* when the result could not be written.
TurnsEnd ==
  \A l \in Lease : status[l] = "running" ~> (status[l] # "running" \/ Excused)

\* A lease does not outlive its time.
ExpiredLeasesEnd ==
  \A l \in Lease :
    l \in expired /\ status[l] \in Active ~> (status[l] \notin Active \/ Excused)

\* "A running ledger with no owned worker is uncertain, never replayable."
\* (scan): a lease whose row still names the generation of a turn begins no
\* other turn.
UncertainIsNotReplayed ==
  [][\A l \in Lease : current[l] # 0 => accepted'[l] = accepted[l]]_vars
=============================================================================
