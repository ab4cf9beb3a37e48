# OPC Workspace: specifications, model checking and proofs

TLA+ models of the parts of OPC Workspace whose correctness depends on the
order in which things happen: background workers, transactions that write
files, cancellation, restarts and restores on the service's side; reads, forms,
streams and lists that are older than what they show on the client's. TLC
checks each model on small instances; TLAPS proves the safety properties for
every instance.

## 1. The system

OPC Workspace is a local-first desktop application for a one-person company.

| part | where | what it is |
| --- | --- | --- |
| sidecar | `services/sidecar` (Go) | HTTP server on the loopback interface, owner of all data |
| database | SQLite, one connection (`internal/database/database.go:87`) | every business row, event, idempotency key and queue |
| file stores | `artifacts/`, attachments, invoices, avatars, `backups/` | controlled files that rows point at |
| agent executor | `internal/agentexec`, child process of the sidecar | asks a model, returns one manifest |
| desktop shell | `apps/desktop/src-tauri` (Rust, Tauri) | starts and supervises the sidecar, file operations, terminal, browser |
| web UI | `apps/web` (React) | talks HTTP to the sidecar, commands to the shell |

The sidecar keeps its state in SQLite and in directories of files, and in
memory: the workers of Agent Runs, the goroutines of AI generations, a
maintenance read/write lock, the flag `restorePending`, tickers for reminders,
backups and automations. The pool has one connection, so a transaction is one
atomic step of the models; what is *not* atomic is a transaction together with
anything outside the database: a file, a child process, a lock, a channel,
the memory of the process, another transaction. The web UI keeps copies: a
cache of reads (React Query), forms that are open, a chat stream, a review of
a file. Each was true when it was read; each is used later. It also checks
strictly what it reads: an answer that breaks a rule its parser states is
refused whole, with the list it belongs to. So what the service may legally
write and what the client takes for possible have to agree, row by row.

## 2. Inventory

For every part: what is hard about it, and the module that has it. The
components of PROJECT.json name the sources.

| part | state and operations | what is hard | modules |
| --- | --- | --- | --- |
| Agent Run lifecycle | rows, events, workers, staged files; create, claim, execute, finalize, stage, cancel, redeliver, recover | two identity checks around an asynchronous boundary, a rename before a COMMIT whose answer may be lost, cancellation against staging, wake-ups of the queue | `AgentRun`, `RunDisposition` |
| Start gates | gates as events, a reconciler, confirmations of files | reconciler, confirmer, dispatcher and claim see the same events at different times; chains; three locks in different orders | `AgentRunGate`, `StartGate` |
| What a client says of a run | the row's optional columns, phases, gate and slot | the row is written column by column by five writers, the parser states which columns go together | `AgentRunReading`, used by both |
| AI continuations and generations | leases with turns, a registry of generations | a scan that acts on rows it read before a worker finished, stop against acceptance, restored budgets | `AIContinuation`, `AuthorityLease` |
| Chat of a window | request identities, stream, lookup, draft | an answer that comes twice or late, a stop, another window, a background turn that looks like one's own | `ChatStream` |
| Cached reads and command hooks | the cache, some 150 command hooks with what they refresh | a read in flight while a command commits; an answer older than a read | `WebCommands`, `Refreshing` |
| Forms, buttons, drags | open form, version, idempotency key | a newer read under an open form, a resend, a conflict | `Editing` |
| Lists | pages, cursors, walks | rows that come and go between two pages; a total from another moment than the rows | `Listing` |
| Reviewed file writes | baselines, one native operation, reminders | late answers, expiry, outside edits, exit in the middle | `FileOps`, `FileApply` |
| Starts of an Agent Run | consents, previews, a call in flight | facts that change between consent, check and transaction | `Launching` |
| Tasks and outputs | task, parent, assignments, submission, review, artifact | legal sequences over several rows; conditions written in Go and again in TypeScript | `TaskRecords` |
| Inbox | item, tasks, policy, source | the same, with sources that change or vanish | `InboxRecords` |
| Reminders | schedule, recurrence, occurrence | calendar arithmetic; edits of a series | `ReminderRecords` |
| Invoices and finance | invoice, PDF, payment, manual entry | the same | `MoneyRecords` |
| Focus sessions | session, interval, heartbeat, task minutes | a process that dies under a running session; the same time settled by five commands and derived once more by the page | `FocusRecords` |
| AI work plans | revisions, steps bound to proposals, replacements, closing | the service projects a plan from receipts, the client works the same rules out again and refuses what differs | `PlanRecords` |
| Clients | follow-ups, notes and references, files, the local contact, status, deletion | rules that reach across: status to plans, plans and contact to the person, rows to the deletion | `ClientRecords` |
| Backup and restore | packages, a published plan, the parts that are swapped at a start | renames that a crash, a full disk or a second start interrupts anywhere; answers that say nothing happened | `BackupRecords` |
| Import | a preview, a confirmation, the rows and files of a package | the workspace changes between preview and confirmation; files are published before the transaction commits | `ImportRecords` |
| AI proposals | preview, consents, decision, receipt | the preview is written in Go and demanded in TypeScript, kind by kind | `ProposalRecords`, `ProposalText`, `*Proposals` |

Parts without a module: the
artifact store's own reconciliation, migrations, the supervisor of the desktop
shell, the journals of elevated executions, the delivery of events to automation
rules, evaluations and the knowledge indexer, exports,
the executor's protocol, the harness; of the web UI the pages' layout,
navigation, settings and the workbench. Section 16 says more.

## 3. How the modules compose, and what is next

```
RunDisposition <== AgentRun ------+--- AgentRunReading (what the client reads)
StartGate      <== AgentRunGate --+
AuthorityLease <== AIContinuation
ChatStream
WebCommands --> Refreshing -------------------+
           \--> Editing ----------------------|--------+
Listing --------------------------------------+        |   FileOps --> FileApply
MoneyRecords, TaskRecords, ReminderRecords,   |        |                 |
InboxRecords, FocusRecords, PlanRecords,      |        |                 |
ClientRecords, BackupRecords, ImportRecords,  |        |                 |
ProposalRecords --> Records ------------------+        +-- MCEditing ----+--- Launching
                                          MCReading
```

`<==` is a refinement (`INSTANCE ... WITH` and a PROPERTY), `-->` is EXTENDS or
INSTANCE. `MC*` are the instances for TLC. `AgentRunGate` refers to runs by the
phases of `RunDisposition`, which `AgentRun` implements; that keeps each small
enough to check exhaustively. `MCReading` and `MCEditing` put models that share
no state into one run, each looked at alone (`looksAt`), because they answer one
question: what does the client read, and what does it send.

What the plan names and no module models yet, in this order: `SidecarSupervisor` (events of an old generation change
nothing), `ArtifactStore` (a registered file is on disk), `AutomationDelivery`
(each event once per rule).

## 4. `AgentRun`: the life of an Agent Run

### How it corresponds to the code

| state | code |
| --- | --- |
| `status`, `delivery`, `cancelRequested`, `artifact`, `submissions` | row of `agent_runs`, its `cancel_requested` event, `task_artifacts`, `task_submissions` |
| `task`, `taskVersion`, `taskOpen`, `frozenTask`, `frozenRuntime`, `runtimeVersion` | the task a run was frozen at, and what `validateFrozenAgentRunIdentity` compares: task version and everything else (assignment, adapter, provider, files) |
| `pc`, `claimTry`, `outcome`, `calls` | the goroutine of `startAgentRunWorker` / `executeAgentRun` and its locals |
| `signalled`, `signalDue` | runs whose context is cancelled; cancel handlers that committed and must still signal |
| `launchPc`, `launchIds`, `scanLost` | a call of `launchQueuedAgentRuns` between its scan and its reservations; whether a scan failed |
| `deliveryPc`, `deliveryObject`, `objects` | a call of `withAgentRunOutputTransaction`, the staged file it renamed, the files on disk |
| `process`, `restorePending`, `bootQueue` | the process, the restore freeze, the rows startup still has to recover |

Actions follow the functions of `agent_run_worker.go` and
`agent_run_finalize.go` in the order in which one goroutine passes through them:
`LaunchScan`, `LaunchReserve`, `ClaimRun` (or `ClaimAbandon`,
`ClaimIdentityChanged`, `ClaimFault`, `ClaimBackoff`, `FailQueued`), `Recheck`,
`CallModel`, `ModelReturns`, `FinalizeFailure` or `FinalizeSuccess` with
`BeginDelivery`, `CommitDelivery`, `RefuseDelivery`, `FailDelivery`,
`Compensate`, then `Stage`, `Interrupt` or `FinishWorker`. The owner's commands
are `CreateRun`, `RequestCancel`, `SignalCancel`, `RetryOutputDelivery`;
`ChangeTask` and `ChangeRuntime` are everything else that moves the facts a run
was frozen with. `ScheduleRestore`, `BeginShutdown`, `FinishShutdown`, `Crash`,
`Boot`, `BootRecover` and `BootSettle` are the process.

Where a step begins and ends:

* One connection serves the database, so a transaction is one step. The output
  transaction is split at its COMMIT, because the file was renamed before it and
  the answer of a COMMIT may be lost: `FailDelivery` commits or does not, and
  the code cannot tell. Ambiguous COMMITs are modelled for output and staging,
  where something outside the database depends on them.
* The storage lease of finalization spans its two transactions (delivery, then
  staging); it keeps `ScheduleRestore` out of both.
* Handlers hold the maintenance read lock and are refused once a restore is
  pending. `ScheduleRestore` may come between the commit of a creation and its
  launch, which the lock excludes: a superset of the real behaviours.
* What a pending restore does to the data happens at the next start, outside
  this module; here a start only clears the freeze.
* Output is text (a delivery without an object) or a file. Two finishes of one
  delivery are taken one after the other.
* The request whose compensation a shutdown cuts off behaves like a crash.

### What the runs show

| run | bounds | what it shows |
| --- | --- | --- |
| `agent_run_faults` | one run, three objects, three faults, one change, two stops (38,806 states) | the properties and the refinement of `RunDisposition` under every order of worker, cancellation, redelivery, fault, freeze, crash and recovery, and that every row left is one the client can read |
| `agent_run_queue_live` | two runs of two tasks, one worker, launches from both, one fault that uses up a claim's retries, fairness (86,925 states) | a queued run is taken up and a claimed one settles, although launches decide on a capacity they read earlier |

The bounds are enough for the cases the properties are about. Two runs are the
least number that compete for a worker, and no action involves three; that they
may share a task version or a file is proved for any number. Three objects let a delivery fail, be retried and fail again
with fresh names. Three faults allow a fault in the delivery, in the staging
after it and in the recovery after that; two stops allow a crash during the
recovery from a crash. Retries of a claim are
walked through in the other runs; in `agent_run_queue_live` there are none, so
that one fault makes a worker give up. Objects are interchangeable, which
justifies the symmetry set; the liveness runs do without.

## 5. `AgentRunGate`: waiting for another run

### How it corresponds to the code

| state | code |
| --- | --- |
| `phase` | what `RunDisposition` shows of the row, with the worker between claim and end left out |
| `review`, `sourceDone`, `kept`, `edition` | status of the predecessor's submission; whether its task is done with it; whether its files exist; a number standing for everything the fingerprint of the files covers, the task version included |
| `gate`, `pred`, `require`, `slot`, `expires`, `bound` | the events `agent_run_start_gated`, `..._released`, `..._closed` and their payloads |
| `drifted` | runs whose frozen identity no longer holds for a reason other than the slot |
| `wakeup`, `recPc`, `recNow` | the coordinator's channel, its goroutine, the clock it read |
| `confirmPc`, `confirmRun`, `confirmNow`, `confirmSeen` | confirmation requests in flight |
| `writer` | `maintenance.Lock` of a backup, an import or a restore |
| `launchDue`, `workers` | calls of `launchQueuedAgentRuns` still to come, goroutines that hold a run |

A pass of the reconciler is `StartPass` (token or ticker; the clock is read),
`LockGates` (`gates.mu`), then `SettlePass`, `SkipPass` or `FailPass` (lease and
transaction in one step), then `LaunchReleased`, still under `gates.mu`.
`SettlePass` writes the loop over the open gates as a fixed point: `Verdict` is
one turn of the loop, and `ClosedByLoop` says which sets of closed gates the
loop produces when it visits gates in creation order; there is exactly one. A
confirmation is `Admit` (middleware, clock), `ConfirmLock`, `ConfirmRelease` or
`ConfirmRefuse`, `ConfirmLaunch`. `GatesFree`, `CanRead` and `ReadersGone` are
the two locks; a writer that waits holds back new readers, as `sync.RWMutex`
does.

Simplifications: a commit and the wake-up after it are one step; worker capacity
never binds (`AgentRun` is about that); the reasons of a closure are dropped;
runs are created in the order of their numbers, so a wall clock that goes
backwards between two creations is not modelled; a restore that is applied at a
start changes the data outside this module.

### What the runs show

| run | bounds | what it shows |
| --- | --- | --- |
| `gate_slot` | two runs, two confirmations, one edit, deletion or drift, one crash, expiry at the first tick | the safety properties, with showing, confirming, binding and claiming files as separate moments, and what the client says of it all (648,452 states) |
| `gate_live` | two runs, one maintenance command, one failed pass, one crash, fairness | gates settle, released runs are taken up |
| `gate_circle` | two runs, one confirmation, one maintenance command | a counterexample (section 14) |

Two runs are a predecessor and a successor; every property except
`PassLeavesNoDeadGate` is about one such pair, and the theorems hold for any
number, so also for the chains and forks of a pass, in which a run that is
cancelled is the predecessor of another gate. One edit suffices
because each property needs one change at one of several moments, and TLC tries
each moment. Confirmations are interchangeable, hence the symmetry set in
`gate_slot`.

## 6. `AIContinuation`: going on without the person

A person may let the assistant go on with the plan of a saved session: a lease
with a number of turns, an expiry, a frozen provider and scope, and perhaps the
permission to outlive the process. One coordinator goroutine scans the active
leases; for a lease that may go on it launches a worker, which has one
generation accepted, runs it and writes what became of the lease.

### How it corresponds to the code

| state | code |
| --- | --- |
| `status`, `turns`, `current`, `seen` | row of `ai_continuations`: status, `turns_started`, `current_generation_id` (as the turn it belongs to), `last_observation_hash` |
| `generation` | `ai_generations.status` of the generation of each turn |
| `plan`, `facts` | what `observeAIContinuation` finds: the reason, and a counter of its changes in place of the hash |
| `authorized`, `expired` | whether `validateAIContinuationIdentity` still passes; whether `expires_at` is over |
| `backups` | copies of those rows in backups |
| `pc`, `turn`, `refusal`, `signalled` | a worker: the goroutine of `launch`, the turn it had accepted, why it had none, whether its context is cancelled |
| `revoked`, `closing` | the coordinator's tombstones and its cancelled context |
| `scan`, `scanRows`, `scanRunning`, `scanFresh`, `scanAt` | the list a scan read, the rows it read as running, those not written since (`version`), the row it is at |
| `stopPc` | a stop between revocation, commit and signal |
| `chats` | manual generations in the registry `aiGenerations.active` |
| `issued`, `accepted`, `calls`, `answered`, `unrecorded` | observers: what has ever happened, whatever the rows say later |

`ScanBegin` reads the list; every listed row is skipped, given up
(`ScanOrphan`), or judged by one transaction (`ScanVisit`, then one of the
`Judge...` actions, one per outcome), and perhaps launched (`Launch`) by a step
of its own, because the guards of `launch` are asked under another lock. A worker
is `Accept` or one of the refusals, `CallModel`, `ModelReturns`, one of the
`Finish...` actions, `WorkerExit`. `beginMu` makes acceptance one step for all
generations. A stop is `StopRevoke`, `StopCommit`, `StopSignal`; cancelling the
generation of a turn starts at `StopCommit`.

Simplifications: the reasons of a waiting lease, open access requests, proposals
and runs are folded into five observations; facts never return to an earlier
value; a model call is one execution of the tool loop; deleting a session and
delegations are left out; a COMMIT whose answer is lost is not modelled here;
the registry entry of a generation ends with its last write. A restore brings
back rows, not facts. A maintenance command waits for the scan, which holds the
read lock, so `TakeBackup` and `ScheduleRestore` come between scans.

### What the properties say

`WaitingIsSettled`: a waiting lease has no turn in doubt. `BudgetKept`: calls,
turns and facts are counted by observers, so that a restored row cannot hide
what was spent. `ChatsYield` relates registry, rows and messages. `NoCallAfterStop` and the theorem
`EndedLeasesAreFinal` are about everything that may come late:
a worker, a scan's old list, a restored database. `LeaseKeepsItsPromise` is the
refinement of `AuthorityLease`. The live properties are `TurnsEnd`
and `ExpiredLeasesEnd`.

### What the runs show

| run | bounds | what it shows |
| --- | --- | --- |
| `continuation_lease` | one lease, two turns, two sessions and one provider for messages, one change of facts, one stop of the process, one backup (1,312,100 states; the second session's facts stay as they are) | the safety properties and the refinement, whatever is restored or cut off |
| `continuation_live` | one lease, two turns, one change, two faults, fairness | failed transactions: a waiting lease has no turn in doubt, turns and expired leases come to an end |
| `continuation_replay` | one lease | a counterexample (section 14) |

Two turns are needed for a second turn to rest on the outcome of the first, and
a restored row to be older than the turns begun; one change of facts justifies
the second turn and a third is refused. That leases do not
get in each other's way is proved for any number of them. One
backup and one stop can be combined in every order within one behaviour. Faults
have their own run: two lose the result of a turn and then a verdict of the
scan. Faults together with a restart are covered by the theorems, which bound
neither.

## 7. What the client reads of a run: `AgentRunReading`

`AgentRunReading` is the parser of `api/client/agentRuns.ts` (which columns may
be set together, which gate and slot belong to which row, which files a detail
lists) and `agentRunLifecycle` (the phase a person is told, whether it needs
them, whether it is over). It has no state: `AgentRun` and `AgentRunGate` hand it
the row as the service has written it so far. `EveryRunIsReadable` demands of
every reachable row of `AgentRun` that the parser takes it and that the client
asks again exactly as long as it does not call the run over. `ShownEndIsFinal`
demands of `AgentRunGate` that row and gate, written by different hands under
different locks, can be read between any two of their writers, and that the
client never takes back what it said of a run that is over.

## 8. `ChatStream`: the chat of one window

A message is sent under a request identity made for its text; the answer is
streamed; the stream may be stopped, cut off, or end while a lookup of the
generation is under way; another window or a continuation lease may have a
generation running that looks like this window's.

| state | code |
| --- | --- |
| `generations`, `background`, `late` | rows of `ai_generations`; whether the one from elsewhere is a lease's turn; requests given up by the window that may still arrive |
| `draft`, `requests`, `uncertain`, `saved` | the text and its revision; the identities made; `uncertainRequest`; the identity in session storage |
| `call`, `streaming`, `retained`, `outcomes` | the stream being read; what the page shows as running; the ended turns it shows; the drafts of sends that have ended |
| `recovery`, `owed` | a lookup and how far it is; that one is due |

Steps are the continuations of `send`, `stop`, `recover` and their awaits in
`store/aiChat.ts`. `ShownTurnsAreTrue`: stream and lookup never contradict each
other. `OnlyAcceptedIsCleared`: a draft is cleared only when its message has
arrived. `RunningEnds`: what is shown as running ends, unless stop is pressed for
ever. Run `chat_stream`: two requests, two revisions, three inputs, one fault
(756,729 states). Two requests are the least of which one may be late; the third
input is a text typed while one is on its way.

## 9. `Refreshing`: one cached read and a command

`WebCommands` begins with the tables of `api/hooks/invalidation.ts`: which
families of reads a refresh cancels, reads again or only marks. Then it has a row
for every group of command hooks of `api/hooks` that do the same: whether they send
a version and a key, what their answer writes into the cache, what they refresh
after success and after each kind of failure. Moving a task to another day is such
a row: what it refreshes is modelled, that one of its three requests may be refused
after another was accepted is not. `Refreshing` puts one cached read and one command together:
the read is sent, answered by the service, arrives or fails; is polled, left and
shown again; the command commits, is refused or loses its answer, and its hook
runs. It is checked for each of the *roles* the table produces (what a command
does to a family: 101 different ones).

`RefreshedIsNotStale`: what a hook refreshes and is still older than the commit is
marked, so no page takes it for current. `NewerReadIsNotForgotten`: an answer
does not replace a newer read for good; three hooks without a net are named in
the property. `ShownCatchesUp`: a page that stays comes to show the effect.
React Query is external and modelled by what the hooks use of it: joining a
first fetch, cancelling, marking, reading again what is shown.

## 10. `Editing`, `FileApply` and `Launching`: what is sent

The table of `Editing` has a row for every form, button and drag: which version
it sends (the one it was opened on, the page's newest, or the opened one raised), what a
newer read does to what is typed, what a conflict does. `Editing` is one of them
over one record with its key and its request; the service knows keys and
versions. `AppliedOnce`: an input that is sent again is carried out once.
`NothingIsOverwrittenUnseen`: a command that is carried out replaces a version
the form showed or announced. `DraftsSurvive`: a read does not take what is typed.
`ConflictIsNotADeadEnd`: sending again after a conflict is not in vain. Each
names the traits for which it does not hold; those are what the code does, seen
in the table.

`FileOps` is the desktop's side of a reviewed file write (eight baselines that
expire, one operation at a time, the exchange that compares once more) with the
reminders in local storage; `FileApply` is the store above it with its
continuations: an answer may arrive after the review was closed, expired or
replaced. `BaselinesAreHeld`, `ShownOutcomeIsTrue`, `UnseenOutcomeIsListed`,
`WritesReviewedBytesOnce` are about what is left behind, what is said, what is
remembered over an exit, and what is written.

`Launching` is one Agent Run on its way from the client: started, started anew
from an old run, or retried, with files, files of other tasks and a rework that
each need a consent of their own. A fact (`Facts`) is a version; another window
may change it at any time (`Edits`, `Reassigns`), the form reads it again at any
time (`Reads`), a read takes consents back (`Cleared`) or overtakes the call
under way (`Overtaken`, the `epoch` and `owner` references of the components), and
the form reads once more before it sends (`Checks`, `SendsStart`). The service
freezes the files, the sources and the rework as they are when it creates the
run (`Freezable`) and refuses what it was not told (`Identity`, `Fingerprint`).
`LaunchesAreAgreed`: what a run is made of is what each consent was given for.
One call per form: a form opened again while an old call is under way waits for
it. The readiness of the Agent and the room in the queue are failures that may
come at any time. The retry of an old plain run (`again`) asks nothing, so it is
held to all the old run was started with; a plain start confirms no provider.

Run `editing` has the three, each looked at alone (512,782 states; in
`Launching`, every fact changes once): every form with
three versions and three keys, which is a first attempt, a resend and a new
input; one path with two runs, three baselines of which two are kept at once,
two operations, one reminder, one outside edit, two calls in flight, one exit.
Two runs and three baselines are the least for a second review to begin while
the first one's answer is on its way; a cap of one reminder lets the second
operation push the first off the list.

## 11. `Listing`: one list, read page by page

The table of `Listing` has a row for every list of the client: how strictly an
answer is taken, whether the service counts and reads in one transaction, whether it is paged,
grown or walked to its end, what brings a page past the end back. `Listing` is
one list while others add and remove rows. `ReadToTheEndIsWhole`: a list read to
its end shows every row that was there all the time; what hides a row is named
per kind. `OnlyTornAnswersAreRefused` (in `AnswersAreTaken`): a reader refuses
only answers put together while rows changed. `PageComesBack`: a page past the
end is left. One row per page, rows that come and go twice.

## 12. `Records`: one row under its legal commands

A module per domain has the commands the service takes (`Accepts`), what they do
to the row and to the rows that move with it (`Next`), what the strict reader of
the client demands (`Reads`), the buttons that are enabled on it (`Offers`), and,
for six of them, what the client demands of an answer or a person may expect of it (`Answers`).
`Records` puts them behind one interface: `Moves` changes the row and reads it
again, `Press` presses an enabled button upon the row as it is; `screen` is what
the client has made of it.

| domain | what is followed |
| --- | --- |
| `MoneyRecords` | an invoice with dates, PDF, payment, due item and its entry; a manual entry |
| `TaskRecords` | a task with its policy, assignee and reviewer, submissions by hand and by finished children, one artifact with its integrity and deletion |
| `ReminderRecords` | a reminder or series on a calendar of three months: rule, anchor, occurrence, inbox item, automation |
| `InboxRecords` | an item of any of thirteen sources, with two tasks, policy, resolution, snooze, edits and deletions of its source |
| `FocusRecords` | a Focus session under every order of ticks, heartbeats, restarts and commands: time settled, time shown, minutes credited |
| `PlanRecords` | a work plan of up to three steps in two turns, written revision by revision: bindings, replacements, runs that fail or are kept back, a proposal beside the plan, a deleted task, a lease, closing |
| `ClientRecords` | a client with two rows of any kind (plans, notes, references, files, contacts), one local person, a bill; every command of its page |
| `BackupRecords` | a restore from its planning to a verified or returned workspace: swap of the parts, crash, full disk, second start, cleanup, quarantine, the recovery page |
| `ImportRecords` | an import from preview to commit: schemas, conflicts, rows kept and left out, files, a workspace that changes in between, compensation and start after a crash |
| `ProposalRecords` | a proposal of any kind: preview, consents, decision, drift, receipt; the previews themselves, kind by kind, in `ClientProposals`, `WorkProposals`, `MoneyProposals`, `RunProposals`, `TaskProposals`, `LocalProposals` |

`ClientReadsEveryRow`: the reader takes every row that legal commands can make;
one refused row takes the whole list with it. `OffersAreHonoured`: an enabled
button on an up-to-date row is a command the service takes. `AnswersAreBelieved`:
what took effect is never shown as failed; a confirmed proposal does what its
card showed under every consent it asked for; no command, crash or recovery moves
the time a Focus session shows, but for the gap it says it drops; a plan is
complete only when every run it lost was carried on, and closing one leaves
nothing at work; after any number of failed starts a service that is up has all
the parts of the old workspace or all of the restored one; an import writes over
nothing a person made and leaves out no more rows than it showed.

The domain modules have no constants but two calendars and a clock, and bounds
for a plan's steps and turns. Clients, backups and imports have bounds of their
own, named in them: two rows of a client and one person beside the owner; three
parts of a workspace (the avatars move as two of them do), one backup, no new
plan once a cleanup has failed, a package spoiled only before anything was
planned; packages with one feature at a time, two rows of the person's own,
always room for the rollback backup. But for these and for plans, what TLC
explores is not a sample of them: it is all there is. Two rows of a client are a plan and the
one it was rescheduled from, or a plan and a contact that hold the same person. Three steps are the least for a replacement to be
replaced, two turns for one to fail after another; a clock of five seconds lets a
session of three outlast its plan on either side of a restart. `LastDay = 3` gives an invoice a due
day before, on and after its issue; three months of three, two and three days
have an anchor that a shorter month clamps and a longer one restores.

Run `reading` has sections 9, 11 and 12, each looked at alone (565,784 states).
`proposal_receipts` is the counterexample of section 14.

## 13. Fairness

The live specifications assume weak fairness of goroutines that can run:
workers, launches, open deliveries, passes of the reconciler, confirmations that
have been admitted. The executor returns by its deadline. Weak fairness of
`Boot` and `Startup` says that a stopped sidecar is started again; without it
nothing durable could ever be finished, and the supervisor of the desktop shell
exists for it. Strong fairness appears only for the two acquisitions of
`gates.mu` (`LockGates`, `ConfirmLock`): Go's `sync.Mutex` hands the lock to a
waiter that has starved for a millisecond. The ticker of the coordinator makes
`StartPass` fair without a wake-up; the variant without a ticker violates
`GateSettles`, since withdrawing a submission wakes nobody. The clock moves. In `AIContinuation` the
coordinator is one goroutine behind a ticker and a worker's context ends with
its deadline at the latest, so both are weakly fair; its live run does not stop
the process. No fairness is assumed of the owner, of maintenance commands being issued, of
storage faults or of stops, and all of them are bounded.

The liveness properties except the workspace that waits for a restore
(`restorePending`), because the code freezes it until a restart, and, for the
queue, a scan that failed (`scanLost`), because the code leaves the row to the
next launch.

In the web models: `Refreshing` assumes that the service answers a read, the
answer arrives, and commands are answered; `Editing` that reads which are owed
are made and a conflict is delivered; `Listing` that reads are answered, and
strong fairness of `SettlePage`, because an effect runs after the render of every
answer, so polls cannot keep it away; `ChatStream` that streams and lookups move
on. None assumes that a person acts.

## 14. What the models found

Three counterexamples, each the run of a finding:

* `gate_circle`: the reconciler waits for the maintenance read lock while it
  holds `gates.mu`; confirmations take the two in the opposite order. A
  maintenance command that starts to wait in between closes the circle, and the
  sidecar stands until it is killed. ADR-030 says that reconciliation is skipped
  under the maintenance lock.
* `continuation_replay`: a comment says a running lease with no worker is never
  replayed. The scan asks that of the copy it listed. If the turn was accepted
  afterwards and its result could not be written, the same scan finds the row
  running and unowned, may write it back to waiting, and the next scan begins
  another turn. `WaitingIsSettled` and `RunningIsOwned` except leases whose
  result could not be written (`unrecorded`) for this reason only.
* `proposal_receipts`: a confirmed proposal that stopped several runs, or opened
  a child conversation, cannot be read any more once a run or the conversation is
  deleted, and the list of its whole generation with it. A comment at
  `ai_agent_run_actions.go:968` says of the same deletion that the receipt is
  omitted instead; the two other readers pass the error on
  (`ai_agent_run_batch_cancel.go:172`, `ai_agent_delegation.go:337`).

The counterexamples violate one property each, used nowhere else. Liveness
of `AgentRunGate` is checked with a maintenance command and no confirmation:
with both, the circle is the only obstacle left, and it is one. `gate_slot`
has the confirmations.

The tables of `Editing` and `WebCommands` show, form by form, where a promise
is not kept; each property of section 10 and 9 names the traits it excepts.

Disagreements between service and client, or between code and documents, that
are part of the models' behaviour and that no run is spent on. Of proposals:

* a person's name or a change of it is stored with its blanks and refused by the
  client's reader (`ai_person_actions.go:78`, `clientProposals.ts:128`);
* `knowledge_source.create` leaves out a flag the reader demands
  (`ai_knowledge_source_actions.go:104`, `knowledgeProposals.ts:53`);
* a `roadmap_milestone.move` of a milestone with a title of one letter is refused
  by the reader;
* `task.batch_create` stores a draft with the blanks around an enumerated value,
  which the service trims when it executes it and the reader refuses;
* `project.complete` confirms the number of open tasks as newly counted, not as
  shown (`Answers` excepts it);
* `countAIAgentDelegations` counts pending delegations of generations that are
  over (`ai_agent_delegation.go:210`).

Of rows:

* an inbox item of a client follow-up or of a content item whose due time is
  edited, or one of an invoice or a milestone whose due time is cleared, is
  accepted by service and dialog and refused by the reader
  (`InboxItemDetailModal.tsx:490`, `inbox.ts:241`, `docs/modules/inbox.md:137`);
  `InboxRecords` carves it out as `Redated`;
* "resolve" is offered on an item whose policy refuses it, and the due field of a
  `project_completion` item is enabled and refused; a reminder's item loses the
  link to its source after an edit of its due time; the link of an item of an
  automation outlives its project;
* an edit of a reminder's title alone sends the occurrence's time and moves the
  anchor of a monthly series to a shorter month's last day
  (`ReminderManagerModal.tsx:425`, `reminders.go:795`, `docs/modules/reminders.md:31`);
  `MonthlyDateIsKept` states it and is in no run.

Of work plans, left out of `PlanRecords` where it says so:

* a confirmed `agent_run.cancel_many` counts as done for its step and as evidence
  that cannot be read for the check of the plan (`ai_work_plan.go:552`,
  `ai_work_plan_continuation.go:236`): such a plan is never continued or closed;
* the page offers closing, "mirrors the server gate", where a step has no evidence
  any more; the refusal names other reasons (`AiWorkPlan.tsx:300`, `:225`);
* a plan whose replaced run is deleted with its task is not projected any more, and
  the queue of all plans fails with it, where the comment on the card of a run says
  "omit it instead of poisoning the whole envelope" (`ai_agent_run_actions.go:970`).

Of restores and imports; none makes a mixture, which is what `Answers` of the two shows:

* where the rename that publishes a restore plan succeeds and the directory
  cannot be synced after it, the answer is that nothing was scheduled, and the
  next start restores (`backup_restore.go`, `publishPendingRestore`); `BackupRecords` has what a person
  did in between replaced in this case alone;
* scheduling the same backup again after that keeps the rollback backup of the
  first, so what was done between the two is in neither;
* a damaged pending or rollback package makes every start fail, and the recovery
  page refuses other backups while the plan is there;
* a crash between the two renames of a part is "ambiguous" to the next start,
  which returns everything and puts the plan in quarantine;
* `confirmedBusinessImportPlan` takes any digest where the new plan leaves nothing
  out, and the digest has the numbers of rows, not which they are; `Promised` says
  what holds;
* a child task whose parent is in the workspace already cannot be added, and an
  automation a person touched makes every package a conflict;
* after a failed compensation the file in the way refuses further previews until
  the next start tidies up.

Of the page of a client, texts that the model leaves out: the channel of a
follow-up may have 100 characters in the form and 80 in the service, and the
form takes addresses that `mail.ParseAddress` does not.

Of reads, forms and lists:

* `docs/modules/content-calendar.md:51` says a refused command keeps what is
  typed; the page remounts the form on every newer read (`ContentCalendarPage.tsx:888`);
* `docs/modules/clients.md:97` says an upload that is retried reuses its key; once
  the client has been read anew, the retry has another version and another key
  (`ClientAttachmentsSection.tsx:97`);
* `docs/modules/clients.md:106` says that after a conflict the timeline is read
  again and the person confirms again; the open form keeps the version it was
  opened on, so confirming is refused again (`ClientActivitiesSection.tsx:209`);
* a request whose fate is unknown is forgotten when its resend is refused, though
  the first may still arrive (`aiChat.ts:676`);
* `getAllTags` may show a tag twice or miss one, since it takes whatever comes;
* the reader of the agents' inbox does not know the kind `adapter_issue`
  (`aiAgentInbox.ts:690`).

Of the service:

* `docs/modules/local-agents.md` (line 347) gives a process three retries of a
  failing claim. The worker that gives up launches the queue on its way out and
  reserves the same run again, with a fresh budget (`FinishWorker`,
  `LaunchReserve`). `agent_run_queue_live` shows that the run is taken up.
* ADR-030 (line 51) says that a gate past its `expires_at` is always closed. A
  pass compares with the clock it read before it waited for its locks
  (`StartPass`, `SettlePass`); after a long backup it may release such a gate.
* `docs/modules/ai-assistant.md` (line 525) says that an ordinary shutdown keeps
  waiting leases without a current generation that chose to outlive the process.
  A worker that was launched but has had nothing accepted is cancelled by the
  shutdown and interrupts its lease on the way out (`FinishCut`); a scan cut
  short stops one whose knowledge sources it was looking up.

A proof attempt that failed also found a fault of the models themselves: several
`CASE`s had guards that overlap. TLC takes the first that holds; the language
leaves the choice open, and a proof has to consider every one. They are chains of
`IF` now, and the runs have the same numbers of states as before.

## 15. What is proved

The constants are arbitrary up to the named assumptions: any number of runs,
tasks, objects, confirmations, leases, sessions, providers, faults and stops
(`ConstantsAssumption` in each service module); any number of versions and keys
and any set of forms whose traits combine as `FormsAssumption` says (TLC evaluates
it on the table of all forms); any paths, baselines, operations, caps, runs and
calls (`FileOpsAssumption`, `FileApplyAssumption`, `NoRunAssumption`: identities
are positive numbers, the sets of operations are finite, caps are positive); any
number of foreign writes (`MaxForeignAssumption`) and of changes to what a start
rests on (`LaunchingAssumption`); any number of requests,
revisions and faults of a chat (`ChatAssumption`); any page size and any list to
begin with, as long as rows are numbered in the order of their creation
(`ListingAssumption`); any last day of the invoices' calendar, any months of at most
31 days, and any length of a session and of a minute (`CalendarAssumption`).

The three service modules' proofs have the same plan. *Frame lemmas* say
which actions touch which group of variables, so that each later lemma looks at
a handful of actions. *Move lemmas* then say what one step does to one run
(`RowMoves`, `PcMoves`; `EveryRunMoves`, `ReviewMoves`, `KeptMoves`;
`EveryLeaseMoves`), and the
preservation of each part of the invariant follows from the moves of the one or
two runs or leases it is about.

`AgentRun!InductiveInvariant` strengthens the safety properties by: which
program counters own a claimed row (`WorkerOwnsRow`), what an open output
transaction implies (`OutputTransaction`), that every result was asked for
(`ModelAsked`), that submissions and artifacts appear with the status
(`RowsAgree`), which columns each status has set (`ColumnsAgree`: the parser's
rules follow from it), whose file is whose (`FilesOwned`), and which versions open
deliveries answer (`VersionsAnswered`). Without `WorkerOwnsRow`, a recovered row
could meet a worker that still believes in it; without `FilesOwned`, a
compensation could discard a committed file.

`AgentRunGate!InductiveInvariant` adds the creation order (a predecessor is older
than the run that waits, which makes the cascade of a pass well founded), the
shape of gates and slots, and the shape of confirmations in flight (what a
person has seen is among what was agreed to). `ShownEndsAreFinal` follows from it
with lemmas about one step: the columns of a phase (`ColumnsOfPhase`), rows stay
readable (`RowsStayReadable`), a run said to be over is in an end phase
(`ToldOfAnEnd`), ends stay (`EndsStay`), and a reason given changes only from the
client's own guess to the same words written down (`ReasonMoves`).

`AIContinuation!InductiveInvariant` adds that an ungranted lease has left no
trace, not even in a backup (`UngrantedIsUntouched`), that the row of an active
lease agrees with what was ever begun (`ActiveIsAccounted`; a restored row of an
ended lease may not, and for that reason a restored lease must not be resumed),
whose turn is whose (`WorkersOwnTurns`, `RunningIsOwned`), that nobody else
launches the lease the scan is at (`ScanIsAlone`), and that an answered stop has
ended the lease and signalled its worker (`StopsAreKept`).

`EditingProofs`: the two action properties follow from the type invariant and
lemmas that say what a read does to an open form (`ReadsFollow`). `AppliedOnce`
needs where a key comes from and whom it is for: a key in flight or carried out
is the attempt's, made for the input that is typed, until the form is closed.

`EditingProofs!LaunchInv`: a consent the form holds was given to what the form
shows (`ConsentsAreSeen`), a preview is of all that is involved
(`PreviewsAreWhole`), a call carries the consents that were given to what it was
told (`CallsAreSeen`), and a call that nothing has overtaken belongs to an open
form (`LiveIsOpen`). Without `CallsAreSeen` the service's checks would compare the
world with a version nobody agreed to.

`FileApplyProofs!FileInv`: what a review says of its operation (`Reviewed`); what
each continuation still in flight knows and whether it is the review's own
(`Called`); that an operation is in the hands of one call (`Single`), what the
desktop has in hand was asked for by a call that waits (`Handed`), and how
reminders follow operations (`Remembered`). Without `Single`, two continuations
of one review could each believe the outcome is theirs to tell.

`ReadingProofs!CacheInv`: every write has one number (`Counted`), how far the
command is (`Phased`), that until the hook runs the read shows the newest that
was read (`Ordered`), and `Caught`, which adds to the property that no older
answer is on its way: an answer in flight is what makes the property itself not
inductive. That the table of hooks keeps `NewerReadIsNotForgotten` is proved
for each command of the table (`Sound`), not enumerated by TLC.

`ChatStreamProofs!ChatInv`: identities named anywhere were made (`Known`), the
call is for the request whose fate is unknown and its end is not shown yet
(`Current`), a request that may still arrive is not one whose end is shown and
forgotten (`Spent`), and what a lookup has come back with (`Looked`), which is
the part an interleaving breaks first.

`ReadingProofs!ListInv` says of the pages read so far what will make the list
whole: for grown lists every row up to the offset (`GrownSoFar`), by cursor every
row down to the last one (`CursorSoFar`), for the walk with one total that rows
only came or only went, so the list had this length all along (`SteadySoFar`),
for the loose walk something only while nothing changes (`LooseSoFar`).
`OnlyTornAnswers` needs that an answer whose two halves were read with nothing in
between is a page of the list as it was then (`AnswersSound`, in `RefusalInv`).

`RecordsProofs!RecordsInv`: for each of seven domains an invariant over the
columns of its row, from which three things follow: the strict reader takes the
row, the service takes whatever is offered upon it, and what a step answers is
what the client demands. The invariants are what the commands of a domain
silently rely on in each other: that a task handed in by its children has no
artifact of its own (`SubmissionHolds`), that an inbox item that resolved
automatically has its required tasks done after every cascade (`ItemRowHolds`),
that the minutes credited for a Focus session are the whole minutes of the seconds
worked however often a rest is carried over (`WholeMinutes`), that a client's
follow-up that came out of another names one of the rows (`RowsHold`). For a restore it is that
while there is a plan each part is where it was or lies beside what replaces
it (`PartsHold`), so that a start that dies between any two renames, a rename that
fails and a second attempt all leave something to put back; and that a rollback
that is not stuck has put back every part it passed. TLC has checked `RecordsInv`
on the instance of the run (202,742 states of all ten domains).

| theorem | where |
| --- | --- |
| type correctness, inductive invariant | the three service modules; type correctness in five of the web modules |
| accepted cancellations are honoured; the model is asked at most once; one submission; artifacts are backed by files; one answer per version; no claimed run is abandoned; dispositions are final; the worker limit; every row can be read | `AgentRunProofs` |
| gated runs start only released; releases are earned; claimed files are the confirmed ones; bound files are kept; chains settle whole; what is shown of an end is final | `AgentRunGateProofs` |
| waiting leases are settled; the budget is kept; chats and leases yield; ended leases are final; stops are heeded | `AIContinuationProofs` |
| `AgentRun` implements `RunDisposition`, `AgentRunGate` implements `StartGate`, for every run; `AIContinuation` implements `AuthorityLease`, for every lease | all three |
| overwrites are seen; drafts are kept; inputs are applied once; runs are made of what was agreed to | `EditingProofs` |
| shown outcomes are true; unseen ones are listed; baselines are given back; reviewed bytes are written, once | `FileApplyProofs` |
| refreshed reads are not stale; newer reads are kept; lists read to their end are whole; only torn answers are refused | `ReadingProofs` |
| shown turns are true; only accepted drafts are cleared | `ChatStreamProofs` |
| rows are read, offers are taken and answers hold for invoices, reminders, tasks, inbox items, Focus sessions, clients and restores | `RecordsProofs` |

Several of these are proved and in no run, because a stronger property of the
same run implies them on the small instance: at most one model call, one
submission, one answer per version, no abandoned run, final dispositions, the
worker limit, released starts, final ends of leases.

Only model-checked, and why:

* liveness (`ClaimedRunSettles`, `QueuedRunIsTakenUp`, `GateSettles`,
  `ReleasedRunIsTakenUp`, `TurnsEnd`, `ExpiredLeasesEnd`, `ShownCatchesUp`,
  `PageComesBack`, `ConflictIsNotADeadEnd`, `RunningEnds`): TLAPS does not reason
  about `ENABLED` and fairness;
* `ClientReadsEveryRow`, `OffersAreHonoured` and `AnswersAreBelieved` for three of
  the ten domains: work plans, proposals and imports. Their models have no
  constants, so TLC checks them completely. What a plan's reader demands is an
  equality of two recursive walks over chains of replacements, and what an
  import's reader demands is an equality of sums over tables: both would need
  induction over data. A proposal's rules are those of every command it can stand
  for, a case analysis of two thousand lines of model;
* `AnswersAreTaken` as a whole: its two halves are theorems, `OnlyTornAnswers` for
  every list and `RowsAreRead` for the seven domains.

## 16. What is not modelled

The parts at the end of section 2, and by decision: the content of
prompts, answers and files; the wording of errors; the HTTP protocol; the
executor's framing; layout and navigation; single-transaction commands of
domains whose rows have no rules across columns. Start gates do not appear in
`AgentRun`, and the details of a worker do not appear in `AgentRunGate`: the two
meet in the phases of `RunDisposition`. Not modelled in either: the limit of
admitted runs under concurrent retries of the same idempotency key, wall clocks
that go backwards, and two sidecars on one workspace, which `internal/runlease`
excludes.

In the web models: that the three requests which move a task to another day may be
refused or lost one by one; forgetting a conversation; the streamed text and the side
panel; the limit of retained turns; React Query's copies of pages that were left;
the walks of the page of the day; changes of filter of a paged view; what a picker
picks; `recovery_required` and `already_recorded`, which count as an uncertain
outcome of a file write; that a row read twice is shown once. Of proposals:
generic inbox creations, the confirmation of a batch of delegations, the recheck
after a conflict, the footer of a continuation. Of clients: the version a command
sends (a trait of `Editing`) and the inbox item of a follow-up (`InboxRecords`). Of
backups: the making, verification and scheduling of packages, which the restore
takes as sound or spoiled.
