----------------------------- MODULE Refreshing -----------------------------
(* One cached read of the web client while a command changes what it shows:  *)
(* the read is fetched, left in flight, polled, left by its page and shown    *)
(* again; the command commits, is refused or loses its answer, and its hook   *)
(* then writes and refreshes the cache. The cache itself (React Query) is     *)
(* external and modelled by what the hooks use of it.                         *)
EXTENDS WebCommands, Integers

CONSTANT MaxForeign    \* writes of the record by anyone else
ASSUME MaxForeignAssumption == MaxForeign \in Nat

ClientCommands ==
  {CreateClient, UpdateClient, DeleteClient, CreateClientFollowup, FollowupCommand,
   CreateClientActivity, ClientActivityCommand, ClientAttachmentCommand,
   ClientActorLinkCommand}
ProjectCommands ==
  {CreateProject, UpdateProject, DeleteProject, TransitionProject(TRUE),
   TransitionProject(FALSE), ProjectAttachmentCommand, CreateProjectNote,
   ProjectNoteCommand}
TaskCommands ==
  {CreateTask, TaskLifecycleCommand, UpdateTask, DeleteTask, SetTaskPlannedDate,
   MoveTaskAcrossPlans, TaskOrderCommand, ReorderTaskWithinPlanStatus, SubmitTaskOutput,
   ReviewTaskSubmission, DeleteTaskArtifact, AssignmentCommand}
ReminderCommands ==
  {MarkAllInboxItemsRead, CreateReminder, UpdateReminder, CancelReminder}
MoneyCommands ==
  {CreateInvoice, UpdateInvoice, DeleteInvoice, GenerateInvoicePdf,
   TransitionInvoice(TRUE), TransitionInvoice(FALSE), CreateFinancialEntry,
   FinancialEntryCommand}
PlanningCommands ==
  {CreateRoadmapMilestone, RoadmapMilestoneCommand, ReorderRoadmapMilestones,
   CreateContentItem, ContentItemMutation, LinkContentItemTask, DeleteContentItem,
   CreateTag, TagCommand, CreateTaskSavedView, TaskSavedViewCommand,
   AutomationRuleCommand}
WorkspaceCommands ==
  {CreateFocusSession, SimpleFocusCommand, RecoverFocusSession(TRUE),
   RecoverFocusSession(FALSE), FocusEndCommand, CreatePersonActor, UpdateActor,
   RegisterAgentAdapter, CheckAgentAdapter, SetAgentAdapterEnabled, UpdateSettings,
   UpdateBackupPolicy, CreateBackup, VerifyBackup, ScheduleBackupRestore,
   DeleteBackup, ImportCommand}
AssistantCommands ==
  {RetryAgentRunDelivery, ConfirmAgentRunStartGateInputs, AgentRunEnds, CreateAiMemory,
   RejectAiMemoryProposal, DeleteAiMemory, CreateAiProvider, AiProviderCommand,
   DeleteAiProvider, CreateAiSession, DeleteAiSession, AttachTaskToAiMessage,
   ConfirmAiMessageTask, CreateAiEvaluation, CreateAiEvaluationReview,
   CancelAiEvaluation, DeleteAiEvaluation}
TaskBatches ==
  {BatchUpdateTasks(h, F) : h \in BOOLEAN,
     F \in {{}, {"focus_report"}, {"focus_history", "focus_report"}}}
InboxCommands ==
  UNION {{CreateInboxItem(p), UpdateInboxItem(p), InboxItemCommand(p), InboxTaskCommand(p),
          SplitInboxItem(p)} : p \in BOOLEAN}
AutomationRetries == {RetryAutomationRun(t) : t \in {"task", "inbox_item", "reminder"}}
Decisions == {DecideAction(facts) : facts \in ActionFacts}
Commands ==
  ClientCommands \cup ProjectCommands \cup TaskCommands \cup ReminderCommands
    \cup MoneyCommands \cup PlanningCommands \cup WorkspaceCommands \cup AssistantCommands
    \cup TaskBatches \cup InboxCommands \cup AutomationRetries \cup Decisions

\* What a command is to one family.
Role(c, f) ==
  [versioned |-> c.versioned,
   own |-> IF f = c.own THEN f ELSE "other",
   store |-> IF f = c.own THEN c.store ELSE "kept",
   done |-> Effect(c.done, f),
   failed |-> [k \in ErrorKinds |-> Effect(c.failed[k], f)]]
Roles == {Role(c, f) : c \in Commands, f \in Families}

VARIABLES role, server, foreign, cmd, copy, past, raced
vars == <<role, server, foreign, cmd, copy, past, raced>>

NoData == -1
Init ==
  /\ role \in Roles
  /\ server = 0 /\ foreign = 0
  /\ cmd = [phase |-> "idle", commit |-> 0, error |-> "none"]
  /\ copy = [data |-> NoData, marked |-> FALSE, shown |-> FALSE, fetch |-> "none", read |-> 0,
             failed |-> FALSE]
  /\ past = NoData /\ raced = FALSE

----------------------------------------------------------------------------
\* The cached read.
Fetching(c) == c.fetch # "none"
Begin(c) == [c EXCEPT !.fetch = "sent", !.read = 0, !.failed = FALSE]
Cancel(c) == [c EXCEPT !.fetch = "none", !.read = 0]
Holds(c) == c.data # NoData \/ c.shown \/ Fetching(c)
MarkStale(c) == IF Holds(c) THEN [c EXCEPT !.marked = TRUE] ELSE c
\* A fetch in flight is started again, except a first one: it is joined.
ReadAgain(c) == IF c.shown /\ ~(Fetching(c) /\ c.data = NoData) THEN Begin(c) ELSE c

Show ==
  /\ ~copy.shown
  /\ copy' \in LET c == [copy EXCEPT !.shown = TRUE] IN
               IF Fetching(c) THEN {c}
               ELSE {Begin(c)} \cup (IF c.data = NoData \/ c.marked THEN {} ELSE {c})
  /\ UNCHANGED <<role, server, foreign, cmd, past, raced>>
\* A query function that takes the signal is aborted with its last reader.
Leave ==
  /\ copy.shown
  /\ copy' \in {[copy EXCEPT !.shown = FALSE], Cancel([copy EXCEPT !.shown = FALSE])}
  /\ UNCHANGED <<role, server, foreign, cmd, past, raced>>
Poll ==
  /\ copy.shown /\ ~Fetching(copy)
  /\ copy' = Begin(copy)
  /\ UNCHANGED <<role, server, foreign, cmd, past, raced>>
ServerReads ==
  /\ copy.fetch = "sent"
  /\ copy' = [copy EXCEPT !.fetch = "read", !.read = server]
  /\ UNCHANGED <<role, server, foreign, cmd, past, raced>>
Arrives ==
  /\ copy.fetch = "read"
  /\ copy' = [Cancel(copy) EXCEPT !.data = copy.read, !.marked = FALSE]
  /\ past' = IF copy.read > past THEN copy.read ELSE past
  /\ UNCHANGED <<role, server, foreign, cmd, raced>>
FetchFails ==
  /\ Fetching(copy)
  /\ copy' = [Cancel(copy) EXCEPT !.failed = TRUE]
  /\ UNCHANGED <<role, server, foreign, cmd, past, raced>>

----------------------------------------------------------------------------
\* The command and its hook.
ForeignWrite ==
  /\ foreign < MaxForeign
  /\ server' = server + 1 /\ foreign' = foreign + 1
  /\ UNCHANGED <<role, cmd, copy, past, raced>>
Send ==
  /\ cmd.phase = "idle"
  /\ cmd' = [cmd EXCEPT !.phase = "sent"]
  /\ UNCHANGED <<role, server, foreign, copy, past, raced>>
Commit ==
  /\ cmd.phase = "sent"
  /\ server' = server + 1
  /\ cmd' = [cmd EXCEPT !.phase = "committed", !.commit = server + 1]
  /\ UNCHANGED <<role, foreign, copy, past, raced>>
Refuse ==
  /\ cmd.phase = "sent"
  /\ \E k \in ErrorKinds \ {"lost"} :
       /\ k = "conflict" => role.versioned /\ foreign > 0
       /\ cmd' = [cmd EXCEPT !.phase = "refused", !.error = k]
  /\ UNCHANGED <<role, server, foreign, copy, past, raced>>
Lose ==
  /\ cmd.phase \in {"sent", "committed"}
  /\ cmd' = [cmd EXCEPT !.phase = "refused", !.error = "lost"]
  /\ UNCHANGED <<role, server, foreign, copy, past, raced>>

\* What the answer itself writes (setQueryData, removeQueries).
Answered(c) == [c EXCEPT !.data = cmd.commit, !.marked = FALSE]
Stored(c) ==
  CASE role.store = "set" -> {Answered(c)}
    [] role.store = "not_older" -> {IF c.data > cmd.commit THEN c ELSE Answered(c)}
    [] role.store = "unless_read" -> IF c.data > cmd.commit THEN {c} ELSE {c, Answered(c)}
    [] role.store = "removed" -> {[Cancel(c) EXCEPT !.data = NoData, !.marked = FALSE]}
    [] OTHER -> {c}
Refreshed(c, e) ==
  CASE e = "renew" -> ReadAgain(MarkStale(Cancel(c)))
    [] e = "refetch" -> ReadAgain(MarkStale(c))
    [] e = "mark" -> MarkStale(c)
    [] e = "cancel" -> Cancel(c)
    [] OTHER -> c
\* An answer the service gave before the commit is still on its way.
OldReadInFlight(c) == c.fetch = "read" /\ c.read < cmd.commit

Settle(c) ==
  /\ copy' = c
  /\ past' = IF c.data > past THEN c.data ELSE past
  /\ raced' = (raced \/ OldReadInFlight(c))
  /\ UNCHANGED <<role, server, foreign>>
OnSuccess ==
  /\ cmd.phase = "committed"
  /\ cmd' = [cmd EXCEPT !.phase = "done"]
  /\ \E c \in Stored(copy) : Settle(Refreshed(c, role.done))
OnError ==
  /\ cmd.phase = "refused"
  /\ cmd' = [cmd EXCEPT !.phase = "failed"]
  /\ Settle(Refreshed(copy, role.failed[cmd.error]))

Next ==
  \/ Show \/ Leave \/ Poll \/ ServerReads \/ Arrives \/ FetchFails
  \/ ForeignWrite \/ Send \/ Commit \/ Refuse \/ Lose \/ OnSuccess \/ OnError
Spec == Init /\ [][Next]_vars

\* The service answers a read, and the answer arrives; commands are answered.
Fairness == WF_vars(ServerReads) /\ WF_vars(Arrives) /\ WF_vars(Commit) /\ WF_vars(OnSuccess)
LiveSpec == Spec /\ Fairness

----------------------------------------------------------------------------
Versions == NoData..(MaxForeign + 1)

\* The ranges of the variables, and that nothing is read before it is sent.
TypeOK ==
  /\ role \in Roles
  /\ server \in 0..(MaxForeign + 1) /\ foreign \in 0..MaxForeign
  /\ cmd \in [phase : {"idle", "sent", "committed", "refused", "done", "failed"},
              commit : 0..(MaxForeign + 1), error : ErrorKinds \cup {"none"}]
  /\ copy \in [data : Versions, marked : BOOLEAN, shown : BOOLEAN,
               fetch : {"none", "sent", "read"}, read : 0..(MaxForeign + 1),
               failed : BOOLEAN]
  /\ past \in Versions /\ raced \in BOOLEAN

Applied ==
  CASE cmd.phase = "done" -> role.done
    [] cmd.phase = "failed" /\ cmd.commit > 0 -> role.failed["lost"]
    [] OTHER -> "none"

OwnDone == cmd.phase = "done" /\ role.own # "other"

\* After its command is settled, a read that the hook refreshes, or that shows the
\* record itself, and still shows what it was before the commit is marked stale:
\* no page takes it for current. A family that is cancelled first has no
\* exception; one that is only refetched has the reads the service answered
\* before the commit and that were left in flight.
RefreshedIsNotStale ==
  (Applied = "renew" \/ ((Applied \in {"refetch", "mark"} \/ OwnDone) /\ ~raced)) =>
    copy.data = NoData \/ copy.data >= cmd.commit \/ copy.marked

\* The answer of a command may be older than what a page has read since: then the
\* read is marked, or was not replaced. Three hooks write their answer and refresh
\* everything but it, and have no such net: the settings, the PDF of an invoice and
\* the detail of an Agent Run whose delivery is retried.
NewerReadIsNotForgotten ==
  \/ raced \/ copy.data = NoData \/ copy.data >= past \/ copy.marked
  \/ role.own \in {"settings", "invoice_pdf", "agent_run_detail"}

\* A page that stays on a refetched read, or on the record itself, comes to show
\* the command's effect, unless the read failed, and then nothing is shown as
\* current.
ShownCatchesUp ==
  (cmd.phase = "done" /\ (role.done \in {"renew", "refetch"} \/ OwnDone) /\ ~raced) ~>
    \/ copy.data >= cmd.commit
    \/ ~copy.shown
    \/ copy.failed /\ (copy.data = NoData \/ copy.marked)
    \/ role.store = "removed" /\ copy.data = NoData
=============================================================================
