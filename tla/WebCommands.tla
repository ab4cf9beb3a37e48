---------------------------- MODULE WebCommands ----------------------------
(* What the commands of the web client send, what they do with the answer, and  *)
(* what they make the client read again.                                        *)
EXTENDS FiniteSets

(* What the web client refreshes after a command: the tables of              *)
(* api/hooks/invalidation.ts. A refresh names the families of cached reads it *)
(* first cancels, the ones it marks and reads again where a page shows them,  *)
(* and the ones it only marks (refetchType "none").                           *)

\* The query key roots of api/hooks/queryKeys.ts; the detail of a record that a
\* refresh can spare is a family of its own.
Families ==
  {"search", "inbox", "inbox_detail", "inbox_relations", "ai_inbox", "clients", "client_detail",
   "client_activities", "projects", "project_detail", "project_notes", "invoices", "invoice_detail",
   "entries", "income", "actors", "actor_options", "tasks", "task_detail", "assignments",
   "own_assignments", "task_events", "submissions", "artifacts", "artifact_detail", "roadmap",
   "content", "today", "reminders", "automations", "focus", "focus_report", "focus_history",
   "agent_runs", "agent_run_detail", "ai_actions", "work_plan", "plan_continuation",
   "tags", "saved_views", "settings", "adapters", "providers", "memories", "proposals",
   "sessions", "messages", "evaluations", "evaluation_detail",
   "evaluation_summary", "evaluation_reviews", "backups", "backup_policy", "restore",
   "invoice_pdf", "content_detail", "automation_runs"}

Refresh(F, G, H) == [cancel |-> F, refetch |-> G, mark |-> H]
Nothing == Refresh({}, {}, {})
Refetch(F) == Refresh({}, F, {})
Mark(F) == Refresh({}, {}, F)
Renew(F) == Refresh(F, F, {})
a ++ b == Refresh(a.cancel \cup b.cancel, a.refetch \cup b.refetch,
                  (a.mark \cup b.mark) \ (a.refetch \cup b.refetch))
Touched(r) == r.refetch \cup r.mark

\* A conflict leaves the record on the screen alone: it is marked, and the page
\* that shows the conflict reads it itself.
Except(F, spared) == Refetch(F \ spared) ++ Mark(F \cap spared)

Clients == {"clients", "client_detail", "client_activities"}
Projects == {"projects", "project_detail", "project_notes"}
Invoices == {"invoices", "invoice_detail", "invoice_pdf"}
Tasks == {"tasks", "task_detail"}
Assignments == {"assignments", "own_assignments"}
Inbox == {"inbox", "inbox_detail", "inbox_relations"}
Contents == {"content", "content_detail"}
Automations == {"automations", "automation_runs"}
Actors == {"actors", "actor_options"}

UnifiedSearch == Refetch({"search"})
BackupIncident == Refetch(Inbox \cup {"ai_inbox"})
ActorReferences == Refetch(Clients \cup Projects \cup Inbox \cup Assignments
                           \cup {"task_events", "submissions", "artifacts"})
ActorOptions == Refetch({"actor_options"})

ClientQueries(spared) == Except(Clients, spared)
ClientEditFacts(spared) ==
  ClientQueries(spared) ++ Refetch(Projects \cup Invoices \cup {"entries"}) ++ UnifiedSearch
ClientActivityActionFacts == Renew(Clients \cup {"search"})
ClientActionFacts == Renew(Clients \cup Projects \cup Invoices \cup {"entries", "search"})
ClientContactActionFacts == Renew(Clients \cup Actors \cup {"search"})
PersonActionFacts == Renew(Actors \cup Tasks \cup Clients \cup Inbox \cup {"search"})
ClientFollowupActionFacts == Renew(Clients \cup Inbox \cup Actors \cup {"search"})
ClientActivityConflict == Except(Clients, {"client_activities"})

\* Mutant: the entries are forgotten, and their detail with them.
FinancialReadModels_Income == Refetch({"income"})
FinancialReadModels == Refetch({"entries", "income"})
FinancialActionFacts == Renew({"entries", "income"})
InvoiceReadModels(spared) ==
  Except(Invoices, spared) ++ Refetch({"entries", "income"} \cup Projects \cup Inbox) ++ UnifiedSearch

ReminderFacts == Refetch({"reminders"})
ReminderActionFacts == ReminderFacts ++ Refetch(Inbox \cup {"search"})

ProjectFacts == Renew(Projects)

\* An item whose source is a task, an output or a completed project also
\* changes what the project pages show.
InboxFacts(projects, spared) ==
  Except(Inbox, spared) ++ UnifiedSearch ++ Refetch({"ai_inbox"})
    ++ (IF projects THEN ProjectFacts ELSE Nothing)
InboxActionFacts == InboxFacts(TRUE, {})
InboxReadAllFacts == Refresh(Inbox, {}, {}) ++ InboxFacts(FALSE, {})

FocusReadModels(F) == Refetch(F)
FocusDependents == Refetch({"focus", "today", "focus_report", "focus_history"} \cup Tasks \cup Projects)
FocusActionFacts == Refresh({"focus", "focus_history", "focus_report"}, {}, {}) ++ FocusDependents

TaskFacts(spared) ==
  Except(Tasks, spared) ++ UnifiedSearch ++ ProjectFacts
    ++ Refetch({"roadmap", "today"} \cup Contents \cup Inbox)
TaskAggregates(spared) ==
  TaskFacts(spared) ++ Except(Assignments, spared)
    ++ Refetch({"submissions", "artifacts", "ai_inbox", "task_events"})
TaskAssignments(conflict) ==
  TaskAggregates(IF conflict THEN {"task_detail", "own_assignments"} ELSE {})
TaskOutputActionFacts ==
  Refresh(Tasks \cup Assignments \cup Projects \cup Inbox \cup Contents
          \cup {"submissions", "artifacts", "artifact_detail", "task_events",
                "search", "roadmap", "today"}, {}, {})
    ++ TaskAggregates({}) ++ Refetch({"artifact_detail"})

AutomationFacts == Refetch(Automations \cup Inbox \cup {"reminders"})
AutomationActionFacts(retry) ==
  Renew(Automations \cup Inbox \cup {"reminders"})
    ++ (IF retry THEN Refresh(Tasks \cup Projects \cup Contents \cup {"roadmap", "search", "today"}, {}, {})
                      ++ TaskFacts({})
        ELSE Nothing)
InvoiceActionFacts(automation) ==
  Refresh(Invoices \cup Projects \cup Inbox \cup {"entries", "income", "search"}, {}, {})
    ++ InvoiceReadModels({})
    ++ (IF automation THEN AutomationActionFacts(TRUE) ELSE Nothing)

AgentRunDeliveryFacts ==
  Renew({"ai_actions", "agent_runs", "ai_inbox", "work_plan"}) ++ TaskOutputActionFacts
AiPlanReviewProjections == Renew({"work_plan", "plan_continuation"})

\* Mutant: the roadmap is marked and not read again.
RoadmapReadModels_Marked(inbox) ==
  Mark({"roadmap"}) ++ UnifiedSearch ++ Refetch(IF inbox THEN Inbox ELSE {})
RoadmapReadModels(inbox) ==
  Refetch({"roadmap"}) ++ UnifiedSearch ++ Refetch(IF inbox THEN Inbox ELSE {})
RoadmapActionFacts == RoadmapReadModels(TRUE)
ContentItemActionFacts == Refetch(Contents \cup Inbox) ++ UnifiedSearch

ProjectNoteConflict == Refetch(Projects)
ProjectQueries(spared) == Except(Projects, spared)
ProjectEditFacts(spared) ==
  ProjectQueries(spared)
    ++ Refetch(Tasks \cup Clients \cup Invoices \cup {"entries", "roadmap"})
    ++ FocusReadModels({"focus_report"}) ++ UnifiedSearch
ProjectNoteActionFacts == Renew(Projects)
ProjectCompletionFacts == Refetch(Inbox \cup Automations)
ProjectActionFacts == ProjectEditFacts({}) ++ ProjectCompletionFacts ++ TaskAggregates({})

----------------------------------------------------------------------------
(* The mutation hooks of api/hooks: what each one sends and what it does with *)
(* the answer. One row per hook.                                              *)

\* What a failed command may say: the record has another version, another
\* refusal (409), no such record (404), a record that is gone (410), that the
\* service failed, or nothing at all.
ErrorKinds == {"conflict", "refused", "missing", "gone", "failed", "lost"}
Refusals == {"conflict", "refused"}

\* key: "per_input" is kept until the same input succeeds, "per_mount" is kept
\* for whatever input comes next, "none" is not sent. versioned: the command
\* carries the version it was decided on. own: the cached read of its record,
\* and store what its answer does there. done, failed: the refreshes.
Command(key, versioned, own, store, done, failed) ==
  [key |-> key, versioned |-> versioned, own |-> own, store |-> store,
   done |-> done, failed |-> failed]
On(kinds, r) == [k \in ErrorKinds |-> IF k \in kinds THEN r ELSE Nothing]
f \sqcup g == [k \in ErrorKinds |-> f[k] ++ g[k]]
Never == On({}, Nothing)
Always(r) == On(ErrorKinds, r)
\* What a refresh does to one family.
Effect(r, f) ==
  IF f \in r.refetch THEN IF f \in r.cancel THEN "renew" ELSE "refetch"
  ELSE IF f \in r.mark THEN "mark"
  ELSE IF f \in r.cancel THEN "cancel" ELSE "none"

----------------------------------------------------------------------------
\* Clients and their records.
CreateClient ==
  Command("per_input", FALSE, "client_detail", "set", Refetch(Clients) ++ UnifiedSearch, Never)
UpdateClient ==
  Command("none", TRUE, "client_detail", "set", ClientEditFacts({}),
          On({"conflict"}, ClientEditFacts({"client_detail"})))
DeleteClient ==
  Command("none", TRUE, "client_detail", "removed", Refetch(Clients \cup Projects) ++ UnifiedSearch,
          On({"conflict"}, ClientQueries({"client_detail"}) ++ Refetch(Projects) ++ UnifiedSearch))

ClientFollowups == Refetch(Clients \cup Inbox) ++ UnifiedSearch
CreateClientFollowup == Command("per_input", FALSE, "client_detail", "kept", ClientFollowups, Never)
\* Changing, completing, skipping, cancelling and rescheduling a follow-up.
FollowupCommand ==
  Command("none", TRUE, "client_detail", "kept", ClientFollowups, On({"conflict"}, ClientFollowups))

CreateClientActivity ==
  Command("per_input", FALSE, "client_activities", "kept", Refetch(Clients), Never)
\* Changing and deleting a note; the next two, adding and deleting.
ClientActivityCommand ==
  Command("none", TRUE, "client_activities", "kept", Refetch(Clients),
          On({"conflict"}, ClientActivityConflict))
ClientAttachmentCommand ==
  Command("per_input", TRUE, "client_detail", "kept", Refetch(Clients), On({"conflict"}, Refetch(Clients)))
ClientActorLinkCommand ==
  Command("per_input", TRUE, "client_detail", "kept", Refetch(Clients \cup Actors),
          On({"conflict"}, Refetch(Clients)))

----------------------------------------------------------------------------
\* Projects.
CreateProject ==
  Command("per_input", FALSE, "project_detail", "set",
          Refetch(Projects \cup Clients) ++ UnifiedSearch, Never)
UpdateProject ==
  Command("none", TRUE, "project_detail", "set", ProjectEditFacts({}),
          On({"conflict"}, ProjectEditFacts({"project_detail"})))
TransitionProject(completes) ==
  LET completion == IF completes THEN ProjectCompletionFacts ELSE Nothing
  IN  Command("none", TRUE, "project_detail", "set",
              Refetch(Projects \cup Clients \cup {"roadmap"}) ++ completion ++ UnifiedSearch,
              On({"conflict"}, ProjectQueries({"project_detail"}) ++ Refetch(Clients \cup {"roadmap"})
                                 ++ ProjectCompletionFacts ++ UnifiedSearch))
DeleteProject ==
  Command("none", TRUE, "project_detail", "removed",
          Refetch(Projects \cup Tasks \cup Clients \cup Invoices \cup Inbox \cup {"entries", "roadmap"})
            ++ UnifiedSearch ++ Mark({"focus_report"}),
          Never)
\* Adding and deleting a file.
ProjectAttachmentCommand ==
  Command("per_input", TRUE, "project_detail", "kept", Refetch(Projects), On({"conflict"}, Refetch(Projects)))
CreateProjectNote ==
  Command("per_input", FALSE, "project_notes", "kept", Refetch(Projects), On({"refused"}, Refetch(Projects)))
\* Changing and deleting a note.
ProjectNoteCommand ==
  Command("none", TRUE, "project_notes", "kept", Refetch(Projects),
          On({"conflict"}, ProjectNoteConflict) \sqcup On({"refused", "gone"}, Refetch(Projects)))

----------------------------------------------------------------------------
\* Tasks, their assignments and outputs.
FocusOfTasks == FocusReadModels({"focus_history", "focus_report"})
CreateTask == Command("per_input", FALSE, "task_detail", "kept", TaskAggregates({}), Never)
TaskLifecycleCommand ==
  Command("per_input", TRUE, "task_detail", "not_older", TaskAggregates({}),
          On(Refusals \cup {"missing"}, TaskAggregates({"task_detail"})))
UpdateTask ==
  Command("none", TRUE, "task_detail", "not_older", TaskAggregates({}) ++ FocusOfTasks,
          On({"conflict"}, TaskAggregates({"task_detail"}) ++ FocusOfTasks))
DeleteTask ==
  Command("none", TRUE, "task_detail", "removed",
          Refresh({"agent_runs", "agent_run_detail"}, {"ai_actions", "agent_runs"}, {})
            ++ TaskAggregates({}) ++ FocusOfTasks,
          On({"conflict"}, TaskAggregates({"task_detail"}) ++ FocusOfTasks))
BatchUpdateTasks(hierarchy, focus) ==
  LET facts == (IF hierarchy THEN TaskAggregates({}) ELSE TaskFacts({})) ++ FocusReadModels(focus)
  IN  Command("none", TRUE, "task_detail", "kept", facts, On({"conflict"}, facts))

\* The plan of a day: one write whose answer, when it is lost, is looked up, and
\* orders, sent with the versions of a read the hook has just made.
SetTaskPlannedDate ==
  Command("none", TRUE, "task_detail", "not_older", TaskFacts({}),
          On({"conflict", "lost"}, TaskFacts({})))
\* To another day: the date in one request and two orders in two more; what the
\* page does with the cached task is what it does after the first.
MoveTaskAcrossPlans == SetTaskPlannedDate
TaskOrderCommand ==
  Command("none", TRUE, "task_detail", "kept", TaskFacts({}), On({"conflict"}, TaskFacts({})))
ReorderTaskWithinPlanStatus == TaskOrderCommand

OutputErrors == Refusals \cup {"missing", "gone"}
SubmitTaskOutput ==
  Command("per_input", TRUE, "task_detail", "not_older", TaskAggregates({}),
          On(OutputErrors, TaskAggregates({"task_detail"})))
ReviewTaskSubmission ==
  Command("per_input", TRUE, "task_detail", "not_older",
          TaskAggregates({}) ++ AiPlanReviewProjections,
          On(OutputErrors, TaskAggregates({"task_detail"})))
DeleteTaskArtifact ==
  Command("per_input", TRUE, "task_detail", "not_older", TaskAggregates({}),
          On(OutputErrors, TaskAggregates({"task_detail"})))

AssignmentErrors ==
  On({"conflict"}, TaskAssignments(TRUE)) \sqcup On({"refused", "missing"}, TaskAssignments(FALSE))
\* Assigning, reassigning and ending.
AssignmentCommand ==
  Command("per_input", TRUE, "task_detail", "not_older", TaskAssignments(FALSE), AssignmentErrors)

----------------------------------------------------------------------------
\* Inbox and reminders. What an item was made from decides whether the project
\* pages are read again.
CreateInboxItem(projects) ==
  Command("per_input", FALSE, "inbox_detail", "set", InboxFacts(projects, {}), Never)
InboxErrors(projects, spared) ==
  On(Refusals, InboxFacts(projects, spared)) \sqcup On({"missing"}, InboxFacts(projects, {}))
UpdateInboxItem(projects) ==
  Command("none", TRUE, "inbox_detail", "set", InboxFacts(projects, {}),
          InboxErrors(projects, {"inbox_detail"}))
InboxItemCommand(projects) ==
  Command("per_input", TRUE, "inbox_detail", "set", InboxFacts(projects, {}),
          InboxErrors(projects, {"inbox_detail"}))
MarkAllInboxItemsRead ==
  Command("per_input", FALSE, "inbox", "kept", InboxFacts(FALSE, {}), Never)
\* Linking, unlinking, requiring a task, and resolving past the open ones.
InboxTaskCommand(projects) ==
  Command("per_input", TRUE, "inbox_detail", "set", InboxFacts(projects, {}),
          InboxErrors(projects, {"inbox_detail", "inbox_relations"}))
SplitInboxItem(projects) ==
  Command("per_input", TRUE, "inbox_detail", "set",
          InboxFacts(TRUE, {}) ++ Refetch(Tasks \cup {"today"}), InboxErrors(projects, {}))

ReminderErrors ==
  On(Refusals \cup {"missing"}, ReminderFacts) \sqcup On(Refusals, Refetch(Inbox))
CreateReminder == Command("per_input", FALSE, "reminders", "set", ReminderFacts, Never)
UpdateReminder == Command("none", TRUE, "reminders", "set", ReminderFacts, ReminderErrors)
CancelReminder == Command("per_input", TRUE, "reminders", "set", ReminderFacts, ReminderErrors)

----------------------------------------------------------------------------
\* Invoices and finance.
CreateInvoice ==
  Command("per_input", FALSE, "invoice_detail", "set", InvoiceReadModels({}), Never)
UpdateInvoice ==
  Command("none", TRUE, "invoice_detail", "set", InvoiceReadModels({}),
          On({"conflict"}, InvoiceReadModels({"invoice_detail"})))
TransitionInvoice(overdue) ==
  LET automated == IF overdue THEN TaskFacts({}) ++ Refetch(Automations) ELSE Nothing
  IN  Command("per_input", TRUE, "invoice_detail", "set", InvoiceReadModels({}) ++ automated,
              On({"conflict"}, InvoiceReadModels({"invoice_detail"}) ++ automated))
DeleteInvoice ==
  Command("none", TRUE, "invoice_detail", "removed", InvoiceReadModels({}),
          On({"conflict"}, InvoiceReadModels({"invoice_detail"})))
GenerateInvoicePdf ==
  Command("per_input", TRUE, "invoice_pdf", "set", Nothing, On({"conflict"}, Mark({"invoice_detail"})))
CreateFinancialEntry ==
  Command("per_input", FALSE, "entries", "set", FinancialReadModels, Never)
\* Changing and voiding an entry.
FinancialEntryCommand ==
  Command("none", TRUE, "entries", "set", FinancialReadModels, On({"conflict"}, FinancialReadModels))

----------------------------------------------------------------------------
\* Roadmap, content, tags, saved views, automations.
CreateRoadmapMilestone == Command("none", FALSE, "roadmap", "kept", RoadmapReadModels(TRUE), Never)
\* Changing, archiving, restoring and deleting.
RoadmapMilestoneCommand ==
  Command("none", TRUE, "roadmap", "kept", RoadmapReadModels(TRUE),
          On({"conflict"}, RoadmapReadModels(TRUE)))
ReorderRoadmapMilestones ==
  Command("none", TRUE, "roadmap", "kept", RoadmapReadModels(FALSE), Always(RoadmapReadModels(FALSE)))

\* Mutant: the detail of the item is forgotten.
ContentFacts_ListOnly == Refetch({"content"} \cup Inbox) ++ UnifiedSearch
ContentFacts == Refetch(Contents \cup Inbox) ++ UnifiedSearch
CreateContentItem ==
  Command("none", FALSE, "content", "kept", Refetch(Contents) ++ UnifiedSearch, Never)
\* Changing, scheduling and publishing; below it linking and unlinking a task.
ContentItemMutation ==
  Command("none", TRUE, "content_detail", "kept", ContentFacts, On({"conflict"}, ContentFacts))
LinkContentItemTask == ContentItemMutation
DeleteContentItem ==
  Command("none", TRUE, "content_detail", "removed", Refetch({"content"} \cup Inbox) ++ UnifiedSearch,
          On({"conflict"}, ContentFacts) \sqcup On({"refused"}, Refetch(Inbox)))

TagFacts == Refetch({"tags", "focus_report"} \cup Tasks)
CreateTag == Command("per_input", FALSE, "tags", "kept", Refetch({"tags"}), Never)
\* Changing and deleting; so too a saved view and, or switching it, a rule.
TagCommand == Command("none", TRUE, "tags", "kept", TagFacts, On({"conflict"}, TagFacts))

CreateTaskSavedView == Command("none", FALSE, "saved_views", "kept", Refetch({"saved_views"}), Never)
TaskSavedViewCommand ==
  Command("none", TRUE, "saved_views", "kept", Refetch({"saved_views"}),
          On({"conflict"}, Refetch({"saved_views"})))

AutomationRuleCommand ==
  Command("none", TRUE, "automations", "kept", AutomationFacts, On(Refusals, Refetch({"automations"})))
RetryAutomationRun(result) ==
  Command("none", FALSE, "automation_runs", "kept",
          AutomationFacts
            ++ (CASE result = "task" -> TaskFacts({})
                  [] result = "inbox_item" -> InboxFacts(FALSE, {})
                  [] OTHER -> Nothing),
          Always(Refetch({"automation_runs"})))

----------------------------------------------------------------------------
\* Focus. A receipt is about one session: it does not replace what is newer, and
\* one that may repeat an old answer not what was read since it was sent.
FocusErrors == On(Refusals \cup {"missing", "lost"}, Refetch({"focus"}))
FocusEnds == Refresh({"focus"}, {}, {}) ++ FocusDependents
\* Pausing and resuming.
SimpleFocusCommand == Command("none", TRUE, "focus", "not_older", Renew({"focus"}), FocusErrors)
CreateFocusSession == Command("per_input", FALSE, "focus", "unless_read", Renew({"focus"}), FocusErrors)
RecoverFocusSession(interrupts) ==
  Command("none", TRUE, "focus", "not_older", IF interrupts THEN FocusEnds ELSE Renew({"focus"}),
          FocusErrors)
\* Stopping and cancelling.
FocusEndCommand == Command("per_input", TRUE, "focus", "not_older", FocusEnds, FocusErrors)

----------------------------------------------------------------------------
\* People, agents, settings, backups.
CreatePersonActor == Command("per_input", FALSE, "actors", "set", Refetch(Actors), Never)
UpdateActor ==
  Command("none", TRUE, "actors", "set", ActorReferences ++ Refetch(Actors),
          On({"conflict"}, ActorReferences ++ ActorOptions ++ Refetch({"actors"})))
RegisterAgentAdapter == Command("per_mount", FALSE, "adapters", "kept", Refetch({"adapters"}), Never)
CheckAgentAdapter ==
  Command("none", TRUE, "adapters", "kept", Refetch({"adapters"}), Always(Refetch({"adapters"})))
SetAgentAdapterEnabled ==
  Command("none", TRUE, "adapters", "kept", Refetch({"adapters"} \cup Actors),
          Always(Refetch({"adapters"} \cup Actors)))
\* With a new picture or without.
UpdateSettings ==
  Command("none", TRUE, "settings", "set", Nothing, On({"conflict"}, Refetch({"settings"})))
Backups == {"backups", "backup_policy"}
UpdateBackupPolicy ==
  Command("none", TRUE, "backup_policy", "kept", Refetch(Backups), On({"conflict"}, Refetch({"backup_policy"})))
CreateBackup ==
  Command("per_input", FALSE, "backups", "kept", Refetch(Backups), On({"failed"}, BackupIncident))
VerifyBackup == Command("none", FALSE, "backups", "kept", Refetch(Backups), On({"failed"}, BackupIncident))
ScheduleBackupRestore ==
  Command("none", FALSE, "backups", "kept", Refetch(Backups \cup {"restore"}), On({"failed"}, BackupIncident))
DeleteBackup == Command("none", FALSE, "backups", "kept", Refetch(Backups), Never)
\* Of the data or of a package.
ImportCommand == Command("none", FALSE, "settings", "kept", Refetch(Families), Never)

----------------------------------------------------------------------------
\* Agent Runs and the assistant's records.
RetryAgentRunDelivery ==
  Command("none", TRUE, "agent_run_detail", "set", AgentRunDeliveryFacts,
          Always(Refetch({"agent_runs", "agent_run_detail"})))
ConfirmAgentRunStartGateInputs ==
  Command("none", TRUE, "agent_run_detail", "kept", Refetch({"agent_runs", "agent_run_detail"}),
          Always(Refetch({"agent_runs", "agent_run_detail"})))
AiInbox(F) == Refetch(F \cup {"ai_inbox"})
CreateAiMemory ==
  Command("per_mount", FALSE, "memories", "kept", Refetch({"memories", "proposals"}),
          Always(Refetch({"memories", "proposals"})))
CreateAiProvider ==
  Command("per_mount", FALSE, "providers", "kept", AiInbox({"providers"}), Always(AiInbox({"providers"})))
\* Changing it, checking its health, setting its key.
AiProviderCommand ==
  Command("none", TRUE, "providers", "kept", AiInbox({"providers"}), Always(AiInbox({"providers"})))
DeleteAiProvider == Command("none", TRUE, "providers", "kept", AiInbox({"providers"}), Never)
RejectAiMemoryProposal ==
  Command("none", FALSE, "proposals", "kept", Refetch({"proposals"}), Always(Refetch({"proposals"})))
DeleteAiMemory ==
  Command("none", FALSE, "memories", "kept", Refetch({"memories"}), Always(Refetch({"memories"})))
CreateAiSession == Command("none", FALSE, "sessions", "kept", Refetch({"sessions"}), Never)
AttachTaskToAiMessage == Command("none", FALSE, "messages", "kept", Refetch({"messages"}), Never)
ConfirmAiMessageTask ==
  Command("none", FALSE, "messages", "kept", TaskAggregates({}) ++ Refetch({"messages"}),
          Always(TaskAggregates({}) ++ Refetch({"messages"})))
DeleteAiSession ==
  Command("none", TRUE, "messages", "removed", AiInbox({"sessions", "work_plan"}),
          Always(Refetch({"sessions"})))
EvaluationFacts == Refetch({"evaluations", "evaluation_summary"})
CreateAiEvaluation ==
  Command("per_input", TRUE, "evaluation_detail", "kept",
          EvaluationFacts ++ Refetch({"evaluation_detail"}), Always(EvaluationFacts))
CreateAiEvaluationReview ==
  Command("per_input", FALSE, "evaluation_reviews", "kept", Refetch({"evaluation_reviews"}),
          Always(Refetch({"evaluation_reviews", "evaluation_summary"})))
CancelAiEvaluation ==
  Command("none", FALSE, "evaluation_detail", "kept", EvaluationFacts ++ Refetch({"evaluation_detail"}),
          Always(EvaluationFacts ++ Refetch({"evaluation_detail"})))
DeleteAiEvaluation == Command("none", FALSE, "evaluation_detail", "removed", EvaluationFacts, Never)

----------------------------------------------------------------------------
\* A person decides a proposal of the assistant: whatever comes of it, its cards,
\* plans and what the kind of the action changes are read again.
DecideAction(facts) ==
  LET all == facts ++ Refetch({"ai_actions", "work_plan", "ai_inbox"})
  IN  Command("none", FALSE, "ai_actions", "set", all, Always(all))
TagActionFacts == Refetch({"tags"}) ++ TaskAggregates({}) ++ FocusActionFacts
ActionFacts ==
  {ClientActivityActionFacts, ClientActionFacts, ClientContactActionFacts, PersonActionFacts,
   ClientFollowupActionFacts, FinancialActionFacts, InvoiceActionFacts(FALSE),
   InvoiceActionFacts(TRUE), ReminderActionFacts, AutomationActionFacts(FALSE),
   AutomationActionFacts(TRUE), InboxActionFacts, InboxReadAllFacts, FocusActionFacts,
   TaskOutputActionFacts, RoadmapActionFacts, ContentItemActionFacts, ProjectNoteActionFacts,
   ProjectActionFacts, TagActionFacts, TaskAggregates({}), Refetch({"saved_views", "tasks"}),
   TaskAggregates({}) ++ Refetch({"agent_runs"}), TaskOutputActionFacts ++ Refetch({"agent_runs"}),
   Nothing}
\* An Agent Run a page sees to have ended, once for each end.
AgentRunEnds == Command("none", FALSE, "none", "kept", AgentRunDeliveryFacts, Never)
=============================================================================
