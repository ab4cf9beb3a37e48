----------------------------- MODULE MCEditing -----------------------------
(* What a person sends from the web client, for TLC: one form over one record  *)
(* that others change, one file that replaces another, or one Agent Run that   *)
(* is started. They share no state; what is not looked at stays as it began.   *)
EXTENDS Editing, FileApply, Launching

VARIABLE looksAt
allVars == <<looksAt, vars, fileVars, launchVars>>

AllForms ==
  {ClientForm, ClientStatusButton, ClientDeleteButton, ClientActivityForm, ClientFollowupForm,
   ClientActorLinkForm, ClientActorUnlinkForm, ClientAttachmentForm, ClientAttachmentDelete,
   ProjectForm, ProjectTransitionButton, ProjectDeleteButton, ProjectNoteForm,
   ProjectAttachmentForm, ProjectAttachmentDelete, TaskDetailForm, TaskLifecycleForm,
   TaskDetailDelete, TaskAssignmentForm, TaskSubmissionForm, TaskReviewForm, TaskArtifactDelete,
   TaskBoardTransition, TaskDeleteConfirm, TaskPlanForm, TaskSavedViewButton, TagRowForm,
   InboxItemForm, InboxItemCommandButton, InboxLinkForm, InboxUnlinkForm, InboxForceResolve,
   InboxSplitForm, ReminderForm, ReminderCancel, InvoiceForm, InvoiceListForm,
   InvoiceActionForm, InvoicePdfButton, FinancialEntryForm, IncomeEntryForm, IncomeVoidForm,
   ContentItemForm, ContentCalendarDrag, RoadmapEditForm, RoadmapDeleteConfirm,
   RoadmapArchiveButton, RoadmapMove, RoadmapReorder, SettingsForm, ActorForm,
   AutomationRuleForm, BackupPolicyForm, AgentAdapterButton, AiProviderCard, AiProviderDelete,
   ClientCreateForm, ProjectCreateForm, NewTaskForm, InboxCreateForm, ReminderCreateForm,
   RoadmapCreateForm, ContentCreateForm, TagCreateForm, AiProviderForm}
AnyForm == CHOOSE f \in Forms : TRUE

AnyLaunch == [way |-> "start", carries |-> {}]

SendingInit ==
  /\ Init /\ FileInit /\ LaunchInit
  /\ \/ looksAt = "form"
     \/ looksAt \in {"file", "launch"} /\ form = AnyForm
  /\ looksAt # "launch" => launch = AnyLaunch /\ world.slot = "agent"
SendingNext ==
  /\ UNCHANGED looksAt
  /\ \/ looksAt = "form" /\ Next /\ UNCHANGED <<fileVars, launchVars>>
     \/ looksAt = "file" /\ FileNext /\ UNCHANGED <<vars, launchVars>>
     \/ looksAt = "launch" /\ LaunchNext /\ UNCHANGED <<vars, fileVars>>
\* No fair step of the form is enabled while the file or the launch is looked at.
SendingSpec == SendingInit /\ [][SendingNext]_allVars /\ Fairness
=============================================================================
