---------------------------- MODULE ReadingProofs ----------------------------
(***************************************************************************)
(* Proofs about what the web client reads.                                 *)
(*                                                                         *)
(* Refreshing: for every command of the client and every family of cached  *)
(* reads, and for any number of writes by others, reads, polls and lost    *)
(* answers.                                                                *)
(*                                                                         *)
(* Listing: for every number of rows, every page size and every number of  *)
(* changes, a list that is read to its end, page by page, while others     *)
(* change it, shows every row that stayed, and no answer is refused that   *)
(* was not torn.  What is known of the pages read so far depends on how    *)
(* they are read (GrownSoFar, CursorSoFar, SteadySoFar, LooseSoFar).  Two  *)
(* lemmas for each carry the proof: a change of the list keeps it, and so  *)
(* does one more page.                                                     *)
(***************************************************************************)
EXTENDS Refreshing, Listing, FiniteSetTheorems, SequenceTheorems, TLAPS

-----------------------------------------------------------------------------
(* What the table of commands has in common.                                 *)

\* A command has the cached read of its record read again or marked, or its
\* answer cannot leave there what is older than what has been read, or takes the
\* record away. Three hooks that write their answer have no such net.
Netless == {"settings", "invoice_pdf", "agent_run_detail"}
CommandSound(c) ==
  \/ c.own \in Touched(c.done)
  \/ c.store \in {"not_older", "removed"}
  \/ c.own = "none"
  \/ c.store = "set" /\ c.own \in Netless

\* Two refreshes touch together what each of them touches.
LEMMA RefreshesJoin == \A a, b : Touched(a ++ b) = Touched(a) \cup Touched(b)
  BY DEF Touched, ++, Refresh

LEMMA Reads ==
  /\ \A F : Touched(Refetch(F)) = F /\ Touched(Mark(F)) = F /\ Touched(Renew(F)) = F
  /\ \A F, G, H : Touched(Refresh(F, G, H)) = G \cup H
  /\ \A F, S : Touched(Except(F, S)) = F
  /\ Touched(Nothing) = {}
<1>1. \A F, G, H : Touched(Refresh(F, G, H)) = G \cup H
  BY DEF Touched, Refresh
<1>2. \A F : Touched(Refetch(F)) = F /\ Touched(Mark(F)) = F /\ Touched(Renew(F)) = F
  BY <1>1 DEF Refetch, Mark, Renew
<1>3. \A F, S : Touched(Except(F, S)) = F
  BY <1>2, RefreshesJoin DEF Except
<1> QED BY <1>1, <1>2, <1>3 DEF Nothing

\* Clients and their records.
LEMMA ClientSound == \A c \in ClientCommands : CommandSound(c)
<1>1. /\ CommandSound(CreateClient) /\ CommandSound(UpdateClient) /\ CommandSound(DeleteClient)
  BY Reads, RefreshesJoin DEF CommandSound, Command, CreateClient, Clients, UnifiedSearch,
     UpdateClient, ClientEditFacts, ClientQueries, Invoices, Projects, DeleteClient
<1>2. /\ CommandSound(CreateClientFollowup) /\ CommandSound(FollowupCommand)
  BY Reads, RefreshesJoin DEF CommandSound, Command, CreateClientFollowup, ClientFollowups,
     Clients, Inbox, UnifiedSearch, FollowupCommand
<1>3. /\ CommandSound(CreateClientActivity) /\ CommandSound(ClientActivityCommand)
      /\ CommandSound(ClientAttachmentCommand) /\ CommandSound(ClientActorLinkCommand)
  BY Reads, RefreshesJoin DEF CommandSound, Command, CreateClientActivity, Clients,
     ClientActivityCommand, ClientAttachmentCommand, ClientActorLinkCommand, Actors
<1> QED BY <1>1, <1>2, <1>3 DEF ClientCommands

\* Projects.
LEMMA ProjectSound == \A c \in ProjectCommands : CommandSound(c)
<1>1. /\ CommandSound(CreateProject) /\ CommandSound(UpdateProject)
      /\ CommandSound(DeleteProject) /\ CommandSound(TransitionProject(TRUE))
      /\ CommandSound(TransitionProject(FALSE))
  BY Reads, RefreshesJoin DEF CommandSound, Command, CreateProject, Clients, Projects,
     UnifiedSearch, UpdateProject, FocusReadModels, Invoices, ProjectEditFacts, ProjectQueries,
     Tasks, DeleteProject, Inbox, TransitionProject, Automations, ProjectCompletionFacts
<1>2. /\ CommandSound(ProjectAttachmentCommand) /\ CommandSound(CreateProjectNote)
      /\ CommandSound(ProjectNoteCommand)
  BY Reads, RefreshesJoin DEF CommandSound, Command, ProjectAttachmentCommand, Projects,
     CreateProjectNote, ProjectNoteCommand
<1> QED BY <1>1, <1>2 DEF ProjectCommands

\* Tasks, their plans, assignments and outputs.
LEMMA TaskSound == \A c \in TaskCommands : CommandSound(c)
<1>1. /\ CommandSound(CreateTask) /\ CommandSound(TaskLifecycleCommand)
      /\ CommandSound(UpdateTask) /\ CommandSound(DeleteTask)
      /\ CommandSound(SetTaskPlannedDate)
  BY Reads, RefreshesJoin DEF CommandSound, Command, CreateTask, Assignments, Contents, Inbox,
     ProjectFacts, Projects, TaskAggregates, TaskFacts, Tasks, UnifiedSearch,
     TaskLifecycleCommand, UpdateTask, FocusOfTasks, FocusReadModels, DeleteTask,
     SetTaskPlannedDate
<1>2. /\ CommandSound(MoveTaskAcrossPlans) /\ CommandSound(TaskOrderCommand)
      /\ CommandSound(ReorderTaskWithinPlanStatus)
  BY Reads, RefreshesJoin DEF CommandSound, MoveTaskAcrossPlans, SetTaskPlannedDate, Command,
     TaskOrderCommand, Contents, Inbox, ProjectFacts, Projects, TaskFacts, Tasks, UnifiedSearch,
     ReorderTaskWithinPlanStatus
<1>3. /\ CommandSound(SubmitTaskOutput) /\ CommandSound(ReviewTaskSubmission)
      /\ CommandSound(DeleteTaskArtifact)
      /\ CommandSound(AssignmentCommand)
  BY Reads, RefreshesJoin DEF CommandSound, Command, SubmitTaskOutput, Assignments, Contents,
     Inbox, ProjectFacts, Projects, TaskAggregates, TaskFacts, Tasks, UnifiedSearch,
     ReviewTaskSubmission, AiPlanReviewProjections, DeleteTaskArtifact, AssignmentCommand,
     TaskAssignments
<1> QED BY <1>1, <1>2, <1>3 DEF TaskCommands

LEMMA TaskBatchesSound == \A c \in TaskBatches : CommandSound(c)
<1>1. \A h \in BOOLEAN : \A F : CommandSound(BatchUpdateTasks(h, F))
  BY Reads, RefreshesJoin DEF CommandSound, Command, BatchUpdateTasks, Assignments, Contents,
     FocusReadModels, Inbox, ProjectFacts, Projects, TaskAggregates, TaskFacts, Tasks,
     UnifiedSearch
<1> QED BY <1>1 DEF TaskBatches

\* Reminders, and the inbox read as a whole.
LEMMA ReminderSound == \A c \in ReminderCommands : CommandSound(c)
<1>1. /\ CommandSound(MarkAllInboxItemsRead) /\ CommandSound(CreateReminder)
      /\ CommandSound(UpdateReminder) /\ CommandSound(CancelReminder)
  BY Reads, RefreshesJoin DEF CommandSound, Command, MarkAllInboxItemsRead, Inbox, InboxFacts,
     ProjectFacts, Projects, UnifiedSearch, CreateReminder, ReminderFacts, UpdateReminder,
     CancelReminder
<1> QED BY <1>1 DEF ReminderCommands

\* Inbox items, whatever they were made from.
LEMMA InboxSound == \A c \in InboxCommands : CommandSound(c)
<1>1. \A p \in BOOLEAN : CommandSound(CreateInboxItem(p))
  BY Reads, RefreshesJoin DEF CommandSound, Command, CreateInboxItem, Inbox, InboxFacts,
     ProjectFacts, Projects, UnifiedSearch
<1>2. \A p \in BOOLEAN : CommandSound(UpdateInboxItem(p))
  BY Reads, RefreshesJoin DEF CommandSound, Command, UpdateInboxItem, Inbox, InboxFacts,
     ProjectFacts, Projects, UnifiedSearch
<1>3. \A p \in BOOLEAN : CommandSound(InboxItemCommand(p))
  BY Reads, RefreshesJoin DEF CommandSound, Command, InboxItemCommand, Inbox, InboxFacts,
     ProjectFacts, Projects, UnifiedSearch
<1>4. \A p \in BOOLEAN : CommandSound(InboxTaskCommand(p))
  BY Reads, RefreshesJoin DEF CommandSound, Command, InboxTaskCommand, Inbox, InboxFacts,
     ProjectFacts, Projects, UnifiedSearch
<1>5. \A p \in BOOLEAN : CommandSound(SplitInboxItem(p))
  BY Reads, RefreshesJoin DEF CommandSound, Command, SplitInboxItem, Inbox, InboxFacts,
     ProjectFacts, Projects, Tasks, UnifiedSearch
<1> QED BY <1>1, <1>2, <1>3, <1>4, <1>5 DEF InboxCommands

\* Invoices and finance.
LEMMA MoneySound == \A c \in MoneyCommands : CommandSound(c)
<1>1. /\ CommandSound(CreateInvoice) /\ CommandSound(UpdateInvoice)
      /\ CommandSound(DeleteInvoice) /\ CommandSound(GenerateInvoicePdf)
  BY Reads, RefreshesJoin DEF CommandSound, Command, CreateInvoice, Inbox, InvoiceReadModels,
     Invoices, Projects, UnifiedSearch, UpdateInvoice, DeleteInvoice, GenerateInvoicePdf,
     Netless
<1>2. /\ CommandSound(TransitionInvoice(TRUE)) /\ CommandSound(TransitionInvoice(FALSE))
  BY Reads, RefreshesJoin DEF CommandSound, Command, TransitionInvoice, Automations, Contents,
     Inbox, InvoiceReadModels, Invoices, ProjectFacts, Projects, TaskFacts, Tasks, UnifiedSearch
<1>3. /\ CommandSound(CreateFinancialEntry) /\ CommandSound(FinancialEntryCommand)
  BY Reads, RefreshesJoin DEF CommandSound, Command, CreateFinancialEntry, FinancialReadModels,
     FinancialEntryCommand
<1> QED BY <1>1, <1>2, <1>3 DEF MoneyCommands

\* Roadmap, content, tags, saved views, automations.
LEMMA PlanningSound == \A c \in PlanningCommands : CommandSound(c)
<1>1. /\ CommandSound(CreateRoadmapMilestone) /\ CommandSound(RoadmapMilestoneCommand)
      /\ CommandSound(ReorderRoadmapMilestones)
  BY Reads, RefreshesJoin DEF CommandSound, Command, CreateRoadmapMilestone, Inbox,
     RoadmapReadModels, UnifiedSearch, RoadmapMilestoneCommand, ReorderRoadmapMilestones
<1>2. /\ CommandSound(CreateContentItem) /\ CommandSound(ContentItemMutation)
      /\ CommandSound(LinkContentItemTask)
      /\ CommandSound(DeleteContentItem)
  BY Reads, RefreshesJoin DEF CommandSound, Command, CreateContentItem, Contents, UnifiedSearch,
     ContentItemMutation, ContentFacts, Inbox, LinkContentItemTask, DeleteContentItem
<1>3. /\ CommandSound(CreateTag) /\ CommandSound(TagCommand)
      /\ CommandSound(CreateTaskSavedView) /\ CommandSound(TaskSavedViewCommand)
  BY Reads, RefreshesJoin DEF CommandSound, Command, CreateTag, TagCommand, TagFacts, Tasks,
     CreateTaskSavedView, TaskSavedViewCommand
<1>4. /\ CommandSound(AutomationRuleCommand)
  BY Reads, RefreshesJoin DEF CommandSound, Command, AutomationRuleCommand, AutomationFacts,
     Automations, Inbox
<1> QED BY <1>1, <1>2, <1>3, <1>4 DEF PlanningCommands

LEMMA AutomationRetriesSound == \A c \in AutomationRetries : CommandSound(c)
<1>1. \A t \in {"task", "inbox_item", "reminder"} : CommandSound(RetryAutomationRun(t))
  BY Reads, RefreshesJoin DEF CommandSound, Command, RetryAutomationRun, AutomationFacts,
     Automations, Contents, Inbox, InboxFacts, ProjectFacts, Projects, TaskFacts, Tasks,
     UnifiedSearch
<1> QED BY <1>1 DEF AutomationRetries

\* Focus, people, agents, settings, backups.
LEMMA WorkspaceSound == \A c \in WorkspaceCommands : CommandSound(c)
<1>1. /\ CommandSound(CreateFocusSession) /\ CommandSound(SimpleFocusCommand)
      /\ CommandSound(RecoverFocusSession(TRUE)) /\ CommandSound(RecoverFocusSession(FALSE))
      /\ CommandSound(FocusEndCommand)
  BY Reads, RefreshesJoin DEF CommandSound, Command, CreateFocusSession, SimpleFocusCommand,
     RecoverFocusSession, FocusDependents, FocusEnds, Projects, Tasks, FocusEndCommand
<1>2. /\ CommandSound(CreatePersonActor) /\ CommandSound(UpdateActor)
      /\ CommandSound(RegisterAgentAdapter) /\ CommandSound(CheckAgentAdapter)
      /\ CommandSound(SetAgentAdapterEnabled)
  BY Reads, RefreshesJoin DEF CommandSound, Command, CreatePersonActor, Actors, UpdateActor,
     ActorOptions, ActorReferences, Assignments, Clients, Inbox, Projects, RegisterAgentAdapter,
     CheckAgentAdapter, SetAgentAdapterEnabled
<1>3. /\ CommandSound(UpdateSettings) /\ CommandSound(UpdateBackupPolicy)
      /\ CommandSound(CreateBackup) /\ CommandSound(VerifyBackup)
      /\ CommandSound(ScheduleBackupRestore) /\ CommandSound(DeleteBackup)
  BY Reads, RefreshesJoin DEF CommandSound, Command, UpdateSettings, Netless,
     UpdateBackupPolicy, Backups, CreateBackup, BackupIncident, Inbox, VerifyBackup,
     ScheduleBackupRestore, DeleteBackup
<1>4. /\ CommandSound(ImportCommand)
  BY Reads, RefreshesJoin DEF CommandSound, Command, ImportCommand, Families
<1> QED BY <1>1, <1>2, <1>3, <1>4 DEF WorkspaceCommands

\* Agent Runs and the assistant's records.
LEMMA AssistantSound == \A c \in AssistantCommands : CommandSound(c)
<1>1. /\ CommandSound(RetryAgentRunDelivery) /\ CommandSound(ConfirmAgentRunStartGateInputs)
      /\ CommandSound(AgentRunEnds)
  BY Reads, RefreshesJoin DEF CommandSound, Command, RetryAgentRunDelivery,
     AgentRunDeliveryFacts, Assignments, Contents, Inbox, ProjectFacts, Projects,
     TaskAggregates, TaskFacts, TaskOutputActionFacts, Tasks, UnifiedSearch, Netless,
     ConfirmAgentRunStartGateInputs, AgentRunEnds
<1>2. /\ CommandSound(CreateAiMemory) /\ CommandSound(RejectAiMemoryProposal)
      /\ CommandSound(DeleteAiMemory) /\ CommandSound(CreateAiProvider)
      /\ CommandSound(AiProviderCommand) /\ CommandSound(DeleteAiProvider)
  BY Reads, RefreshesJoin DEF CommandSound, Command, CreateAiMemory, RejectAiMemoryProposal,
     DeleteAiMemory, CreateAiProvider, AiInbox, AiProviderCommand, DeleteAiProvider
<1>3. /\ CommandSound(CreateAiSession) /\ CommandSound(DeleteAiSession)
      /\ CommandSound(AttachTaskToAiMessage) /\ CommandSound(ConfirmAiMessageTask)
  BY Reads, RefreshesJoin DEF CommandSound, Command, CreateAiSession, DeleteAiSession, AiInbox,
     AttachTaskToAiMessage, ConfirmAiMessageTask, Assignments, Contents, Inbox, ProjectFacts,
     Projects, TaskAggregates, TaskFacts, Tasks, UnifiedSearch
<1>4. /\ CommandSound(CreateAiEvaluation) /\ CommandSound(CreateAiEvaluationReview)
      /\ CommandSound(CancelAiEvaluation) /\ CommandSound(DeleteAiEvaluation)
  BY Reads, RefreshesJoin DEF CommandSound, Command, CreateAiEvaluation, EvaluationFacts,
     CreateAiEvaluationReview, CancelAiEvaluation, DeleteAiEvaluation
<1> QED BY <1>1, <1>2, <1>3, <1>4 DEF AssistantCommands

LEMMA DecisionsSound == \A c \in Decisions : CommandSound(c)
<1>1. \A facts \in ActionFacts : CommandSound(DecideAction(facts))
  BY Reads, RefreshesJoin DEF CommandSound, Command, DecideAction
<1> QED BY <1>1 DEF Decisions

LEMMA CommandsAreSound == \A c \in Commands : CommandSound(c)
  BY ClientSound, ProjectSound, TaskSound, ReminderSound, MoneySound, PlanningSound,
     WorkspaceSound, AssistantSound, TaskBatchesSound, InboxSound, AutomationRetriesSound,
     DecisionsSound DEF Commands

-----------------------------------------------------------------------------
(* What a command is to one family.                                          *)

LEMMA EffectOfTouched ==
  ASSUME NEW r, NEW f, f \in Touched(r)
  PROVE  Effect(r, f) \in {"renew", "refetch", "mark"}
  BY DEF Touched, Effect

LEMMA NamesOfFamilies == "none" \notin Families /\ "other" \notin Families
  BY DEF Families

\* The family a command writes its answer to is as safe as the command; no other
\* family is written.
LEMMA RolesAreSound ==
  ASSUME NEW r \in Roles
  PROVE  /\ r.own # "other" =>
              \/ r.done \in {"renew", "refetch", "mark"}
              \/ r.store \in {"not_older", "removed"}
              \/ r.store = "set" /\ r.own \in Netless
         /\ r.own = "other" => r.store = "kept"
<1>1. PICK c \in Commands, f \in Families : r = Role(c, f)
  BY DEF Roles
<1>2. /\ r.own = IF f = c.own THEN f ELSE "other"
      /\ r.store = IF f = c.own THEN c.store ELSE "kept"
      /\ r.done = Effect(c.done, f)
  BY <1>1 DEF Role
<1>3. CASE f # c.own
  BY <1>2, <1>3
<1>4. CASE f = c.own
  <2>1. r.own = c.own /\ r.own # "other" /\ r.own # "none" /\ r.store = c.store
    BY <1>2, <1>4, NamesOfFamilies
  <2>2. CommandSound(c)
    BY CommandsAreSound
  <2>3. CASE c.own \in Touched(c.done)
    BY <1>2, <1>4, <2>1, <2>3, EffectOfTouched
  <2> QED BY <2>1, <2>2, <2>3 DEF CommandSound
<1> QED BY <1>3, <1>4

-----------------------------------------------------------------------------
(* The cached read.                                                          *)

FetchStates == {"none", "sent", "read"}
Numbers == 0..(MaxForeign + 1)
Copies ==
  [data : Versions, marked : BOOLEAN, shown : BOOLEAN, fetch : FetchStates,
   read : Numbers, failed : BOOLEAN]

LEMMA Ranges ==
  /\ NoData \in Versions /\ 0 \in Numbers
  /\ Numbers \subseteq Versions /\ Numbers \subseteq Nat /\ Versions \subseteq Int
  BY MaxForeignAssumption DEF Versions, Numbers, NoData

LEMMA BeginSends ==
  ASSUME NEW c \in Copies
  PROVE  /\ Begin(c) \in Copies
         /\ Begin(c).data = c.data /\ Begin(c).marked = c.marked /\ Begin(c).fetch = "sent"
  BY Ranges DEF Begin, Copies, FetchStates

LEMMA CancelStops ==
  ASSUME NEW c \in Copies
  PROVE  /\ Cancel(c) \in Copies
         /\ Cancel(c).data = c.data /\ Cancel(c).marked = c.marked /\ Cancel(c).fetch = "none"
  BY Ranges DEF Cancel, Copies, FetchStates

LEMMA MarkStaleMarks ==
  ASSUME NEW c \in Copies
  PROVE  /\ MarkStale(c) \in Copies
         /\ MarkStale(c).data = c.data
         /\ MarkStale(c).fetch = c.fetch /\ MarkStale(c).read = c.read
         /\ c.data # NoData \/ c.marked => MarkStale(c).marked
  BY DEF MarkStale, Holds, Copies

LEMMA ReadAgainSends ==
  ASSUME NEW c \in Copies
  PROVE  /\ ReadAgain(c) \in Copies
         /\ ReadAgain(c).data = c.data /\ ReadAgain(c).marked = c.marked
         /\ ReadAgain(c).fetch = "read" => ReadAgain(c) = c
         /\ ReadAgain(c).fetch = "none" => c.fetch = "none"
  BY BeginSends DEF ReadAgain

\* A refresh changes no data; what it touches it marks, and an answer that is
\* on its way afterwards was so before.
LEMMA RefreshedMarks ==
  ASSUME NEW c \in Copies, NEW e
  PROVE  /\ Refreshed(c, e) \in Copies
         /\ Refreshed(c, e).data = c.data
         /\ c.marked => Refreshed(c, e).marked
         /\ e \in {"renew", "refetch", "mark"} /\ c.data # NoData => Refreshed(c, e).marked
         /\ Refreshed(c, e).fetch = "read" =>
              e # "renew" /\ c.fetch = "read" /\ Refreshed(c, e).read = c.read
<1>1. CASE e = "renew"
  <2> DEFINE d == MarkStale(Cancel(c))
  <2>1. Refreshed(c, e) = ReadAgain(d)
    BY <1>1, Zenon DEF Refreshed
  <2>2. d \in Copies /\ d.data = c.data /\ d.fetch = "none"
        /\ (c.marked => d.marked) /\ (c.data # NoData => d.marked)
    BY CancelStops, MarkStaleMarks
  <2> HIDE DEF d
  <2> QED BY <2>1, <2>2, ReadAgainSends
<1>2. CASE e = "refetch"
  <2> DEFINE d == MarkStale(c)
  <2>1. Refreshed(c, e) = ReadAgain(d)
    BY <1>2, Zenon DEF Refreshed
  <2>2. d \in Copies /\ d.data = c.data /\ d.fetch = c.fetch /\ d.read = c.read
        /\ (c.marked => d.marked) /\ (c.data # NoData => d.marked)
    BY MarkStaleMarks
  <2> HIDE DEF d
  <2> QED BY <1>2, <2>1, <2>2, ReadAgainSends
<1>3. CASE e = "mark"
  <2>1. Refreshed(c, e) = MarkStale(c)
    BY <1>3, Zenon DEF Refreshed
  <2> QED BY <1>3, <2>1, MarkStaleMarks
<1>4. CASE e = "cancel"
  <2>1. Refreshed(c, e) = Cancel(c)
    BY <1>4, Zenon DEF Refreshed
  <2> QED BY <1>4, <2>1, CancelStops
<1>5. CASE e \notin {"renew", "refetch", "mark", "cancel"}
  <2>1. Refreshed(c, e) = c
    BY <1>5, Zenon DEF Refreshed
  <2> QED BY <1>5, <2>1
<1> QED BY <1>1, <1>2, <1>3, <1>4, <1>5

\* What the answer of a command leaves in the cache.
LEMMA StoredAnswers ==
  ASSUME NEW c \in Copies, cmd.commit \in Numbers, NEW d \in Stored(c)
  PROVE  /\ d \in Copies
         /\ d.fetch = "read" => c.fetch = "read" /\ d.read = c.read
         /\ role.store = "set" => d.data = cmd.commit
         /\ role.store = "not_older" =>
              d.data >= cmd.commit /\ (d.data = c.data \/ d.data >= c.data)
         /\ role.store = "removed" => d.data = NoData
         /\ role.store \notin {"set", "removed"} => d.data = c.data \/ d.data >= c.data
         /\ d.data \in {c.data, cmd.commit, NoData}
<1> DEFINE a == Answered(c)
<1>1. a \in Copies /\ a.data = cmd.commit /\ a.fetch = c.fetch /\ a.read = c.read
  BY Ranges DEF Answered, Copies
<1>2. c.data \in Int /\ c.data \in Versions /\ cmd.commit \in Nat
  BY Ranges DEF Copies
<1> HIDE DEF a
<1>3. CASE role.store = "set"
  <2>1. Stored(c) = {a}
    BY <1>3, Zenon DEF Stored, a
  <2> QED BY <1>1, <1>3, <2>1
<1>4. CASE role.store = "not_older"
  <2>1. Stored(c) = {IF c.data > cmd.commit THEN c ELSE a}
    BY <1>4, Zenon DEF Stored, a
  <2> QED BY <1>1, <1>2, <1>4, <2>1
<1>5. CASE role.store = "unless_read"
  <2>1. Stored(c) = IF c.data > cmd.commit THEN {c} ELSE {c, a}
    BY <1>5, Zenon DEF Stored, a
  <2> QED BY <1>1, <1>2, <1>5, <2>1
<1>6. CASE role.store = "removed"
  <2> DEFINE g == [Cancel(c) EXCEPT !.data = NoData, !.marked = FALSE]
  <2>1. g \in Copies /\ g.data = NoData /\ g.fetch = "none"
    BY CancelStops, Ranges DEF Copies
  <2>2. Stored(c) = {g}
    BY <1>6, Zenon DEF Stored
  <2> HIDE DEF g
  <2> QED BY <1>6, <2>1, <2>2
<1>7. CASE role.store \notin {"set", "not_older", "unless_read", "removed"}
  <2>1. Stored(c) = {c}
    BY <1>7, Zenon DEF Stored
  <2> QED BY <1>2, <1>7, <2>1
<1> QED BY <1>3, <1>4, <1>5, <1>6, <1>7

-----------------------------------------------------------------------------
(* The cache while the command is on its way and after.                      *)

Phases == {"idle", "sent", "committed", "refused", "done", "failed"}
Settled == cmd.phase \in {"done", "failed"}

\* Every write has one number, and nothing is newer than the last one.
Counted ==
  /\ role \in Roles /\ copy \in Copies
  /\ cmd \in [phase : Phases, commit : Numbers, error : ErrorKinds \cup {"none"}]
  /\ foreign \in 0..MaxForeign /\ past \in Versions /\ raced \in BOOLEAN
  /\ server = foreign + (IF cmd.commit = 0 THEN 0 ELSE 1)
  /\ cmd.commit <= server /\ past <= server /\ copy.data <= past
  /\ copy.fetch = "read" => copy.read <= server

\* How far the command has come.
Phased ==
  /\ cmd.phase \in {"idle", "sent"} => cmd.commit = 0
  /\ cmd.phase \in {"committed", "done"} => cmd.commit > 0
  /\ cmd.phase \in {"refused", "failed"} =>
       cmd.error \in ErrorKinds /\ (cmd.error # "lost" => cmd.commit = 0)

\* Until its hook runs the read shows the newest of what has been read, and no
\* answer on its way is older.
Ordered ==
  /\ ~Settled => copy.data = past /\ ~raced
  /\ raced \/ (copy.fetch = "read" => copy.read >= past)

\* What the hook refreshed, or what shows the record itself, is not older than
\* the commit unless it is marked, and no older answer is on its way to it.
Bound ==
  Applied = "renew" \/ ((Applied \in {"refetch", "mark"} \/ OwnDone) /\ ~raced)
Caught ==
  Bound =>
    /\ copy.data = NoData \/ copy.data >= cmd.commit \/ copy.marked
    /\ copy.fetch = "read" => copy.read >= cmd.commit

CacheInv == Counted /\ Phased /\ Ordered /\ NewerReadIsNotForgotten /\ Caught

LEMMA CountedRanges ==
  ASSUME Counted
  PROVE  /\ server \in Nat /\ past \in Int /\ cmd.commit \in Nat
         /\ copy.data \in Int /\ copy.read \in Nat
<1>1. server \in Nat
  BY MaxForeignAssumption DEF Counted
<1>2. cmd.commit \in Numbers /\ copy.data \in Versions /\ copy.read \in Numbers /\ past \in Versions
  BY DEF Counted, Copies
<1> QED BY <1>1, <1>2, Ranges

LEMMA CountedHasType == Counted => TypeOK
<1>1. ASSUME Counted PROVE server \in 0..(MaxForeign + 1)
  BY <1>1, MaxForeignAssumption DEF Counted
<1> QED BY <1>1 DEF Counted, TypeOK, Copies, Numbers, Phases, FetchStates

LEMMA CacheInit == Init => CacheInv
<1> SUFFICES ASSUME Init PROVE CacheInv
  OBVIOUS
<1>1. Counted
  <2>1. role \in Roles /\ copy \in Copies
    BY Ranges DEF Init, Copies, FetchStates
  <2>2. cmd \in [phase : Phases, commit : Numbers, error : ErrorKinds \cup {"none"}]
    BY Ranges DEF Init, Phases
  <2>3. foreign \in 0..MaxForeign
    BY MaxForeignAssumption DEF Init
  <2>4. past \in Versions /\ raced \in BOOLEAN
    BY Ranges, Zenon DEF Init
  <2>5. /\ server = foreign + (IF cmd.commit = 0 THEN 0 ELSE 1)
        /\ cmd.commit <= server /\ past <= server /\ copy.data <= past /\ copy.fetch = "none"
    BY DEF Init, NoData
  <2> QED BY <2>1, <2>2, <2>3, <2>4, <2>5 DEF Counted
<1>2. Phased /\ Ordered /\ NewerReadIsNotForgotten
  BY DEF Init, Phased, Ordered, Settled, NewerReadIsNotForgotten
<1>3. Applied = "none" /\ ~OwnDone
  BY Zenon DEF Init, Applied, OwnDone
<1>4. ~Bound
  BY <1>3 DEF Bound
<1> QED BY <1>1, <1>2, <1>4 DEF CacheInv, Caught

\* A step of the cached read alone: it changes neither the command nor the writes.
Still == UNCHANGED <<role, server, foreign, cmd, raced>>

LEMMA StillKeepsBound ==
  ASSUME Still PROVE Bound' = Bound /\ Settled' = Settled
  BY DEF Still, Bound, Applied, OwnDone, Settled

\* Such a step keeps the invariant when it brings nothing new in: the data and
\* its mark stay, and an answer on its way was so before or is as new as the
\* service.
LEMMA QuietSteps ==
  ASSUME CacheInv, Still, UNCHANGED past, copy' \in Copies,
         copy'.data = copy.data, copy'.marked = copy.marked,
         copy'.fetch = "read" =>
           (copy.fetch = "read" /\ copy'.read = copy.read) \/ copy'.read = server
  PROVE  CacheInv'
<1>1. cmd.commit <= server /\ past <= server
  BY DEF CacheInv, Counted
<1>2. server \in Int /\ past \in Int /\ cmd.commit \in Int /\ copy.data \in Int
  BY CountedRanges DEF CacheInv
<1>3. Counted'
  BY DEF CacheInv, Counted, Still
<1>4. Phased' /\ Ordered' /\ NewerReadIsNotForgotten'
  BY <1>1, <1>2, StillKeepsBound DEF CacheInv, Phased, Ordered, NewerReadIsNotForgotten, Still
<1>5. Caught'
  BY <1>1, <1>2, StillKeepsBound DEF CacheInv, Caught, Still
<1> QED BY <1>3, <1>4, <1>5 DEF CacheInv

LEMMA ShowKeeps == ASSUME CacheInv, Show PROVE CacheInv'
<1> DEFINE c == [copy EXCEPT !.shown = TRUE]
<1>1. copy \in Copies
  BY DEF CacheInv, Counted
<1>2. /\ c \in Copies /\ c.data = copy.data /\ c.marked = copy.marked
      /\ c.fetch = copy.fetch /\ c.read = copy.read
  BY <1>1 DEF Copies
<1>3. copy' = c \/ copy' = Begin(c)
  BY DEF Show
<1>4. Still /\ UNCHANGED past
  BY DEF Show, Still
<1> HIDE DEF c
<1> QED BY <1>2, <1>3, <1>4, BeginSends, QuietSteps

LEMMA LeaveKeeps == ASSUME CacheInv, Leave PROVE CacheInv'
<1> DEFINE c == [copy EXCEPT !.shown = FALSE]
<1>1. copy \in Copies
  BY DEF CacheInv, Counted
<1>2. /\ c \in Copies /\ c.data = copy.data /\ c.marked = copy.marked
      /\ c.fetch = copy.fetch /\ c.read = copy.read
  BY <1>1 DEF Copies
<1>3. copy' = c \/ copy' = Cancel(c)
  BY DEF Leave
<1>4. Still /\ UNCHANGED past
  BY DEF Leave, Still
<1> HIDE DEF c
<1> QED BY <1>2, <1>3, <1>4, CancelStops, QuietSteps

LEMMA PollKeeps == ASSUME CacheInv, Poll PROVE CacheInv'
<1>1. copy \in Copies
  BY DEF CacheInv, Counted
<1>2. copy' = Begin(copy) /\ Still /\ UNCHANGED past
  BY DEF Poll, Still
<1> QED BY <1>1, <1>2, BeginSends, QuietSteps

LEMMA ServerReadsKeeps == ASSUME CacheInv, ServerReads PROVE CacheInv'
<1>1. copy \in Copies /\ server \in Numbers /\ server \in Nat
  BY MaxForeignAssumption DEF CacheInv, Counted, Numbers
<1>2. copy' = [copy EXCEPT !.fetch = "read", !.read = server]
  BY DEF ServerReads
<1>3. /\ copy' \in Copies /\ copy'.data = copy.data /\ copy'.marked = copy.marked
      /\ copy'.read = server
  BY <1>1, <1>2 DEF Copies, FetchStates
<1>4. Still /\ UNCHANGED past
  BY DEF ServerReads, Still
<1> QED BY <1>1, <1>3, <1>4, QuietSteps

LEMMA FetchFailsKeeps == ASSUME CacheInv, FetchFails PROVE CacheInv'
<1> DEFINE c == Cancel(copy)
<1>1. copy \in Copies
  BY DEF CacheInv, Counted
<1>2. c \in Copies /\ c.data = copy.data /\ c.marked = copy.marked /\ c.fetch = "none"
  BY <1>1, CancelStops
<1>3. copy' = [c EXCEPT !.failed = TRUE]
  BY DEF FetchFails
<1> HIDE DEF c
<1>4. /\ copy' \in Copies /\ copy'.data = copy.data /\ copy'.marked = copy.marked
      /\ copy'.fetch = "none"
  BY <1>2, <1>3 DEF Copies
<1>5. Still /\ UNCHANGED past
  BY DEF FetchFails, Still
<1> QED BY <1>4, <1>5, QuietSteps

\* An answer that arrives takes the place of the data.
LEMMA ArrivesKeeps == ASSUME CacheInv, Arrives PROVE CacheInv'
<1> DEFINE c == Cancel(copy)
<1>1. /\ copy \in Copies /\ copy.fetch = "read" /\ copy.read <= server /\ past <= server
      /\ server \in Nat /\ past \in Versions /\ copy.read \in Numbers
  BY MaxForeignAssumption DEF CacheInv, Counted, Arrives, Copies
<1>2. c \in Copies /\ c.fetch = "none"
  BY <1>1, CancelStops
<1>4. copy' = [c EXCEPT !.data = copy.read, !.marked = FALSE]
  BY DEF Arrives
<1> HIDE DEF c
<1>5. /\ copy' \in Copies /\ copy'.data = copy.read /\ copy'.fetch = "none"
  BY <1>1, <1>2, <1>4, Ranges DEF Copies
<1>6. Still /\ past' = IF copy.read > past THEN copy.read ELSE past
  BY DEF Arrives, Still
<1>7. past \in Int /\ copy.read \in Nat
  BY <1>1, Ranges
<1>8. past' \in Versions /\ past' <= server /\ copy'.data <= past'
  BY <1>1, <1>5, <1>6, <1>7, Ranges
<1>9. Counted'
  BY <1>1, <1>5, <1>6, <1>8 DEF CacheInv, Counted, Still
<1>10. ~raced => copy.read >= past
  BY <1>1 DEF CacheInv, Ordered
<1>11. Phased' /\ Ordered' /\ NewerReadIsNotForgotten'
  BY <1>5, <1>6, <1>7, <1>10, StillKeepsBound DEF CacheInv, Phased, Ordered,
     NewerReadIsNotForgotten, Still
<1>12. Caught'
  BY <1>1, <1>5, <1>6, StillKeepsBound DEF CacheInv, Caught, Still
<1> QED BY <1>9, <1>11, <1>12 DEF CacheInv

-----------------------------------------------------------------------------
(* The command and its hook.                                                 *)

LEMMA ForeignWriteKeeps == ASSUME CacheInv, ForeignWrite PROVE CacheInv'
<1>1. /\ UNCHANGED <<role, cmd, copy, past, raced>>
      /\ server' = server + 1 /\ foreign' \in 0..MaxForeign
  BY MaxForeignAssumption DEF CacheInv, Counted, ForeignWrite
<1>2. server \in Nat /\ past \in Int /\ cmd.commit \in Nat /\ copy.data \in Int /\ copy.read \in Nat
  BY CountedRanges DEF CacheInv
<1>3. Counted'
  <2>1. server' = foreign' + (IF cmd.commit = 0 THEN 0 ELSE 1)
    BY <1>1, MaxForeignAssumption DEF CacheInv, Counted, ForeignWrite
  <2>2. /\ cmd.commit <= server' /\ past <= server'
        /\ copy.fetch = "read" => copy.read <= server'
    BY <1>1, <1>2 DEF CacheInv, Counted
  <2> QED BY <1>1, <2>1, <2>2 DEF CacheInv, Counted
<1>4. Phased' /\ Ordered' /\ NewerReadIsNotForgotten' /\ Caught'
  BY <1>1 DEF CacheInv, Phased, Ordered, NewerReadIsNotForgotten, Caught, Bound, Applied,
     OwnDone, Settled
<1> QED BY <1>3, <1>4 DEF CacheInv

\* Before its hook has run a command has no effect on the cache.
LEMMA BeforeTheHook ==
  ASSUME CacheInv, ~Settled, UNCHANGED <<role, copy, past, raced>>,
         cmd'.phase \in {"sent", "committed", "refused"}, Counted', Phased'
  PROVE  CacheInv'
<1>1. ~Settled'
  BY DEF Settled
<1>2. Applied' = "none" /\ ~OwnDone'
  BY <1>1, Zenon DEF Applied, OwnDone, Settled
<1>3. Ordered' /\ NewerReadIsNotForgotten' /\ Caught'
  BY <1>1, <1>2 DEF CacheInv, Ordered, NewerReadIsNotForgotten, Caught, Bound
<1> QED BY <1>3 DEF CacheInv

LEMMA SendKeeps == ASSUME CacheInv, Send PROVE CacheInv'
<1>1. /\ cmd' \in [phase : Phases, commit : Numbers, error : ErrorKinds \cup {"none"}]
      /\ cmd'.phase = "sent" /\ cmd'.commit = cmd.commit /\ cmd.phase = "idle"
  BY DEF CacheInv, Counted, Send, Phases
<1>2. UNCHANGED <<role, server, foreign, copy, past, raced>>
  BY DEF Send
<1>3. Counted' /\ Phased' /\ ~Settled
  BY <1>1, <1>2 DEF CacheInv, Counted, Phased, Settled
<1> QED BY <1>1, <1>2, <1>3, BeforeTheHook

LEMMA CommitKeeps == ASSUME CacheInv, Commit PROVE CacheInv'
<1>1. cmd.phase = "sent" /\ cmd.commit = 0 /\ server = foreign /\ server' = server + 1
  BY MaxForeignAssumption DEF CacheInv, Counted, Phased, Commit
<1>2. server + 1 \in Numbers /\ server + 1 # 0 /\ server \in Nat
  BY <1>1, MaxForeignAssumption DEF CacheInv, Counted, Numbers
<1>3. /\ cmd' \in [phase : Phases, commit : Numbers, error : ErrorKinds \cup {"none"}]
      /\ cmd'.phase = "committed" /\ cmd'.commit = server + 1
  BY <1>2 DEF CacheInv, Counted, Commit, Phases
<1>4. UNCHANGED <<role, foreign, copy, past, raced>>
  BY DEF Commit
<1>5. past \in Int /\ copy.data \in Int /\ copy.read \in Nat
  BY CountedRanges DEF CacheInv
<1>6. Counted'
  <2>1. server' = foreign' + (IF cmd'.commit = 0 THEN 0 ELSE 1)
    BY <1>1, <1>2, <1>3, <1>4
  <2>2. cmd'.commit <= server' /\ past' <= server' /\ copy'.data <= past'
    BY <1>1, <1>2, <1>3, <1>4, <1>5 DEF CacheInv, Counted
  <2>3. copy'.fetch = "read" => copy'.read <= server'
    BY <1>1, <1>2, <1>4, <1>5 DEF CacheInv, Counted
  <2>4. role' \in Roles /\ copy' \in Copies /\ foreign' \in 0..MaxForeign
        /\ past' \in Versions /\ raced' \in BOOLEAN
    BY <1>4 DEF CacheInv, Counted
  <2> QED BY <1>3, <2>1, <2>2, <2>3, <2>4 DEF Counted
<1>7. Phased' /\ ~Settled
  BY <1>1, <1>2, <1>3 DEF Phased, Settled
<1> QED BY <1>3, <1>4, <1>6, <1>7, BeforeTheHook

LEMMA RefuseKeeps == ASSUME CacheInv, Refuse PROVE CacheInv'
<1>1. PICK k \in ErrorKinds \ {"lost"} : cmd' = [cmd EXCEPT !.phase = "refused", !.error = k]
  BY DEF Refuse
<1>2. cmd.phase = "sent" /\ cmd.commit = 0 /\ UNCHANGED <<role, server, foreign, copy, past, raced>>
  BY DEF CacheInv, Phased, Refuse
<1>3. /\ cmd' \in [phase : Phases, commit : Numbers, error : ErrorKinds \cup {"none"}]
      /\ cmd'.phase = "refused" /\ cmd'.commit = 0 /\ cmd'.error = k
  BY <1>1, <1>2 DEF CacheInv, Counted, Phases
<1>4. Counted' /\ Phased' /\ ~Settled
  BY <1>2, <1>3 DEF CacheInv, Counted, Phased, Settled
<1> QED BY <1>2, <1>3, <1>4, BeforeTheHook

LEMMA LoseKeeps == ASSUME CacheInv, Lose PROVE CacheInv'
<1>1. "lost" \in ErrorKinds
  BY DEF ErrorKinds
<1>2. cmd.phase \in {"sent", "committed"} /\ UNCHANGED <<role, server, foreign, copy, past, raced>>
  BY DEF Lose
<1>3. /\ cmd' \in [phase : Phases, commit : Numbers, error : ErrorKinds \cup {"none"}]
      /\ cmd'.phase = "refused" /\ cmd'.commit = cmd.commit /\ cmd'.error = "lost"
  BY <1>1 DEF CacheInv, Counted, Phases, Lose
<1>4. Counted' /\ Phased' /\ ~Settled
  BY <1>1, <1>2, <1>3 DEF CacheInv, Counted, Phased, Settled
<1> QED BY <1>2, <1>3, <1>4, BeforeTheHook

\* What the two hooks have in common: the copy c is stored with its refresh e, and
\* from then on the refresh, or the answer, answers for it.
LEMMA SettleKeeps ==
  ASSUME CacheInv, ~Settled, NEW c \in Copies, Settle(c),
         cmd' \in [phase : Phases, commit : Numbers, error : ErrorKinds \cup {"none"}],
         Settled', cmd'.commit = cmd.commit, Phased',
         c.data \in {copy.data, cmd.commit, NoData},
         c.fetch = "read" => copy.fetch = "read" /\ c.read = copy.read,
         c.data = NoData \/ c.data >= copy.data \/ c.marked \/ role.own \in Netless,
         Applied' = "renew" => c.fetch # "read",
         Applied' \in {"renew", "refetch", "mark"} \/ OwnDone' =>
           c.data = NoData \/ c.data >= cmd.commit \/ c.marked
  PROVE  CacheInv'
<1>1. server \in Nat /\ past \in Int /\ cmd.commit \in Nat /\ copy.data \in Int /\ copy.read \in Nat
  BY CountedRanges DEF CacheInv
<1>2. /\ copy' = c /\ UNCHANGED <<role, server, foreign>>
      /\ past' = IF c.data > past THEN c.data ELSE past
      /\ raced' = (raced \/ OldReadInFlight(c))
  BY DEF Settle
<1>3. /\ c.data \in Versions /\ c.data \in Int /\ c.read \in Numbers /\ c.read \in Nat
      /\ NoData \in Versions /\ NoData = -1
  BY Ranges DEF Copies, NoData
<1>4. copy.data = past /\ ~raced /\ (copy.fetch = "read" => copy.read >= past)
  BY DEF CacheInv, Ordered
<1>5. past' \in Versions /\ past' <= server /\ c.data <= past'
  BY <1>1, <1>2, <1>3, <1>4 DEF CacheInv, Counted
<1>6. raced' \in BOOLEAN
  BY <1>2 DEF CacheInv, Counted, OldReadInFlight
<1>7. Counted'
  BY <1>2, <1>5, <1>6 DEF CacheInv, Counted
<1>8. raced' \/ (c.fetch = "read" => c.read >= cmd.commit /\ c.read >= copy.data)
  <2>1. OldReadInFlight(c) => raced'
    BY <1>2, Zenon
  <2> QED BY <1>1, <1>3, <1>4, <2>1 DEF OldReadInFlight
<1>9. Ordered' /\ NewerReadIsNotForgotten'
  BY <1>1, <1>2, <1>3, <1>4, <1>8 DEF Ordered, NewerReadIsNotForgotten, Netless
<1>10. Caught'
  BY <1>2, <1>8 DEF Caught, Bound
<1> QED BY <1>7, <1>9, <1>10 DEF CacheInv

LEMMA OnSuccessKeeps == ASSUME CacheInv, OnSuccess PROVE CacheInv'
<1>1. PICK d \in Stored(copy) : Settle(Refreshed(d, role.done))
  BY DEF OnSuccess
<1> DEFINE c == Refreshed(d, role.done)
<1>2. copy \in Copies /\ cmd.commit \in Numbers /\ cmd.commit > 0 /\ role \in Roles
  BY DEF CacheInv, Counted, Phased, OnSuccess
<1>3. copy.data \in Int /\ cmd.commit \in Nat /\ server \in Nat /\ NoData = -1
  BY CountedRanges DEF CacheInv, NoData
<1>4. /\ cmd' \in [phase : Phases, commit : Numbers, error : ErrorKinds \cup {"none"}]
      /\ cmd'.phase = "done" /\ cmd'.commit = cmd.commit /\ cmd.phase = "committed"
  BY DEF CacheInv, Counted, OnSuccess, Phases
<1>5. /\ d \in Copies
      /\ d.fetch = "read" => copy.fetch = "read" /\ d.read = copy.read
      /\ role.store = "set" => d.data = cmd.commit
      /\ role.store = "not_older" => d.data >= cmd.commit /\ d.data >= copy.data
      /\ role.store = "removed" => d.data = NoData
      /\ role.store \notin {"set", "removed"} => d.data >= copy.data
      /\ d.data \in {copy.data, cmd.commit, NoData}
  BY <1>1, <1>2, <1>3, StoredAnswers
<1>6. /\ c \in Copies /\ c.data = d.data
      /\ role.done \in {"renew", "refetch", "mark"} /\ d.data # NoData => c.marked
      /\ c.fetch = "read" => role.done # "renew" /\ d.fetch = "read" /\ c.read = d.read
  BY <1>5, RefreshedMarks
<1>7. UNCHANGED role /\ Applied' = role.done /\ (OwnDone' <=> role.own # "other")
  <2>1. UNCHANGED role
    BY <1>1 DEF Settle
  <2>2. Applied' = role'.done
    BY <1>4, Zenon DEF Applied
  <2> QED BY <1>4, <2>1, <2>2 DEF OwnDone
<1>8. /\ role.own # "other" =>
           \/ role.done \in {"renew", "refetch", "mark"}
           \/ role.store \in {"not_older", "removed"}
           \/ role.store = "set" /\ role.own \in Netless
      /\ role.own = "other" => role.store = "kept"
  BY <1>2, RolesAreSound
<1>9. c.data = NoData \/ c.data >= copy.data \/ c.marked \/ role.own \in Netless
  BY <1>5, <1>6, <1>8
<1>10. Applied' \in {"renew", "refetch", "mark"} \/ OwnDone' =>
         c.data = NoData \/ c.data >= cmd.commit \/ c.marked
  BY <1>3, <1>5, <1>6, <1>7, <1>8
<1>11. Phased' /\ Settled' /\ ~Settled
  BY <1>2, <1>4 DEF Phased, Settled
<1> HIDE DEF c
<1> QED BY <1>1, <1>4, <1>5, <1>6, <1>7, <1>9, <1>10, <1>11, SettleKeeps DEF c

LEMMA OnErrorKeeps == ASSUME CacheInv, OnError PROVE CacheInv'
<1> DEFINE e == role.failed[cmd.error]
           c == Refreshed(copy, e)
<1>1. Settle(c) /\ copy \in Copies /\ UNCHANGED role
  BY DEF CacheInv, Counted, OnError, Settle
<1>2. /\ cmd' \in [phase : Phases, commit : Numbers, error : ErrorKinds \cup {"none"}]
      /\ cmd'.phase = "failed" /\ cmd'.commit = cmd.commit /\ cmd'.error = cmd.error
      /\ cmd.phase = "refused"
  BY DEF CacheInv, Counted, OnError, Phases
<1>3. copy.data \in Int /\ cmd.commit \in Nat
  BY CountedRanges DEF CacheInv
<1>4. /\ c \in Copies /\ c.data = copy.data
      /\ e \in {"renew", "refetch", "mark"} /\ copy.data # NoData => c.marked
      /\ c.fetch = "read" => e # "renew" /\ copy.fetch = "read" /\ c.read = copy.read
  BY <1>1, RefreshedMarks
<1>5. cmd.error # "lost" => cmd.commit = 0
  BY <1>2 DEF CacheInv, Phased
<1>6. Applied' = IF cmd.commit > 0 THEN role.failed["lost"] ELSE "none"
  <2>1. CASE cmd.commit > 0
    BY <1>1, <1>2, <2>1, Zenon DEF Applied
  <2>2. CASE ~(cmd.commit > 0)
    BY <1>2, <2>2, Zenon DEF Applied
  <2> QED BY <2>1, <2>2
<1>7. Applied' \in {e, "none"} /\ ~OwnDone'
  BY <1>2, <1>3, <1>5, <1>6 DEF OwnDone
<1>8. Phased' /\ Settled' /\ ~Settled
  BY <1>2, <1>5 DEF CacheInv, Phased, Settled
<1> HIDE DEF c, e
<1> QED BY <1>1, <1>2, <1>3, <1>4, <1>7, <1>8, SettleKeeps

-----------------------------------------------------------------------------
(* The theorems.                                                             *)

LEMMA CacheStep == CacheInv /\ [Next]_vars => CacheInv'
<1> SUFFICES ASSUME CacheInv, [Next]_vars PROVE CacheInv'
  OBVIOUS
<1>1. CASE Next
  BY <1>1, ShowKeeps, LeaveKeeps, PollKeeps, ServerReadsKeeps, ArrivesKeeps, FetchFailsKeeps,
     ForeignWriteKeeps, SendKeeps, CommitKeeps, RefuseKeeps, LoseKeeps, OnSuccessKeeps,
     OnErrorKeeps DEF Next
<1>2. CASE UNCHANGED vars
  BY <1>2 DEF vars, CacheInv, Counted, Phased, Ordered, Settled, NewerReadIsNotForgotten,
     Caught, Bound, Applied, OwnDone
<1> QED BY <1>1, <1>2

LEMMA CacheAlways == Spec => []CacheInv
  BY CacheInit, CacheStep, PTL DEF Spec

\* The variables keep their ranges.
THEOREM TypeCorrect == Spec => []TypeOK
<1>1. CacheInv => TypeOK
  BY CountedHasType DEF CacheInv
<1> QED BY <1>1, CacheAlways, PTL

\* Whatever the command, the family, the reads in flight and the writes of others,
\* a read that the hook refreshed, or that shows the record itself, is not taken
\* for current while it shows what was there before the commit.
THEOREM RefreshedIsCurrent == Spec => []RefreshedIsNotStale
<1>1. CacheInv => RefreshedIsNotStale
  BY DEF CacheInv, Caught, Bound, RefreshedIsNotStale
<1> QED BY <1>1, CacheAlways, PTL

\* The answer of a command never takes the place of something newer that was
\* already read and passes for current, except in the three hooks that write
\* their answer and refresh everything but it.
THEOREM NewerReadIsKept == Spec => []NewerReadIsNotForgotten
<1>1. CacheInv => NewerReadIsNotForgotten
  BY DEF CacheInv
<1> QED BY <1>1, CacheAlways, PTL

-----------------------------------------------------------------------------
(* Lists.                                                                    *)

USE ListingAssumption DEF ListingAssumption

-----------------------------------------------------------------------------
(* The invariant.                                                          *)

PageAnswers == [total : Nat, items : Seq(RowIds), more : BOOLEAN]
Spans == [stayed : SUBSET RowIds, gone : BOOLEAN, came : BOOLEAN]
Keys == Nat \X Nat
Fetches ==
  [phase : {"none", "asked", "counted", "read"}, key : Keys, got : Seq(PageAnswers),
   all : Seq(RowIds), total : Nat, upTo : Nat, since : Spans, edited : BOOLEAN,
   torn : BOOLEAN]
Showns == [key : Keys, pages : Seq(PageAnswers), all : Seq(RowIds), since : Spans]

\* How many rows n pages have.
Offset(n) == n * PageSize
\* What a list of pages was read from, if nothing moved: the beginning of list.
Prefix(n, list) == SubSeq(list, 1, IF n <= Len(list) THEN n ELSE Len(list))
Held(list, pages, all) == all = Prefix(Offset(Len(pages)), list)

\* Page after page by offset: an addition pushes rows on to pages that are still
\* to come, so that only a removal can hide one.
GrownSoFar(list, pages, all, since) ==
  since.gone \/
    /\ \A p \in DOMAIN list :
         p <= Offset(Len(pages)) /\ list[p] \in since.stayed => list[p] \in ToSet(all)
    /\ pages # <<>> /\ ~More(pages) => since.stayed \subseteq ToSet(all)

\* By cursor: every row down to the last one read.
CursorSoFar(list, pages, all, since) ==
  pages # <<>> =>
    IF More(pages)
    THEN all # <<>> /\ \A r \in since.stayed : r >= Last(all) => r \in ToSet(all)
    ELSE since.stayed \subseteq ToSet(all)

\* With one total on every page: rows have only come, or only gone, so the list
\* had this length while these pages were read, and did not move.
SteadySoFar(list, pages, all, since) ==
  pages # <<>> /\ Alike(pages) /\ ~(since.gone /\ since.came) =>
    /\ ~since.gone => pages[1].total <= Len(list)
    /\ ~since.came => pages[1].total >= Len(list)
    /\ pages[1].total = Len(list) => Held(list, pages, all)
    /\ pages[1].total = Len(all) => since.stayed \subseteq ToSet(all)

\* With whatever comes: something is known only while nothing changes.
LooseSoFar(list, pages, all, since) ==
  pages # <<>> /\ ~since.gone /\ ~since.came =>
    /\ Latest(pages).total = Len(list) /\ Held(list, pages, all)
    /\ Latest(pages).items = <<>> => all = list

SoFar(v, list, pages, all, since) ==
  /\ since.stayed \subseteq ToSet(list)
  /\ pages = <<>> => all = <<>>
  /\ v.answer.cursor => CursorSoFar(list, pages, all, since)
  /\ v.mode = "grown" /\ ~v.answer.cursor => GrownSoFar(list, pages, all, since)
  /\ v.mode = "steady" => SteadySoFar(list, pages, all, since)
  /\ v.mode = "loose" => LooseSoFar(list, pages, all, since)

\* A list f that is being read, and a list s that is shown.
FetchSound(v, f, list) ==
  /\ f \in Fetches
  /\ f.phase # "none" => SoFar(v, list, f.got, f.all, f.since)
  /\ f.phase = "read" => f.got # <<>>
  /\ v.mode = "loose" /\ f.phase = "counted" =>
       f.since.gone \/ f.since.came \/ f.total = Len(list)

ShownSound(v, s, list) ==
  /\ s \in Showns
  /\ s.pages # <<>> =>
       /\ SoFar(v, list, s.pages, s.all, s.since)
       /\ v.mode = "steady" => Steady(s.pages, s.all) /\ s.pages[1].total = Len(s.all)
       /\ v.mode = "loose" =>
            Len(s.all) >= Latest(s.pages).total \/ Latest(s.pages).items = <<>>

RowsSound(v, list) ==
  /\ list \in Seq(RowIds)
  /\ v.answer.cursor => NewestFirst(list)

\* The kinds of view there are.
Fits(v) ==
  /\ v.mode \in {"paged", "grown", "steady", "loose"}
  /\ v.mode \in {"steady", "loose"} => v.answer.cursor = FALSE
  /\ v.mode = "grown" => v.answer.cursor \in BOOLEAN
  /\ v.mode \in {"grown", "steady"} => v.answer.whole = TRUE
  /\ v.mode = "loose" => v.answer.whole = FALSE
  /\ v.mode # "paged" => v.picker = FALSE /\ v.settles = FALSE

ListInv ==
  view.mode # "paged" =>
    /\ Fits(view) /\ RowsSound(view, rows) /\ text = 0
    /\ FetchSound(view, fetch, rows) /\ ShownSound(view, shown, rows)

-----------------------------------------------------------------------------
(* The views.                                                              *)

LEMMA AnswerKinds ==
  ASSUME NEW check
  PROVE  /\ Answer(check).cursor = FALSE /\ Answer(check).whole = TRUE
         /\ Torn(Answer(check)).cursor = FALSE /\ Torn(Answer(check)).whole = FALSE
BY DEF Answer, Torn

LEMMA ViewFields ==
  ASSUME NEW a, NEW mode
  PROVE  /\ View(a, mode).answer = a /\ View(a, mode).mode = mode
         /\ View(a, mode).picker = FALSE /\ View(a, mode).settles = FALSE
BY DEF View

LEMMA PagedFits ==
  ASSUME NEW a
  PROVE  /\ Fits(View(a, "paged")) /\ Fits(Paged(a)) /\ Fits(Blocking(Paged(a)))
         /\ Fits(Picker(a))
<1>1. ASSUME NEW v, v.mode = "paged" PROVE Fits(v)
  BY <1>1 DEF Fits
<1>2. View(a, "paged").mode = "paged"
  BY DEF View
<1>3. Paged(a).mode = "paged"
  BY DEF Paged, View
<1>4. Blocking(Paged(a)).mode = "paged"
  BY DEF Paged, View, Blocking
<1>5. Picker(a).mode = "paged"
  BY DEF Paged, View, Blocking, Picker
<1> QED BY <1>1, <1>2, <1>3, <1>4, <1>5

LEMMA OthersFit ==
  ASSUME NEW a
  PROVE  /\ a.cursor \in BOOLEAN /\ a.whole = TRUE => Fits(Grown(a))
         /\ a.cursor = FALSE /\ a.whole = TRUE => Fits(View(a, "steady"))
         /\ a.cursor = FALSE /\ a.whole = FALSE => Fits(View(a, "loose"))
<1>1. ASSUME NEW v, v.answer = a, v.picker = FALSE, v.settles = FALSE
      PROVE  /\ v.mode = "grown" /\ a.cursor \in BOOLEAN /\ a.whole = TRUE => Fits(v)
             /\ v.mode = "steady" /\ a.cursor = FALSE /\ a.whole = TRUE => Fits(v)
             /\ v.mode = "loose" /\ a.cursor = FALSE /\ a.whole = FALSE => Fits(v)
  BY <1>1 DEF Fits
<1>2. \A mode : /\ View(a, mode).answer = a /\ View(a, mode).mode = mode
                /\ View(a, mode).picker = FALSE /\ View(a, mode).settles = FALSE
  BY ViewFields
<1> QED BY <1>1, <1>2 DEF Grown

LEMMA ViewsFit == \A v \in Views : Fits(v)
<1>1. /\ Fits(TasksView) /\ Fits(RiskTasksView) /\ Fits(ProjectTasksView)
      /\ Fits(ChildTasksView) /\ Fits(CandidateTasksView) /\ Fits(TaskSelectView)
      /\ Fits(ActorsView)
  BY PagedFits, AnswerKinds DEF TasksView, RiskTasksView, ProjectTasksView, ChildTasksView,
     CandidateTasksView, TaskSelectView, ActorsView, TaskPage, ActorPage
<1>2. /\ Fits(RemindersView) /\ Fits(ProjectsView) /\ Fits(ClientProjectsView)
      /\ Fits(ProjectSelectView) /\ Fits(ProjectNotesView) /\ Fits(ProjectAttachmentsView)
      /\ Fits(ProjectArtifactsView)
  BY PagedFits, AnswerKinds DEF RemindersView, ProjectsView, ClientProjectsView,
     ProjectSelectView, ProjectNotesView, ProjectAttachmentsView, ProjectArtifactsView,
     ReminderPage, ProjectPage, ProjectNotePage, ProjectAttachmentPage, ProjectArtifactPage
<1>3. /\ Fits(ClientsView) /\ Fits(ClientSelectView) /\ Fits(ClientActivitiesView)
      /\ Fits(ClientFollowupsView) /\ Fits(ClientAttachmentsView) /\ Fits(InboxView)
      /\ Fits(IncomeView) /\ Fits(InvoicesView) /\ Fits(RoadmapView)
  BY PagedFits, AnswerKinds DEF ClientsView, ClientSelectView, ClientActivitiesView,
     ClientFollowupsView, ClientAttachmentsView, InboxView, IncomeView, InvoicesView,
     RoadmapView, ClientPage, ClientActivityPage, ClientFollowupPage, ClientAttachmentPage,
     InboxItemPage, FinancialEntryPage, InvoicePage, RoadmapPage
<1>4. /\ Fits(FocusHistoryView) /\ Fits(TaskFocusHistoryView) /\ Fits(ProjectFocusHistoryView)
      /\ Fits(AutomationRunsView) /\ Fits(WorkspaceRunsView) /\ Fits(KnowledgeAccessView)
  BY PagedFits, AnswerKinds DEF FocusHistoryView, TaskFocusHistoryView,
     ProjectFocusHistoryView, AutomationRunsView, WorkspaceRunsView, KnowledgeAccessView,
     FocusSessionPage, AutomationRunPage, AgentRunPage, KnowledgePage
<1>5. /\ Fits(TaskEventsView) /\ Fits(TaskSubmissionsView) /\ Fits(TaskArtifactsView)
      /\ Fits(TaskAssignmentsView) /\ Fits(InboxItemTasksView) /\ Fits(InboxEventsView)
      /\ Fits(ProjectEventsView) /\ Fits(ContentCalendarView) /\ Fits(AgentInboxView)
      /\ Fits(WorkspaceOverviewView)
  BY OthersFit, AnswerKinds DEF TaskEventsView, TaskSubmissionsView, TaskArtifactsView,
     TaskAssignmentsView, InboxItemTasksView, InboxEventsView, ProjectEventsView,
     ContentCalendarView, AgentInboxView, WorkspaceOverviewView, TaskEventPage,
     TaskSubmissionPage, TaskArtifactPage, TaskAssignmentPage, InboxItemTaskPage,
     InboxEventPage, ProjectEventPage, ContentItemPage, AgentInboxPage
<1>6. Fits(MessagesView)
  <2>1. MessagePage.cursor = TRUE /\ MessagePage.whole = TRUE
    BY DEF MessagePage, Answer
  <2> QED BY <2>1, OthersFit DEF MessagesView
<1>7. Fits(AllTasks) /\ Fits(AllActors) /\ Fits(AllTags)
  BY OthersFit, AnswerKinds DEF AllTasks, AllActors, AllTags, TaskPage, ActorPage, TagPage
<1> QED BY <1>1, <1>2, <1>3, <1>4, <1>5, <1>6, <1>7 DEF Views

-----------------------------------------------------------------------------
(* Sequences.                                                              *)

LEMMA Joined ==
  ASSUME NEW a \in Seq(RowIds), NEW b \in Seq(RowIds)
  PROVE  /\ a \o b \in Seq(RowIds) /\ Len(a \o b) = Len(a) + Len(b)
         /\ \A i \in 1..Len(a) : (a \o b)[i] = a[i]
         /\ \A i \in (Len(a) + 1)..(Len(a) + Len(b)) : (a \o b)[i] = b[i - Len(a)]
OBVIOUS

LEMMA JoinedRows ==
  ASSUME NEW a \in Seq(RowIds), NEW b \in Seq(RowIds)
  PROVE  /\ a \o b \in Seq(RowIds) /\ Len(a \o b) = Len(a) + Len(b)
         /\ ToSet(a) \subseteq ToSet(a \o b) /\ ToSet(b) \subseteq ToSet(a \o b)
<1>1. /\ a \o b \in Seq(RowIds) /\ Len(a \o b) = Len(a) + Len(b)
      /\ \A i \in 1..Len(a) : (a \o b)[i] = a[i]
      /\ \A i \in 1..Len(b) : (a \o b)[Len(a) + i] = b[i]
  BY Joined
<1> DEFINE ab == a \o b
<1> HIDE DEF ab
<1>2. /\ ab \in Seq(RowIds) /\ Len(ab) = Len(a) + Len(b)
      /\ \A i \in 1..Len(a) : ab[i] = a[i]
      /\ \A i \in 1..Len(b) : ab[Len(a) + i] = b[i]
  BY <1>1 DEF ab
<1>3. ToSet(a) \subseteq ToSet(ab)
  <2>1. DOMAIN ab = 1..Len(ab) /\ DOMAIN a = 1..Len(a)
    BY <1>2
  <2>2. ASSUME NEW i \in 1..Len(a) PROVE i \in 1..Len(ab) /\ ab[i] = a[i]
    BY <1>2
  <2> QED BY <2>1, <2>2 DEF ToSet
<1>4. ASSUME NEW i \in 1..Len(b) PROVE b[i] \in ToSet(ab)
  <2>1. Len(a) + i \in 1..Len(ab) /\ ab[Len(a) + i] = b[i]
    BY <1>2
  <2>2. DOMAIN ab = 1..Len(ab)
    BY <1>2
  <2> QED BY <2>1, <2>2 DEF ToSet
<1>5. ToSet(b) \subseteq ToSet(ab)
  BY <1>4 DEF ToSet
<1> QED BY <1>2, <1>3, <1>5 DEF ab

\* A row came in at some place of the list.
LEMMA Insertion ==
  ASSUME NEW list \in Seq(RowIds), NEW at \in 1..(Len(list) + 1), NEW id \in RowIds
  PROVE  LET new == InsertAt(list, at, id)
         IN  /\ new \in Seq(RowIds) /\ Len(new) = Len(list) + 1
             /\ \A p \in 1..(at - 1) : new[p] = list[p]
             /\ new[at] = id
             /\ \A p \in (at + 1)..(Len(list) + 1) : new[p] = list[p - 1]
<1> DEFINE front == SubSeq(list, 1, at - 1)
           back == SubSeq(list, at, Len(list))
<1>1. /\ front \in Seq(RowIds) /\ Len(front) = at - 1
      /\ \A p \in 1..(at - 1) : front[p] = list[p]
  OBVIOUS
<1>2. /\ back \in Seq(RowIds) /\ Len(back) = Len(list) - at + 1
      /\ \A p \in 1..(Len(list) - at + 1) : back[p] = list[at + p - 1]
  OBVIOUS
<1>3. InsertAt(list, at, id) = (front \o <<id>>) \o back
  BY DEF InsertAt
<1> HIDE DEF front, back
<1>4. /\ front \o <<id>> \in Seq(RowIds) /\ Len(front \o <<id>>) = at
      /\ \A p \in 1..(at - 1) : (front \o <<id>>)[p] = list[p]
      /\ (front \o <<id>>)[at] = id
  <2>1. <<id>> \in Seq(RowIds) /\ Len(<<id>>) = 1 /\ <<id>>[1] = id
    OBVIOUS
  <2>2. (front \o <<id>>)[at] = <<id>>[at - Len(front)]
    BY <1>1, <2>1, Joined
  <2> QED BY <1>1, <2>1, <2>2, Joined
<1> DEFINE upTo == front \o <<id>>
<1> HIDE DEF upTo
<1>5. /\ upTo \in Seq(RowIds) /\ Len(upTo) = at
      /\ \A p \in 1..(at - 1) : upTo[p] = list[p]
      /\ upTo[at] = id
  BY <1>4 DEF upTo
<1>6. /\ upTo \o back \in Seq(RowIds) /\ Len(upTo \o back) = Len(list) + 1
      /\ \A p \in 1..at : (upTo \o back)[p] = upTo[p]
      /\ \A p \in (at + 1)..(Len(list) + 1) : (upTo \o back)[p] = back[p - at]
  BY <1>2, <1>5, Joined
<1>7. InsertAt(list, at, id) = upTo \o back
  BY <1>3 DEF upTo
<1>8. \A p \in (at + 1)..(Len(list) + 1) : back[p - at] = list[p - 1]
  BY <1>2
<1> QED BY <1>5, <1>6, <1>7, <1>8

\* The row at some place of the list left.
LEMMA Removal ==
  ASSUME NEW list \in Seq(RowIds), NEW at \in DOMAIN list
  PROVE  LET new == RemoveAt(list, at)
         IN  /\ new \in Seq(RowIds) /\ Len(new) = Len(list) - 1
             /\ \A p \in 1..(at - 1) : new[p] = list[p]
             /\ \A p \in at..(Len(list) - 1) : new[p] = list[p + 1]
<1> DEFINE front == SubSeq(list, 1, at - 1)
           back == SubSeq(list, at + 1, Len(list))
<1>1. /\ front \in Seq(RowIds) /\ Len(front) = at - 1
      /\ \A p \in 1..(at - 1) : front[p] = list[p]
  OBVIOUS
<1>2. /\ back \in Seq(RowIds) /\ Len(back) = Len(list) - at
      /\ \A p \in 1..(Len(list) - at) : back[p] = list[at + p]
  OBVIOUS
<1>3. RemoveAt(list, at) = front \o back
  BY DEF RemoveAt
<1> HIDE DEF front, back
<1>4. /\ front \o back \in Seq(RowIds) /\ Len(front \o back) = Len(list) - 1
      /\ \A p \in 1..(at - 1) : (front \o back)[p] = front[p]
      /\ \A p \in at..(Len(list) - 1) : (front \o back)[p] = back[p - at + 1]
  BY <1>1, <1>2
<1>5. \A p \in at..(Len(list) - 1) : back[p - at + 1] = list[p + 1]
  BY <1>2
<1> QED BY <1>1, <1>3, <1>4, <1>5

\* The smallest of some numbers.
LEMMA Smallest ==
  ASSUME NEW T \in SUBSET Nat, T # {}
  PROVE  \E m \in T : \A n \in T : m <= n
<1> DEFINE Upto == {0..n : n \in T}
           Order == StrictSubsetOrdering(Nat)
<1>1. IsWellFoundedOn(Order, FiniteSubsetsOf(Nat))
  BY FS_StrictSubsetOrderingWellFounded
<1>2. Upto \subseteq FiniteSubsetsOf(Nat) /\ Upto # {}
  <2>1. ASSUME NEW n \in T PROVE 0..n \in FiniteSubsetsOf(Nat)
    <3>1. n \in Int /\ 0 \in Int /\ 0..n \subseteq Nat
      OBVIOUS
    <3>2. IsFiniteSet(0..n)
      BY <3>1, FS_Interval
    <3> QED BY <3>1, <3>2 DEF FiniteSubsetsOf
  <2> QED BY <2>1
<1> HIDE DEF Upto, Order
<1>3. PICK S \in Upto : \A U \in Upto : ~(<<U, S>> \in Order)
  BY <1>1, <1>2, WFMin
<1>4. PICK m \in T : S = 0..m
  BY <1>3 DEF Upto
<1>5. ASSUME NEW n \in T, n < m PROVE FALSE
  <2>1. 0..n \in Upto
    BY DEF Upto
  <2>2. 0..n \subseteq 0..m /\ 0..n # 0..m /\ 0..n \subseteq Nat /\ 0..m \subseteq Nat
    BY <1>5
  <2> QED BY <1>3, <1>4, <2>1, <2>2 DEF Order, StrictSubsetOrdering
<1> QED BY <1>5

\* In a list that begins with the newest row, those older than r are its end.
LEMMA OlderRows ==
  ASSUME NEW list \in Seq(RowIds), NewestFirst(list), NEW r \in RowIds
  PROVE  \E n \in 0..Len(list) :
           /\ \A i \in DOMAIN list : list[i] < r <=> i > n
           /\ OlderThan(r, list) = SubSeq(list, n + 1, Len(list))
<1> DEFINE Cut(n) == \A i \in DOMAIN list : list[i] < r <=> i > n
           T == {i \in DOMAIN list : list[i] < r}
<1>1. \E n \in 0..Len(list) : Cut(n)
  <2>1. CASE T = {}
    BY <2>1
  <2>2. CASE T # {}
    <3>0. T \subseteq Nat
      OBVIOUS
    <3>1. PICK m \in T : \A i \in T : m <= i
      BY <2>2, <3>0, Smallest
    <3>2. m - 1 \in 0..Len(list) /\ m \in DOMAIN list /\ list[m] < r
      BY <3>1
    <3>3. ASSUME NEW i \in DOMAIN list, i > m PROVE list[i] < r
      <4>1. list[m] > list[i]
        BY <3>2, <3>3 DEF NewestFirst
      <4>2. list[m] \in RowIds /\ list[i] \in RowIds
        BY <3>2
      <4>3. list[m] \in Nat /\ list[i] \in Nat /\ r \in Nat
        BY <4>2
      <4> HIDE DEF T, Cut
      <4> QED BY <3>2, <4>1, <4>3
    <3>4. Cut(m - 1)
      BY <3>1, <3>2, <3>3
    <3> QED BY <3>2, <3>4
  <2> QED BY <2>1, <2>2
<1> DEFINE n == CHOOSE n \in 0..Len(list) : Cut(n)
<1>2. n \in 0..Len(list) /\ Cut(n)
  BY <1>1
<1>3. OlderThan(r, list) = SubSeq(list, n + 1, Len(list))
  BY DEF OlderThan
<1> QED BY <1>2, <1>3

-----------------------------------------------------------------------------
(* Pages.                                                                  *)

LEMMA Offsets ==
  ASSUME NEW n \in Nat
  PROVE  Offset(n) \in Nat /\ Offset(n + 1) = Offset(n) + PageSize
BY DEF Offset

LEMMA NoOffset == Offset(0) = 0
BY DEF Offset

LEMMA SetOfRows ==
  ASSUME NEW list \in Seq(RowIds)
  PROVE  /\ ToSet(list) \subseteq RowIds
         /\ \A i \in 1..Len(list) : list[i] \in ToSet(list)
         /\ \A r \in ToSet(list) : \E i \in 1..Len(list) : list[i] = r
BY DEF ToSet

\* front is the first n rows of list, items those of the page that follows.
Begins(front, n, list) ==
  /\ front \in Seq(RowIds)
  /\ n <= Len(list) => Len(front) = n
  /\ n >= Len(list) => Len(front) = Len(list)
  /\ \A i \in 1..Len(front) : front[i] = list[i]
Follows(items, n, list) ==
  /\ items \in Seq(RowIds)
  /\ n >= Len(list) => Len(items) = 0
  /\ n < Len(list) /\ Len(list) <= n + PageSize => Len(items) = Len(list) - n
  /\ Len(list) >= n + PageSize => Len(items) = PageSize
  /\ \A i \in 1..Len(items) : n + i <= Len(list) /\ items[i] = list[n + i]

LEMMA PrefixRows ==
  ASSUME NEW list \in Seq(RowIds), NEW n \in Nat
  PROVE  /\ Begins(Prefix(n, list), n, list)
         /\ n >= Len(list) => Prefix(n, list) = list
<1>1. CASE n <= Len(list)
  BY <1>1 DEF Prefix, Begins
<1>2. CASE n > Len(list)
  BY <1>2 DEF Prefix, Begins
<1> QED BY <1>1, <1>2

LEMMA FirstPages ==
  ASSUME NEW list \in Seq(RowIds)
  PROVE  /\ FirstPage(list) \in Seq(RowIds)
         /\ Len(list) <= PageSize => Len(FirstPage(list)) = Len(list)
         /\ Len(list) >= PageSize => Len(FirstPage(list)) = PageSize
         /\ \A i \in 1..Len(FirstPage(list)) : FirstPage(list)[i] = list[i]
BY DEF FirstPage

\* The page at an offset.
PageAt(n, list) == FirstPage(Skipping(n, list))

LEMMA Skipped ==
  ASSUME NEW list \in Seq(RowIds), NEW n \in Nat
  PROVE  /\ Skipping(n, list) \in Seq(RowIds)
         /\ Offset(n) >= Len(list) => Len(Skipping(n, list)) = 0
         /\ Offset(n) < Len(list) =>
              /\ Len(Skipping(n, list)) = Len(list) - Offset(n)
              /\ \A i \in 1..(Len(list) - Offset(n)) :
                   Skipping(n, list)[i] = list[Offset(n) + i]
<1>1. Skipping(n, list) =
        IF Offset(n) >= Len(list) THEN <<>> ELSE SubSeq(list, Offset(n) + 1, Len(list))
  BY DEF Skipping, Offset
<1>2. Offset(n) \in Nat
  BY Offsets
<1> QED BY <1>1, <1>2

LEMMA PageRows ==
  ASSUME NEW list \in Seq(RowIds), NEW n \in Nat
  PROVE  Follows(PageAt(n, list), Offset(n), list)
<1>1. Offset(n) \in Nat
  BY Offsets
<1> DEFINE rest == Skipping(n, list)
           items == FirstPage(rest)
<1>2. /\ rest \in Seq(RowIds)
      /\ Offset(n) >= Len(list) => Len(rest) = 0
      /\ Offset(n) < Len(list) =>
           /\ Len(rest) = Len(list) - Offset(n)
           /\ \A i \in 1..(Len(list) - Offset(n)) : rest[i] = list[Offset(n) + i]
  BY Skipped
<1> HIDE DEF rest
<1>3. /\ items \in Seq(RowIds)
      /\ Len(rest) <= PageSize => Len(items) = Len(rest)
      /\ Len(rest) >= PageSize => Len(items) = PageSize
      /\ \A i \in 1..Len(items) : items[i] = rest[i]
  BY <1>2, FirstPages
<1>4. PageAt(n, list) = items
  BY DEF PageAt, rest
<1> HIDE DEF items
<1> QED BY <1>1, <1>2, <1>3, <1>4 DEF Follows

\* One more page of a list that did not move prolongs its beginning.
LEMMA Prolonged ==
  ASSUME NEW list \in Seq(RowIds), NEW n \in Nat, NEW front, NEW items, NEW whole,
         Begins(front, n, list), Follows(items, n, list), Begins(whole, n + PageSize, list)
  PROVE  front \o items = whole
<1> DEFINE both == front \o items
<1> USE DEF Begins, Follows
<1>1. /\ both \in Seq(RowIds)
      /\ Len(both) = Len(front) + Len(items)
      /\ \A i \in 1..Len(front) : both[i] = front[i]
      /\ \A i \in (Len(front) + 1)..(Len(front) + Len(items)) : both[i] = items[i - Len(front)]
  BY Joined
<1> HIDE DEF both
<1>2. Len(both) = Len(whole)
  <2>1. CASE n >= Len(list)
    BY <1>1, <2>1
  <2>2. CASE n < Len(list)
    <3>1. Len(front) = n /\ Len(list) \in Nat /\ PageSize \in Nat
      BY <2>2
    <3>2. CASE Len(list) <= n + PageSize
      BY <1>1, <2>2, <3>1, <3>2
    <3>3. CASE Len(list) > n + PageSize
      BY <1>1, <2>2, <3>1, <3>3
    <3> QED BY <3>1, <3>2, <3>3
  <2> QED BY <2>1, <2>2
<1>3. ASSUME NEW i \in 1..Len(both) PROVE both[i] = whole[i]
  <2>1. CASE i <= Len(front)
    BY <1>1, <1>2, <1>3, <2>1
  <2>2. CASE i > Len(front)
    <3>1. i - Len(front) \in 1..Len(items) /\ both[i] = items[i - Len(front)]
      BY <1>1, <1>3, <2>2
    <3>2. n < Len(list) /\ Len(front) = n
      BY <3>1
    <3>3. items[i - Len(front)] = list[n + (i - Len(front))]
      BY <3>1
    <3>4. n + (i - Len(front)) = i
      BY <3>2
    <3> QED BY <1>2, <1>3, <3>1, <3>3, <3>4
  <2> QED BY <1>3, <2>1, <2>2
<1>4. both = whole
  BY <1>1, <1>2, <1>3, SeqEqual
<1> QED BY <1>4 DEF both

LEMMA PrefixGrows ==
  ASSUME NEW list \in Seq(RowIds), NEW n \in Nat
  PROVE  Prefix(Offset(n), list) \o PageAt(n, list) = Prefix(Offset(n + 1), list)
<1>1. Offset(n) \in Nat /\ Offset(n + 1) = Offset(n) + PageSize
  BY Offsets
<1>2. n + 1 \in Nat
  OBVIOUS
<1>3. Offset(n + 1) \in Nat
  BY <1>2, Offsets
<1>4. Begins(Prefix(Offset(n), list), Offset(n), list)
  BY <1>1, PrefixRows
<1>5. Begins(Prefix(Offset(n + 1), list), Offset(n) + PageSize, list)
  BY <1>1, <1>3, PrefixRows
<1> QED BY <1>1, <1>4, <1>5, PageRows, Prolonged

-----------------------------------------------------------------------------
(* A change of the list keeps what is known of the pages read.             *)

LEMMA EditedSpan ==
  ASSUME NEW since \in Spans, NEW id
  PROVE  /\ Edited(since, id, TRUE) \in Spans
         /\ Edited(since, id, TRUE).stayed = since.stayed \ {id}
         /\ Edited(since, id, TRUE).gone <=> since.gone
         /\ Edited(since, id, TRUE).came
         /\ Edited(since, id, FALSE) \in Spans
         /\ Edited(since, id, FALSE).stayed = since.stayed \ {id}
         /\ Edited(since, id, FALSE).gone
         /\ Edited(since, id, FALSE).came <=> since.came
BY DEF Edited, Spans

LEMMA FirstAnswer ==
  ASSUME NEW pages \in Seq(PageAnswers), pages # <<>>
  PROVE  /\ Len(pages) \in Nat \ {0} /\ 1 \in DOMAIN pages
         /\ pages[1] \in PageAnswers /\ pages[1].total \in Nat
<1>1. Len(pages) \in Nat /\ Len(pages) # 0
  BY EmptySeq
<1>2. 1 \in 1..Len(pages) /\ DOMAIN pages = 1..Len(pages)
  BY <1>1
<1>3. pages[1] \in PageAnswers
  BY <1>2
<1> QED BY <1>1, <1>2, <1>3 DEF PageAnswers

\* id came into list, or left it.
Came(list, new, id) ==
  /\ new \in Seq(RowIds) /\ Len(new) = Len(list) + 1 /\ id \notin ToSet(list)
  /\ ToSet(list) \subseteq ToSet(new)
  /\ \A p \in 1..Len(new) : \/ new[p] = id
                            \/ p <= Len(list) /\ new[p] = list[p]
                            \/ p > 1 /\ new[p] = list[p - 1]
Left(list, new, id) ==
  /\ new \in Seq(RowIds) /\ Len(new) = Len(list) - 1
  /\ ToSet(list) \ {id} \subseteq ToSet(new)

LEMMA AddedRow ==
  ASSUME NEW list \in Seq(RowIds), NEW at \in 1..(Len(list) + 1),
         NEW id \in RowIds \ ToSet(list)
  PROVE  Came(list, InsertAt(list, at, id), id)
<1> DEFINE new == InsertAt(list, at, id)
<1>1. /\ new \in Seq(RowIds) /\ Len(new) = Len(list) + 1
      /\ \A p \in 1..(at - 1) : new[p] = list[p]
      /\ new[at] = id
      /\ \A p \in (at + 1)..(Len(list) + 1) : new[p] = list[p - 1]
  BY Insertion
<1> HIDE DEF new
<1>2. ASSUME NEW i \in 1..Len(list) PROVE list[i] \in ToSet(new)
  <2>1. CASE i < at
    <3>1. i \in 1..Len(new) /\ new[i] = list[i]
      BY <1>1, <2>1
    <3> QED BY <1>1, <3>1, SetOfRows
  <2>2. CASE i >= at
    <3>1. i + 1 \in 1..Len(new) /\ new[i + 1] = list[i]
      BY <1>1, <2>2
    <3> QED BY <1>1, <3>1, SetOfRows
  <2> QED BY <2>1, <2>2
<1>3. ToSet(list) \subseteq ToSet(new)
  BY <1>2, SetOfRows
<1>4. ASSUME NEW p \in 1..Len(new)
      PROVE  \/ new[p] = id
             \/ p <= Len(list) /\ new[p] = list[p]
             \/ p > 1 /\ new[p] = list[p - 1]
  <2>1. CASE p < at
    BY <1>1, <2>1
  <2>2. CASE p = at
    BY <1>1, <2>2
  <2>3. CASE p > at
    BY <1>1, <2>3
  <2> QED BY <2>1, <2>2, <2>3
<1> QED BY <1>1, <1>3, <1>4 DEF Came, new

LEMMA RemovedRow ==
  ASSUME NEW list \in Seq(RowIds), NEW at \in DOMAIN list
  PROVE  Left(list, RemoveAt(list, at), list[at])
<1> DEFINE new == RemoveAt(list, at)
<1>1. /\ new \in Seq(RowIds) /\ Len(new) = Len(list) - 1
      /\ \A p \in 1..(at - 1) : new[p] = list[p]
      /\ \A p \in at..(Len(list) - 1) : new[p] = list[p + 1]
  BY Removal
<1> HIDE DEF new
<1>2. ASSUME NEW i \in 1..Len(list), i # at PROVE list[i] \in ToSet(new)
  <2>1. CASE i < at
    <3>1. i \in 1..Len(new) /\ new[i] = list[i]
      BY <1>1, <2>1
    <3> QED BY <1>1, <3>1, SetOfRows
  <2>2. CASE i > at
    <3>1. i - 1 \in 1..Len(new) /\ new[i - 1] = list[i]
      BY <1>1, <1>2, <2>2
    <3> QED BY <1>1, <3>1, SetOfRows
  <2> QED BY <1>2, <2>1, <2>2
<1>3. ToSet(list) \ {list[at]} \subseteq ToSet(new)
  BY <1>2, SetOfRows
<1> QED BY <1>1, <1>3 DEF Left, new

LEMMA AdditionKeepsNewestFirst ==
  ASSUME NEW list \in Seq(RowIds), NewestFirst(list), NEW id \in RowIds,
         \A r \in ToSet(list) : r < id
  PROVE  NewestFirst(InsertAt(list, 1, id))
<1> DEFINE new == InsertAt(list, 1, id)
<1>1. /\ new \in Seq(RowIds) /\ Len(new) = Len(list) + 1 /\ new[1] = id
      /\ \A p \in 2..(Len(list) + 1) : new[p] = list[p - 1]
  BY Insertion
<1> HIDE DEF new
<1>2. ASSUME NEW i \in 1..Len(new), NEW j \in 1..Len(new), i < j PROVE new[i] > new[j]
  <2>1. j - 1 \in 1..Len(list) /\ new[j] = list[j - 1]
    BY <1>1, <1>2
  <2>2. CASE i = 1
    BY <1>1, <2>1, <2>2, SetOfRows
  <2>3. CASE i > 1
    <3>1. i - 1 \in 1..Len(list) /\ i - 1 < j - 1 /\ new[i] = list[i - 1]
      BY <1>1, <1>2, <2>3
    <3> QED BY <2>1, <3>1 DEF NewestFirst
  <2> QED BY <2>2, <2>3
<1> QED BY <1>1, <1>2 DEF NewestFirst, new

LEMMA RemovalKeepsNewestFirst ==
  ASSUME NEW list \in Seq(RowIds), NewestFirst(list), NEW at \in DOMAIN list
  PROVE  NewestFirst(RemoveAt(list, at))
<1> DEFINE new == RemoveAt(list, at)
           old(p) == IF p < at THEN p ELSE p + 1
<1>1. /\ new \in Seq(RowIds) /\ Len(new) = Len(list) - 1
      /\ \A p \in 1..(at - 1) : new[p] = list[p]
      /\ \A p \in at..(Len(list) - 1) : new[p] = list[p + 1]
  BY Removal
<1> HIDE DEF new
<1>2. ASSUME NEW p \in 1..Len(new) PROVE old(p) \in 1..Len(list) /\ new[p] = list[old(p)]
  <2>1. CASE p < at
    BY <1>1, <2>1
  <2>2. CASE p >= at
    BY <1>1, <2>2
  <2> QED BY <2>1, <2>2
<1>3. ASSUME NEW i \in 1..Len(new), NEW j \in 1..Len(new), i < j PROVE new[i] > new[j]
  <2>1. old(i) < old(j)
    BY <1>3
  <2> HIDE DEF old
  <2> QED BY <1>2, <2>1 DEF NewestFirst
<1> QED BY <1>1, <1>3 DEF NewestFirst, new

LEMMA AdditionKeepsGrown ==
  ASSUME NEW list \in Seq(RowIds), NEW new, NEW id, Came(list, new, id),
         NEW pages \in Seq(PageAnswers), NEW all \in Seq(RowIds), NEW since \in Spans,
         since.stayed \subseteq ToSet(list), GrownSoFar(list, pages, all, since)
  PROVE  GrownSoFar(new, pages, all, Edited(since, id, TRUE))
<1> DEFINE N == Offset(Len(pages))
           span == Edited(since, id, TRUE)
<1>0. span.stayed = since.stayed \ {id} /\ (since.gone => span.gone)
  BY EditedSpan
<1> HIDE DEF span
<1>1. N \in Nat /\ Len(list) \in Nat
  BY Offsets
<1>2. CASE since.gone
  BY <1>0, <1>2 DEF GrownSoFar, span
<1>3. CASE ~since.gone
  <2>1. \A p \in 1..Len(list) : p <= N /\ list[p] \in since.stayed => list[p] \in ToSet(all)
    BY <1>3 DEF GrownSoFar
  <2>2. pages # <<>> /\ ~More(pages) => since.stayed \subseteq ToSet(all)
    BY <1>3 DEF GrownSoFar
  <2> HIDE DEF N
  <2>3. ASSUME NEW p \in 1..Len(new), p <= N, new[p] \in since.stayed
        PROVE  new[p] \in ToSet(all)
    <3>1. new[p] # id
      BY <2>3 DEF Came
    <3>2. CASE p <= Len(list) /\ new[p] = list[p]
      BY <2>1, <2>3, <3>2
    <3>3. CASE p > 1 /\ new[p] = list[p - 1]
      <4>1. p - 1 \in 1..Len(list) /\ p - 1 <= N
        BY <1>1, <2>3, <3>3 DEF Came
      <4> QED BY <2>1, <2>3, <3>3, <4>1
    <3> QED BY <3>1, <3>2, <3>3 DEF Came
  <2>4. DOMAIN new = 1..Len(new)
    BY DEF Came
  <2>5. \A p \in DOMAIN new :
          p <= Offset(Len(pages)) /\ new[p] \in span.stayed => new[p] \in ToSet(all)
    BY <1>0, <2>3, <2>4 DEF N
  <2>6. pages # <<>> /\ ~More(pages) => span.stayed \subseteq ToSet(all)
    BY <1>0, <2>2
  <2> QED BY <2>5, <2>6 DEF GrownSoFar, span
<1> QED BY <1>2, <1>3

\* The kinds of reading do not look at a list that is read otherwise.
LEMMA AdditionKeeps ==
  ASSUME NEW v, NEW list \in Seq(RowIds), NEW new, NEW id, Came(list, new, id),
         NEW pages \in Seq(PageAnswers), NEW all \in Seq(RowIds), NEW since \in Spans,
         SoFar(v, list, pages, all, since)
  PROVE  SoFar(v, new, pages, all, Edited(since, id, TRUE))
<1> DEFINE span == Edited(since, id, TRUE)
<1>1. /\ span.stayed = since.stayed \ {id} /\ (span.gone <=> since.gone) /\ span.came
  BY EditedSpan
<1>2. since.stayed \subseteq ToSet(list)
  BY DEF SoFar
<1> HIDE DEF span
<1>3. span.stayed \subseteq ToSet(new)
  BY <1>1, <1>2 DEF Came
<1>4. CursorSoFar(list, pages, all, since) => CursorSoFar(new, pages, all, span)
  BY <1>1 DEF CursorSoFar
<1>5. GrownSoFar(list, pages, all, since) => GrownSoFar(new, pages, all, span)
  BY <1>2, AdditionKeepsGrown DEF span
<1>6. SteadySoFar(list, pages, all, since) => SteadySoFar(new, pages, all, span)
  <2> SUFFICES ASSUME SteadySoFar(list, pages, all, since), pages # <<>>, Alike(pages),
                      ~since.gone
               PROVE  /\ pages[1].total < Len(new)
                      /\ pages[1].total = Len(all) => span.stayed \subseteq ToSet(all)
    <3>0. pages # <<>> => pages[1].total \in Nat /\ Len(new) \in Nat
      BY FirstAnswer DEF Came
    <3>1. pages # <<>> /\ pages[1].total < Len(new) =>
            pages[1].total <= Len(new) /\ pages[1].total # Len(new)
      BY <3>0
    <3> QED BY <1>1, <3>1 DEF SteadySoFar
  <2>1. /\ pages[1].total <= Len(list)
        /\ pages[1].total = Len(all) => since.stayed \subseteq ToSet(all)
    BY DEF SteadySoFar
  <2>2. pages[1].total \in Nat /\ Len(list) \in Nat /\ Len(new) = Len(list) + 1
    BY FirstAnswer DEF Came
  <2> QED BY <1>1, <2>1, <2>2
<1>7. LooseSoFar(new, pages, all, span)
  BY <1>1 DEF LooseSoFar
<1> QED BY <1>3, <1>4, <1>5, <1>6, <1>7 DEF SoFar, span

LEMMA RemovalKeeps ==
  ASSUME NEW v, NEW list \in Seq(RowIds), NEW new, NEW id, Left(list, new, id),
         NEW pages \in Seq(PageAnswers), NEW all \in Seq(RowIds), NEW since \in Spans,
         SoFar(v, list, pages, all, since)
  PROVE  SoFar(v, new, pages, all, Edited(since, id, FALSE))
<1> DEFINE span == Edited(since, id, FALSE)
<1>1. /\ span.stayed = since.stayed \ {id} /\ span.gone /\ (span.came <=> since.came)
  BY EditedSpan
<1>2. since.stayed \subseteq ToSet(list)
  BY DEF SoFar
<1> HIDE DEF span
<1>3. span.stayed \subseteq ToSet(new)
  BY <1>1, <1>2 DEF Left
<1>4. CursorSoFar(list, pages, all, since) => CursorSoFar(new, pages, all, span)
  BY <1>1 DEF CursorSoFar
<1>5. GrownSoFar(new, pages, all, span)
  BY <1>1 DEF GrownSoFar
<1>6. SteadySoFar(list, pages, all, since) => SteadySoFar(new, pages, all, span)
  <2> SUFFICES ASSUME SteadySoFar(list, pages, all, since), pages # <<>>, Alike(pages),
                      ~since.came
               PROVE  /\ pages[1].total > Len(new)
                      /\ pages[1].total = Len(all) => span.stayed \subseteq ToSet(all)
    <3>0. pages # <<>> => pages[1].total \in Nat /\ Len(new) \in Nat
      BY FirstAnswer DEF Left
    <3>1. pages # <<>> /\ pages[1].total > Len(new) =>
            pages[1].total >= Len(new) /\ pages[1].total # Len(new)
      BY <3>0
    <3> QED BY <1>1, <3>1 DEF SteadySoFar
  <2>1. /\ pages[1].total >= Len(list)
        /\ pages[1].total = Len(all) => since.stayed \subseteq ToSet(all)
    BY DEF SteadySoFar
  <2>2. pages[1].total \in Nat /\ Len(list) \in Nat /\ Len(new) = Len(list) - 1
    BY FirstAnswer DEF Left
  <2> QED BY <1>1, <2>1, <2>2
<1>7. LooseSoFar(new, pages, all, span)
  BY <1>1 DEF LooseSoFar
<1> QED BY <1>3, <1>4, <1>5, <1>6, <1>7 DEF SoFar, span


-----------------------------------------------------------------------------
(* One more page keeps what is known of the pages read.                    *)

LEMMA Appended ==
  ASSUME NEW pages \in Seq(PageAnswers), NEW a \in PageAnswers
  PROVE  /\ Append(pages, a) \in Seq(PageAnswers) /\ Append(pages, a) # <<>>
         /\ Len(Append(pages, a)) = Len(pages) + 1
         /\ Latest(Append(pages, a)) = a
         /\ More(Append(pages, a)) <=> a.more
         /\ pages = <<>> => Append(pages, a)[1] = a
         /\ pages # <<>> => Append(pages, a)[1] = pages[1]
<1>1. /\ Append(pages, a) \in Seq(PageAnswers)
      /\ Len(Append(pages, a)) = Len(pages) + 1
      /\ Append(pages, a)[Len(pages) + 1] = a
      /\ \A i \in 1..Len(pages) : Append(pages, a)[i] = pages[i]
  OBVIOUS
<1>2. Append(pages, a) # <<>>
  BY <1>1, EmptySeq
<1>3. Latest(Append(pages, a)) = a
  BY <1>1 DEF Latest
<1>4. More(Append(pages, a)) <=> a.more
  BY <1>2, <1>3 DEF More
<1>5. pages = <<>> => Append(pages, a)[1] = a
  BY <1>1
<1>6. pages # <<>> => Append(pages, a)[1] = pages[1]
  BY <1>1, FirstAnswer
<1> QED BY <1>1, <1>2, <1>3, <1>4, <1>5, <1>6

LEMMA AlikeSoFar ==
  ASSUME NEW pages \in Seq(PageAnswers), NEW a \in PageAnswers, Alike(Append(pages, a))
  PROVE  /\ Append(pages, a)[1].total = a.total
         /\ pages # <<>> => Alike(pages) /\ pages[1].total = a.total
<1> DEFINE grown == Append(pages, a)
<1>1. /\ Len(pages) \in Nat /\ DOMAIN pages = 1..Len(pages)
      /\ DOMAIN grown = 1..(Len(pages) + 1)
      /\ grown[Len(pages) + 1] = a
      /\ \A i \in 1..Len(pages) : grown[i] = pages[i]
  OBVIOUS
<1>2. \A i \in DOMAIN grown : grown[i].total = grown[1].total
  BY DEF Alike
<1> HIDE DEF grown
<1>3. grown[1].total = a.total
  <2>1. Len(pages) + 1 \in DOMAIN grown
    BY <1>1
  <2> QED BY <1>1, <1>2, <2>1
<1>4. ASSUME pages # <<>> PROVE Alike(pages) /\ pages[1].total = a.total
  <2>1. 1 \in 1..Len(pages)
    BY <1>4, FirstAnswer
  <2>2. \A i \in DOMAIN pages : i \in DOMAIN grown /\ grown[i] = pages[i]
    BY <1>1
  <2>3. \A i \in DOMAIN pages : pages[i].total = pages[1].total
    BY <1>1, <1>2, <2>1, <2>2
  <2> QED BY <1>1, <1>3, <2>1, <2>3 DEF Alike
<1> QED BY <1>3, <1>4 DEF grown

LEMMA ReadGrown ==
  ASSUME NEW list \in Seq(RowIds), NEW pages \in Seq(PageAnswers), NEW all \in Seq(RowIds),
         NEW since \in Spans, NEW a \in PageAnswers,
         since.stayed \subseteq ToSet(list), GrownSoFar(list, pages, all, since),
         a.items = PageAt(Len(pages), list),
         a.more <=> Offset(Len(pages) + 1) < Len(list)
  PROVE  GrownSoFar(list, Append(pages, a), all \o a.items, since)
<1> DEFINE N == Offset(Len(pages))
           both == all \o a.items
<1>1. N \in Nat /\ Len(list) \in Nat /\ Offset(Len(pages) + 1) = N + PageSize
  BY Offsets
<1>2. Follows(a.items, N, list)
  BY PageRows
<1>3. ToSet(all) \subseteq ToSet(both) /\ ToSet(a.items) \subseteq ToSet(both)
  BY <1>2, JoinedRows DEF Follows
<1>4. CASE since.gone
  BY <1>4 DEF GrownSoFar
<1>5. CASE ~since.gone
  <2>1. \A p \in 1..Len(list) : p <= N /\ list[p] \in since.stayed => list[p] \in ToSet(all)
    BY <1>5 DEF GrownSoFar
  <2> HIDE DEF N, both
  <2>2. ASSUME NEW p \in 1..Len(list), p <= N + PageSize, list[p] \in since.stayed
        PROVE  list[p] \in ToSet(both)
    <3>1. CASE p <= N
      BY <1>3, <2>1, <2>2, <3>1
    <3>2. CASE p > N
      <4>1. p - N \in 1..Len(a.items)
        BY <1>1, <1>2, <2>2, <3>2 DEF Follows
      <4>2. a.items[p - N] = list[p]
        BY <1>1, <1>2, <4>1 DEF Follows
      <4> QED BY <1>2, <1>3, <4>1, <4>2, SetOfRows DEF Follows
    <3> QED BY <1>1, <3>1, <3>2
  <2>3. ASSUME ~a.more PROVE since.stayed \subseteq ToSet(both)
    <3>1. Len(list) <= N + PageSize
      BY <1>1, <2>3
    <3>2. ASSUME NEW r \in since.stayed PROVE r \in ToSet(both)
      <4>1. PICK p \in 1..Len(list) : list[p] = r
        BY SetOfRows
      <4>2. p <= N + PageSize
        BY <1>1, <3>1
      <4> QED BY <2>2, <4>1, <4>2
    <3> QED BY <3>2
  <2>4. Offset(Len(Append(pages, a))) = N + PageSize
    BY <1>1, Appended
  <2>5. More(Append(pages, a)) <=> a.more
    BY Appended
  <2>6. DOMAIN list = 1..Len(list)
    OBVIOUS
  <2> QED BY <2>2, <2>3, <2>4, <2>5, <2>6 DEF GrownSoFar, both
<1> QED BY <1>4, <1>5

LEMMA ReadSteady ==
  ASSUME NEW list \in Seq(RowIds), NEW pages \in Seq(PageAnswers), NEW all \in Seq(RowIds),
         NEW since \in Spans, NEW a \in PageAnswers,
         since.stayed \subseteq ToSet(list), SteadySoFar(list, pages, all, since),
         pages = <<>> => all = <<>>,
         a.items = PageAt(Len(pages), list), a.total = Len(list)
  PROVE  SteadySoFar(list, Append(pages, a), all \o a.items, since)
<1> DEFINE grown == Append(pages, a)
           both == all \o a.items
<1> SUFFICES ASSUME Alike(grown), ~(since.gone /\ since.came)
             PROVE  /\ grown[1].total = Len(list) /\ Len(list) \in Nat
                    /\ Held(list, grown, both)
                    /\ Len(list) = Len(both) => since.stayed \subseteq ToSet(both)
  <2>1. grown[1].total = Len(list) /\ Len(list) \in Nat =>
          grown[1].total <= Len(list) /\ grown[1].total >= Len(list)
    OBVIOUS
  <2> QED BY <2>1 DEF SteadySoFar
<1>1. grown[1].total = Len(list) /\ Len(list) \in Nat /\ Len(pages) \in Nat
  BY AlikeSoFar
<1>2. Held(list, pages, all)
  <2>1. CASE pages = <<>>
    <3>1. Len(pages) = 0 /\ all = <<>>
      BY <2>1
    <3>2. Begins(Prefix(0, list), 0, list) /\ Len(list) \in Nat
      BY PrefixRows
    <3>3. Prefix(0, list) = <<>>
      BY <3>2, EmptySeq DEF Begins
    <3> QED BY <3>1, <3>3, NoOffset DEF Held
  <2>2. CASE pages # <<>>
    BY <2>2, AlikeSoFar DEF SteadySoFar
  <2> QED BY <2>1, <2>2
<1>3. both = Prefix(Offset(Len(pages) + 1), list)
  BY <1>1, <1>2, PrefixGrows DEF Held
<1>4. Held(list, grown, both)
  <2>1. Len(grown) = Len(pages) + 1
    BY Appended
  <2> QED BY <1>3, <2>1 DEF Held
<1>5. ASSUME Len(list) = Len(both) PROVE since.stayed \subseteq ToSet(both)
  <2>1. Offset(Len(pages) + 1) \in Nat
    BY <1>1, Offsets
  <2> HIDE DEF both
  <2>2. Begins(both, Offset(Len(pages) + 1), list)
    BY <1>3, <2>1, PrefixRows
  <2>3. Offset(Len(pages) + 1) >= Len(list)
    BY <1>1, <1>5, <2>1, <2>2 DEF Begins
  <2>4. both = list
    BY <1>3, <2>1, <2>3, PrefixRows
  <2> QED BY <2>4
<1> QED BY <1>1, <1>4, <1>5

LEMMA ReadLoose ==
  ASSUME NEW list \in Seq(RowIds), NEW pages \in Seq(PageAnswers), NEW all \in Seq(RowIds),
         NEW since \in Spans, NEW a \in PageAnswers,
         LooseSoFar(list, pages, all, since), pages = <<>> => all = <<>>,
         a.items = PageAt(Len(pages), list),
         since.gone \/ since.came \/ a.total = Len(list)
  PROVE  LooseSoFar(list, Append(pages, a), all \o a.items, since)
<1> DEFINE grown == Append(pages, a)
           both == all \o a.items
<1> SUFFICES ASSUME ~since.gone, ~since.came
             PROVE  /\ Latest(grown).total = Len(list) /\ Held(list, grown, both)
                    /\ Latest(grown).items = <<>> => both = list
  BY DEF LooseSoFar
<1>1. Latest(grown) = a /\ Len(grown) = Len(pages) + 1 /\ Len(pages) \in Nat
  BY Appended
<1>2. Held(list, pages, all)
  <2>1. CASE pages = <<>>
    <3>1. Len(pages) = 0 /\ all = <<>>
      BY <2>1
    <3>2. Begins(Prefix(0, list), 0, list) /\ Len(list) \in Nat
      BY PrefixRows
    <3>3. Prefix(0, list) = <<>>
      BY <3>2, EmptySeq DEF Begins
    <3> QED BY <3>1, <3>3, NoOffset DEF Held
  <2>2. CASE pages # <<>>
    BY <2>2 DEF LooseSoFar
  <2> QED BY <2>1, <2>2
<1>3. both = Prefix(Offset(Len(pages) + 1), list)
  BY <1>1, <1>2, PrefixGrows DEF Held
<1>4. Held(list, grown, both)
  BY <1>1, <1>3 DEF Held
<1> HIDE DEF both, grown
<1>5. ASSUME a.items = <<>> PROVE both = list
  <2>1. Offset(Len(pages)) \in Nat /\ Offset(Len(pages) + 1) = Offset(Len(pages)) + PageSize
    BY <1>1, Offsets
  <2>2. Follows(a.items, Offset(Len(pages)), list)
    BY <1>1, PageRows
  <2>3. Offset(Len(pages)) >= Len(list) /\ Len(list) \in Nat
    BY <1>5, <2>1, <2>2 DEF Follows
  <2>4. Offset(Len(pages) + 1) \in Nat /\ Offset(Len(pages) + 1) >= Len(list)
    BY <2>1, <2>3
  <2> QED BY <1>3, <2>4, PrefixRows
<1> QED BY <1>1, <1>4, <1>5

\* rest is what is left of list without its first n rows, which were read.
RestOf(rest, n, list, all, since) ==
  /\ all # <<>> => \A i \in 1..n : list[i] \in since.stayed => list[i] \in ToSet(all)
  /\ all = <<>> => n = 0
  /\ rest \in Seq(RowIds) /\ Len(rest) = Len(list) - n
  /\ \A i \in 1..Len(rest) : rest[i] = list[n + i]

LEMMA RestByCursor ==
  ASSUME NEW list \in Seq(RowIds), NewestFirst(list), NEW pages \in Seq(PageAnswers),
         NEW all \in Seq(RowIds), NEW since \in Spans,
         pages = <<>> => all = <<>>, CursorSoFar(list, pages, all, since), NEW rest,
         rest = IF all = <<>> THEN list ELSE OlderThan(Last(all), list)
  PROVE  \E n \in 0..Len(list) : RestOf(rest, n, list, all, since)
<1> USE DEF RestOf
<1>1. CASE all = <<>>
  <2>1. /\ 0 \in 0..Len(list) /\ Len(list) = Len(list) - 0
        /\ \A i \in 1..Len(list) : list[i] = list[0 + i]
    OBVIOUS
  <2> QED BY <1>1, <2>1
<1>2. CASE all # <<>>
  <2>0. Last(all) \in RowIds /\ pages # <<>>
    <3>1. Len(all) \in 1..Len(all)
      BY <1>2, EmptySeq
    <3> QED BY <1>2, <3>1 DEF Last
  <2>1. PICK n \in 0..Len(list) :
          /\ \A i \in DOMAIN list : list[i] < Last(all) <=> i > n
          /\ OlderThan(Last(all), list) = SubSeq(list, n + 1, Len(list))
    BY <2>0, OlderRows
  <2>2. ASSUME NEW i \in 1..n, list[i] \in since.stayed PROVE list[i] \in ToSet(all)
    <3>1. i \in DOMAIN list /\ ~(list[i] < Last(all))
      BY <2>1
    <3>2. list[i] \in Nat /\ Last(all) \in Nat
      <4>1. list[i] \in RowIds
        BY <3>1
      <4> QED BY <2>0, <4>1
    <3>3. list[i] >= Last(all)
      BY <3>1, <3>2
    <3> QED BY <2>0, <2>2, <3>3 DEF CursorSoFar
  <2> DEFINE older == SubSeq(list, n + 1, Len(list))
  <2>3. /\ older \in Seq(RowIds) /\ Len(older) = Len(list) - n
        /\ \A i \in 1..Len(older) : older[i] = list[n + i]
    OBVIOUS
  <2>4. rest = older
    BY <1>2, <2>1
  <2> HIDE DEF older
  <2> QED BY <1>2, <2>2, <2>3, <2>4
<1> QED BY <1>1, <1>2

LEMMA ReadCursor ==
  ASSUME NEW list \in Seq(RowIds), NewestFirst(list), NEW pages \in Seq(PageAnswers),
         NEW all \in Seq(RowIds), NEW since \in Spans, NEW a \in PageAnswers, NEW rest,
         since.stayed \subseteq ToSet(list), pages = <<>> => all = <<>>,
         CursorSoFar(list, pages, all, since),
         rest = IF all = <<>> THEN list ELSE OlderThan(Last(all), list),
         a.items = FirstPage(rest), a.more <=> Len(rest) > PageSize
  PROVE  CursorSoFar(list, Append(pages, a), all \o a.items, since)
<1> DEFINE both == all \o a.items
           items == a.items
<1>1. PICK n \in 0..Len(list) : RestOf(rest, n, list, all, since)
  <2> HIDE DEF both, items
  <2> QED BY RestByCursor
<1> USE DEF RestOf
<1>2. /\ items \in Seq(RowIds)
      /\ Len(rest) <= PageSize => Len(items) = Len(rest)
      /\ Len(rest) >= PageSize => Len(items) = PageSize
      /\ \A i \in 1..Len(items) : items[i] = rest[i]
  <2>1. rest \in Seq(RowIds)
    BY <1>1
  <2>2. /\ FirstPage(rest) \in Seq(RowIds)
        /\ Len(rest) <= PageSize => Len(FirstPage(rest)) = Len(rest)
        /\ Len(rest) >= PageSize => Len(FirstPage(rest)) = PageSize
        /\ \A i \in 1..Len(FirstPage(rest)) : FirstPage(rest)[i] = rest[i]
    BY <2>1, FirstPages
  <2> QED BY <2>2
<1> HIDE DEF items
<1>3. /\ all \o items \in Seq(RowIds) /\ Len(all \o items) = Len(all) + Len(items)
      /\ ToSet(all) \subseteq ToSet(all \o items) /\ ToSet(items) \subseteq ToSet(all \o items)
  BY <1>2, JoinedRows
<1>4. Len(list) \in Nat /\ Len(rest) \in Nat /\ Len(items) \in Nat /\ Len(items) <= Len(rest)
  BY <1>1, <1>2
<1>5. ASSUME NEW i \in 1..(n + Len(items)), list[i] \in since.stayed
      PROVE  list[i] \in ToSet(all \o items)
  <2>1. CASE i <= n
    <3>1. i \in 1..n /\ n # 0
      BY <1>4, <2>1
    <3> QED BY <1>1, <1>3, <1>5, <3>1
  <2>2. CASE i > n
    <3>1. i - n \in 1..Len(items) /\ i - n \in 1..Len(rest) /\ n + (i - n) = i
      BY <1>4, <2>2
    <3>2. items[i - n] = list[i]
      BY <1>1, <1>2, <3>1
    <3> QED BY <1>2, <1>3, <3>1, <3>2, SetOfRows
  <2> QED BY <2>1, <2>2
<1>6. ASSUME ~(Len(rest) > PageSize) PROVE since.stayed \subseteq ToSet(all \o items)
  <2>1. n + Len(items) = Len(list)
    BY <1>1, <1>2, <1>4, <1>6
  <2>2. ASSUME NEW r \in since.stayed PROVE r \in ToSet(all \o items)
    <3>1. PICK p \in 1..Len(list) : list[p] = r
      BY SetOfRows
    <3> QED BY <1>5, <2>1, <3>1
  <2> QED BY <2>2
<1>7. ASSUME Len(rest) > PageSize
      PROVE  /\ all \o items # <<>>
             /\ \A r \in since.stayed : r >= Last(all \o items) => r \in ToSet(all \o items)
  <2>1. Len(items) = PageSize /\ n + PageSize \in 1..Len(list)
    BY <1>1, <1>2, <1>4, <1>7
  <2>2. all \o items # <<>> /\ Last(all \o items) = list[n + PageSize]
    <3>1. Len(all) \in Nat /\ Len(all) + Len(items) # 0
      BY <2>1
    <3>2. all \o items # <<>>
      BY <1>3, <3>1, EmptySeq
    <3>3. (all \o items)[Len(all) + Len(items)] = items[Len(items)]
      BY <1>2, <2>1, Joined
    <3>4. items[Len(items)] = list[n + PageSize]
      <4>1. PageSize \in 1..Len(items) /\ PageSize \in 1..Len(rest)
        BY <1>4, <1>7, <2>1
      <4>2. items[PageSize] = rest[PageSize] /\ rest[PageSize] = list[n + PageSize]
        BY <1>1, <1>2, <4>1
      <4> QED BY <2>1, <4>2
    <3> QED BY <1>3, <3>2, <3>3, <3>4 DEF Last
  <2>3. ASSUME NEW r \in since.stayed, r >= list[n + PageSize] PROVE r \in ToSet(all \o items)
    <3>1. PICK p \in 1..Len(list) : list[p] = r
      BY SetOfRows
    <3>2. CASE p <= n + PageSize
      BY <1>5, <2>1, <3>1, <3>2
    <3>3. CASE p > n + PageSize
      <4>1. list[n + PageSize] > list[p]
        BY <2>1, <3>1, <3>3 DEF NewestFirst
      <4>2. list[n + PageSize] \in RowIds /\ list[p] \in RowIds
        BY <2>1, <3>1
      <4>3. list[n + PageSize] \in Nat /\ list[p] \in Nat
        BY <4>2
      <4> QED BY <2>3, <3>1, <4>1, <4>3
    <3> QED BY <3>2, <3>3
  <2> QED BY <2>2, <2>3
<1>8. Append(pages, a) # <<>> /\ (More(Append(pages, a)) <=> a.more)
  BY Appended
<1> QED BY <1>6, <1>7, <1>8 DEF CursorSoFar, items

LEMMA ReadKeeps ==
  ASSUME NEW v, NEW list, RowsSound(v, list), NEW pages \in Seq(PageAnswers),
         NEW all \in Seq(RowIds), NEW since \in Spans, NEW a \in PageAnswers, NEW rest,
         SoFar(v, list, pages, all, since), a.items = FirstPage(rest),
         v.answer.cursor => /\ rest = IF all = <<>> THEN list ELSE OlderThan(Last(all), list)
                            /\ a.more <=> Len(rest) > PageSize,
         ~v.answer.cursor => /\ rest = Skipping(Len(pages), list)
                             /\ v.mode = "grown" =>
                                  (a.more <=> Offset(Len(pages) + 1) < Len(list)),
         v.mode = "steady" => ~v.answer.cursor /\ a.total = Len(list),
         v.mode = "loose" => /\ ~v.answer.cursor
                             /\ since.gone \/ since.came \/ a.total = Len(list)
  PROVE  SoFar(v, list, Append(pages, a), all \o a.items, since)
<1> DEFINE grown == Append(pages, a)
           both == all \o a.items
<1>1. /\ list \in Seq(RowIds) /\ since.stayed \subseteq ToSet(list)
      /\ pages = <<>> => all = <<>>
  BY DEF RowsSound, SoFar
<1>2. ~v.answer.cursor => a.items = PageAt(Len(pages), list)
  BY DEF PageAt
<1>3. ASSUME v.answer.cursor PROVE CursorSoFar(list, grown, both, since)
  <2>1. NewestFirst(list) /\ CursorSoFar(list, pages, all, since)
    BY <1>3 DEF RowsSound, SoFar
  <2> QED BY <1>1, <1>3, <2>1, ReadCursor
<1>4. ASSUME v.mode = "grown", ~v.answer.cursor PROVE GrownSoFar(list, grown, both, since)
  <2>1. GrownSoFar(list, pages, all, since)
    BY <1>4 DEF SoFar
  <2> QED BY <1>1, <1>2, <1>4, <2>1, ReadGrown
<1>5. ASSUME v.mode = "steady" PROVE SteadySoFar(list, grown, both, since)
  <2>1. SteadySoFar(list, pages, all, since)
    BY <1>5 DEF SoFar
  <2> QED BY <1>1, <1>2, <1>5, <2>1, ReadSteady
<1>6. ASSUME v.mode = "loose" PROVE LooseSoFar(list, grown, both, since)
  <2>1. LooseSoFar(list, pages, all, since)
    BY <1>6 DEF SoFar
  <2> QED BY <1>1, <1>2, <1>6, <2>1, ReadLoose
<1>7. grown # <<>>
  BY Appended
<1> HIDE DEF grown, both
<1>8. SoFar(v, list, grown, both, since)
  BY <1>1, <1>3, <1>4, <1>5, <1>6, <1>7 DEF SoFar
<1> QED BY <1>8 DEF grown, both

-----------------------------------------------------------------------------
(* What begins and what ends.                                              *)

LEMMA NothingHeld ==
  ASSUME NEW v, NEW list
  PROVE  FetchSound(v, NoFetch, list) /\ ShownSound(v, NothingShown, list)
<1>1. NoFetch \in Fetches /\ NoFetch.phase = "none"
  BY DEF NoFetch, Fetches, Keys, Spans
<1>2. NothingShown \in Showns /\ NothingShown.pages = <<>>
  BY DEF NothingShown, NoFetch, Showns, Keys, Spans
<1>3. FetchSound(v, NoFetch, list)
  BY <1>1 DEF FetchSound
<1>4. ShownSound(v, NothingShown, list)
  BY <1>2 DEF ShownSound
<1> QED BY <1>3, <1>4

LEMMA FreshFetch ==
  ASSUME NEW v, NEW list \in Seq(RowIds), NEW key \in Keys, NEW upTo \in Nat
  PROVE  FetchSound(v, FetchOf(key, <<>>, <<>>, upTo, Fresh(ToSet(list))), list)
<1> DEFINE since == Fresh(ToSet(list))
           f == FetchOf(key, <<>>, <<>>, upTo, since)
<1>1. since \in Spans /\ since.stayed = ToSet(list)
  BY SetOfRows DEF Fresh, Spans
<1> HIDE DEF since
<1>2. f \in Fetches /\ f.phase = "asked" /\ f.got = <<>> /\ f.all = <<>> /\ f.since = since
  <2>1. <<>> \in Seq(PageAnswers) /\ <<>> \in Seq(RowIds)
    OBVIOUS
  <2> HIDE DEF f
  <2>2. f = FetchOf(key, <<>>, <<>>, upTo, since)
    BY DEF f
  <2> QED BY <1>1, <2>1, <2>2 DEF FetchOf, NoFetch, Fetches
<1>3. GrownSoFar(list, <<>>, <<>>, since)
  <2>1. Len(<<>>) = 0
    OBVIOUS
  <2>2. Offset(Len(<<>>)) = 0
    BY <2>1, NoOffset
  <2> QED BY <2>2 DEF GrownSoFar
<1>4. SoFar(v, list, <<>>, <<>>, since)
  BY <1>1, <1>3 DEF SoFar, CursorSoFar, SteadySoFar, LooseSoFar
<1> HIDE DEF f
<1>5. FetchSound(v, f, list)
  BY <1>2, <1>4 DEF FetchSound
<1> QED BY <1>5 DEF f, since

\* What is known of a list that is not a paged one, in names of its own.
Sound == view.mode # "paged" /\ ListInv

LEMMA Keyed ==
  ASSUME Sound, NEW R
  PROVE  \E key \in Keys, upTo \in Nat :
           FetchAgain(R) = FetchOf(key, <<>>, <<>>, upTo, Fresh(R))
<1>1. Key(text, page) \in Keys
  BY DEF Sound, ListInv, Key, Keys
<1>2. PagesShown(Key(text, page)) \in Nat
  <2>1. Len(shown.pages) \in Nat
    BY DEF Sound, ListInv, ShownSound, Showns
  <2> QED BY <2>1 DEF PagesShown
<1> QED BY <1>1, <1>2 DEF FetchAgain

LEMMA AgainIsSound ==
  ASSUME Sound, NEW list \in Seq(RowIds)
  PROVE  FetchSound(view, FetchAgain(ToSet(list)), list)
BY Keyed, FreshFetch

-----------------------------------------------------------------------------
(* The actions.                                                            *)

\* What an action leaves: the view, and what is listed, fetched and shown.
Kept(list, f, s) ==
  /\ RowsSound(view, list) /\ FetchSound(view, f, list) /\ ShownSound(view, s, list)

LEMMA Carried ==
  ASSUME Sound, view' = view, text' = text, Kept(rows', fetch', shown')
  PROVE  ListInv'
<1>1. Fits(view) /\ text = 0
  BY DEF Sound, ListInv
<1> QED BY <1>1 DEF Kept, ListInv

LEMMA Parts ==
  ASSUME Sound
  PROVE  /\ RowsSound(view, rows) /\ rows \in Seq(RowIds)
         /\ FetchSound(view, fetch, rows) /\ fetch \in Fetches
         /\ fetch.got \in Seq(PageAnswers) /\ fetch.all \in Seq(RowIds)
         /\ fetch.since \in Spans /\ fetch.total \in Nat /\ fetch.key \in Keys
         /\ ShownSound(view, shown, rows) /\ shown \in Showns
         /\ shown.pages \in Seq(PageAnswers) /\ shown.all \in Seq(RowIds)
         /\ shown.since \in Spans /\ shown.key \in Keys
<1>1. fetch \in Fetches /\ shown \in Showns
  BY DEF Sound, ListInv, FetchSound, ShownSound
<1>2. /\ fetch.got \in Seq(PageAnswers) /\ fetch.all \in Seq(RowIds)
      /\ fetch.since \in Spans /\ fetch.total \in Nat /\ fetch.key \in Keys
  BY <1>1 DEF Fetches
<1>3. /\ shown.pages \in Seq(PageAnswers) /\ shown.all \in Seq(RowIds)
      /\ shown.since \in Spans /\ shown.key \in Keys
  BY <1>1 DEF Showns
<1> QED BY <1>1, <1>2, <1>3 DEF Sound, ListInv, RowsSound

LEMMA InitSound == ListInit => ListInv
<1> SUFFICES ASSUME ListInit PROVE ListInv
  OBVIOUS
<1>1. Fits(view) /\ text = 0
  BY ViewsFit DEF ListInit
<1>2. RowsSound(view, rows)
  BY DEF ListInit, RowsSound
<1>3. FetchSound(view, fetch, rows) /\ ShownSound(view, shown, rows)
  BY NothingHeld DEF ListInit
<1> QED BY <1>1, <1>2, <1>3 DEF ListInv

\* What is known of some pages outlives one change of the list.
LEMMA ChangeKeeps ==
  ASSUME Sound, NEW new, NEW id, NEW comes \in BOOLEAN,
         comes => Came(rows, new, id), ~comes => Left(rows, new, id),
         NEW pages \in Seq(PageAnswers), NEW all \in Seq(RowIds), NEW since \in Spans,
         SoFar(view, rows, pages, all, since)
  PROVE  /\ Edited(since, id, comes) \in Spans
         /\ SoFar(view, new, pages, all, Edited(since, id, comes))
         /\ Edited(since, id, comes).gone \/ Edited(since, id, comes).came
<1>1. rows \in Seq(RowIds)
  BY Parts
<1>2. CASE comes = TRUE
  BY <1>1, <1>2, AdditionKeeps, EditedSpan
<1>3. CASE comes = FALSE
  BY <1>1, <1>3, RemovalKeeps, EditedSpan
<1> QED BY <1>2, <1>3

LEMMA EditListStep ==
  ASSUME Sound, NEW new, NEW id, NEW comes \in BOOLEAN,
         comes => Came(rows, new, id), ~comes => Left(rows, new, id),
         RowsSound(view, new), EditList(new, id, comes)
  PROVE  ListInv'
<1>1. view' = view /\ text' = text /\ rows' = new /\ new \in Seq(RowIds)
  BY DEF EditList, RowsSound
<1>2. FetchSound(view, fetch', new)
  <2>1. CASE ~Reading /\ fetch' = fetch
    BY <2>1, Parts DEF Reading, FetchSound
  <2>2. CASE Reading /\ fetch' = [fetch EXCEPT !.since = Edited(@, id, comes), !.edited = TRUE,
                                               !.torn = @ \/ fetch.phase = "counted"]
    <3> DEFINE span == Edited(fetch.since, id, comes)
    <3>1. SoFar(view, rows, fetch.got, fetch.all, fetch.since)
      BY <2>2, Parts DEF Reading, FetchSound
    <3>2. /\ span \in Spans /\ SoFar(view, new, fetch.got, fetch.all, span)
          /\ span.gone \/ span.came
      BY <3>1, Parts, ChangeKeeps
    <3> HIDE DEF span
    <3>3. fetch' = [fetch EXCEPT !.since = span, !.edited = TRUE,
                                 !.torn = @ \/ fetch.phase = "counted"]
      BY <2>2 DEF span
    <3>4. fetch \in Fetches /\ (fetch.phase = "read" => fetch.got # <<>>)
      BY Parts DEF FetchSound
    <3>5. /\ fetch' \in Fetches /\ fetch'.phase = fetch.phase /\ fetch'.got = fetch.got
          /\ fetch'.all = fetch.all /\ fetch'.since = span
      BY <3>2, <3>3, <3>4 DEF Fetches
    <3> QED BY <3>2, <3>4, <3>5 DEF FetchSound
  <2>3. CASE fetch' = FetchAgain(ToSet(new))
    BY <1>1, <2>3, AgainIsSound
  <2> QED BY <2>1, <2>2, <2>3 DEF EditList
<1>3. ShownSound(view, shown', new)
  <2>1. CASE ~Shows /\ shown' = shown
    BY <2>1, Parts DEF Shows, ShownSound
  <2>2. CASE Shows /\ shown' = [shown EXCEPT !.since = Edited(@, id, comes)]
    <3> DEFINE span == Edited(shown.since, id, comes)
    <3>1. SoFar(view, rows, shown.pages, shown.all, shown.since)
      BY <2>2, Parts DEF Shows, ShownSound
    <3>2. span \in Spans /\ SoFar(view, new, shown.pages, shown.all, span)
      BY <3>1, Parts, ChangeKeeps
    <3> HIDE DEF span
    <3>3. shown' = [shown EXCEPT !.since = span]
      BY <2>2 DEF span
    <3>4. /\ shown' \in Showns /\ shown'.pages = shown.pages /\ shown'.all = shown.all
          /\ shown'.since = span
      BY <3>2, <3>3, Parts DEF Showns
    <3>5. ShownSound(view, shown, rows) /\ shown.pages # <<>>
      BY <2>2, Parts DEF Shows
    <3> QED BY <3>2, <3>4, <3>5 DEF ShownSound
  <2> QED BY <2>1, <2>2 DEF EditList
<1> QED BY <1>1, <1>2, <1>3, Carried DEF Kept

LEMMA AddRowStep ==
  ASSUME Sound, AddRow
  PROVE  ListInv'
<1>1. PICK id \in RowIds \ ToSet(rows), at \in 1..(Len(rows) + 1) :
        /\ view.answer.cursor => at = 1 /\ \A r \in ToSet(rows) : r < id
        /\ EditList(InsertAt(rows, at, id), id, TRUE)
  BY DEF AddRow
<1> DEFINE new == InsertAt(rows, at, id)
<1>2. Came(rows, new, id)
  BY Parts, AddedRow
<1>3. view.answer.cursor => NewestFirst(new)
  BY <1>1, Parts, AdditionKeepsNewestFirst DEF RowsSound
<1> HIDE DEF new
<1>4. RowsSound(view, new)
  BY <1>2, <1>3 DEF RowsSound, Came
<1>5. EditList(new, id, TRUE)
  BY <1>1 DEF new
<1> QED BY <1>2, <1>4, <1>5, EditListStep

LEMMA RemoveRowStep ==
  ASSUME Sound, RemoveRow
  PROVE  ListInv'
<1>1. PICK at \in DOMAIN rows : EditList(RemoveAt(rows, at), rows[at], FALSE)
  BY DEF RemoveRow
<1> DEFINE new == RemoveAt(rows, at)
           id == rows[at]
<1>2. Left(rows, new, id)
  BY Parts, RemovedRow
<1>3. view.answer.cursor => NewestFirst(new)
  BY Parts, RemovalKeepsNewestFirst DEF RowsSound
<1> HIDE DEF new, id
<1>4. RowsSound(view, new)
  BY <1>2, <1>3 DEF RowsSound, Left
<1>5. EditList(new, id, FALSE)
  BY <1>1 DEF new, id
<1> QED BY <1>2, <1>4, <1>5, EditListStep

LEMMA AskStep ==
  ASSUME Sound, Open \/ Reread
  PROVE  ListInv'
<1>1. /\ view' = view /\ text' = text /\ rows' = rows /\ shown' = shown
      /\ fetch' = FetchAgain(ToSet(rows))
  BY DEF Open, Reread
<1>2. FetchSound(view, fetch', rows)
  BY <1>1, Parts, AgainIsSound
<1> QED BY <1>1, <1>2, Parts, Carried DEF Kept

LEMMA LoadMoreStep ==
  ASSUME Sound, LoadMore
  PROVE  ListInv'
<1>1. /\ view' = view /\ text' = text /\ rows' = rows /\ shown' = shown
      /\ More(shown.pages)
      /\ fetch' = FetchOf(shown.key, shown.pages, shown.all, Len(shown.pages) + 1, shown.since)
  BY DEF LoadMore
<1>2. SoFar(view, rows, shown.pages, shown.all, shown.since)
  BY <1>1, Parts DEF More, ShownSound
<1>3. Len(shown.pages) + 1 \in Nat
  BY Parts
<1>4. /\ fetch' \in Fetches /\ fetch'.phase = "asked" /\ fetch'.got = shown.pages
      /\ fetch'.all = shown.all /\ fetch'.since = shown.since
  <2>1. /\ shown.pages \in Seq(PageAnswers) /\ shown.all \in Seq(RowIds)
        /\ shown.since \in Spans /\ shown.key \in Keys
    BY Parts
  <2> QED BY <1>1, <1>3, <2>1 DEF FetchOf, NoFetch, Fetches
<1>5. FetchSound(view, fetch', rows)
  BY <1>2, <1>4 DEF FetchSound
<1> QED BY <1>1, <1>5, Parts, Carried DEF Kept

LEMMA BlockStep ==
  ASSUME Sound, Block
  PROVE  ListInv'
<1>1. view.picker = FALSE
  BY DEF Sound, ListInv, Fits
<1>2. view' = view /\ text' = text /\ rows' = rows /\ shown' = shown /\ fetch' = fetch
  BY <1>1 DEF Block
<1> QED BY <1>2, Parts, Carried DEF Kept

\* These belong to lists that show one page at a time.
LEMMA PagedActions ==
  ASSUME Sound, Turn \/ Type \/ Debounce \/ SettlePage
  PROVE  FALSE
<1>1. view.picker = FALSE /\ view.settles = FALSE /\ view.mode # "paged"
  BY DEF Sound, ListInv, Fits
<1> QED BY <1>1 DEF Turn, Type, Debounce, SettlePage

LEMMA CountStep ==
  ASSUME Sound, Count
  PROVE  ListInv'
<1>1. /\ view' = view /\ text' = text /\ rows' = rows /\ shown' = shown
      /\ fetch.phase = "asked"
      /\ fetch' = [fetch EXCEPT !.phase = "counted", !.total = Len(rows)]
  BY DEF Count, Matching, Sound, ListInv
<1>2. SoFar(view, rows, fetch.got, fetch.all, fetch.since) /\ Len(rows) \in Nat
  BY <1>1, Parts DEF FetchSound
<1>3. /\ fetch' \in Fetches /\ fetch'.phase = "counted" /\ fetch'.got = fetch.got
      /\ fetch'.all = fetch.all /\ fetch'.since = fetch.since /\ fetch'.total = Len(rows)
  BY <1>1, <1>2, Parts DEF Fetches
<1>4. FetchSound(view, fetch', rows)
  BY <1>2, <1>3 DEF FetchSound
<1> QED BY <1>1, <1>4, Parts, Carried DEF Kept

\* The page that is read, and the rows it is taken from.
LEMMA PageIsRead ==
  ASSUME Sound, Read
  PROVE  \E a \in PageAnswers, rest \in Seq(RowIds) :
           /\ fetch' = [fetch EXCEPT !.phase = "read", !.got = Append(@, a), !.all = @ \o a.items]
           /\ a.items = FirstPage(rest)
           /\ a.total = IF view.answer.whole THEN Len(rows) ELSE fetch.total
           /\ view.answer.cursor =>
                /\ rest = IF fetch.all = <<>> THEN rows ELSE OlderThan(Last(fetch.all), rows)
                /\ a.more <=> Len(rest) > PageSize
           /\ ~view.answer.cursor =>
                /\ rest = Skipping(Len(fetch.got), rows)
                /\ view.mode = "grown" => (a.more <=> Offset(Len(fetch.got) + 1) < Len(rows))
<1> DEFINE total == IF view.answer.whole THEN Len(Matching) ELSE fetch.total
           a == AnswerOf(total)
<1>1. Matching = rows
  BY DEF Matching, Sound, ListInv
<1>2. Wanted = After(fetch.got, fetch.all)
  BY DEF Wanted, Sound
<1>3. total \in Nat
  BY <1>1, Parts
<1>4. /\ view.answer.cursor => Wanted = IF fetch.all = <<>> THEN rows
                                        ELSE OlderThan(Last(fetch.all), rows)
      /\ ~view.answer.cursor => Wanted = Skipping(Len(fetch.got), rows)
  BY <1>1, <1>2 DEF After
<1>5. Wanted \in Seq(RowIds)
  <2>1. CASE ~view.answer.cursor
    <3>1. Len(fetch.got) \in Nat
      BY Parts
    <3> QED BY <1>4, <2>1, <3>1, Parts, Skipped
  <2>2. CASE view.answer.cursor /\ fetch.all = <<>>
    BY <1>4, <2>2, Parts
  <2>3. CASE view.answer.cursor /\ fetch.all # <<>>
    <3>1. Last(fetch.all) \in RowIds
      <4>1. fetch.all \in Seq(RowIds)
        BY Parts
      <4>2. Len(fetch.all) \in 1..Len(fetch.all)
        BY <2>3, <4>1, EmptySeq
      <4> QED BY <4>1, <4>2 DEF Last
    <3>2. rows \in Seq(RowIds) /\ NewestFirst(rows)
      BY <2>3, Parts DEF RowsSound
    <3>3. PICK n \in 0..Len(rows) : OlderThan(Last(fetch.all), rows) = SubSeq(rows, n + 1, Len(rows))
      BY <3>1, <3>2, OlderRows
    <3>4. SubSeq(rows, n + 1, Len(rows)) \in Seq(RowIds)
      BY <3>2
    <3>5. Wanted = SubSeq(rows, n + 1, Len(rows))
      BY <1>4, <2>3, <3>3
    <3> QED BY <3>4, <3>5
  <2> QED BY <2>1, <2>2, <2>3
<1>6. ReadRows = FirstPage(Wanted) /\ ReadRows \in Seq(RowIds)
  BY <1>5, FirstPages DEF ReadRows
<1> HIDE DEF total
<1>7. /\ a.items = ReadRows /\ a.total = total
      /\ view.answer.cursor => (a.more <=> Len(Wanted) > PageSize)
      /\ ~view.answer.cursor => (a.more <=> Offset(Len(fetch.got) + 1) < total)
      /\ a \in PageAnswers
  <2>1. CASE view.answer.cursor
    <3>1. a = [total |-> total, items |-> ReadRows, more |-> Len(Wanted) > PageSize]
      BY <2>1 DEF AnswerOf
    <3> HIDE DEF a
    <3>2. a.items = ReadRows /\ a.total = total /\ a.more = (Len(Wanted) > PageSize)
      BY <3>1
    <3>3. (Len(Wanted) > PageSize) \in BOOLEAN
      OBVIOUS
    <3>4. a \in PageAnswers
      BY <1>3, <1>6, <3>1, <3>3 DEF PageAnswers
    <3> QED BY <2>1, <3>2, <3>4
  <2>2. CASE ~view.answer.cursor
    <3>1. a = [total |-> total, items |-> ReadRows,
               more |-> Offset(Len(fetch.got) + 1) < total]
      BY <2>2 DEF AnswerOf, Offset
    <3> HIDE DEF a
    <3>2. /\ a.items = ReadRows /\ a.total = total
          /\ a.more = (Offset(Len(fetch.got) + 1) < total)
      BY <3>1
    <3>3. (Offset(Len(fetch.got) + 1) < total) \in BOOLEAN
      OBVIOUS
    <3>4. a \in PageAnswers
      BY <1>3, <1>6, <3>1, <3>3 DEF PageAnswers
    <3> QED BY <2>2, <3>2, <3>4
  <2> QED BY <2>1, <2>2
<1>8. total = IF view.answer.whole THEN Len(rows) ELSE fetch.total
  BY <1>1 DEF total
<1>9. view.mode = "grown" => total = Len(rows)
  BY <1>8 DEF Sound, ListInv, Fits
<1>10. fetch' = [fetch EXCEPT !.phase = "read", !.got = Append(@, a), !.all = @ \o ReadRows]
  BY DEF Read, total
<1> HIDE DEF a
<1>11. fetch' = [fetch EXCEPT !.phase = "read", !.got = Append(@, a), !.all = @ \o a.items]
  BY <1>7, <1>10
<1> QED BY <1>4, <1>5, <1>6, <1>7, <1>8, <1>9, <1>11

LEMMA ReadStep ==
  ASSUME Sound, Read
  PROVE  ListInv'
<1>1. PICK a \in PageAnswers, rest \in Seq(RowIds) :
        /\ fetch' = [fetch EXCEPT !.phase = "read", !.got = Append(@, a), !.all = @ \o a.items]
        /\ a.items = FirstPage(rest)
        /\ a.total = IF view.answer.whole THEN Len(rows) ELSE fetch.total
        /\ view.answer.cursor =>
             /\ rest = IF fetch.all = <<>> THEN rows ELSE OlderThan(Last(fetch.all), rows)
             /\ a.more <=> Len(rest) > PageSize
        /\ ~view.answer.cursor =>
             /\ rest = Skipping(Len(fetch.got), rows)
             /\ view.mode = "grown" => (a.more <=> Offset(Len(fetch.got) + 1) < Len(rows))
  BY PageIsRead
<1>2. /\ view' = view /\ text' = text /\ rows' = rows /\ shown' = shown
      /\ fetch.phase = IF view.answer.whole THEN "asked" ELSE "counted"
  BY DEF Read
<1>3. SoFar(view, rows, fetch.got, fetch.all, fetch.since)
  BY <1>2, Parts DEF FetchSound
<1>4. view.mode = "steady" => ~view.answer.cursor /\ a.total = Len(rows)
  BY <1>1 DEF Sound, ListInv, Fits
<1>5. view.mode = "loose" =>
        /\ ~view.answer.cursor
        /\ fetch.since.gone \/ fetch.since.came \/ a.total = Len(rows)
  <2>1. view.mode = "loose" => view.answer.whole = FALSE /\ view.answer.cursor = FALSE
    BY DEF Sound, ListInv, Fits
  <2>2. view.mode = "loose" => fetch.phase = "counted" /\ a.total = fetch.total
    BY <1>1, <1>2, <2>1
  <2> QED BY <2>1, <2>2, Parts DEF FetchSound
<1>6. SoFar(view, rows, Append(fetch.got, a), fetch.all \o a.items, fetch.since)
  BY <1>1, <1>3, <1>4, <1>5, Parts, ReadKeeps
<1>7. /\ Append(fetch.got, a) \in Seq(PageAnswers) /\ Append(fetch.got, a) # <<>>
      /\ fetch.all \o a.items \in Seq(RowIds)
  <2>1. a.items \in Seq(RowIds)
    BY DEF PageAnswers
  <2> QED BY <2>1, Parts, Appended, JoinedRows
<1>8. /\ fetch' \in Fetches /\ fetch'.phase = "read" /\ fetch'.got = Append(fetch.got, a)
      /\ fetch'.all = fetch.all \o a.items /\ fetch'.since = fetch.since
  BY <1>1, <1>7, Parts DEF Fetches
<1>9. FetchSound(view, fetch', rows)
  BY <1>6, <1>7, <1>8 DEF FetchSound
<1> QED BY <1>2, <1>9, Parts, Carried DEF Kept

LEMMA ArriveStep ==
  ASSUME Sound, Arrive
  PROVE  ListInv'
<1>1. /\ view' = view /\ text' = text /\ rows' = rows /\ fetch.phase = "read"
  BY DEF Arrive
<1>2. SoFar(view, rows, fetch.got, fetch.all, fetch.since) /\ fetch.got # <<>>
  BY <1>1, Parts DEF FetchSound
<1>3. CASE RefuseAnswer
  <2>1. fetch' = NoFetch /\ (shown' = shown \/ shown' = NothingShown)
    BY <1>3 DEF RefuseAnswer
  <2> QED BY <1>1, <2>1, NothingHeld, Parts, Carried DEF Kept
<1>4. CASE fetch' = [fetch EXCEPT !.phase = "asked"] /\ shown' = shown
  <2>1. /\ fetch' \in Fetches /\ fetch'.phase = "asked" /\ fetch'.got = fetch.got
        /\ fetch'.all = fetch.all /\ fetch'.since = fetch.since
    BY <1>4, Parts DEF Fetches
  <2>2. FetchSound(view, fetch', rows)
    BY <1>2, <2>1 DEF FetchSound
  <2> QED BY <1>1, <1>4, <2>2, Parts, Carried DEF Kept
<1>5. CASE /\ ~(view.mode = "steady" /\ ~Steady(fetch.got, fetch.all))
           /\ ~Unfinished(fetch.got, fetch.all)
           /\ shown' = [key |-> fetch.key, pages |-> fetch.got, all |-> fetch.all,
                        since |-> fetch.since]
           /\ fetch' = NoFetch
  <2>1. /\ shown' \in Showns /\ shown'.pages = fetch.got /\ shown'.all = fetch.all
        /\ shown'.since = fetch.since
    BY <1>5, Parts DEF Showns
  <2>2. view.mode = "steady" =>
          Steady(fetch.got, fetch.all) /\ fetch.got[1].total = Len(fetch.all)
    BY <1>5 DEF Unfinished
  <2>3. view.mode = "loose" =>
          Len(fetch.all) >= Latest(fetch.got).total \/ Latest(fetch.got).items = <<>>
    <3>1. Latest(fetch.got).total \in Nat /\ Len(fetch.all) \in Nat
      <4>1. fetch.got \in Seq(PageAnswers) /\ fetch.all \in Seq(RowIds)
        BY Parts
      <4>2. Len(fetch.got) \in 1..Len(fetch.got)
        BY <1>2, <4>1, EmptySeq
      <4>3. fetch.got[Len(fetch.got)] \in PageAnswers
        BY <4>1, <4>2
      <4> QED BY <4>1, <4>3 DEF Latest, PageAnswers
    <3>2. view.mode = "loose" =>
            ~(Len(fetch.all) < Latest(fetch.got).total /\ Latest(fetch.got).items # <<>>)
      BY <1>5 DEF Unfinished
    <3> QED BY <3>1, <3>2
  <2>4. ShownSound(view, shown', rows)
    BY <1>2, <2>1, <2>2, <2>3 DEF ShownSound
  <2> QED BY <1>1, <1>5, <2>4, NothingHeld, Parts, Carried DEF Kept
<1> QED BY <1>3, <1>4, <1>5 DEF Arrive

LEMMA LoseReadStep ==
  ASSUME Sound, LoseRead
  PROVE  ListInv'
<1>1. /\ view' = view /\ text' = text /\ rows' = rows /\ fetch' = NoFetch
      /\ shown' = shown \/ shown' = NothingShown
  BY DEF LoseRead
<1> QED BY <1>1, NothingHeld, Parts, Carried DEF Kept

LEMMA ListInvStep == ListInv /\ [ListNext]_listVars => ListInv'
<1> SUFFICES ASSUME ListInv, [ListNext]_listVars PROVE ListInv'
  OBVIOUS
<1>1. view' = view
  BY DEF ListNext, listVars, AddRow, RemoveRow, EditList, Open, Reread, Turn, Type, Debounce,
     GoTo, Block, LoadMore, SettlePage, Count, Read, Arrive, LoseRead
<1>2. CASE view.mode = "paged"
  BY <1>1, <1>2 DEF ListInv
<1>3. CASE view.mode # "paged"
  <2>1. Sound
    BY <1>3 DEF Sound
  <2>2. CASE UNCHANGED listVars
    BY <2>1, <2>2, Parts, Carried DEF Kept, listVars
  <2>3. CASE AddRow \/ RemoveRow
    BY <2>1, <2>3, AddRowStep, RemoveRowStep
  <2>4. CASE Open \/ Reread
    BY <2>1, <2>4, AskStep
  <2>5. CASE Turn \/ Type \/ Debounce \/ SettlePage
    BY <2>1, <2>5, PagedActions
  <2>6. CASE Block \/ LoadMore
    BY <2>1, <2>6, BlockStep, LoadMoreStep
  <2>7. CASE Count \/ Read
    BY <2>1, <2>7, CountStep, ReadStep
  <2>8. CASE Arrive \/ LoseRead
    BY <2>1, <2>8, ArriveStep, LoseReadStep
  <2> QED BY <2>2, <2>3, <2>4, <2>5, <2>6, <2>7, <2>8 DEF ListNext
<1> QED BY <1>2, <1>3

LEMMA ListInvIsWhole == ListInv => ReadToTheEndIsWhole
<1> SUFFICES ASSUME ListInv, ReadToTheEnd
             PROVE  /\ shown.since.stayed \subseteq ToSet(shown.all) \/ MayHide
                    /\ view.mode = "steady" =>
                         Cardinality(ToSet(shown.all)) = Len(shown.all)
  BY DEF ReadToTheEndIsWhole
<1>1. Sound /\ shown.pages # <<>>
  BY DEF Sound, ReadToTheEnd, Shows
<1>2. /\ SoFar(view, rows, shown.pages, shown.all, shown.since)
      /\ view.mode = "steady" =>
           Steady(shown.pages, shown.all) /\ shown.pages[1].total = Len(shown.all)
      /\ view.mode = "loose" =>
           Len(shown.all) >= Latest(shown.pages).total \/ Latest(shown.pages).items = <<>>
  BY <1>1, Parts DEF ShownSound
<1>3. Fits(view) /\ view.mode # "paged"
  BY <1>1 DEF Sound, ListInv
<1>4. CASE view.mode = "grown"
  <2>1. ~More(shown.pages)
    BY <1>4 DEF ReadToTheEnd
  <2>2. CASE view.answer.cursor
    <3>1. shown.since.stayed \subseteq ToSet(shown.all)
      BY <1>1, <1>2, <2>1, <2>2 DEF SoFar, CursorSoFar
    <3> QED BY <1>4, <3>1
  <2>3. CASE ~view.answer.cursor
    <3>1. shown.since.stayed \subseteq ToSet(shown.all) \/ shown.since.gone
      BY <1>1, <1>2, <1>4, <2>1, <2>3 DEF SoFar, GrownSoFar
    <3> QED BY <1>4, <2>3, <3>1 DEF MayHide
  <2> QED BY <2>2, <2>3
<1>5. CASE view.mode = "steady"
  <2>1. view.answer.cursor = FALSE
    BY <1>3, <1>5 DEF Fits
  <2>2. \/ shown.since.stayed \subseteq ToSet(shown.all)
        \/ shown.since.gone /\ shown.since.came
    BY <1>1, <1>2, <1>5 DEF SoFar, SteadySoFar, Steady
  <2>3. Cardinality(ToSet(shown.all)) = Len(shown.all)
    BY <1>2, <1>5 DEF Steady
  <2> QED BY <1>5, <2>1, <2>2, <2>3 DEF MayHide
<1>6. CASE view.mode = "loose"
  <2>1. view.answer.cursor = FALSE
    BY <1>3, <1>6 DEF Fits
  <2>2. ASSUME ~shown.since.gone, ~shown.since.came
        PROVE  shown.since.stayed \subseteq ToSet(shown.all)
    <3>1. /\ Latest(shown.pages).total = Len(rows) /\ Held(rows, shown.pages, shown.all)
          /\ Latest(shown.pages).items = <<>> => shown.all = rows
          /\ shown.since.stayed \subseteq ToSet(rows)
      BY <1>1, <1>2, <1>6, <2>2 DEF SoFar, LooseSoFar
    <3>2. CASE Latest(shown.pages).items = <<>>
      BY <3>1, <3>2
    <3>3. CASE Len(shown.all) >= Len(rows)
      <4> DEFINE n == Offset(Len(shown.pages))
      <4>1. n \in Nat /\ rows \in Seq(RowIds) /\ Len(rows) \in Nat
        <5>1. Len(shown.pages) \in Nat /\ rows \in Seq(RowIds)
          BY <1>1, Parts
        <5>2. Offset(Len(shown.pages)) \in Nat
          BY <5>1, Offsets
        <5> QED BY <5>1, <5>2
      <4> HIDE DEF n
      <4>2. shown.all = Prefix(n, rows)
        BY <3>1 DEF Held, n
      <4>3. Begins(shown.all, n, rows) /\ (n >= Len(rows) => shown.all = rows)
        BY <4>1, <4>2, PrefixRows
      <4>4. n >= Len(rows)
        BY <3>3, <4>1, <4>3 DEF Begins
      <4> QED BY <3>1, <4>3, <4>4
    <3> QED BY <1>2, <1>6, <3>1, <3>2, <3>3
  <2> QED BY <1>6, <2>1, <2>2 DEF MayHide
<1> QED BY <1>3, <1>4, <1>5, <1>6 DEF Fits

-----------------------------------------------------------------------------
(* The theorems.                                                           *)

\* What is known of the pages read holds as long as the list is used: a list
\* that grows holds all kept rows of the offsets it has passed, a walk by totals
\* the beginning of the list or a total that can no longer be reached, a walk by
\* cursor all kept rows down to the last one (paging in src/apps/web/src/api).
THEOREM ReadPagesAreKnown == ListSpec => []ListInv
<1>1. ListInit => ListInv
  BY InitSound
<1>2. ListInv /\ [ListNext]_listVars => ListInv'
  BY ListInvStep
<1> QED BY <1>1, <1>2, PTL DEF ListSpec

\* A list of the client that was read to its end shows every row that was there
\* all the time, whoever added and removed others between its pages, and the walk
\* of all tasks and actors shows no row twice (fetchAllTasks and the infinite
\* queries of src/apps/web/src/api).
THEOREM ListsAreWhole == ListSpec => []ReadToTheEndIsWhole
<1>1. ListSpec => []ListInv
  BY ReadPagesAreKnown
<1>2. ListInv => ReadToTheEndIsWhole
  BY ListInvIsWhole
<1> QED BY <1>1, <1>2, PTL

-----------------------------------------------------------------------------
(* What a reader refuses, in every kind of view.                           *)

Apart(list) == \A i, j \in DOMAIN list : list[i] = list[j] => i = j

\* All pages read before a steady walk was disturbed are of the list as it is.
Undisturbed(list, f) ==
  /\ Held(list, f.got, f.all)
  /\ \A i \in DOMAIN f.got : f.got[i].total = Len(list)

Typed ==
  /\ view \in Views /\ rows \in Seq(RowIds)
  /\ page \in Nat \ {0} /\ typed \in {0, 1} /\ text \in {0, 1}
  /\ fetch \in Fetches /\ shown \in Showns

\* An answer that has been read and is not torn is one that the reader takes.
AnswersSound ==
  /\ fetch.torn \/ fetch.phase = "counted" => ~view.answer.whole
  /\ fetch.phase = "counted" /\ ~fetch.torn => fetch.total = Len(Matching)
  /\ fetch.phase = "read" => fetch.got # <<>> /\ (fetch.torn \/ Takes(Latest(fetch.got)))
  /\ view.mode = "steady" /\ fetch.phase # "none" /\ ~fetch.edited => Undisturbed(rows, fetch)

RefusalInv ==
  /\ Typed /\ Apart(rows) /\ AnswersSound
  /\ shown.pages = <<>> => shown.key = <<0, 0>>
  /\ OnlyTornAnswersAreRefused

\* How strictly answers are checked, by the way they are read.
Checks(v) ==
  /\ v.answer.cursor => v.answer.check = "any" /\ v.mode # "paged"
  /\ ~v.answer.whole => v = RemindersView \/ (v.answer.check = "any" /\ v.mode # "steady")
  /\ v.mode = "steady" => v \in {AllTasks, AllActors}
  /\ v.answer.whole \in BOOLEAN /\ v.answer.cursor \in BOOLEAN
  /\ v.settles => v.mode = "paged"

LEMMA PagedChecks ==
  ASSUME NEW a, a.cursor = FALSE, a.whole = TRUE \/ (a.whole = FALSE /\ a.check = "any")
  PROVE  /\ Checks(View(a, "paged")) /\ Checks(Paged(a)) /\ Checks(Blocking(Paged(a)))
         /\ Checks(Picker(a)) /\ Checks(Grown(a))
BY DEF Checks, View, Paged, Blocking, Picker, Grown

LEMMA AnswersChecked ==
  ASSUME NEW check
  PROVE  /\ Answer(check).cursor = FALSE /\ Answer(check).whole = TRUE
         /\ Torn(Answer(check)).cursor = FALSE /\ Torn(Answer(check)).whole = FALSE
         /\ Torn(Answer(check)).check = check
BY DEF Answer, Torn

LEMMA ViewsCheck == \A v \in Views : Checks(v)
<1>1. /\ Checks(TasksView) /\ Checks(RiskTasksView) /\ Checks(ProjectTasksView)
      /\ Checks(ChildTasksView) /\ Checks(CandidateTasksView) /\ Checks(TaskSelectView)
      /\ Checks(ActorsView)
  BY PagedChecks, AnswersChecked DEF TasksView, RiskTasksView, ProjectTasksView,
     ChildTasksView, CandidateTasksView, TaskSelectView, ActorsView, TaskPage, ActorPage
<1>2. /\ Checks(ProjectsView) /\ Checks(ClientProjectsView)
      /\ Checks(ProjectSelectView) /\ Checks(ProjectNotesView) /\ Checks(ProjectAttachmentsView)
      /\ Checks(ProjectArtifactsView)
  BY PagedChecks, AnswersChecked DEF ProjectsView, ClientProjectsView, ProjectSelectView,
     ProjectNotesView, ProjectAttachmentsView, ProjectArtifactsView, ProjectPage,
     ProjectNotePage, ProjectAttachmentPage, ProjectArtifactPage
<1>3. /\ Checks(ClientsView) /\ Checks(ClientSelectView) /\ Checks(ClientActivitiesView)
      /\ Checks(ClientFollowupsView) /\ Checks(ClientAttachmentsView) /\ Checks(InboxView)
      /\ Checks(IncomeView) /\ Checks(InvoicesView) /\ Checks(RoadmapView)
  BY PagedChecks, AnswersChecked DEF ClientsView, ClientSelectView, ClientActivitiesView,
     ClientFollowupsView, ClientAttachmentsView, InboxView, IncomeView, InvoicesView,
     RoadmapView, ClientPage, ClientActivityPage, ClientFollowupPage, ClientAttachmentPage,
     InboxItemPage, FinancialEntryPage, InvoicePage, RoadmapPage
<1>4. /\ Checks(FocusHistoryView) /\ Checks(TaskFocusHistoryView)
      /\ Checks(ProjectFocusHistoryView) /\ Checks(AutomationRunsView)
      /\ Checks(WorkspaceRunsView) /\ Checks(KnowledgeAccessView)
  BY PagedChecks, AnswersChecked DEF FocusHistoryView, TaskFocusHistoryView,
     ProjectFocusHistoryView, AutomationRunsView, WorkspaceRunsView, KnowledgeAccessView,
     FocusSessionPage, AutomationRunPage, AgentRunPage, KnowledgePage
<1>5. /\ Checks(TaskEventsView) /\ Checks(TaskSubmissionsView) /\ Checks(TaskArtifactsView)
      /\ Checks(TaskAssignmentsView) /\ Checks(InboxItemTasksView) /\ Checks(InboxEventsView)
      /\ Checks(ProjectEventsView) /\ Checks(ContentCalendarView) /\ Checks(AgentInboxView)
      /\ Checks(WorkspaceOverviewView)
  BY PagedChecks, AnswersChecked DEF TaskEventsView, TaskSubmissionsView, TaskArtifactsView,
     TaskAssignmentsView, InboxItemTasksView, InboxEventsView, ProjectEventsView,
     ContentCalendarView, AgentInboxView, WorkspaceOverviewView, TaskEventPage,
     TaskSubmissionPage, TaskArtifactPage, TaskAssignmentPage, InboxItemTaskPage,
     InboxEventPage, ProjectEventPage, ContentItemPage, AgentInboxPage
<1>6. Checks(MessagesView)
  BY DEF Checks, MessagesView, Grown, View, MessagePage, Answer
<1>7. Checks(RemindersView)
  BY DEF Checks, RemindersView, Paged, View, ReminderPage, Torn, Answer
<1>8. Checks(AllTasks) /\ Checks(AllActors)
  BY DEF Checks, AllTasks, AllActors, View, TaskPage, ActorPage, Answer
<1>9. Checks(AllTags)
  BY DEF Checks, AllTags, View, TagPage, Answer, Torn
<1> QED BY <1>1, <1>2, <1>3, <1>4, <1>5, <1>6, <1>7, <1>8, <1>9 DEF Views

-----------------------------------------------------------------------------
(* The rows that answer a text, and their pages.                           *)

Chosen(list, F, n) ==
  F = [i \in 0..n |-> IF i = 0 THEN <<>>
                      ELSE IF list[i] % 2 = 1 THEN Append(F[i - 1], list[i]) ELSE F[i - 1]]

LEMMA ChoiceExists ==
  ASSUME NEW list \in Seq(RowIds), NEW n \in Nat
  PROVE  \E F : Chosen(list, F, n)
<1> DEFINE T == {k \in Nat : ~ \E F : Chosen(list, F, k)}
<1> SUFFICES ASSUME T # {} PROVE FALSE
  OBVIOUS
<1>1. PICK m \in T : \A k \in T : m <= k
  <2> T \subseteq Nat
    OBVIOUS
  <2> HIDE DEF T
  <2> QED BY Smallest
<1>2. CASE m = 0
  <2>1. Chosen(list, [i \in 0..0 |-> <<>>], 0)
    BY DEF Chosen
  <2> QED BY <1>1, <1>2, <2>1
<1>3. CASE m # 0
  <2>1. m - 1 \in Nat /\ m - 1 \notin T
    BY <1>1, <1>3
  <2>2. PICK F : Chosen(list, F, m - 1)
    BY <2>1
  <2> DEFINE G == [i \in 0..m |-> IF i = 0 THEN <<>>
                     ELSE IF list[i] % 2 = 1 THEN Append(F[i - 1], list[i]) ELSE F[i - 1]]
  <2>3. ASSUME NEW i \in 0..(m - 1) PROVE G[i] = F[i]
    <3>1. i \in 0..m
      BY <2>1
    <3>2. F[i] = IF i = 0 THEN <<>>
                 ELSE IF list[i] % 2 = 1 THEN Append(F[i - 1], list[i]) ELSE F[i - 1]
      BY <2>2 DEF Chosen
    <3> QED BY <3>1, <3>2
  <2>4. ASSUME NEW i \in 0..m, i # 0 PROVE G[i - 1] = F[i - 1]
    <3>1. i - 1 \in 0..(m - 1)
      BY <2>1, <2>4
    <3> QED BY <2>3, <3>1
  <2>5. Chosen(list, G, m)
    BY <2>4 DEF Chosen
  <2> QED BY <1>1, <2>5
<1> QED BY <1>2, <1>3

LEMMA ChosenRows ==
  ASSUME NEW list \in Seq(RowIds), NEW F, Chosen(list, F, Len(list))
  PROVE  F[Len(list)] \in Seq(RowIds)
<1> DEFINE T == {k \in 0..Len(list) : F[k] \notin Seq(RowIds)}
<1> SUFFICES ASSUME T # {} PROVE FALSE
  OBVIOUS
<1>1. PICK m \in T : \A k \in T : m <= k
  <2> T \subseteq Nat
    OBVIOUS
  <2> HIDE DEF T
  <2> QED BY Smallest
<1>2. F[m] = IF m = 0 THEN <<>>
             ELSE IF list[m] % 2 = 1 THEN Append(F[m - 1], list[m]) ELSE F[m - 1]
  BY <1>1 DEF Chosen
<1>3. m # 0 => m - 1 \in 0..Len(list) /\ F[m - 1] \in Seq(RowIds) /\ list[m] \in RowIds
  BY <1>1
<1>4. F[m] \in Seq(RowIds)
  <2>1. CASE m = 0
    BY <1>2, <2>1
  <2>2. CASE m # 0
    BY <1>2, <1>3, <2>2
  <2> QED BY <2>1, <2>2
<1> QED BY <1>1, <1>4

LEMMA MatchingRows ==
  ASSUME rows \in Seq(RowIds)
  PROVE  Matching \in Seq(RowIds)
<1> DEFINE F == CHOOSE F : Chosen(rows, F, Len(rows))
<1>1. Chosen(rows, F, Len(rows))
  BY ChoiceExists
<1>2. Matching = IF text = 0 THEN rows ELSE F[Len(rows)]
  BY DEF Matching, Chosen
<1> HIDE DEF F
<1> QED BY <1>1, <1>2, ChosenRows

\* A page of a list has the rows its total leaves for it.
LEMMA PageIsFull ==
  ASSUME NEW list \in Seq(RowIds), NEW p \in Nat \ {0}
  PROVE  /\ PageAt(p - 1, list) \in Seq(RowIds)
         /\ Len(PageAt(p - 1, list)) = LeftFor(Len(list), p)
         /\ Len(PageAt(p - 1, list)) <= PageSize /\ Len(PageAt(p - 1, list)) <= Len(list)
<1>0. p - 1 \in Nat
  OBVIOUS
<1>1. p - 1 \in Nat /\ Offset(p - 1) \in Nat
  BY <1>0, Offsets
<1> DEFINE n == Offset(p - 1)
<1>2. Follows(PageAt(p - 1, list), n, list)
  BY <1>1, PageRows
<1>3. LeftFor(Len(list), p) =
        IF Len(list) - n < 0 THEN 0 ELSE IF Len(list) - n > PageSize THEN PageSize ELSE Len(list) - n
  BY DEF LeftFor, Offset
<1> HIDE DEF n
<1> QED BY <1>1, <1>2, <1>3 DEF Follows, n

LEMMA LastPageCounts ==
  ASSUME NEW total \in Nat
  PROVE  LastPage(total) \in Nat \ {0}
<1>1. CASE total = 0
  BY <1>1 DEF LastPage
<1>2. CASE total # 0
  <2>1. total + PageSize - 1 \in Nat /\ total + PageSize - 1 >= PageSize
    BY <1>2
  <2>2. \A x \in Nat, d \in Nat \ {0} : x >= d => x \div d \in Nat \ {0}
    OBVIOUS
  <2> QED BY <1>2, <2>1, <2>2 DEF LastPage
<1> QED BY <1>1, <1>2

LEMMA NoRepetition ==
  ASSUME NEW list \in Seq(RowIds), Apart(list)
  PROVE  Cardinality(ToSet(list)) = Len(list)
<1>0. DOMAIN list = 1..Len(list) /\ Len(list) \in Nat
  OBVIOUS
<1>1. list \in Bijection(1..Len(list), ToSet(list))
  <2>1. list \in [1..Len(list) -> ToSet(list)]
    <3>1. list = [i \in 1..Len(list) |-> list[i]]
      OBVIOUS
    <3>2. \A i \in 1..Len(list) : list[i] \in ToSet(list)
      BY SetOfRows
    <3> QED BY <3>1, <3>2
  <2>2. IsInjective(list)
    BY DEF Apart, IsInjective
  <2>3. \A r \in ToSet(list) : \E i \in 1..Len(list) : list[i] = r
    BY SetOfRows
  <2> QED BY <2>1, <2>2, <2>3 DEF Bijection, Injection, Surjection
<1>2. ExistsBijection(1..Len(list), ToSet(list))
  BY <1>1 DEF ExistsBijection
<1>3. IsFiniteSet(1..Len(list)) /\ Cardinality(1..Len(list)) = Len(list)
  <2>1. 1 \in Int /\ Len(list) \in Int
    BY <1>0
  <2>2. IsFiniteSet(1..Len(list)) /\
        Cardinality(1..Len(list)) = IF 1 > Len(list) THEN 0 ELSE Len(list) - 1 + 1
    BY <2>1, FS_Interval
  <2> QED BY <1>0, <2>2
<1> QED BY <1>2, <1>3, FS_Bijection

LEMMA AdditionKeepsApart ==
  ASSUME NEW list \in Seq(RowIds), Apart(list), NEW at \in 1..(Len(list) + 1),
         NEW id \in RowIds \ ToSet(list)
  PROVE  InsertAt(list, at, id) \in Seq(RowIds) /\ Apart(InsertAt(list, at, id))
<1> DEFINE new == InsertAt(list, at, id)
           old(p) == IF p < at THEN p ELSE p - 1
<1>1. /\ new \in Seq(RowIds) /\ Len(new) = Len(list) + 1
      /\ \A p \in 1..(at - 1) : new[p] = list[p]
      /\ new[at] = id
      /\ \A p \in (at + 1)..(Len(list) + 1) : new[p] = list[p - 1]
  BY Insertion
<1> HIDE DEF new
<1>2. ASSUME NEW p \in 1..Len(new), p # at
      PROVE  old(p) \in 1..Len(list) /\ new[p] = list[old(p)] /\ new[p] # id
  <2>1. old(p) \in 1..Len(list) /\ new[p] = list[old(p)]
    <3>1. CASE p < at
      BY <1>1, <3>1
    <3>2. CASE p > at
      BY <1>1, <3>2
    <3> QED BY <1>2, <3>1, <3>2
  <2> HIDE DEF old
  <2> QED BY <2>1, SetOfRows
<1>3. ASSUME NEW i \in 1..Len(new), NEW j \in 1..Len(new), new[i] = new[j] PROVE i = j
  <2>1. CASE i = at \/ j = at
    BY <1>1, <1>2, <1>3, <2>1
  <2>2. CASE i # at /\ j # at
    <3>1. /\ old(i) \in 1..Len(list) /\ new[i] = list[old(i)]
          /\ old(j) \in 1..Len(list) /\ new[j] = list[old(j)]
      BY <1>2, <2>2
    <3>2. old(i) = old(j)
      <4>1. DOMAIN list = 1..Len(list)
        OBVIOUS
      <4> HIDE DEF old
      <4> QED BY <1>3, <3>1, <4>1 DEF Apart
    <3> QED BY <2>2, <3>2
  <2> QED BY <2>1, <2>2
<1>4. DOMAIN new = 1..Len(new)
  BY <1>1
<1>5. Apart(new)
  BY <1>3, <1>4 DEF Apart
<1> QED BY <1>1, <1>5 DEF new

LEMMA RemovalKeepsApart ==
  ASSUME NEW list \in Seq(RowIds), Apart(list), NEW at \in DOMAIN list
  PROVE  RemoveAt(list, at) \in Seq(RowIds) /\ Apart(RemoveAt(list, at))
<1> DEFINE new == RemoveAt(list, at)
           old(p) == IF p < at THEN p ELSE p + 1
<1>1. /\ new \in Seq(RowIds) /\ Len(new) = Len(list) - 1
      /\ \A p \in 1..(at - 1) : new[p] = list[p]
      /\ \A p \in at..(Len(list) - 1) : new[p] = list[p + 1]
  BY Removal
<1> HIDE DEF new
<1>2. ASSUME NEW p \in 1..Len(new) PROVE old(p) \in 1..Len(list) /\ new[p] = list[old(p)]
  <2>1. CASE p < at
    BY <1>1, <2>1
  <2>2. CASE p >= at
    BY <1>1, <2>2
  <2> QED BY <2>1, <2>2
<1>3. ASSUME NEW i \in 1..Len(new), NEW j \in 1..Len(new), new[i] = new[j] PROVE i = j
  <2>1. old(i) = old(j)
    <3>1. DOMAIN list = 1..Len(list)
      OBVIOUS
    <3> HIDE DEF old
    <3> QED BY <1>2, <1>3, <3>1 DEF Apart
  <2> QED BY <2>1
<1>4. DOMAIN new = 1..Len(new)
  BY <1>1
<1>5. Apart(new)
  BY <1>3, <1>4 DEF Apart
<1> QED BY <1>1, <1>5 DEF new

\* A walk that was not disturbed is steady: its totals are one, and no row comes back.
LEMMA UndisturbedIsSteady ==
  ASSUME NEW list \in Seq(RowIds), Apart(list), NEW f \in Fetches, f.got # <<>>,
         Undisturbed(list, f)
  PROVE  Steady(f.got, f.all)
<1>1. /\ f.got \in Seq(PageAnswers) /\ f.all \in Seq(RowIds)
      /\ \A i \in DOMAIN f.got : f.got[i].total = Len(list)
  BY DEF Fetches, Undisturbed
<1>2. Alike(f.got)
  <2>1. 1 \in DOMAIN f.got
    BY <1>1, FirstAnswer
  <2> QED BY <1>1, <2>1 DEF Alike
<1> DEFINE n == Offset(Len(f.got))
<1>3. n \in Nat
  <2>1. Len(f.got) \in Nat
    BY <1>1
  <2> QED BY <2>1, Offsets
<1>4. f.all = Prefix(n, list)
  BY DEF Undisturbed, Held
<1> HIDE DEF n
<1>5. Begins(f.all, n, list)
  BY <1>3, <1>4, PrefixRows
<1>6. Apart(f.all)
  <2>1. \A i \in 1..Len(f.all) : i \in DOMAIN list /\ f.all[i] = list[i]
    BY <1>1, <1>3, <1>5 DEF Begins
  <2>2. DOMAIN f.all = 1..Len(f.all)
    BY <1>1
  <2> QED BY <2>1, <2>2 DEF Apart
<1>7. Len(f.all) = Cardinality(ToSet(f.all))
  BY <1>1, <1>6, NoRepetition
<1> QED BY <1>2, <1>7 DEF Steady

-----------------------------------------------------------------------------
(* What begins, ends, or is asked for anew.                                *)

LEMMA NothingRead ==
  /\ NoFetch \in Fetches /\ NoFetch.phase = "none" /\ NoFetch.torn = FALSE
  /\ NothingShown \in Showns /\ NothingShown.pages = <<>> /\ NothingShown.key = <<0, 0>>
BY DEF NoFetch, Fetches, Keys, Spans, NothingShown, Showns

\* What a list that was asked for, or is not read, has to say.
LEMMA AskedIsSound ==
  ASSUME view' = view, rows' \in Seq(RowIds), fetch'.phase \in {"none", "asked"},
         fetch'.torn = FALSE,
         fetch'.phase = "none" \/ view.mode # "steady" \/ (fetch'.got = <<>> /\ fetch'.all = <<>>)
  PROVE  AnswersSound'
<1>1. ASSUME fetch'.got = <<>>, fetch'.all = <<>> PROVE Undisturbed(rows, fetch)'
  <2>1. Prefix(0, rows') = <<>>
    <3>1. Begins(Prefix(0, rows'), 0, rows') /\ Len(rows') \in Nat
      BY PrefixRows
    <3> QED BY <3>1, EmptySeq DEF Begins
  <2>2. Len(<<>>) = 0 /\ DOMAIN <<>> = {}
    OBVIOUS
  <2> QED BY <1>1, <2>1, <2>2, NoOffset DEF Undisturbed, Held
<1> QED BY <1>1 DEF AnswersSound

LEMMA Spanned == ASSUME NEW list \in Seq(RowIds) PROVE Fresh(ToSet(list)) \in Spans
BY SetOfRows DEF Fresh, Spans

LEMMA KeyTyped == ASSUME NEW t \in Nat, NEW p \in Nat PROVE Key(t, p) \in Keys
BY DEF Key, Keys

LEMMA FetchedAgain ==
  ASSUME Typed, NEW list \in Seq(RowIds)
  PROVE  LET f == FetchAgain(ToSet(list))
         IN  /\ f \in Fetches /\ f.phase = "asked" /\ f.torn = FALSE
             /\ f.got = <<>> /\ f.all = <<>>
<1>1. Key(text, page) \in Keys
  BY KeyTyped DEF Typed
<1>2. PagesShown(Key(text, page)) \in Nat
  <2>1. Len(shown.pages) \in Nat
    BY DEF Typed, Showns
  <2> QED BY <2>1 DEF PagesShown
<1> DEFINE key == Key(text, page)
           upTo == PagesShown(Key(text, page))
           span == Fresh(ToSet(list))
           got == <<>>
           all == <<>>
           f == FetchOf(key, got, all, upTo, span)
<1>3. FetchAgain(ToSet(list)) = f /\ got = <<>> /\ all = <<>>
  BY DEF FetchAgain
<1>4. key \in Keys /\ upTo \in Nat /\ span \in Spans
  BY <1>1, <1>2, Spanned
<1>5. got \in Seq(PageAnswers) /\ all \in Seq(RowIds)
  OBVIOUS
<1>6. f = FetchOf(key, got, all, upTo, span)
  OBVIOUS
<1> HIDE DEF key, upTo, span, got, all, f
<1>7. f \in Fetches /\ f.phase = "asked" /\ f.torn = FALSE /\ f.got = got /\ f.all = all
  BY <1>4, <1>5, <1>6 DEF FetchOf, NoFetch, Fetches
<1> QED BY <1>3, <1>7

LEMMA RefusalInit == ListInit => RefusalInv
<1> SUFFICES ASSUME ListInit PROVE RefusalInv
  OBVIOUS
<1>1. Typed
  BY NothingRead DEF ListInit, Typed
<1>2. Apart(rows)
  <2>1. \A i \in DOMAIN rows : i \in Nat /\ rows[i] \in Nat
    <3>1. \A i \in DOMAIN rows : i \in Nat /\ rows[i] \in RowIds
      BY DEF ListInit
    <3> QED BY <3>1
  <2>2. NewestFirst(rows)
    BY DEF ListInit
  <2> QED BY <2>1, <2>2 DEF NewestFirst, Apart
<1>3. AnswersSound
  BY NothingRead DEF ListInit, AnswersSound
<1>4. OnlyTornAnswersAreRefused
  BY DEF ListInit, OnlyTornAnswersAreRefused
<1> QED BY <1>1, <1>2, <1>3, <1>4, NothingRead DEF ListInit, RefusalInv

-----------------------------------------------------------------------------
(* The actions.                                                            *)

\* How the parts of the invariant come together when the answers stay sound.
LEMMA RefusalCarried ==
  ASSUME RefusalInv, view' = view, Typed', Apart(rows'), AnswersSound',
         shown'.pages = <<>> => shown'.key = <<0, 0>>,
         refused' = refused \/ refused' \in {"no", "lost"}
  PROVE  RefusalInv'
BY DEF RefusalInv, OnlyTornAnswersAreRefused

LEMMA RefusalChange ==
  ASSUME RefusalInv, NEW new \in Seq(RowIds), Apart(new), NEW id, NEW comes \in BOOLEAN,
         EditList(new, id, comes)
  PROVE  RefusalInv'
<1>1. /\ view' = view /\ page' = page /\ typed' = typed /\ text' = text /\ rows' = new
      /\ refused' = refused
  BY DEF EditList
<1>2. /\ fetch \in Fetches /\ shown \in Showns /\ Typed
      /\ fetch.since \in Spans /\ shown.since \in Spans
  BY DEF RefusalInv, Typed, Fetches, Showns
<1>3. \A span \in Spans : Edited(span, id, comes) \in Spans
  <2>1. CASE comes = TRUE
    BY <2>1, EditedSpan
  <2>2. CASE comes = FALSE
    BY <2>2, EditedSpan
  <2> QED BY <2>1, <2>2
<1>4. shown' \in Showns /\ (shown'.pages = <<>> => shown'.key = <<0, 0>>)
  <2>1. CASE ~Shows /\ shown' = shown
    BY <1>2, <2>1 DEF RefusalInv
  <2>2. CASE Shows /\ shown' = [shown EXCEPT !.since = Edited(@, id, comes)]
    <3> DEFINE span == Edited(shown.since, id, comes)
    <3>1. span \in Spans
      BY <1>2, <1>3
    <3> HIDE DEF span
    <3>2. shown' = [shown EXCEPT !.since = span]
      BY <2>2 DEF span
    <3> QED BY <1>2, <2>2, <3>1, <3>2 DEF Showns, Shows
  <2> QED BY <2>1, <2>2 DEF EditList
<1>5. fetch' \in Fetches /\ AnswersSound'
  <2>1. CASE ~Reading /\ fetch' = fetch
    BY <1>1, <1>2, <2>1 DEF RefusalInv, AnswersSound, Reading
  <2>2. CASE Reading /\ fetch' = [fetch EXCEPT !.since = Edited(@, id, comes), !.edited = TRUE,
                                               !.torn = @ \/ fetch.phase = "counted"]
    <3> DEFINE span == Edited(fetch.since, id, comes)
    <3>1. span \in Spans
      BY <1>2, <1>3
    <3> HIDE DEF span
    <3>2. fetch' = [fetch EXCEPT !.since = span, !.edited = TRUE,
                                 !.torn = @ \/ fetch.phase = "counted"]
      BY <2>2 DEF span
    <3>3. /\ fetch' \in Fetches /\ fetch'.phase = fetch.phase /\ fetch'.got = fetch.got
          /\ fetch'.edited = TRUE /\ fetch'.torn = (fetch.torn \/ fetch.phase = "counted")
      BY <1>2, <3>1, <3>2 DEF Fetches
    <3>4. Takes(Latest(fetch.got))' <=> Takes(Latest(fetch.got))
      BY <1>1, <3>3 DEF Takes, PageRead, Latest
    <3>5. AnswersSound
      BY DEF RefusalInv
    <3> QED BY <1>1, <3>3, <3>4, <3>5 DEF AnswersSound
  <2>3. CASE fetch' = FetchAgain(ToSet(new))
    BY <1>1, <1>2, <2>3, FetchedAgain, AskedIsSound
  <2> QED BY <2>1, <2>2, <2>3 DEF EditList
<1>6. Typed'
  BY <1>1, <1>2, <1>4, <1>5 DEF Typed
<1> QED BY <1>1, <1>4, <1>5, <1>6, RefusalCarried

LEMMA RefusalEdits ==
  ASSUME RefusalInv, AddRow \/ RemoveRow
  PROVE  RefusalInv'
<1>1. rows \in Seq(RowIds) /\ Apart(rows)
  BY DEF RefusalInv, Typed
<1>2. CASE AddRow
  <2>1. PICK id \in RowIds \ ToSet(rows), at \in 1..(Len(rows) + 1) :
          EditList(InsertAt(rows, at, id), id, TRUE)
    BY <1>2 DEF AddRow
  <2>2. InsertAt(rows, at, id) \in Seq(RowIds) /\ Apart(InsertAt(rows, at, id))
    BY <1>1, AdditionKeepsApart
  <2> QED BY <2>1, <2>2, RefusalChange
<1>3. CASE RemoveRow
  <2>1. PICK at \in DOMAIN rows : EditList(RemoveAt(rows, at), rows[at], FALSE)
    BY <1>3 DEF RemoveRow
  <2>2. RemoveAt(rows, at) \in Seq(RowIds) /\ Apart(RemoveAt(rows, at))
    BY <1>1, RemovalKeepsApart
  <2> QED BY <2>1, <2>2, RefusalChange
<1> QED BY <1>2, <1>3

\* What is read anew, for the page and the text that the user is at or goes to.
LEMMA RefusalAsks ==
  ASSUME RefusalInv, Open \/ Reread \/ LoadMore
  PROVE  RefusalInv'
<1>1. /\ view' = view /\ page' = page /\ typed' = typed /\ text' = text /\ rows' = rows
      /\ shown' = shown /\ refused' = "no"
  BY DEF Open, Reread, LoadMore
<1>2. Typed /\ rows \in Seq(RowIds)
  BY DEF RefusalInv, Typed
<1>3. /\ fetch' \in Fetches /\ fetch'.phase = "asked" /\ fetch'.torn = FALSE
      /\ view.mode # "steady" \/ (fetch'.got = <<>> /\ fetch'.all = <<>>)
  <2>1. CASE Open \/ Reread
    BY <1>2, <2>1, FetchedAgain DEF Open, Reread
  <2>2. CASE LoadMore
    <3>1. /\ shown.key \in Keys /\ shown.pages \in Seq(PageAnswers)
          /\ shown.all \in Seq(RowIds) /\ shown.since \in Spans
      BY <1>2 DEF Typed, Showns
    <3>2. Len(shown.pages) + 1 \in Nat
      BY <3>1
    <3>3. /\ fetch' = FetchOf(shown.key, shown.pages, shown.all, Len(shown.pages) + 1,
                              shown.since)
          /\ view.mode = "grown"
      BY <2>2 DEF LoadMore
    <3> QED BY <3>1, <3>2, <3>3 DEF FetchOf, NoFetch, Fetches
  <2> QED BY <2>1, <2>2
<1>4. AnswersSound'
  BY <1>1, <1>2, <1>3, AskedIsSound
<1>5. Typed'
  BY <1>1, <1>2, <1>3 DEF Typed
<1> QED BY <1>1, <1>4, <1>5, RefusalCarried DEF RefusalInv

LEMMA RefusalGoesTo ==
  ASSUME RefusalInv, NEW t \in {0, 1}, NEW p \in Nat \ {0}, GoTo(t, p), typed' = typed
  PROVE  RefusalInv'
<1>1. /\ view' = view /\ page' = p /\ text' = t /\ rows' = rows /\ shown' = shown
      /\ refused' = "no"
      /\ fetch' = FetchOf(Key(t, p), <<>>, <<>>, 1, Fresh(ToSet(rows)))
  BY DEF GoTo
<1>2. Typed /\ rows \in Seq(RowIds)
  BY DEF RefusalInv, Typed
<1> DEFINE key == Key(t, p)
           span == Fresh(ToSet(rows))
           got == <<>>
           all == <<>>
<1>3. key \in Keys /\ span \in Spans /\ got \in Seq(PageAnswers) /\ all \in Seq(RowIds)
  BY <1>2, KeyTyped, Spanned
<1>4. fetch' = FetchOf(key, got, all, 1, span) /\ got = <<>> /\ all = <<>>
  BY <1>1
<1> HIDE DEF key, span, got, all
<1>5. /\ fetch' \in Fetches /\ fetch'.phase = "asked" /\ fetch'.torn = FALSE
      /\ fetch'.got = <<>> /\ fetch'.all = <<>>
  BY <1>3, <1>4 DEF FetchOf, NoFetch, Fetches
<1>6. AnswersSound'
  BY <1>1, <1>2, <1>5, AskedIsSound
<1>7. Typed'
  BY <1>1, <1>2, <1>5 DEF Typed
<1> QED BY <1>1, <1>6, <1>7, RefusalCarried DEF RefusalInv

LEMMA TotalOfShown ==
  ASSUME Typed, shown.pages # <<>>
  PROVE  LastPage(Latest(shown.pages).total) \in Nat \ {0}
<1>1. shown.pages \in Seq(PageAnswers)
  BY DEF Typed, Showns
<1>2. Len(shown.pages) \in 1..Len(shown.pages)
  BY <1>1, EmptySeq
<1>3. shown.pages[Len(shown.pages)] \in PageAnswers
  BY <1>1, <1>2
<1> QED BY <1>3, LastPageCounts DEF Latest, PageAnswers

LEMMA RefusalTurns ==
  ASSUME RefusalInv, Turn \/ Debounce \/ SettlePage
  PROVE  RefusalInv'
<1>1. Typed /\ text \in {0, 1} /\ typed \in {0, 1} /\ page \in Nat \ {0}
  BY DEF RefusalInv, Typed
<1>2. CASE Turn
  <2>1. PICK p \in 1..LastPage(Latest(shown.pages).total) : GoTo(text, p) /\ typed' = typed
    BY <1>2 DEF Turn
  <2>2. p \in Nat \ {0}
    BY <1>1, <1>2, TotalOfShown DEF Turn, Shows
  <2> QED BY <1>1, <2>1, <2>2, RefusalGoesTo
<1>3. CASE Debounce
  BY <1>1, <1>3, RefusalGoesTo DEF Debounce
<1>4. CASE SettlePage
  <2>1. shown.key = Key(text, page) /\ view.settles
    BY <1>4 DEF SettlePage, OnItsAnswer
  <2>2. view.mode = "paged"
    BY <1>1, <2>1, ViewsCheck DEF Typed, Checks
  <2>3. shown.pages # <<>>
    BY <1>1, <2>1, <2>2 DEF Key, RefusalInv
  <2>4. GoTo(text, LastPage(Latest(shown.pages).total)) /\ typed' = typed
    BY <1>4 DEF SettlePage
  <2> QED BY <1>1, <2>3, <2>4, TotalOfShown, RefusalGoesTo
<1> QED BY <1>2, <1>3, <1>4

\* What leaves the answers as they are, or takes them away.
LEMMA RefusalRests ==
  ASSUME RefusalInv, Type \/ Block \/ LoseRead
  PROVE  RefusalInv'
<1>1. Typed /\ rows \in Seq(RowIds) /\ Apart(rows) /\ AnswersSound
  BY DEF RefusalInv, Typed
<1>2. /\ view' = view /\ rows' = rows
      /\ page' = page \/ page' = 1
      /\ text' = text \/ text' = 0
      /\ typed' \in {typed, 1 - typed, 0}
      /\ shown' = shown \/ shown' = NothingShown
      /\ refused' = refused \/ refused' \in {"no", "lost"}
      /\ (fetch' = fetch /\ page' = page /\ text' = text) \/ fetch' = NoFetch
  <2>1. CASE Type
    BY <2>1 DEF Type
  <2>2. CASE Block
    BY <2>2 DEF Block, Close
  <2>3. CASE LoseRead
    BY <2>3 DEF LoseRead
  <2> QED BY <2>1, <2>2, <2>3
<1>3. Typed'
  BY <1>1, <1>2, NothingRead DEF Typed
<1>4. AnswersSound'
  <2>1. CASE fetch' = NoFetch
    BY <1>1, <1>2, <2>1, NothingRead, AskedIsSound
  <2>2. CASE fetch' = fetch /\ page' = page /\ text' = text
    <3>1. Takes(Latest(fetch.got))' <=> Takes(Latest(fetch.got))
      BY <1>2, <2>2 DEF Takes, PageRead, Latest
    <3>2. Matching' = Matching
      BY <1>2, <2>2 DEF Matching
    <3> QED BY <1>1, <1>2, <2>2, <3>1, <3>2 DEF AnswersSound
  <2> QED BY <1>2, <2>1, <2>2
<1>5. shown'.pages = <<>> => shown'.key = <<0, 0>>
  BY <1>2, NothingRead DEF RefusalInv
<1> QED BY <1>1, <1>2, <1>3, <1>4, <1>5, RefusalCarried

LEMMA RefusalCount ==
  ASSUME RefusalInv, Count
  PROVE  RefusalInv'
<1>1. /\ view' = view /\ page' = page /\ typed' = typed /\ text' = text /\ rows' = rows
      /\ shown' = shown /\ refused' = refused /\ ~view.answer.whole
      /\ fetch' = [fetch EXCEPT !.phase = "counted", !.total = Len(Matching)]
  BY DEF Count
<1>2. Typed /\ Apart(rows) /\ rows \in Seq(RowIds)
  BY DEF RefusalInv, Typed
<1>3. Len(Matching) \in Nat
  BY <1>2, MatchingRows
<1> DEFINE total == Len(Matching)
<1>4. total = Len(Matching)
  OBVIOUS
<1> HIDE DEF total
<1>5. fetch' \in Fetches /\ fetch'.phase = "counted" /\ fetch'.total = total
  BY <1>1, <1>2, <1>3, <1>4 DEF Typed, Fetches
<1>6. Matching' = Matching
  BY <1>1 DEF Matching
<1>7. view.mode # "steady"
  BY <1>1, <1>2, ViewsFit DEF Typed, Fits
<1>8. AnswersSound'
  BY <1>1, <1>4, <1>5, <1>6, <1>7 DEF AnswersSound
<1>9. Typed'
  BY <1>1, <1>2, <1>5 DEF Typed
<1> QED BY <1>1, <1>2, <1>8, <1>9, RefusalCarried DEF RefusalInv

\* The page that is asked for of a list that is read by offset.
PageAsked == IF view.mode = "paged" THEN page ELSE Len(fetch.got) + 1

LEMMA PageTaken ==
  ASSUME RefusalInv, ListInv, Read
  PROVE  \E a \in PageAnswers :
           /\ fetch' = [fetch EXCEPT !.phase = "read", !.got = Append(@, a), !.all = @ \o a.items]
           /\ a.total = IF view.answer.whole THEN Len(Matching) ELSE fetch.total
           /\ ~view.answer.cursor => a.items = PageAt(PageAsked - 1, Matching)
<1>1. /\ Typed /\ Matching \in Seq(RowIds) /\ fetch.total \in Nat
      /\ fetch.got \in Seq(PageAnswers) /\ fetch.all \in Seq(RowIds)
      /\ page \in Nat \ {0} /\ Checks(view) /\ Fits(view)
  BY MatchingRows, ViewsCheck, ViewsFit DEF RefusalInv, Typed, Fetches
<1>2. CASE view.answer.cursor
  <2>1. Sound
    BY <1>1, <1>2 DEF Sound, Checks
  <2>2. Matching = rows
    BY <2>1 DEF Sound, ListInv, Matching
  <2> QED BY <1>2, <2>1, <2>2, PageIsRead
<1>3. CASE ~view.answer.cursor
  <2> DEFINE total == IF view.answer.whole THEN Len(Matching) ELSE fetch.total
             more == (Len(fetch.got) + 1) * PageSize < total
             a == [total |-> total, items |-> ReadRows, more |-> more]
  <2>1. Wanted = Skipping(PageAsked - 1, Matching)
    <3>1. Len(fetch.got) \in Nat /\ Len(fetch.got) + 1 - 1 = Len(fetch.got)
      BY <1>1
    <3> QED BY <1>3, <3>1 DEF Wanted, After, PageAsked
  <2>2. PageAsked - 1 \in Nat
    <3>1. Len(fetch.got) \in Nat
      BY <1>1
    <3> QED BY <1>1, <3>1 DEF PageAsked
  <2>3. ReadRows = PageAt(PageAsked - 1, Matching) /\ ReadRows \in Seq(RowIds)
    <3>1. Skipping(PageAsked - 1, Matching) \in Seq(RowIds)
      BY <1>1, <2>2, Skipped
    <3> QED BY <2>1, <3>1, FirstPages DEF ReadRows, PageAt
  <2>4. total \in Nat /\ more \in BOOLEAN
    BY <1>1
  <2>5. fetch' = [fetch EXCEPT !.phase = "read", !.got = Append(@, a), !.all = @ \o ReadRows]
    BY <1>3 DEF Read, AnswerOf
  <2>6. total = IF view.answer.whole THEN Len(Matching) ELSE fetch.total
    OBVIOUS
  <2> HIDE DEF total, more
  <2>7. a \in PageAnswers /\ a.items = ReadRows /\ a.total = total
    BY <2>3, <2>4 DEF PageAnswers
  <2> HIDE DEF a
  <2> QED BY <2>3, <2>5, <2>6, <2>7
<1> QED BY <1>2, <1>3

LEMMA RefusalRead ==
  ASSUME RefusalInv, ListInv, Read
  PROVE  RefusalInv'
<1>1. /\ view' = view /\ page' = page /\ typed' = typed /\ text' = text /\ rows' = rows
      /\ shown' = shown /\ refused' = refused
      /\ fetch.phase = IF view.answer.whole THEN "asked" ELSE "counted"
  BY DEF Read
<1>2. /\ Typed /\ Matching \in Seq(RowIds) /\ fetch \in Fetches /\ rows \in Seq(RowIds)
      /\ fetch.got \in Seq(PageAnswers) /\ fetch.all \in Seq(RowIds)
      /\ page \in Nat \ {0} /\ Checks(view) /\ Fits(view) /\ AnswersSound /\ Apart(rows)
  BY MatchingRows, ViewsCheck, ViewsFit DEF RefusalInv, Typed, Fetches
<1>3. PICK a \in PageAnswers :
        /\ fetch' = [fetch EXCEPT !.phase = "read", !.got = Append(@, a), !.all = @ \o a.items]
        /\ a.total = IF view.answer.whole THEN Len(Matching) ELSE fetch.total
        /\ ~view.answer.cursor => a.items = PageAt(PageAsked - 1, Matching)
  BY PageTaken
<1>4. /\ Append(fetch.got, a) \in Seq(PageAnswers) /\ Append(fetch.got, a) # <<>>
      /\ Len(Append(fetch.got, a)) = Len(fetch.got) + 1 /\ Latest(Append(fetch.got, a)) = a
      /\ a.items \in Seq(RowIds) /\ fetch.all \o a.items \in Seq(RowIds)
  <2>1. a.items \in Seq(RowIds)
    BY DEF PageAnswers
  <2> QED BY <1>2, <2>1, Appended, JoinedRows
<1>5. /\ fetch' \in Fetches /\ fetch'.phase = "read" /\ fetch'.got = Append(fetch.got, a)
      /\ fetch'.all = fetch.all \o a.items /\ fetch'.torn = fetch.torn
      /\ fetch'.edited = fetch.edited
  BY <1>2, <1>3, <1>4 DEF Fetches
<1>6. ASSUME ~fetch.torn PROVE Takes(Latest(fetch.got))'
  <2>1. Latest(fetch'.got) = a
    BY <1>4, <1>5
  <2>2. CASE view.answer.cursor
    BY <1>1, <1>2, <2>2 DEF Takes, Checks
  <2>3. CASE ~view.answer.cursor
    <3>1. a.total = Len(Matching)
      BY <1>1, <1>2, <1>3, <1>6 DEF AnswersSound
    <3>2. PageAsked \in Nat \ {0} /\ PageRead' = PageAsked
      <4>1. Len(fetch.got) \in Nat
        BY <1>2
      <4> QED BY <1>1, <1>2, <1>4, <1>5, <4>1 DEF PageAsked, PageRead
    <3>3. /\ Len(a.items) = LeftFor(a.total, PageAsked)
          /\ Len(a.items) <= PageSize /\ Len(a.items) <= a.total
      BY <1>2, <1>3, <2>3, <3>1, <3>2, PageIsFull
    <3>4. Len(a.items) <= LeftFor(a.total, PageAsked)
      <4>1. Len(a.items) \in Nat
        BY <1>4
      <4> QED BY <3>3, <4>1
    <3> QED BY <1>1, <2>1, <3>2, <3>3, <3>4 DEF Takes
  <2> QED BY <2>2, <2>3
<1>7. ASSUME view.mode = "steady", ~fetch.edited PROVE Undisturbed(rows, fetch)'
  <2>1. Undisturbed(rows, fetch)
    BY <1>1, <1>2, <1>7 DEF AnswersSound
  <2>2. Matching = rows /\ view.answer.whole /\ ~view.answer.cursor
    BY <1>2, <1>7 DEF ListInv, Matching, Fits
  <2>3. Len(fetch.got) \in Nat
    BY <1>2
  <2>4. a.total = Len(rows) /\ a.items = PageAt(Len(fetch.got), rows)
    <3>1. PageAsked - 1 = Len(fetch.got)
      BY <1>7, <2>3 DEF PageAsked
    <3> QED BY <1>3, <2>2, <3>1
  <2>5. fetch.all \o a.items = Prefix(Offset(Len(fetch.got) + 1), rows)
    BY <1>2, <2>1, <2>3, <2>4, PrefixGrows DEF Undisturbed, Held
  <2>6. Held(rows, fetch'.got, fetch'.all)
    BY <1>4, <1>5, <2>5 DEF Held
  <2>7. \A i \in DOMAIN Append(fetch.got, a) : Append(fetch.got, a)[i].total = Len(rows)
    <3>1. /\ DOMAIN Append(fetch.got, a) = 1..(Len(fetch.got) + 1)
          /\ Append(fetch.got, a)[Len(fetch.got) + 1] = a
          /\ \A i \in 1..Len(fetch.got) :
               i \in DOMAIN fetch.got /\ Append(fetch.got, a)[i] = fetch.got[i]
      BY <1>2
    <3>2. \A i \in DOMAIN fetch.got : fetch.got[i].total = Len(rows)
      BY <2>1 DEF Undisturbed
    <3>3. \A i \in 1..(Len(fetch.got) + 1) : i = Len(fetch.got) + 1 \/ i \in 1..Len(fetch.got)
      BY <2>3
    <3> QED BY <2>4, <3>1, <3>2, <3>3
  <2> QED BY <1>1, <1>5, <2>6, <2>7 DEF Undisturbed
<1>8. AnswersSound'
  <2>1. fetch'.torn => ~view.answer.whole
    BY <1>2, <1>5 DEF AnswersSound
  <2>2. fetch'.got # <<>> /\ fetch'.phase = "read"
    BY <1>4, <1>5
  <2>3. fetch'.torn \/ Takes(Latest(fetch.got))'
    BY <1>5, <1>6
  <2>4. view.mode = "steady" /\ ~fetch'.edited => Undisturbed(rows, fetch)'
    BY <1>5, <1>7
  <2> QED BY <1>1, <2>1, <2>2, <2>3, <2>4 DEF AnswersSound
<1>9. Typed'
  BY <1>1, <1>2, <1>5 DEF Typed
<1> QED BY <1>1, <1>2, <1>8, <1>9, RefusalCarried DEF RefusalInv

LEMMA RefusalArrive ==
  ASSUME RefusalInv, Arrive
  PROVE  RefusalInv'
<1>1. /\ view' = view /\ page' = page /\ typed' = typed /\ text' = text /\ rows' = rows
      /\ fetch.phase = "read"
  BY DEF Arrive
<1>2. /\ Typed /\ fetch \in Fetches /\ shown \in Showns /\ rows \in Seq(RowIds) /\ Apart(rows)
      /\ AnswersSound /\ Checks(view) /\ fetch.got # <<>>
      /\ fetch.torn \/ Takes(Latest(fetch.got))
  BY <1>1, ViewsCheck DEF RefusalInv, Typed, AnswersSound
<1>3. CASE /\ ~Takes(Latest(fetch.got)) \/ (view.mode = "steady" /\ ~Steady(fetch.got, fetch.all))
           /\ RefuseAnswer
  <2>1. /\ fetch' = NoFetch /\ (shown' = shown \/ shown' = NothingShown)
        /\ refused' = IF fetch.torn THEN "torn"
                      ELSE IF view.mode = "steady" /\ fetch.edited THEN "moved" ELSE "whole"
    BY <1>3 DEF RefuseAnswer
  <2>2. AnswersSound' /\ Typed'
    BY <1>1, <1>2, <2>1, NothingRead, AskedIsSound DEF Typed
  <2>3. CASE fetch.torn
    <3>1. ~view.answer.whole
      BY <1>2, <2>3 DEF AnswersSound
    <3>2. view.answer.check = "any" => Takes(Latest(fetch.got))
      BY DEF Takes
    <3>3. view = RemindersView
      BY <1>2, <1>3, <3>1, <3>2 DEF Checks
    <3>4. OnlyTornAnswersAreRefused'
      BY <1>1, <2>1, <2>3, <3>3 DEF OnlyTornAnswersAreRefused
    <3> QED BY <1>1, <1>2, <2>1, <2>2, <3>4, NothingRead DEF RefusalInv
  <2>4. CASE ~fetch.torn
    <3>1. view.mode = "steady" /\ ~Steady(fetch.got, fetch.all)
      BY <1>2, <1>3, <2>4
    <3>2. fetch.edited
      <4>1. SUFFICES ASSUME ~fetch.edited PROVE FALSE
        OBVIOUS
      <4>2. Undisturbed(rows, fetch)
        BY <1>1, <1>2, <3>1, <4>1 DEF AnswersSound
      <4> QED BY <1>2, <3>1, <4>2, UndisturbedIsSteady
    <3>3. OnlyTornAnswersAreRefused'
      BY <1>1, <1>2, <2>1, <2>4, <3>1, <3>2 DEF OnlyTornAnswersAreRefused, Checks
    <3> QED BY <1>1, <1>2, <2>1, <2>2, <3>3, NothingRead DEF RefusalInv
  <2> QED BY <2>3, <2>4
<1>4. CASE fetch' = [fetch EXCEPT !.phase = "asked"] /\ shown' = shown /\ refused' = refused
  <2>1. /\ fetch' \in Fetches /\ fetch'.phase = "asked" /\ fetch'.torn = fetch.torn
        /\ fetch'.edited = fetch.edited /\ fetch'.got = fetch.got /\ fetch'.all = fetch.all
    BY <1>2, <1>4 DEF Fetches
  <2>2. Undisturbed(rows, fetch)' <=> Undisturbed(rows, fetch)
    BY <1>1, <2>1 DEF Undisturbed
  <2>3. AnswersSound'
    BY <1>1, <1>2, <2>1, <2>2 DEF AnswersSound
  <2>4. Typed'
    BY <1>1, <1>2, <1>4, <2>1 DEF Typed
  <2> QED BY <1>1, <1>2, <1>4, <2>3, <2>4, RefusalCarried DEF RefusalInv
<1>5. CASE /\ shown' = [key |-> fetch.key, pages |-> fetch.got, all |-> fetch.all,
                        since |-> fetch.since]
           /\ fetch' = NoFetch /\ refused' = "no"
  <2>1. /\ fetch.key \in Keys /\ fetch.got \in Seq(PageAnswers) /\ fetch.all \in Seq(RowIds)
        /\ fetch.since \in Spans
    BY <1>2 DEF Fetches
  <2>2. shown' \in Showns /\ shown'.pages # <<>>
    BY <1>2, <1>5, <2>1 DEF Showns
  <2>3. AnswersSound' /\ Typed'
    BY <1>1, <1>2, <1>5, <2>2, NothingRead, AskedIsSound DEF Typed
  <2> QED BY <1>1, <1>2, <1>5, <2>2, <2>3, RefusalCarried
<1> QED BY <1>3, <1>4, <1>5 DEF Arrive

LEMMA RefusalStep == RefusalInv /\ ListInv /\ [ListNext]_listVars => RefusalInv'
<1> SUFFICES ASSUME RefusalInv, ListInv, [ListNext]_listVars PROVE RefusalInv'
  OBVIOUS
<1>1. CASE UNCHANGED listVars
  <2>1. /\ view' = view /\ page' = page /\ typed' = typed /\ text' = text /\ rows' = rows
        /\ shown' = shown /\ fetch' = fetch /\ refused' = refused
    BY <1>1 DEF listVars
  <2>2. Takes(Latest(fetch.got))' <=> Takes(Latest(fetch.got))
    BY <2>1 DEF Takes, PageRead, Latest
  <2>3. Matching' = Matching
    BY <2>1 DEF Matching
  <2>4. AnswersSound' /\ Typed' /\ Apart(rows')
    BY <2>1, <2>2, <2>3 DEF RefusalInv, AnswersSound, Typed
  <2> QED BY <2>1, <2>4, RefusalCarried DEF RefusalInv
<1>2. CASE ListNext
  BY <1>2, RefusalEdits, RefusalAsks, RefusalTurns, RefusalRests, RefusalCount, RefusalRead,
     RefusalArrive DEF ListNext
<1> QED BY <1>1, <1>2

\* The web client refuses no answer that the service gave for one state of a list:
\* what it refuses is a page of the reminders that were counted and read apart, or
\* a walk of all tasks or actors whose list changed between two pages (the page
\* checks of src/apps/web/src/api and pagination of the service's handlers).
THEOREM OnlyTornAnswers == ListSpec => []OnlyTornAnswersAreRefused
<1>1. RefusalInv => OnlyTornAnswersAreRefused
  BY DEF RefusalInv
<1>2. ListSpec => []ListInv
  BY ReadPagesAreKnown
<1>3. ListInit => RefusalInv
  BY RefusalInit
<1>4. RefusalInv /\ ListInv /\ [ListNext]_listVars => RefusalInv'
  BY RefusalStep
<1> QED BY <1>1, <1>2, <1>3, <1>4, PTL DEF ListSpec
=============================================================================
