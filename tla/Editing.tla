------------------------------ MODULE Editing ------------------------------
(* One form of the web client over one record: it is opened on the page's     *)
(* copy, typed into, sent, refused or answered or left without an answer, and  *)
(* sent again, while the record is changed by others and the copy is read      *)
(* again at any time. The attempt that keeps the idempotency key, and the      *)
(* service that knows keys and versions, are part of it.                       *)
EXTENDS WebCommands, Naturals

(* The forms, buttons and drags of the web client that send the commands of   *)
(* WebCommands: which version each one sends, what a newer read of the record *)
(* does to what is typed, and what it does when the record has moved.         *)

\* adds: the command makes a new record each time it is carried out.
\* sends: the version read when the form was opened, the page's newest one at the
\* moment of sending ("live"), the opened one raised to each newer read, or raised
\* to what the commands of other parts of the same dialog make ("beside").
\* draft: what is typed is kept whatever is read, replaced by each newer read,
\* replaced only while untouched ("clean"), or there is nothing to type ("none").
\* conflict, without a read of the form's own: it stays as it is, waits for its hook
\* to read again, has its page read again, or closes. With one, the form
\*   "rebase"   takes the version read, and is free again when the read fails;
\*   "await"    the same, and after a failed read takes the next one of the page;
\*   "reload"   the same, and is blocked after a failed read until one is asked for;
\*   "blocked"  is blocked until a read is asked for and succeeds;
\*   "restart"  starts over from what is read, after any failure, not only a conflict;
\*   "choose"   is blocked until the user keeps the draft or takes the latest;
\*   "confirm"  is blocked until the user keeps what is typed;
\*   "once"     the same, and cannot ask again after a failed read.
Form(command, sends, draft, conflict) ==
  [command |-> command, adds |-> FALSE, sends |-> sends, draft |-> draft, conflict |-> conflict]
Adding(form) == [form EXCEPT !.adds = TRUE]
CreateForm(command) == Adding(Form(command, "opened", "kept", "stay"))
\* A button or a drag over the record as the page shows it.
Button(command, conflict) == Form(command, "live", "none", conflict)

----------------------------------------------------------------------------
\* Clients and projects.
ClientForm == Form(UpdateClient, "opened", "kept", "rebase")
ClientStatusButton == Button(UpdateClient, "close")
ClientDeleteButton == Button(DeleteClient, "close")
ClientActivityForm == Form(ClientActivityCommand, "opened", "kept", "stay")
ClientFollowupForm == Form(FollowupCommand, "opened", "kept", "stay")
ClientActorLinkForm == Form(ClientActorLinkCommand, "live", "kept", "hook")
ClientActorUnlinkForm == Form(ClientActorLinkCommand, "live", "kept", "hook")
ClientAttachmentForm == Adding(Form(ClientAttachmentCommand, "live", "kept", "hook"))
ClientAttachmentDelete == Form(ClientAttachmentCommand, "live", "kept", "hook")
ProjectForm == Form(UpdateProject, "live", "replaced", "reread")
ProjectTransitionButton == Button(TransitionProject(TRUE), "reread")
ProjectDeleteButton == Button(DeleteProject, "reread")
ProjectNoteForm == Form(ProjectNoteCommand, "opened", "kept", "stay")
ProjectAttachmentForm == Adding(Form(ProjectAttachmentCommand, "live", "kept", "hook"))
ProjectAttachmentDelete == Form(ProjectAttachmentCommand, "live", "kept", "hook")

----------------------------------------------------------------------------
\* Tasks.
TaskDetailForm == Form(UpdateTask, "beside", "clean", "choose")
TaskDetailDelete == Form(DeleteTask, "beside", "clean", "choose")
TaskLifecycleForm == Form(TaskLifecycleCommand, "opened", "kept", "confirm")
TaskAssignmentForm == Form(AssignmentCommand, "opened", "kept", "once")
TaskSubmissionForm == Form(SubmitTaskOutput, "raised", "kept", "confirm")
TaskReviewForm == Form(ReviewTaskSubmission, "raised", "kept", "confirm")
TaskArtifactDelete == Form(DeleteTaskArtifact, "raised", "kept", "confirm")
TaskBoardTransition == Form(TaskLifecycleCommand, "opened", "kept", "close")
TaskDeleteConfirm == Form(DeleteTask, "opened", "none", "stay")
TaskPlanForm == Form(UpdateTask, "opened", "kept", "stay")
TaskSavedViewButton == Button(TaskSavedViewCommand, "hook")
TagRowForm == Form(TagCommand, "live", "replaced", "hook")

----------------------------------------------------------------------------
\* Inbox and reminders.
InboxItemForm == Form(UpdateInboxItem(FALSE), "opened", "kept", "await")
InboxItemCommandButton == Form(InboxItemCommand(FALSE), "live", "kept", "reread")
InboxLinkForm == Form(InboxTaskCommand(FALSE), "opened", "kept", "reload")
InboxUnlinkForm == Form(InboxTaskCommand(FALSE), "opened", "kept", "reload")
InboxForceResolve == Form(InboxTaskCommand(FALSE), "live", "kept", "reread")
InboxSplitForm == Adding(Form(SplitInboxItem(FALSE), "live", "kept", "hook"))
ReminderForm == Form(UpdateReminder, "live", "kept", "hook")
ReminderCancel == Form(CancelReminder, "live", "kept", "hook")

----------------------------------------------------------------------------
\* Finance, content, roadmap.
InvoiceForm == Form(UpdateInvoice, "live", "replaced", "close")
InvoiceListForm == Form(UpdateInvoice, "opened", "kept", "stay")
InvoiceActionForm == Form(TransitionInvoice(FALSE), "live", "kept", "close")
InvoicePdfButton == Button(GenerateInvoicePdf, "reread")
FinancialEntryForm == Form(FinancialEntryCommand, "live", "replaced", "hook")
IncomeEntryForm == Form(FinancialEntryCommand, "opened", "kept", "stay")
IncomeVoidForm == Form(FinancialEntryCommand, "opened", "kept", "stay")
ContentItemForm == Form(ContentItemMutation, "live", "replaced", "hook")
ContentCalendarDrag == Button(ContentItemMutation, "hook")
RoadmapEditForm == Form(RoadmapMilestoneCommand, "opened", "kept", "stay")
RoadmapDeleteConfirm == Form(RoadmapMilestoneCommand, "opened", "none", "stay")
RoadmapArchiveButton == Button(RoadmapMilestoneCommand, "hook")
RoadmapMove == Button(RoadmapMilestoneCommand, "hook")
RoadmapReorder == Form(ReorderRoadmapMilestones, "opened", "kept", "restart")

----------------------------------------------------------------------------
\* Settings.
SettingsForm == Form(UpdateSettings, "live", "kept", "hook")
ActorForm == Form(UpdateActor, "opened", "kept", "blocked")
AutomationRuleForm == Form(AutomationRuleCommand, "live", "replaced", "hook")
BackupPolicyForm == Form(UpdateBackupPolicy, "opened", "clean", "stay")
AgentAdapterButton == Button(SetAgentAdapterEnabled, "hook")
AiProviderCard == Form(AiProviderCommand, "live", "kept", "hook")
AiProviderDelete == Button(DeleteAiProvider, "stay")

----------------------------------------------------------------------------
\* Forms that make a record.
ClientCreateForm == CreateForm(CreateClient)
ProjectCreateForm == CreateForm(CreateProject)
NewTaskForm == CreateForm(CreateTask)
InboxCreateForm == CreateForm(CreateInboxItem(FALSE))
ReminderCreateForm == CreateForm(CreateReminder)
RoadmapCreateForm == CreateForm(CreateRoadmapMilestone)
ContentCreateForm == CreateForm(CreateContentItem)
TagCreateForm == CreateForm(CreateTag)
AiProviderForm == CreateForm(CreateAiProvider)

----------------------------------------------------------------------------
CONSTANTS Surfaces,      \* the forms
          MaxVersion,    \* of the record: no one writes beyond it
          MaxKeys        \* idempotency keys made
ASSUME EditingAssumption == MaxVersion \in Nat /\ MaxKeys \in Nat

VARIABLES form,      \* the form this is about
          server,    \* the version of the record
          gone,      \* the record has been deleted elsewhere
          copy,      \* the version the page shows, and whether it will be read again
          page,      \* the open form
          attempt,   \* the last key its hook made, and for what
          request,   \* the command in flight
          served     \* what the service has carried out by key, and how often this input
record == <<form, server, gone>>
sending == <<attempt, request>>
vars == <<record, copy, page, sending, served>>

Inputs == 1..2
Untouched == 0
None == MaxVersion + 1
NoAttempt == [key |-> 0, input |-> Untouched, version |-> None, made |-> 0]
NoRequest == [phase |-> "none", key |-> 0, input |-> Untouched, version |-> None, error |-> "none"]
\* base: the version the form would send; seen: the one whose facts it shows, or that
\* it announced; raised: base is another section's, made over facts not seen; refused:
\* the version last refused; ask, latest: the read of the form's own, and what it read.
Closed ==
  [open |-> FALSE, typed |-> Untouched, base |-> None, seen |-> None, raised |-> FALSE,
   refused |-> None, ask |-> "none", latest |-> None]
Opened(v) == [Closed EXCEPT !.open = TRUE, !.base = v, !.seen = v]

\* What a form's hook does is what WebCommands says of its command: whether a
\* conflict has it read the record again.
HookReads(c) == Effect(c.failed["conflict"], c.own) \in {"refetch", "renew"}
Traits(f) ==
  [key |-> f.command.key, versioned |-> f.command.versioned, hookReads |-> HookReads(f.command),
   adds |-> f.adds, sends |-> f.sends, draft |-> f.draft, conflict |-> f.conflict]
Forms == {Traits(f) : f \in Surfaces}

Choosing == {"choose", "confirm", "once"}
Rebasing == {"rebase", "await", "reload", "blocked"}
ReadsItself == Choosing \cup Rebasing \cup {"restart"}

\* What the tables of commands and forms say of every form: the traits it may have;
\* one that sends the page's newest version reads nothing of its own and never has
\* a draft that only sometimes follows; one that makes a record has its text typed,
\* sends no version and reads nothing of its own.
FormTraits ==
  [key : {"none", "per_input", "per_mount"}, versioned : BOOLEAN, hookReads : BOOLEAN,
   adds : BOOLEAN, sends : {"opened", "live", "raised", "beside"},
   draft : {"kept", "replaced", "clean", "none"},
   conflict : ReadsItself \cup {"stay", "hook", "reread", "close"}]
ASSUME FormsAssumption ==
  /\ Forms \subseteq FormTraits
  /\ \A f \in Forms :
       /\ f.sends = "live" => f.draft # "clean" /\ f.conflict \notin ReadsItself
       /\ f.adds /\ f.sends # "live" =>
            f.sends = "opened" /\ f.draft # "none" /\ ~f.versioned /\ f.conflict \notin ReadsItself

Init ==
  /\ form \in Forms
  /\ server = 0 /\ gone = FALSE /\ copy = [version |-> 0, owed |-> FALSE]
  /\ page = Closed
  /\ attempt = NoAttempt /\ request = NoRequest
  /\ served = [keys |-> {}, times |-> 0]

Idle == request.phase = "none"
Sends == IF form.sends = "live" THEN copy.version ELSE page.base

----------------------------------------------------------------------------
\* The page. A hook lives as long as its form, and its key with it.
Open ==
  /\ ~page.open /\ Idle
  /\ page' = Opened(copy.version)
  /\ attempt' = [NoAttempt EXCEPT !.made = attempt.made]
  /\ served' = [served EXCEPT !.times = 0]
  /\ UNCHANGED <<record, copy, request>>
Close ==
  /\ page.open /\ Idle
  /\ page' = Closed
  /\ UNCHANGED <<record, copy, sending, served>>
Type ==
  /\ page.open /\ Idle /\ form.draft # "none"
  /\ form.key # "none" => attempt.made < MaxKeys   \* bound: a key is left for it
  /\ \E i \in Inputs \ {page.typed} : page' = [page EXCEPT !.typed = i]
  /\ served' = [served EXCEPT !.times = 0]
  /\ UNCHANGED <<record, copy, sending>>

\* Mutant: the version follows a newer read and the form does not.
Rehydrated_VersionOnly(p, v) == [p EXCEPT !.base = v]
\* What a newer read of the record does to an open form.
Rehydrated(p, v) == [p EXCEPT !.typed = Untouched, !.base = v, !.seen = v, !.raised = FALSE]
\* The form's next save will be over version v, and the user has been told.
Rebased(p, v) == [p EXCEPT !.base = v, !.seen = v, !.raised = FALSE]
\* An untouched form takes a newer read, unless the read differs from what it shows:
\* it cannot tell that from something typed.
Follows(p, v) ==
  IF ~p.open \/ v = copy.version THEN {p}
  ELSE CASE form.draft = "replaced" -> {Rehydrated(p, v)}
         [] form.draft = "clean" /\ p.typed = Untouched /\ p.ask = "none" -> {p, Rehydrated(p, v)}
         [] form.draft = "none" /\ form.sends = "live" -> {[p EXCEPT !.seen = v]}
         [] form.draft = "kept" /\ form.sends = "raised" /\ p.ask = "none" /\ Idle ->
              {[p EXCEPT !.base = v]}
         [] form.draft = "kept" /\ form.conflict = "await" /\ p.ask # "none" ->
              {[Rebased(p, v) EXCEPT !.ask = IF @ = "unread" THEN "none" ELSE @]}
         [] OTHER -> {p}
ReadsAgain ==
  /\ ~gone
  /\ copy' = [version |-> server, owed |-> FALSE]
  /\ page' \in Follows(page, server)
  /\ UNCHANGED <<record, sending, served>>
BackgroundRead == copy.version < server /\ ReadsAgain
OwedRead == copy.owed /\ ReadsAgain
OwedReadFails ==
  /\ copy.owed
  /\ copy' = [copy EXCEPT !.owed = FALSE]
  /\ UNCHANGED <<record, page, sending, served>>

\* Others.
ForeignWrite ==
  /\ ~gone /\ server < MaxVersion
  /\ server' = server + 1
  /\ UNCHANGED <<form, gone, copy, page, sending, served>>
ForeignDelete ==
  /\ ~gone /\ form.versioned
  /\ gone' = TRUE
  /\ UNCHANGED <<form, server, copy, page, sending, served>>

\* A command of another section of the same dialog, over the version the page shows:
\* its answer is the page's newest read, and raises the version of the form whatever
\* has been typed, and whatever the form has not taken of what was read since.
Raised(p, v) ==
  [p EXCEPT !.base = v, !.seen = IF @ = v - 1 THEN v ELSE @, !.raised = @ \/ p.seen < v - 1]
SiblingCommand ==
  /\ form.sends = "beside" /\ page.open /\ Idle /\ page.ask = "none"
  /\ ~gone /\ copy.version = server /\ server < MaxVersion
  /\ server' = server + 1
  /\ copy' = [copy EXCEPT !.version = server + 1]
  /\ page' \in {Raised(p, server + 1) : p \in Follows(page, server + 1)}
  /\ UNCHANGED <<form, gone, sending, served>>

----------------------------------------------------------------------------
\* Sending.
\* Mutant: a retry is a new attempt.
Same_Never == FALSE
Same == attempt.key # 0 /\ attempt.input = page.typed /\ attempt.version = Sends
Reuses ==
  \/ form.key = "per_input" /\ Same
  \/ form.key = "per_mount" /\ attempt.key # 0
Attempt ==
  CASE form.key = "none" -> attempt
    [] Reuses -> attempt
    [] OTHER -> [key |-> attempt.made + 1, input |-> page.typed,
                 version |-> Sends, made |-> attempt.made + 1]
\* The form cannot be sent while the user has yet to choose, or to ask for a read.
Blocks ==
  \/ page.ask # "none" /\ form.conflict \in Choosing \cup {"restart", "blocked"}
  \/ page.ask \in {"unread", "retrying"} /\ form.conflict = "reload"
Submit ==
  /\ page.open /\ Idle /\ ~Blocks
  /\ form.adds /\ form.draft # "none" => page.typed # Untouched
  /\ Attempt.made <= MaxKeys
  /\ attempt' = Attempt
  /\ request' = [phase |-> "sent", key |-> IF form.key = "none" THEN 0 ELSE Attempt.key,
                 input |-> page.typed, version |-> Sends, error |-> "none"]
  /\ UNCHANGED <<record, copy, page, served>>
SendsAgain == page.refused # None /\ Sends = page.refused /\ Submit

\* The service: a key it has carried out is answered as it was, for the same request
\* only; a version it has left behind and a record it no longer has are refused.
Taken == request.key # 0 /\ \E k \in served.keys : k.key = request.key
Carried == [key |-> request.key, input |-> request.input,
            version |-> IF form.versioned THEN request.version ELSE None]
Replayed == request.key # 0 /\ Carried \in served.keys
Stale == form.versioned /\ ~gone /\ request.version # server
CarriesOut ==
  /\ request.phase = "sent" /\ ~Taken /\ ~Stale
  /\ form.versioned => ~gone /\ server < MaxVersion
  /\ served.times < 2
  /\ server' = IF form.versioned THEN server + 1 ELSE server
  /\ page' = IF form.versioned THEN [page EXCEPT !.seen = server + 1] ELSE page
  /\ request' = [request EXCEPT !.phase = "carried_out"]
  /\ served' = [keys |-> IF request.key = 0 THEN served.keys ELSE served.keys \cup {Carried},
                times |-> served.times + 1]
  /\ UNCHANGED <<form, gone, copy, attempt>>
Replays ==
  /\ request.phase = "sent" /\ Replayed
  /\ request' = [request EXCEPT !.phase = "carried_out"]
  /\ UNCHANGED <<record, copy, page, attempt, served>>
Refuses ==
  /\ request.phase = "sent" /\ ~Replayed
  /\ \E e \in {"conflict", "refused"} :
       /\ e = "conflict" <=> Stale /\ ~Taken
       /\ request' = [request EXCEPT !.phase = "refused", !.error = e]
  /\ UNCHANGED <<record, copy, page, attempt, served>>
Lost ==
  /\ request.phase \in {"sent", "carried_out"}
  /\ request' = [request EXCEPT !.phase = "refused", !.error = "lost"]
  /\ UNCHANGED <<record, copy, page, attempt, served>>

----------------------------------------------------------------------------
\* The answer.
Done ==
  /\ request.phase = "carried_out"
  /\ page' = Closed
  /\ attempt' = [NoAttempt EXCEPT !.made = attempt.made]
  /\ request' = NoRequest
  /\ UNCHANGED <<record, copy, served>>
PageReads == form.conflict \in {"reread", "close"}
Told(p) ==
  LET q == [p EXCEPT !.refused = request.version] IN
  CASE form.conflict = "close" -> Closed
    [] form.conflict = "blocked" -> [q EXCEPT !.ask = "unread"]
    [] form.conflict \in ReadsItself \ {"blocked"} -> [q EXCEPT !.ask = "reading"]
    [] OTHER -> q
Conflict ==
  /\ request.phase = "refused" /\ request.error = "conflict"
  /\ page' = Told(page)
  /\ copy' = [copy EXCEPT !.owed = form.hookReads \/ PageReads]
  /\ request' = NoRequest
  /\ UNCHANGED <<record, attempt, served>>
\* Any other failure leaves the form as it is; one form starts over, another takes
\* some refusals (409) for a conflict.
Fails ==
  /\ request.phase = "refused" /\ request.error # "conflict"
  /\ LET read == [page EXCEPT !.ask = "reading"] IN
     page' \in CASE form.conflict = "restart" -> {read}
                 [] form.conflict = "await" /\ request.error = "refused" -> {page, read}
                 [] OTHER -> {page}
  /\ request' = NoRequest
  /\ UNCHANGED <<record, copy, attempt, served>>

\* The read a form makes of its own after a conflict. It fails when the service does
\* not answer, or has the record no more.
Reading == page.ask \in {"reading", "retrying"}
After(p) ==
  CASE form.conflict \in Rebasing -> [Rebased(p, server) EXCEPT !.ask = "none"]
    [] form.conflict = "restart" -> Opened(server)
    [] OTHER -> [p EXCEPT !.ask = "choice", !.latest = server]
RebaseRead ==
  /\ Reading /\ ~gone
  /\ copy' = [copy EXCEPT !.version = server]
  /\ page' = After(page)
  /\ UNCHANGED <<record, sending, served>>
RebaseFails ==
  /\ Reading
  /\ page' = [page EXCEPT !.ask = IF form.conflict = "rebase" THEN "none" ELSE "unread"]
  /\ UNCHANGED <<record, copy, sending, served>>
\* Mutant: the button that asks again is not offered after a failed read.
AskAgain_Blocked ==
  /\ page.ask = "unread" /\ form.conflict = "blocked"
  /\ page' = [page EXCEPT !.ask = "retrying"]
  /\ UNCHANGED <<record, copy, sending, served>>
\* The user asks for the read again.
AskAgain ==
  /\ page.ask = "unread" /\ form.conflict \in ReadsItself \ {"once", "rebase", "await"}
  /\ page' = [page EXCEPT !.ask = "retrying"]
  /\ UNCHANGED <<record, copy, sending, served>>
KeepDraft ==
  /\ page.ask = "choice" /\ Idle
  /\ page' = [Rebased(page, page.latest) EXCEPT !.ask = "none", !.latest = None]
  /\ UNCHANGED <<record, copy, sending, served>>
AdoptLatest ==
  /\ page.ask = "choice" /\ form.conflict = "choose" /\ Idle
  /\ page' = Opened(page.latest)
  /\ UNCHANGED <<record, copy, sending, served>>

Next ==
  \/ Open \/ Close \/ Type \/ BackgroundRead \/ OwedRead \/ OwedReadFails
  \/ ForeignWrite \/ ForeignDelete \/ SiblingCommand
  \/ Submit \/ CarriesOut \/ Replays \/ Refuses \/ Lost
  \/ Done \/ Conflict \/ Fails
  \/ RebaseRead \/ RebaseFails \/ AskAgain \/ KeepDraft \/ AdoptLatest
Spec == Init /\ [][Next]_vars

\* The service answers, a stale command with its refusal unless that is lost, and a
\* read that is made again and again is answered once. The user who has been refused
\* keeps trying: asks for the read again, or sends again what was refused.
AnswerArrives == Replays \/ Done \/ Conflict \/ Fails
Fairness ==
  /\ WF_vars(AnswerArrives) /\ SF_vars(Refuses) /\ SF_vars(OwedRead) /\ SF_vars(RebaseRead)
  /\ WF_vars(AskAgain) /\ WF_vars(SendsAgain)
LiveSpec == Spec /\ Fairness

----------------------------------------------------------------------------
Versions == 0..None
Keys == [key : 1..MaxKeys, input : Inputs \cup {Untouched}, version : Versions]
TypeOK ==
  /\ form \in Forms
  /\ server \in 0..MaxVersion /\ gone \in BOOLEAN
  /\ copy \in [version : 0..MaxVersion, owed : BOOLEAN]
  /\ page \in [open : BOOLEAN, typed : Inputs \cup {Untouched}, base : Versions, seen : Versions,
               raised : BOOLEAN, refused : Versions,
               ask : {"none", "reading", "retrying", "unread", "choice"}, latest : Versions]
  /\ attempt \in [key : 0..MaxKeys, input : Inputs \cup {Untouched}, version : Versions,
                  made : 0..MaxKeys]
  /\ request \in [phase : {"none", "sent", "carried_out", "refused"}, key : 0..MaxKeys,
                  input : Inputs \cup {Untouched}, version : Versions,
                  error : {"none", "conflict", "refused", "lost"}]
  /\ served \in [keys : SUBSET Keys, times : 0..2]

\* What was typed is made into a record at most once, however often its answer is
\* lost and it is sent again. It is not so where no key is sent, and where the key is
\* made anew for the newer version that is sent with the same input.
Once == served.times <= 1
AppliedOnce ==
  (form.adds /\ form.key # "none" /\ form.sends # "live") => Once

\* A command that is carried out replaces a version whose facts the form showed, or
\* that it announced. It is not so of two groups of forms, which keep what is typed
\* and send the page's newest version, or raise their own, without a word; and of the
\* task dialog after a command of another of its sections has raised the version of a
\* draft that had not followed the read before it: that save overwrites the unread
\* facts, and no conflict is reported.
Announces ==
  ~form.adds /\ form.sends # "raised" /\ ~(form.sends = "live" /\ form.draft = "kept")
NothingIsOverwrittenUnseen ==
  [][(CarriesOut /\ Announces /\ form.versioned) => server = page.seen \/ page.raised]_vars

\* A user who is refused for a conflict and does not give up comes through: the form
\* comes to send another version than the one refused, or to offer the choice, unless
\* the record is gone. It is not so of the forms that stay as they are, which send the
\* same version for ever, and of the assignment of a task whose one read has failed,
\* which can only be closed.
ComesThrough ==
  \/ page.refused = None \/ page.ask = "choice" \/ Sends # page.refused \/ gone
  \/ form.conflict = "once" /\ page.ask = "unread"
ConflictIsNotADeadEnd == [](form.conflict # "stay") => (page.refused # None ~> ComesThrough)

=============================================================================
