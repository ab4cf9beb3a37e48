---------------------------- MODULE InboxRecords ----------------------------
(* An inbox item of any source with the tasks it is followed up by: the       *)
(* commands upon it, what the tasks and the source make of it behind its      *)
(* back, what the strict readers take for true, and the buttons of its dialog. *)
EXTENDS Naturals, FiniteSets

VARIABLE record

\* The sources that make an item with a due time, and the others.
Due == {"reminder", "task_due", "invoice_due", "client_followup", "content_item",
        "roadmap_milestone"}
Origins == {"manual", "task_artifact", "task", "project_completion", "automation",
            "agent_run_failed", "system_maintenance"} \cup Due
\* The sources whose deletion is noted on the items that are done with.
Deletable == {"task_artifact", "task", "task_due", "content_item", "roadmap_milestone",
              "project_completion", "agent_run_failed"}
Terminal == {"resolved", "dismissed"}
Links == {"optional", "required"}
Slots == 1..2   \* the tasks there are to link

NoTask == [status |-> "absent", link |-> "none"]
Init == record =
  [origin |-> "manual", status |-> "absent", policy |-> "manual", mode |-> "none",
   due |-> "none", read |-> FALSE, snooze |-> "none", gone |-> FALSE, source |-> TRUE,
   tasks |-> [s \in Slots |-> NoTask]]

Item(fields) == record' = fields
Active == record.status \in {"open", "tracking"}
Linked(r) == {s \in Slots : r.tasks[s].link \in Links}
Required(r) == {s \in Slots : r.tasks[s].link = "required"}
Finished(r) == {s \in Required(r) : r.tasks[s].status = "done"}
AllRequiredDone(r) == Required(r) # {} /\ Finished(r) = Required(r)
\* Whatever is written to an item resolved automatically, its tasks must bear it out.
Writable(r) == r.mode = "automatic" => AllRequiredDone(r)

\* The states in which the service takes a command.
Accepts(command) ==
  CASE command = "read" -> record.status # "absent" /\ Writable(record)
    [] command \in {"edit", "snooze", "unsnooze", "dismiss", "link", "split"} -> Active
    [] command = "resolve" ->
         Active /\ (record.policy = "all_required" => AllRequiredDone(record))
    [] command = "force_resolve" -> Active /\ record.policy = "all_required"
    [] command = "reopen" -> record.status \in Terminal
    [] command \in {"requirement", "unlink"} -> Active /\ Linked(record) # {}
    [] command = "open_source" -> record.source
    [] OTHER -> FALSE

\* reconcileInboxItem: the required tasks resolve an item, and open it again.
Ended(r, status, mode) == [r EXCEPT !.status = status, !.mode = mode, !.snooze = "none"]
Opened(r) == Ended(r, IF Linked(r) = {} THEN "open" ELSE "tracking", "none")
Reconciled(r) ==
  IF r.policy # "all_required" THEN r
  ELSE IF r.status \in {"open", "tracking"} /\ AllRequiredDone(r)
       THEN Ended(r, "resolved", "automatic")
  ELSE IF r.status = "resolved" /\ r.mode = "automatic" /\ ~AllRequiredDone(r)
       THEN Opened(r)
  ELSE r

----------------------------------------------------------------------------
\* The item itself, and what the person does with it.
Appear == record.status = "absent" /\ \E o \in Origins :
  Item([record EXCEPT !.status = "open", !.origin = o,
          !.due = IF o \in Due THEN "source" ELSE "none"])

\* updateInboxItem refuses a due time to two of the sources only.
EditDue == Accepts("edit") /\ record.origin \notin {"manual", "system_maintenance", "project_completion"}
  /\ \E due \in {"none", "other"} : Item([record EXCEPT !.due = due])
Read == Accepts("read") /\ ~record.read /\ Item([record EXCEPT !.read = TRUE])
\* What is set aside is not among the items that are marked together.
ReadAll == Active /\ ~record.read /\ record.snooze # "until" /\ Item([record EXCEPT !.read = TRUE])
Snooze == Accepts("snooze") /\ Item([record EXCEPT !.snooze = "until"])
SnoozeEnds == record.snooze = "until" /\ Item([record EXCEPT !.snooze = "over"])
Unsnooze == Accepts("unsnooze") /\ Item([record EXCEPT !.snooze = "none"])
Resolve == Accepts("resolve") /\ Item(Ended(record, "resolved", "manual"))
Dismiss == Accepts("dismiss") /\ Item(Ended(record, "dismissed", "none"))
ForceResolve == Accepts("force_resolve") /\ Item(Ended(record, "resolved", "forced"))
Reopen == Accepts("reopen") /\ Item(Opened(record))

----------------------------------------------------------------------------
\* The tasks of an item a person wrote; those of another are no different.
Takes == Active /\ record.origin = "manual"
\* One task of the item, changed, and the item reconciled with it.
WithTask(s, task) == [record EXCEPT !.tasks[s] = task]
Link == Takes /\ \E s \in Slots, l \in Links :
  /\ record.tasks[s].status # "absent" /\ record.tasks[s].link \notin Links
  /\ Item(Reconciled([WithTask(s, [record.tasks[s] EXCEPT !.link = l]) EXCEPT !.status = "tracking"]))
ChangeRequirement == Takes /\ \E s \in Linked(record), l \in Links :
  Item(Reconciled(WithTask(s, [record.tasks[s] EXCEPT !.link = l])))
Unlink == Takes /\ \E s \in Linked(record) :
  LET left == WithTask(s, [record.tasks[s] EXCEPT !.link = "ended"]) IN
  Item(Reconciled([left EXCEPT !.status = IF Linked(left) = {} THEN "open" ELSE "tracking"]))
\* A new task; the policy that waits for tasks is set with a required one.
Split == Takes /\ \E s \in Slots, l \in Links, policy \in {"manual", "all_required"} :
  /\ record.tasks[s] = NoTask
  /\ policy = "all_required" => l = "required"
  /\ Item(Reconciled([WithTask(s, [status |-> "open", link |-> l])
            EXCEPT !.status = "tracking", !.policy = policy, !.snooze = "none"]))

MakeTask == record.origin = "manual" /\ record.status # "absent" /\ \E s \in Slots :
  record.tasks[s] = NoTask /\ Item(WithTask(s, [NoTask EXCEPT !.status = "open"]))
\* A lifecycle command, a review or a rollup of the task reconciles every item that
\* requires it, in the same transaction.
Moved(s, status) == WithTask(s, [record.tasks[s] EXCEPT !.status = status])
\* Mutant: a way to move a task that leaves its items alone.
MoveTask_Unreconciled == \E s \in Slots, status \in {"open", "blocked", "done"} :
  record.tasks[s].status # "absent" /\ Item(Moved(s, status))
MoveTask == \E s \in Slots, status \in {"open", "blocked", "done"} :
  /\ record.tasks[s].status # "absent"
  /\ Item(IF s \in Required(record) THEN Reconciled(Moved(s, status)) ELSE Moved(s, status))
\* A task that is followed up cannot be deleted; its ended links outlive it.
DeleteTask == \E s \in Slots \ Linked(record) :
  record.tasks[s].status # "absent" /\ Item(Moved(s, "absent"))

----------------------------------------------------------------------------
\* The source, which cannot be deleted while the item is active.
DeleteSource == record.origin \in Deletable /\ record.status \in Terminal /\ Writable(record)
  /\ Item([record EXCEPT !.source = FALSE, !.gone = TRUE])
\* A follow-up that is completed, skipped or cancelled resolves its items.
FollowupEnds == record.origin = "client_followup" /\ Active
  /\ Item(Ended(record, "resolved", "manual"))

Next ==
  \/ Appear \/ EditDue \/ Read \/ ReadAll \/ Snooze \/ SnoozeEnds \/ Unsnooze
  \/ Resolve \/ Dismiss \/ ForceResolve \/ Reopen
  \/ Link \/ ChangeRequirement \/ Unlink \/ Split \/ MakeTask \/ MoveTask \/ DeleteTask
  \/ DeleteSource \/ FollowupEnds
Spec == Init /\ [][Next]_record

----------------------------------------------------------------------------
\* normalizeInboxItem has a rule for the events of each source.
TimedEventReads ==
  record.origin \in {"client_followup", "content_item"} =>
    record.due = "source" /\ (record.origin = "client_followup" => ~record.gone)
DatedEventReads == record.origin \in {"invoice_due", "roadmap_milestone"} => record.due # "none"
UndatedEventReads ==
  /\ record.origin \in {"project_completion", "system_maintenance"} => record.due = "none"
  /\ record.origin \in {"automation", "system_maintenance"} => ~record.gone
EventReads == UndatedEventReads /\ TimedEventReads /\ DatedEventReads
\* The numbers the service counts agree with one another and with the links listed.
ProgressReads ==
  LET remaining == Cardinality(Required(record)) - Cardinality(Finished(record))
      blocked == {s \in Required(record) : record.tasks[s].status = "blocked"} IN
  Required(record) \subseteq Linked(record) /\ Cardinality(blocked) <= remaining
\* A link to a task that is gone says so, and is over.
RelationReads == \A s \in Linked(record) : record.tasks[s].status # "absent"
Reads == EventReads /\ ProgressReads /\ RelationReads
\* The due time is not the source's: only the person's edit changes it.
Redated == record.origin \in Due /\ record.due # "source"

\* What the service lists as available, which the dialog shows as buttons.
ItemOffers ==
  (IF ~record.read /\ record.status # "absent" THEN {"read"} ELSE {})
  \cup (IF Active THEN {"edit", "resolve", "dismiss"} ELSE {})
  \cup (IF Active /\ record.snooze = "until" THEN {"unsnooze"} ELSE {})
  \cup (IF Active /\ record.snooze # "until" THEN {"snooze"} ELSE {})
  \cup (IF record.status \in Terminal THEN {"reopen"} ELSE {})
TaskOffers ==
  (IF Active THEN {"link", "split"} ELSE {})
  \cup (IF Active /\ Linked(record) # {} THEN {"requirement", "unlink"} ELSE {})
ForceOffers ==
  IF Active /\ record.policy = "all_required" /\ ~AllRequiredDone(record)
  THEN {"force_resolve"} ELSE {}
\* The link to the source is not shown for one that is gone, nor when the item no
\* longer says what its source said.
Snapshot == record.origin \in {"reminder", "client_followup", "content_item"} => record.due = "source"
SourceOffers ==
  IF record.status # "absent" /\ record.origin # "manual" /\ Snapshot /\ ~record.gone
  THEN {"open_source"} ELSE {}
\* Resolving is listed also where the policy waits for tasks, and refuses it.
PolicyRefuses(command) ==
  command = "resolve" /\ record.policy = "all_required" /\ ~AllRequiredDone(record)
Offers == ItemOffers \cup TaskOffers \cup ForceOffers \cup SourceOffers
=============================================================================
