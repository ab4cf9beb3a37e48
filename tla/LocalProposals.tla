--------------------------- MODULE LocalProposals ---------------------------
(* The proposals about what never leaves the device: an item of the inbox and  *)
(* the tasks linked to it, a reminder, the focus session, a rule of the         *)
(* automations and the retry of a run of it.                                    *)
EXTENDS ProposalText

ItemStates == {"open", "tracking", "resolved", "dismissed"}
Policies == {"manual", "all_required"}
Recurrences == {"none", "daily", "monthly"}
Open == {"active", "paused", "recovery_pending"}
Holders == {"owner", "person", "agent"}

\* Tasks linked to an item: all, the required ones, those of them that are done.
Counts == {v \in [active : 0..2, required : 0..2, done : 0..2] :
             v.required <= v.active /\ v.done <= v.required}
\* How the task of the proposal is linked; it is one of those counted.
Links == {"none", "required", "optional"}
Counted(v) ==
  LET c == v.counts  others == c.active - IF v.linked = "none" THEN 0 ELSE 1
      needed == c.required - IF v.linked = "required" THEN 1 ELSE 0
      finished == c.done - IF v.linked = "required" /\ v.finished THEN 1 ELSE 0
  IN needed >= 0 /\ finished >= 0 /\ needed <= others /\ finished <= needed
Worlds ==
  [of : {"unread"}, count : 0..1]
  \cup {v \in [of : {"item"}, status : ItemStates, policy : Policies, counts : Counts,
               linked : Links, finished : BOOLEAN] :
          /\ Counted(v)
          /\ v.status = "tracking" => v.counts.active > 0
          /\ v.status = "open" => v.counts.active = 0}
  \cup {v \in [of : {"reminder"}, status : {"scheduled", "fired", "cancelled"},
               recurrence_type : Recurrences, anchor : {1, 31}] :
          v.recurrence_type # "monthly" => v.anchor = 1}
  \cup [of : {"focus"}, status : Open \cup {"none"}, task : {"t1", "null"}]
  \cup [of : {"rule"}, trigger : {"event", "schedule"}, enabled : BOOLEAN, available : BOOLEAN]
  \cup {v \in [of : {"failed_run"}, trigger : {"event", "schedule"}, attempt : 1..3,
               retryable : BOOLEAN, enabled : BOOLEAN] : v.retryable => v.attempt < 3}

----------------------------------------------------------------------------
Act(kind, changes) == [kind |-> kind, changes |-> changes]
Acts(kind, all) == {Act(kind, c) : c \in all}
Plain(kinds) == {Act(k, Nothing) : k \in kinds}

\* normalizeReminderCreate, normalizeReminderPatch: without a recurrence there is no
\* interval and no time zone to choose.
ReminderTexts == [title |-> {"new"}, summary |-> {"new"}, recurrence_type |-> Recurrences]
Draft(key, required, assignee, policy) ==
  [key |-> key, title |-> "padded", required |-> required, assignee |-> assignee, policy |-> policy]
Splits ==
  {<<Draft("a", r, h, p)>> : r \in BOOLEAN, h \in Holders, p \in {"none", "manual"}}
  \cup {<<Draft("a", TRUE, "owner", "none"), Draft("b", r, "person", "manual")>> : r \in BOOLEAN}

\* parseAIInboxReadAll, parseAIInboxAction, aiInboxTaskCommand, parseAIInboxSplit,
\* parseAIReminderAction, parseAIFocusAction, parseAIAutomationAction
Actions ==
  [unread |-> {Act("inbox.read_all", [through |-> "now"])},
   item |-> Acts("inbox.force_resolve", [reason : {"new", "padded"}])
        \cup Acts("inbox.link_task", [required : BOOLEAN])
        \cup Acts("inbox.set_required", [required : BOOLEAN])
        \cup Acts("inbox.unlink_task", Written([reason |-> {"new"}]))
        \cup Acts("inbox.split", [tasks : Splits, policy : Policies]),
   reminder |-> Acts("reminder.create",
                     {f \in Written(ReminderTexts) : DOMAIN f = DOMAIN ReminderTexts})
        \cup Acts("reminder.update", Written(ReminderTexts) \ {Nothing})
        \cup {Act("reminder.cancel", [reason |-> "new"])},
   focus |-> Acts("focus.start", {[task |-> "null"], [task |-> "t1", task_version |-> "old"]})
        \cup Plain({"focus.pause", "focus.resume", "focus.stop", "focus.cancel"})
        \cup Acts("focus.recover",
                  [recovery : {"include_gap_resume", "exclude_gap_resume", "interrupt"}]),
   rule |-> Plain({"automation.enable", "automation.disable"})
        \cup Acts("automation.update", {[priority |-> "new"], [local_time |-> "new", timezone |-> "new"]}),
   failed_run |-> Plain({"automation.retry"})]

----------------------------------------------------------------------------
(* The service.                                                               *)
LinkKinds == {"inbox.link_task", "inbox.set_required", "inbox.unlink_task"}
Settings(w) == IF w.trigger = "schedule" THEN {"local_time", "timezone"} ELSE {"priority"}
\* prepareInboxForceResolve, prepareInboxTaskMutation, prepareReminderUpdate,
\* prepareFocusStart and its fellows, prepareAutomationRetry
Previews(a, w) ==
  LET k == a.kind IN
  CASE k = "inbox.read_all" -> w.count > 0
    [] w.of = "item" ->
         /\ w.status \in {"open", "tracking"}
         /\ k = "inbox.force_resolve" => w.policy = "all_required"
         /\ k = "inbox.link_task" => w.linked = "none"
         /\ k \in {"inbox.set_required", "inbox.unlink_task"} => w.linked # "none"
    [] k \in {"reminder.update", "reminder.cancel"} -> w.status = "scheduled"
    [] k = "focus.start" -> w.status = "none"
    [] k = "focus.pause" -> w.status = "active"
    [] k = "focus.resume" -> w.status = "paused"
    [] k \in {"focus.stop", "focus.cancel"} -> w.status \in {"active", "paused"}
    [] k = "focus.recover" -> w.status = "recovery_pending"
    [] k = "automation.enable" -> w.available
    [] k = "automation.update" -> DOMAIN a.changes = Settings(w)
    [] k = "automation.retry" -> w.retryable /\ (w.trigger = "schedule" => w.enabled)
    [] OTHER -> TRUE

\* The counts of an item once the task of the proposal is, or is not, required.
Recounted(w, active, required) ==
  LET was == IF w.linked = "required" THEN 1 ELSE 0
      is == IF required THEN 1 ELSE 0
  IN [active |-> active, required |-> w.counts.required + is - was,
      done |-> w.counts.done + IF w.finished THEN is - was ELSE 0]
\* Remaining is counted apart in the tables and computed here.
Progress(c) == c @@ [remaining |-> c.required - c.done]
Relinked(a, w) ==
  LET leaves == a.kind = "inbox.unlink_task"
      required == ~leaves /\ a.changes.required
      active == CASE a.kind = "inbox.link_task" -> w.counts.active + 1
                  [] leaves -> w.counts.active - 1
                  [] OTHER -> w.counts.active
      next == Recounted(w, active, required)
      changed == a.kind # "inbox.set_required" \/ required # (w.linked = "required")
      status == IF changed /\ w.policy = "all_required" /\ next.required > 0
                     /\ next.required = next.done THEN "resolved"
                ELSE IF a.kind = "inbox.set_required" THEN w.status
                ELSE IF active = 0 THEN "open" ELSE "tracking"
  IN Progress(next) @@ [relation |-> IF leaves THEN "unlinked" ELSE "linked", is_required |-> required,
                        status |-> status, policy |-> w.policy]
     @@ (IF leaves THEN a.changes ELSE Nothing)

Schedule(w, recurrence) ==
  [recurrence_type |-> recurrence, status |-> "scheduled",
   chosen |-> recurrence # "none", anchor |-> IF recurrence = "monthly" THEN w.anchor ELSE 1]
ReminderRow(w) == [title |-> "old", summary |-> "old"] @@ Schedule(w, w.recurrence_type)
Shown(a, row) == IF "summary" \in DOMAIN a.changes THEN row ELSE Without(row, {"summary"})
Remind(a, w) ==
  LET recurrence == IF "recurrence_type" \in DOMAIN a.changes THEN a.changes.recurrence_type
                    ELSE w.recurrence_type
  IN a.changes @@ Schedule(w, recurrence) @@ ReminderRow(w)

FocusTarget(a) ==
  CASE a.kind = "focus.pause" -> "paused"
    [] a.kind = "focus.stop" -> "completed"
    [] a.kind = "focus.cancel" -> "cancelled"
    [] a.kind = "focus.recover" /\ a.changes.recovery = "interrupt" -> "interrupted"
    [] OTHER -> "active"
Rule(w) ==
  [trigger |-> w.trigger, available |-> w.available, rule_enabled |-> w.enabled]
  @@ [k \in Settings(w) |-> "old"]

Before(a, w) ==
  LET k == a.kind IN
  IF k = "inbox.read_all" THEN [unread |-> w.count]
  ELSE IF k = "inbox.force_resolve" THEN Progress(w.counts) @@ [status |-> w.status, policy |-> w.policy]
  ELSE IF w.of = "item" THEN Progress(w.counts) @@ [status |-> w.status]
  ELSE IF k \in {"reminder.update", "reminder.cancel"} THEN Shown(a, ReminderRow(w))
  ELSE IF w.of = "focus" THEN [status |-> IF k = "focus.start" THEN "idle" ELSE w.status]
  ELSE IF w.of = "rule" THEN Rule(w)
  ELSE Nothing
After(a, w) ==
  LET k == a.kind  c == a.changes IN
  IF k = "inbox.read_all" THEN [unread |-> 0, marked |-> w.count]
  ELSE IF k = "inbox.force_resolve" THEN
         Clean(c) @@ Progress(w.counts) @@ [status |-> "resolved", policy |-> w.policy, mode |-> "forced"]
  ELSE IF k \in LinkKinds THEN Relinked(a, w)
  ELSE IF k = "inbox.split" THEN
         [status |-> "tracking", policy |-> c.policy, created |-> Len(c.tasks),
          active |-> w.counts.active + Len(c.tasks), done |-> w.counts.done,
          required |-> w.counts.required + Cardinality({i \in DOMAIN c.tasks : c.tasks[i].required})]
  ELSE IF k = "reminder.create" THEN c @@ Schedule(w, c.recurrence_type)
  ELSE IF k = "reminder.update" THEN Shown(a, Remind(a, w))
  ELSE IF k = "reminder.cancel" THEN Shown(a, c @@ [status |-> "cancelled"] @@ ReminderRow(w))
  ELSE IF k = "focus.start" THEN c @@ [status |-> "active", task_version |-> "null"]
  ELSE IF w.of = "focus" THEN c @@ [status |-> FocusTarget(a), task |-> w.task]
  ELSE IF k \in {"automation.enable", "automation.disable"} THEN
         [Rule(w) EXCEPT !.rule_enabled = k = "automation.enable"]
  ELSE IF k = "automation.update" THEN c @@ Rule(w)
  ELSE Nothing
\* previewAIInboxSplit and previewAIAutomationRetry show more than before and after.
More(a, w) ==
  CASE a.kind = "inbox.split" ->
         [tasks |-> [i \in DOMAIN a.changes.tasks |->
            Clean(Cut(a.changes.tasks[i], {"key", "title", "assignee", "policy"}))
            @@ [required |-> a.changes.tasks[i].required,
                reviewer |-> IF a.changes.tasks[i].policy = "manual" THEN "owner" ELSE "null"]]]
    [] a.kind = "automation.retry" ->
         [automation_retry |->
            [trigger |-> w.trigger, rule_enabled |-> w.enabled, attempt |-> w.attempt,
             next_attempt |-> w.attempt + 1, scheduled_for |-> w.trigger = "schedule"]]
    [] OTHER -> Nothing

\* What the retried run came to; the rows of runs, and of the tasks a split made as
\* the log of events has them, outlive everything else.
Later(p) ==
  IF p.kind = "automation.retry" THEN {"succeeded", "failed", "retryable"} ELSE {"done"}
Result(p, now) ==
  IF p.kind # "automation.retry" THEN [status |-> now]
  ELSE [status |-> IF now = "succeeded" THEN "succeeded" ELSE "failed",
        retryable |-> now = "retryable", result |-> now = "succeeded",
        error |-> now # "succeeded"]

----------------------------------------------------------------------------
(* The client: parse.ts, family by family.                                    *)
ValidReadAll(p) ==
  /\ DOMAIN p.changes = {"through"} /\ DOMAIN p.before = {"unread"} /\ p.before.unread > 0
  /\ p.after = [unread |-> 0, marked |-> p.before.unread]

ValidForceResolve(p) ==
  LET counts == {"active", "required", "done", "remaining"} IN
  /\ DOMAIN p.changes = {"reason"} /\ p.after.reason = Clean(p.changes).reason
  /\ p.before.status \in {"open", "tracking"} /\ p.after.status = "resolved"
  /\ p.before.policy = "all_required" /\ p.after.policy = p.before.policy /\ p.after.mode = "forced"
  /\ Cut(p.before, counts) = Cut(p.after, counts)
  /\ p.after.required <= p.after.active /\ p.after.done + p.after.remaining = p.after.required

ValidLink(p) ==
  /\ p.after.relation \in {"linked", "unlinked"} /\ p.after.policy \in Policies
  /\ p.after.status \in {"open", "tracking", "resolved"}
  /\ \A k \in {"active", "required", "done", "remaining"} : p.after[k] >= 0

\* splitDrafts
ValidSplit(p) ==
  LET drafts == p.more.tasks  raw == p.changes.tasks IN
  /\ Len(drafts) = Len(raw) /\ p.after.created = Len(drafts) /\ p.after.status = "tracking"
  /\ \A i, j \in DOMAIN drafts : drafts[i].key = drafts[j].key => i = j
  /\ \A i \in DOMAIN drafts :
       /\ drafts[i].key = raw[i].key /\ drafts[i].title = Clean([title |-> raw[i].title]).title
       /\ drafts[i].assignee = raw[i].assignee /\ drafts[i].required = raw[i].required
       /\ drafts[i].policy = "manual" <=> drafts[i].reviewer # "null"

IsSchedule(f) ==
  /\ f.recurrence_type \in Recurrences
  /\ f.recurrence_type # "monthly" => f.anchor = 1
  /\ f.recurrence_type = "none" => ~f.chosen
ValidReminder(p) ==
  LET creates == p.kind = "reminder.create"
      edits == "summary" \in DOMAIN p.changes
  IN /\ IsSchedule(p.after)
     /\ creates \/ edits => "summary" \in DOMAIN p.after
     /\ ~creates => /\ IsSchedule(p.before) /\ p.before.status = "scheduled"
                    /\ edits => "summary" \in DOMAIN p.before
     /\ p.after.status = IF p.kind = "reminder.cancel" THEN "cancelled" ELSE "scheduled"
     /\ p.kind = "reminder.cancel" => Text(p.after.reason)

ValidFocus(p) ==
  LET starts == p.kind = "focus.start" IN
  /\ DOMAIN p.before = {"status"}
  /\ p.before.status \in CASE starts -> {"idle"}
                           [] p.kind = "focus.pause" -> {"active"}
                           [] p.kind = "focus.resume" -> {"paused"}
                           [] p.kind = "focus.recover" -> {"recovery_pending"}
                           [] OTHER -> {"active", "paused"}
  /\ p.after.status = FocusTarget(p)
  /\ starts => /\ p.changes.task = p.after.task
               /\ IF p.after.task = "null"
                  THEN p.after.task_version = "null" /\ "task_version" \notin DOMAIN p.changes
                  ELSE p.after.task_version = p.changes.task_version
  /\ p.kind = "focus.recover" => p.after.recovery = p.changes.recovery
  /\ p.kind \notin {"focus.start", "focus.recover"} => p.changes = Nothing

ValidRule(p) ==
  LET updates == p.kind = "automation.update"
      config == IF p.after.trigger = "schedule" THEN {"local_time", "timezone"} ELSE {"priority"}
      metadata == {"trigger", "available"}
  IN /\ DOMAIN p.before = metadata \cup config \cup {"rule_enabled"} /\ DOMAIN p.after = DOMAIN p.before
     /\ Cut(p.before, metadata) = Cut(p.after, metadata)
     /\ DOMAIN p.changes = (IF updates THEN config ELSE {}) /\ Says(p.changes, p.after)
     /\ IF updates THEN p.before.rule_enabled = p.after.rule_enabled
        ELSE /\ Cut(p.before, config) = Cut(p.after, config)
             /\ p.after.rule_enabled = (p.kind = "automation.enable")
     /\ p.kind = "automation.enable" => p.after.available

\* validAutomationRetryProposal
ValidRetry(p) ==
  LET r == p.more.automation_retry IN
  /\ p.changes = Nothing /\ p.before = Nothing /\ p.after = Nothing
  /\ r.attempt \in 1..2 /\ r.next_attempt = r.attempt + 1
  /\ r.scheduled_for <=> r.trigger = "schedule"
  /\ r.trigger = "schedule" => r.rule_enabled

Valid(p) ==
  IF p.of = "unread" THEN ValidReadAll(p)
  ELSE IF p.kind = "inbox.force_resolve" THEN ValidForceResolve(p)
  ELSE IF p.kind = "inbox.split" THEN ValidSplit(p)
  ELSE IF p.of = "item" THEN ValidLink(p)
  ELSE IF p.of = "reminder" THEN ValidReminder(p)
  ELSE IF p.of = "focus" THEN ValidFocus(p)
  ELSE IF p.of = "rule" THEN ValidRule(p)
  ELSE ValidRetry(p)

ValidReceipt(p, result) ==
  p.kind = "automation.retry" =>
    IF result.status = "succeeded" THEN ~result.retryable /\ ~result.error /\ result.result
    ELSE result.error /\ ~result.result
=============================================================================
