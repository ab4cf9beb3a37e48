--------------------------- MODULE TaskProposals ---------------------------
(* The proposals about a task and its tags, about several tasks at a time,     *)
(* the places of tasks and milestones, saved views, milestones and projects.   *)
EXTENDS ProposalText

Statuses == {"todo", "in_progress", "blocked", "waiting_review", "done", "cancelled"}
Terminal == {"done", "cancelled"}
Policies == {"none", "manual"}
Priorities == {"P1", "P2"}
MilestoneStates == {"planned", "active", "achieved"}
ProjectStates == {"planning", "in_progress", "paused", "completed"}
Holders == {"nobody", "owner", "person"}

\* What may be under a task, and who answers for it.
Sub(total, completed, cancelled) == [total |-> total, completed |-> completed, cancelled |-> cancelled]
Subtasks == {Sub(0, 0, 0), Sub(2, 1, 0), Sub(2, 1, 1), Sub(1, 0, 1)}
Worlds ==
  {v \in [of : {"task"}, status : Statuses, policy : Policies, sub : Subtasks,
          assigned : BOOLEAN, reviewed : BOOLEAN, submitted : BOOLEAN, held : BOOLEAN] :
     /\ v.reviewed => v.assigned
     /\ v.held => v.status = "todo" /\ ~v.submitted
     /\ v.status = "waiting_review" => v.policy = "manual" /\ v.submitted
     /\ v.submitted => v.policy = "manual"}
  \cup [of : {"tag"}, tasks : 0..1]
  \cup [of : {"batch"}, status : Statuses, policy : Policies, priority : Priorities,
        due : {"old", "null"}, holder : Holders]
  \cup [of : {"drafts"}, project : ProjectStates \cup {"archived"}]
  \cup {v \in [of : {"place"}, rows : 2..3, at : 1..3, anchor : 1..3] :
          v.at <= v.rows /\ v.anchor <= v.rows /\ v.at # v.anchor}
  \cup {v \in [of : {"turn"}, rows : 2..3, at : 1..3, anchor : 1..3, letters : 1..2] :
          v.at <= v.rows /\ v.anchor <= v.rows /\ v.at # v.anchor}
  \cup [of : {"view"}]
  \cup {v \in [of : {"milestone"}, status : MilestoneStates \cup {"archived"},
               from : MilestoneStates, projects : 0..1] :
          v.status # "archived" => v.from = "planned"}
  \cup {v \in [of : {"project"}, status : ProjectStates \cup {"archived"},
               from : ProjectStates \cup {"null"}, tasks : 0..1] :
          v.status # "archived" => v.from = "null"}

----------------------------------------------------------------------------
(* What the tool takes. A title is cleaned, the texts of a task are not.       *)
TaskFields == [title |-> {"padded"}, tags |-> {"new"}, parent |-> {"new", "null"}]
Edits == TaskFields @@ [review_policy |-> Policies]
TitledTasks == {f \in Written(TaskFields) : "title" \in DOMAIN f}
Drafts ==
  {f \in Written([title |-> {"new", "padded"}, description |-> {"padded"}, kind |-> {"followup"},
                  review_policy |-> {"manual"}, due |-> {"new"}, assignee |-> {"owner", "person"}]) :
     "title" \in DOMAIN f}
MilestoneFields ==
  [title |-> {"new", "padded"}, description |-> {"new", "null"}, status |-> MilestoneStates,
   quarter |-> {"new"}, project_ids |-> {"new"}]

Act(kind, changes) == [kind |-> kind, changes |-> changes]
Acts(kind, all) == {Act(kind, c) : c \in all}
Plain(kinds) == {Act(k, Nothing) : k \in kinds}
Reasoned(kinds) == {Act(k, [reason |-> "new"]) : k \in kinds}
Transitions == {"start", "block", "unblock", "complete", "cancel", "reopen"}
Ends(name) == name \in {"clear_assignee", "clear_reviewer"}
Gives(name) == name \in {"set_assignee", "set_reviewer"}
\* parseAITaskBatchAction: every action of a batch with the value it needs.
BatchChanges ==
  [name : {"set_priority"}, value : Priorities]
    \cup [name : {"set_due_date"}, value : {"new", "null"}]
    \cup [name : {"set_project", "set_planned_date", "add_tags"}, value : {"new"}]
    \cup [name : {"start", "unblock", "complete", "reopen"}]
    \cup [name : {"block", "cancel", "clear_assignee", "clear_reviewer"}, reason : {"new"}]
    \cup [name : {"set_assignee"}, value : {"owner", "person"}, reason : {"new"}]
    \cup [name : {"set_reviewer"}, value : {"owner"}, reason : {"new"}]
Moves == [placement : {"before", "after"}]
Actions ==
  [task |-> Acts("task.create", TitledTasks)
        \cup Acts("task.update", Written(Edits) \ {Nothing})
        \cup Plain({"task.start", "task.unblock", "task.complete", "task.reopen", "task.delete"})
        \cup Reasoned({"task.block", "task.cancel"}),
   tag |-> Acts("tag.create", {[name |-> "new", color |-> "new"]})
        \cup Acts("tag.update", Written([name |-> {"new"}, color |-> {"new"}]) \ {Nothing})
        \cup Plain({"tag.delete"}),
   batch |-> Acts("task.batch_update", BatchChanges),
   drafts |-> Acts("task.batch_create", Drafts),
   place |-> Acts("task.move", Moves),
   turn |-> Acts("roadmap_milestone.move", Moves),
   view |-> Acts("task_view.create", {[name |-> "new", definition |-> "new"]})
        \cup Acts("task_view.update", Written([name |-> {"new"}, definition |-> {"new"}]) \ {Nothing})
        \cup Plain({"task_view.delete"}),
   milestone |-> Acts("roadmap_milestone.create",
                      {f \in Written(MilestoneFields) : {"title", "quarter"} \subseteq DOMAIN f})
        \cup Acts("roadmap_milestone.update", Written(MilestoneFields) \ {Nothing})
        \cup Plain({"roadmap_milestone.archive", "roadmap_milestone.restore",
                    "roadmap_milestone.delete"}),
   project |-> Acts("project.create", {[name |-> "new"]}) \cup Acts("project.update", {[name |-> "padded"]})
        \cup Plain({"project.start", "project.pause", "project.resume", "project.complete",
                    "project.reopen", "project.archive", "project.restore", "project.delete"})]

----------------------------------------------------------------------------
(* The service.                                                               *)
Name(k) ==
  CASE k = "task.start" -> "start" [] k = "task.block" -> "block" [] k = "task.unblock" -> "unblock"
    [] k = "task.complete" -> "complete" [] k = "task.cancel" -> "cancel"
    [] k = "task.reopen" -> "reopen" [] OTHER -> "none"
\* validateTaskLifecycleTransition: from where, and to where; who starts is an assignee.
Allowed(name, w, assigned) ==
  CASE name = "start" -> w.status = "todo" /\ assigned
    [] name = "block" -> w.status \in {"todo", "in_progress", "waiting_review"}
    [] name = "unblock" -> w.status = "blocked"
    [] name = "complete" -> w.status \in {"todo", "in_progress"} /\ w.policy = "none"
    [] name = "cancel" -> w.status \notin Terminal
    [] name = "reopen" -> w.status \in Terminal
    [] OTHER -> TRUE
Reached(name) ==
  CASE name \in {"start", "unblock"} -> "in_progress" [] name = "block" -> "blocked"
    [] name = "complete" -> "done" [] name = "cancel" -> "cancelled" [] OTHER -> "todo"

\* calculateAITaskMove, calculateAIRoadmapMilestoneMove: the place among the rows
\* without the one that moves.
Place(c, w) ==
  LET anchor == IF w.anchor > w.at THEN w.anchor - 1 ELSE w.anchor IN
  IF c.placement = "before" THEN anchor ELSE anchor + 1

\* projectTransition
ProjectGoes(kind, w) ==
  CASE kind = "project.start" -> [from |-> {"planning"}, to |-> "in_progress"]
    [] kind = "project.pause" -> [from |-> {"in_progress"}, to |-> "paused"]
    [] kind = "project.resume" -> [from |-> {"paused"}, to |-> "in_progress"]
    [] kind = "project.complete" -> [from |-> {"in_progress", "paused"}, to |-> "completed"]
    [] kind = "project.reopen" -> [from |-> {"completed"}, to |-> "in_progress"]
    [] kind = "project.restore" ->
         [from |-> {"archived"}, to |-> IF w.from = "null" THEN "planning" ELSE w.from]
    [] kind = "project.archive" -> [from |-> ProjectStates, to |-> "archived"]
    [] kind = "project.delete" -> [from |-> {"archived"}, to |-> "deleted"]
    [] kind = "project.update" -> [from |-> ProjectStates, to |-> w.status]
    [] OTHER -> [from |-> ProjectStates \cup {"archived"}, to |-> "planning"]

\* previewAITaskBatchAction: one row that cannot take the action refuses them all.
BatchAccepts(c, w) ==
  /\ Gives(c.name) => w.status \notin Terminal
  /\ c.name = "set_assignee" => c.value # w.holder
  /\ c.name = "set_reviewer" => w.holder = "nobody"
  /\ Ends(c.name) => w.holder # "nobody"
  /\ c.name \in {"set_reviewer", "clear_reviewer"} => w.holder # "person"
  /\ Allowed(c.name, w, w.holder # "nobody")
Previews(a, w) ==
  LET k == a.kind  c == a.changes IN
  IF k = "task.update" THEN
         "review_policy" \in DOMAIN c /\ c.review_policy # w.policy
           => w.status = "todo" /\ ~w.submitted
  ELSE IF k = "task.delete" THEN ~w.held
  ELSE IF w.of = "task" THEN Allowed(Name(k), w, w.assigned)
  ELSE IF w.of = "batch" THEN BatchAccepts(c, w)
  ELSE IF w.of = "drafts" THEN w.project \in ProjectStates
  ELSE IF w.of \in {"place", "turn"} THEN Place(c, w) # w.at
  ELSE IF k \in {"roadmap_milestone.update", "roadmap_milestone.archive"} THEN w.status # "archived"
  ELSE IF k \in {"roadmap_milestone.restore", "roadmap_milestone.delete"} THEN w.status = "archived"
  ELSE IF w.of = "project" THEN w.status \in ProjectGoes(k, w).from
  ELSE TRUE

TaskRow(w) ==
  [title |-> "old", review_policy |-> w.policy, tags |-> "old", parent |-> "old"]
TitleCleaned(c) == [c EXCEPT !.title = Clean([title |-> c.title]).title]
Stored(c) == IF "title" \in DOMAIN c THEN TitleCleaned(c) ELSE c
NewTask == [review_policy |-> "none", status |-> "todo"]
Rollup(c, w) ==
  /\ c.review_policy = "manual" /\ w.policy = "none" /\ w.assigned /\ w.reviewed
  /\ w.sub.completed > 0 /\ w.sub.completed = w.sub.total - w.sub.cancelled
PolicyShown(c, w) ==
  [status |-> IF Rollup(c, w) THEN "waiting_review" ELSE w.status, subtasks |-> w.sub,
   gates_ready |-> w.assigned /\ w.reviewed, will_request_review |-> Rollup(c, w)]
Milestone(w) ==
  [title |-> "old", description |-> "old", status |-> w.status, quarter |-> "old",
   project_ids |-> IF w.projects > 0 THEN "old" ELSE "none"]
NewMilestone == [description |-> "null", status |-> "planned", project_ids |-> "none"]
Tag == [name |-> "old", color |-> "old"]

Before(a, w) ==
  LET k == a.kind  c == a.changes IN
  IF k \in {"task.create", "task.delete", "tag.create", "task_view.create",
              "roadmap_milestone.create", "project.create"} THEN Nothing
  ELSE IF w.of \in {"batch", "drafts", "place", "turn"} THEN Nothing
  ELSE IF k = "task.update" THEN
         Cut(TaskRow(w), DOMAIN c)
           @@ (IF "review_policy" \in DOMAIN c THEN [status |-> w.status] ELSE Nothing)
  ELSE IF k = "tag.update" THEN Cut(Tag, DOMAIN c)
  ELSE IF k = "tag.delete" THEN Tag @@ [tag_version |-> "own"]
  ELSE IF w.of = "view" THEN [name |-> "old"]
  ELSE IF k = "roadmap_milestone.update" THEN Cut(Milestone(w), DOMAIN c)
  ELSE IF k = "roadmap_milestone.delete" THEN [status |-> w.status, version |-> "own"]
  ELSE IF w.of = "milestone" THEN Cut(Milestone(w), {"status", "project_ids"})
  ELSE IF k = "project.update" THEN [name |-> "old"]
  ELSE IF k = "project.delete" THEN [status |-> w.status, version |-> "own"]
  ELSE [status |-> w.status]

After(a, w) ==
  LET k == a.kind  c == a.changes IN
  IF k = "task.create" THEN Stored(c) @@ NewTask
  ELSE IF k = "task.update" THEN
         Stored(c) @@ (IF "review_policy" \in DOMAIN c THEN PolicyShown(c, w) ELSE Nothing)
  ELSE IF k = "task.delete" THEN [task_deleted |-> "yes", children |-> w.sub.total]
  ELSE IF w.of = "task" THEN c @@ [status |-> Reached(Name(k))]
  ELSE IF k = "tag.delete" THEN [tag_deleted |-> "yes", detached_tasks |-> w.tasks]
  ELSE IF w.of = "tag" THEN c
  ELSE IF w.of \in {"batch", "drafts"} THEN [count |-> 1]
  ELSE IF w.of \in {"place", "turn"} THEN Nothing
  ELSE IF k = "task_view.delete" THEN Nothing
  ELSE IF w.of = "view" THEN [name |-> IF "name" \in DOMAIN c THEN "new" ELSE "old"]
  ELSE IF k = "roadmap_milestone.create" THEN Clean(c) @@ NewMilestone
  ELSE IF k = "roadmap_milestone.update" THEN Clean(c)
  ELSE IF k = "roadmap_milestone.delete" THEN [milestone_deleted |-> "yes", links |-> w.projects]
  ELSE IF w.of = "milestone" THEN
         [status |-> IF k = "roadmap_milestone.restore" THEN w.from ELSE "archived",
          project_ids |-> Milestone(w).project_ids]
  ELSE IF k \in {"project.create", "project.update"} THEN Clean(c)
  ELSE IF k = "project.delete" THEN [project_deleted |-> "yes", tasks |-> w.tasks]
  ELSE
         [status |-> ProjectGoes(k, w).to]
           @@ (IF k = "project.complete" THEN [incomplete |-> w.tasks] ELSE Nothing)

\* The rows of a batch, the drafts of one, the places of a move and a saved view.
BatchRow(c, w) ==
  CASE c.name = "set_priority" -> [field |-> "priority", before |-> w.priority, after |-> c.value]
    [] c.name = "set_due_date" -> [field |-> "due_date", before |-> w.due, after |-> c.value]
    [] c.name \in {"set_project", "set_planned_date", "add_tags"} ->
         [field |-> c.name, before |-> "old", after |-> "new"]
    [] Gives(c.name) \/ Ends(c.name) ->
         [field |-> "actor", before |-> w.holder, after |-> IF Ends(c.name) THEN "nobody" ELSE c.value]
    [] OTHER -> [field |-> "status", before |-> w.status, after |-> Reached(c.name)]
DraftShown(c) ==
  TitleCleaned(Without(c, {"assignee"}))
    @@ [description |-> "null", kind |-> "work", review_policy |-> "none", due |-> "null"]
Answerable(c) ==
  IF "assignee" \notin DOMAIN c THEN {}
  ELSE {c.assignee} \cup (IF DraftShown(c).review_policy = "manual" THEN {"reviewer"} ELSE {})
More(a, w) ==
  LET k == a.kind  c == a.changes IN
  CASE w.of = "batch" -> [name |-> c.name, row |-> BatchRow(c, w), reason |-> Cut(c, {"reason"})]
    [] w.of = "drafts" -> [item |-> DraftShown(c), answers |-> Answerable(c)]
    [] w.of \in {"place", "turn"} ->
         [rows |-> w.rows, from |-> w.at, to |-> Place(c, w), placement |-> c.placement,
          letters |-> IF w.of = "turn" THEN w.letters ELSE 2]
    [] w.of = "view" ->
         [next |-> IF k = "task_view.create" THEN 1 ELSE IF k = "task_view.delete" THEN 0 ELSE 2,
          deleted |-> k = "task_view.delete",
          view |-> c @@ [name |-> "old", definition |-> "old"]]
    [] OTHER -> Nothing

----------------------------------------------------------------------------
(* The client.                                                                *)
Creates(p) == p.kind = "task.create"
\* The rollup that a policy brings about, computed again from what is shown.
ValidTaskReviewPolicy(p) ==
  LET shown == {"status", "subtasks", "gates_ready", "will_request_review"}
      left == p.after.subtasks.total - p.after.subtasks.cancelled
      will == /\ p.before.review_policy = "none" /\ p.changes.review_policy = "manual"
              /\ p.before.status = "todo" /\ left > 0 /\ p.after.subtasks.completed = left
              /\ p.after.gates_ready
  IN IF "review_policy" \notin DOMAIN p.changes
     THEN {"review_policy", "subtasks", "gates_ready", "will_request_review"}
            \cap (DOMAIN p.before \cup DOMAIN p.after) = {}
     ELSE /\ DOMAIN p.before = DOMAIN p.changes \cup {"status"}
          /\ DOMAIN p.after = DOMAIN p.changes \cup shown
          /\ p.changes.review_policy \in Policies /\ p.before.review_policy \in Policies
          /\ p.after.review_policy = p.changes.review_policy
          /\ p.before.status \in Statuses
          /\ p.before.review_policy # p.changes.review_policy => p.before.status = "todo"
          /\ left >= 0 /\ p.after.subtasks.completed <= left
          /\ p.after.will_request_review = will
          /\ p.after.status = IF will THEN "waiting_review" ELSE p.before.status
\* The names of tags and of a parent stand on both sides, or only on the new one.
ValidTaskLink(p, f) ==
  IF f \in DOMAIN p.changes
  THEN f \in DOMAIN p.after /\ (f \in DOMAIN p.before <=> ~Creates(p))
  ELSE f \notin DOMAIN p.before /\ f \notin DOMAIN p.after
ValidTaskDelete(p) ==
  p.changes = Nothing /\ p.before = Nothing
    /\ DOMAIN p.after = {"task_deleted", "children"} /\ p.after.task_deleted = "yes"

ValidTag(p) ==
  CASE p.kind = "tag.create" ->
         /\ p.before = Nothing /\ DOMAIN p.changes = {"name", "color"}
         /\ p.after = p.changes /\ Text(p.after.name)
    [] p.kind = "tag.delete" ->
         /\ p.changes = Nothing /\ p.before.tag_version = "own" /\ Text(p.before.name)
         /\ p.after.tag_deleted = "yes"
    [] OTHER ->
         /\ p.changes # Nothing /\ DOMAIN p.changes \subseteq {"name", "color"}
         /\ DOMAIN p.before = DOMAIN p.changes /\ p.after = p.changes
         /\ \A k \in DOMAIN p.changes : Text(p.changes[k]) /\ Text(p.before[k])

ExpectedField(name) ==
  CASE Gives(name) \/ Ends(name) -> "actor"
    [] name = "set_priority" -> "priority" [] name = "set_due_date" -> "due_date"
    [] name \in {"set_project", "set_planned_date", "add_tags"} -> name
    [] OTHER -> "status"
ValidTaskBatchRow(c, row) ==
  CASE c.name = "set_priority" -> row.after = c.value /\ row.before \in Priorities
    [] c.name = "set_due_date" -> row.after = c.value
    [] Gives(c.name) -> row.after = c.value /\ row.before # c.value
    [] Ends(c.name) -> row.before # "nobody" /\ row.after = "nobody"
    [] OTHER -> TRUE
ValidTaskBatch(p) ==
  LET name == p.changes.name
      reasoned == name \in {"block", "cancel"} \/ Gives(name) \/ Ends(name)
  IN /\ (reasoned <=> "reason" \in DOMAIN p.changes)
     /\ p.more.reason = IF reasoned THEN [reason |-> p.changes.reason] ELSE Nothing
     /\ p.before = Nothing /\ p.after = [count |-> 1] /\ p.more.name = name
     /\ p.more.row.field = ExpectedField(name) /\ ValidTaskBatchRow(p.changes, p.more.row)

ValidTaskBatchCreate(p) ==
  LET c == p.changes  item == p.more.item
      given(k, default) == IF k \in DOMAIN c THEN c[k] ELSE default
  IN /\ p.before = Nothing /\ p.after = [count |-> 1]
     /\ item.title = Clean([title |-> c.title]).title
     /\ item.description = given("description", "null") /\ item.kind = given("kind", "work")
     /\ item.review_policy = given("review_policy", "none") /\ item.due = given("due", "null")
     /\ IF "assignee" \in DOMAIN c
        THEN /\ c.assignee \in p.more.answers
             /\ "reviewer" \in p.more.answers <=> item.review_policy = "manual"
        ELSE p.more.answers = {}

\* validTaskOrderProposal, validRoadmapOrderProposal
ValidOrder(p) ==
  /\ p.before = Nothing /\ p.after = Nothing /\ DOMAIN p.changes = {"placement"}
  /\ p.more.placement = p.changes.placement /\ p.more.letters >= 2
  /\ p.more.rows >= 2 /\ p.more.from \in 1..p.more.rows /\ p.more.to \in 1..p.more.rows
  /\ p.more.from # p.more.to

ValidTaskView(p) ==
  LET v == p.more.view IN
  /\ DOMAIN p.changes \subseteq {"name", "definition"} /\ Says(p.changes, v)
  /\ CASE p.kind = "task_view.create" ->
            p.before = Nothing /\ p.after.name = v.name /\ ~p.more.deleted /\ p.more.next = 1
       [] p.kind = "task_view.delete" ->
            p.before = [name |-> "old"] /\ p.changes = Nothing /\ p.after = Nothing /\ p.more.deleted
       [] OTHER ->
            /\ p.before = [name |-> "old"] /\ p.changes # Nothing /\ p.after = [name |-> v.name]
            /\ ~p.more.deleted /\ p.more.next = 2

ValidRoadmapField(k, v) ==
  CASE k = "title" -> v \in {"old", "new", "padded"}
    [] k = "description" -> v \in {"old", "new", "padded", "null"}
    [] k = "status" -> v \in MilestoneStates
    [] OTHER -> TRUE
ValidRoadmap(p) ==
  LET c == DOMAIN p.changes
      both == {"status", "project_ids"}
      shown(f) == \A k \in DOMAIN f : ValidRoadmapField(k, f[k]) \/ (k = "status" /\ f[k] = "archived")
  IN /\ c \subseteq DOMAIN MilestoneFields
     /\ \A k \in c : ValidRoadmapField(k, p.changes[k])
     /\ CASE p.kind = "roadmap_milestone.delete" ->
               c = {} /\ p.before = [status |-> "archived", version |-> "own"]
                 /\ p.after.milestone_deleted = "yes"
          [] p.kind = "roadmap_milestone.create" ->
               {"title", "quarter"} \subseteq c /\ p.before = Nothing
                 /\ DOMAIN p.after = DOMAIN MilestoneFields /\ shown(p.after)
          [] p.kind = "roadmap_milestone.update" ->
               c # {} /\ DOMAIN p.before = c /\ DOMAIN p.after = c /\ shown(p.before) /\ shown(p.after)
          [] OTHER ->
               /\ c = {} /\ DOMAIN p.before = both /\ DOMAIN p.after = both
               /\ p.before.project_ids = p.after.project_ids /\ shown(p.before) /\ shown(p.after)
ValidProjectDelete(p) ==
  p.changes = Nothing /\ p.before = [status |-> "archived", version |-> "own"]
    /\ DOMAIN p.after = {"project_deleted", "tasks"} /\ p.after.project_deleted = "yes"

Valid(p) ==
  CASE p.kind \in {"task.create", "task.update"} ->
         /\ p.kind = "task.update" => ValidTaskReviewPolicy(p)
         /\ ValidTaskLink(p, "tags") /\ ValidTaskLink(p, "parent")
    [] p.kind = "task.delete" -> ValidTaskDelete(p)
    [] p.of = "tag" -> ValidTag(p)
    [] p.of = "batch" -> ValidTaskBatch(p)
    [] p.of = "drafts" -> ValidTaskBatchCreate(p)
    [] p.of \in {"place", "turn"} -> ValidOrder(p)
    [] p.of = "view" -> ValidTaskView(p)
    [] p.of = "milestone" -> ValidRoadmap(p)
    [] p.kind = "project.delete" -> ValidProjectDelete(p)
    [] OTHER -> TRUE
=============================================================================
