--------------------------- MODULE WorkProposals ---------------------------
(* The proposals about a content item and its tasks, a knowledge source and    *)
(* its indexing, a project note, who is assigned to a task, and its output.    *)
EXTENDS ProposalText

ContentStates == {"draft", "in_review", "scheduled", "published", "cancelled", "archived"}
Unpublished == {"draft", "in_review", "scheduled"}
SourceStates == {"pending", "indexing", "ready", "stale", "missing", "failed"}
JobStates == {"queued", "running", "succeeded", "failed", "cancelled"}
MutableProjects == {"planning", "in_progress", "paused", "completed"}
Statuses == {"todo", "in_progress", "blocked", "waiting_review", "done", "cancelled"}
Roles == {"assignee", "reviewer"}

\* An item scheduled has a schedule, one archived remembers where it was.
Worlds ==
  {v \in [of : {"content"}, status : ContentStates, from : Unpublished \cup {"cancelled"},
          schedule : {"old", "null"}, held : BOOLEAN] :
     /\ v.status = "scheduled" => v.schedule = "old"
     /\ v.status # "archived" => v.from = "draft" /\ ~v.held}
  \cup [of : {"relation"}, linked : {"none", "required", "optional"}]
  \cup [of : {"text"}, long : BOOLEAN]
  \cup [of : {"source"}, status : SourceStates, kept : BOOLEAN, documents : 0..1]
  \cup [of : {"job"}, status : SourceStates, documents : 0..1,
        job : JobStates, operation : {"import", "reindex"}]
  \cup [of : {"note"}, project : MutableProjects \cup {"archived"}]
  \cup [of : {"assignment"}, status : Statuses, role : Roles, holder : {"none", "owner", "person"},
        idle : BOOLEAN]
  \cup {v \in [of : {"output"}, status : Statuses, policy : {"none", "manual"},
               assigned : SUBSET Roles, origin : {"manual", "child_rollup"}] :
          v.status = "waiting_review" => v.policy = "manual"}

----------------------------------------------------------------------------
(* What the tool takes. Project, notes and link of an item go the same way, as *)
(* do the two fields of a schedule; the tool's schema has no null for them.    *)
ItemTexts == [title |-> {"new", "padded"}, platform |-> {"new"}, notes |-> {"new", "null"}]
NewItems ==
  {f \in Written(ItemTexts @@ [status |-> Unpublished, schedule |-> {"new"}]) :
     /\ {"title", "platform"} \subseteq DOMAIN f
     /\ "schedule" \in DOMAIN f <=> "status" \in DOMAIN f /\ f.status = "scheduled"}
NoteTexts == [title |-> {"new", "padded"}, body |-> {"new"}]

Act(kind, changes) == [kind |-> kind, changes |-> changes]
Acts(kind, all) == {Act(kind, c) : c \in all}
Plain(kinds) == {Act(k, Nothing) : k \in kinds}
Lifecycle ==
  {"content_item.review", "content_item.cancel", "content_item.reopen", "content_item.archive",
   "content_item.restore"}
\* parseAIContentItemAction, parseAIKnowledgeSourceAction, parseAIProjectNoteAction,
\* parseAIAssignmentAction, parseAITaskOutputAction
Actions ==
  [content |-> Acts("content_item.create", NewItems)
        \cup Acts("content_item.update", Written(ItemTexts) \ {Nothing})
        \cup {Act("content_item.schedule", [schedule |-> "new"])}
        \cup Plain(Lifecycle \cup {"content_item.unschedule", "content_item.delete"})
        \cup Acts("content_item.publish",
                  Written([published_at |-> {"new"}, external_link |-> {"new", "padded", "null"}])),
   relation |-> Acts("content_item.link_task", [required : BOOLEAN])
        \cup Acts("content_item.set_task_required", [required : BOOLEAN])
        \cup Plain({"content_item.unlink_task"}),
   text |-> {Act("knowledge_source.create", [content |-> "new"])},
   source |-> Plain({"knowledge_source.reindex", "knowledge_source.delete"}),
   job |-> Plain({"knowledge_index_job.retry", "knowledge_index_job.cancel"}),
   note |-> Acts("project_note.create", {[title |-> "new", body |-> "new"]})
        \cup Acts("project_note.update", {Clean(f) : f \in Written(NoteTexts) \ {Nothing}})
        \cup {Act("project_note.delete", [reason |-> "new"])},
   assignment |-> Acts("task.assign", [actor : {"owner", "person"}])
        \cup Acts("task.reassign", [actor : {"owner", "person"}, reason : {"new"}])
        \cup {Act("task.unassign", [reason |-> "new"])},
   output |-> Acts("task.submit_output",
                   [summary : {"new", "null"}, artifacts : {"none", "text", "link", "structured"}])
        \cup Acts("task.review", [decision : {"accept", "request_changes"}, reason : {"new"}])
        \cup {Act("task.review", [decision |-> "accept", reason |-> "null"])}]

----------------------------------------------------------------------------
(* The service.                                                               *)
\* contentItemLifecycleTarget: from where, and to where.
Goes(kind, w) ==
  CASE kind = "content_item.review" -> [from |-> {"draft", "scheduled"}, to |-> "in_review"]
    [] kind = "content_item.cancel" -> [from |-> Unpublished, to |-> "cancelled"]
    [] kind = "content_item.reopen" -> [from |-> {"cancelled"}, to |-> "draft"]
    [] kind = "content_item.archive" -> [from |-> Unpublished \cup {"cancelled"}, to |-> "archived"]
    [] kind = "content_item.restore" -> [from |-> {"archived"}, to |-> w.from]
    [] kind = "content_item.schedule" -> [from |-> Unpublished, to |-> "scheduled"]
    [] kind = "content_item.publish" -> [from |-> Unpublished, to |-> "published"]
    [] kind = "content_item.unschedule" ->
         [from |-> IF w.schedule = "null" THEN {} ELSE Unpublished,
          to |-> IF w.status = "scheduled" THEN "draft" ELSE w.status]
    [] kind = "content_item.update" -> [from |-> Unpublished \cup {"cancelled"}, to |-> w.status]
    [] kind = "content_item.delete" -> [from |-> IF w.held THEN {} ELSE {"archived"}, to |-> "deleted"]
    [] OTHER -> [from |-> ContentStates, to |-> "draft"]

\* previewAIContentItemAction, previewAIKnowledgeSourceAction, previewAIProjectNoteAction,
\* previewAIAssignmentAction, previewAITaskOutputAction: what they refuse. The commands
\* that carry the actions out refuse the same.
Previews(a, w) ==
  LET k == a.kind  c == a.changes IN
  CASE w.of = "content" -> w.status \in Goes(k, w).from
    [] k = "content_item.link_task" -> w.linked = "none"
    [] k = "content_item.set_task_required" ->
         w.linked # "none" /\ c.required # (w.linked = "required")
    [] k = "content_item.unlink_task" -> w.linked # "none"
    [] k = "knowledge_source.reindex" -> w.status # "indexing" /\ w.kept
    [] k = "knowledge_index_job.retry" -> w.job \in {"failed", "cancelled"}
    [] k = "knowledge_index_job.cancel" -> w.job \in {"queued", "running"}
    [] w.of = "note" -> w.project \in MutableProjects
    [] w.of = "assignment" ->
         /\ (k = "task.assign") <=> w.holder = "none"
         /\ k # "task.unassign" =>
              /\ w.status \notin {"done", "cancelled"} /\ c.actor # w.holder
              /\ w.role = "reviewer" => c.actor = "owner"
              /\ c.actor = "person" => ~w.idle
    [] k = "task.submit_output" ->
         /\ w.policy = "manual" /\ w.assigned = Roles /\ w.status \in {"todo", "in_progress"}
         /\ c.summary = "null" => c.artifacts # "none"
    [] k = "task.review" ->
         w.policy = "manual" /\ "reviewer" \in w.assigned /\ w.status = "waiting_review"
    [] OTHER -> TRUE

ItemRow(w) ==
  [title |-> "old", platform |-> "old", notes |-> "old", status |-> w.status, schedule |-> w.schedule]
NewItem == [notes |-> "null", status |-> "draft", schedule |-> "null"]
Published(w) == [status |-> w.status, published_at |-> "null", external_link |-> "old"]
Linked(w, state, required) == [relation_state |-> state, is_required |-> required]
Note(w, state) == [project_status |-> w.project, title |-> "old", body |-> "old", note_state |-> state]
Assigned(w, actor) == [actor |-> actor, role |-> w.role, task_status |-> w.status]
Output(w) == [status |-> w.status, review_policy |-> w.policy]
Indexed(w, status) == [status |-> status, documents |-> w.documents]

Before(a, w) ==
  LET k == a.kind IN
  IF k \in {"content_item.create", "knowledge_source.create", "project_note.create"} THEN Nothing
  ELSE IF k = "content_item.update" THEN Cut(ItemRow(w), DOMAIN a.changes)
  ELSE IF k \in {"content_item.schedule", "content_item.unschedule"} THEN
         Cut(ItemRow(w), {"status", "schedule"})
  ELSE IF k = "content_item.publish" THEN Published(w)
  ELSE IF w.of = "content" THEN [status |-> w.status]
  ELSE IF w.of = "relation" THEN
         Linked(w, IF w.linked = "none" THEN "unlinked" ELSE "linked", w.linked = "required")
  ELSE IF w.of = "source" THEN Indexed(w, w.status)
  ELSE IF w.of = "job" THEN Indexed(w, w.status) @@ [job_status |-> w.job]
  ELSE IF w.of = "note" THEN Note(w, "visible")
  ELSE IF w.of = "assignment" THEN Assigned(w, w.holder)
  ELSE Output(w)

After(a, w) ==
  LET k == a.kind  c == a.changes  to == Goes(k, w).to IN
  IF k = "content_item.create" THEN Clean(c) @@ NewItem
  ELSE IF k = "content_item.update" THEN Clean(c)
  ELSE IF k = "content_item.schedule" THEN c @@ [status |-> to]
  ELSE IF k = "content_item.unschedule" THEN [status |-> to, schedule |-> "null"]
  ELSE IF k = "content_item.publish" THEN
         [status |-> to] @@ Clean(c)
           @@ [published_at |-> "confirmation_time", external_link |-> "old"]
  ELSE IF k = "content_item.delete" THEN [content_item_deleted |-> "yes"]
  ELSE IF w.of = "content" THEN [status |-> to]
  ELSE IF k = "content_item.unlink_task" THEN Linked(w, "unlinked", w.linked = "required")
  ELSE IF w.of = "relation" THEN Linked(w, "linked", c.required)
  ELSE IF k = "knowledge_source.create" THEN [status |-> "indexing"]
  ELSE IF k = "knowledge_source.delete" THEN [status |-> "deleted", documents |-> 0]
  ELSE IF k = "knowledge_source.reindex" THEN Indexed(w, "indexing")
  ELSE IF k = "knowledge_index_job.retry" THEN Indexed(w, "indexing") @@ [job_status |-> "queued"]
  ELSE IF k = "knowledge_index_job.cancel" THEN
         Indexed(w, IF w.documents > 0 THEN "ready" ELSE "failed") @@ [job_status |-> "cancelled"]
  ELSE IF w.of = "note" THEN c @@ Note(w, IF k = "project_note.delete" THEN "deleted" ELSE "visible")
  ELSE IF w.of = "assignment" THEN
         Assigned(w, IF k = "task.unassign" THEN "none" ELSE c.actor) @@ Without(c, {"actor"})
  ELSE IF k = "task.submit_output" THEN
         [status |-> "waiting_review", submission |-> "pending_review", origin |-> "manual"] @@ Output(w)
  ELSE
         (IF c.decision = "accept" THEN [status |-> "done", submission |-> "accepted"]
          ELSE [status |-> "in_progress", submission |-> "changes_requested"])
           @@ [origin |-> w.origin, reason |-> c.reason] @@ Output(w)

\* aiKnowledgeSourcePreview, whose false flags are not written at all; and what
\* is handed in or reviewed, with who is there to do it.
More(a, w) ==
  LET k == a.kind IN
  CASE k = "knowledge_source.create" ->
         [status |-> "pending", next_status |-> "indexing", job |-> "import",
          excerpt |-> IF w.long THEN "start" ELSE "new"]
           @@ (IF w.long THEN [truncated |-> TRUE] ELSE Nothing)
    [] w.of = "source" ->
         [status |-> w.status, next_status |-> After(a, w).status, documents |-> w.documents]
           @@ (IF k = "knowledge_source.reindex" THEN [job |-> "reindex"] ELSE Nothing)
    [] w.of = "job" ->
         [status |-> w.status, next_status |-> After(a, w).status, documents |-> w.documents,
          was |-> w.job, job |-> w.operation]
    [] k = "task.submit_output" ->
         [summary |-> a.changes.summary, artifacts |-> a.changes.artifacts, assigned |-> w.assigned]
    [] k = "task.review" -> [summary |-> "old", artifacts |-> "file", assigned |-> w.assigned]
    [] OTHER -> Nothing

----------------------------------------------------------------------------
(* The client.                                                                *)
\* A title may stand between blanks; of the rest a value or nothing.
ContentItemField(f, v) ==
  CASE f = "status" -> v \in ContentStates
    [] f \in {"title", "platform"} -> v \in {"old", "new", "padded"}
    [] OTHER -> v \in {"old", "new", "padded", "null"}
ItemFields == DOMAIN ItemTexts

ValidContentItemPublish(p) ==
  /\ DOMAIN p.before = {"status", "published_at", "external_link"} /\ DOMAIN p.after = DOMAIN p.before
  /\ p.before.status \in Unpublished /\ p.before.published_at = "null"
  /\ p.after.status = "published"
  /\ p.after.published_at =
       IF "published_at" \in DOMAIN p.changes THEN p.changes.published_at ELSE "confirmation_time"
  /\ p.after.external_link =
       IF "external_link" \in DOMAIN p.changes THEN Clean(p.changes).external_link
       ELSE p.before.external_link
ValidContentItemTask(p) ==
  LET was == p.before.relation_state  is == p.after.relation_state IN
  CASE p.kind = "content_item.link_task" ->
         /\ was = "unlinked" /\ ~p.before.is_required
         /\ is = "linked" /\ p.after.is_required = p.changes.required
    [] p.kind = "content_item.set_task_required" ->
         /\ was = "linked" /\ is = "linked"
         /\ p.after.is_required = p.changes.required /\ p.before.is_required # p.after.is_required
    [] OTHER ->
         was = "linked" /\ is = "unlinked" /\ p.before.is_required = p.after.is_required
ValidContentItemProposal(p) ==
  LET c == DOMAIN p.changes
      fields == \A f \in {p.before, p.after} : \A k \in DOMAIN f : ContentItemField(k, f[k])
      schedule == {"status", "schedule"}
  IN CASE p.kind = "content_item.create" ->
            /\ {"title", "platform"} \subseteq c /\ p.before = Nothing
            /\ \A k \in c : ContentItemField(k, p.changes[k])
            /\ DOMAIN p.after = ItemFields \cup schedule /\ p.after.status \in Unpublished
            /\ "schedule" \in c => p.after.status = "scheduled"
            /\ fields
       [] p.kind = "content_item.update" ->
            /\ c # {} /\ c \subseteq ItemFields /\ DOMAIN p.before = c /\ DOMAIN p.after = c
            /\ \A k \in c : ContentItemField(k, p.changes[k])
            /\ fields
       [] p.kind = "content_item.schedule" ->
            /\ c = {"schedule"} /\ DOMAIN p.before = schedule /\ DOMAIN p.after = schedule
            /\ p.after.status = "scheduled" /\ p.after.schedule # "null" /\ fields
       [] p.kind = "content_item.unschedule" ->
            /\ c = {} /\ DOMAIN p.before = schedule /\ DOMAIN p.after = schedule
            /\ p.after.schedule = "null" /\ fields
       [] p.kind = "content_item.delete" ->
            c = {} /\ p.before = [status |-> "archived"] /\ p.after = [content_item_deleted |-> "yes"]
       [] OTHER -> p.kind \in Lifecycle /\ c = {} /\ DOMAIN p.before = {"status"}
                     /\ DOMAIN p.after = {"status"} /\ fields

ValidKnowledgeCreate(p) ==
  /\ p.more.status = "pending" /\ p.more.next_status = "indexing" /\ p.more.job = "import"
  /\ "truncated" \in DOMAIN p.more
  /\ p.more.excerpt = IF p.more.truncated THEN "start" ELSE p.changes.content
  /\ p.before = Nothing /\ p.after.status = "indexing"
ValidKnowledgeProposal(p) ==
  LET deletes == p.kind = "knowledge_source.delete" IN
  /\ p.more.status \in SourceStates
  /\ p.before.status = p.more.status /\ p.before.documents = p.more.documents
  /\ p.after.documents = IF deletes THEN 0 ELSE p.before.documents
  /\ CASE deletes -> p.more.next_status = "deleted" /\ p.after.status = "deleted"
       [] p.kind = "knowledge_source.reindex" ->
            p.more.next_status = "indexing" /\ p.more.job = "reindex" /\ p.after.status = "indexing"
       [] p.kind = "knowledge_index_job.retry" ->
            /\ p.more.was \in {"failed", "cancelled"} /\ p.more.next_status = "indexing"
            /\ p.more.job \in {"import", "reindex"} /\ p.after.job_status = "queued"
       [] OTHER ->
            /\ p.more.was \in {"queued", "running"} /\ p.more.next_status \in {"ready", "failed"}
            /\ p.after.job_status = "cancelled" /\ p.before.job_status = p.more.was
            /\ p.after.status = p.more.next_status
  /\ p.changes = Nothing

NoteFields(f, removes) ==
  /\ {"project_status", "title", "body", "note_state"} \subseteq DOMAIN f
  /\ f.project_status \in MutableProjects /\ Text(f.title) /\ Text(f.body)
  /\ removes \/ "reason" \notin DOMAIN f
ValidProjectNoteProposal(p) ==
  LET creates == p.kind = "project_note.create"
      removes == p.kind = "project_note.delete"
      c == DOMAIN p.changes
  IN /\ NoteFields(p.after, removes) /\ p.after.note_state = IF removes THEN "deleted" ELSE "visible"
     /\ IF creates THEN p.before = Nothing
        ELSE NoteFields(p.before, FALSE) /\ p.before.note_state = "visible"
     /\ c # {} /\ c \subseteq (IF removes THEN {"reason"} ELSE {"title", "body"})
     /\ creates => c = {"title", "body"}
     /\ Says(p.changes, p.after)
     /\ ~creates => Says(Without(p.before, c \cup {"note_state"}), p.after)

ValidAssignmentProposal(p) ==
  LET assigns == p.kind = "task.assign"
      ends == p.kind = "task.unassign"
      same == {"role", "task_status"}
  IN /\ p.before.actor \in IF assigns THEN {"none"} ELSE {"owner", "person"}
     /\ p.after.actor \in IF ends THEN {"none"} ELSE {p.changes.actor}
     /\ p.after.role = "reviewer" /\ ~ends => p.after.actor = "owner"
     /\ ~assigns => p.after.reason = p.changes.reason /\ p.before.actor # p.after.actor
     /\ p.before.task_status \in Statuses \ (IF ends THEN {} ELSE {"done", "cancelled"})
     /\ Cut(p.before, same) = Cut(p.after, same)

\* validTaskOutputProposal: who is there, what is handed in, and what becomes of it.
ValidTaskOutputProposal(p) ==
  LET submits == p.kind = "task.submit_output"
      accepts == p.changes.decision = "accept"
  IN /\ p.before.review_policy = "manual" /\ p.after.review_policy = "manual"
     /\ "reviewer" \in p.more.assigned
     /\ IF submits
        THEN /\ "assignee" \in p.more.assigned /\ p.more.artifacts # "file"
             /\ p.before.status \in {"todo", "in_progress"} /\ p.after.status = "waiting_review"
             /\ p.after.submission = "pending_review" /\ p.after.origin = "manual"
             /\ Says(p.changes, p.more)
             /\ p.more.summary # "null" \/ p.more.artifacts # "none"
        ELSE /\ p.before.status = "waiting_review"
             /\ IF accepts THEN OptionalText(p.changes.reason) ELSE Text(p.changes.reason)
             /\ p.changes.reason = p.after.reason
             /\ p.after.status = IF accepts THEN "done" ELSE "in_progress"
             /\ p.after.submission = IF accepts THEN "accepted" ELSE "changes_requested"
             /\ p.after.origin \in {"manual", "child_rollup"}

Valid(p) ==
  IF p.kind = "content_item.publish" THEN ValidContentItemPublish(p)
  ELSE IF p.of = "content" THEN ValidContentItemProposal(p)
  ELSE IF p.of = "relation" THEN ValidContentItemTask(p)
  ELSE IF p.of = "text" THEN ValidKnowledgeCreate(p)
  ELSE IF p.of \in {"source", "job"} THEN ValidKnowledgeProposal(p)
  ELSE IF p.of = "note" THEN ValidProjectNoteProposal(p)
  ELSE IF p.of = "assignment" THEN ValidAssignmentProposal(p)
  ELSE ValidTaskOutputProposal(p)
=============================================================================
