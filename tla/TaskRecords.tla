---------------------------- MODULE TaskRecords ----------------------------
(* A task under the person's commands: its lifecycle, its assignments, the    *)
(* output submitted for review with one artifact of it, and the submission    *)
(* the service makes of finished children; what the strict readers take for   *)
(* true, and the buttons of the task's dialog.                                *)
EXTENDS Naturals

VARIABLE record

Statuses == {"todo", "in_progress", "blocked", "waiting_review", "done", "cancelled"}
Terminal == {"done", "cancelled"}
\* A text, a link and structured data are kept in the row, and treated alike.
Kinds == {"inline", "file"}

NoArtifact == [kind |-> "none", of |-> "none", measured |-> FALSE, integrity |-> "unverified",
               checked |-> FALSE, stored |-> "none", deleted |-> FALSE, reason |-> FALSE,
               needed |-> FALSE]
Init == \E policy \in {"none", "manual"} : record =
  [status |-> "todo", from |-> "none", policy |-> policy,
   submission |-> "none", origin |-> "manual", by |-> "nobody", batch |-> 0,
   history |-> {}, children |-> "none", assignee |-> "none", reviewer |-> FALSE,
   artifact |-> NoArtifact]

Row(fields) == record' = fields
Active == record.status \notin Terminal
AwaitsReview(r) == r.status = "waiting_review" \/ (r.status = "blocked" /\ r.from = "waiting_review")

\* The states in which the service takes a command.
Accepts(command) ==
  CASE command = "start" -> record.status = "todo" /\ record.assignee # "none"
    [] command = "block" -> record.status \in {"todo", "in_progress", "waiting_review"}
    [] command = "unblock" -> record.status = "blocked" /\ record.from # "none"
    [] command = "complete" -> record.status \in {"todo", "in_progress"} /\ record.policy = "none"
    [] command = "cancel" -> Active /\ (AwaitsReview(record) => record.submission = "pending")
    [] command = "reopen" -> record.status \in Terminal
    [] command = "submit" ->
         record.policy = "manual" /\ record.status \in {"todo", "in_progress"}
         /\ record.assignee # "none" /\ record.reviewer
    [] command \in {"accept", "request_changes"} ->
         record.policy = "manual" /\ record.status = "waiting_review"
         /\ record.reviewer /\ record.submission = "pending"
    [] command = "set_policy" -> record.status = "todo" /\ record.history = {}
    [] command = "assign_assignee" -> Active /\ record.assignee = "none"
    [] command = "assign_reviewer" -> Active /\ ~record.reviewer
    [] command = "reassign_assignee" -> Active /\ record.assignee # "none"
    [] command = "end_assignee" -> record.assignee # "none"
    [] command = "end_reviewer" -> record.reviewer
    [] command = "delete_artifact" ->
         record.artifact.kind # "none" /\ ~record.artifact.deleted
         /\ ~record.artifact.needed /\ record.artifact.of # "pending"
    [] command = "download" ->
         record.artifact.kind = "file" /\ ~record.artifact.deleted /\ record.artifact.stored = "intact"
    [] OTHER -> FALSE

----------------------------------------------------------------------------
(* reconcileTaskParentProgress: what the children make of their parent.       *)

GatesReady(r) == r.assignee \in {"owner", "person"} /\ r.reviewer
Requested(r) == [r EXCEPT !.status = "waiting_review", !.submission = "pending",
                   !.origin = "child_rollup", !.by = "system", !.batch = 0,
                   !.history = @ \cup {"rollup"}]
Withdrawn(r) ==
  LET bare == [r EXCEPT !.submission = "none", !.by = "nobody", !.origin = "manual"] IN
  IF r.status = "blocked" THEN [bare EXCEPT !.from = "in_progress"]
  ELSE [bare EXCEPT !.status = "in_progress"]
Reopened(r) == [r EXCEPT !.status = "todo", !.from = "none", !.submission = "none",
                  !.by = "nobody", !.origin = "manual"]
\* Mutant: a rollup that is withdrawn keeps waiting behind a block.
Reconciled_ForgetsBlock(r) ==
  LET ready == r.children = "done" IN
  IF r.origin = "child_rollup" /\ r.submission = "pending" /\ AwaitsReview(r)
    THEN IF ready /\ r.policy = "manual" /\ GatesReady(r) THEN r
         ELSE [r EXCEPT !.submission = "none", !.by = "nobody", !.origin = "manual",
                 !.status = IF @ = "blocked" THEN @ ELSE "in_progress"]
  ELSE IF r.origin = "child_rollup" /\ r.submission = "accepted" /\ r.status = "done" /\ ~ready
    THEN Reopened(r)
  ELSE IF r.status \in {"todo", "in_progress"} /\ r.policy = "manual" /\ ready /\ GatesReady(r)
          /\ r.history \cap {"manual", "rejected"} = {}
    THEN Requested(r)
  ELSE r
Reconciled(r) ==
  LET ready == r.children = "done" IN
  IF r.origin = "child_rollup" /\ r.submission = "pending" /\ AwaitsReview(r)
    THEN IF ready /\ r.policy = "manual" /\ GatesReady(r) THEN r ELSE Withdrawn(r)
  ELSE IF r.origin = "child_rollup" /\ r.submission = "accepted" /\ r.status = "done" /\ ~ready
    THEN Reopened(r)
  ELSE IF r.status \in {"todo", "in_progress"} /\ r.policy = "manual" /\ ready /\ GatesReady(r)
          /\ r.history \cap {"manual", "rejected"} = {}
    THEN Requested(r)
  ELSE r

----------------------------------------------------------------------------
(* The commands.                                                              *)

Ended(r) == [r EXCEPT !.assignee = "none", !.reviewer = FALSE]
\* A review or a withdrawal is the state of every artifact of the batch.
Judged(r, verdict) ==
  [r EXCEPT !.submission = verdict,
     !.artifact.of = IF @ = "pending" THEN verdict ELSE @]

Start == Accepts("start") /\ Row(Reconciled([record EXCEPT !.status = "in_progress"]))
Block == Accepts("block") /\ Row([record EXCEPT !.status = "blocked", !.from = record.status])
Unblock == Accepts("unblock")
  /\ Row(Reconciled([record EXCEPT !.status = record.from, !.from = "none"]))
Complete == Accepts("complete") /\ Row(Ended([record EXCEPT !.status = "done"]))
Cancel == Accepts("cancel") /\
  LET left == IF AwaitsReview(record) THEN Judged(record, "withdrawn") ELSE record IN
  Row(Ended([left EXCEPT !.status = "cancelled", !.from = "none"]))
Reopen == Accepts("reopen")
  /\ Row([record EXCEPT !.status = "todo", !.from = "none", !.submission = "none",
       !.by = "nobody", !.origin = "manual"])

\* Mutant: a new artifact counts as checked whatever it is.
Written_AllChecked(kind) ==
  [NoArtifact EXCEPT !.kind = kind, !.of = "pending", !.measured = (kind = "file"),
     !.integrity = IF kind = "file" THEN "verified" ELSE "unverified",
     !.checked = TRUE, !.stored = IF kind = "file" THEN "intact" ELSE "none"]
\* A file is stored and measured before the row is written; anything else is not.
Written(kind) ==
  [NoArtifact EXCEPT !.kind = kind, !.of = "pending", !.measured = (kind = "file"),
     !.integrity = IF kind = "file" THEN "verified" ELSE "unverified",
     !.checked = (kind = "file"), !.stored = IF kind = "file" THEN "intact" ELSE "none"]

\* The batch of a summary alone leaves the artifact of an earlier one where it is.
Submit == Accepts("submit") /\ \E kind \in Kinds \cup {"none"} :
  Row([record EXCEPT !.status = "waiting_review", !.submission = "pending",
    !.origin = "manual", !.by = IF record.assignee = "agent" THEN "agent" ELSE "owner",
    !.batch = IF kind = "none" THEN 0 ELSE 1, !.history = @ \cup {"manual"},
    !.artifact = IF kind = "none" THEN @ ELSE Written(kind)])
Accept == Accepts("accept") /\ Row(Ended([Judged(record, "accepted") EXCEPT !.status = "done"]))
\* Mutant: a task that is sent back starts over.
RequestChanges_StartsOver == Accepts("request_changes")
  /\ Row([Judged(record, "changes_requested") EXCEPT !.status = "todo",
       !.history = @ \cup (IF record.origin = "child_rollup" THEN {"rejected"} ELSE {})])
RequestChanges == Accepts("request_changes")
  /\ Row([Judged(record, "changes_requested") EXCEPT !.status = "in_progress",
       !.history = @ \cup (IF record.origin = "child_rollup" THEN {"rejected"} ELSE {})])

SetPolicy == Accepts("set_policy") /\ \E policy \in {"none", "manual"} :
  Row(IF policy = record.policy THEN record ELSE Reconciled([record EXCEPT !.policy = policy]))

Assign == \E actor \in {"owner", "person", "agent"} :
  /\ Accepts("assign_assignee") \/ Accepts("reassign_assignee")
  /\ Row(Reconciled([record EXCEPT !.assignee = actor]))
AssignReviewer == Accepts("assign_reviewer") /\ Row(Reconciled([record EXCEPT !.reviewer = TRUE]))
EndAssignee == Accepts("end_assignee") /\ Row(Reconciled([record EXCEPT !.assignee = "none"]))
EndReviewer == Accepts("end_reviewer") /\ Row(Reconciled([record EXCEPT !.reviewer = FALSE]))

\* A child is added, moved, finished, cancelled or reopened, with its parent.
ChildrenChange == \E children \in {"none", "open", "done"} :
  Row(Reconciled([record EXCEPT !.children = children]))

DeleteArtifact == Accepts("delete_artifact")
  /\ Row([record EXCEPT !.artifact.deleted = TRUE, !.artifact.reason = TRUE,
       !.artifact.integrity = IF record.artifact.stored = "gone" THEN "missing" ELSE @,
       !.artifact.checked = @ \/ record.artifact.stored = "gone"])
\* An active Agent Run was given the artifact, or an active inbox item follows it up;
\* the one ends, and the other is resolved or dismissed.
Need == record.artifact.of \in {"accepted", "changes_requested"} /\ ~record.artifact.deleted
  /\ Row([record EXCEPT !.artifact.needed = ~@])
Spoil == record.artifact.stored = "intact" /\ \E stored \in {"gone", "damaged"} :
  Row([record EXCEPT !.artifact.stored = stored])
Download == record.artifact.kind = "file" /\ ~record.artifact.deleted
  /\ Row([record EXCEPT !.artifact.checked = TRUE, !.artifact.integrity =
       CASE record.artifact.stored = "intact" -> "verified"
         [] record.artifact.stored = "gone" -> "missing"
         [] OTHER -> "mismatch"])

Next ==
  \/ Start \/ Block \/ Unblock \/ Complete \/ Cancel \/ Reopen
  \/ Submit \/ Accept \/ RequestChanges \/ SetPolicy
  \/ Assign \/ AssignReviewer \/ EndAssignee \/ EndReviewer \/ ChildrenChange
  \/ DeleteArtifact \/ Need \/ Spoil \/ Download
Spec == Init /\ [][Next]_record

----------------------------------------------------------------------------
(* The strict readers of the client.                                          *)

\* normalizeTaskArtifactSummary, normalizeTaskArtifact
ArtifactReads == LET a == record.artifact IN
  a.kind # "none" =>
    /\ a.kind = "file" <=> a.measured
    /\ a.integrity = "unverified" <=> ~a.checked
    /\ a.deleted <=> a.reason
\* normalizeTaskSubmission
SubmissionReads ==
  /\ record.origin = "child_rollup" => record.by = "system" /\ record.batch = 0
  /\ record.batch = 1 /\ record.submission # "none" => record.artifact.of = record.submission
Reads == ArtifactReads /\ SubmissionReads

----------------------------------------------------------------------------
(* What the client demands of the answer to a command.                        *)

SubmitAnswer == Submit =>
  /\ record'.submission # "none" /\ record'.origin = "manual"
  /\ record'.batch = 1 => record'.artifact.of = record'.submission
ReviewAnswer ==
  /\ Accept => record'.status = "done" /\ record'.submission = "accepted"
  /\ RequestChanges => record'.status = "in_progress" /\ record'.submission = "changes_requested"
DeleteAnswer == DeleteArtifact => record'.artifact.deleted
AssignmentAnswer ==
  /\ Assign => record'.assignee # "none"
  /\ AssignReviewer => record'.reviewer
  /\ EndAssignee => record'.assignee = "none"
Answers == SubmitAnswer /\ ReviewAnswer /\ DeleteAnswer /\ AssignmentAnswer

----------------------------------------------------------------------------
(* The buttons of the task's dialog.                                          *)

\* availableActions; the start button says that it needs an assignee.
LifecycleOffers ==
  CASE record.status = "todo" ->
         {"block", "cancel"} \cup (IF record.policy = "none" THEN {"complete"} ELSE {})
         \cup (IF record.assignee # "none" THEN {"start"} ELSE {})
    [] record.status = "in_progress" ->
         {"block", "cancel"} \cup (IF record.policy = "none" THEN {"complete"} ELSE {})
    [] record.status = "waiting_review" -> {"block", "cancel"}
    [] record.status = "blocked" -> {"unblock", "cancel"}
    [] OTHER -> {"reopen"}
\* TaskOutputsSection: the batch editor, and the panel of the review.
SubmitOffers ==
  IF record.policy = "manual" /\ record.status \in {"todo", "in_progress"}
     /\ record.assignee # "none" /\ record.reviewer
  THEN {"submit"} ELSE {}
ReviewOffers ==
  IF record.policy = "manual" /\ record.status = "waiting_review"
     /\ record.reviewer /\ record.submission = "pending"
  THEN {"accept", "request_changes"} ELSE {}
\* TaskArtifactCard, with the integrity of an up-to-date file
ArtifactOffers == LET a == record.artifact IN
  IF a.kind = "none" \/ a.deleted THEN {}
  ELSE (IF a.of # "pending" THEN {"delete_artifact"} ELSE {})
       \cup (IF a.kind = "file" /\ a.integrity \notin {"missing", "mismatch"} /\ a.stored = "intact"
             THEN {"download"} ELSE {})
\* The card does not know who else needs the artifact.
StillNeeded(command) == command = "delete_artifact" /\ record.artifact.needed
\* AssignmentCard: an ended task takes no new assignment.
AssignmentOffers ==
  (IF record.assignee = "none" THEN IF Active THEN {"assign_assignee"} ELSE {}
   ELSE {"end_assignee"} \cup (IF Active THEN {"reassign_assignee"} ELSE {}))
  \cup (IF record.reviewer THEN {"end_reviewer"} ELSE IF Active THEN {"assign_reviewer"} ELSE {})
\* TaskDetailModal: a task without review and submission is taken to have no history.
PolicyOffers ==
  LET history == IF record.policy = "manual" \/ record.submission # "none" THEN record.history ELSE {} IN
  IF record.status = "todo" /\ record.submission = "none" /\ history = {} THEN {"set_policy"} ELSE {}
Offers ==
  LifecycleOffers \cup SubmitOffers \cup ReviewOffers \cup ArtifactOffers
  \cup AssignmentOffers \cup PolicyOffers
=============================================================================
