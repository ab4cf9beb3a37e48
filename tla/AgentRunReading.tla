--------------------------- MODULE AgentRunReading ---------------------------
(* One row of agent_runs with its start gate, as the web client reads it.     *)
(* The client refuses the whole answer when one row contradicts itself, so    *)
(* what it refuses, no list or detail can show; of what it accepts, it tells  *)
(* the person one phase, whether it needs them, and whether it is over.       *)
(*                                                                            *)
(* A row is a record: status, delivery; columns, those that are not null;     *)
(* gate, closedFor, slot as projected ("none": the row has no gate or slot);  *)
(* files, whether the detail lists input files.                               *)

Columns == {"started_at", "completed_at", "result_bytes", "error_code",
            "delivery_error", "submission_id", "artifact_id"}
Set(row, column) == column \in row.columns

TimesAgree(row) ==
  CASE row.status = "queued" -> ~Set(row, "completed_at")
    [] row.status = "running" -> Set(row, "started_at") /\ ~Set(row, "completed_at")
    [] OTHER -> Set(row, "started_at") /\ Set(row, "completed_at")

OutcomeAgrees(row) ==
  /\ Set(row, "result_bytes") <=> row.status = "succeeded"
  /\ Set(row, "error_code") <=> row.status = "failed"

\* A submission with its artifact, or a reason, or neither.
DeliveryAgrees(row) ==
  LET output == {"submission_id", "artifact_id"}
      reason == Set(row, "delivery_error")
  IN CASE row.delivery = "submitted" ->
            row.status = "succeeded" /\ ~reason /\ output \subseteq row.columns
       [] row.delivery = "retained" ->
            row.status = "succeeded" /\ reason /\ output \cap row.columns = {}
       [] row.delivery = "pending" ->
            row.status = "running" /\ reason /\ output \cap row.columns = {}
       [] OTHER ->
            row.status # "succeeded" /\ ~reason /\ output \cap row.columns = {}

RunAgrees(row) == TimesAgree(row) /\ OutcomeAgrees(row) /\ DeliveryAgrees(row)

----------------------------------------------------------------------------
\* The gate of a run that was cancelled a moment ago is still waiting.
Settling(row) ==
  row.gate = "waiting" /\ row.status = "cancelled" /\ row.delivery = "not_ready"

SlotAgrees(row) ==
  row.slot # "none" =>
    CASE row.gate = "waiting" -> row.slot \in {"awaiting_predecessor", "awaiting_confirmation"}
      [] row.gate = "released" -> row.slot = "bound"
      [] OTHER -> row.slot = "closed"

\* A waiting gate belongs to a queued run; one closed for its condition has
\* cancelled the run.
GateAgrees(row) ==
  /\ row.gate = "waiting" /\ ~Settling(row) =>
       row.status = "queued" /\ row.delivery = "not_ready"
  /\ row.gate = "closed" /\ row.closedFor # "run_not_queued" =>
       row.status = "cancelled" /\ row.delivery = "not_ready"
  /\ SlotAgrees(row)

\* The detail of a run with a slot lists files exactly when they are bound.
FilesAgree(row) ==
  row.slot # "none" => (row.files <=> row.slot = "bound")

----------------------------------------------------------------------------
\* What the page makes of a gate: a settling one is already closed to it.
ShownGate(row) == IF Settling(row) THEN "closed" ELSE row.gate
ShownReason(row) == IF Settling(row) THEN "run_not_queued" ELSE row.closedFor

Told(phase, attention, terminal, why) ==
  [phase |-> phase, attention |-> attention, terminal |-> terminal, why |-> why]

\* agentRunLifecycle, for a read that carries no review.
Lifecycle(row) ==
  LET at == <<row.status, row.delivery>>
  IN CASE at = <<"queued", "not_ready">> ->
            IF ShownGate(row) = "waiting"
            THEN Told("pending", row.slot = "awaiting_confirmation", FALSE, "condition")
            ELSE Told("pending", FALSE, FALSE, "queue")
       [] at = <<"cancelled", "not_ready">> ->
            IF ShownGate(row) = "closed" /\ ShownReason(row) # "run_not_queued"
            THEN Told("cancelled", TRUE, TRUE, ShownReason(row))
            ELSE Told("cancelled", FALSE, TRUE, "none")
       [] at = <<"running", "not_ready">> -> Told("running", FALSE, FALSE, "none")
       [] at = <<"running", "pending">> -> Told("recovery_required", TRUE, FALSE, "none")
       [] at = <<"succeeded", "retained">> -> Told("succeeded", TRUE, TRUE, "none")
       [] at = <<"succeeded", "submitted">> -> Told("submitted", FALSE, TRUE, "none")
       [] at = <<"failed", "not_ready">> -> Told("failed", TRUE, TRUE, "failed")
       [] at = <<"interrupted", "not_ready">> -> Told("failed", TRUE, TRUE, "interrupted")
       [] OTHER -> Told("unknown", TRUE, FALSE, "none")

\* The runs a page keeps asking about.
NeedsPolling(row) == row.status \in {"queued", "running"} \/ row.delivery = "pending"
=============================================================================
