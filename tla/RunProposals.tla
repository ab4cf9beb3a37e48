---------------------------- MODULE RunProposals ----------------------------
(* The proposals about an agent's work: starting, retrying and restarting a    *)
(* run, stopping one or several, registering the output a run left behind, and  *)
(* delegating to a child conversation or writing to it again. Of a file it       *)
(* matters whether it is the task's "own" or comes from another task of the      *)
(* "project"; of an output, whether it is "text", a "file" or "files".           *)
EXTENDS ProposalText

Outputs == {"text", "file", "files"}
Unfinished == {"failed", "cancelled", "interrupted"}
Protocols == {"openai_chat", "anthropic_messages"}

\* A task ready for an agent; what it could build on: a submission sent back, an
\* ended run, a run of another task of the project that is still working.
Worlds ==
  {v \in [of : {"task"}, protocol : Protocols, kind : {"local", "remote"}, project : {"p1", "null"},
          sentBack : BOOLEAN, ended : Unfinished \cup {"retained", "none"},
          working : Outputs \cup {"none"}] :
     v.protocol = "anthropic_messages" => v.kind = "remote"}
  \cup {v \in [of : {"ended"}, protocol : Protocols, kind : {"local", "remote"}, status : Unfinished,
               files : {"none", "own", "project"}, output : Outputs, rework : BOOLEAN] :
          v.protocol = "anthropic_messages" => v.kind = "remote"}
  \cup {v \in [of : {"run"}, status : {"queued", "running"}, delivery : {"not_ready", "pending"},
               stopping : BOOLEAN, output : Outputs] :
          /\ v.delivery = "pending" => v.status = "running" /\ ~v.stopping
          /\ v.stopping => v.status = "running"}
  \cup [of : {"chat"}, children : {"none", "three", "four"}, idle : BOOLEAN, knows : BOOLEAN]

StartTexts ==
  [provider |-> {"ready"}, input_file_candidate_ids |-> {"own", "project"},
   output_kind |-> {"file", "files"}, rework |-> {"feedback"}, restart_of_run_id |-> {"ended"},
   start_after |-> {"submitted", "accepted"}, start_after_input |-> {"predecessor_files"}]
Scopes == {"work", "knowledge"}

Act(kind, changes) == [kind |-> kind, changes |-> changes]
Asks(a, key) == key \in DOMAIN a.changes
\* parseAIAgentRunAction, parseAIAgentRunControl, parseAIAgentRunCancelMany,
\* parseAIAgentDelegationAction, parseAIAgentFollowupAction
Actions ==
  [task |-> {Act("agent_run.start", c) : c \in
               {f \in Written(StartTexts) :
                  /\ "provider" \in DOMAIN f
                  /\ "start_after" \in DOMAIN f => "restart_of_run_id" \notin DOMAIN f
                  /\ "start_after_input" \in DOMAIN f =>
                       /\ "start_after" \in DOMAIN f /\ f.start_after = "accepted"
                       /\ {"input_file_candidate_ids", "rework"} \cap DOMAIN f = {}}},
   ended |-> {Act("agent_run.retry", Nothing)},
   run |-> {Act("agent_run.cancel", Nothing), Act("agent_run.recover_output", Nothing)}
     \cup {Act("agent_run.cancel_many", [items |-> s]) : s \in {<<"r1">>, <<"r1", "r2">>}},
   chat |-> {Act(k, [message |-> "new", scopes |-> s]) :
               k \in {"agent_delegate.spawn", "agent_delegate.followup"}, s \in SUBSET Scopes \ {{}}}]

----------------------------------------------------------------------------
(* The service.                                                               *)
\* What a run would be given: chosen now, or once more as it was.
Request(a, w) ==
  IF w.of = "ended" THEN [files |-> w.files, output |-> w.output, rework |-> w.rework, slot |-> FALSE]
  ELSE [files |-> IF Asks(a, "input_file_candidate_ids") THEN a.changes.input_file_candidate_ids ELSE "none",
        output |-> IF Asks(a, "output_kind") THEN a.changes.output_kind ELSE "text",
        rework |-> Asks(a, "rework"), slot |-> Asks(a, "start_after_input")]

\* prepareAgentRun: the contract a run is executed under.
Contract(r, protocol) ==
  IF r.slot THEN "v7"
  ELSE IF r.files = "project" THEN "v6"
  ELSE IF protocol = "anthropic_messages" THEN "v5"
  ELSE IF r.rework THEN "v4"
  ELSE IF r.output = "files" THEN "v3"
  ELSE IF r.files # "none" \/ r.output = "file" THEN "v2"
  ELSE "v1"

\* aiAgentRunPreviewFromPrepared: what is absent is not shown.
Frozen(r, w) ==
  LET version == Contract(r, w.protocol)
      leaves == w.kind = "remote"
      bounded == version # "v5" \/ r.files # "none" \/ r.output # "text"
  IN [protocol |-> w.protocol, kind |-> w.kind, contract |-> version,
      status |-> IF r.rework THEN "in_progress" ELSE "todo",
      project |-> IF w.of = "task" THEN w.project ELSE "p1"]
     @@ (IF w.protocol = "anthropic_messages" THEN [max_output_tokens |-> "8192"] ELSE Nothing)
     @@ (IF r.files # "none" THEN [input_files |-> r.files] ELSE Nothing)
     @@ (IF r.rework THEN [rework_context |-> "feedback"] ELSE Nothing)
     @@ (IF version = "v1" THEN Nothing
         ELSE [output_contract |-> r.output, leaves_device |-> leaves])
     @@ (IF version = "v1" \/ ~bounded THEN Nothing
         ELSE [input_files_leave_device |-> (r.files # "none" \/ r.slot) /\ leaves])
\* previewAIAgentRunStartGate
Gate(a) ==
  [require |-> a.changes.start_after]
  @@ (IF Asks(a, "start_after_input") THEN [input_slot |-> "predecessor_files"] ELSE Nothing)

\* readAIAgentFamily, delegatedAIWorkspaceGrant: knowledge is passed on with its sources.
Granted(a, w) ==
  [message |-> a.changes.message, scopes |-> a.changes.scopes]
  @@ (IF "knowledge" \in a.changes.scopes THEN [knowledge_sources |-> "chosen"] ELSE Nothing)

Previews(a, w) ==
  CASE a.kind = "agent_run.start" ->
         /\ Asks(a, "rework") => w.sentBack
         /\ Asks(a, "restart_of_run_id") => w.ended # "none"
         /\ Asks(a, "start_after") => w.working # "none"
         /\ Asks(a, "start_after_input") => w.working # "text" /\ w.project = "p1"
         /\ Asks(a, "input_file_candidate_ids") /\ a.changes.input_file_candidate_ids = "project" =>
              w.project = "p1"
    [] a.kind = "agent_run.retry" -> TRUE
    [] a.kind = "agent_run.recover_output" -> w.status = "running" /\ w.delivery = "pending"
    [] a.kind \in {"agent_run.cancel", "agent_run.cancel_many"} -> w.delivery = "not_ready" /\ ~w.stopping
    [] a.kind = "agent_delegate.spawn" ->
         w.children # "four" /\ ("knowledge" \in a.changes.scopes => w.knows)
    [] a.kind = "agent_delegate.followup" ->
         w.children # "none" /\ w.idle /\ ("knowledge" \in a.changes.scopes => w.knows)

Before(a, w) == IF a.kind = "agent_run.cancel_many" THEN [runs |-> Len(a.changes.items)] ELSE Nothing
After(a, w) == Before(a, w)
More(a, w) ==
  CASE a.kind = "agent_run.start" ->
         [agent_run_start |->
            Frozen(Request(a, w), w)
            @@ (IF Asks(a, "restart_of_run_id") THEN [restart |-> w.ended] ELSE Nothing)
            @@ (IF Asks(a, "start_after") THEN [start_gate |-> Gate(a)] ELSE Nothing)]
    [] a.kind = "agent_run.retry" ->
         [agent_run_start |-> Frozen(Request(a, w), w), agent_run_retry |-> [status |-> w.status]]
    [] a.kind = "agent_run.recover_output" ->
         [agent_run_recovery |-> [status |-> w.status, output_kind |-> w.output]]
    [] a.kind = "agent_run.cancel" -> [agent_run_cancel |-> [status |-> w.status]]
    [] a.kind = "agent_run.cancel_many" ->
         [agent_run_cancel_many |-> [i \in DOMAIN a.changes.items |->
            [run_id |-> a.changes.items[i], status |-> w.status]]]
    [] a.kind = "agent_delegate.spawn" -> [agent_delegation |-> Granted(a, w) @@ [depth |-> 1]]
    [] OTHER -> [agent_followup |-> Granted(a, w) @@ [child |-> "completed"]]

\* What may have become of the run or the conversation when the card is read.
Later(p) ==
  IF p.kind \in {"agent_run.start", "agent_run.retry"} THEN
         {"queued", "running", "pending", "submitted", "retained", "gone"} \cup Unfinished
  ELSE IF p.kind = "agent_run.recover_output" THEN {"submitted", "retained", "gone"}
  ELSE IF p.of = "run" THEN {"running", "cancelled", "gone"}
  ELSE {"queued", "streaming", "completed", "failed", "cancelled", "gone"}
\* readAIAgentRunResult, readAIAgentRunCancelResult, readAIAgentRunRecoveryResult and
\* readAIAgentFollowupResult know of what is gone; readAIAgentRunCancelManyResult and
\* readAIAgentDelegationResult do not.
Served(p, now) == now = "gone" => p.kind \notin {"agent_run.cancel_many", "agent_delegate.spawn"}
Result(p, now) ==
  IF p.kind \in {"agent_run.cancel_many", "agent_delegate.spawn"} THEN [status |-> now]
  ELSE IF p.kind = "agent_delegate.followup" THEN
         [status |-> IF now = "gone" THEN "unavailable" ELSE now]
  ELSE IF now = "gone" THEN Nothing
  ELSE IF now \in {"submitted", "retained"} THEN [status |-> "succeeded", delivery |-> now]
  ELSE IF now = "pending" THEN [status |-> "running", delivery |-> now]
  ELSE [status |-> now, delivery |-> "not_ready"]
Leads(p, now) ==
  IF p.kind = "agent_run.cancel_many" THEN "agents"
  ELSE IF now = "gone" THEN "nowhere"
  ELSE IF p.of = "chat" THEN "child"
  ELSE IF p.of = "run" /\ now # "submitted" THEN "run"
  ELSE IF now = "submitted" THEN "submission"
  ELSE "new_run"

----------------------------------------------------------------------------
(* The client.                                                                *)
Has(f, key) == key \in DOMAIN f

\* validInputSlotPreview and the gate of a start.
ValidGate(p, s) ==
  LET waits == Has(p.changes, "start_after")
      slot == Has(p.changes, "start_after_input")
  IN /\ waits <=> Has(s, "start_gate")
     /\ slot => waits /\ p.changes.start_after = "accepted"
     /\ waits => /\ p.kind = "agent_run.start" /\ ~Has(p.changes, "restart_of_run_id")
                 /\ DOMAIN s.start_gate = {"require"} \cup (IF slot THEN {"input_slot"} ELSE {})
                 /\ s.start_gate.require = p.changes.start_after
     /\ s.contract = "v7" <=> slot
     /\ slot => ~Has(p.changes, "input_file_candidate_ids") /\ ~Has(s, "input_files") /\ s.project # "null"

ValidRework(p, s) ==
  /\ s.contract = "v4" => Has(s, "rework_context")
  /\ IF Has(s, "rework_context")
     THEN /\ s.contract \in {"v4", "v5", "v6"} /\ s.status = "in_progress"
          /\ p.kind = "agent_run.start" => Has(p.changes, "rework")
     ELSE ~Has(p.changes, "rework")

\* The files shown, and whether the person is told that they leave the device.
ValidFiles(p, s) ==
  LET retries == p.kind = "agent_run.retry"
      wanted == IF Has(p.changes, "output_kind") THEN p.changes.output_kind ELSE "text"
      output == IF Has(s, "output_contract") THEN s.output_contract ELSE "text"
      bounded == s.contract # "v5" \/ Has(s, "input_files") \/ output # "text"
  IN IF s.contract = "v1"
     THEN /\ {"input_files", "output_contract", "input_files_leave_device"} \cap DOMAIN s = {}
          /\ {"input_file_candidate_ids", "output_kind"} \cap DOMAIN p.changes = {}
     ELSE /\ s.contract \in {"v2", "v3"} /\ ~retries =>
               {"input_file_candidate_ids", "output_kind"} \cap DOMAIN p.changes # {}
          /\ Has(s, "output_contract") /\ (~retries => output = wanted)
          /\ Has(s, "leaves_device") /\ s.leaves_device = (s.kind = "remote")
          /\ ~retries => (Has(s, "input_files") <=> Has(p.changes, "input_file_candidate_ids"))
          /\ Has(s, "input_files") => (s.contract = "v6" <=> s.input_files = "project")
          /\ bounded <=> Has(s, "input_files_leave_device")
          /\ bounded => s.input_files_leave_device =
               ((Has(s, "input_files") \/ s.contract = "v7") /\ s.leaves_device)

\* Which protocol the model is spoken to in.
ValidProvider(s) ==
  LET anthropic == s.contract = "v5" \/ (s.contract \in {"v6", "v7"} /\ s.protocol = "anthropic_messages")
  IN /\ IF anthropic THEN s.protocol = "anthropic_messages" /\ s.kind = "remote"
        ELSE s.protocol = "openai_chat"
     /\ Has(s, "max_output_tokens") <=> anthropic

ValidStart(p) ==
  LET s == p.more.agent_run_start
      retries == p.kind = "agent_run.retry"
  IN /\ p.before = Nothing /\ p.after = Nothing
     /\ DOMAIN p.more = {"agent_run_start"} \cup (IF retries THEN {"agent_run_retry"} ELSE {})
     /\ retries => p.changes = Nothing /\ p.more.agent_run_retry.status \in Unfinished
     /\ Has(p.changes, "restart_of_run_id") <=> Has(s, "restart")
     /\ Has(s, "restart") => ~retries /\ s.restart \in Unfinished \cup {"retained"}
     /\ s.status \in {"todo", "in_progress"}
     /\ ValidGate(p, s) /\ ValidRework(p, s) /\ ValidFiles(p, s) /\ ValidProvider(s)

ValidStop(p) ==
  IF p.kind = "agent_run.recover_output"
  THEN p.more.agent_run_recovery.status = "running" /\ p.more.agent_run_recovery.output_kind \in Outputs
  ELSE p.more.agent_run_cancel.status \in {"queued", "running"}
ValidStopMany(p) ==
  LET items == p.more.agent_run_cancel_many IN
  /\ p.before.runs = Len(items) /\ p.after.runs = Len(items) /\ Len(items) = Len(p.changes.items)
  /\ \A i \in DOMAIN items : items[i].run_id = p.changes.items[i] /\ items[i].status \in {"queued", "running"}
  /\ \A i, j \in DOMAIN items : items[i].run_id = items[j].run_id => i = j
ValidDelegation(p) ==
  LET s == IF p.kind = "agent_delegate.spawn" THEN p.more.agent_delegation ELSE p.more.agent_followup
  IN /\ p.before = Nothing /\ p.after = Nothing /\ Text(p.changes.message)
     /\ s.message = p.changes.message /\ s.scopes = p.changes.scopes
     /\ "knowledge" \in s.scopes <=> Has(s, "knowledge_sources")
     /\ p.kind = "agent_delegate.spawn" => s.depth = 1

Valid(p) ==
  IF p.kind \in {"agent_run.start", "agent_run.retry"} THEN ValidStart(p)
  ELSE IF p.kind = "agent_run.cancel_many" THEN ValidStopMany(p)
  ELSE IF p.of = "run" THEN ValidStop(p)
  ELSE ValidDelegation(p)

\* What a confirmed card may say has become of it, and where it leads.
ValidStartReceipt(result, leads) ==
  IF result = Nothing THEN leads = "nowhere"
  ELSE /\ result.delivery \in {"submitted", "retained"} <=> result.status = "succeeded"
       /\ result.delivery = "pending" => result.status = "running"
       /\ leads \in {"new_run"} \cup (IF result.delivery = "submitted" THEN {"submission"} ELSE {})
ValidStopReceipt(p, result, leads) ==
  IF result = Nothing THEN leads = "nowhere"
  ELSE IF p.kind = "agent_run.recover_output"
  THEN /\ result.status = "succeeded" /\ result.delivery \in {"submitted", "retained"}
       /\ leads = IF result.delivery = "submitted" THEN "submission" ELSE "run"
  ELSE result.status \in {"running", "cancelled"} /\ result.delivery = "not_ready" /\ leads = "run"
ValidReceipt(p, result, leads) ==
  IF p.kind \in {"agent_run.start", "agent_run.retry"} THEN ValidStartReceipt(result, leads)
  ELSE IF p.kind = "agent_run.cancel_many" THEN
         result.status \in {"running", "cancelled"} /\ leads = "agents"
  ELSE IF p.of = "run" THEN ValidStopReceipt(p, result, leads)
  ELSE /\ result.status \in {"queued", "streaming", "completed", "failed", "cancelled"}
            \cup (IF p.kind = "agent_delegate.followup" THEN {"unavailable"} ELSE {})
       /\ leads = IF result.status = "unavailable" THEN "nowhere" ELSE "child"
=============================================================================
