---------------------------- MODULE PlanRecords ----------------------------
(* The latest work plan of a saved conversation: steps the model writes down,  *)
(* revision by revision, and binds to proposals a person decides. What the      *)
(* service makes of it from the receipts, whether it may be carried on or       *)
(* closed, and what the page reads, counts and offers.                          *)
EXTENDS Naturals, Sequences, FiniteSets

VARIABLE record

Turns == 1 .. 2        \* bound: the generations of the conversation
MostSteps == 3         \* bound: the steps of the plan
Outside == 4           \* a failed run that no step of the plan started
None == 0

Runs == {"agent_run.start", "agent_run.retry"}
BatchCancel == "agent_run.cancel_many"
Delegations == {"agent_delegate.spawn"}
Kinds == Runs \cup Delegations \cup
  {"agent_run.cancel", BatchCancel, "automation.retry", "finance.export_csv", "task.update"}
\* A run that failed stands for one that was cancelled or interrupted too, a proposal
\* that was rejected for one that expired: no rule of a plan tells them apart.
Lost == {"failed"}

Analysis(report) == [kind |-> "analysis", report |-> report]
\* A step of which nothing is proposed yet, and one bound to a proposal of a turn;
\* of is the step whose run it retries or starts anew.
Unbound(replaces) == [kind |-> "action", does |-> "nothing", replaces |-> replaces]
Bound(does, turn, of, replaces) ==
  [kind |-> "action", does |-> does, turn |-> turn, of |-> of, replaces |-> replaces,
   status |-> "pending", result |-> "nothing"]

Init == record =
  [turns |-> [t \in Turns |-> "none"], author |-> None, steps |-> <<>>, closed |-> FALSE,
   sibling |-> None, leased |-> FALSE]

Steps(r) == DOMAIN r.steps
Actions(r) == {i \in Steps(r) : r.steps[i].kind = "action"}
BoundSteps(r) == {i \in Actions(r) : r.steps[i].does # "nothing"}
Replacing(r) == {i \in Actions(r) : r.steps[i].replaces # None}
Superseded(r) == {r.steps[j].replaces : j \in Replacing(r)}
Current(r) == Steps(r) \ Superseded(r)
Active(r) == \E t \in Turns : r.turns[t] = "streaming"

----------------------------------------------------------------------------
(* What the service makes of the plan.                                        *)
\* aiActionOutput: a proposal whose turn did not complete cannot be decided any more.
Status(r, i) ==
  IF r.steps[i].status = "pending" /\ r.turns[r.steps[i].turn] \in {"failed", "cancelled"}
  THEN "unavailable" ELSE r.steps[i].status
\* aiWorkPlanActionState and the projection of a step that is not an action.
State(r, i) ==
  LET s == r.steps[i] IN
  CASE s.kind = "analysis" ->
         IF s.report = "in_progress" /\ r.turns[r.author] # "streaming"
         THEN "awaiting_continuation" ELSE s.report
    [] s.kind = "action" /\ s.does = "nothing" -> "not_proposed"
    [] s.kind = "action" /\ s.does # "nothing" /\ Status(r, i) # "confirmed" -> Status(r, i)
    [] OTHER -> s.result
Satisfied(r, i) ==
  LET s == r.steps[i] IN
  IF s.kind = "analysis" THEN s.report = "reported_done"
  ELSE /\ s.does # "nothing" /\ s.status = "confirmed"
       /\ \/ s.does \in Runs /\ s.result = "submitted"
          \/ s.does \in {"agent_run.cancel", BatchCancel} /\ s.result = "cancelled"
          \/ s.does \in Delegations /\ s.result = "completed"
          \/ s.does = "automation.retry" /\ s.result = "succeeded"
          \/ s.does = "task.update"
\* Every action waits for the analysis the plan begins with, if it does.
Needs(r, i) == IF i > 1 /\ r.steps[1].kind = "analysis" THEN {1} ELSE {}
Ready(r, i) == \A d \in Needs(r, i) : Satisfied(r, d)
Complete(r) == \A i \in Current(r) : Ready(r, i) /\ Satisfied(r, i)

\* projectAIWorkPlanReplacements: the run a replacement has to carry on.
Restarts(r, i) == r.steps[i].does = "agent_run.start" /\ r.steps[i].of # None
Anchor(r) ==
  LET anchor[j \in Steps(r)] ==
        IF j \notin Replacing(r) THEN None
        ELSE LET i == r.steps[j].replaces IN
             IF Status(r, i) = "confirmed" THEN i
             ELSE IF Restarts(r, i) THEN r.steps[i].of ELSE anchor[i]
  IN anchor
Retryable(r, run) == IF run = Outside THEN TRUE ELSE r.steps[run].result \in Lost
ReplacementHolds(r, j) ==
  LET i == r.steps[j].replaces  run == Anchor(r)[j] IN
  /\ i \in BoundSteps(r)
  /\ \/ Status(r, i) = "rejected"
     \/ Status(r, i) = "confirmed" /\ r.steps[i].does \in Runs
        /\ r.steps[i].result \in Lost \cup {"retained"}
  /\ run # None =>
       /\ j \in BoundSteps(r) /\ r.steps[j].of = run
       /\ r.steps[j].does = "agent_run.retry" => Retryable(r, run)
       /\ r.steps[j].does \in Runs
Projected(r) == \A j \in Replacing(r) : ReplacementHolds(r, j)

\* aiPlanContinuationActionBlocker, for a proposal of one of the plan's turns.
Blocker(r, i) ==
  LET s == r.steps[i] IN
  CASE Status(r, i) = "pending" -> "pending_approval"
    [] Status(r, i) = "unavailable" -> "generation_unavailable"
    [] Status(r, i) = "rejected" -> "none"
    [] s.does = BatchCancel \/ s.result = "evidence_unavailable" -> "evidence_unavailable"
    [] s.result \in {"queued", "running", "streaming"} -> "run_active"
    [] s.result = "output_pending" -> "output_pending"
    [] s.result = "child_pending_approval" -> "pending_approval"
    [] OTHER -> "none"
SiblingBlocker(r) ==
  IF r.turns[r.sibling] \in {"failed", "cancelled"}
  THEN "generation_unavailable" ELSE "pending_approval"
\* checkAIPlanContinuationDetailed: every proposal of a turn counts, bound or not.
Sources(r) == {r.author} \cup {r.steps[i].turn : i \in Current(r) \cap BoundSteps(r)}
Blockers(r) ==
  ({Blocker(r, i) : i \in {k \in BoundSteps(r) : r.steps[k].turn \in Sources(r)}}
   \cup (IF r.sibling \in Sources(r) THEN {SiblingBlocker(r)} ELSE {})) \ {"none"}
Priority == <<"evidence_unavailable", "generation_unavailable", "pending_approval",
              "output_pending", "run_active">>
Reason(r) ==
  CASE r.closed -> "plan_closed"
    [] ~r.closed /\ Active(r) -> "generation_active"
    [] ~r.closed /\ ~Active(r) /\ Blockers(r) # {} ->
         Priority[CHOOSE n \in DOMAIN Priority :
                    Priority[n] \in Blockers(r) /\ \A m \in 1 .. n - 1 : Priority[m] \notin Blockers(r)]
    [] OTHER -> IF Complete(r) THEN "plan_complete" ELSE "ready"

\* summarizeAIWorkPlanInbox.
Count(r, states) == Cardinality({i \in Current(r) \cap Actions(r) : State(r, i) \in states})
Totals(r) ==
  [all |-> Len(r.steps), superseded |-> Cardinality(Superseded(r)),
   satisfied |-> Cardinality({i \in Current(r) : Ready(r, i) /\ Satisfied(r, i)}),
   approval |-> Count(r, {"pending", "child_pending_approval"}),
   active |-> Count(r, {"queued", "running"}), recovery |-> Count(r, {"output_pending", "retained"})]
QueueState(r) ==
  CASE r.closed -> "closed"
    [] ~r.closed /\ Complete(r) -> "completed"
    [] OTHER ->
         IF Totals(r).recovery > 0 THEN "needs_recovery"
         ELSE IF Totals(r).approval > 0 THEN "needs_approval"
         ELSE IF Totals(r).active > 0 \/ r.turns[r.author] = "streaming" THEN "running"
         ELSE "awaiting_continuation"

----------------------------------------------------------------------------
(* What becomes of the plan.                                                  *)
Session(r) == record' = r
StartTurn == ~Active(record) /\ \E t \in Turns :
  /\ record.turns[t] = "none" /\ \A u \in 1 .. t - 1 : record.turns[u] # "none"
  /\ Session([record EXCEPT !.turns[t] = "streaming"])
\* (A turn that fails with nothing pending leaves what one that completes leaves.)
PendingIn(r, t) ==
  r.sibling = t \/ \E i \in BoundSteps(r) : r.steps[i].turn = t /\ r.steps[i].status = "pending"
EndTurn == \E t \in Turns : \E end \in {"completed", "failed"} :
  /\ record.turns[t] = "streaming" /\ (end = "failed" => PendingIn(record, t))
  /\ Session([record EXCEPT !.turns[t] = end])

\* workPlan: the model writes a revision in its turn. Steps stay, with their kind,
\* proposal and replacement; what was closed is a new intent; what does not project
\* is not stored. (Bound: a step is bound to a proposal of the turn that writes it.)
Ends(r) ==
  {i \in BoundSteps(r) : r.steps[i].does \in Runs /\ r.steps[i].result \in Lost \cup {"retained"}}
OutsideIsOwed(r, i) == r.steps[i].of = Outside
\* (The run outside the plan is what the first proposal, or one that has to, carries on.)
Proposals(t, replaces) ==
  LET runs == Ends(record) \cup
        (IF replaces = None \/ OutsideIsOwed(record, replaces) THEN {Outside} ELSE {}) IN
  {Bound("agent_run.start", t, of, replaces) : of \in runs}
  \cup {Bound("agent_run.retry", t, of, replaces) : of \in {i \in runs : Retryable(record, i)}}
  \cup {Bound(does, t, None, replaces) :
          does \in IF replaces = None THEN Kinds \ {"agent_run.retry"}
                   ELSE {"agent_run.start"} \cup (IF replaces = 1 THEN {"task.update"} ELSE {})}
FirstSteps == {<<Analysis("in_progress"), Unbound(None)>>, <<Unbound(None)>>}
Reported(steps) == {[steps EXCEPT ![1].report = report] : report \in {"in_progress", "reported_done"}}
Rewritten(t) ==
  LET steps == record.steps IN
  IF steps = <<>> THEN FirstSteps
  ELSE (IF steps[1].kind = "analysis" THEN Reported(steps) ELSE {})
       \cup UNION {{[steps EXCEPT ![i] = p] : p \in Proposals(t, steps[i].replaces)} :
                      i \in Actions(record) \ BoundSteps(record)}
       \cup (IF Len(steps) < MostSteps /\ Len(steps) \in BoundSteps(record)
             THEN {Append(steps, p) : p \in Proposals(t, Len(steps)) \cup {Unbound(Len(steps))}} ELSE {})
Revise == record.sibling = None /\ \E t \in Turns : \E steps \in Rewritten(t) :
  LET next == [record EXCEPT !.steps = steps, !.author = t, !.closed = FALSE] IN
  /\ record.turns[t] = "streaming" /\ steps # record.steps
  /\ Projected(next) /\ Session(next)
\* A proposal of the turn that no step is bound to (bound: the last of the turn, made
\* when nothing else is in the way).
ProposeBeside == record.sibling = None /\ record.steps # <<>> /\ Blockers(record) = {}
  /\ \E t \in Turns : record.turns[t] = "streaming" /\ Session([record EXCEPT !.sibling = t])
DecideBeside == record.sibling # None /\ Session([record EXCEPT !.sibling = None])

\* decideAIWorkspaceAction: what a confirmation begins with.
Begins(does) ==
  CASE does \in Runs \cup Delegations -> {"queued"}
    [] does \in {"agent_run.cancel", BatchCancel} -> {"running", "cancelled"}
    [] does = "automation.retry" -> {"succeeded", "failed"}
    [] does = "finance.export_csv" -> {"download_unverified"}
    [] OTHER -> {"recorded"}
Confirm == \E i \in BoundSteps(record) : \E result \in Begins(record.steps[i].does) :
  /\ Status(record, i) = "pending" /\ record.turns[record.steps[i].turn] = "completed"
  /\ Session([record EXCEPT !.steps[i].status = "confirmed", !.steps[i].result = result])
\* A refusal is taken whatever became of the turn; a proposal may also outlive its time.
\* (What was refused makes a difference only where it would have restarted a run.)
Reject == \E i \in BoundSteps(record) : record.steps[i].status = "pending"
  /\ record.steps[i].does \in Runs \cup {"task.update"}
  /\ Session([record EXCEPT !.steps[i].status = "rejected"])
Later(s) ==
  CASE s.does \in Runs /\ s.result = "queued" -> {"running", "failed"}
    [] s.does \in Runs /\ s.result = "running" -> Lost \cup {"output_pending", "submitted", "retained"}
    [] s.does \in Runs /\ s.result = "output_pending" -> {"submitted", "retained"}
    [] s.does \in {"agent_run.cancel", BatchCancel} /\ s.result = "running" -> {"cancelled"}
    [] s.does \in Delegations /\ s.result = "queued" -> {"streaming", "cancelled"}
    [] s.does \in Delegations /\ s.result = "streaming" ->
         {"completed", "child_pending_approval", "failed", "cancelled"}
    [] s.does \in Delegations /\ s.result = "child_pending_approval" -> {"completed"}
    [] OTHER -> {}
Proceed == \E i \in BoundSteps(record) : \E result \in Later(record.steps[i]) :
  Session([record EXCEPT !.steps[i].result = result])
\* The task is deleted with its runs, or the conversation of a delegation: the decision
\* stays, with no run beside it. (Where a step was replaced, or many runs were stopped
\* at once, the plan is not served any more; that is left out here.)
Gone(s) ==
  IF /\ s.kind = "action" /\ s.does \in Runs \cup Delegations \cup {"agent_run.cancel"}
     /\ s.status = "confirmed"
  THEN [s EXCEPT !.result = "evidence_unavailable"] ELSE s
DeleteTask ==
  /\ Replacing(record) = {} /\ \A i \in BoundSteps(record) : record.steps[i].does # BatchCancel
  /\ \A i \in BoundSteps(record) : Later(record.steps[i]) = {}
  /\ Session([record EXCEPT !.steps = [i \in DOMAIN record.steps |-> Gone(record.steps[i])]])

\* createAIContinuation and the end of the lease (bound: on a plan of one step).
Eligible == {"ready", "pending_approval", "run_active", "output_pending"}
Lease == ~record.leased /\ Len(record.steps) = 1 /\ record.sibling = None
  /\ Reason(record) \in Eligible /\ Session([record EXCEPT !.leased = TRUE])
EndLease == record.leased /\ Session([record EXCEPT !.leased = FALSE])

\* closeAIWorkPlan.
Closable(r) == QueueState(r) = "awaiting_continuation" /\ Reason(r) = "ready" /\ ~r.leased
Close == record.steps # <<>> /\ ~record.closed /\ Closable(record)
  /\ Session([record EXCEPT !.closed = TRUE])

Next == StartTurn \/ EndTurn \/ Revise \/ ProposeBeside \/ DecideBeside \/ Confirm \/ Reject
  \/ Proceed \/ DeleteTask \/ Lease \/ EndLease \/ Close
Spec == Init /\ [][Next]_record

----------------------------------------------------------------------------
(* What the client makes of the plan.                                         *)
\* parseAiWorkPlan: the outcomes a confirmed proposal may show, and those that satisfy.
Outcomes(does) ==
  CASE does \in Runs \cup {"agent_run.cancel", BatchCancel} ->
         {"queued", "running", "output_pending", "submitted", "retained", "failed", "cancelled",
          "evidence_unavailable"}
    [] does \in Delegations ->
         {"queued", "streaming", "child_pending_approval", "completed", "failed", "cancelled",
          "evidence_unavailable"}
    [] does = "automation.retry" -> {"succeeded", "failed", "evidence_unavailable"}
    [] does = "finance.export_csv" -> {"download_unverified"}
    [] OTHER -> {"recorded"}
Done(r, i) ==
  \/ State(r, i) \in {"recorded", "submitted", "succeeded"}
  \/ r.steps[i].does \in Delegations /\ State(r, i) = "completed"
  \/ r.steps[i].does \in {"agent_run.cancel", BatchCancel} /\ State(r, i) = "cancelled"
EvidenceReads(r, i) ==
  IF Status(r, i) # "confirmed" THEN ~Satisfied(r, i)
  ELSE State(r, i) \in Outcomes(r.steps[i].does) /\ (Satisfied(r, i) <=> Done(r, i))
\* requiredRetryRuns: the client works out for itself what a replacement has to carry on.
Required(r) ==
  LET required[j \in Steps(r)] ==
        IF j \notin Replacing(r) THEN [run |-> None, restartOnly |-> FALSE]
        ELSE LET i == r.steps[j].replaces IN
             IF Status(r, i) = "confirmed" THEN [run |-> i, restartOnly |-> State(r, i) = "retained"]
             ELSE IF required[i].run = None /\ Restarts(r, i)
             THEN [required[i] EXCEPT !.run = r.steps[i].of] ELSE required[i]
  IN required
ReplacementReads(r, j) ==
  LET i == r.steps[j].replaces  required == Required(r)[j] IN
  /\ r.steps[i].kind = "action" /\ r.steps[i].does # "nothing" /\ ~Satisfied(r, i)
  /\ \A k \in Replacing(r) \ {j} : r.steps[k].replaces # i
  /\ \/ State(r, i) = "rejected"
     \/ r.steps[i].does \in Runs /\ State(r, i) \in Lost \cup {"retained"}
  /\ required.run # None =>
       \/ r.steps[j].does = "agent_run.start" /\ r.steps[j].of = required.run
       \/ r.steps[j].does = "agent_run.retry" /\ r.steps[j].of = required.run /\ ~required.restartOnly
PlanReads(r) ==
  /\ \A i \in BoundSteps(r) : EvidenceReads(r, i)
  /\ \A j \in Replacing(r) : ReplacementReads(r, j)
  /\ \A i \in Current(r) : Needs(r, i) \cap Superseded(r) = {}

\* parseAiWorkPlanContinuation: what is visible of the plan may not contradict the reason.
Contradicted(r) ==
  \/ r.turns[r.author] = "streaming" \/ Complete(r)
  \/ \E i \in Current(r) \cap Actions(r) : State(r, i) \in
       {"pending", "queued", "running", "output_pending", "evidence_unavailable", "unavailable"}
CheckReads(r) ==
  CASE Reason(r) = "ready" -> ~Contradicted(r)
    [] Reason(r) = "plan_complete" -> Complete(r)
    [] OTHER -> TRUE

\* parseAiWorkPlanInbox: a queue item adds up, and says what its numbers say.
ExpectedState(r, n) ==
  IF n.satisfied + n.superseded = n.all THEN "completed"
  ELSE IF n.recovery > 0 THEN "needs_recovery"
  ELSE IF n.approval > 0 THEN "needs_approval"
  ELSE IF n.active > 0 \/ r.turns[r.author] = "streaming" THEN "running"
  ELSE "awaiting_continuation"
QueueReads(r) == LET n == Totals(r) IN
  /\ n.superseded < n.all
  /\ n.satisfied + n.approval + n.active + n.recovery <= n.all - n.superseded
  /\ QueueState(r) \in {"closed", ExpectedState(r, n)}

Reads == record.steps # <<>> => PlanReads(record) /\ CheckReads(record) /\ QueueReads(record)

\* AiWorkPlan: closing is offered where no current step is at work. (A step without
\* evidence does not stop the page from offering what the service then refuses; it is
\* left out here.)
Live(r) == \E i \in Current(r) \cap Actions(r) : State(r, i) \in
  {"pending", "child_pending_approval", "queued", "running", "output_pending", "retained", "streaming"}
Offers ==
  IF /\ record.steps # <<>> /\ ~record.closed /\ record.turns[record.author] # "streaming"
     /\ ~Complete(record) /\ ~Live(record)
     /\ Blockers(record) \cap {"evidence_unavailable", "generation_unavailable"} = {}
  THEN {"close"} ELSE {}
\* A refusal is as good as an answer where its message names what is in the way.
Named == {"generation_active", "pending_approval", "run_active", "output_pending"}
Accepts(command) == Closable(record) \/ record.leased \/ Reason(record) \in Named

\* A run that was lost, or whose result was kept back, is carried on by the run a step
\* starts anew or retries from it.
CarriedOn(r, i) ==
  LET carries[j \in Steps(r)] ==
        j \in BoundSteps(r) /\ (r.steps[j].of = i \/ (r.steps[j].of \in 1 .. j - 1 /\ carries[r.steps[j].of]))
  IN \E j \in Steps(r) : carries[j] /\ Satisfied(r, j)
\* Closing leaves nothing of the plan at work or undecided; and a plan is complete only
\* when every run it started was submitted or carried on by one that was.
Answers ==
  /\ Close => ~Active(record) /\ ~record.leased /\ record.sibling \notin Sources(record)
              /\ \A i \in BoundSteps(record) \cap Current(record) :
                   State(record, i) \in {"rejected", "failed", "cancelled", "completed", "submitted",
                                         "recorded", "succeeded", "download_unverified"}
  /\ Complete(record)' => \A i \in BoundSteps(record)' :
       record'.steps[i].does \in Runs /\ record'.steps[i].result \in Lost \cup {"retained"} =>
         CarriedOn(record', i)
=============================================================================
