-------------------------- MODULE ProposalRecords --------------------------
(* A change the model proposes and the person decides: how the service shows   *)
(* it, the card with its consents, the decision, and what the card says of it   *)
(* afterwards. First every proposal is looked at as it is shown; of the card it  *)
(* becomes only the kind is kept, and the traits that ask for a consent.         *)
EXTENDS Naturals, FiniteSets

VARIABLE record

Clients == INSTANCE ClientProposals
Work == INSTANCE WorkProposals
Money == INSTANCE MoneyProposals
Runs == INSTANCE RunProposals
Tasks == INSTANCE TaskProposals
Local == INSTANCE LocalProposals

Shown(family, w, a, before, after, more) ==
  [stage |-> "shown", family |-> family, of |-> w.of, kind |-> a.kind, changes |-> a.changes,
   before |-> before, after |-> after, more |-> more]
\* proposeAIWorkspaceAction: a proposal whose preview is refused is not stored.
Init ==
  \/ \E w \in Clients!Worlds : \E a \in Clients!Actions[w.of] :
       Clients!Previews(a, w) /\ record =
         Shown("clients", w, a, Clients!Before(a, w), Clients!After(a, w), Clients!More(a, w))
  \/ \E w \in Work!Worlds : \E a \in Work!Actions[w.of] :
       Work!Previews(a, w) /\ record =
         Shown("work", w, a, Work!Before(a, w), Work!After(a, w), Work!More(a, w))
  \/ \E w \in Money!Worlds : \E a \in Money!Actions[w.of] :
       Money!Previews(a, w) /\ record =
         Shown("money", w, a, Money!Before(a, w), Money!After(a, w), Money!More(a, w))
  \/ \E w \in Runs!Worlds : \E a \in Runs!Actions[w.of] :
       Runs!Previews(a, w) /\ record =
         Shown("runs", w, a, Runs!Before(a, w), Runs!After(a, w), Runs!More(a, w))
  \/ \E w \in Tasks!Worlds : \E a \in Tasks!Actions[w.of] :
       Tasks!Previews(a, w) /\ record =
         Shown("tasks", w, a, Tasks!Before(a, w), Tasks!After(a, w), Tasks!More(a, w))
  \/ \E w \in Local!Worlds : \E a \in Local!Actions[w.of] :
       Local!Previews(a, w) /\ record =
         Shown("local", w, a, Local!Before(a, w), Local!After(a, w), Local!More(a, w))

----------------------------------------------------------------------------
(* The consents.                                                              *)
InvoiceRows == {"invoice", "new_invoice"}
EntryRows == {"entry", "new_entry"}
Starts == {"agent_run.start", "agent_run.retry"}
Stops == {"agent_run.cancel", "agent_run.cancel_many"}
Delegations == {"agent_delegate.spawn", "agent_delegate.followup"}
Outputs == {"task.submit_output", "task.review"}

\* What of a preview asks for a consent of its own.
StartTraits(p) ==
  IF "agent_run_start" \notin DOMAIN p.more THEN {}
  ELSE LET s == p.more.agent_run_start  has(key) == key \in DOMAIN s IN
    (IF has("input_files") THEN {"files"} ELSE {})
    \cup (IF has("input_files") /\ s.input_files = "project" THEN {"project_files"} ELSE {})
    \cup (IF has("rework_context") THEN {"rework"} ELSE {})
    \cup (IF has("restart") THEN {"restart"} ELSE {})
    \cup (IF has("start_gate") /\ "input_slot" \in DOMAIN s.start_gate THEN {"slot"} ELSE {})
Traits(p) ==
  StartTraits(p)
  \cup (IF p.of = "rule" /\ p.after.rule_enabled THEN {"enabled"} ELSE {})
  \cup (IF p.kind = "focus.recover" /\ p.changes.recovery = "include_gap_resume" THEN {"gap"} ELSE {})
  \cup (IF p.kind = "project.complete" /\ p.after.incomplete > 0
        THEN {"incomplete"} ELSE {})

\* decideAIWorkspaceAction: the kinds with a consent of their own.
OwnConsents ==
  {"task.delete", "project.delete", "client.delete", "content_item.delete", "roadmap_milestone.delete",
   "tag.delete", "project_note.delete", "client_activity.delete", "knowledge_source.delete",
   "task_view.delete", "invoice.delete", "invoice.generate_pdf", "content_item.publish",
   "finance.export_csv", "automation.retry", "client_followup.complete", "focus.start",
   "agent_run.recover_output", "inbox.force_resolve"}
Required(c) ==
  (OwnConsents \cap {c.kind})
  \cup (IF c.kind \in Delegations THEN {"delegation"} ELSE {})
  \cup (IF c.kind \in Stops THEN {"stop"} ELSE {})
  \cup (IF c.kind \in Outputs THEN {"task_output"} ELSE {})
  \cup (IF c.of \in InvoiceRows THEN {"invoice_effects"} ELSE {})
  \cup (IF c.of \in EntryRows THEN {"financial_effects"} ELSE {})
  \cup (IF c.kind \in Starts THEN {"execution"} \cup c.traits ELSE {})
  \cup (IF c.of = "rule" /\ c.kind # "automation.disable" THEN c.traits ELSE {})
  \cup (c.traits \cap {"gap"})
\* A consent that is not asked for is refused; the one for open tasks is looked at
\* when the project is completed.
Allowed(c) == Required(c) \cup ({"project.complete"} \cap {c.kind})

\* ActionCard: the boxes it has, for what is deleted or published, for the work of
\* an agent, and for the rest.
DeletionBoxes(c) ==
  {"project_note.delete", "client_activity.delete", "task.delete", "project.delete", "client.delete",
   "content_item.delete", "content_item.publish", "roadmap_milestone.delete", "tag.delete"} \cap {c.kind}
RunBoxes(c) ==
  (IF c.kind \in Delegations THEN {"delegation"} ELSE {})
  \cup (IF c.kind \in Stops THEN {"stop"} ELSE {})
  \cup (IF c.kind \in Outputs THEN {"task_output"} ELSE {})
  \cup (IF c.kind \in Starts THEN {"execution"} ELSE {})
  \cup ({"agent_run.recover_output", "knowledge_source.delete", "task_view.delete"} \cap {c.kind})
  \cup (c.traits \cap {"files", "project_files", "rework", "restart", "slot"})
EffectBoxes(c) ==
  ({"finance.export_csv", "inbox.force_resolve", "focus.start", "client_followup.complete",
    "automation.retry", "invoice.delete", "invoice.generate_pdf"} \cap {c.kind})
  \cup (IF "incomplete" \in c.traits THEN {"project.complete"} ELSE {})
  \cup (IF c.of \in InvoiceRows THEN {"invoice_effects"} ELSE {})
  \cup (IF c.of \in EntryRows THEN {"financial_effects"} ELSE {})
  \cup (IF c.kind \in {"automation.enable", "automation.update"} THEN c.traits ELSE {})
  \cup (c.traits \cap {"gap"})
Boxes(c) == DeletionBoxes(c) \cup RunBoxes(c) \cup EffectBoxes(c)

\* What the card sends with a confirmation: mutationFn chooses the function of
\* decisions.ts, and that which of the boxes it passes on.
SentForRun(c) ==
  {"execution"}
  \cup (IF "slot" \in c.traits THEN {"slot"}
        ELSE IF "project_files" \in c.traits
        THEN {"files", "project_files"} \cup (c.traits \cap {"rework", "restart"})
        ELSE IF "restart" \in c.traits
        THEN {"restart"} \cup (c.traits \cap {"files", "rework"})
        ELSE IF "rework" \in c.traits
        THEN {"rework"} \cup (c.traits \cap {"files"})
        ELSE c.traits \cap {"files"})
\* Functions of their own for what deletes or publishes, each with the one consent.
RecordDecisions == {"task.delete", "project.delete", "client.delete", "content_item.delete"}
OtherDecisions ==
  {"content_item.publish", "roadmap_milestone.delete", "task_view.delete", "knowledge_source.delete",
   "tag.delete"}
SentForWorkspace(c) ==
  (IF c.of \in InvoiceRows THEN {"invoice_effects"} ELSE {})
  \cup ({"invoice.generate_pdf", "invoice.delete", "automation.retry", "client_activity.delete",
         "client_followup.complete", "project.complete", "inbox.force_resolve", "focus.start"}
        \cap {c.kind})
  \cup (IF c.of \in EntryRows THEN {"financial_effects"} ELSE {})
  \cup (IF c.kind \in {"automation.enable", "automation.update"} THEN c.traits \cap {"enabled"} ELSE {})
  \cup (c.traits \cap {"gap"})
Sent(c) ==
  CASE c.kind \in Delegations -> {"delegation"}
    [] c.kind = "agent_run.recover_output" -> {c.kind}
    [] c.kind \in Stops -> {"stop"}
    [] c.kind \in Starts -> SentForRun(c)
    [] c.kind \in Outputs -> {"task_output"}
    [] c.kind \in RecordDecisions \cup OtherDecisions
                  \cup {"project_note.delete", "finance.export_csv"} -> {c.kind}
    [] OTHER -> SentForWorkspace(c)

----------------------------------------------------------------------------
(* The card.                                                                  *)
Row == record.stage = "card"
Card(p) ==
  [stage |-> "card", family |-> p.family, of |-> p.of, kind |-> p.kind, traits |-> Traits(p),
   turn |-> "streaming", aged |-> FALSE, facts |-> "same", status |-> "pending", now |-> "nothing",
   seen |-> "unfinished", ticks |-> {}]
\* The turn goes on after the proposal; the card is there with its preview.
Appear == record.stage = "shown" /\ record' = Card(record)

\* aiActionResponseFromModel: what the list says of a proposal.
Listed(c) ==
  IF c.status # "pending" THEN c.status
  ELSE IF c.turn = "failed" THEN "unavailable"
  ELSE IF c.aged THEN "expired"
  ELSE IF c.turn = "streaming" THEN "unfinished"
  ELSE "pending"

EndTurn == Row /\ record.turn = "streaming"
  /\ \E end \in {"completed", "failed"} : record' = [record EXCEPT !.turn = end]
Age == Row /\ ~record.aged /\ record.turn # "streaming" /\ record' = [record EXCEPT !.aged = TRUE]

\* Executed by version alone, without a second look at the preview; of these only the
\* count of a project's open tasks comes from elsewhere.
ByVersion(c) ==
  \/ c.of = "reminder"
  \/ c.of = "project" /\ c.kind # "project.delete"
  \/ c.kind \in {"task.start", "task.block", "task.unblock", "task.complete", "task.cancel", "task.reopen"}

\* While the card waits the workspace goes on: the row gets a new version, or what the
\* preview says of its surroundings is no longer so, or the change is not possible now.
Drift == Row /\ record.status = "pending" /\ record.facts = "same"
  /\ \E facts \in {"moved", "impossible"}
                  \cup (IF ByVersion(record) /\ record.kind # "project.complete" THEN {} ELSE {"other"}) :
       record' = [record EXCEPT !.facts = facts]

\* The preview is made once more and compared, or the version alone is.
Executes(c) == c.facts = "same" \/ (ByVersion(c) /\ c.facts = "other")
\* decideAIWorkspaceAction, for a proposal that is not yet decided.
Confirms(c, consents) ==
  /\ consents \subseteq Allowed(c) /\ Required(c) \subseteq consents
  /\ Listed(c) = "pending" /\ Executes(c)

Later(c) ==
  CASE c.family = "runs" -> Runs!Later(c)
    [] c.family = "local" -> Local!Later(c)
    [] OTHER -> {"done"}
Moving == {"queued", "running", "streaming", "pending"}
\* The runs a decision stops and the conversation it opens go their own way, and may be
\* deleted with their task or by hand.
Proceed == Row /\ record.status = "confirmed"
  /\ \E now \in Later(record) \ {record.now} :
       /\ now = "gone" \/ record.now \in Moving
       /\ record' = [record EXCEPT !.now = now]

Undecided == record.seen \in {"pending", "unfinished", "expired", "unavailable"}
Tick == Row /\ Undecided /\ \E box \in Boxes(record) \ record.ticks :
  record' = [record EXCEPT !.ticks = @ \cup {box}]
\* The list is read again: after a decision, or when the turn ends.
Relist == Row /\ record.seen # Listed(record) /\ record' = [record EXCEPT !.seen = Listed(record)]

ConfirmEnabled(c) == c.seen = "pending" /\ Boxes(c) \subseteq c.ticks
Given(c) == Sent(c) \cap c.ticks
\* An error takes the ticks back where they speak of files of other tasks.
Unticked(c) == IF c.traits \cap {"slot", "project_files"} = {} THEN c.ticks ELSE {}
\* The same confirmation once more, after an answer that was lost, finds the decision.
Confirm == Row /\ ConfirmEnabled(record) /\
  \/ /\ record.status = "pending" /\ Confirms(record, Given(record))
     /\ \E now \in Later(record) \ {"gone"} : \E seen \in {"pending", "confirmed"} :
          record' = [record EXCEPT !.status = "confirmed", !.now = now, !.seen = seen]
  \/ record.status = "confirmed" /\ record' = [record EXCEPT !.seen = "confirmed"]
  \/ /\ record.status = "rejected" \/ (record.status = "pending" /\ ~Confirms(record, Given(record)))
     /\ record' = [record EXCEPT !.ticks = Unticked(record)]
Reject == Row /\ Undecided /\ record.status # "confirmed"
  /\ \E seen \in {record.seen, "rejected"} :
       record' = [record EXCEPT !.status = "rejected", !.seen = seen]

Next == Appear \/ EndTurn \/ Age \/ Drift \/ Proceed \/ Tick \/ Relist \/ Confirm \/ Reject

Spec == Init /\ [][Next]_record

----------------------------------------------------------------------------
(* What the client makes of it.                                               *)
Valid(p) ==
  CASE p.family = "clients" -> Clients!Valid(p)
    [] p.family = "work" -> Work!Valid(p)
    [] p.family = "money" -> Money!Valid(p)
    [] p.family = "runs" -> Runs!Valid(p)
    [] p.family = "tasks" -> Tasks!Valid(p)
    [] p.family = "local" -> Local!Valid(p)
\* What the service stores and the client refuses, with the list that holds it: a
\* person's name kept with its blanks, a text short enough to be shown whole, a
\* milestone with a title of one letter.
Refused(p) ==
  \/ p.of = "person" /\ \E k \in DOMAIN p.changes : p.changes[k] = "padded"
  \/ p.kind = "knowledge_source.create"
  \/ p.kind = "roadmap_milestone.move"

\* The receipt of a confirmed card can be read.
Served(c) == c.family = "runs" => Runs!Served(c, c.now)
Receipt(c) ==
  CASE c.family = "runs" -> Runs!ValidReceipt(c, Runs!Result(c, c.now), Runs!Leads(c, c.now))
    [] c.family = "local" -> Local!ValidReceipt(c, Local!Result(c, c.now))
    [] OTHER -> TRUE
Reads ==
  /\ record.stage = "shown" => Valid(record)
  /\ Row /\ record.status = "confirmed" /\ Served(record) => Receipt(record)

\* What the card enables of what is as it was shown.
Offers ==
  IF ~Row \/ record.seen # Listed(record) THEN {}
  ELSE (IF ConfirmEnabled(record) /\ record.facts = "same" THEN {"confirm"} ELSE {})
       \cup (IF Undecided THEN {"reject"} ELSE {})
Accepts(decision) ==
  CASE decision = "confirm" -> record.status = "pending" /\ Confirms(record, Given(record))
    [] decision = "reject" -> record.status \in {"pending", "rejected"}

\* What takes effect is what was shown, under every consent it asks for.
Answers ==
  Row /\ record.status = "pending" /\ record'.status = "confirmed" =>
    /\ record.facts = "same" \/ record.kind = "project.complete"
    /\ Boxes(record) \subseteq record.ticks
    /\ Receipt(record')
=============================================================================
