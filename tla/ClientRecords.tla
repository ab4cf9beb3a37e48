---------------------------- MODULE ClientRecords ----------------------------
(* What a person keeps about one client: planned follow-ups, notes and the      *)
(* references the service leaves, files, and the local person who is the        *)
(* contact. The rules reach across: from the client's status to its plans, from *)
(* the plans and the contact to the person, from the rows to the deletion.      *)
EXTENDS Naturals, Sequences

VARIABLE record

\* (Bounds: two rows of a client, and one local person beside the owner.)
MostRows == 2

Plan(who, from) == [kind |-> "plan", state |-> "planned", who |-> who, from |-> from]
Note == [kind |-> "note", state |-> "kept"]
Reference == [kind |-> "reference", state |-> "kept"]
\* What a check of the object would find, and what the last check found.
File == [kind |-> "file", state |-> "kept", object |-> "verified", checked |-> "verified"]
Contact(who) == [kind |-> "contact", state |-> "linked", who |-> who]

Statuses == {"lead", "active", "inactive"}
Init == \E s \in Statuses :
  record = [status |-> s, person |-> "none", billed |-> FALSE, rows |-> <<>>]
Client(r) == record' = r

Rows(kind, state) == {i \in DOMAIN record.rows : record.rows[i].kind = kind /\ record.rows[i].state = state}
Available == {"owner"} \cup (IF record.person = "active" THEN {"person"} ELSE {})
Held == record.status # "deleted"

----------------------------------------------------------------------------
(* The commands of the client's page, and how the service refuses them.        *)
Ask(cmd, row, with) == [cmd |-> cmd, row |-> row, with |-> with]
None == "none"
People == {"owner", "person"}
Places == 1 .. MostRows
FollowupCommands ==
  {Ask("plan", 0, who) : who \in People}
  \cup {Ask(cmd, i, who) : cmd \in {"replan", "reschedule"}, i \in Places, who \in People}
  \cup {Ask("complete", i, who) : i \in Places, who \in People \cup {None}}
  \cup {Ask(cmd, i, None) : cmd \in {"skip", "cancel"}, i \in Places}
ActivityCommands ==
  {Ask("note", 0, None)} \cup {Ask(cmd, i, None) : cmd \in {"rewrite", "delete_note"}, i \in Places}
FileCommands ==
  {Ask("attach", 0, None)} \cup {Ask(cmd, i, None) : cmd \in {"download", "delete_file"}, i \in Places}
ContactCommands ==
  {Ask("link", 0, who) : who \in {"person", "newcomer"}} \cup {Ask("unlink", i, None) : i \in Places}
ClientCommands == {Ask("status", 0, s) : s \in Statuses} \cup {Ask("delete", 0, None)}

Unless(cond, code) == IF cond THEN None ELSE code
First(a, b) == IF a # None THEN a ELSE b
\* ensureClientFollowupReferences
Plannable(who) ==
  First(Unless(record.status # "inactive", "CLIENT_FOLLOWUP_CLIENT_INACTIVE"),
        Unless(who \in Available, "CLIENT_FOLLOWUP_ASSIGNEE_UNAVAILABLE"))
FollowupRefusal(c) ==
  First(Unless(c.cmd = "plan" \/ c.row \in Rows("plan", "planned"), "CLIENT_FOLLOWUP_FINAL"),
        IF c.with = None THEN None ELSE Plannable(c.with))
ActivityRefusal(c) ==
  IF c.cmd = "note" THEN None
  ELSE First(Unless(c.row \notin Rows("note", "deleted"), "CLIENT_ACTIVITY_DELETED"),
             Unless(c.row \in Rows("note", "kept"), "CLIENT_ACTIVITY_READ_ONLY"))
\* An object that cannot be handed out is still recorded as what the check found.
Unsound(row) ==
  CASE row.object = "verified" -> None
    [] row.object = "missing" -> "CLIENT_ATTACHMENT_FILE_MISSING"
    [] row.object = "mismatch" -> "CLIENT_ATTACHMENT_INTEGRITY_MISMATCH"
FileRefusal(c) ==
  IF c.cmd = "attach" THEN None
  ELSE IF c.row \notin Rows("file", "kept") THEN "CLIENT_ATTACHMENT_DELETED"
  ELSE IF c.cmd = "download" THEN Unsound(record.rows[c.row]) ELSE None
ContactRefusal(c) ==
  IF c.cmd = "unlink" THEN Unless(c.row \in Rows("contact", "linked"), "CLIENT_ACTOR_LINK_ALREADY_UNLINKED")
  ELSE First(Unless(c.with \in Available \cup {"newcomer"}, "CLIENT_LINK_ACTOR_UNAVAILABLE"),
             Unless(Rows("contact", "linked") = {}, "CLIENT_CONTACT_ACTOR_ALREADY_LINKED"))
\* loadClientDeletionImpact: a follow-up of any status keeps its client.
Planned == UNION {Rows("plan", s) : s \in {"planned", "completed", "skipped", "cancelled"}}
DeleteRefusal ==
  First(Unless(record.status = "inactive", "CLIENT_NOT_INACTIVE"),
        First(Unless(~record.billed, "CLIENT_HAS_INVOICES"), Unless(Planned = {}, "CLIENT_HAS_FOLLOWUPS")))
Refusal(c) ==
  IF ~Held THEN "CLIENT_NOT_FOUND"
  ELSE CASE c \in FollowupCommands -> FollowupRefusal(c)
         [] c \in ActivityCommands -> ActivityRefusal(c)
         [] c \in FileCommands -> FileRefusal(c)
         [] c \in ContactCommands -> ContactRefusal(c)
         [] c \in ClientCommands -> IF c.cmd = "delete" THEN DeleteRefusal ELSE None
Takes(c) == Refusal(c) = None

----------------------------------------------------------------------------
(* What the commands do, from this page, another window or an approved         *)
(* proposal, and what other pages and the disk do under them.                  *)
With(r, row) == [r EXCEPT !.rows = Append(@, row)]
Room == Len(record.rows) < MostRows
Ends(i, state) == [record EXCEPT !.rows[i].state = state]

NewPlan == \E who \in People :
  Takes(Ask("plan", 0, who)) /\ Room /\ Client(With(record, Plan(who, 0)))
Replan == \E i \in Places, who \in People :
  Takes(Ask("replan", i, who)) /\ Client([record EXCEPT !.rows[i].who = who])
\* The end of a plan and the next plan are one transaction.
Complete == \E i \in Places : Takes(Ask("complete", i, None)) /\ Client(Ends(i, "completed"))
CompleteAndPlan == \E i \in Places, who \in People :
  Takes(Ask("complete", i, who)) /\ Room /\ Client(With(Ends(i, "completed"), Plan(who, 0)))
Skip == \E i \in Places : Takes(Ask("skip", i, None)) /\ Client(Ends(i, "skipped"))
Cancel == \E i \in Places : Takes(Ask("cancel", i, None)) /\ Client(Ends(i, "cancelled"))
Reschedule == \E i \in Places, who \in People :
  Takes(Ask("reschedule", i, who)) /\ Room /\ Client(With(Ends(i, "cancelled"), Plan(who, i)))

Write == Takes(Ask("note", 0, None)) /\ Room /\ Client(With(record, Note))
DeleteNote == \E i \in Places : Takes(Ask("delete_note", i, None)) /\ Client(Ends(i, "deleted"))
\* projectClientActivity: a project of the client is completed or opened again.
Refer == Held /\ Room /\ Client(With(record, Reference))

Attach == Takes(Ask("attach", 0, None)) /\ Room /\ Client(With(record, File))
Spoil == \E i \in Rows("file", "kept"), found \in {"missing", "mismatch", "verified"} :
  Client([record EXCEPT !.rows[i].object = found])
Download == \E i \in Rows("file", "kept") :
  Client([record EXCEPT !.rows[i].checked = record.rows[i].object])
DeleteFile == \E i \in Places : Takes(Ask("delete_file", i, None))
  /\ Client([record EXCEPT !.rows[i].state = "deleted", !.rows[i].object = "missing",
       !.rows[i].checked = IF record.rows[i].object = "missing" THEN "missing" ELSE @])

Link == Takes(Ask("link", 0, "person")) /\ Room /\ Client(With(record, Contact("person")))
LinkNewcomer == Takes(Ask("link", 0, "newcomer")) /\ Room /\ record.person = "none"
  /\ Client(With([record EXCEPT !.person = "active"], Contact("person")))
Unlink == \E i \in Places : Takes(Ask("unlink", i, None)) /\ Client(Ends(i, "unlinked"))

SetStatus == \E s \in Statuses : Takes(Ask("status", 0, s)) /\ Client([record EXCEPT !.status = s])
Delete == Takes(Ask("delete", 0, None)) /\ Client([record EXCEPT !.status = "deleted", !.rows = <<>>])
Bill == Held /\ Client([record EXCEPT !.billed = ~@])

AddPerson == record.person = "none" /\ Client([record EXCEPT !.person = "active"])
\* actorUpdates, and the trigger upon the links.
Engaged == \E i \in Rows("plan", "planned") \cup Rows("contact", "linked") : record.rows[i].who = "person"
Deactivate == record.person = "active" /\ ~Engaged /\ Client([record EXCEPT !.person = "inactive"])
Activate == record.person = "inactive" /\ Client([record EXCEPT !.person = "active"])

Next == NewPlan \/ Replan \/ Complete \/ CompleteAndPlan \/ Skip \/ Cancel \/ Reschedule
  \/ Write \/ DeleteNote \/ Refer \/ Attach \/ Spoil \/ Download \/ DeleteFile
  \/ Link \/ LinkNewcomer \/ Unlink \/ SetStatus \/ Delete \/ Bill
  \/ AddPerson \/ Deactivate \/ Activate
Spec == Init /\ [][Next]_record

----------------------------------------------------------------------------
(* The strict readers of the page's lists.                                     *)
\* The three fields that say a row is deleted, or unlinked, come together.
Over(row) == IF row.state \in {"deleted", "unlinked"} THEN {"at", "by", "reason"} ELSE {}
ServedActivity(row) ==
  Over(row) \cup (IF row.kind = "reference" THEN {"source_type", "source_id"}
                  ELSE IF row.state = "kept" THEN {"body"} ELSE {})
OverReads(has) == "at" \in has <=> {"by", "reason"} \cap has # {}
ActivityReads(row) ==
  LET has == ServedActivity(row) IN
  /\ IF row.kind = "reference" THEN {"source_type", "source_id"} \subseteq has /\ "body" \notin has
     ELSE {"source_type", "source_id"} \cap has = {} /\ ("at" \in has <=> "body" \notin has)
  /\ OverReads(has)
FollowupReads(row) ==
  row.state \in {"planned", "completed", "skipped", "cancelled"} /\ row.who \in People
FileReads(row) == row.checked \in {"verified", "missing", "mismatch"} /\ OverReads(Over(row))
ContactReads(row) == OverReads(Over(row))
\* getClientActorLinks: one live row at most, and every row of the history is over.
LiveContacts == Rows("contact", "linked")
History == Rows("contact", "unlinked")
ContactsRead ==
  /\ \A i, j \in LiveContacts : i = j
  /\ \A i \in History : "at" \in Over(record.rows[i])
\* The plan a rescheduled one came from is shown by a read of its own, which the page
\* refuses when it is another client's.
Located(i) == i \in Planned
FormerPlansRead == \A i \in Planned : record.rows[i].from # 0 => Located(record.rows[i].from)
ClientReads == record.status \in Statuses

Reads ==
  Held =>
    /\ ClientReads /\ ContactsRead /\ FormerPlansRead
    /\ \A i \in DOMAIN record.rows : LET row == record.rows[i] IN
         CASE row.kind = "plan" -> FollowupReads(row)
           [] row.kind \in {"note", "reference"} -> ActivityReads(row)
           [] row.kind = "file" -> FileReads(row)
           [] row.kind = "contact" -> ContactReads(row)

----------------------------------------------------------------------------
(* The buttons and forms of ClientDetailPage and its four sections.            *)
CanPlan == record.status # "inactive"
\* PlanFields lists who is available; a form opened upon a plan starts with its own
\* assignee, listed or not, and planError only asks that there is one.
Filled(who) == who # None
Assignees(shown) == {who \in Available \cup shown \cup {None} : Filled(who)}
Shown(i) == {record.rows[i].who}
PlanForms == IF CanPlan THEN {Ask("plan", 0, who) : who \in Assignees({})} ELSE {}
EndForms(i) ==
  {Ask(cmd, i, None) : cmd \in {"complete", "skip", "cancel"}}
  \cup (IF CanPlan THEN {Ask("complete", i, who) : who \in Assignees(Shown(i))} ELSE {})
ChangeForms(i) ==
  IF CanPlan THEN {Ask(cmd, i, who) : cmd \in {"replan", "reschedule"}, who \in Assignees(Shown(i))} ELSE {}
FollowupOffers == PlanForms \cup UNION {EndForms(i) \cup ChangeForms(i) : i \in Rows("plan", "planned")}

NoteForm == {Ask("note", 0, None)}
RewriteForm(i) == {Ask("rewrite", i, None)}
DeletionForm(i) == {Ask("delete_note", i, None)}
ActivityOffers == NoteForm \cup UNION {RewriteForm(i) \cup DeletionForm(i) : i \in Rows("note", "kept")}

UploadForm == {Ask("attach", 0, None)}
FileForms(i) == {Ask(cmd, i, None) : cmd \in {"download", "delete_file"}}
FileOffers == UploadForm \cup UNION {FileForms(i) : i \in Rows("file", "kept")}

LinkForms == {Ask("link", 0, who) : who \in {"newcomer"} \cup (Available \ {"owner"})}
ContactOffers ==
  IF LiveContacts = {} THEN LinkForms ELSE {Ask("unlink", i, None) : i \in LiveContacts}

EditForm == {Ask("status", 0, s) : s \in Statuses}
StatusSwitch == {Ask("status", 0, IF record.status = "inactive" THEN "active" ELSE "inactive")}
DeleteOffer == IF record.status = "inactive" THEN {Ask("delete", 0, None)} ELSE {}
Offers ==
  IF ~Held THEN {}
  ELSE FollowupOffers \cup ActivityOffers \cup FileOffers \cup ContactOffers
    \cup EditForm \cup StatusSwitch \cup DeleteOffer

\* What the page says before it asks, and what only the disk can tell.
ToldBefore == {"CLIENT_HAS_INVOICES", "CLIENT_HAS_FINANCIAL_ENTRIES", "CLIENT_HAS_FOLLOWUPS"}
ToldAfter == {"CLIENT_ATTACHMENT_FILE_MISSING", "CLIENT_ATTACHMENT_INTEGRITY_MISMATCH"}
Told(c) == IF c.cmd = "delete" THEN ToldBefore ELSE IF c.cmd = "download" THEN ToldAfter ELSE {}
Accepts(c) == Refusal(c) \in {None} \cup Told(c)
=============================================================================
