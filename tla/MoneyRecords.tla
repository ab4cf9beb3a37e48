---------------------------- MODULE MoneyRecords ----------------------------
(* An invoice with its PDF and the income its payment books, beside an entry  *)
(* a person wrote: what the service's commands make of the rows, what the web *)
(* client's readers take for true, and the buttons its pages show.            *)
EXTENDS Naturals

CONSTANT LastDay   \* the last day of the model's calendar

VARIABLE record

Days == 0..LastDay
Never == LastDay + 1   \* a date column that is null

Init == record =
  [status |-> "absent", issue |-> 0, due |-> 0, paid |-> Never,
   payment |-> FALSE, project |-> FALSE, pdf |-> "none", file |-> FALSE,
   entry |-> "absent", voidedAt |-> FALSE, voidReason |-> FALSE, today |-> 0]

Set(fields) == record' = fields

\* The states of an invoice and of an entry in which the service takes a command.
Accepts(command) ==
  CASE command \in {"update", "mark_sent"} -> record.status = "draft"
    [] command = "delete" -> record.status = "draft" /\ ~record.payment
    [] command = "mark_viewed" -> record.status = "sent"
    [] command = "mark_overdue" ->
         record.status \in {"sent", "viewed"} /\ record.due < record.today
    [] command = "mark_paid" ->
         record.status \in {"viewed", "overdue"} /\ ~record.payment
         /\ record.issue <= record.today
    [] command = "generate_pdf" -> record.status # "absent"
    [] command = "download_pdf" -> record.pdf # "none" /\ record.file
    [] command \in {"update_entry", "void_entry"} ->
         record.entry \in {"pending", "confirmed"}
    [] OTHER -> FALSE

\* createInvoice, and updateInvoice while the invoice is a draft.
Dated(issue, due) == issue \in Days /\ due \in Days /\ issue <= due
Create == record.status = "absent" /\ \E issue, due \in Days, project \in BOOLEAN :
  /\ Dated(issue, due)
  /\ Set([record EXCEPT !.status = "draft", !.issue = issue, !.due = due, !.project = project])
\* Mutant: the dates of a changed draft are not compared again.
Update_Unordered == Accepts("update") /\ \E issue, due \in Days, project \in BOOLEAN :
  Set([record EXCEPT !.issue = issue, !.due = due, !.project = project])
Update == Accepts("update") /\ \E issue, due \in Days, project \in BOOLEAN :
  /\ Dated(issue, due)
  /\ Set([record EXCEPT !.issue = issue, !.due = due, !.project = project])

\* The draft goes with its PDF; no entry refers to it.
Delete == Accepts("delete")
  /\ Set([record EXCEPT !.status = "absent", !.project = FALSE, !.pdf = "none", !.file = FALSE])

MarkSent == Accepts("mark_sent") /\ Set([record EXCEPT !.status = "sent"])
MarkViewed == Accepts("mark_viewed") /\ Set([record EXCEPT !.status = "viewed"])
MarkOverdue == Accepts("mark_overdue") /\ Set([record EXCEPT !.status = "overdue"])

\* The payment books a confirmed income entry in the same transaction.
MarkPaid == Accepts("mark_paid") /\ \E date \in record.issue..record.today :
  Set([record EXCEPT !.status = "paid", !.paid = date, !.payment = TRUE])

\* The project goes; the invoice stays, without it.
DeleteProject == record.project /\ Set([record EXCEPT !.project = FALSE])

\* A new PDF replaces the old one, whatever became of its file.
GeneratePdf == Accepts("generate_pdf")
  /\ Set([record EXCEPT !.pdf = "verified", !.file = TRUE])
LoseFile == record.file /\ Set([record EXCEPT !.file = FALSE])
\* getInvoicePdf and the download look at the file and note what they found.
CheckPdf == record.pdf # "none"
  /\ Set([record EXCEPT !.pdf = IF record.file THEN "verified" ELSE "missing"])

CreateEntry == record.entry = "absent" /\ \E status \in {"pending", "confirmed"} :
  Set([record EXCEPT !.entry = status])
UpdateEntry == Accepts("update_entry") /\ \E status \in {"pending", "confirmed"} :
  Set([record EXCEPT !.entry = status])
VoidEntry == Accepts("void_entry")
  /\ Set([record EXCEPT !.entry = "voided", !.voidedAt = TRUE, !.voidReason = TRUE])

Tomorrow == record.today < LastDay /\ Set([record EXCEPT !.today = @ + 1])

Next ==
  \/ Create \/ Update \/ Delete \/ MarkSent \/ MarkViewed \/ MarkOverdue \/ MarkPaid
  \/ DeleteProject \/ GeneratePdf \/ LoseFile \/ CheckPdf
  \/ CreateEntry \/ UpdateEntry \/ VoidEntry \/ Tomorrow
Spec == Init /\ [][Next]_record

----------------------------------------------------------------------------
\* normalizeInvoice, normalizeFinancialEntry.
InvoiceReads ==
  record.status # "absent" =>
    /\ record.issue <= record.due
    /\ record.status = "paid" <=> record.paid # Never
    /\ record.paid # Never => record.issue <= record.paid
    /\ record.payment => record.status = "paid"
EntryReads ==
  record.entry # "absent" =>
    (record.entry = "voided" <=> record.voidedAt)
    /\ (record.entry = "voided" <=> record.voidReason)
Reads == InvoiceReads /\ EntryReads

\* InvoiceActions; the dialog of a payment takes no day before the issue, and
\* none after today.
InvoiceOffers ==
  CASE record.status = "draft" -> {"update", "mark_sent", "delete"}
    [] record.status = "sent" -> {"mark_viewed"}
    [] record.status \in {"viewed", "overdue"} ->
         IF record.issue <= record.today THEN {"mark_paid"} ELSE {}
    [] OTHER -> {}
\* InvoicePdfSection, with the integrity the last read reported.
PdfOffers ==
  (IF record.status # "absent" THEN {"generate_pdf"} ELSE {})
  \cup (IF record.pdf # "none" /\ record.file THEN {"download_pdf"} ELSE {})
\* IncomePage: the entry of a payment is read-only.
EntryOffers ==
  IF record.entry \in {"pending", "confirmed"} THEN {"update_entry", "void_entry"} ELSE {}
Offers == InvoiceOffers \cup PdfOffers \cup EntryOffers
=============================================================================
