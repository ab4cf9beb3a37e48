--------------------------- MODULE MoneyProposals --------------------------
(* The proposals about an invoice and its document, a ledger entry, and an     *)
(* export of the ledger. One project, "p1", whose client may have changed       *)
(* since it was linked; the other fields of a row go the way of the amount. Of  *)
(* a date it matters whether it lies before the invoice, and in the future.     *)
EXTENDS ProposalText

InvoiceStates == {"draft", "sent", "viewed", "paid", "overdue"}
Dates == {"too_early", "past", "coming"}
Clients == {"c1", "c2"}

Worlds ==
  {v \in [of : {"invoice"}, status : InvoiceStates, project : {"p1", "null"},
          owner : Clients \cup {"null"}, due : {"past", "coming"}, pdf : BOOLEAN, entry : BOOLEAN] :
     /\ v.entry => v.status \in {"draft", "paid"}
     /\ v.due = "past" => v.status \in {"sent", "viewed"}
     /\ v.pdf => v.status \in {"draft", "sent"}}
  \cup {v \in [of : {"entry"}, status : {"pending", "confirmed", "voided"}, invoiced : BOOLEAN,
               client : {"c1", "null"}, project : {"p1", "null"}, owner : Clients \cup {"null"}] :
          v.invoiced \/ v.status = "voided" => v.client = "null" /\ v.owner = "null"}
  \cup [of : {"new_invoice", "new_entry"}, owner : Clients \cup {"null"}]
  \cup [of : {"export"}, rows : {"some", "others"}]

InvoiceTexts ==
  [client_id |-> Clients, project_id |-> {"p1", "null"}, amount |-> {"new"}, due_date |-> Dates]
EntryTexts ==
  [amount |-> {"new"}, status |-> {"pending", "confirmed"}, client_id |-> Clients \cup {"null"},
   project_id |-> {"p1", "null"}]
ExportTexts == [currency |-> {"new"}, category |-> {"new"}]

Act(kind, changes) == [kind |-> kind, changes |-> changes]
Acts(kind, all) == {Act(kind, c) : c \in all}
Marks == {"invoice.mark_sent", "invoice.mark_viewed", "invoice.mark_overdue"}
Files == {"invoice.delete", "invoice.generate_pdf"}
\* parseAIInvoiceAction, parseAIFinancialAction, parseAIFinanceExport: what is written
\* down is what was cleaned.
Actions ==
  [new_invoice |-> Acts("invoice.create", {f \in Written(InvoiceTexts) :
                          {"client_id", "amount", "due_date"} \subseteq DOMAIN f}),
   new_entry |-> Acts("financial_entry.create", {f \in Written(EntryTexts) :
                        {"amount", "status"} \subseteq DOMAIN f}),
   invoice |-> Acts("invoice.update", Written(InvoiceTexts) \ {Nothing})
        \cup Acts("invoice.mark_paid", [paid_date : Dates])
        \cup {Act(k, Nothing) : k \in Marks \cup Files},
   entry |-> Acts("financial_entry.update", Written(EntryTexts) \ {Nothing})
        \cup {Act("financial_entry.void", [reason |-> "new"])},
   export |-> Acts("finance.export_csv", {f \in Written(ExportTexts) : "currency" \in DOMAIN f})]

----------------------------------------------------------------------------
(* The service.                                                               *)
InvoiceRow(w) ==
  [client_id |-> "c1", project_id |-> w.project, amount |-> "old", due_date |-> w.due,
   status |-> w.status, paid_date |-> IF w.status = "paid" THEN "past" ELSE "null"]
\* invoiceFromCreateRequest, invoiceUpdates
Drafted(a, w) ==
  IF a.kind = "invoice.create"
  THEN a.changes @@ [project_id |-> "null", status |-> "draft", paid_date |-> "null"]
  ELSE a.changes @@ InvoiceRow(w)
\* invoiceTransition
Transition(kind) ==
  CASE kind = "invoice.update" -> [from |-> {"draft"}, to |-> "draft"]
    [] kind = "invoice.mark_sent" -> [from |-> {"draft"}, to |-> "sent"]
    [] kind = "invoice.mark_viewed" -> [from |-> {"sent"}, to |-> "viewed"]
    [] kind = "invoice.mark_overdue" -> [from |-> {"sent", "viewed"}, to |-> "overdue"]
    [] kind = "invoice.mark_paid" -> [from |-> {"viewed", "overdue"}, to |-> "paid"]
    [] kind = "invoice.delete" -> [from |-> {"draft"}, to |-> "deleted"]
    [] OTHER -> [from |-> InvoiceStates, to |-> "draft"]

EntryRow(w) ==
  [amount |-> "old", status |-> w.status, client_id |-> w.client, project_id |-> w.project]
\* normalizeFinancialEntryAssociations
Associated(w, row) ==
  IF row.project_id = "p1" /\ row.client_id = "null"
  THEN [row EXCEPT !.client_id = w.owner] ELSE row
Entered(a, w) ==
  Associated(w, a.changes @@
    IF a.kind = "financial_entry.create" THEN [client_id |-> "null", project_id |-> "null"]
    ELSE EntryRow(w))

\* previewAIInvoiceAction, previewAIFinancialAction, previewAIFinanceExport
Previews(a, w) ==
  LET k == a.kind IN
  IF k \in {"invoice.create", "invoice.update"} THEN
         /\ k = "invoice.update" => w.status = "draft"
         /\ Drafted(a, w).due_date # "too_early"
         /\ Drafted(a, w).project_id = "p1" => Drafted(a, w).client_id = w.owner
  ELSE IF w.of = "invoice" THEN
         /\ w.status \in Transition(k).from
         /\ k = "invoice.mark_overdue" => w.due = "past"
         /\ k = "invoice.mark_paid" => a.changes.paid_date = "past"
         /\ k = "invoice.delete" => ~w.entry
  ELSE IF w.of \in {"entry", "new_entry"} THEN
         /\ k # "financial_entry.create" => ~w.invoiced /\ w.status # "voided"
         /\ k # "financial_entry.void" /\ Entered(a, w).project_id = "p1" =>
              w.owner \in {"null", Entered(a, w).client_id}
  ELSE TRUE

Pdf(w) == [pdf_asset_id |-> IF w.pdf THEN "old" ELSE "null"]
Before(a, w) ==
  IF a.kind \in {"invoice.create", "financial_entry.create", "finance.export_csv"} THEN Nothing
  ELSE IF a.kind \in Files THEN InvoiceRow(w) @@ Pdf(w)
  ELSE IF w.of = "invoice" THEN InvoiceRow(w)
  ELSE EntryRow(w)
After(a, w) ==
  LET k == a.kind IN
  IF k \in {"invoice.create", "invoice.update"} THEN Drafted(a, w)
  ELSE IF k \in Files THEN [file |-> w.pdf]
  ELSE IF w.of = "invoice" THEN a.changes @@ [status |-> Transition(k).to] @@ InvoiceRow(w)
  ELSE IF k = "financial_entry.void" THEN a.changes @@ [status |-> "voided"] @@ EntryRow(w)
  ELSE IF w.of \in {"entry", "new_entry"} THEN Entered(a, w)
  ELSE a.changes @@ [category |-> "null", rows |-> w.rows]
More(a, w) == Nothing

----------------------------------------------------------------------------
(* The client.                                                                *)
InvoiceFields == DOMAIN InvoiceTexts
InvoiceRecord(f, pdf) ==
  /\ DOMAIN f = InvoiceFields \cup {"status", "paid_date"} \cup (IF pdf THEN {"pdf_asset_id"} ELSE {})
  /\ f.client_id \in Clients /\ f.due_date # "too_early" /\ f.status \in InvoiceStates
  /\ IF f.status = "paid" THEN f.paid_date \in {"past", "coming"} ELSE f.paid_date = "null"
\* validDeletionPdf, and what becomes of the document.
ValidInvoiceFile(p) ==
  /\ InvoiceRecord(p.before, TRUE)
  /\ p.kind = "invoice.generate_pdf" \/ p.before.status = "draft"
  /\ p.after = [file |-> p.before.pdf_asset_id # "null"]
ValidInvoiceProposal(p) ==
  LET creates == p.kind = "invoice.create"
      pays == p.kind = "invoice.mark_paid"
      c == DOMAIN p.changes
      was == IF creates THEN [project_id |-> "null"] ELSE Cut(p.before, InvoiceFields)
  IN /\ c \subseteq IF pays THEN {"paid_date"} ELSE IF creates \/ p.kind = "invoice.update"
                    THEN InvoiceFields ELSE {}
     /\ creates => {"client_id", "amount", "due_date"} \subseteq c
     /\ p.kind = "invoice.update" => c # {}
     /\ IF creates THEN p.before = Nothing /\ p.after.status = "draft"
        ELSE /\ InvoiceRecord(p.before, FALSE)
             /\ p.before.status \in Transition(p.kind).from /\ p.after.status = Transition(p.kind).to
     /\ InvoiceRecord(p.after, FALSE)
     /\ Cut(p.after, InvoiceFields) = Cut(p.changes, InvoiceFields) @@ was
     /\ p.after.paid_date = IF pays THEN p.changes.paid_date ELSE IF creates THEN "null" ELSE p.before.paid_date

EntryFields == DOMAIN EntryTexts
\* The client of an entry may be filled in from its project.
ValidFinancialProposal(p) ==
  LET creates == p.kind = "financial_entry.create"
      voids == p.kind = "financial_entry.void"
      c == p.changes
      was == IF creates THEN [client_id |-> "null", project_id |-> "null"] ELSE p.before
      filled == ("client_id" \in DOMAIN c => c.client_id = "null") /\ p.after.project_id # "null"
      free == (IF filled THEN {"client_id"} ELSE {}) \cup (IF voids THEN {"status"} ELSE {})
  IN /\ c # Nothing /\ DOMAIN c \subseteq IF voids THEN {"reason"} ELSE EntryFields
     /\ creates => {"amount", "status"} \subseteq DOMAIN c
     /\ IF creates THEN p.before = Nothing
        ELSE DOMAIN p.before = EntryFields /\ p.before.status # "voided"
     /\ DOMAIN p.after = EntryFields \cup (IF voids THEN {"reason"} ELSE {})
     /\ (p.after.status = "voided") <=> voids
     /\ voids => p.after.reason = c.reason
     /\ Cut(p.after, EntryFields \ free) = Cut(c @@ was, EntryFields \ free)

ValidFinanceExport(p) ==
  /\ "currency" \in DOMAIN p.changes /\ DOMAIN p.changes \subseteq DOMAIN ExportTexts
  /\ p.before = Nothing /\ DOMAIN p.after = {"currency", "category", "rows"}
  /\ p.after.currency = p.changes.currency
  /\ p.after.category = IF "category" \in DOMAIN p.changes THEN p.changes.category ELSE "null"

Valid(p) ==
  IF p.kind \in Files THEN ValidInvoiceFile(p)
  ELSE IF p.of \in {"invoice", "new_invoice"} THEN ValidInvoiceProposal(p)
  ELSE IF p.of \in {"entry", "new_entry"} THEN ValidFinancialProposal(p)
  ELSE ValidFinanceExport(p)
=============================================================================
