-------------------------- MODULE ReminderRecords --------------------------
(* A reminder and the series it belongs to: what the person's commands, the   *)
(* automation and the projection of due reminders make of the row, on a small *)
(* calendar; what the client's reader takes for true; what the manager shows. *)
(* Of the two rows a recurring reminder becomes when it fires, the model      *)
(* follows either.                                                            *)
EXTENDS Naturals, Sequences

CONSTANT MonthLengths   \* the days of each month of the model's calendar

VARIABLE record

Months == DOMAIN MonthLengths
Instants == UNION {{m} \X (1..MonthLengths[m]) : m \in Months}
Before(s, t) == s[1] < t[1] \/ (s[1] = t[1] /\ s[2] < t[2])

\* monthlyReminderOccurrence: the anchor, or the last day of a shorter month.
Clamped(month, anchor) ==
  <<month, IF anchor > MonthLengths[month] THEN MonthLengths[month] ELSE anchor>>

Rules == {"none", "daily", "weekly", "weekdays", "monthly"}
\* The form resets interval and zone with the rule "none", and only there.
Plain(rule) == rule = "none"
\* reminderRecurrenceAnchorDay
AnchorOf(rule, at) == IF rule = "monthly" THEN at[2] ELSE 1

Blank == [status |-> "absent", source |-> "manual", sourceId |-> FALSE,
          rule |-> "none", plain |-> TRUE, anchor |-> 1, at |-> <<1, 1>>,
          fired |-> FALSE, inbox |-> FALSE, cancelled |-> FALSE,
          actions |-> {}, now |-> <<1, 1>>]
Init == record = Blank

Future(at) == Before(record.now, at)
Scheduled == record.status = "scheduled"
Accepts(command) == command \in {"edit", "cancel"} /\ Scheduled
Row(fields) == record' = fields

\* createReminder
Create == record.status = "absent" /\ \E rule \in Rules, at \in Instants :
  /\ Future(at)
  /\ Row([Blank EXCEPT !.status = "scheduled", !.rule = rule, !.plain = Plain(rule),
       !.anchor = AnchorOf(rule, at), !.at = at,
       !.actions = {"edit", "cancel"}, !.now = record.now])

\* An automation run writes a reminder that is due at once.
Automate == record.status = "absent"
  /\ Row([Blank EXCEPT !.status = "scheduled", !.source = "automation",
       !.sourceId = TRUE, !.at = record.now,
       !.actions = {"edit", "cancel"}, !.now = record.now])

\* Mutant: a rule that is given up keeps its zone and interval.
Save_KeepsZone == Accepts("edit") /\ \E rule \in Rules, at \in Instants :
  /\ Future(at)
  /\ Row([record EXCEPT !.rule = rule, !.plain = @ /\ Plain(rule), !.at = at,
       !.anchor = AnchorOf(rule, at)])

\* The manager saves its whole form, the date with everything else; the
\* service derives the anchor from the date it is sent.
Save == Accepts("edit") /\ \E rule \in Rules, at \in Instants :
  /\ Future(at)
  /\ Row([record EXCEPT !.rule = rule, !.plain = Plain(rule), !.at = at,
       !.anchor = AnchorOf(rule, at)])

Cancel == Accepts("cancel")
  /\ Row([record EXCEPT !.status = "cancelled", !.cancelled = TRUE, !.actions = {}])

Fired == [record EXCEPT !.status = "fired", !.fired = TRUE, !.inbox = TRUE, !.actions = {}]
Occurs(at) == [record EXCEPT !.at = at]
\* nextReminderOccurrence: the first after now; a monthly one keeps the anchor.
Following(at) ==
  /\ Future(at)
  /\ IF record.rule = "monthly"
     THEN /\ at[1] > record.at[1] /\ at = Clamped(at[1], record.anchor)
          /\ \A m \in Months : record.at[1] < m /\ m < at[1] =>
               ~Future(Clamped(m, record.anchor))
     ELSE Before(record.at, at)
\* projectReminder and scheduleNextReminderOccurrence, in one transaction.
Fire == Scheduled /\ ~Future(record.at)
  /\ \/ Row(Fired)
     \/ record.rule # "none" /\ \E at \in Instants : Following(at) /\ Row(Occurs(at))

Pass == \E now \in Instants : Future(now) /\ Row([record EXCEPT !.now = now])

Next == Create \/ Automate \/ Save \/ Cancel \/ Fire \/ Pass
Spec == Init /\ [][Next]_record

----------------------------------------------------------------------------
\* normalizeReminder
Reads ==
  record.status # "absent" =>
    /\ record.rule = "none" => record.plain
    /\ record.rule # "monthly" => record.anchor = 1
    /\ record.anchor \in 1..31
    /\ record.source = "manual" <=> ~record.sourceId
    /\ record.status = "fired" <=> record.fired
    /\ record.status = "fired" <=> record.inbox
    /\ record.status = "cancelled" <=> record.cancelled
    /\ record.actions = IF Scheduled THEN {"edit", "cancel"} ELSE {}

\* ReminderManagerModal: the form and its cancellation belong to a scheduled one.
Offers == IF Scheduled THEN {"edit", "cancel"} ELSE {}
=============================================================================
