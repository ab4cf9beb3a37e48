---------------------------- MODULE RecordsProofs ----------------------------
(* Proofs about Records: for seven of its domains, whatever commands a row has *)
(* been through, the client reads it, every button it enables is a command the *)
(* service takes, and every answer is what the client demands of it. Each      *)
(* domain has an inductive invariant of its own and four lemmas: it holds at   *)
(* the start, every step keeps it, the reader takes what keeps it, and so does *)
(* the service what is offered upon it.                                        *)
EXTENDS Records, Integers, FiniteSetTheorems, SequenceTheorems, TLAPS


----------------------------------------------------------------------------
(* Invoices and their finance entries (MoneyRecords).                      *)
InvoiceStatuses == {"draft", "sent", "viewed", "overdue", "paid"}
Invoices ==
  [status : InvoiceStatuses \cup {"absent"}, issue : Money!Days, due : Money!Days,
   paid : 0..LastDay + 1, payment : BOOLEAN, project : BOOLEAN,
   pdf : {"none", "verified", "missing"}, file : BOOLEAN,
   entry : {"absent", "pending", "confirmed", "voided"},
   voidedAt : BOOLEAN, voidReason : BOOLEAN, today : Money!Days]
\* An invoice that is paid, and only that, has a day of payment, not before its issue, and
\* names its payment; a voided entry, and only that, says when and why.
MoneyHolds ==
  /\ record \in Invoices
  /\ record.issue <= record.due
  /\ record.status = "paid" <=> record.paid # LastDay + 1
  /\ record.status = "paid" <=> record.payment
  /\ record.status = "paid" => record.issue <= record.paid
  /\ record.entry = "voided" <=> record.voidedAt
  /\ record.entry = "voided" <=> record.voidReason

\* The calendar of the invoices has a last day.
LEMMA DayFact == LastDay \in Nat
  BY CalendarAssumption

\* The invariant of an invoice and its entry holds at the start.
LEMMA MoneyStarts == ASSUME Money!Init PROVE MoneyHolds
  BY DayFact
  DEF Money!Init, MoneyHolds, Invoices, InvoiceStatuses, Money!Days, Money!Never

\* The strict reader of the client takes an invoice and its entry as long as the
\* invariant holds.
LEMMA MoneyIsRead == ASSUME MoneyHolds PROVE Money!Reads
  BY DayFact
  DEF MoneyHolds, Invoices, InvoiceStatuses, Money!Days, Money!Never, Money!Reads,
      Money!InvoiceReads, Money!EntryReads

\* A button that is enabled upon an invoice and its entry is a command the service takes.
LEMMA MoneyIsOffered == ASSUME MoneyHolds, NEW c \in Money!Offers PROVE Money!Accepts(c)
  BY DayFact
  DEF MoneyHolds, Invoices, InvoiceStatuses, Money!Days, Money!Never, Money!Offers,
      Money!InvoiceOffers, Money!PdfOffers, Money!EntryOffers, Money!Accepts

\* Every step of an invoice and its entry keeps the invariant.
LEMMA MoneySteps == ASSUME MoneyHolds, Money!Next PROVE MoneyHolds'
<1> USE DayFact
  DEF MoneyHolds, Invoices, InvoiceStatuses, Money!Days, Money!Never, Money!Set, Money!Accepts
<1>1. CASE Money!Create BY <1>1 DEF Money!Create, Money!Dated
<1>2. CASE Money!Update BY <1>2 DEF Money!Update, Money!Dated
<1>3. CASE Money!Delete BY <1>3 DEF Money!Delete
<1>4. CASE Money!MarkSent BY <1>4 DEF Money!MarkSent
<1>5. CASE Money!MarkViewed BY <1>5 DEF Money!MarkViewed
<1>6. CASE Money!MarkOverdue BY <1>6 DEF Money!MarkOverdue
<1>7. CASE Money!MarkPaid
  <2>1. PICK date \in record.issue..record.today :
          record' = [record EXCEPT !.status = "paid", !.paid = date, !.payment = TRUE]
    BY <1>7 DEF Money!MarkPaid
  <2>2. date \in 0..LastDay /\ record.issue <= date BY <2>1
  <2>3. record'.issue = record.issue /\ record'.paid = date /\ record'.status = "paid" BY <2>1
  <2>4. date \in 0..LastDay + 1 /\ date # LastDay + 1 BY <2>2
  <2>5. record' \in Invoices BY <2>1, <2>4
  <2>6. record'.issue <= record'.due /\ record'.issue <= record'.paid BY <2>1, <2>2
  <2>7. /\ record'.payment /\ record'.entry = record.entry /\ record'.voidedAt = record.voidedAt
        /\ record'.voidReason = record.voidReason
    BY <2>1
  <2> HIDE DEF Invoices, Money!Days
  <2> QED BY <2>3, <2>4, <2>5, <2>6, <2>7
<1>8. CASE Money!DeleteProject BY <1>8 DEF Money!DeleteProject
<1>9. CASE Money!GeneratePdf BY <1>9 DEF Money!GeneratePdf
<1>10. CASE Money!LoseFile BY <1>10 DEF Money!LoseFile
<1>11. CASE Money!CheckPdf BY <1>11 DEF Money!CheckPdf
<1>12. CASE Money!CreateEntry BY <1>12 DEF Money!CreateEntry
<1>13. CASE Money!UpdateEntry BY <1>13 DEF Money!UpdateEntry
<1>14. CASE Money!VoidEntry BY <1>14 DEF Money!VoidEntry
<1>15. CASE Money!Tomorrow BY <1>15 DEF Money!Tomorrow
<1> QED
  BY <1>1, <1>2, <1>3, <1>4, <1>5, <1>6, <1>7, <1>8, <1>9, <1>10, <1>11, <1>12, <1>13,
     <1>14, <1>15
  DEF Money!Next

----------------------------------------------------------------------------
(* Reminders (ReminderRecords).                                            *)
ReminderRows ==
  [status : {"absent", "scheduled", "fired", "cancelled"}, source : {"manual", "automation"},
   sourceId : BOOLEAN, rule : Reminder!Rules, plain : BOOLEAN, anchor : 1..31,
   at : (1..Len(MonthLengths)) \X (1..31), fired : BOOLEAN, inbox : BOOLEAN,
   cancelled : BOOLEAN,
   actions : SUBSET {"edit", "cancel"}, now : (1..Len(MonthLengths)) \X (1..31)]
\* The facts of a reminder go with its status, and so do the buttons it lists.
ReminderHolds ==
  /\ record \in ReminderRows
  /\ record.rule = "none" => record.plain
  /\ record.rule # "monthly" => record.anchor = 1
  /\ record.source = "manual" <=> ~record.sourceId
  /\ record.status = "fired" <=> record.fired
  /\ record.status = "fired" <=> record.inbox
  /\ record.status = "cancelled" <=> record.cancelled
  /\ record.actions = IF record.status = "scheduled" THEN {"edit", "cancel"} ELSE {}

\* An instant is a day of a month of the calendar.
LEMMA CalendarInstants ==
  ASSUME NEW at \in Reminder!Instants
  PROVE  at \in (1..Len(MonthLengths)) \X (1..31) /\ at[2] \in 1..31
<1>0. DOMAIN MonthLengths = 1..Len(MonthLengths) /\ MonthLengths \in Seq(1..31)
  BY CalendarAssumption
<1>1. PICK m \in DOMAIN MonthLengths : at \in {m} \X (1..MonthLengths[m])
  BY DEF Reminder!Instants, Reminder!Months
<1>2. MonthLengths[m] \in 1..31 BY <1>0, ElementOfSeq
<1>3. at = <<at[1], at[2]>> /\ at[1] = m /\ at[2] \in 1..MonthLengths[m] BY <1>1
<1>4. at[2] \in 1..31 BY <1>2, <1>3
<1> QED BY <1>0, <1>3, <1>4

\* The invariant of a reminder holds at the start.
LEMMA ReminderStarts == ASSUME Reminder!Init PROVE ReminderHolds
<1>1. Len(MonthLengths) \in Nat /\ Len(MonthLengths) # 0 BY CalendarAssumption
<1> QED
  BY <1>1 DEF Reminder!Init, Reminder!Blank, ReminderHolds, ReminderRows, Reminder!Rules

\* The strict reader of the client takes a reminder as long as the
\* invariant holds.
LEMMA ReminderIsRead == ASSUME ReminderHolds PROVE Reminder!Reads
  BY DEF ReminderHolds, ReminderRows, Reminder!Reads, Reminder!Scheduled

\* A button that is enabled upon a reminder is a command the service takes.
LEMMA ReminderIsOffered ==
  ASSUME ReminderHolds, NEW c \in Reminder!Offers
  PROVE Reminder!Accepts(c)
  BY DEF Reminder!Offers, Reminder!Accepts, Reminder!Scheduled

\* Every step of a reminder keeps the invariant.
LEMMA ReminderSteps == ASSUME ReminderHolds, Reminder!Next PROVE ReminderHolds'
<1> USE DEF Reminder!Row
<1>n. record.now[2] \in 1..31 BY DEF ReminderHolds, ReminderRows
<1>a. ASSUME NEW rule \in Reminder!Rules, NEW at \in Reminder!Instants
      PROVE  /\ at \in (1..Len(MonthLengths)) \X (1..31) /\ at[2] \in 1..31
             /\ Reminder!AnchorOf(rule, at) \in 1..31
             /\ rule # "monthly" => Reminder!AnchorOf(rule, at) = 1
             /\ Reminder!Plain(rule) \in BOOLEAN /\ (rule = "none" => Reminder!Plain(rule))
  BY CalendarInstants DEF Reminder!AnchorOf, Reminder!Plain
<1>1. CASE Reminder!Create
  <2>1. PICK rule \in Reminder!Rules, at \in Reminder!Instants :
          record' = [Reminder!Blank EXCEPT !.status = "scheduled", !.rule = rule,
            !.plain = Reminder!Plain(rule), !.anchor = Reminder!AnchorOf(rule, at), !.at = at,
            !.actions = {"edit", "cancel"}, !.now = record.now]
    BY <1>1 DEF Reminder!Create
  <2> DEFINE made == [status |-> "scheduled", source |-> "manual", sourceId |-> FALSE,
      rule |-> rule,
               plain |-> Reminder!Plain(rule), anchor |-> Reminder!AnchorOf(rule, at),
                   at |-> at,
               fired |-> FALSE, inbox |-> FALSE, cancelled |-> FALSE,
               actions |-> {"edit", "cancel"}, now |-> record.now]
  <2>2. record' = made BY <2>1 DEF Reminder!Blank
  <2>3. record.now \in (1..Len(MonthLengths)) \X (1..31) BY DEF ReminderHolds, ReminderRows
  <2> QED BY <1>a, <2>2, <2>3 DEF ReminderHolds, ReminderRows
<1>2. CASE Reminder!Automate
  <2> DEFINE made == [status |-> "scheduled", source |-> "automation", sourceId |-> TRUE,
      rule |-> "none",
               plain |-> TRUE, anchor |-> 1, at |-> record.now,
               fired |-> FALSE, inbox |-> FALSE, cancelled |-> FALSE,
               actions |-> {"edit", "cancel"}, now |-> record.now]
  <2>1. record' = made BY <1>2 DEF Reminder!Automate, Reminder!Blank
  <2>2. record.now \in (1..Len(MonthLengths)) \X (1..31) BY DEF ReminderHolds, ReminderRows
  <2> QED BY <1>n, <2>1, <2>2 DEF ReminderHolds, ReminderRows, Reminder!Rules
<1>3. CASE Reminder!Save
  <2>1. PICK rule \in Reminder!Rules, at \in Reminder!Instants :
          record' = [record EXCEPT !.rule = rule, !.plain = Reminder!Plain(rule), !.at = at,
            !.anchor = Reminder!AnchorOf(rule, at)]
    BY <1>3 DEF Reminder!Save
  <2>2. record.status = "scheduled"
    BY <1>3 DEF Reminder!Save, Reminder!Accepts, Reminder!Scheduled
  <2> QED BY <1>a, <2>1, <2>2 DEF ReminderHolds, ReminderRows
<1>4. CASE Reminder!Cancel
  BY <1>4
  DEF Reminder!Cancel, Reminder!Accepts, Reminder!Scheduled, ReminderHolds, ReminderRows
<1>5. CASE Reminder!Fire
  <2>0. record.status = "scheduled" BY <1>5 DEF Reminder!Fire, Reminder!Scheduled
  <2>1. CASE record' = Reminder!Fired
    BY <2>0, <2>1 DEF Reminder!Fired, ReminderHolds, ReminderRows
  <2>2. ASSUME NEW at \in Reminder!Instants, record' = Reminder!Occurs(at) PROVE ReminderHolds'
    BY <2>2, CalendarInstants DEF Reminder!Occurs, ReminderHolds, ReminderRows
  <2> QED BY <1>5, <2>1, <2>2 DEF Reminder!Fire
<1>6. CASE Reminder!Pass
  <2>1. PICK now \in Reminder!Instants : record' = [record EXCEPT !.now = now]
    BY <1>6 DEF Reminder!Pass
  <2> QED BY <2>1, CalendarInstants DEF ReminderHolds, ReminderRows
<1> QED BY <1>1, <1>2, <1>3, <1>4, <1>5, <1>6 DEF Reminder!Next

----------------------------------------------------------------------------
(* Focus sessions (FocusRecords).                                          *)
FocusStatuses == {"none"} \cup Focus!Open \cup Focus!Ended
Sessions ==
  [now : Nat, status : FocusStatuses, accumulated : 0..PlannedSeconds, resumed : Int,
   beat : Int, ended : Int, exact : Nat, applied : Nat]
\* A session has an end once it is over; one that runs was resumed before its last heartbeat.
FocusTimed ==
  /\ record \in Sessions
  /\ record.status \in Focus!Ended <=> record.ended # -1
  /\ record.status \in {"active", "recovery_pending"} =>
       0 <= record.resumed /\ record.resumed <= record.beat /\ record.beat <= record.now
WholeMinutes(exact, applied) ==
  applied * MinuteLength <= exact /\ exact < (applied + 1) * MinuteLength
FocusHolds == FocusTimed /\ WholeMinutes(record.exact, record.applied)

\* The plan and the minute of a session are not of length zero.
LEMMA FocusConstants == PlannedSeconds \in Nat \ {0} /\ MinuteLength \in Nat \ {0}
  BY CalendarAssumption

\* The invariant of a Focus session holds at the start.
LEMMA FocusStarts == ASSUME Focus!Init PROVE FocusHolds
  BY FocusConstants
  DEF Focus!Init, FocusHolds, FocusTimed, WholeMinutes, Sessions, FocusStatuses, Focus!Open,
      Focus!Ended, Focus!NoTime

\* The strict reader of the client takes a Focus session as long as the
\* invariant holds.
LEMMA FocusIsRead == ASSUME FocusHolds PROVE Focus!Reads
  BY FocusConstants DEF FocusHolds, FocusTimed, Sessions, Focus!Reads, Focus!NoTime

\* A button that is enabled upon a Focus session is a command the service takes.
LEMMA FocusIsOffered == ASSUME FocusHolds, NEW c \in Focus!Offers PROVE Focus!Accepts(c)
  BY DEF Focus!Offers, Focus!Accepts, Focus!Open

\* What the whole part of a division leaves is less than the divisor.
LEMMA Quotient ==
  ASSUME NEW n \in Nat, NEW d \in Nat \ {0}
  PROVE n \div d \in Nat /\ (n \div d) * d <= n /\ n < (n \div d + 1) * d
  BY SMT

\* What an interval adds keeps the session within its plan.
LEMMA SettledInPlan ==
  ASSUME NEW r \in Sessions, NEW through \in Int
  PROVE Focus!Settled(r, through) \in 0..PlannedSeconds
  BY FocusConstants DEF Sessions, Focus!Settled, Focus!Least, Focus!Most

SessionOf(status, accumulated, resumed, beat, ended, exact, applied) ==
  [now |-> record.now, status |-> status, accumulated |-> accumulated, resumed |-> resumed,
   beat |-> beat, ended |-> ended, exact |-> exact, applied |-> applied]

\* Every step of a session keeps its times in order.
LEMMA FocusStays == ASSUME FocusTimed, Focus!Next PROVE FocusTimed'
<1>0. /\ Focus!Settled(record, record.now) \in 0..PlannedSeconds
      /\ Focus!Settled(record, Focus!Cutoff(record)) \in 0..PlannedSeconds
  <2>1. record.now \in Int /\ Focus!Cutoff(record) \in Int
    BY DEF FocusTimed, Sessions, Focus!Cutoff, Focus!Least
  <2> QED BY <2>1, SettledInPlan DEF FocusTimed
<1> DEFINE r == record
<1>t. /\ r.now \in Nat /\ r.status \in FocusStatuses /\ r.accumulated \in 0..PlannedSeconds
      /\ r.resumed \in Int /\ r.beat \in Int /\ r.ended \in Int /\ r.exact \in Nat
      /\ r.applied \in Nat /\ -1 \in Int /\ 0 \in 0..PlannedSeconds
  BY FocusConstants DEF FocusTimed, Sessions
<1>e. r = SessionOf(r.status, r.accumulated, r.resumed, r.beat, r.ended, r.exact, r.applied)
  BY DEF FocusTimed, Sessions, SessionOf
<1>1. CASE Focus!Start
  <2>1. record' = SessionOf("active", 0, r.now, r.now, -1, r.exact, r.applied)
    BY <1>e, <1>1
    DEF Focus!Start, Focus!Session, Focus!Running, Focus!Over, Focus!NoTime, SessionOf
  <2>2. record' \in Sessions
    BY <1>0, <1>t, <2>1, FocusConstants
    DEF SessionOf, Sessions, FocusStatuses, Focus!Open, Focus!Ended
  <2> QED
    BY <1>t, <1>1, <2>1, <2>2
    DEF Focus!Start, Focus!Accepts, FocusTimed, FocusStatuses, Focus!Open, Focus!Ended,
        SessionOf
<1>2. CASE Focus!Heartbeat
  <2>1. record' = SessionOf(r.status, r.accumulated, r.resumed, r.now, r.ended, r.exact,
      r.applied)
    BY <1>e, <1>2
    DEF Focus!Heartbeat, Focus!Session, Focus!Running, Focus!Over, Focus!NoTime, SessionOf
  <2>2. record' \in Sessions
    BY <1>0, <1>t, <2>1, FocusConstants
    DEF SessionOf, Sessions, FocusStatuses, Focus!Open, Focus!Ended
  <2> QED
    BY <1>t, <1>2, <2>1, <2>2
    DEF Focus!Heartbeat, Focus!Accepts, FocusTimed, FocusStatuses, Focus!Open, Focus!Ended,
        SessionOf
<1>3. CASE Focus!Pause
  <2>1. record' = SessionOf("paused", Focus!Settled(r, r.now), -1, r.now, r.ended, r.exact,
      r.applied)
    BY <1>e, <1>3
    DEF Focus!Pause, Focus!Session, Focus!Running, Focus!Over, Focus!NoTime, SessionOf
  <2>2. record' \in Sessions
    BY <1>0, <1>t, <2>1, FocusConstants
    DEF SessionOf, Sessions, FocusStatuses, Focus!Open, Focus!Ended
  <2> QED
    BY <1>t, <1>3, <2>1, <2>2
    DEF Focus!Pause, Focus!Accepts, FocusTimed, FocusStatuses, Focus!Open, Focus!Ended,
        SessionOf
<1>4. CASE Focus!Resume
  <2>1. record' = SessionOf("active", r.accumulated, r.now, r.now, r.ended, r.exact, r.applied)
    BY <1>e, <1>4
    DEF Focus!Resume, Focus!Session, Focus!Running, Focus!Over, Focus!NoTime, SessionOf
  <2>2. record' \in Sessions
    BY <1>0, <1>t, <2>1, FocusConstants
    DEF SessionOf, Sessions, FocusStatuses, Focus!Open, Focus!Ended
  <2> QED
    BY <1>t, <1>4, <2>1, <2>2
    DEF Focus!Resume, Focus!Accepts, FocusTimed, FocusStatuses, Focus!Open, Focus!Ended,
        SessionOf
<1>5. CASE Focus!Restart
  <2>1. record' = SessionOf("recovery_pending", r.accumulated, r.resumed, r.beat, r.ended,
      r.exact, r.applied)
    BY <1>e, <1>5
    DEF Focus!Restart, Focus!Session, Focus!Running, Focus!Over, Focus!NoTime, SessionOf
  <2>2. record' \in Sessions
    BY <1>0, <1>t, <2>1, FocusConstants
    DEF SessionOf, Sessions, FocusStatuses, Focus!Open, Focus!Ended
  <2> QED
    BY <1>t, <1>5, <2>1, <2>2
    DEF Focus!Restart, Focus!Accepts, FocusTimed, FocusStatuses, Focus!Open, Focus!Ended,
        SessionOf
<1>6. CASE Focus!IncludeGap
  <2>1. record' = SessionOf("active", Focus!Settled(r, r.now), r.now, r.now, r.ended, r.exact,
      r.applied)
    BY <1>e, <1>6
    DEF Focus!IncludeGap, Focus!Session, Focus!Running, Focus!Over, Focus!NoTime, SessionOf
  <2>2. record' \in Sessions
    BY <1>0, <1>t, <2>1, FocusConstants
    DEF SessionOf, Sessions, FocusStatuses, Focus!Open, Focus!Ended
  <2> QED
    BY <1>t, <1>6, <2>1, <2>2
    DEF Focus!IncludeGap, Focus!Accepts, FocusTimed, FocusStatuses, Focus!Open, Focus!Ended,
        SessionOf
<1>7. CASE Focus!ExcludeGap
  <2>1. record' = SessionOf("active", Focus!Settled(r, Focus!Cutoff(r)), r.now, r.now, r.ended,
      r.exact, r.applied)
    BY <1>e, <1>7
    DEF Focus!ExcludeGap, Focus!Session, Focus!Running, Focus!Over, Focus!NoTime, SessionOf
  <2>2. record' \in Sessions
    BY <1>0, <1>t, <2>1, FocusConstants
    DEF SessionOf, Sessions, FocusStatuses, Focus!Open, Focus!Ended
  <2> QED
    BY <1>t, <1>7, <2>1, <2>2
    DEF Focus!ExcludeGap, Focus!Accepts, FocusTimed, FocusStatuses, Focus!Open, Focus!Ended,
        SessionOf
<1>8. CASE Focus!Interrupt
  <2>1. record' = SessionOf("interrupted", Focus!Settled(r, Focus!Cutoff(r)), -1, r.beat,
      r.now, r.exact, r.applied)
    BY <1>e, <1>8
    DEF Focus!Interrupt, Focus!Session, Focus!Running, Focus!Over, Focus!NoTime, SessionOf
  <2>2. record' \in Sessions
    BY <1>0, <1>t, <2>1, FocusConstants
    DEF SessionOf, Sessions, FocusStatuses, Focus!Open, Focus!Ended
  <2> QED
    BY <1>t, <1>8, <2>1, <2>2
    DEF Focus!Interrupt, Focus!Accepts, FocusTimed, FocusStatuses, Focus!Open, Focus!Ended,
        SessionOf
<1>9. CASE Focus!Stop \/ Focus!Cancel
  <2> DEFINE s == Focus!Settlement
             exact == s.exact + s.accumulated
             applied == exact \div MinuteLength
  <2>1. s = SessionOf(s.status, s.accumulated, s.resumed, s.beat, s.ended, s.exact, s.applied)
    BY <1>e DEF Focus!Settlement, SessionOf
  <2>2. /\ s.now = r.now /\ s.accumulated \in 0..PlannedSeconds /\ s.beat \in Int
        /\ s.exact = r.exact /\ s.applied = r.applied
    BY <1>0, <1>t, <1>e DEF Focus!Settlement, SessionOf
  <2> HIDE DEF s
  <2>3. exact \in Nat /\ applied \in Nat BY <1>t, <2>2, Quotient, FocusConstants
  <2> HIDE DEF exact, applied
  <2>4. CASE Focus!Stop
    <3>1. record' = SessionOf("completed", s.accumulated, -1, s.beat, r.now, exact, applied)
      BY <2>1, <2>2, <2>4
      DEF Focus!Stop, Focus!Credited, Focus!Session, Focus!Over, Focus!NoTime, SessionOf,
          exact, applied, s
    <3>2. record' \in Sessions
      BY <1>t, <2>2, <2>3, <3>1, FocusConstants
      DEF SessionOf, Sessions, FocusStatuses, Focus!Open, Focus!Ended
    <3> QED BY <1>t, <3>1, <3>2 DEF FocusTimed, Focus!Open, Focus!Ended, SessionOf
  <2>5. CASE Focus!Cancel
    <3>1. record' = SessionOf("cancelled", s.accumulated, -1, s.beat, r.now, s.exact, s.applied)
      BY <2>1, <2>2, <2>5
      DEF Focus!Cancel, Focus!Session, Focus!Over, Focus!NoTime, SessionOf, s
    <3>2. record' \in Sessions
      BY <1>t, <2>2, <3>1, FocusConstants
      DEF SessionOf, Sessions, FocusStatuses, Focus!Open, Focus!Ended
    <3> QED BY <1>t, <3>1, <3>2 DEF FocusTimed, Focus!Open, Focus!Ended, SessionOf
  <2> QED BY <1>9, <2>4, <2>5
<1>10. CASE Focus!Tick
  <2>1. record' = [r EXCEPT !.now = r.now + 1] BY <1>10 DEF Focus!Tick, Focus!Session
  <2> QED BY <1>t, <2>1 DEF FocusTimed, Sessions
<1> QED
  BY <1>1, <1>2, <1>3, <1>4, <1>5, <1>6, <1>7, <1>8, <1>9, <1>10 DEF Focus!Next

\* The minutes a task is given are always the whole minutes of the seconds it was worked on
\* (creditTask in focus.go), however often the rest is carried over.
LEMMA CreditIsWhole ==
  ASSUME FocusHolds, Focus!Next PROVE WholeMinutes(record'.exact, record'.applied)
<1> USE DEF FocusHolds, FocusTimed, Sessions, Focus!Session, Focus!Running, Focus!Over
<1>1. CASE Focus!Stop
  <2> DEFINE settled == Focus!Settlement
             exact == settled.exact + settled.accumulated
  <2>1. exact \in Nat
    <3>1. Focus!Settled(record, record.now) \in 0..PlannedSeconds BY SettledInPlan
    <3> QED BY <3>1, FocusConstants DEF Focus!Settlement
  <2>2. record'.exact = exact /\ record'.applied = exact \div MinuteLength
    BY <1>1 DEF Focus!Stop, Focus!Credited, Focus!Settlement
  <2> HIDE DEF exact
  <2> QED BY <2>1, <2>2, Quotient, FocusConstants DEF WholeMinutes
<1>2. CASE ~Focus!Stop
  <2>1. record'.exact = record.exact /\ record'.applied = record.applied
    BY <1>2
    DEF Focus!Next, Focus!Start, Focus!Heartbeat, Focus!Pause, Focus!Resume, Focus!Restart,
        Focus!IncludeGap, Focus!ExcludeGap, Focus!Interrupt, Focus!Cancel, Focus!Settlement,
        Focus!Tick
  <2> QED BY <2>1
<1> QED BY <1>1, <1>2

\* The seconds a command answers with are those the client showed when it was sent.
LEMMA ClockIsSettled ==
  ASSUME FocusTimed, Focus!Next, record'.now = record.now, ~Focus!Start
  PROVE \/ Focus!Confirmed(record)' + Focus!Uncertain(record)'
             = Focus!Confirmed(record) + Focus!Uncertain(record)
        \/ (Focus!ExcludeGap \/ Focus!Interrupt)
             /\ Focus!Confirmed(record)' = Focus!Confirmed(record)
<1> USE FocusConstants DEF FocusTimed, Sessions, FocusStatuses, Focus!Open, Focus!Ended,
   Focus!NoTime, Focus!Session, Focus!Accepts, Focus!Running, Focus!Over,
   Focus!Confirmed, Focus!Uncertain, Focus!Least, Focus!Most, Focus!Settled, Focus!Cutoff
<1>2. CASE Focus!Heartbeat BY <1>2 DEF Focus!Heartbeat
<1>3. CASE Focus!Pause BY <1>3 DEF Focus!Pause
<1>4. CASE Focus!Resume BY <1>4 DEF Focus!Resume
<1>5. CASE Focus!Restart BY <1>5 DEF Focus!Restart
<1>6. CASE Focus!IncludeGap BY <1>6 DEF Focus!IncludeGap
<1>7. CASE Focus!ExcludeGap BY <1>7 DEF Focus!ExcludeGap
<1>8. CASE Focus!Interrupt BY <1>8 DEF Focus!Interrupt
<1>9. CASE Focus!Stop BY <1>9 DEF Focus!Stop, Focus!Credited, Focus!Settlement
<1>10. CASE Focus!Cancel BY <1>10 DEF Focus!Cancel, Focus!Settlement
<1>11. CASE Focus!Tick BY <1>11 DEF Focus!Tick
<1> QED
  BY <1>2, <1>3, <1>4, <1>5, <1>6, <1>7, <1>8, <1>9, <1>10, <1>11 DEF Focus!Next

\* Every step of a session keeps the invariant, and its answer is believed.
LEMMA FocusSteps == ASSUME FocusHolds, Focus!Next PROVE FocusHolds' /\ Focus!Answers
<1>1. FocusTimed' BY FocusStays DEF FocusHolds
<1>2. WholeMinutes(record'.exact, record'.applied) BY CreditIsWhole
<1> QED BY <1>1, <1>2, ClockIsSettled DEF FocusHolds, Focus!Answers, WholeMinutes

----------------------------------------------------------------------------
(* Tasks, their submissions and artifacts (TaskRecords).                   *)
Artifacts ==
  [kind : Task!Kinds \cup {"none"},
   of : {"none", "pending", "accepted", "changes_requested", "withdrawn"}, measured : BOOLEAN,
   integrity : {"unverified", "verified", "missing", "mismatch"}, checked : BOOLEAN,
   stored : {"none", "intact", "gone", "damaged"}, deleted : BOOLEAN, reason : BOOLEAN,
   needed : BOOLEAN]
TaskRows ==
  [status : Task!Statuses, from : {"none", "todo", "in_progress", "waiting_review"},
   policy : {"none", "manual"},
   submission : {"none", "pending", "accepted", "changes_requested", "withdrawn"},
   origin : {"manual", "child_rollup"}, by : {"nobody", "owner", "agent", "system"},
   batch : {0, 1}, history : SUBSET {"manual", "rollup", "rejected"},
   children : {"none", "open", "done"}, assignee : {"none", "owner", "person", "agent"},
   reviewer : BOOLEAN, artifact : Artifacts]
\* Only a file is measured, only what was checked has a finding, and what is deleted says why.
ArtifactHolds(a) ==
  /\ a.kind = "file" <=> a.measured
  /\ a.integrity = "unverified" <=> ~a.checked
  /\ a.deleted <=> a.reason
\* A submission waits as long as its task does; what the children submitted is the system's
\* and has no artifact; an artifact of the submission has its verdict.
SubmissionHolds(r) ==
  /\ Task!AwaitsReview(r) => r.submission = "pending"
  /\ r.origin = "child_rollup" => r.by = "system" /\ r.batch = 0
  /\ r.batch = 1 /\ r.submission # "none" => r.artifact.of = r.submission
\* What is blocked says where it came from; only a policy of its own leaves a history.
LifecycleHolds(r) ==
  /\ r.status = "blocked" => r.from # "none"
  /\ r.history # {} => r.policy = "manual"
TaskRowHolds(r) ==
  r \in TaskRows /\ ArtifactHolds(r.artifact) /\ SubmissionHolds(r) /\ LifecycleHolds(r)
TaskHolds == TaskRowHolds(record)

\* A review or a withdrawal, of the artifact alone.
Verdict(a, verdict) == IF a.of = "pending" THEN [a EXCEPT !.of = verdict] ELSE a

\* The invariant of a task with its submission and artifact holds at the start.
LEMMA TaskStarts == ASSUME Task!Init PROVE TaskHolds
  BY DEF Task!Init, Task!NoArtifact, TaskHolds, TaskRowHolds, TaskRows, Artifacts,
         ArtifactHolds,
         SubmissionHolds, LifecycleHolds, Task!AwaitsReview, Task!Statuses, Task!Kinds

\* The strict reader of the client takes a task with its submission and artifact as long as the
\* invariant holds.
LEMMA TaskIsRead == ASSUME TaskHolds PROVE Task!Reads
  BY DEF TaskHolds, TaskRowHolds, ArtifactHolds, SubmissionHolds, Task!Reads,
         Task!ArtifactReads,
         Task!SubmissionReads

\* A button that is enabled upon a task with its submission and artifact is a command the
\* service takes, unless it deletes an artifact that others need.
LEMMA TaskIsOffered ==
  ASSUME TaskHolds, NEW c \in Task!Offers PROVE Task!Accepts(c) \/ Task!StillNeeded(c)
<1> USE DEF Task!Accepts, Task!Active, Task!Terminal, TaskHolds, TaskRowHolds
<1>1. CASE c \in Task!LifecycleOffers
  BY <1>1 DEF Task!LifecycleOffers, TaskRows, Task!Statuses, SubmissionHolds, LifecycleHolds
<1>2. CASE c \in Task!SubmitOffers BY <1>2 DEF Task!SubmitOffers
<1>3. CASE c \in Task!ReviewOffers BY <1>3 DEF Task!ReviewOffers
<1>4. CASE c \in Task!ArtifactOffers BY <1>4 DEF Task!ArtifactOffers, Task!StillNeeded
<1>5. CASE c \in Task!AssignmentOffers BY <1>5 DEF Task!AssignmentOffers, TaskRows
<1>6. CASE c \in Task!PolicyOffers
  BY <1>6 DEF Task!PolicyOffers, TaskRows, LifecycleHolds
<1> QED BY <1>1, <1>2, <1>3, <1>4, <1>5, <1>6 DEF Task!Offers

TaskOf(status, from, policy, submission, origin, by, batch, history, children, assignee,
       reviewer, artifact) ==
  [status |-> status, from |-> from, policy |-> policy, submission |-> submission,
   origin |-> origin, by |-> by, batch |-> batch, history |-> history,
   children |-> children, assignee |-> assignee, reviewer |-> reviewer, artifact |-> artifact]

\* A task is the record of its fields.
LEMMA TaskIsRecord ==
  ASSUME NEW r \in TaskRows
  PROVE  r = TaskOf(r.status, r.from, r.policy, r.submission, r.origin, r.by, r.batch, r.history,
                    r.children, r.assignee, r.reviewer, r.artifact)
  BY DEF TaskRows, TaskOf

\* What the children make of a parent keeps what the readers take for true, and touches
\* neither its assignments nor its artifact.
LEMMA RollupKeepsTask ==
  ASSUME NEW r, TaskRowHolds(r)
  PROVE  /\ TaskRowHolds(Task!Reconciled(r))
         /\ Task!Reconciled(r).assignee = r.assignee /\ Task!Reconciled(r).reviewer = r.reviewer
<1> DEFINE Kept(t) == TaskRowHolds(t) /\ t.assignee = r.assignee /\ t.reviewer = r.reviewer
<1>r. r \in TaskRows BY DEF TaskRowHolds
<1>e. r = TaskOf(r.status, r.from, r.policy, r.submission, r.origin, r.by, r.batch,
            r.history, r.children, r.assignee, r.reviewer, r.artifact)
  BY <1>r, TaskIsRecord
<1>1. ASSUME r.submission = "pending", Task!AwaitsReview(r),
             r.status = "blocked", NEW t, t = Task!Withdrawn(r) PROVE Kept(t)
  <2>1. t = TaskOf(r.status, "in_progress", r.policy, "none", "manual", "nobody", r.batch,
            r.history, r.children, r.assignee, r.reviewer, r.artifact)
    BY <1>e, <1>1 DEF Task!Withdrawn, TaskOf
  <2>2. t \in TaskRows BY <1>r, <1>1, <2>1 DEF TaskRows, TaskOf, Task!Statuses
  <2> QED
    BY <1>1, <2>1, <2>2
    DEF TaskOf, TaskRowHolds, SubmissionHolds, LifecycleHolds, Task!AwaitsReview
<1>2. ASSUME r.submission = "pending", Task!AwaitsReview(r),
             r.status # "blocked", NEW t, t = Task!Withdrawn(r) PROVE Kept(t)
  <2>1. t = TaskOf("in_progress", r.from, r.policy, "none", "manual", "nobody", r.batch,
            r.history, r.children, r.assignee, r.reviewer, r.artifact)
    BY <1>e, <1>2 DEF Task!Withdrawn, TaskOf
  <2>2. t \in TaskRows BY <1>r, <1>2, <2>1 DEF TaskRows, TaskOf, Task!Statuses
  <2> QED
    BY <1>2, <2>1, <2>2
    DEF TaskOf, TaskRowHolds, SubmissionHolds, LifecycleHolds, Task!AwaitsReview
<1>3. ASSUME NEW t, t = Task!Reopened(r) PROVE Kept(t)
  <2>1. t = TaskOf("todo", "none", r.policy, "none", "manual", "nobody", r.batch, r.history,
            r.children, r.assignee, r.reviewer, r.artifact)
    BY <1>e, <1>3 DEF Task!Reopened, TaskOf
  <2>2. t \in TaskRows BY <1>r, <1>3, <2>1 DEF TaskRows, TaskOf, Task!Statuses
  <2> QED
    BY <1>3, <2>1, <2>2
    DEF TaskOf, TaskRowHolds, SubmissionHolds, LifecycleHolds, Task!AwaitsReview
<1>4. ASSUME r.status \in {"todo", "in_progress"}, r.policy = "manual",
             NEW t, t = Task!Requested(r) PROVE Kept(t)
  <2>1. t = TaskOf("waiting_review", r.from, r.policy, "pending", "child_rollup", "system",
            0, r.history \cup {"rollup"}, r.children, r.assignee, r.reviewer, r.artifact)
    BY <1>e, <1>4 DEF Task!Requested, TaskOf
  <2>2. t \in TaskRows BY <1>r, <1>4, <2>1 DEF TaskRows, TaskOf, Task!Statuses
  <2> QED
    BY <1>4, <2>1, <2>2
    DEF TaskOf, TaskRowHolds, SubmissionHolds, LifecycleHolds, Task!AwaitsReview
<1> HIDE DEF TaskRowHolds
<1>5. Kept(r) OBVIOUS
<1> QED
  BY <1>1, <1>2, <1>3, <1>4, <1>5 DEF Task!Reconciled

\* An assignment that is made or ended touches nothing the readers look at.
LEMMA AssignmentKeepsTask ==
  ASSUME TaskHolds, NEW actor \in {"none", "owner", "person", "agent"}, NEW reviewed \in BOOLEAN,
         NEW x, x = [record EXCEPT !.assignee = actor] \/ x = [record EXCEPT !.reviewer = reviewed]
  PROVE  TaskRowHolds(x)
<1>t. record \in TaskRows BY DEF TaskHolds, TaskRowHolds
<1>e. record = TaskOf(record.status, record.from, record.policy, record.submission,
                 record.origin, record.by, record.batch, record.history, record.children,
                 record.assignee, record.reviewer, record.artifact)
  BY <1>t, TaskIsRecord
<1> DEFINE assignee == IF x = [record EXCEPT !.assignee = actor] THEN actor ELSE record.assignee
           reviewer == IF x = [record EXCEPT !.assignee = actor] THEN record.reviewer ELSE reviewed
<1>1. x = TaskOf(record.status, record.from, record.policy, record.submission,
            record.origin, record.by, record.batch, record.history, record.children,
            assignee, reviewer, record.artifact)
  BY <1>e DEF TaskOf
<1>2. assignee \in {"none", "owner", "person", "agent"} /\ reviewer \in BOOLEAN
  BY <1>t DEF TaskRows
<1> HIDE DEF assignee, reviewer
<1>3. x \in TaskRows BY <1>t, <1>1, <1>2 DEF TaskRows, TaskOf
<1> QED
  BY <1>1, <1>3
  DEF TaskOf, TaskHolds, TaskRowHolds, SubmissionHolds, LifecycleHolds, Task!AwaitsReview

\* Every step of a task keeps the invariant.
LEMMA TaskStays == ASSUME TaskHolds, Task!Next PROVE TaskHolds'
<1>r. ASSUME NEW x, TaskRowHolds(x), record' = Task!Reconciled(x) PROVE TaskHolds'
  BY <1>r, RollupKeepsTask DEF TaskHolds
<1>t. record \in TaskRows BY DEF TaskHolds, TaskRowHolds
<1>e. record = TaskOf(record.status, record.from, record.policy, record.submission,
                 record.origin, record.by, record.batch, record.history, record.children,
                 record.assignee, record.reviewer, record.artifact)
  BY <1>t, TaskIsRecord
<1>h. /\ ArtifactHolds(record.artifact) /\ SubmissionHolds(record) /\ LifecycleHolds(record)
      /\ record.artifact \in Artifacts
      /\ record.from \in {"none", "todo", "in_progress", "waiting_review"}
  BY DEF TaskHolds, TaskRowHolds, TaskRows
<1> USE DEF Task!Row, Task!Accepts, Task!Active, Task!Terminal
<1>1. CASE Task!Start
  <2>2. ASSUME NEW x, x = [record EXCEPT !.status = "in_progress"] PROVE TaskRowHolds(x)
    <3>1. x = TaskOf("in_progress", record.from, record.policy, record.submission,
              record.origin, record.by, record.batch, record.history, record.children,
              record.assignee, record.reviewer, record.artifact)
      BY <1>e, <2>2 DEF TaskOf
    <3>2. x \in TaskRows BY <1>t, <1>1, <3>1 DEF Task!Start, TaskRows, TaskOf, Task!Statuses
    <3> QED
      BY <1>h, <1>1, <3>1, <3>2
      DEF Task!Start, TaskOf, TaskRowHolds, SubmissionHolds, LifecycleHolds, Task!AwaitsReview
  <2> QED BY <1>r, <1>1, <2>2 DEF Task!Start
<1>2. CASE Task!Block
  <2>1. record' = TaskOf("blocked", record.status, record.policy, record.submission,
                  record.origin, record.by, record.batch, record.history, record.children,
                  record.assignee, record.reviewer, record.artifact)
    BY <1>e, <1>2 DEF Task!Block, TaskOf
  <2>2. record' \in TaskRows
    BY <1>t, <1>2, <2>1 DEF Task!Block, TaskRows, TaskOf, Task!Statuses
  <2> QED
    BY <1>h, <1>2, <2>1, <2>2
    DEF Task!Block, TaskOf, TaskHolds, TaskRowHolds, SubmissionHolds, LifecycleHolds,
        Task!AwaitsReview
<1>3. CASE Task!Unblock
  <2>2. ASSUME NEW x, x = [record EXCEPT !.status = record.from, !.from = "none"]
        PROVE TaskRowHolds(x)
    <3>1. x = TaskOf(record.from, "none", record.policy, record.submission, record.origin,
              record.by, record.batch, record.history, record.children, record.assignee,
              record.reviewer, record.artifact)
      BY <1>e, <2>2 DEF TaskOf
    <3>2. x \in TaskRows BY <1>t, <1>3, <3>1 DEF Task!Unblock, TaskRows, TaskOf, Task!Statuses
    <3> QED
      BY <1>h, <1>3, <3>1, <3>2
      DEF Task!Unblock, TaskOf, TaskRowHolds, SubmissionHolds, LifecycleHolds, Task!AwaitsReview
  <2> QED BY <1>r, <1>3, <2>2 DEF Task!Unblock
<1>4. CASE Task!Complete
  <2>1. record' = TaskOf("done", record.from, record.policy, record.submission,
                  record.origin, record.by, record.batch, record.history, record.children,
                  "none", FALSE, record.artifact)
    BY <1>e, <1>4 DEF Task!Complete, Task!Ended, TaskOf
  <2>2. record' \in TaskRows
    BY <1>t, <2>1 DEF TaskRows, TaskOf, Task!Statuses
  <2> QED
    BY <1>h, <1>4, <2>1, <2>2
    DEF Task!Complete, TaskOf, TaskHolds, TaskRowHolds, SubmissionHolds, LifecycleHolds,
        Task!AwaitsReview
<1>5. CASE Task!Cancel
  <2>1. CASE ~Task!AwaitsReview(record)
    <3>1. record' = TaskOf("cancelled", "none", record.policy, record.submission,
                  record.origin, record.by, record.batch, record.history, record.children,
                  "none", FALSE, record.artifact)
      BY <1>e, <1>5, <2>1 DEF Task!Cancel, Task!Ended, TaskOf
    <3>2. record' \in TaskRows BY <1>t, <3>1 DEF TaskRows, TaskOf, Task!Statuses
    <3> QED
      BY <1>h, <2>1, <3>1, <3>2
      DEF TaskOf, TaskHolds, TaskRowHolds, SubmissionHolds, LifecycleHolds, Task!AwaitsReview
  <2>2. CASE Task!AwaitsReview(record)
    <3> DEFINE a == Verdict(record.artifact, "withdrawn")
    <3>1. a \in Artifacts /\ ArtifactHolds(a) /\ (record.artifact.of = "pending" => a.of = "withdrawn")
      BY <1>h DEF Verdict, Artifacts, ArtifactHolds
    <3>2. record' = TaskOf("cancelled", "none", record.policy, "withdrawn", record.origin,
                  record.by, record.batch, record.history, record.children, "none", FALSE,
                  a)
      BY <1>e, <1>h, <1>5, <2>2
      DEF Task!Cancel, Task!Ended, Task!Judged, TaskOf, Verdict, Artifacts
    <3> HIDE DEF a
    <3>3. record' \in TaskRows BY <1>t, <3>1, <3>2 DEF TaskRows, TaskOf, Task!Statuses
    <3>4. record.submission = "pending" BY <1>5, <2>2 DEF Task!Cancel
    <3> QED
      BY <1>h, <3>1, <3>2, <3>3, <3>4
      DEF TaskOf, TaskHolds, TaskRowHolds, SubmissionHolds, LifecycleHolds, Task!AwaitsReview
  <2> QED BY <2>1, <2>2
<1>6. CASE Task!Reopen
  <2>1. record' = TaskOf("todo", "none", record.policy, "none", "manual", "nobody",
                  record.batch, record.history, record.children, record.assignee,
                  record.reviewer, record.artifact)
    BY <1>e, <1>6 DEF Task!Reopen, TaskOf
  <2>2. record' \in TaskRows
    BY <1>t, <2>1 DEF TaskRows, TaskOf, Task!Statuses
  <2> QED
    BY <1>h, <1>6, <2>1, <2>2
    DEF Task!Reopen, TaskOf, TaskHolds, TaskRowHolds, SubmissionHolds, LifecycleHolds,
        Task!AwaitsReview
<1>7. CASE Task!Submit
  <2>1. PICK kind \in Task!Kinds \cup {"none"} :
          record' = [record EXCEPT !.status = "waiting_review", !.submission = "pending",
            !.origin = "manual", !.by = IF record.assignee = "agent" THEN "agent" ELSE "owner",
            !.batch = IF kind = "none" THEN 0 ELSE 1, !.history = @ \cup {"manual"},
            !.artifact = IF kind = "none" THEN @ ELSE Task!Written(kind)]
    BY <1>7 DEF Task!Submit
  <2> DEFINE by == IF record.assignee = "agent" THEN "agent" ELSE "owner"
             batch == IF kind = "none" THEN 0 ELSE 1
             a == IF kind = "none" THEN record.artifact ELSE Task!Written(kind)
  <2>2. batch \in {0, 1} /\ by \in {"agent", "owner"} OBVIOUS
  <2>a. /\ a \in Artifacts /\ ArtifactHolds(a) /\ (batch = 1 => a.of = "pending")
    <3>1. CASE kind = "none" BY <1>h, <3>1
    <3>2. CASE kind # "none"
      <4> DEFINE file == kind = "file"
                 w == [kind |-> kind, of |-> "pending", measured |-> file,
                       integrity |-> IF file THEN "verified" ELSE "unverified", checked |-> file,
                       stored |-> IF file THEN "intact" ELSE "none", deleted |-> FALSE,
                       reason |-> FALSE, needed |-> FALSE]
      <4>1. a = w BY <3>2 DEF Task!Written, Task!NoArtifact
      <4>2. w \in Artifacts BY <3>2 DEF Task!Kinds, Artifacts
      <4>3. ArtifactHolds(w) /\ w.of = "pending" BY <3>2 DEF ArtifactHolds
      <4> HIDE DEF a, w
      <4> QED BY <4>1, <4>2, <4>3
    <3> QED BY <3>1, <3>2
  <2>3. record' = TaskOf("waiting_review", record.from, record.policy, "pending", "manual",
                  by, batch, record.history \cup {"manual"}, record.children,
                  record.assignee, record.reviewer, a)
    BY <1>e, <2>1 DEF TaskOf
  <2> HIDE DEF a, by, batch
  <2>4. record' \in TaskRows BY <1>t, <2>a, <2>2, <2>3 DEF TaskRows, TaskOf, Task!Statuses
  <2>5. record.policy = "manual" /\ record.status \in {"todo", "in_progress"}
    BY <1>7 DEF Task!Submit
  <2> QED
    BY <1>h, <2>a, <2>2, <2>3, <2>4, <2>5
    DEF TaskOf, TaskHolds, TaskRowHolds, SubmissionHolds, LifecycleHolds, Task!AwaitsReview
<1>8. CASE Task!Accept
  <2> DEFINE a == Verdict(record.artifact, "accepted")
             more == IF record.origin = "child_rollup" THEN {"rejected"} ELSE {}
  <2>1. a \in Artifacts /\ ArtifactHolds(a) /\ (record.artifact.of = "pending" => a.of = "accepted")
    BY <1>h DEF Verdict, Artifacts, ArtifactHolds
  <2>2. record' = TaskOf("done", record.from, record.policy, "accepted", record.origin,
                  record.by, record.batch, record.history, record.children, "none", FALSE,
                  a)
    BY <1>e, <1>h, <1>8 DEF Task!Accept, Task!Ended, Task!Judged, TaskOf, Verdict, Artifacts
  <2>3. record.history \cup more \in SUBSET {"manual", "rollup", "rejected"}
    BY <1>t DEF TaskRows
  <2> HIDE DEF a, more
  <2>4. record' \in TaskRows BY <1>t, <2>1, <2>2, <2>3 DEF TaskRows, TaskOf, Task!Statuses
  <2>5. /\ record.submission = "pending" /\ record.policy = "manual"
        /\ record.status = "waiting_review"
    BY <1>8 DEF Task!Accept
  <2> QED
    BY <1>h, <2>1, <2>2, <2>4, <2>5
    DEF TaskOf, TaskHolds, TaskRowHolds, SubmissionHolds, LifecycleHolds, Task!AwaitsReview
<1>9. CASE Task!RequestChanges
  <2> DEFINE a == Verdict(record.artifact, "changes_requested")
             more == IF record.origin = "child_rollup" THEN {"rejected"} ELSE {}
  <2>1. a \in Artifacts /\ ArtifactHolds(a) 
        /\ (record.artifact.of = "pending" => a.of = "changes_requested")
    BY <1>h DEF Verdict, Artifacts, ArtifactHolds
  <2>2. record' = TaskOf("in_progress", record.from, record.policy, "changes_requested",
                  record.origin, record.by, record.batch, record.history \cup more,
                  record.children, record.assignee, record.reviewer, a)
    BY <1>e, <1>h, <1>9 DEF Task!RequestChanges, Task!Judged, TaskOf, Verdict, Artifacts
  <2>3. record.history \cup more \in SUBSET {"manual", "rollup", "rejected"}
    BY <1>t DEF TaskRows
  <2> HIDE DEF a, more
  <2>4. record' \in TaskRows BY <1>t, <2>1, <2>2, <2>3 DEF TaskRows, TaskOf, Task!Statuses
  <2>5. /\ record.submission = "pending" /\ record.policy = "manual"
        /\ record.status = "waiting_review"
    BY <1>9 DEF Task!RequestChanges
  <2> QED
    BY <1>h, <2>1, <2>2, <2>4, <2>5
    DEF TaskOf, TaskHolds, TaskRowHolds, SubmissionHolds, LifecycleHolds, Task!AwaitsReview
<1>10. CASE Task!SetPolicy
  <2>1. PICK policy \in {"none", "manual"} :
          record' = IF policy = record.policy THEN record
                    ELSE Task!Reconciled([record EXCEPT !.policy = policy])
    BY <1>10 DEF Task!SetPolicy
  <2>2. ASSUME NEW x, x = [record EXCEPT !.policy = policy] PROVE TaskRowHolds(x)
    <3>1. x = TaskOf(record.status, record.from, policy, record.submission, record.origin,
              record.by, record.batch, record.history, record.children, record.assignee,
              record.reviewer, record.artifact)
      BY <1>e, <2>2 DEF TaskOf
    <3>2. x \in TaskRows BY <1>t, <3>1 DEF TaskRows, TaskOf
    <3>3. record.history = {} BY <1>10 DEF Task!SetPolicy
    <3> QED
      BY <1>h, <3>1, <3>2, <3>3
      DEF TaskOf, TaskRowHolds, SubmissionHolds, LifecycleHolds, Task!AwaitsReview
  <2> QED BY <1>r, <2>1, <2>2 DEF TaskHolds
<1>11. CASE Task!Assign
  <2>1. PICK actor \in {"owner", "person", "agent"} :
          record' = Task!Reconciled([record EXCEPT !.assignee = actor])
    BY <1>11 DEF Task!Assign
  <2> QED BY <1>r, <2>1, AssignmentKeepsTask
<1>12. CASE Task!AssignReviewer BY <1>r, <1>12, AssignmentKeepsTask DEF Task!AssignReviewer
<1>13. CASE Task!EndAssignee BY <1>r, <1>13, AssignmentKeepsTask DEF Task!EndAssignee
<1>14. CASE Task!EndReviewer BY <1>r, <1>14, AssignmentKeepsTask DEF Task!EndReviewer
<1>15. CASE Task!ChildrenChange
  <2>1. PICK children \in {"none", "open", "done"} :
          record' = Task!Reconciled([record EXCEPT !.children = children])
    BY <1>15 DEF Task!ChildrenChange
  <2>2. ASSUME NEW x, x = [record EXCEPT !.children = children] PROVE TaskRowHolds(x)
    <3>1. x = TaskOf(record.status, record.from, record.policy, record.submission,
              record.origin, record.by, record.batch, record.history, children,
              record.assignee, record.reviewer, record.artifact)
      BY <1>e, <2>2 DEF TaskOf
    <3>2. x \in TaskRows
      BY <1>t, <1>15, <3>1 DEF Task!ChildrenChange, TaskRows, TaskOf, Task!Statuses
    <3> QED
      BY <1>h, <1>15, <3>1, <3>2
      DEF Task!ChildrenChange, TaskOf, TaskRowHolds, SubmissionHolds, LifecycleHolds,
          Task!AwaitsReview
  <2> QED BY <1>r, <2>1, <2>2
<1>16. CASE Task!DeleteArtifact
  <2> DEFINE a == [record.artifact EXCEPT !.deleted = TRUE, !.reason = TRUE,
                    !.integrity = IF record.artifact.stored = "gone" THEN "missing" ELSE @,
                    !.checked = @ \/ record.artifact.stored = "gone"]
  <2>1. a \in Artifacts /\ ArtifactHolds(a) /\ a.of = record.artifact.of
    BY <1>h, <1>16 DEF Task!DeleteArtifact, Artifacts, ArtifactHolds
  <2>2. record' = TaskOf(record.status, record.from, record.policy, record.submission,
                  record.origin, record.by, record.batch, record.history, record.children,
                  record.assignee, record.reviewer, a)
    BY <1>e, <1>h, <1>16 DEF Task!DeleteArtifact, TaskOf, Artifacts
  <2> HIDE DEF a
  <2>3. record' \in TaskRows BY <1>t, <2>1, <2>2 DEF TaskRows, TaskOf
  <2> QED
    BY <1>h, <2>1, <2>2, <2>3
    DEF TaskOf, TaskHolds, TaskRowHolds, SubmissionHolds, LifecycleHolds, Task!AwaitsReview
<1>17. CASE Task!Spoil
  <2>0. PICK stored \in {"gone", "damaged"} :
          record' = [record EXCEPT !.artifact.stored = stored]
    BY <1>17 DEF Task!Spoil
  <2> DEFINE a == [record.artifact EXCEPT !.stored = stored]
  <2>1. a \in Artifacts /\ ArtifactHolds(a) /\ a.of = record.artifact.of
    BY <1>h, <1>17, <2>0 DEF Task!Spoil, Artifacts, ArtifactHolds
  <2>2. record' = TaskOf(record.status, record.from, record.policy, record.submission,
                  record.origin, record.by, record.batch, record.history, record.children,
                  record.assignee, record.reviewer, a)
    BY <1>e, <1>h, <1>17, <2>0 DEF Task!Spoil, TaskOf, Artifacts
  <2> HIDE DEF a
  <2>3. record' \in TaskRows BY <1>t, <2>1, <2>2 DEF TaskRows, TaskOf
  <2> QED
    BY <1>h, <2>1, <2>2, <2>3
    DEF TaskOf, TaskHolds, TaskRowHolds, SubmissionHolds, LifecycleHolds, Task!AwaitsReview
<1>18. CASE Task!Download
  <2>0. PICK found \in {"verified", "missing", "mismatch"} :
          record' = [record EXCEPT !.artifact.checked = TRUE, !.artifact.integrity = found]
    BY <1>18 DEF Task!Download
  <2> DEFINE a == [record.artifact EXCEPT !.checked = TRUE, !.integrity = found]
  <2>1. a \in Artifacts /\ ArtifactHolds(a) /\ a.of = record.artifact.of
    BY <1>h, <1>18, <2>0 DEF Task!Download, Artifacts, ArtifactHolds
  <2>2. record' = TaskOf(record.status, record.from, record.policy, record.submission,
                  record.origin, record.by, record.batch, record.history, record.children,
                  record.assignee, record.reviewer, a)
    BY <1>e, <1>h, <1>18, <2>0 DEF Task!Download, TaskOf, Artifacts
  <2> HIDE DEF a
  <2>3. record' \in TaskRows BY <1>t, <2>1, <2>2 DEF TaskRows, TaskOf
  <2> QED
    BY <1>h, <2>1, <2>2, <2>3
    DEF TaskOf, TaskHolds, TaskRowHolds, SubmissionHolds, LifecycleHolds, Task!AwaitsReview
<1>19. CASE Task!Need
  <2> DEFINE a == [record.artifact EXCEPT !.needed = ~@]
  <2>1. a \in Artifacts /\ ArtifactHolds(a) /\ a.of = record.artifact.of
    BY <1>h, <1>19 DEF Task!Need, Artifacts, ArtifactHolds
  <2>2. record' = TaskOf(record.status, record.from, record.policy, record.submission,
                  record.origin, record.by, record.batch, record.history, record.children,
                  record.assignee, record.reviewer, a)
    BY <1>e, <1>h, <1>19 DEF Task!Need, TaskOf, Artifacts
  <2> HIDE DEF a
  <2>3. record' \in TaskRows BY <1>t, <2>1, <2>2 DEF TaskRows, TaskOf
  <2> QED
    BY <1>h, <2>1, <2>2, <2>3
    DEF TaskOf, TaskHolds, TaskRowHolds, SubmissionHolds, LifecycleHolds, Task!AwaitsReview
<1> QED
  BY <1>1, <1>2, <1>3, <1>4, <1>5, <1>6, <1>7, <1>8, <1>9, <1>10, <1>11, <1>12, <1>13, <1>14,
     <1>15, <1>16, <1>17, <1>18, <1>19
  DEF Task!Next

\* The answer to every command upon a task is what the client demands of it.
LEMMA TaskAnswers == ASSUME TaskHolds, Task!Next PROVE Task!Answers
<1>1. Task!SubmitAnswer
  <2> SUFFICES ASSUME Task!Submit
               PROVE  /\ record'.submission # "none" /\ record'.origin = "manual"
                      /\ record'.batch = 1 => record'.artifact.of = record'.submission
    BY DEF Task!SubmitAnswer
  <2>1. PICK kind \in Task!Kinds \cup {"none"} :
          record' = [record EXCEPT !.status = "waiting_review", !.submission = "pending",
            !.origin = "manual", !.by = IF record.assignee = "agent" THEN "agent" ELSE "owner",
            !.batch = IF kind = "none" THEN 0 ELSE 1, !.history = @ \cup {"manual"},
            !.artifact = IF kind = "none" THEN @ ELSE Task!Written(kind)]
    BY DEF Task!Submit, Task!Row
  <2>2. Task!Written(kind).of = "pending" BY DEF Task!Written, Task!NoArtifact
  <2> QED BY <2>1, <2>2 DEF TaskHolds, TaskRowHolds, TaskRows
<1>2. Task!ReviewAnswer
  BY DEF Task!ReviewAnswer, Task!Accept, Task!RequestChanges, Task!Row, Task!Ended, Task!Judged,
         TaskHolds, TaskRowHolds, TaskRows
<1>3. Task!DeleteAnswer
  <2> SUFFICES ASSUME Task!DeleteArtifact
               PROVE record'.artifact.deleted BY DEF Task!DeleteAnswer
  <2> DEFINE a == [record.artifact EXCEPT !.deleted = TRUE, !.reason = TRUE,
                    !.integrity = IF record.artifact.stored = "gone" THEN "missing" ELSE @,
                    !.checked = @ \/ record.artifact.stored = "gone"]
  <2>1. record.artifact \in Artifacts BY DEF TaskHolds, TaskRowHolds, TaskRows
  <2>2. record' = [record EXCEPT !.artifact = a]
    BY <2>1 DEF Task!DeleteArtifact, Task!Row, Artifacts
  <2>3. a.deleted BY <2>1 DEF Artifacts
  <2> HIDE DEF a
  <2> QED BY <2>2, <2>3 DEF TaskHolds, TaskRowHolds, TaskRows
<1>4. Task!AssignmentAnswer
  <2> USE DEF Task!Row
  <2>1. ASSUME NEW actor \in {"none", "owner", "person", "agent"},
               record' = Task!Reconciled([record EXCEPT !.assignee = actor])
        PROVE  record'.assignee = actor
    BY <2>1, AssignmentKeepsTask, RollupKeepsTask DEF TaskHolds, TaskRowHolds, TaskRows
  <2>2. ASSUME record' = Task!Reconciled([record EXCEPT !.reviewer = TRUE])
        PROVE record'.reviewer
    <3> DEFINE x == [record EXCEPT !.reviewer = TRUE]
    <3>1. TaskRowHolds(x) BY AssignmentKeepsTask
    <3>2. x.reviewer BY DEF TaskHolds, TaskRowHolds, TaskRows
    <3> HIDE DEF x
    <3>3. Task!Reconciled(x).reviewer BY <3>1, <3>2, RollupKeepsTask
    <3> QED BY <2>2, <3>3 DEF x
  <2> QED
    BY <2>1, <2>2
    DEF Task!AssignmentAnswer, Task!Assign, Task!AssignReviewer, Task!EndAssignee
<1> QED BY <1>1, <1>2, <1>3, <1>4 DEF Task!Answers

----------------------------------------------------------------------------
(* Inbox items and their follow-up tasks (InboxRecords).                   *)
Followups == [status : {"absent", "open", "blocked", "done"}, link : {"none", "ended"} \cup Item!Links]
Items ==
  [origin : Item!Origins, status : {"absent", "open", "tracking", "resolved", "dismissed"},
   policy : {"manual", "all_required"}, mode : {"none", "automatic", "manual", "forced"},
   due : {"none", "source", "other"}, read : BOOLEAN, snooze : {"none", "until", "over"},
   gone : BOOLEAN, source : BOOLEAN, tasks : [Item!Slots -> Followups]]
\* The source is there as long as the item does not say that it is gone; what resolved
\* automatically follows its tasks; a link leads to a task.
ItemSound(r) ==
  /\ r.source <=> ~r.gone
  /\ r.gone => r.origin \in Item!Deletable /\ r.status # "absent"
  /\ r.origin \in {"project_completion", "system_maintenance"} => r.due = "none"
  /\ r.mode = "automatic" => r.policy = "all_required" /\ r.status = "resolved"
LinksSound(r) == \A s \in Item!Slots : r.tasks[s].link \in Item!Links => r.tasks[s].status # "absent"
AlmostItem(r) == r \in Items /\ ItemSound(r) /\ LinksSound(r)
ItemRowHolds(r) == AlmostItem(r) /\ Item!Writable(r)
InboxHolds == ItemRowHolds(record)

\* The invariant of an inbox item and the tasks that follow it up holds at the start.
LEMMA InboxStarts == ASSUME Item!Init PROVE InboxHolds
<1>1. [s \in Item!Slots |-> Item!NoTask] \in [Item!Slots -> Followups]
  BY DEF Item!NoTask, Followups
<1>2. \A s \in Item!Slots : [t \in Item!Slots |-> Item!NoTask][s].link = "none"
  BY DEF Item!NoTask
<1> HIDE DEF Item!NoTask
<1>3. record.tasks = [s \in Item!Slots |-> Item!NoTask] BY DEF Item!Init
<1>4. record \in Items BY <1>1 DEF Item!Init, Items, Item!Origins, Item!Due
<1> QED
  BY <1>2, <1>3, <1>4
  DEF Item!Init, InboxHolds, ItemRowHolds, AlmostItem, ItemSound, LinksSound, Item!Links,
      Item!Writable

\* The counts of the model are those the library's theorems are about.
LEMMA CountIsCardinality == ASSUME NEW S PROVE Item!Cardinality(S) = Cardinality(S)
  BY DEF Item!Cardinality, Cardinality

\* The strict reader of the client takes an inbox item and the tasks that follow it up as
\* long as the invariant holds, unless the person has edited its due time.
LEMMA InboxIsRead == ASSUME InboxHolds PROVE Item!Reads \/ Item!Redated
<1> SUFFICES ASSUME ~Item!Redated PROVE Item!Reads OBVIOUS
<1> USE DEF InboxHolds, ItemRowHolds, AlmostItem
<1>1. Item!EventReads
  BY DEF ItemSound, Items, Item!EventReads, Item!UndatedEventReads, Item!TimedEventReads,
         Item!DatedEventReads, Item!Redated, Item!Due, Item!Deletable
<1>2. Item!ProgressReads
  <2> DEFINE required == Item!Required(record)
             finished == Item!Finished(record)
             blocked == {s \in required : record.tasks[s].status = "blocked"}
  <2>1. required \subseteq Item!Linked(record) BY DEF Item!Required, Item!Linked, Item!Links
  <2>2. required \subseteq 1..2 BY DEF Item!Required, Item!Slots
  <2> HIDE DEF required, finished, blocked
  <2>a. IsFiniteSet(1..2)
    <3>1. 1 \in Int /\ 2 \in Int OBVIOUS
    <3> QED BY ONLY <3>1, FS_Interval
  <2>3. IsFiniteSet(required) BY <2>2, <2>a, FS_Subset
  <2>4. /\ finished \subseteq required /\ blocked \subseteq required
        /\ finished \cap blocked = {}
    BY DEF Item!Finished, required, finished, blocked
  <2>5. IsFiniteSet(finished) /\ IsFiniteSet(blocked) BY <2>3, <2>4, FS_Subset
  <2>6. finished \cup blocked \subseteq required BY <2>4
  <2>7. Cardinality(finished \cup blocked) =
          Cardinality(finished) + Cardinality(blocked) - Cardinality(finished \cap blocked)
    BY <2>5, FS_Union
  <2>8. Cardinality(finished \cap blocked) = 0 BY <2>4, FS_EmptySet
  <2>9. Cardinality(finished \cup blocked) <= Cardinality(required) BY <2>3, <2>6, FS_Subset
  <2>10. /\ Cardinality(finished) \in Nat /\ Cardinality(blocked) \in Nat
         /\ Cardinality(required) \in Nat
    BY <2>3, <2>5, FS_CardinalityType
  <2>11. Cardinality(blocked) <= Cardinality(required) - Cardinality(finished)
    BY <2>7, <2>8, <2>9, <2>10
  <2> QED BY <2>1, <2>11, CountIsCardinality DEF Item!ProgressReads, required, finished, blocked
<1>3. Item!RelationReads BY DEF LinksSound, Item!RelationReads, Item!Linked
<1> QED BY <1>1, <1>2, <1>3 DEF Item!Reads

\* A button that is enabled upon an inbox item and the tasks that follow it up is a command
\* the service takes, unless its policy waits for tasks that are not done.
LEMMA InboxIsOffered ==
  ASSUME InboxHolds, NEW c \in Item!Offers PROVE Item!Accepts(c) \/ Item!PolicyRefuses(c)
<1> USE DEF InboxHolds, ItemRowHolds, AlmostItem
<1>1. CASE c \in Item!ItemOffers
  BY <1>1
  DEF Item!ItemOffers, Item!Accepts, Item!Active, Item!Terminal, Item!PolicyRefuses, Items
<1>2. CASE c \in Item!TaskOffers BY <1>2 DEF Item!TaskOffers, Item!Accepts
<1>3. CASE c \in Item!ForceOffers BY <1>3 DEF Item!ForceOffers, Item!Accepts
<1>4. CASE c \in Item!SourceOffers BY <1>4 DEF Item!SourceOffers, Item!Accepts, ItemSound
<1> QED BY <1>1, <1>2, <1>3, <1>4 DEF Item!Offers

ItemOf(origin, status, policy, mode, due, read, snooze, gone, source, tasks) ==
  [origin |-> origin, status |-> status, policy |-> policy, mode |-> mode, due |-> due,
   read |-> read, snooze |-> snooze, gone |-> gone, source |-> source, tasks |-> tasks]

\* An item is the record of its fields.
LEMMA ItemIsRecord ==
  ASSUME NEW r \in Items
  PROVE  r = ItemOf(r.origin, r.status, r.policy, r.mode, r.due, r.read, r.snooze, r.gone,
                    r.source, r.tasks)
  BY DEF Items, ItemOf

\* Whether the required tasks are done is a matter of the tasks alone.
LEMMA DoneIsOfTasks ==
  ASSUME NEW r, NEW t, t.tasks = r.tasks
  PROVE  /\ Item!AllRequiredDone(t) <=> Item!AllRequiredDone(r)
         /\ Item!Linked(t) = Item!Linked(r)
         /\ LinksSound(t) <=> LinksSound(r)
<1>1. Item!Required(t) = Item!Required(r) /\ Item!Linked(t) = Item!Linked(r)
  BY DEF Item!Required, Item!Linked
<1>2. Item!Finished(t) = Item!Finished(r) BY <1>1 DEF Item!Finished
<1> QED BY <1>1, <1>2 DEF Item!AllRequiredDone, LinksSound

\* The required tasks resolve an item and open it again, so that what resolved
\* automatically has them done.
LEMMA ReconciledIsSound ==
  ASSUME NEW r, AlmostItem(r)
  PROVE  ItemRowHolds(Item!Reconciled(r))
<1>r. r \in Items /\ ItemSound(r) /\ LinksSound(r) BY DEF AlmostItem
<1>e. r = ItemOf(r.origin, r.status, r.policy, r.mode, r.due, r.read, r.snooze, r.gone,
            r.source, r.tasks)
  BY <1>r, ItemIsRecord
<1>1. ASSUME NEW t, NEW status \in {"open", "tracking", "resolved"},
             NEW mode \in {"none", "automatic"},
             t = Item!Ended(r, status, mode),
             mode = "automatic" => /\ status = "resolved" /\ r.policy = "all_required"
                                   /\ Item!AllRequiredDone(r)
      PROVE  ItemRowHolds(t)
  <2>1. t = ItemOf(r.origin, status, r.policy, mode, r.due, r.read, "none", r.gone,
            r.source, r.tasks)
    BY <1>e, <1>1 DEF Item!Ended, ItemOf
  <2>2. t \in Items BY <1>r, <2>1 DEF Items, ItemOf
  <2>3. t.tasks = r.tasks BY <2>1 DEF ItemOf
  <2>4. LinksSound(t) /\ (Item!AllRequiredDone(t) <=> Item!AllRequiredDone(r))
    BY <1>r, <2>3, DoneIsOfTasks
  <2>5. ItemSound(t) BY <1>r, <1>1, <2>1 DEF ItemOf, ItemSound
  <2>6. Item!Writable(t) BY <1>1, <2>1, <2>4 DEF ItemOf, Item!Writable
  <2> QED BY <2>2, <2>4, <2>5, <2>6 DEF ItemRowHolds, AlmostItem
<1>2. CASE /\ r.policy = "all_required" /\ r.status \in {"open", "tracking"}
           /\ Item!AllRequiredDone(r)
  BY <1>1, <1>2 DEF Item!Reconciled
<1>3. CASE /\ r.policy = "all_required" /\ r.status = "resolved" /\ r.mode = "automatic"
           /\ ~Item!AllRequiredDone(r)
  <2>1. Item!Reconciled(r) = Item!Opened(r) BY <1>3 DEF Item!Reconciled
  <2>2. ItemRowHolds(Item!Opened(r)) BY <1>1 DEF Item!Opened
  <2> QED BY <2>1, <2>2
<1>4. CASE ~(r.policy = "all_required" /\ r.status \in {"open", "tracking"} /\ Item!AllRequiredDone(r))
           /\ ~(/\ r.policy = "all_required" /\ r.status = "resolved" /\ r.mode = "automatic"
                /\ ~Item!AllRequiredDone(r))
  <2>1. Item!Reconciled(r) = r BY <1>4 DEF Item!Reconciled
  <2>2. Item!Writable(r) BY <1>r, <1>4 DEF ItemSound, Item!Writable
  <2> QED BY <2>1, <2>2 DEF ItemRowHolds
<1> QED BY <1>2, <1>3, <1>4

\* Every step of an inbox item and the tasks that follow it up keeps the invariant.
LEMMA InboxSteps == ASSUME InboxHolds, Item!Next PROVE InboxHolds'
<1>t. record \in Items /\ ItemSound(record) /\ LinksSound(record) /\ Item!Writable(record)
  BY DEF InboxHolds, ItemRowHolds, AlmostItem
<1>e. record = ItemOf(record.origin, record.status, record.policy, record.mode,
                 record.due, record.read, record.snooze, record.gone, record.source,
                 record.tasks)
  BY <1>t, ItemIsRecord
\* A step that leaves the tasks alone.
<1>k. ASSUME record' \in Items, ItemSound(record'), record'.tasks = record.tasks,
             record'.mode = "automatic" => record.mode = "automatic"
      PROVE  InboxHolds'
  <2>1. LinksSound(record') /\ (Item!AllRequiredDone(record') <=> Item!AllRequiredDone(record))
    BY <1>t, <1>k, DoneIsOfTasks
  <2>2. Item!Writable(record') BY <1>t, <1>k, <2>1 DEF Item!Writable
  <2> QED BY <1>k, <2>1, <2>2 DEF InboxHolds, ItemRowHolds, AlmostItem
<1> USE DEF Item!Item, Item!Accepts, Item!Active, Item!Terminal
<1>1. CASE Item!Appear
  <2>0. PICK o \in Item!Origins : record' = [record EXCEPT !.status = "open", !.origin = o,
            !.due = IF o \in Item!Due THEN "source" ELSE "none"]
    BY <1>1 DEF Item!Appear
  <2> DEFINE due == IF o \in Item!Due THEN "source" ELSE "none"
  <2>1. record' = ItemOf(o, "open", record.policy, record.mode, due, record.read,
                  record.snooze, record.gone, record.source, record.tasks)
    BY <1>e, <2>0 DEF ItemOf
  <2>d. due \in {"none", "source"}
        /\ (o \in {"project_completion", "system_maintenance"} => due = "none")
    BY DEF Item!Due
  <2> HIDE DEF due
  <2>2. record' \in Items BY <1>t, <2>d, <2>1 DEF Items, ItemOf
  <2>3. ItemSound(record') BY <1>t, <1>1, <2>d, <2>1 DEF Item!Appear, ItemSound, ItemOf
  <2> QED BY <1>k, <2>1, <2>2, <2>3 DEF ItemOf
<1>2. CASE Item!EditDue
  <2>0. PICK due \in {"none", "other"} : record' = [record EXCEPT !.due = due]
    BY <1>2 DEF Item!EditDue
  <2>1. record' = ItemOf(record.origin, record.status, record.policy, record.mode, due,
                  record.read, record.snooze, record.gone, record.source, record.tasks)
    BY <1>e, <2>0 DEF ItemOf
  <2>2. record' \in Items BY <1>t, <2>1 DEF Items, ItemOf
  <2>3. ItemSound(record') BY <1>t, <1>2, <2>1 DEF Item!EditDue, ItemSound, ItemOf
  <2> QED BY <1>k, <2>1, <2>2, <2>3 DEF ItemOf
<1>3. CASE Item!Read
  <2>1. record' = ItemOf(record.origin, record.status, record.policy, record.mode,
                  record.due, TRUE, record.snooze, record.gone, record.source, record.tasks)
    BY <1>e, <1>3 DEF Item!Read, ItemOf
  <2>2. record' \in Items BY <1>t, <2>1 DEF Items, ItemOf
  <2>3. ItemSound(record') BY <1>t, <1>3, <2>1 DEF Item!Read, ItemSound, ItemOf
  <2> QED BY <1>k, <2>1, <2>2, <2>3 DEF ItemOf
<1>4. CASE Item!ReadAll
  <2>1. record' = ItemOf(record.origin, record.status, record.policy, record.mode,
                  record.due, TRUE, record.snooze, record.gone, record.source, record.tasks)
    BY <1>e, <1>4 DEF Item!ReadAll, ItemOf
  <2>2. record' \in Items BY <1>t, <2>1 DEF Items, ItemOf
  <2>3. ItemSound(record') BY <1>t, <1>4, <2>1 DEF Item!ReadAll, ItemSound, ItemOf
  <2> QED BY <1>k, <2>1, <2>2, <2>3 DEF ItemOf
<1>5. CASE Item!Snooze
  <2>1. record' = ItemOf(record.origin, record.status, record.policy, record.mode,
                  record.due, record.read, "until", record.gone, record.source,
                  record.tasks)
    BY <1>e, <1>5 DEF Item!Snooze, ItemOf
  <2>2. record' \in Items BY <1>t, <2>1 DEF Items, ItemOf
  <2>3. ItemSound(record') BY <1>t, <1>5, <2>1 DEF Item!Snooze, ItemSound, ItemOf
  <2> QED BY <1>k, <2>1, <2>2, <2>3 DEF ItemOf
<1>6. CASE Item!SnoozeEnds
  <2>1. record' = ItemOf(record.origin, record.status, record.policy, record.mode,
                  record.due, record.read, "over", record.gone, record.source, record.tasks)
    BY <1>e, <1>6 DEF Item!SnoozeEnds, ItemOf
  <2>2. record' \in Items BY <1>t, <2>1 DEF Items, ItemOf
  <2>3. ItemSound(record') BY <1>t, <1>6, <2>1 DEF Item!SnoozeEnds, ItemSound, ItemOf
  <2> QED BY <1>k, <2>1, <2>2, <2>3 DEF ItemOf
<1>7. CASE Item!Unsnooze
  <2>1. record' = ItemOf(record.origin, record.status, record.policy, record.mode,
                  record.due, record.read, "none", record.gone, record.source, record.tasks)
    BY <1>e, <1>7 DEF Item!Unsnooze, ItemOf
  <2>2. record' \in Items BY <1>t, <2>1 DEF Items, ItemOf
  <2>3. ItemSound(record') BY <1>t, <1>7, <2>1 DEF Item!Unsnooze, ItemSound, ItemOf
  <2> QED BY <1>k, <2>1, <2>2, <2>3 DEF ItemOf
<1>8. CASE Item!Resolve
  <2>1. record' = ItemOf(record.origin, "resolved", record.policy, "manual", record.due,
                  record.read, "none", record.gone, record.source, record.tasks)
    BY <1>e, <1>8 DEF Item!Resolve, Item!Ended, ItemOf
  <2>2. record' \in Items BY <1>t, <2>1 DEF Items, ItemOf
  <2>3. ItemSound(record') BY <1>t, <1>8, <2>1 DEF Item!Resolve, ItemSound, ItemOf
  <2> QED BY <1>k, <2>1, <2>2, <2>3 DEF ItemOf
<1>9. CASE Item!Dismiss
  <2>1. record' = ItemOf(record.origin, "dismissed", record.policy, "none", record.due,
                  record.read, "none", record.gone, record.source, record.tasks)
    BY <1>e, <1>9 DEF Item!Dismiss, Item!Ended, ItemOf
  <2>2. record' \in Items BY <1>t, <2>1 DEF Items, ItemOf
  <2>3. ItemSound(record') BY <1>t, <1>9, <2>1 DEF Item!Dismiss, ItemSound, ItemOf
  <2> QED BY <1>k, <2>1, <2>2, <2>3 DEF ItemOf
<1>10. CASE Item!ForceResolve
  <2>1. record' = ItemOf(record.origin, "resolved", record.policy, "forced", record.due,
                  record.read, "none", record.gone, record.source, record.tasks)
    BY <1>e, <1>10 DEF Item!ForceResolve, Item!Ended, ItemOf
  <2>2. record' \in Items BY <1>t, <2>1 DEF Items, ItemOf
  <2>3. ItemSound(record') BY <1>t, <1>10, <2>1 DEF Item!ForceResolve, ItemSound, ItemOf
  <2> QED BY <1>k, <2>1, <2>2, <2>3 DEF ItemOf
<1>11. CASE Item!Reopen
  <2> DEFINE status == IF Item!Linked(record) = {} THEN "open" ELSE "tracking"
  <2>0. status \in {"open", "tracking"} OBVIOUS
  <2>1. record' = ItemOf(record.origin, status, record.policy, "none", record.due,
                  record.read, "none", record.gone, record.source, record.tasks)
    BY <1>e, <1>11 DEF Item!Reopen, Item!Opened, Item!Ended, ItemOf
  <2> HIDE DEF status
  <2>2. record' \in Items BY <1>t, <2>0, <2>1 DEF Items, ItemOf
  <2>3. ItemSound(record') BY <1>t, <2>0, <2>1 DEF ItemSound, ItemOf
  <2> QED BY <1>k, <2>1, <2>2, <2>3 DEF ItemOf
<1>12. CASE Item!DeleteSource
  <2>1. record' = ItemOf(record.origin, record.status, record.policy, record.mode,
                  record.due, record.read, record.snooze, TRUE, FALSE, record.tasks)
    BY <1>e, <1>12 DEF Item!DeleteSource, ItemOf
  <2>2. record' \in Items BY <1>t, <2>1 DEF Items, ItemOf
  <2>3. ItemSound(record') BY <1>t, <1>12, <2>1 DEF Item!DeleteSource, ItemSound, ItemOf
  <2> QED BY <1>k, <2>1, <2>2, <2>3 DEF ItemOf
<1>13. CASE Item!FollowupEnds
  <2>1. record' = ItemOf(record.origin, "resolved", record.policy, "manual", record.due,
                  record.read, "none", record.gone, record.source, record.tasks)
    BY <1>e, <1>13 DEF Item!FollowupEnds, Item!Ended, ItemOf
  <2>2. record' \in Items BY <1>t, <2>1 DEF Items, ItemOf
  <2>3. ItemSound(record') BY <1>t, <1>13, <2>1 DEF Item!FollowupEnds, ItemSound, ItemOf
  <2> QED BY <1>k, <2>1, <2>2, <2>3 DEF ItemOf
\* One task of the item is changed, and the item reconciled with it.
<1>w. ASSUME NEW s \in Item!Slots, NEW task \in Followups, NEW x,
             NEW status \in {"absent", "open", "tracking", "resolved", "dismissed"},
             NEW policy \in {"manual", "all_required"}, NEW snooze \in {"none", "until", "over"},
             x = ItemOf(record.origin, status, policy, record.mode, record.due, record.read,
                 snooze, record.gone, record.source, [record.tasks EXCEPT ![s] = task]),
             task.link \in Item!Links => task.status # "absent",
             record.gone => status # "absent",
             record.mode = "automatic" => policy = "all_required" /\ status = "resolved"
      PROVE  AlmostItem(x)
  <2> DEFINE tasks == [record.tasks EXCEPT ![s] = task]
  <2>0. record.tasks \in [Item!Slots -> Followups] BY <1>t DEF Items
  <2>1. tasks \in [Item!Slots -> Followups] BY <1>w, <2>0
  <2>2. \A z \in Item!Slots : tasks[z].link \in Item!Links => tasks[z].status # "absent"
    <3>1. tasks[s] = task BY <2>0
    <3>2. \A z \in Item!Slots \ {s} : tasks[z] = record.tasks[z] BY <2>0
    <3> HIDE DEF tasks
    <3> QED BY <1>t, <1>w, <3>1, <3>2 DEF LinksSound
  <2>t. x.tasks = tasks BY <1>w DEF ItemOf
  <2> HIDE DEF tasks
  <2>3. x \in Items BY <1>t, <1>w, <2>1 DEF Items, ItemOf, tasks
  <2>4. ItemSound(x) BY <1>t, <1>w DEF ItemSound, ItemOf
  <2>5. LinksSound(x) BY <2>2, <2>t DEF LinksSound
  <2> QED BY <2>3, <2>4, <2>5 DEF AlmostItem
<1>f. \A s \in Item!Slots : record.tasks[s] \in Followups BY <1>t DEF Items
<1>p. /\ record.status \in {"absent", "open", "tracking", "resolved", "dismissed"}
      /\ record.policy \in {"manual", "all_required"} /\ record.snooze \in {"none", "until", "over"}
  BY <1>t DEF Items
<1>m. /\ record.mode = "automatic" => record.policy = "all_required" /\ record.status = "resolved"
      /\ record.gone => record.status # "absent"
  BY <1>t DEF ItemSound
<1>14. CASE Item!Link
  <2>0. PICK s \in Item!Slots, l \in Item!Links :
          /\ record.tasks[s].status # "absent"
          /\ record' = Item!Reconciled([Item!WithTask(s, [record.tasks[s] EXCEPT !.link = l])
                                         EXCEPT !.status = "tracking"])
    BY <1>14 DEF Item!Link
  <2> DEFINE task == [record.tasks[s] EXCEPT !.link = l]
             x == [Item!WithTask(s, task) EXCEPT !.status = "tracking"]
  <2>1. task \in Followups /\ task.status # "absent" BY <1>f, <2>0 DEF Followups
  <2>2. record.mode # "automatic" BY <1>m, <1>14 DEF Item!Link, Item!Takes
  <2> HIDE DEF task
  <2>c. Item!WithTask(s, task) =
          ItemOf(record.origin, record.status, record.policy, record.mode, record.due,
              record.read, record.snooze, record.gone, record.source, [record.tasks EXCEPT
              ![s] = task])
    BY <1>e DEF ItemOf, Item!WithTask
  <2>3. x = ItemOf(record.origin, "tracking", record.policy, record.mode, record.due,
              record.read, record.snooze, record.gone, record.source, [record.tasks EXCEPT
              ![s] = task])
    BY <2>c DEF ItemOf
  <2> HIDE DEF x
  <2>4. AlmostItem(x) BY <1>w, <1>p, <2>1, <2>2, <2>3
  <2> QED BY <2>0, <2>4, ReconciledIsSound DEF InboxHolds, x, task
<1>15. CASE Item!ChangeRequirement
  <2>0. PICK s \in Item!Linked(record), l \in Item!Links :
          record' = Item!Reconciled(Item!WithTask(s, [record.tasks[s] EXCEPT !.link = l]))
    BY <1>15 DEF Item!ChangeRequirement
  <2> DEFINE task == [record.tasks[s] EXCEPT !.link = l]
             x == Item!WithTask(s, task)
  <2>s. s \in Item!Slots /\ record.tasks[s].status # "absent"
    BY <1>t DEF Item!Linked, LinksSound
  <2>1. task \in Followups /\ task.status # "absent" BY <1>f, <2>s DEF Followups
  <2> HIDE DEF task
  <2>c. Item!WithTask(s, task) =
          ItemOf(record.origin, record.status, record.policy, record.mode, record.due,
              record.read, record.snooze, record.gone, record.source, [record.tasks EXCEPT
              ![s] = task])
    BY <1>e DEF ItemOf, Item!WithTask
  <2>3. x = ItemOf(record.origin, record.status, record.policy, record.mode, record.due,
              record.read, record.snooze, record.gone, record.source, [record.tasks EXCEPT
              ![s] = task])
    BY <2>c DEF ItemOf
  <2> HIDE DEF x
  <2>4. AlmostItem(x) BY <1>w, <1>p, <1>m, <2>s, <2>1, <2>3
  <2> QED BY <2>0, <2>4, ReconciledIsSound DEF InboxHolds, x, task
<1>16. CASE Item!Unlink
  <2>0. PICK s \in Item!Linked(record) :
          LET left == Item!WithTask(s, [record.tasks[s] EXCEPT !.link = "ended"]) IN
          record' = Item!Reconciled([left EXCEPT !.status =
                      IF Item!Linked(left) = {} THEN "open" ELSE "tracking"])
    BY <1>16 DEF Item!Unlink
  <2> DEFINE task == [record.tasks[s] EXCEPT !.link = "ended"]
             left == Item!WithTask(s, task)
             status == IF Item!Linked(left) = {} THEN "open" ELSE "tracking"
             x == [left EXCEPT !.status = status]
  <2>s. s \in Item!Slots BY DEF Item!Linked
  <2>1. task \in Followups /\ task.link \notin Item!Links
    BY <1>f, <2>s DEF Followups, Item!Links
  <2>2. record.mode # "automatic" BY <1>m, <1>16 DEF Item!Unlink, Item!Takes
  <2>a. status \in {"open", "tracking"} OBVIOUS
  <2>b. record' = Item!Reconciled(x) BY <2>0
  <2> HIDE DEF task, status
  <2>c. Item!WithTask(s, task) =
          ItemOf(record.origin, record.status, record.policy, record.mode, record.due,
              record.read, record.snooze, record.gone, record.source, [record.tasks EXCEPT
              ![s] = task])
    BY <1>e DEF ItemOf, Item!WithTask
  <2>3. x = ItemOf(record.origin, status, record.policy, record.mode, record.due,
              record.read, record.snooze, record.gone, record.source, [record.tasks EXCEPT
              ![s] = task])
    BY <2>c DEF ItemOf
  <2> HIDE DEF x
  <2>4. AlmostItem(x) BY <1>w, <1>p, <2>s, <2>1, <2>2, <2>3, <2>a
  <2> QED BY <2>b, <2>4, ReconciledIsSound DEF InboxHolds
<1>17. CASE Item!Split
  <2>0. PICK s \in Item!Slots, l \in Item!Links, policy \in {"manual", "all_required"} :
          record' = Item!Reconciled([Item!WithTask(s, [status |-> "open", link |-> l])
            EXCEPT !.status = "tracking", !.policy = policy, !.snooze = "none"])
    BY <1>17 DEF Item!Split
  <2> DEFINE task == [status |-> "open", link |-> l]
             x == [Item!WithTask(s, task) EXCEPT
                     !.status = "tracking", !.policy = policy, !.snooze = "none"]
  <2>1. task \in Followups /\ task.status # "absent" BY DEF Followups
  <2>2. record.mode # "automatic" BY <1>m, <1>17 DEF Item!Split, Item!Takes
  <2>b. record' = Item!Reconciled(x) BY <2>0
  <2> HIDE DEF task
  <2>c. Item!WithTask(s, task) =
          ItemOf(record.origin, record.status, record.policy, record.mode, record.due,
              record.read, record.snooze, record.gone, record.source, [record.tasks EXCEPT
              ![s] = task])
    BY <1>e DEF ItemOf, Item!WithTask
  <2>3. x = ItemOf(record.origin, "tracking", policy, record.mode, record.due,
              record.read, "none", record.gone, record.source, [record.tasks EXCEPT ![s] =
              task])
    <3> DEFINE w == Item!WithTask(s, task)
               y == [w EXCEPT !.status = "tracking"]
               z == [y EXCEPT !.policy = policy]
    <3>1. y = ItemOf(record.origin, "tracking", record.policy, record.mode, record.due,
              record.read, record.snooze, record.gone, record.source, [record.tasks EXCEPT
              ![s] = task])
      BY <2>c DEF ItemOf
    <3> HIDE DEF y
    <3>2. z = ItemOf(record.origin, "tracking", policy, record.mode, record.due,
              record.read, record.snooze, record.gone, record.source, [record.tasks EXCEPT
              ![s] = task])
      BY <3>1 DEF ItemOf
    <3> HIDE DEF z
    <3>3. [z EXCEPT !.snooze = "none"] =
            ItemOf(record.origin, "tracking", policy, record.mode, record.due,
              record.read, "none", record.gone, record.source, [record.tasks EXCEPT ![s] =
              task])
      BY <3>2 DEF ItemOf
    <3> QED BY <3>3 DEF y, z
  <2> HIDE DEF x
  <2>4. AlmostItem(x) BY <1>w, <1>p, <2>1, <2>2, <2>3
  <2> QED BY <2>b, <2>4, ReconciledIsSound DEF InboxHolds
\* A task that is not required, before or after, changes nothing of what is asked for.
<1>o. ASSUME NEW s \in Item!Slots, NEW task \in Followups, record' = Item!WithTask(s, task),
             record.tasks[s].link # "required", task.link # "required",
             task.link \in Item!Links => task.status # "absent"
      PROVE  InboxHolds'
  <2>1. record' = ItemOf(record.origin, record.status, record.policy, record.mode,
                  record.due, record.read, record.snooze, record.gone, record.source,
                  [record.tasks EXCEPT ![s] = task])
    BY <1>e, <1>o DEF ItemOf, Item!WithTask
  <2>2. AlmostItem(record') BY <1>w, <1>p, <1>m, <1>o, <2>1
  <2>3. /\ \A z \in Item!Slots \ {s} : record'.tasks[z] = record.tasks[z]
        /\ record'.tasks[s] = task
    BY <1>t, <2>1 DEF Items, ItemOf
  <2>4. Item!Required(record') = Item!Required(record) BY <1>o, <2>3 DEF Item!Required
  <2>5. s \notin Item!Required(record) BY <1>o DEF Item!Required
  <2>6. Item!Finished(record') = Item!Finished(record)
    BY <2>3, <2>4, <2>5 DEF Item!Finished, Item!Required
  <2>7. record'.mode = record.mode BY <2>1 DEF ItemOf
  <2>8. Item!Writable(record')
    BY <1>t, <2>4, <2>6, <2>7 DEF Item!Writable, Item!AllRequiredDone
  <2> QED BY <2>2, <2>8 DEF InboxHolds, ItemRowHolds
<1>18. CASE Item!MakeTask
  <2>0. PICK s \in Item!Slots :
          /\ record.tasks[s] = Item!NoTask
          /\ record' = Item!WithTask(s, [Item!NoTask EXCEPT !.status = "open"])
    BY <1>18 DEF Item!MakeTask
  <2> DEFINE task == [Item!NoTask EXCEPT !.status = "open"]
  <2>1. task \in Followups /\ task.link = "none" BY DEF Item!NoTask, Followups
  <2>2. record.tasks[s].link # "required" BY <2>0 DEF Item!NoTask
  <2> HIDE DEF task
  <2> QED BY <1>o, <2>0, <2>1, <2>2 DEF Item!Links, task
<1>19. CASE Item!MoveTask
  <2>0. PICK s \in Item!Slots, status \in {"open", "blocked", "done"} :
          record' = IF s \in Item!Required(record) THEN Item!Reconciled(Item!Moved(s, status))
                    ELSE Item!Moved(s, status)
    BY <1>19 DEF Item!MoveTask
  <2> DEFINE task == [record.tasks[s] EXCEPT !.status = status]
             x == Item!WithTask(s, task)
  <2>1. task \in Followups /\ task.status # "absent" /\ task.link = record.tasks[s].link
    BY <1>f DEF Followups
  <2>b. record' = IF s \in Item!Required(record) THEN Item!Reconciled(x) ELSE x
    BY <2>0 DEF Item!Moved
  <2> HIDE DEF task
  <2>2. CASE s \in Item!Required(record)
    <3>1. x = ItemOf(record.origin, record.status, record.policy, record.mode, record.due,
                record.read, record.snooze, record.gone, record.source, [record.tasks EXCEPT
                ![s] = task])
      BY <1>e DEF ItemOf, Item!WithTask
    <3> HIDE DEF x
    <3>2. AlmostItem(x) BY <1>w, <1>p, <1>m, <2>1, <3>1
    <3> QED BY <2>2, <2>b, <3>2, ReconciledIsSound DEF InboxHolds
  <2>3. CASE s \notin Item!Required(record)
    <3>1. record.tasks[s].link # "required" BY <2>3 DEF Item!Required
    <3> QED BY <1>o, <2>1, <2>b, <2>3, <3>1
  <2> QED BY <2>2, <2>3
<1>20. CASE Item!DeleteTask
  <2>0. PICK s \in Item!Slots \ Item!Linked(record) : record' = Item!Moved(s, "absent")
    BY <1>20 DEF Item!DeleteTask
  <2> DEFINE task == [record.tasks[s] EXCEPT !.status = "absent"]
  <2>1. task \in Followups /\ task.link = record.tasks[s].link BY <1>f DEF Followups
  <2>2. record.tasks[s].link \notin Item!Links BY DEF Item!Linked
  <2>b. record' = Item!WithTask(s, task) BY <2>0 DEF Item!Moved
  <2> HIDE DEF task
  <2> QED BY <1>o, <2>1, <2>2, <2>b DEF Item!Links
<1> QED
  BY <1>1, <1>2, <1>3, <1>4, <1>5, <1>6, <1>7, <1>8, <1>9, <1>10, <1>11, <1>12, <1>13, <1>14,
     <1>15, <1>16, <1>17, <1>18, <1>19, <1>20
  DEF Item!Next

----------------------------------------------------------------------------
(* Clients and their rows (ClientRecords).                                 *)
PlanRows == [kind : {"plan"}, state : {"planned", "completed", "skipped", "cancelled"},
             who : Customer!People, from : Nat]
NoteRows == [kind : {"note"}, state : {"kept", "deleted"}]
ReferenceRows == [kind : {"reference"}, state : {"kept"}]
Findings == {"verified", "missing", "mismatch"}
FileRows == [kind : {"file"}, state : {"kept", "deleted"}, object : Findings, checked : Findings]
ContactRows == [kind : {"contact"}, state : {"linked", "unlinked"}, who : {"person"}]
ClientRows == PlanRows \cup NoteRows \cup ReferenceRows \cup FileRows \cup ContactRows
IsLinked(row) == row.kind = "contact" /\ row.state = "linked"
IsOpen(row) == row.kind = "plan" /\ row.state = "planned"
\* One contact at most; a plan that came from another names a plan; nobody who is not
\* available is asked to carry one out.
RowsHold(rows, person) ==
  /\ rows \in Seq(ClientRows) /\ Len(rows) <= 2
  /\ \A i, j \in DOMAIN rows : IsLinked(rows[i]) /\ IsLinked(rows[j]) => i = j
  /\ \A i \in DOMAIN rows : IsOpen(rows[i]) /\ rows[i].who = "person" => person = "active"
  /\ \A i \in DOMAIN rows : rows[i].kind = "plan" /\ rows[i].from # 0 =>
       rows[i].from \in DOMAIN rows /\ rows[rows[i].from].kind = "plan"
ClientFiles ==
  [status : Customer!Statuses \cup {"deleted"}, person : {"none", "active", "inactive"},
   billed : BOOLEAN, rows : Seq(ClientRows)]
ClientHolds == record \in ClientFiles /\ RowsHold(record.rows, record.person)

\* The invariant of a client's rows holds at the start.
LEMMA ClientStarts == ASSUME Customer!Init PROVE ClientHolds
<1>1. /\ <<>> \in Seq(ClientRows) /\ Len(<<>>) = 0 /\ \A i \in DOMAIN <<>> : FALSE
  BY EmptySeq
<1>2. record.rows = <<>> BY DEF Customer!Init
<1>3. record \in ClientFiles BY <1>1 DEF Customer!Init, ClientFiles
<1> QED BY <1>1, <1>2, <1>3 DEF ClientHolds, RowsHold

\* A row of a client is one of the five kinds.
LEMMA RowIsKnown ==
  ASSUME NEW rows \in Seq(ClientRows), NEW i \in DOMAIN rows PROVE rows[i] \in ClientRows
  BY ElementOfSeq

\* A row is added at the end.
LEMMA RowIsAdded ==
  ASSUME NEW rows, NEW person, RowsHold(rows, person), Len(rows) < 2, NEW row \in ClientRows,
         IsLinked(row) => \A i \in DOMAIN rows : ~IsLinked(rows[i]),
         IsOpen(row) /\ row.who = "person" => person = "active",
         row.kind = "plan" /\ row.from # 0 =>
           row.from \in DOMAIN rows /\ rows[row.from].kind = "plan"
  PROVE  RowsHold(Append(rows, row), person)
<1> DEFINE more == Append(rows, row)
<1>1. /\ more \in Seq(ClientRows) /\ Len(more) = Len(rows) + 1
      /\ \A i \in 1..Len(rows) : more[i] = rows[i]
      /\ more[Len(rows) + 1] = row
  BY AppendProperties DEF RowsHold
<1>2. /\ Len(rows) \in Nat /\ DOMAIN rows = 1..Len(rows) /\ DOMAIN more = 1..Len(rows) + 1
  BY <1>1 DEF RowsHold
<1> HIDE DEF more
<1>3. \A i \in DOMAIN more :
        (i \in DOMAIN rows /\ more[i] = rows[i]) \/ (i = Len(rows) + 1 /\ more[i] = row)
  <2> SUFFICES ASSUME NEW i \in 1..Len(rows) + 1
               PROVE  (i \in DOMAIN rows /\ more[i] = rows[i]) \/ (i = Len(rows) + 1 /\ more[i] = row)
    BY <1>2
  <2>1. CASE i \in 1..Len(rows)
    <3>1. more[i] = rows[i] BY <1>1, <2>1
    <3>2. i \in DOMAIN rows BY <1>2, <2>1
    <3> QED BY <3>1, <3>2
  <2>2. CASE i = Len(rows) + 1 BY <1>1, <2>2
  <2> QED BY <1>2, <2>1, <2>2
<1>4. \A i, j \in DOMAIN more : IsLinked(more[i]) /\ IsLinked(more[j]) => i = j
  BY <1>3 DEF RowsHold
<1>5. \A i \in DOMAIN more : IsOpen(more[i]) /\ more[i].who = "person" => person = "active"
  BY <1>3 DEF RowsHold
<1>6. ASSUME NEW i \in DOMAIN more, more[i].kind = "plan", more[i].from # 0
      PROVE  more[i].from \in DOMAIN more /\ more[more[i].from].kind = "plan"
  <2>1. more[i].from \in DOMAIN rows /\ rows[more[i].from].kind = "plan"
    BY <1>3, <1>6 DEF RowsHold
  <2> QED BY <1>1, <1>2, <2>1
<1> QED BY <1>1, <1>2, <1>4, <1>5, <1>6 DEF RowsHold, more

\* A row is written again, and stays a row of its kind.
LEMMA RowIsRewritten ==
  ASSUME NEW rows, NEW person, RowsHold(rows, person), NEW n \in DOMAIN rows, NEW row \in ClientRows,
         row.kind = rows[n].kind, IsLinked(row) => IsLinked(rows[n]),
         IsOpen(row) /\ row.who = "person" => person = "active",
         row.kind = "plan" => row.from = rows[n].from
  PROVE  RowsHold([rows EXCEPT ![n] = row], person)
<1> DEFINE more == [rows EXCEPT ![n] = row]
<1>1. more \in Seq(ClientRows) /\ Len(more) = Len(rows) BY ExceptSeq DEF RowsHold
<1>2. /\ DOMAIN rows = 1..Len(rows) /\ DOMAIN more = DOMAIN rows /\ more[n] = row
      /\ \A i \in DOMAIN rows \ {n} : more[i] = rows[i]
  BY <1>1 DEF RowsHold
<1> HIDE DEF more
<1>3. \A i \in DOMAIN more : /\ more[i].kind = rows[i].kind
                             /\ IsLinked(more[i]) => IsLinked(rows[i])
                             /\ more[i].kind = "plan" => more[i].from = rows[i].from
  BY <1>2
<1>4. \A i, j \in DOMAIN more : IsLinked(more[i]) /\ IsLinked(more[j]) => i = j
  BY <1>2, <1>3 DEF RowsHold
<1>5. \A i \in DOMAIN more : IsOpen(more[i]) /\ more[i].who = "person" => person = "active"
  BY <1>2 DEF RowsHold
<1>6. \A i \in DOMAIN more : more[i].kind = "plan" /\ more[i].from # 0 =>
        more[i].from \in DOMAIN more /\ more[more[i].from].kind = "plan"
  BY <1>2, <1>3 DEF RowsHold
<1> QED BY <1>1, <1>4, <1>5, <1>6 DEF RowsHold, more

\* Each command is refused by the rules of its own family.
LEMMA FollowupWords ==
  ASSUME NEW c \in Customer!FollowupCommands
  PROVE  c.cmd \in {"plan", "replan", "reschedule", "complete", "skip", "cancel"}
  BY DEF Customer!FollowupCommands, Customer!Ask
\* What the commands of this family are refused with.
LEMMA ActivityWords ==
  ASSUME NEW c \in Customer!ActivityCommands PROVE c.cmd \in {"note", "rewrite", "delete_note"}
  BY DEF Customer!ActivityCommands, Customer!Ask
\* What the commands of this family are refused with.
LEMMA FileWords ==
  ASSUME NEW c \in Customer!FileCommands PROVE c.cmd \in {"attach", "download", "delete_file"}
  BY DEF Customer!FileCommands, Customer!Ask
\* What the commands of this family are refused with.
LEMMA ContactWords ==
  ASSUME NEW c \in Customer!ContactCommands PROVE c.cmd \in {"link", "unlink"}
  BY DEF Customer!ContactCommands, Customer!Ask
\* What the commands of this family are refused with.
LEMMA ClientWords ==
  ASSUME NEW c \in Customer!ClientCommands PROVE c.cmd \in {"status", "delete"}
  BY DEF Customer!ClientCommands, Customer!Ask
\* What a command is refused for is what its family refuses it for.
LEMMA FamilyRefusal ==
  ASSUME Customer!Held, NEW c
  PROVE  /\ c \in Customer!FollowupCommands => Customer!Refusal(c) = Customer!FollowupRefusal(c)
         /\ c \in Customer!ActivityCommands => Customer!Refusal(c) = Customer!ActivityRefusal(c)
         /\ c \in Customer!FileCommands => Customer!Refusal(c) = Customer!FileRefusal(c)
         /\ c \in Customer!ContactCommands => Customer!Refusal(c) = Customer!ContactRefusal(c)
         /\ c \in Customer!ClientCommands =>
              Customer!Refusal(c) = IF c.cmd = "delete" THEN Customer!DeleteRefusal ELSE "none"
  BY FollowupWords, ActivityWords, FileWords, ContactWords, ClientWords
  DEF Customer!Refusal, Customer!None

\* A command is taken for a client that is there.
LEMMA NobodyIsFound == ASSUME NEW c, Customer!Takes(c) PROVE Customer!Held
  BY DEF Customer!Takes, Customer!Refusal, Customer!None

\* What holds where a command of this family is taken.
LEMMA FollowupTaken ==
  ASSUME NEW c \in Customer!FollowupCommands
  PROVE  Customer!Takes(c) <=>
           /\ Customer!Held
           /\ c.cmd = "plan" \/ c.row \in Customer!Rows("plan", "planned")
           /\ c.with # "none" => record.status # "inactive" /\ c.with \in Customer!Available
<1>1. CASE Customer!Held
  <2>1. Customer!Refusal(c) = Customer!FollowupRefusal(c) BY <1>1, FamilyRefusal
  <2> QED
    BY <1>1, <2>1
    DEF Customer!Takes, Customer!FollowupRefusal, Customer!Plannable, Customer!First,
        Customer!Unless, Customer!None
<1> QED BY <1>1, NobodyIsFound

\* What holds where a command of this family is taken.
LEMMA ActivityTaken ==
  ASSUME NEW c \in Customer!ActivityCommands
  PROVE  Customer!Takes(c) <=>
           /\ Customer!Held
           /\ c.cmd = "note" \/ /\ c.row \in Customer!Rows("note", "kept")
                                /\ c.row \notin Customer!Rows("note", "deleted")
<1>1. CASE Customer!Held
  <2>1. Customer!Refusal(c) = Customer!ActivityRefusal(c) BY <1>1, FamilyRefusal
  <2> QED
    BY <1>1, <2>1
    DEF Customer!Takes, Customer!ActivityRefusal, Customer!First, Customer!Unless, Customer!None
<1> QED BY <1>1, NobodyIsFound

\* What holds where a command of this family is taken.
LEMMA FileTaken ==
  ASSUME NEW c \in Customer!FileCommands, c.cmd # "download"
  PROVE  Customer!Takes(c) <=>
           Customer!Held /\ (c.cmd = "attach" \/ c.row \in Customer!Rows("file", "kept"))
<1>1. CASE Customer!Held
  <2>1. Customer!Refusal(c) = Customer!FileRefusal(c) BY <1>1, FamilyRefusal
  <2> QED BY <1>1, <2>1 DEF Customer!Takes, Customer!FileRefusal, Customer!None
<1> QED BY <1>1, NobodyIsFound

\* What holds where a command of this family is taken.
LEMMA ContactTaken ==
  ASSUME NEW c \in Customer!ContactCommands
  PROVE  Customer!Takes(c) <=>
           /\ Customer!Held
           /\ IF c.cmd = "unlink" THEN c.row \in Customer!Rows("contact", "linked")
              ELSE /\ c.with \in Customer!Available \cup {"newcomer"}
                   /\ Customer!Rows("contact", "linked") = {}
<1>1. CASE Customer!Held
  <2>1. Customer!Refusal(c) = Customer!ContactRefusal(c) BY <1>1, FamilyRefusal
  <2> QED
    BY <1>1, <2>1
    DEF Customer!Takes, Customer!ContactRefusal, Customer!First, Customer!Unless, Customer!None
<1> QED BY <1>1, NobodyIsFound

\* The strict reader of the client takes a client's rows as long as the
\* invariant holds.
LEMMA ClientIsRead == ASSUME ClientHolds PROVE Customer!Reads
<1> DEFINE rows == record.rows
<1>1. rows \in Seq(ClientRows) /\ RowsHold(rows, record.person) BY DEF ClientHolds, RowsHold
<1>2. Customer!ContactsRead
  BY <1>1
  DEF Customer!ContactsRead, Customer!LiveContacts, Customer!History, Customer!Rows,
      Customer!Over,
      RowsHold, IsLinked
<1>3. Customer!FormerPlansRead
  <2>1. \A i \in DOMAIN rows : i \in Customer!Planned <=> rows[i].kind = "plan"
    <3> SUFFICES ASSUME NEW i \in DOMAIN rows, rows[i].kind = "plan"
                 PROVE  rows[i].state \in {"planned", "completed", "skipped", "cancelled"}
      BY DEF Customer!Planned, Customer!Rows
    <3> QED
      BY <1>1, RowIsKnown
      DEF ClientRows, PlanRows, NoteRows, ReferenceRows, FileRows, ContactRows
  <2>2. Customer!Planned \subseteq DOMAIN rows BY DEF Customer!Planned, Customer!Rows
  <2> HIDE DEF rows
  <2> QED BY <1>1, <2>1, <2>2 DEF Customer!FormerPlansRead, Customer!Located, RowsHold, rows
<1>4. ASSUME NEW i \in DOMAIN rows
      PROVE  LET row == rows[i] IN
             CASE row.kind = "plan" -> Customer!FollowupReads(row)
               [] row.kind \in {"note", "reference"} -> Customer!ActivityReads(row)
               [] row.kind = "file" -> Customer!FileReads(row)
               [] row.kind = "contact" -> Customer!ContactReads(row)
  <2> DEFINE row == rows[i]
  <2>1. row \in ClientRows BY <1>1, RowIsKnown
  <2> HIDE DEF row
  <2>2. CASE row \in PlanRows BY <2>2 DEF PlanRows, Customer!FollowupReads, row
  <2>3. CASE row \in NoteRows
    BY <2>3 DEF NoteRows, Customer!ActivityReads, Customer!ServedActivity, Customer!Over,
                Customer!OverReads, row
  <2>4. CASE row \in ReferenceRows
    BY <2>4 DEF ReferenceRows, Customer!ActivityReads, Customer!ServedActivity, Customer!Over,
                Customer!OverReads, row
  <2>5. CASE row \in FileRows
    BY <2>5 DEF FileRows, Findings, Customer!FileReads, Customer!Over, Customer!OverReads, row
  <2>6. CASE row \in ContactRows
    BY <2>6 DEF ContactRows, Customer!ContactReads, Customer!Over, Customer!OverReads, row
  <2> QED BY <2>1, <2>2, <2>3, <2>4, <2>5, <2>6 DEF ClientRows
<1>5. Customer!Held => Customer!ClientReads
  BY DEF ClientHolds, ClientFiles, Customer!Held, Customer!ClientReads
<1> QED BY <1>2, <1>3, <1>4, <1>5 DEF Customer!Reads
\* A button that is enabled upon a client's rows is a command the service takes.
LEMMA ClientIsOffered == ASSUME ClientHolds, NEW c \in Customer!Offers PROVE Customer!Accepts(c)
<1>1. Customer!Held BY DEF Customer!Offers
<1>a. ASSUME Customer!Takes(c) PROVE Customer!Accepts(c)
  BY <1>a DEF Customer!Takes, Customer!Accepts
<1>d. DOMAIN record.rows \subseteq Customer!Places
  BY DEF ClientHolds, RowsHold, Customer!Places, Customer!MostRows
<1>r. \A kind, state : Customer!Rows(kind, state) \subseteq Customer!Places
  BY <1>d DEF Customer!Rows
<1>2. CASE c \in Customer!FollowupOffers
  <2>1. ASSUME NEW i \in Customer!Rows("plan", "planned")
        PROVE  /\ Customer!Assignees(Customer!Shown(i)) \subseteq Customer!Available
               /\ Customer!Available \subseteq Customer!People
    <3>1. record.rows[i].who \in Customer!People
      <4>1. record.rows[i] \in ClientRows /\ record.rows[i].kind = "plan"
        BY RowIsKnown DEF ClientHolds, RowsHold, Customer!Rows
      <4> QED
        BY <4>1 DEF ClientRows, PlanRows, NoteRows, ReferenceRows, FileRows, ContactRows
    <3>2. record.rows[i].who = "person" => record.person = "active"
      BY DEF ClientHolds, RowsHold, IsOpen, Customer!Rows
    <3> QED
      BY <3>1, <3>2
      DEF Customer!Assignees, Customer!Shown, Customer!Available, Customer!People,
          Customer!Filled,
          Customer!None
  <2>2. CASE c \in Customer!PlanForms
    <3>1. PICK who :
            c = Customer!Ask("plan", 0, who) /\ who \in Customer!Assignees({}) /\ Customer!CanPlan
      BY <2>2 DEF Customer!PlanForms
    <3>2. who \in Customer!Available /\ who \in Customer!People
      BY <3>1
      DEF Customer!Assignees, Customer!Available, Customer!People, Customer!Filled,
          Customer!None
    <3>3. c \in Customer!FollowupCommands BY <3>1, <3>2 DEF Customer!FollowupCommands
    <3> QED BY <1>1, <1>a, <3>1, <3>2, <3>3, FollowupTaken DEF Customer!Ask, Customer!CanPlan
  <2>3. ASSUME NEW i \in Customer!Rows("plan", "planned"),
               c \in Customer!EndForms(i) \cup Customer!ChangeForms(i)
        PROVE  Customer!Accepts(c)
    <3>0. i \in Customer!Places BY <1>r
    <3>1. CASE \E cmd \in {"complete", "skip", "cancel"} : c = Customer!Ask(cmd, i, "none")
      <4>1. c \in Customer!FollowupCommands
        BY <3>0, <3>1 DEF Customer!FollowupCommands, Customer!None
      <4> QED BY <1>1, <1>a, <3>1, <4>1, FollowupTaken DEF Customer!Ask
    <3>2. CASE /\ Customer!CanPlan
               /\ \E cmd \in {"complete", "replan", "reschedule"},
                      who \in Customer!Assignees(Customer!Shown(i)) :
                    c = Customer!Ask(cmd, i, who)
      <4>1. PICK cmd \in {"complete", "replan", "reschedule"}, who \in Customer!Available :
              c = Customer!Ask(cmd, i, who) /\ who \in Customer!People
        BY <2>1, <3>2
      <4>2. c \in Customer!FollowupCommands BY <3>0, <4>1 DEF Customer!FollowupCommands
      <4> QED BY <1>1, <1>a, <3>2, <4>1, <4>2, FollowupTaken DEF Customer!Ask, Customer!CanPlan
    <3> QED BY <2>3, <3>1, <3>2 DEF Customer!EndForms, Customer!ChangeForms, Customer!None
  <2> QED BY <1>2, <2>2, <2>3 DEF Customer!FollowupOffers
<1>3. CASE c \in Customer!ActivityOffers
  <2>1. CASE c = Customer!Ask("note", 0, "none")
    <3>1. c \in Customer!ActivityCommands BY <2>1 DEF Customer!ActivityCommands, Customer!None
    <3> QED BY <1>1, <1>a, <2>1, <3>1, ActivityTaken DEF Customer!Ask
  <2>2. ASSUME NEW i \in Customer!Rows("note", "kept"), NEW cmd \in {"rewrite", "delete_note"},
               c = Customer!Ask(cmd, i, "none")
        PROVE  Customer!Accepts(c)
    <3>1. c \in Customer!ActivityCommands
      BY <1>r, <2>2 DEF Customer!ActivityCommands, Customer!None
    <3>2. i \notin Customer!Rows("note", "deleted") BY DEF Customer!Rows
    <3> QED BY <1>1, <1>a, <2>2, <3>1, <3>2, ActivityTaken DEF Customer!Ask
  <2> QED
    BY <1>3, <2>1, <2>2
    DEF Customer!ActivityOffers, Customer!NoteForm, Customer!RewriteForm, Customer!DeletionForm,
        Customer!None
<1>4. CASE c \in Customer!FileOffers
  <2>1. CASE c = Customer!Ask("attach", 0, "none")
    <3>1. c \in Customer!FileCommands BY <2>1 DEF Customer!FileCommands, Customer!None
    <3> QED BY <1>1, <1>a, <2>1, <3>1, FileTaken DEF Customer!Ask
  <2>2. ASSUME NEW i \in Customer!Rows("file", "kept"), c = Customer!Ask("delete_file", i, "none")
        PROVE  Customer!Accepts(c)
    <3>1. c \in Customer!FileCommands BY <1>r, <2>2 DEF Customer!FileCommands, Customer!None
    <3> QED BY <1>1, <1>a, <2>2, <3>1, FileTaken DEF Customer!Ask
  <2>3. ASSUME NEW i \in Customer!Rows("file", "kept"), c = Customer!Ask("download", i, "none")
        PROVE  Customer!Accepts(c)
    <3>1. c \in Customer!FileCommands BY <1>r, <2>3 DEF Customer!FileCommands, Customer!None
    <3>2. c.cmd = "download" /\ c.row = i BY <2>3 DEF Customer!Ask
    <3>3. Customer!Refusal(c) = Customer!Unsound(record.rows[i])
      BY <1>1, <3>1, <3>2, FamilyRefusal DEF Customer!FileRefusal
    <3>4. record.rows[i].object \in Findings
      <4>1. record.rows[i] \in ClientRows /\ record.rows[i].kind = "file"
        BY RowIsKnown DEF ClientHolds, RowsHold, Customer!Rows
      <4> QED
        BY <4>1 DEF ClientRows, PlanRows, NoteRows, ReferenceRows, FileRows, ContactRows
    <3> QED
      BY <3>2, <3>3, <3>4
      DEF Findings, Customer!Unsound, Customer!Accepts, Customer!Told, Customer!ToldAfter,
          Customer!None
  <2> QED
    BY <1>4, <2>1, <2>2, <2>3
    DEF Customer!FileOffers, Customer!UploadForm, Customer!FileForms, Customer!None
<1>5. CASE c \in Customer!ContactOffers
  <2>1. CASE /\ Customer!Rows("contact", "linked") = {}
             /\ \E who \in {"newcomer"} \cup (Customer!Available \ {"owner"}) :
                   c = Customer!Ask("link", 0, who)
    <3>1. PICK who \in {"newcomer"} \cup (Customer!Available \ {"owner"}) :
            c = Customer!Ask("link", 0, who)
      BY <2>1
    <3>2. who \in {"person", "newcomer"} BY DEF Customer!Available
    <3>3. c \in Customer!ContactCommands BY <3>1, <3>2 DEF Customer!ContactCommands
    <3> QED BY <1>1, <1>a, <2>1, <3>1, <3>3, ContactTaken DEF Customer!Ask
  <2>2. ASSUME NEW i \in Customer!Rows("contact", "linked"), c = Customer!Ask("unlink", i, "none")
        PROVE  Customer!Accepts(c)
    <3>1. c \in Customer!ContactCommands
      BY <1>r, <2>2 DEF Customer!ContactCommands, Customer!None
    <3> QED BY <1>1, <1>a, <2>2, <3>1, ContactTaken DEF Customer!Ask
  <2> QED
    BY <1>5, <2>1, <2>2
    DEF Customer!ContactOffers, Customer!LinkForms, Customer!LiveContacts, Customer!None
<1>6. CASE c \in Customer!EditForm \cup Customer!StatusSwitch
  <2>1. PICK s \in Customer!Statuses : c = Customer!Ask("status", 0, s)
    BY <1>6 DEF Customer!EditForm, Customer!StatusSwitch, Customer!Statuses
  <2>2. c \in Customer!ClientCommands BY <2>1 DEF Customer!ClientCommands
  <2>3. Customer!Refusal(c) = "none" BY <1>1, <2>1, <2>2, FamilyRefusal DEF Customer!Ask
  <2> QED BY <2>3 DEF Customer!Accepts, Customer!None
<1>7. CASE c \in Customer!DeleteOffer
  <2>1. c = Customer!Ask("delete", 0, "none") /\ record.status = "inactive"
    BY <1>7 DEF Customer!DeleteOffer, Customer!None
  <2>2. c \in Customer!ClientCommands BY <2>1 DEF Customer!ClientCommands, Customer!None
  <2>3. c.cmd = "delete" BY <2>1 DEF Customer!Ask
  <2>4. Customer!Refusal(c) = Customer!DeleteRefusal BY <1>1, <2>2, <2>3, FamilyRefusal
  <2>5. Customer!DeleteRefusal \in {"none", "CLIENT_HAS_INVOICES", "CLIENT_HAS_FOLLOWUPS"}
    BY <2>1 DEF Customer!DeleteRefusal, Customer!First, Customer!Unless, Customer!None
  <2> QED
    BY <2>3, <2>4, <2>5 DEF Customer!Accepts, Customer!Told, Customer!ToldBefore, Customer!None
<1> QED BY <1>1, <1>2, <1>3, <1>4, <1>5, <1>6, <1>7 DEF Customer!Offers
\* The rows change and the rest of the client may.
LEMMA ClientIsKept ==
  ASSUME ClientHolds, NEW status \in Customer!Statuses \cup {"deleted"},
         NEW person \in {"none", "active", "inactive"}, NEW billed \in BOOLEAN, NEW rows,
         RowsHold(rows, person),
         record' = [status |-> status, person |-> person, billed |-> billed, rows |-> rows]
  PROVE  ClientHolds'
<1>1. rows \in Seq(ClientRows) BY DEF RowsHold
<1>2. record' \in ClientFiles BY <1>1 DEF ClientFiles
<1> QED BY <1>2 DEF ClientHolds

\* A plan is added for somebody who is available.
LEMMA PlanIsAdded ==
  ASSUME NEW rows, RowsHold(rows, record.person), Len(rows) < 2,
         NEW who \in Customer!People, who \in Customer!Available,
         NEW from \in Nat, from # 0 => from \in DOMAIN rows /\ rows[from].kind = "plan"
  PROVE  RowsHold(Append(rows, Customer!Plan(who, from)), record.person)
<1> DEFINE row == Customer!Plan(who, from)
<1>1. /\ row \in ClientRows /\ row.kind = "plan" /\ row.who = who /\ row.from = from
  BY DEF Customer!Plan, ClientRows, PlanRows
<1>2. ~IsLinked(row) BY <1>1 DEF IsLinked
<1>3. who = "person" => record.person = "active" BY DEF Customer!Available, Customer!People
<1> HIDE DEF row
<1>4. RowsHold(Append(rows, row), record.person) BY <1>1, <1>2, <1>3, RowIsAdded
<1> QED BY <1>4 DEF row

\* A row that is neither a plan nor a contact is added.
LEMMA OtherIsAdded ==
  ASSUME NEW rows, NEW person, RowsHold(rows, person), Len(rows) < 2, NEW row \in ClientRows,
         row.kind \in {"note", "reference", "file"}
  PROVE  RowsHold(Append(rows, row), person)
<1>1. ~IsLinked(row) /\ ~IsOpen(row) /\ row.kind # "plan" BY DEF IsLinked, IsOpen
<1> QED BY <1>1, RowIsAdded

\* A row that comes to an end stays a row of its kind.
LEMMA RowIsOver ==
  ASSUME ClientHolds, NEW i \in DOMAIN record.rows, NEW state,
         /\ record.rows[i].kind = "plan" => state \in {"completed", "skipped", "cancelled"}
         /\ record.rows[i].kind = "note" => state = "deleted"
         /\ record.rows[i].kind = "contact" => state = "unlinked"
         /\ record.rows[i].kind \in {"plan", "note", "contact"}
  PROVE  RowsHold([record.rows EXCEPT ![i] = [record.rows[i] EXCEPT !.state = state]], record.person)
<1> DEFINE row == [record.rows[i] EXCEPT !.state = state]
<1>1. record.rows[i] \in ClientRows BY RowIsKnown DEF ClientHolds, RowsHold
<1>2. /\ row \in ClientRows /\ row.kind = record.rows[i].kind
      /\ row.kind = "plan" => row.from = record.rows[i].from
      /\ ~IsLinked(row) /\ ~IsOpen(row)
  <2>1. CASE record.rows[i] \in PlanRows BY <2>1 DEF PlanRows, ClientRows, IsLinked, IsOpen
  <2>2. CASE record.rows[i] \in NoteRows BY <2>2 DEF NoteRows, ClientRows, IsLinked, IsOpen
  <2>3. CASE record.rows[i] \in ContactRows
    BY <2>3 DEF ContactRows, ClientRows, IsLinked, IsOpen
  <2> QED
    BY <1>1, <2>1, <2>2, <2>3
    DEF ClientRows, ReferenceRows, FileRows
<1> HIDE DEF row
<1>3. RowsHold([record.rows EXCEPT ![i] = row], record.person)
  BY <1>2, RowIsRewritten DEF ClientHolds
<1> QED BY <1>3 DEF row

\* Every step of a client's rows keeps the invariant.
LEMMA ClientSteps == ASSUME ClientHolds, Customer!Next PROVE ClientHolds'
<1> DEFINE rows == record.rows
<1>h. RowsHold(rows, record.person) BY DEF ClientHolds
<1>t. /\ record.status \in Customer!Statuses \cup {"deleted"} /\ record.billed \in BOOLEAN
      /\ record.person \in {"none", "active", "inactive"} /\ rows \in Seq(ClientRows)
      /\ record = [status |-> record.status, person |-> record.person,
          billed |-> record.billed, rows |-> rows]
  BY DEF ClientHolds, ClientFiles
<1>d. DOMAIN rows \subseteq Customer!Places
  BY <1>h DEF RowsHold, Customer!Places, Customer!MostRows
<1>k. ASSUME NEW more, RowsHold(more, record.person), record' = [record EXCEPT !.rows = more]
      PROVE  ClientHolds'
  <2>1. record' = [status |-> record.status, person |-> record.person,
      billed |-> record.billed, rows |-> more]
    BY <1>t, <1>k
  <2> QED BY <1>t, <1>k, <2>1, ClientIsKept
<1>i. \A kind, state : \A i \in Customer!Rows(kind, state) :
        i \in DOMAIN rows /\ rows[i].kind = kind /\ rows[i].state = state
  BY DEF Customer!Rows
<1> HIDE DEF rows
\* A row of any kind but a reference or a file comes to an end.
<1>o. ASSUME NEW i \in DOMAIN rows, NEW state, record' = Customer!Ends(i, state),
             /\ rows[i].kind = "plan" => state \in {"completed", "skipped", "cancelled"}
             /\ rows[i].kind = "note" => state = "deleted"
             /\ rows[i].kind = "contact" => state = "unlinked"
             /\ rows[i].kind \in {"plan", "note", "contact"}
      PROVE  ClientHolds'
  <2> DEFINE more == [rows EXCEPT ![i] = [rows[i] EXCEPT !.state = state]]
  <2>1. record' = [record EXCEPT !.rows = more] BY <1>t, <1>o DEF Customer!Ends, rows
  <2>2. RowsHold(more, record.person) BY <1>o, RowIsOver DEF rows
  <2> HIDE DEF more
  <2> QED BY <1>k, <2>1, <2>2
\* A file is written again.
<1>l. ASSUME NEW i \in DOMAIN rows, rows[i].kind = "file", NEW row \in FileRows
      PROVE  RowsHold([rows EXCEPT ![i] = row], record.person)
  <2>1. row \in ClientRows /\ row.kind = "file" /\ ~IsLinked(row) /\ ~IsOpen(row)
    BY DEF ClientRows, FileRows, IsLinked, IsOpen
  <2> QED BY <1>h, <1>l, <2>1, RowIsRewritten
\* A contact is added where there is none; a person who is active is in nobody's way.
<1>c. ASSUME NEW person, RowsHold(rows, person), Len(rows) < 2, Customer!Rows("contact", "linked") = {}
      PROVE  RowsHold(Append(rows, Customer!Contact("person")), person)
  <2> DEFINE row == Customer!Contact("person")
  <2>1. row \in ClientRows /\ row.kind = "contact"
    BY DEF Customer!Contact, ClientRows, ContactRows
  <2>2. ~IsOpen(row) BY <2>1 DEF IsOpen
  <2>3. \A i \in DOMAIN rows : ~IsLinked(rows[i]) BY <1>c DEF Customer!Rows, IsLinked, rows
  <2> HIDE DEF row
  <2>4. RowsHold(Append(rows, row), person) BY <1>c, <2>1, <2>2, <2>3, RowIsAdded
  <2> QED BY <2>4 DEF row
<1>p. RowsHold(rows, "active") BY <1>h DEF RowsHold
<1> USE DEF Customer!Client, Customer!Room, Customer!MostRows
<1>1. CASE Customer!NewPlan
  <2>1. PICK who \in Customer!People :
          /\ Customer!Takes(Customer!Ask("plan", 0, who)) /\ Customer!Room
          /\ record' = Customer!With(record, Customer!Plan(who, 0))
    BY <1>1 DEF Customer!NewPlan
  <2>2. who \in Customer!Available
    <3>1. Customer!Ask("plan", 0, who) \in Customer!FollowupCommands
      BY DEF Customer!FollowupCommands
    <3> QED BY <2>1, <3>1, FollowupTaken DEF Customer!Ask, Customer!People
  <2>3. Len(rows) < 2 BY <2>1 DEF rows
  <2>4. RowsHold(Append(rows, Customer!Plan(who, 0)), record.person)
    BY <1>h, <2>2, <2>3, PlanIsAdded
  <2>5. record' = [record EXCEPT !.rows = Append(rows, Customer!Plan(who, 0))]
    BY <2>1 DEF Customer!With, rows
  <2> QED BY <1>k, <2>4, <2>5
<1>2. CASE Customer!Replan
  <2>1. PICK i \in Customer!Places, who \in Customer!People :
          /\ Customer!Takes(Customer!Ask("replan", i, who))
          /\ record' = [record EXCEPT !.rows[i].who = who]
    BY <1>2 DEF Customer!Replan
  <2>2. i \in Customer!Rows("plan", "planned") /\ who \in Customer!Available
    <3>1. Customer!Ask("replan", i, who) \in Customer!FollowupCommands
      BY DEF Customer!FollowupCommands
    <3> QED BY <2>1, <3>1, FollowupTaken DEF Customer!Ask, Customer!People
  <2> DEFINE row == [rows[i] EXCEPT !.who = who]
  <2>3. rows[i] \in PlanRows
    <3>1. rows[i] \in ClientRows /\ rows[i].kind = "plan" BY <1>i, <1>t, <2>2, RowIsKnown
    <3> QED BY <3>1 DEF ClientRows, NoteRows, ReferenceRows, FileRows, ContactRows
  <2>4. /\ row \in ClientRows /\ row.kind = rows[i].kind /\ ~IsLinked(row)
        /\ row.from = rows[i].from /\ row.who = who
    BY <2>3 DEF PlanRows, ClientRows, IsLinked
  <2>5. record' = [record EXCEPT !.rows = [rows EXCEPT ![i] = row]] BY <2>1 DEF rows
  <2>6. who = "person" => record.person = "active" BY <2>2 DEF Customer!Available
  <2>7. i \in DOMAIN rows BY <1>i, <2>2
  <2> HIDE DEF row
  <2>8. RowsHold([rows EXCEPT ![i] = row], record.person)
    BY <1>h, <2>4, <2>6, <2>7, RowIsRewritten
  <2> QED BY <1>k, <2>5, <2>8
<1>3. CASE Customer!Complete
  <2>1. PICK i \in Customer!Places :
          /\ Customer!Takes(Customer!Ask("complete", i, "none"))
          /\ record' = Customer!Ends(i, "completed")
    BY <1>3 DEF Customer!Complete, Customer!None
  <2>2. i \in Customer!Rows("plan", "planned")
    <3>1. Customer!Ask("complete", i, "none") \in Customer!FollowupCommands
      BY DEF Customer!FollowupCommands, Customer!None
    <3> QED BY <2>1, <3>1, FollowupTaken DEF Customer!Ask
  <2>3. i \in DOMAIN rows /\ rows[i].kind = "plan" BY <1>i, <2>2
  <2> QED BY <1>o, <2>1, <2>3
<1>4. CASE Customer!CompleteAndPlan
  <2>1. PICK i \in Customer!Places, who \in Customer!People :
          /\ Customer!Takes(Customer!Ask("complete", i, who)) /\ Customer!Room
          /\ record' = Customer!With(Customer!Ends(i, "completed"), Customer!Plan(who, 0))
    BY <1>4 DEF Customer!CompleteAndPlan
  <2>2. i \in Customer!Rows("plan", "planned") /\ who \in Customer!Available
    <3>1. Customer!Ask("complete", i, who) \in Customer!FollowupCommands
      BY DEF Customer!FollowupCommands
    <3> QED BY <2>1, <3>1, FollowupTaken DEF Customer!Ask, Customer!People
  <2> DEFINE over == [rows EXCEPT ![i] = [rows[i] EXCEPT !.state = "completed"]]
  <2>3. i \in DOMAIN rows /\ rows[i].kind = "plan" BY <1>i, <2>2
  <2>4. RowsHold(over, record.person) BY <2>3, RowIsOver DEF rows
  <2>5. Len(over) = Len(rows) /\ DOMAIN over = DOMAIN rows BY <1>t, <2>3
  <2>6. over[i].kind = "plan"
    <3>1. rows[i] \in ClientRows BY <1>t, <2>3, RowIsKnown
    <3>2. rows[i] \in PlanRows
      BY <2>3, <3>1 DEF ClientRows, NoteRows, ReferenceRows, FileRows, ContactRows
    <3> QED BY <2>3, <3>2 DEF PlanRows
  <2>7. record' = [record EXCEPT !.rows = Append(over, Customer!Plan(who, 0))]
    BY <1>t, <2>1 DEF Customer!With, Customer!Ends, rows
  <2>8. Len(rows) < 2 BY <2>1 DEF rows
  <2>9. i \in Nat /\ i # 0 BY DEF Customer!Places, Customer!MostRows
  <2> HIDE DEF over
  <2>10. RowsHold(Append(over, Customer!Plan(who, 0)), record.person)
    BY <2>2, <2>3, <2>4, <2>5, <2>6, <2>8, <2>9, PlanIsAdded
  <2> QED BY <1>k, <2>7, <2>10
<1>5. CASE Customer!Skip
  <2>1. PICK i \in Customer!Places :
          /\ Customer!Takes(Customer!Ask("skip", i, "none"))
          /\ record' = Customer!Ends(i, "skipped")
    BY <1>5 DEF Customer!Skip, Customer!None
  <2>2. i \in Customer!Rows("plan", "planned")
    <3>1. Customer!Ask("skip", i, "none") \in Customer!FollowupCommands
      BY DEF Customer!FollowupCommands, Customer!None
    <3> QED BY <2>1, <3>1, FollowupTaken DEF Customer!Ask
  <2>3. i \in DOMAIN rows /\ rows[i].kind = "plan" BY <1>i, <2>2
  <2> QED BY <1>o, <2>1, <2>3
<1>6. CASE Customer!Cancel
  <2>1. PICK i \in Customer!Places :
          /\ Customer!Takes(Customer!Ask("cancel", i, "none"))
          /\ record' = Customer!Ends(i, "cancelled")
    BY <1>6 DEF Customer!Cancel, Customer!None
  <2>2. i \in Customer!Rows("plan", "planned")
    <3>1. Customer!Ask("cancel", i, "none") \in Customer!FollowupCommands
      BY DEF Customer!FollowupCommands, Customer!None
    <3> QED BY <2>1, <3>1, FollowupTaken DEF Customer!Ask
  <2>3. i \in DOMAIN rows /\ rows[i].kind = "plan" BY <1>i, <2>2
  <2> QED BY <1>o, <2>1, <2>3
<1>7. CASE Customer!Reschedule
  <2>1. PICK i \in Customer!Places, who \in Customer!People :
          /\ Customer!Takes(Customer!Ask("reschedule", i, who)) /\ Customer!Room
          /\ record' = Customer!With(Customer!Ends(i, "cancelled"), Customer!Plan(who, i))
    BY <1>7 DEF Customer!Reschedule
  <2>2. i \in Customer!Rows("plan", "planned") /\ who \in Customer!Available
    <3>1. Customer!Ask("reschedule", i, who) \in Customer!FollowupCommands
      BY DEF Customer!FollowupCommands
    <3> QED BY <2>1, <3>1, FollowupTaken DEF Customer!Ask, Customer!People
  <2> DEFINE over == [rows EXCEPT ![i] = [rows[i] EXCEPT !.state = "cancelled"]]
  <2>3. i \in DOMAIN rows /\ rows[i].kind = "plan" BY <1>i, <2>2
  <2>4. RowsHold(over, record.person) BY <2>3, RowIsOver DEF rows
  <2>5. Len(over) = Len(rows) /\ DOMAIN over = DOMAIN rows BY <1>t, <2>3
  <2>6. over[i].kind = "plan"
    <3>1. rows[i] \in ClientRows BY <1>t, <2>3, RowIsKnown
    <3>2. rows[i] \in PlanRows
      BY <2>3, <3>1 DEF ClientRows, NoteRows, ReferenceRows, FileRows, ContactRows
    <3> QED BY <2>3, <3>2 DEF PlanRows
  <2>7. record' = [record EXCEPT !.rows = Append(over, Customer!Plan(who, i))]
    BY <1>t, <2>1 DEF Customer!With, Customer!Ends, rows
  <2>8. Len(rows) < 2 BY <2>1 DEF rows
  <2>9. i \in Nat /\ i # 0 BY DEF Customer!Places, Customer!MostRows
  <2> HIDE DEF over
  <2>10. RowsHold(Append(over, Customer!Plan(who, i)), record.person)
    BY <2>2, <2>3, <2>4, <2>5, <2>6, <2>8, <2>9, PlanIsAdded
  <2> QED BY <1>k, <2>7, <2>10
<1>8. CASE Customer!Write
  <2>1. record' = [record EXCEPT !.rows = Append(rows, Customer!Note)] /\ Len(rows) < 2
    BY <1>8 DEF Customer!Write, Customer!With, rows
  <2>2. Customer!Note \in ClientRows /\ Customer!Note.kind = "note"
    BY DEF Customer!Note, ClientRows, NoteRows
  <2>3. RowsHold(Append(rows, Customer!Note), record.person) BY <1>h, <2>1, <2>2, OtherIsAdded
  <2> QED BY <1>k, <2>1, <2>3
<1>9. CASE Customer!DeleteNote
  <2>1. PICK i \in Customer!Places :
          /\ Customer!Takes(Customer!Ask("delete_note", i, "none"))
          /\ record' = Customer!Ends(i, "deleted")
    BY <1>9 DEF Customer!DeleteNote, Customer!None
  <2>2. i \in Customer!Rows("note", "kept")
    <3>1. Customer!Ask("delete_note", i, "none") \in Customer!ActivityCommands
      BY DEF Customer!ActivityCommands, Customer!None
    <3> QED BY <2>1, <3>1, ActivityTaken DEF Customer!Ask
  <2>3. i \in DOMAIN rows /\ rows[i].kind = "note" BY <1>i, <2>2
  <2> QED BY <1>o, <2>1, <2>3
<1>10. CASE Customer!Refer
  <2>1. record' = [record EXCEPT !.rows = Append(rows, Customer!Reference)] /\ Len(rows) < 2
    BY <1>10 DEF Customer!Refer, Customer!With, rows
  <2>2. Customer!Reference \in ClientRows /\ Customer!Reference.kind = "reference"
    BY DEF Customer!Reference, ClientRows, ReferenceRows
  <2>3. RowsHold(Append(rows, Customer!Reference), record.person)
    BY <1>h, <2>1, <2>2, OtherIsAdded
  <2> QED BY <1>k, <2>1, <2>3
<1>11. CASE Customer!Attach
  <2>1. record' = [record EXCEPT !.rows = Append(rows, Customer!File)] /\ Len(rows) < 2
    BY <1>11 DEF Customer!Attach, Customer!With, rows
  <2>2. Customer!File \in ClientRows /\ Customer!File.kind = "file"
    BY DEF Customer!File, ClientRows, FileRows, Findings
  <2>3. RowsHold(Append(rows, Customer!File), record.person) BY <1>h, <2>1, <2>2, OtherIsAdded
  <2> QED BY <1>k, <2>1, <2>3
<1>12. CASE Customer!Spoil
  <2>1. PICK i \in Customer!Rows("file", "kept"), found \in Findings :
          record' = [record EXCEPT !.rows[i].object = found]
    BY <1>12 DEF Customer!Spoil, Findings
  <2> DEFINE row == [rows[i] EXCEPT !.object = found]
  <2>2. i \in DOMAIN rows /\ rows[i].kind = "file" BY <1>i, <2>1
  <2>3. rows[i] \in FileRows
    <3>1. rows[i] \in ClientRows BY <1>t, <2>2, RowIsKnown
    <3> QED BY <2>2, <3>1 DEF ClientRows, PlanRows, NoteRows, ReferenceRows, ContactRows
  <2>4. row \in FileRows BY <2>1, <2>3 DEF FileRows, Findings
  <2>5. record' = [record EXCEPT !.rows = [rows EXCEPT ![i] = row]]
    BY <1>t, <2>1, <2>2, <2>3 DEF rows
  <2> HIDE DEF row
  <2> QED BY <1>k, <1>l, <2>2, <2>4, <2>5
<1>13. CASE Customer!Download
  <2>1. PICK i \in Customer!Rows("file", "kept") :
          record' = [record EXCEPT !.rows[i].checked = record.rows[i].object]
    BY <1>13 DEF Customer!Download
  <2> DEFINE row == [rows[i] EXCEPT !.checked = rows[i].object]
  <2>2. i \in DOMAIN rows /\ rows[i].kind = "file" BY <1>i, <2>1
  <2>3. rows[i] \in FileRows
    <3>1. rows[i] \in ClientRows BY <1>t, <2>2, RowIsKnown
    <3> QED BY <2>2, <3>1 DEF ClientRows, PlanRows, NoteRows, ReferenceRows, ContactRows
  <2>4. row \in FileRows BY <2>1, <2>3 DEF FileRows, Findings
  <2>5. record' = [record EXCEPT !.rows = [rows EXCEPT ![i] = row]]
    BY <1>t, <2>1, <2>2, <2>3 DEF rows
  <2> HIDE DEF row
  <2> QED BY <1>k, <1>l, <2>2, <2>4, <2>5
<1>14. CASE Customer!DeleteFile
  <2>0. PICK i \in Customer!Places :
          /\ Customer!Takes(Customer!Ask("delete_file", i, "none"))
          /\ record' = [record EXCEPT !.rows[i].state = "deleted", !.rows[i].object = "missing",
               !.rows[i].checked = IF record.rows[i].object = "missing" THEN "missing" ELSE @]
    BY <1>14 DEF Customer!DeleteFile, Customer!None
  <2>1. i \in Customer!Rows("file", "kept")
    <3>1. Customer!Ask("delete_file", i, "none") \in Customer!FileCommands
      BY DEF Customer!FileCommands, Customer!None
    <3> QED BY <2>0, <3>1, FileTaken DEF Customer!Ask
  <2> DEFINE row == [rows[i] EXCEPT !.state = "deleted", !.object = "missing",
                 !.checked = IF rows[i].object = "missing" THEN "missing" ELSE @]
  <2>2. i \in DOMAIN rows /\ rows[i].kind = "file" BY <1>i, <2>1
  <2>3. rows[i] \in FileRows
    <3>1. rows[i] \in ClientRows BY <1>t, <2>2, RowIsKnown
    <3> QED BY <2>2, <3>1 DEF ClientRows, PlanRows, NoteRows, ReferenceRows, ContactRows
  <2>4. row \in FileRows BY <2>1, <2>3 DEF FileRows, Findings
  <2>5. record' = [record EXCEPT !.rows = [rows EXCEPT ![i] = row]]
    BY <1>t, <2>0, <2>2, <2>3 DEF rows, FileRows
  <2> HIDE DEF row
  <2> QED BY <1>k, <1>l, <2>2, <2>4, <2>5
<1>15. CASE Customer!Link
  <2>1. /\ Customer!Takes(Customer!Ask("link", 0, "person")) /\ Len(rows) < 2
        /\ record' = [record EXCEPT !.rows = Append(rows, Customer!Contact("person"))]
    BY <1>15 DEF Customer!Link, Customer!With, rows
  <2>2. Customer!Rows("contact", "linked") = {}
    <3>1. Customer!Ask("link", 0, "person") \in Customer!ContactCommands
      BY DEF Customer!ContactCommands
    <3> QED BY <2>1, <3>1, ContactTaken DEF Customer!Ask
  <2> QED BY <1>c, <1>h, <1>k, <2>1, <2>2
<1>16. CASE Customer!LinkNewcomer
  <2>1. /\ Customer!Takes(Customer!Ask("link", 0, "newcomer")) /\ Len(rows) < 2
        /\ record' = [[record EXCEPT !.person = "active"] EXCEPT !.rows =
                        Append([record EXCEPT !.person = "active"].rows, Customer!Contact("person"))]
    BY <1>16 DEF Customer!LinkNewcomer, Customer!With, rows
  <2>2. Customer!Rows("contact", "linked") = {}
    <3>1. Customer!Ask("link", 0, "newcomer") \in Customer!ContactCommands
      BY DEF Customer!ContactCommands
    <3> QED BY <2>1, <3>1, ContactTaken DEF Customer!Ask
  <2> DEFINE more == Append(rows, Customer!Contact("person"))
  <2>3. record' = [status |-> record.status, person |-> "active", billed |-> record.billed,
      rows |-> more]
    <3> DEFINE joined == [record EXCEPT !.person = "active"]
    <3>1. joined = [status |-> record.status, person |-> "active", billed |-> record.billed,
        rows |-> rows]
      BY <1>t
    <3>2. record' = [joined EXCEPT !.rows = Append(joined.rows, Customer!Contact("person"))]
      BY <2>1
    <3> HIDE DEF joined
    <3> QED BY <3>1, <3>2
  <2>4. RowsHold(more, "active") BY <1>c, <1>p, <2>1, <2>2
  <2> HIDE DEF more
  <2> QED BY <1>t, <2>3, <2>4, ClientIsKept
<1>17. CASE Customer!Unlink
  <2>1. PICK i \in Customer!Places :
          /\ Customer!Takes(Customer!Ask("unlink", i, "none"))
          /\ record' = Customer!Ends(i, "unlinked")
    BY <1>17 DEF Customer!Unlink, Customer!None
  <2>2. i \in Customer!Rows("contact", "linked")
    <3>1. Customer!Ask("unlink", i, "none") \in Customer!ContactCommands
      BY DEF Customer!ContactCommands, Customer!None
    <3> QED BY <2>1, <3>1, ContactTaken DEF Customer!Ask
  <2>3. i \in DOMAIN rows /\ rows[i].kind = "contact" BY <1>i, <2>2
  <2> QED BY <1>o, <2>1, <2>3
<1>18. CASE Customer!SetStatus
  <2>1. PICK s \in Customer!Statuses : record' = [record EXCEPT !.status = s]
    BY <1>18 DEF Customer!SetStatus
  <2>2. record' = [status |-> s, person |-> record.person, billed |-> record.billed,
      rows |-> rows]
    BY <1>t, <2>1
  <2> QED BY <1>h, <1>t, <2>2, ClientIsKept
<1>19. CASE Customer!Delete
  <2>1. record' = [status |-> "deleted", person |-> record.person, billed |-> record.billed,
      rows |-> <<>>]
    BY <1>t, <1>19 DEF Customer!Delete
  <2>2. /\ <<>> \in Seq(ClientRows) /\ Len(<<>>) = 0 /\ \A i \in DOMAIN <<>> : FALSE BY EmptySeq
  <2>3. RowsHold(<<>>, record.person) BY <2>2 DEF RowsHold
  <2> QED BY <1>t, <2>1, <2>3, ClientIsKept
<1>20. CASE Customer!Bill
  <2>1. record' = [status |-> record.status, person |-> record.person,
      billed |-> ~record.billed, rows |-> rows]
    BY <1>t, <1>20 DEF Customer!Bill
  <2>2. (~record.billed) \in BOOLEAN BY <1>t
  <2> QED BY <1>h, <1>t, <2>1, <2>2, ClientIsKept
<1>21. CASE Customer!AddPerson \/ Customer!Activate
  <2>1. record' = [status |-> record.status, person |-> "active", billed |-> record.billed,
      rows |-> rows]
    BY <1>t, <1>21 DEF Customer!AddPerson, Customer!Activate
  <2> QED BY <1>p, <1>t, <2>1, ClientIsKept
<1>22. CASE Customer!Deactivate
  <2>1. record' = [status |-> record.status, person |-> "inactive", billed |-> record.billed,
      rows |-> rows]
    BY <1>t, <1>22 DEF Customer!Deactivate
  <2>2. \A i \in DOMAIN rows : IsOpen(rows[i]) => rows[i].who # "person"
    BY <1>22 DEF Customer!Deactivate, Customer!Engaged, Customer!Rows, IsOpen, rows
  <2>3. RowsHold(rows, "inactive") BY <1>h, <2>2 DEF RowsHold
  <2> QED BY <1>t, <2>1, <2>3, ClientIsKept
<1> QED
  BY <1>1, <1>2, <1>3, <1>4, <1>5, <1>6, <1>7, <1>8, <1>9, <1>10, <1>11, <1>12, <1>13, <1>14,
     <1>15, <1>16, <1>17, <1>18, <1>19, <1>20, <1>21, <1>22
  DEF Customer!Next

----------------------------------------------------------------------------
(* Backups and restores (BackupRecords).                                   *)
Contents == {"none", "current", "restored", "broken"}
BackupParts == {"database", "objects", "invoices"}
PartFiles ==
  [BackupParts -> [live : Contents, prepared : {"none", "restored", "broken"},
                   previous : {"none", "current"}]]
Restores ==
  [phase : {"up", "down", "prepare", "copying", "swap", "verify", "clean", "roll"}, step : 1..4,
   parts : PartFiles,
   stuck : BOOLEAN, plan : BOOLEAN, sound : BOOLEAN, told : {"nothing", "scheduled", "refused"},
   held : BOOLEAN, worked : BOOLEAN, applied : BOOLEAN, residual : BOOLEAN, failed : BOOLEAN,
   package : {"sound", "spoiled", "unreadable"}]
\* All parts have this content.
Whole(parts, content) == \A p \in BackupParts : parts[p].live = content
\* The phases of a restore have their plan; the cleanup is one of restored data. Where the
\* pages take commands with a plan waiting, they were told that nothing was scheduled.
PlanHolds(r) ==
  /\ r.phase \in {"prepare", "copying", "swap", "verify", "roll"} => r.plan
  /\ r.phase = "clean" => ~r.plan /\ Whole(r.parts, "restored")
  /\ r.held => r.phase = "up" /\ r.plan
  /\ r.phase = "up" /\ r.plan /\ ~r.held => r.told = "refused"
  /\ r.plan /\ r.worked => r.told = "refused"
\* While there is a plan each part is where it was or lies beside what replaces it, so that it
\* can be put back; without one all parts are of one kind. A rollback that is not stuck has
\* put back every part it has passed.
PartsHold(r) ==
  /\ r.plan => \A p \in BackupParts : r.parts[p].previous = "none" => r.parts[p].live = "current"
  /\ ~r.plan => Whole(r.parts, "current") \/ Whole(r.parts, "restored")
  /\ r.phase = "up" /\ r.plan => Whole(r.parts, "current")
  /\ r.phase = "roll" /\ ~r.stuck =>
       \A i \in 1..3 : i < r.step => r.parts[Backup!Returned[i]].previous = "none"
BackupHolds == record \in Restores /\ PlanHolds(record) /\ PartsHold(record)

RestoreOf(phase, step, parts, stuck, plan, sound, told, held,
          worked, applied, residual, failed, package) ==
  [phase |-> phase, step |-> step, parts |-> parts, stuck |-> stuck, plan |-> plan,
   sound |-> sound, told |-> told, held |-> held, worked |-> worked,
   applied |-> applied, residual |-> residual, failed |-> failed, package |-> package]

\* A restore is the record of its fields.
LEMMA RestoreIsRecord ==
  ASSUME NEW r \in Restores
  PROVE  r = RestoreOf(r.phase, r.step, r.parts, r.stuck, r.plan, r.sound, r.told,
                       r.held, r.worked, r.applied, r.residual, r.failed, r.package)
  BY DEF Restores, RestoreOf

\* What the swap replaces: three parts, one after the other.
LEMMA PartsAreKnown == Backup!Parts = BackupParts /\ Backup!Steps = 1..3
  BY DEF Backup!Parts, Backup!Steps, Backup!Swapped, BackupParts

\* A plan that ends without its data being verified leaves all the old data.
PlanEnds == record.plan /\ ~record'.plan /\ ~Backup!Commit => Whole(record'.parts, "current")

\* The invariant of a restore holds at the start.
LEMMA BackupStarts == ASSUME Backup!Init PROVE BackupHolds
  BY PartsAreKnown
  DEF Backup!Init, Backup!Pair, BackupHolds, Restores, PartFiles, Contents, PlanHolds,
      PartsHold, Whole

\* The strict reader of the client takes a restore as long as the
\* invariant holds.
LEMMA BackupIsRead == ASSUME BackupHolds PROVE Backup!Reads
  BY DEF BackupHolds, Restores, Backup!Reads, Backup!PagesShown, Backup!Diagnosis,
         Backup!DiagnosisReads,
         Backup!Listed, Backup!PackageReads

\* A button that is enabled upon a restore is a command the service takes, unless it reads
\* a damaged package: where a restart is waited for, nothing else is enabled.
LEMMA BackupIsOffered ==
  ASSUME BackupHolds, NEW c \in Backup!Offers PROVE Backup!Accepts(c) \/ Backup!FindsDamage(c)
<1>1. CASE record.plan
  <2>1. c = "restart"
    BY <1>1 DEF Backup!Offers, Backup!Locked, Backup!Diagnosis
  <2> QED BY <2>1 DEF Backup!Accepts, Backup!Refusal
<1>2. CASE ~record.plan
  BY <1>2 DEF BackupHolds, PlanHolds, Backup!Accepts, Backup!FindsDamage, Backup!Refusal
<1> QED BY <1>1, <1>2

\* Every step of a restore, a crash or a failing rename among them, keeps the invariant, and
\* a plan ends with the restored data verified or with everything put back.
LEMMA BackupSteps == ASSUME BackupHolds, Backup!Next PROVE BackupHolds' /\ PlanEnds
<1> USE DEF Backup!Session
<1> DEFINE r == record
<1>t. record \in Restores BY DEF BackupHolds
<1>h. PlanHolds(record) /\ PartsHold(record) BY DEF BackupHolds
<1>e. record = RestoreOf(r.phase, r.step, r.parts, r.stuck,
                          r.plan, r.sound, r.told, r.held,
                          r.worked, r.applied, r.residual,
                          r.failed, r.package)
  BY <1>t, RestoreIsRecord
<1>p. Backup!Parts = BackupParts /\ Backup!Steps = 1..3 BY PartsAreKnown
<1>f. \A p \in BackupParts :
        /\ r.parts[p].live \in Contents /\ r.parts[p].prepared \in {"none", "restored", "broken"}
        /\ r.parts[p].previous \in {"none", "current"}
  BY <1>t DEF Restores, PartFiles
<1>z. \A i \in 1..3 : Backup!Returned[i] \in BackupParts BY DEF Backup!Returned, BackupParts
<1>b. /\ r.stuck \in BOOLEAN /\ r.plan \in BOOLEAN /\ r.held \in BOOLEAN
      /\ r.worked \in BOOLEAN /\ r.step \in 1..4
  BY <1>t DEF Restores
<1>s. ASSUME r.phase = "up",
             record' = [record EXCEPT !.parts = [p \in BackupParts |-> Backup!Pair("current")],
                 !.plan = TRUE, !.sound = TRUE,
                                           !.told = "scheduled", !.held = TRUE, !.worked = FALSE]
      PROVE  BackupHolds' /\ PlanEnds
  <2> DEFINE parts == [p \in BackupParts |-> Backup!Pair("current")]
  <2>1. parts \in PartFiles
    BY <1>f, <1>t, <1>p, <1>s DEF Restores, PartFiles, Contents, BackupParts, Backup!Pair
  <2>2. \A p \in BackupParts : parts[p].live = "current" /\ parts[p].previous = "none"
    BY DEF Backup!Pair
  <2>3. record' = RestoreOf(r.phase, r.step, parts, r.stuck, TRUE, TRUE,
                        "scheduled", TRUE, FALSE, r.applied, r.residual,
                        r.failed, r.package)
    BY <1>e, <1>p, <1>s, <1>s DEF RestoreOf
  <2> HIDE DEF parts
  <2>4. /\ record'.phase = r.phase /\ record'.step = r.step /\ record'.parts = parts
        /\ record'.stuck = r.stuck /\ record'.plan = TRUE /\ record'.told = "scheduled"
        /\ record'.held = TRUE /\ record'.worked = FALSE
    BY <2>3 DEF RestoreOf
  <2>5. record' \in Restores BY <1>t, <2>3, <2>1, <1>s DEF Restores, RestoreOf
  <2>6. PlanHolds(record') BY <1>b, <1>h, <2>4, <2>2, <1>s DEF PlanHolds, Whole
  <2>7. PartsHold(record') BY <1>b, <1>h, <2>4, <2>2, <1>s DEF PlanHolds, PartsHold, Whole
  <2>8. PlanEnds BY <1>b, <2>4, <2>2, <1>s DEF PlanEnds, Whole
  <2> QED BY <2>5, <2>6, <2>7, <2>8 DEF BackupHolds
<1>r. ASSUME r.phase = "up",
             record' = [record EXCEPT !.parts = [p \in BackupParts |-> Backup!Pair("current")],
                 !.plan = TRUE, !.sound = TRUE,
                                           !.told = "refused", !.held = FALSE, !.worked = FALSE]
      PROVE  BackupHolds' /\ PlanEnds
  <2> DEFINE parts == [p \in BackupParts |-> Backup!Pair("current")]
  <2>1. parts \in PartFiles
    BY <1>f, <1>t, <1>p, <1>r DEF Restores, PartFiles, Contents, BackupParts, Backup!Pair
  <2>2. \A p \in BackupParts : parts[p].live = "current" /\ parts[p].previous = "none"
    BY DEF Backup!Pair
  <2>3. record' = RestoreOf(r.phase, r.step, parts, r.stuck, TRUE, TRUE,
                        "refused", FALSE, FALSE, r.applied, r.residual,
                        r.failed, r.package)
    BY <1>e, <1>p, <1>r, <1>r DEF RestoreOf
  <2> HIDE DEF parts
  <2>4. /\ record'.phase = r.phase /\ record'.step = r.step /\ record'.parts = parts
        /\ record'.stuck = r.stuck /\ record'.plan = TRUE /\ record'.told = "refused"
        /\ record'.held = FALSE /\ record'.worked = FALSE
    BY <2>3 DEF RestoreOf
  <2>5. record' \in Restores BY <1>t, <2>3, <2>1, <1>r DEF Restores, RestoreOf
  <2>6. PlanHolds(record') BY <1>b, <1>h, <2>4, <2>2, <1>r DEF PlanHolds, Whole
  <2>7. PartsHold(record') BY <1>b, <1>h, <2>4, <2>2, <1>r DEF PlanHolds, PartsHold, Whole
  <2>8. PlanEnds BY <1>b, <2>4, <2>2, <1>r DEF PlanEnds, Whole
  <2> QED BY <2>5, <2>6, <2>7, <2>8 DEF BackupHolds
<1>1. CASE Backup!Schedule
  <2>1. r.phase = "up" BY <1>1 DEF Backup!Schedule
  <2>2. CASE record' = Backup!Planned(record)
    BY <1>p, <1>s, <1>t, <2>1, <2>2 DEF Backup!Planned, Backup!Settled, Restores
  <2>3. CASE record' = [Backup!Planned(record) EXCEPT !.told = "refused", !.held = FALSE]
    BY <1>p, <1>r, <1>t, <2>1, <2>3 DEF Backup!Planned, Backup!Settled, Restores
  <2> QED BY <1>1, <2>2, <2>3 DEF Backup!Schedule
<1>2. CASE Backup!ScheduleAgain
  <2>1. record' = RestoreOf(r.phase, r.step, r.parts, r.stuck,
                        r.plan, r.sound, r.told, TRUE, r.worked,
                        r.applied, r.residual, r.failed,
                        r.package)
    BY <1>e, <1>p, <1>2 DEF RestoreOf, Backup!ScheduleAgain
  <2>2. /\ record'.phase = r.phase /\ record'.step = r.step /\ record'.parts = r.parts
        /\ record'.stuck = r.stuck /\ record'.plan = r.plan /\ record'.told = r.told
        /\ record'.held = TRUE /\ record'.worked = r.worked
    BY <2>1 DEF RestoreOf
  <2>3. record' \in Restores BY <1>t, <2>1 DEF Restores, RestoreOf
  <2>4. PlanHolds(record') BY <1>b, <1>h, <1>2, <2>2 DEF PlanHolds, Whole, Backup!ScheduleAgain
  <2>5. PartsHold(record') BY <1>b, <1>h, <2>2 DEF PlanHolds, PartsHold, Whole
  <2>6. PlanEnds BY <1>b, <2>2 DEF PlanEnds, Whole
  <2> QED BY <2>3, <2>4, <2>5, <2>6 DEF BackupHolds
<1>3. CASE Backup!Work
  <2>1. r.phase = "up" /\ ~r.held /\ r.plan
    BY <1>3 DEF Backup!Work
  <2>2. record' = RestoreOf(r.phase, r.step, r.parts, r.stuck,
                        r.plan, r.sound, r.told, r.held, TRUE,
                        r.applied, r.residual, r.failed,
                        r.package)
    BY <1>e, <1>p, <1>3, <2>1 DEF RestoreOf, Backup!Work
  <2>3. /\ record'.phase = r.phase /\ record'.step = r.step /\ record'.parts = r.parts
        /\ record'.stuck = r.stuck /\ record'.plan = r.plan /\ record'.told = r.told
        /\ record'.held = r.held /\ record'.worked = TRUE
    BY <2>2 DEF RestoreOf
  <2>4. record' \in Restores BY <1>t, <2>2, <2>1 DEF Restores, RestoreOf
  <2>5. PlanHolds(record') BY <1>b, <1>h, <2>3, <2>1 DEF PlanHolds, Whole
  <2>6. PartsHold(record') BY <1>b, <1>h, <2>3, <2>1 DEF PlanHolds, PartsHold, Whole
  <2>7. PlanEnds BY <1>b, <2>3, <2>1 DEF PlanEnds, Whole
  <2> QED BY <2>4, <2>5, <2>6, <2>7 DEF BackupHolds
<1>4. CASE Backup!SpoilPackage
  <2>1. PICK damage \in {"spoiled", "unreadable"} : record' = [record EXCEPT !.package = damage]
    BY <1>4, <1>p DEF Backup!SpoilPackage
  <2>2. record' = RestoreOf(r.phase, r.step, r.parts, r.stuck,
                        r.plan, r.sound, r.told, r.held,
                        r.worked, r.applied, r.residual,
                        r.failed, damage)
    BY <1>e, <1>p, <2>1, <2>1 DEF RestoreOf
  <2>3. /\ record'.phase = r.phase /\ record'.step = r.step /\ record'.parts = r.parts
        /\ record'.stuck = r.stuck /\ record'.plan = r.plan /\ record'.told = r.told
        /\ record'.held = r.held /\ record'.worked = r.worked
    BY <2>2 DEF RestoreOf
  <2>4. record' \in Restores BY <1>t, <2>2, <2>1 DEF Restores, RestoreOf
  <2>5. PlanHolds(record') BY <1>b, <1>h, <2>3, <2>1 DEF PlanHolds, Whole
  <2>6. PartsHold(record') BY <1>b, <1>h, <2>3, <2>1 DEF PlanHolds, PartsHold, Whole
  <2>7. PlanEnds BY <1>b, <2>3, <2>1 DEF PlanEnds, Whole
  <2> QED BY <2>4, <2>5, <2>6, <2>7 DEF BackupHolds
<1>5. CASE Backup!DeletePackage
  <2>1. record' = RestoreOf(r.phase, r.step, r.parts, r.stuck,
                        r.plan, r.sound, r.told, r.held,
                        r.worked, r.applied, r.residual,
                        r.failed, "sound")
    BY <1>e, <1>p, <1>5 DEF RestoreOf, Backup!DeletePackage
  <2>2. /\ record'.phase = r.phase /\ record'.step = r.step /\ record'.parts = r.parts
        /\ record'.stuck = r.stuck /\ record'.plan = r.plan /\ record'.told = r.told
        /\ record'.held = r.held /\ record'.worked = r.worked
    BY <2>1 DEF RestoreOf
  <2>3. record' \in Restores BY <1>t, <2>1 DEF Restores, RestoreOf
  <2>4. PlanHolds(record') BY <1>b, <1>h, <2>2 DEF PlanHolds, Whole
  <2>5. PartsHold(record') BY <1>b, <1>h, <2>2 DEF PlanHolds, PartsHold, Whole
  <2>6. PlanEnds BY <1>b, <2>2 DEF PlanEnds, Whole
  <2> QED BY <2>3, <2>4, <2>5, <2>6 DEF BackupHolds
<1>6. CASE Backup!SpoilPlan
  <2>1. record' = RestoreOf(r.phase, r.step, r.parts, r.stuck,
                        r.plan, FALSE, r.told, r.held, r.worked,
                        r.applied, r.residual, r.failed,
                        r.package)
    BY <1>e, <1>p, <1>6 DEF RestoreOf, Backup!SpoilPlan
  <2>2. /\ record'.phase = r.phase /\ record'.step = r.step /\ record'.parts = r.parts
        /\ record'.stuck = r.stuck /\ record'.plan = r.plan /\ record'.told = r.told
        /\ record'.held = r.held /\ record'.worked = r.worked
    BY <2>1 DEF RestoreOf
  <2>3. record' \in Restores BY <1>t, <2>1 DEF Restores, RestoreOf
  <2>4. PlanHolds(record') BY <1>b, <1>h, <2>2 DEF PlanHolds, Whole
  <2>5. PartsHold(record') BY <1>b, <1>h, <2>2 DEF PlanHolds, PartsHold, Whole
  <2>6. PlanEnds BY <1>b, <2>2 DEF PlanEnds, Whole
  <2> QED BY <2>3, <2>4, <2>5, <2>6 DEF BackupHolds
<1>7. CASE Backup!Stop
  <2>1. record' = RestoreOf("down", r.step, r.parts, r.stuck, r.plan,
                        r.sound, r.told, FALSE, r.worked, FALSE,
                        r.residual, r.failed, r.package)
    BY <1>e, <1>p, <1>7 DEF RestoreOf, Backup!Stop
  <2>2. /\ record'.phase = "down" /\ record'.step = r.step /\ record'.parts = r.parts
        /\ record'.stuck = r.stuck /\ record'.plan = r.plan /\ record'.told = r.told
        /\ record'.held = FALSE /\ record'.worked = r.worked
    BY <2>1 DEF RestoreOf
  <2>3. record' \in Restores BY <1>t, <2>1 DEF Restores, RestoreOf
  <2>4. PlanHolds(record') BY <1>b, <1>h, <2>2 DEF PlanHolds, Whole
  <2>5. PartsHold(record') BY <1>b, <1>h, <2>2 DEF PlanHolds, PartsHold, Whole
  <2>6. PlanEnds BY <1>b, <2>2 DEF PlanEnds, Whole
  <2> QED BY <2>3, <2>4, <2>5, <2>6 DEF BackupHolds
<1>m. ASSUME NEW phase \in {"up", "prepare", "down"}, r.phase = "down",
             phase = "up" => ~r.plan, phase = "prepare" => r.plan, NEW missing,
             record' = [record EXCEPT !.phase = phase, !.parts = Backup!Made(r.parts, missing),
                                     !.step = 1, !.stuck = FALSE]
      PROVE  BackupHolds' /\ PlanEnds
  <2> DEFINE parts == Backup!Made(r.parts, missing)
  <2>1. parts \in PartFiles
    BY <1>f, <1>t, <1>p, <1>m DEF Restores, PartFiles, Contents, BackupParts, Backup!Made
  <2>2. \A p \in BackupParts : parts[p].previous = r.parts[p].previous
    BY <1>p, <1>t DEF Backup!Made, Restores, PartFiles
  <2>3. \A p \in BackupParts : r.parts[p].live = "current" => parts[p].live = "current"
    BY <1>p, <1>t DEF Backup!Made, Restores, PartFiles
  <2>4. \A p \in BackupParts : r.parts[p].live = "restored" => parts[p].live = "restored"
    BY <1>p, <1>t DEF Backup!Made, Restores, PartFiles
  <2>5. record' = RestoreOf(phase, 1, parts, FALSE, r.plan, r.sound,
                        r.told, r.held, r.worked, r.applied,
                        r.residual, r.failed, r.package)
    BY <1>e, <1>p, <1>m, <1>m DEF RestoreOf
  <2> HIDE DEF parts
  <2>6. /\ record'.phase = phase /\ record'.step = 1 /\ record'.parts = parts
        /\ record'.stuck = FALSE /\ record'.plan = r.plan /\ record'.told = r.told
        /\ record'.held = r.held /\ record'.worked = r.worked
    BY <2>5 DEF RestoreOf
  <2>7. record' \in Restores BY <1>t, <2>5, <2>1, <1>m DEF Restores, RestoreOf
  <2>8. PlanHolds(record') BY <1>b, <1>h, <2>6, <2>2, <2>3, <2>4, <1>m DEF PlanHolds, Whole
  <2>9. PartsHold(record')
    BY <1>b, <1>h, <2>6, <2>2, <2>3, <2>4, <1>m DEF PlanHolds, PartsHold, Whole
  <2>10. PlanEnds BY <1>b, <2>6, <2>2, <2>3, <2>4, <1>m DEF PlanEnds, Whole
  <2> QED BY <2>8, <2>9, <2>7, <2>10 DEF BackupHolds
<1>8. CASE Backup!Start
  <2> DEFINE made == [record EXCEPT !.parts = Backup!Made(r.parts, {"invoices"}),
                                       !.step = 1, !.stuck = FALSE]
             Started(phase) ==
               [record EXCEPT !.phase = phase, !.parts = Backup!Made(r.parts, {"invoices"}),
                              !.step = 1, !.stuck = FALSE]
  <2>1. r.phase = "down" BY <1>8 DEF Backup!Start
  <2>2. made.plan = r.plan /\ made.sound = r.sound BY <1>t DEF Restores
  <2>3. [made EXCEPT !.phase = "up"] = Started("up") BY <1>t DEF Restores
  <2>4. [made EXCEPT !.phase = "prepare"] = Started("prepare") BY <1>t DEF Restores
  <2>5. made = Started("down") BY <1>t, <2>1 DEF Restores
  <2>6. IF ~made.plan THEN record' = [made EXCEPT !.phase = "up"]
        ELSE IF made.sound THEN record' = [made EXCEPT !.phase = "prepare"] ELSE record' = made
    BY <1>8 DEF Backup!Start
  <2> HIDE DEF made
  <2>7. CASE ~r.plan BY <1>m, <2>1, <2>2, <2>3, <2>6, <2>7
  <2>8. CASE r.plan /\ r.sound BY <1>m, <2>1, <2>2, <2>4, <2>6, <2>8
  <2>9. CASE r.plan /\ ~r.sound BY <1>m, <2>1, <2>2, <2>5, <2>6, <2>9
  <2> QED BY <2>7, <2>8, <2>9
<1>9. CASE Backup!Die
  <2>1. record' = RestoreOf("down", r.step, r.parts, r.stuck, r.plan,
                        r.sound, r.told, r.held, r.worked,
                        r.applied, r.residual, r.failed,
                        r.package)
    BY <1>e, <1>p, <1>9 DEF RestoreOf, Backup!Die
  <2>2. /\ record'.phase = "down" /\ record'.step = r.step /\ record'.parts = r.parts
        /\ record'.stuck = r.stuck /\ record'.plan = r.plan /\ record'.told = r.told
        /\ record'.held = r.held /\ record'.worked = r.worked
    BY <2>1 DEF RestoreOf
  <2>3. record' \in Restores BY <1>t, <2>1 DEF Restores, RestoreOf
  <2>7. r.phase # "up" BY <1>p, <1>9 DEF Backup!Die
  <2>4. PlanHolds(record') BY <1>b, <1>h, <1>p, <2>2, <2>7 DEF PlanHolds, Whole
  <2>5. PartsHold(record') BY <1>b, <1>h, <2>2 DEF PlanHolds, PartsHold, Whole
  <2>6. PlanEnds BY <1>b, <2>2 DEF PlanEnds, Whole
  <2> QED BY <2>3, <2>4, <2>5, <2>6 DEF BackupHolds
<1>10. CASE Backup!Prepare
  <2>1. r.phase = "prepare"
    BY <1>10 DEF Backup!Prepare
  <2> DEFINE parts == [p \in BackupParts |-> [r.parts[p] EXCEPT !.prepared = "broken"]]
  <2>2. parts \in PartFiles
    BY <1>f, <1>t, <1>p, <2>1 DEF Restores, PartFiles, Contents, BackupParts
  <2>3. \A p \in BackupParts :
          parts[p].previous = r.parts[p].previous /\ parts[p].live = r.parts[p].live
    BY <1>f, <1>t DEF Restores, PartFiles
  <2>4. record' = RestoreOf("copying", r.step, parts, r.stuck, r.plan,
                        r.sound, r.told, r.held, r.worked,
                        r.applied, r.residual, r.failed,
                        r.package)
    BY <1>e, <1>p, <1>10, <2>1 DEF RestoreOf, Backup!Prepare, Backup!Fill
  <2> HIDE DEF parts
  <2>5. /\ record'.phase = "copying" /\ record'.step = r.step /\ record'.parts = parts
        /\ record'.stuck = r.stuck /\ record'.plan = r.plan /\ record'.told = r.told
        /\ record'.held = r.held /\ record'.worked = r.worked
    BY <2>4 DEF RestoreOf
  <2>6. record' \in Restores BY <1>t, <2>4, <2>2, <2>1 DEF Restores, RestoreOf
  <2>7. PlanHolds(record') BY <1>b, <1>h, <2>5, <2>3, <2>1 DEF PlanHolds, Whole
  <2>8. PartsHold(record') BY <1>b, <1>h, <2>5, <2>3, <2>1 DEF PlanHolds, PartsHold, Whole
  <2>9. PlanEnds BY <1>b, <2>5, <2>3, <2>1 DEF PlanEnds, Whole
  <2> QED BY <2>6, <2>7, <2>8, <2>9 DEF BackupHolds
<1>11. CASE Backup!Prepared
  <2>1. r.phase = "copying"
    BY <1>11 DEF Backup!Prepared
  <2> DEFINE parts == [p \in BackupParts |-> [r.parts[p] EXCEPT !.prepared = "restored"]]
  <2>2. parts \in PartFiles
    BY <1>f, <1>t, <1>p, <2>1 DEF Restores, PartFiles, Contents, BackupParts
  <2>3. \A p \in BackupParts :
          parts[p].previous = r.parts[p].previous /\ parts[p].live = r.parts[p].live
    BY <1>f, <1>t DEF Restores, PartFiles
  <2>4. record' = RestoreOf("swap", r.step, parts, r.stuck, r.plan,
                        r.sound, r.told, r.held, r.worked,
                        r.applied, r.residual, r.failed,
                        r.package)
    BY <1>e, <1>p, <1>11, <2>1 DEF RestoreOf, Backup!Prepared, Backup!Fill
  <2> HIDE DEF parts
  <2>5. /\ record'.phase = "swap" /\ record'.step = r.step /\ record'.parts = parts
        /\ record'.stuck = r.stuck /\ record'.plan = r.plan /\ record'.told = r.told
        /\ record'.held = r.held /\ record'.worked = r.worked
    BY <2>4 DEF RestoreOf
  <2>6. record' \in Restores BY <1>t, <2>4, <2>2, <2>1 DEF Restores, RestoreOf
  <2>7. PlanHolds(record') BY <1>b, <1>h, <2>5, <2>3, <2>1 DEF PlanHolds, Whole
  <2>8. PartsHold(record') BY <1>b, <1>h, <2>5, <2>3, <2>1 DEF PlanHolds, PartsHold, Whole
  <2>9. PlanEnds BY <1>b, <2>5, <2>3, <2>1 DEF PlanEnds, Whole
  <2> QED BY <2>6, <2>7, <2>8, <2>9 DEF BackupHolds
<1>12. CASE Backup!CarryOn
  <2>1. r.phase = "prepare"
    BY <1>12 DEF Backup!CarryOn
  <2>2. record' = RestoreOf("swap", r.step, r.parts, r.stuck, r.plan,
                        r.sound, r.told, r.held, r.worked,
                        r.applied, r.residual, r.failed,
                        r.package)
    BY <1>e, <1>p, <1>12, <2>1 DEF RestoreOf, Backup!CarryOn
  <2>3. /\ record'.phase = "swap" /\ record'.step = r.step /\ record'.parts = r.parts
        /\ record'.stuck = r.stuck /\ record'.plan = r.plan /\ record'.told = r.told
        /\ record'.held = r.held /\ record'.worked = r.worked
    BY <2>2 DEF RestoreOf
  <2>4. record' \in Restores BY <1>t, <2>2, <2>1 DEF Restores, RestoreOf
  <2>5. PlanHolds(record') BY <1>b, <1>h, <2>3, <2>1 DEF PlanHolds, Whole
  <2>6. PartsHold(record') BY <1>b, <1>h, <2>3, <2>1 DEF PlanHolds, PartsHold, Whole
  <2>7. PlanEnds BY <1>b, <2>3, <2>1 DEF PlanEnds, Whole
  <2> QED BY <2>4, <2>5, <2>6, <2>7 DEF BackupHolds
<1>13. CASE Backup!MoveAway
  <2>1. r.step \in 1..3 /\ r.phase = "swap" /\ r.plan
    BY <1>b, <1>h, <1>p, <1>13 DEF PlanHolds, Backup!MoveAway
  <2>2. Backup!Swapped[r.step] \in BackupParts
    BY <2>1 DEF Backup!Swapped, BackupParts
  <2>3. \A p \in BackupParts : r.parts[p].previous = "none" => r.parts[p].live = "current"
    BY <1>h, <2>1 DEF PartsHold
  <2>4. PICK q \in BackupParts :
          /\ r.parts[q].previous = "none"
          /\ record' = [record EXCEPT !.parts = [r.parts EXCEPT ![q] =
                     [live |-> "none", prepared |-> r.parts[q].prepared,
                         previous |-> r.parts[q].live]]]
    BY <1>13, <1>p, <2>1, <2>2, <2>3 DEF Backup!MoveAway, Backup!Put, Backup!Part
  <2> DEFINE parts == [r.parts EXCEPT ![q] =
                     [live |-> "none", prepared |-> r.parts[q].prepared,
                         previous |-> r.parts[q].live]]
  <2>5. parts \in PartFiles
    BY <1>f, <1>t, <1>p, <2>1, <2>2, <2>3, <2>4 DEF Restores, PartFiles, Contents, BackupParts
  <2>6. parts[q].previous = "current"
    BY <1>f, <1>h, <1>t, <2>1, <2>4 DEF Restores, PartFiles, PartsHold
  <2>7. \A p \in BackupParts : p # q => parts[p] = r.parts[p]
    BY <1>t DEF Restores, PartFiles
  <2>8. record' = RestoreOf(r.phase, r.step, parts, r.stuck, r.plan,
                        r.sound, r.told, r.held, r.worked,
                        r.applied, r.residual, r.failed,
                        r.package)
    BY <1>e, <1>p, <2>4, <2>1, <2>2, <2>3, <2>4 DEF RestoreOf
  <2> HIDE DEF parts
  <2>9. /\ record'.phase = r.phase /\ record'.step = r.step /\ record'.parts = parts
        /\ record'.stuck = r.stuck /\ record'.plan = r.plan /\ record'.told = r.told
        /\ record'.held = r.held /\ record'.worked = r.worked
    BY <2>8 DEF RestoreOf
  <2>10. record' \in Restores
    BY <1>t, <2>8, <2>5, <2>1, <2>2, <2>3, <2>4 DEF Restores, RestoreOf
  <2>11. PlanHolds(record')
    BY <1>b, <1>h, <2>9, <2>6, <2>7, <2>1, <2>2, <2>3, <2>4 DEF PlanHolds, Whole
  <2>12. PartsHold(record')
    BY <1>b, <1>h, <2>9, <2>6, <2>7, <2>1, <2>2, <2>3, <2>4 DEF PlanHolds, PartsHold, Whole
  <2>13. PlanEnds BY <1>b, <2>9, <2>6, <2>7, <2>1, <2>2, <2>3, <2>4 DEF PlanEnds, Whole
  <2> QED BY <2>11, <2>12, <2>10, <2>13 DEF BackupHolds
<1>14. CASE Backup!MoveIn
  <2>1. r.step \in 1..3 /\ r.phase = "swap" /\ r.plan
    BY <1>b, <1>h, <1>p, <1>14 DEF PlanHolds, Backup!MoveIn
  <2>2. Backup!Swapped[r.step] \in BackupParts
    BY <2>1 DEF Backup!Swapped, BackupParts
  <2>3. \A p \in BackupParts : r.parts[p].previous = "none" => r.parts[p].live = "current"
    BY <1>h, <2>1 DEF PartsHold
  <2>4. PICK q \in BackupParts :
          /\ r.parts[q].previous # "none"
          /\ record' = [record EXCEPT !.parts = [r.parts EXCEPT ![q] =
                     [live |-> r.parts[q].prepared, prepared |-> "none",
                         previous |-> r.parts[q].previous]]]
    BY <1>14, <1>p, <2>1, <2>2, <2>3 DEF Backup!MoveIn, Backup!Put, Backup!Part
  <2> DEFINE parts == [r.parts EXCEPT ![q] =
                     [live |-> r.parts[q].prepared, prepared |-> "none",
                         previous |-> r.parts[q].previous]]
  <2>5. parts \in PartFiles
    BY <1>f, <1>t, <1>p, <2>1, <2>2, <2>3, <2>4 DEF Restores, PartFiles, Contents, BackupParts
  <2>6. parts[q].previous = "current"
    BY <1>f, <1>h, <1>t, <2>1, <2>4 DEF Restores, PartFiles, PartsHold
  <2>7. \A p \in BackupParts : p # q => parts[p] = r.parts[p]
    BY <1>t DEF Restores, PartFiles
  <2>8. record' = RestoreOf(r.phase, r.step, parts, r.stuck, r.plan,
                        r.sound, r.told, r.held, r.worked,
                        r.applied, r.residual, r.failed,
                        r.package)
    BY <1>e, <1>p, <2>4, <2>1, <2>2, <2>3, <2>4 DEF RestoreOf
  <2> HIDE DEF parts
  <2>9. /\ record'.phase = r.phase /\ record'.step = r.step /\ record'.parts = parts
        /\ record'.stuck = r.stuck /\ record'.plan = r.plan /\ record'.told = r.told
        /\ record'.held = r.held /\ record'.worked = r.worked
    BY <2>8 DEF RestoreOf
  <2>10. record' \in Restores
    BY <1>t, <2>8, <2>5, <2>1, <2>2, <2>3, <2>4 DEF Restores, RestoreOf
  <2>11. PlanHolds(record')
    BY <1>b, <1>h, <2>9, <2>6, <2>7, <2>1, <2>2, <2>3, <2>4 DEF PlanHolds, Whole
  <2>12. PartsHold(record')
    BY <1>b, <1>h, <2>9, <2>6, <2>7, <2>1, <2>2, <2>3, <2>4 DEF PlanHolds, PartsHold, Whole
  <2>13. PlanEnds BY <1>b, <2>9, <2>6, <2>7, <2>1, <2>2, <2>3, <2>4 DEF PlanEnds, Whole
  <2> QED BY <2>11, <2>12, <2>10, <2>13 DEF BackupHolds
<1>15. CASE Backup!Swap
  <2>1. r.step \in 1..3 /\ r.step + 1 \in 1..4
    BY <1>b, <1>p, <1>15 DEF Backup!Swap
  <2>2. r.phase = "swap"
    BY <1>15 DEF Backup!Swap
  <2>3. record' = RestoreOf(r.phase, r.step + 1, r.parts, r.stuck,
                        r.plan, r.sound, r.told, r.held,
                        r.worked, r.applied, r.residual,
                        r.failed, r.package)
    BY <1>e, <1>p, <1>15, <2>1, <2>2 DEF RestoreOf, Backup!Swap
  <2>4. /\ record'.phase = r.phase /\ record'.step = r.step + 1 /\ record'.parts = r.parts
        /\ record'.stuck = r.stuck /\ record'.plan = r.plan /\ record'.told = r.told
        /\ record'.held = r.held /\ record'.worked = r.worked
    BY <2>3 DEF RestoreOf
  <2>5. record' \in Restores BY <1>t, <2>3, <2>1, <2>2 DEF Restores, RestoreOf
  <2>6. PlanHolds(record') BY <1>b, <1>h, <2>4, <2>1, <2>2 DEF PlanHolds, Whole
  <2>7. PartsHold(record') BY <1>b, <1>h, <2>4, <2>1, <2>2 DEF PlanHolds, PartsHold, Whole
  <2>8. PlanEnds BY <1>b, <2>4, <2>1, <2>2 DEF PlanEnds, Whole
  <2> QED BY <2>5, <2>6, <2>7, <2>8 DEF BackupHolds
<1>16. CASE Backup!Abandon
  <2>1. r.phase = "swap"
    BY <1>16 DEF Backup!Abandon
  <2>2. record' = RestoreOf("roll", 1, r.parts, r.stuck, r.plan,
                        r.sound, r.told, r.held, r.worked,
                        r.applied, r.residual, r.failed,
                        r.package)
    BY <1>e, <1>p, <1>16, <2>1 DEF RestoreOf, Backup!Abandon, Backup!Rolling
  <2>3. /\ record'.phase = "roll" /\ record'.step = 1 /\ record'.parts = r.parts
        /\ record'.stuck = r.stuck /\ record'.plan = r.plan /\ record'.told = r.told
        /\ record'.held = r.held /\ record'.worked = r.worked
    BY <2>2 DEF RestoreOf
  <2>4. record' \in Restores BY <1>t, <2>2, <2>1 DEF Restores, RestoreOf
  <2>5. PlanHolds(record') BY <1>b, <1>h, <2>3, <2>1 DEF PlanHolds, Whole
  <2>6. PartsHold(record') BY <1>b, <1>h, <2>3, <2>1 DEF PlanHolds, PartsHold, Whole
  <2>7. PlanEnds BY <1>b, <2>3, <2>1 DEF PlanEnds, Whole
  <2> QED BY <2>4, <2>5, <2>6, <2>7 DEF BackupHolds
<1>17. CASE Backup!EndSwap
  <2>1. r.phase = "swap"
    BY <1>17 DEF Backup!EndSwap
  <2>2. record' = RestoreOf("verify", r.step, r.parts, r.stuck,
                        r.plan, r.sound, r.told, r.held,
                        r.worked, r.applied, r.residual,
                        r.failed, r.package)
    BY <1>e, <1>p, <1>17, <2>1 DEF RestoreOf, Backup!EndSwap
  <2>3. /\ record'.phase = "verify" /\ record'.step = r.step /\ record'.parts = r.parts
        /\ record'.stuck = r.stuck /\ record'.plan = r.plan /\ record'.told = r.told
        /\ record'.held = r.held /\ record'.worked = r.worked
    BY <2>2 DEF RestoreOf
  <2>4. record' \in Restores BY <1>t, <2>2, <2>1 DEF Restores, RestoreOf
  <2>5. PlanHolds(record') BY <1>b, <1>h, <2>3, <2>1 DEF PlanHolds, Whole
  <2>6. PartsHold(record') BY <1>b, <1>h, <2>3, <2>1 DEF PlanHolds, PartsHold, Whole
  <2>7. PlanEnds BY <1>b, <2>3, <2>1 DEF PlanEnds, Whole
  <2> QED BY <2>4, <2>5, <2>6, <2>7 DEF BackupHolds
<1>18. CASE Backup!Commit
  <2>1. Whole(r.parts, "restored")
    BY <1>p, <1>18 DEF Backup!Commit, Backup!Verified, Whole
  <2>2. record' = RestoreOf("clean", r.step, r.parts, r.stuck, FALSE,
                        r.sound, r.told, r.held, r.worked, TRUE,
                        TRUE, r.failed, r.package)
    BY <1>e, <1>p, <1>18, <2>1 DEF RestoreOf, Backup!Commit
  <2>3. /\ record'.phase = "clean" /\ record'.step = r.step /\ record'.parts = r.parts
        /\ record'.stuck = r.stuck /\ record'.plan = FALSE /\ record'.told = r.told
        /\ record'.held = r.held /\ record'.worked = r.worked
    BY <2>2 DEF RestoreOf
  <2>4. record' \in Restores BY <1>t, <2>2, <2>1 DEF Restores, RestoreOf
  <2>8. r.phase = "verify" BY <1>p, <1>18 DEF Backup!Commit
  <2>5. PlanHolds(record') BY <1>b, <1>h, <2>3, <2>1, <2>8 DEF PlanHolds, Whole
  <2>6. PartsHold(record') BY <1>b, <1>h, <2>3, <2>1 DEF PlanHolds, PartsHold, Whole
  <2>7. PlanEnds BY <1>b, <1>18 DEF PlanEnds, Whole
  <2> QED BY <2>4, <2>5, <2>6, <2>7 DEF BackupHolds
<1>19. CASE Backup!Distrust
  <2>1. r.phase = "verify"
    BY <1>19 DEF Backup!Distrust
  <2>2. record' = RestoreOf("roll", 1, r.parts, r.stuck, r.plan,
                        r.sound, r.told, r.held, r.worked,
                        r.applied, r.residual, r.failed,
                        r.package)
    BY <1>e, <1>p, <1>19, <2>1 DEF RestoreOf, Backup!Distrust, Backup!Rolling
  <2>3. /\ record'.phase = "roll" /\ record'.step = 1 /\ record'.parts = r.parts
        /\ record'.stuck = r.stuck /\ record'.plan = r.plan /\ record'.told = r.told
        /\ record'.held = r.held /\ record'.worked = r.worked
    BY <2>2 DEF RestoreOf
  <2>4. record' \in Restores BY <1>t, <2>2, <2>1 DEF Restores, RestoreOf
  <2>5. PlanHolds(record') BY <1>b, <1>h, <2>3, <2>1 DEF PlanHolds, Whole
  <2>6. PartsHold(record') BY <1>b, <1>h, <2>3, <2>1 DEF PlanHolds, PartsHold, Whole
  <2>7. PlanEnds BY <1>b, <2>3, <2>1 DEF PlanEnds, Whole
  <2> QED BY <2>4, <2>5, <2>6, <2>7 DEF BackupHolds
<1>n. ASSUME NEW failing, failing \in BOOLEAN, r.phase = "clean", NEW parts \in PartFiles,
             \A p \in BackupParts : parts[p].live = r.parts[p].live,
             record' = [record EXCEPT !.phase = "up", !.residual = failing, !.parts = parts]
      PROVE  BackupHolds' /\ PlanEnds
  <2>1. record' = RestoreOf("up", r.step, parts, r.stuck, r.plan,
                        r.sound, r.told, r.held, r.worked,
                        r.applied, failing, r.failed, r.package)
    BY <1>e, <1>p, <1>n, <1>n DEF RestoreOf
  <2>2. /\ record'.phase = "up" /\ record'.step = r.step /\ record'.parts = parts
        /\ record'.stuck = r.stuck /\ record'.plan = r.plan /\ record'.told = r.told
        /\ record'.held = r.held /\ record'.worked = r.worked
    BY <2>1 DEF RestoreOf
  <2>3. record' \in Restores BY <1>t, <2>1, <1>n DEF Restores, RestoreOf
  <2>4. PlanHolds(record') BY <1>b, <1>h, <2>2, <1>n DEF PlanHolds, Whole
  <2>5. PartsHold(record') BY <1>b, <1>h, <2>2, <1>n DEF PlanHolds, PartsHold, Whole
  <2>6. PlanEnds BY <1>b, <2>2, <1>n DEF PlanEnds, Whole
  <2> QED BY <2>3, <2>4, <2>5, <2>6 DEF BackupHolds
<1>20. CASE Backup!Clean
  <2>1. PICK failing \in BOOLEAN :
          record' = [record EXCEPT !.phase = "up", !.residual = failing,
                       !.parts = IF failing THEN r.parts
                                 ELSE [p \in BackupParts |-> Backup!Pair(r.parts[p].live)]]
    BY <1>p, <1>20 DEF Backup!Clean
  <2>2. /\ [p \in BackupParts |-> Backup!Pair(r.parts[p].live)] \in PartFiles
        /\ \A q \in BackupParts :
             [p \in BackupParts |-> Backup!Pair(r.parts[p].live)][q].live = r.parts[q].live
    BY <1>f DEF Backup!Pair, PartFiles
  <2>3. r.parts \in PartFiles /\ r.phase = "clean" BY <1>t, <1>20 DEF Restores, Backup!Clean
  <2>4. CASE failing BY <1>n, <2>1, <2>3, <2>4
  <2>5. CASE ~failing BY <1>n, <2>1, <2>2, <2>3, <2>5
  <2> QED BY <2>4, <2>5
<1>21. CASE Backup!Skip
  <2>1. r.step \in 1..3 /\ r.step + 1 \in 1..4 /\ r.phase = "roll"
    BY <1>b, <1>p, <1>21 DEF Backup!Skip
  <2>2. Backup!Returned[r.step] \in BackupParts
    BY <2>1 DEF Backup!Returned, BackupParts
  <2>3. r.plan
    BY <1>h, <2>1 DEF PlanHolds
  <2>4. \A i \in 1..3 : i < r.step + 1 => i < r.step \/ i = r.step
    BY <1>b
  <2>5. \A i \in 1..3 : Backup!Returned[i] \in BackupParts
    BY <1>z
  <2>6. r.parts[Backup!Returned[r.step]].previous = "none"
    BY <1>21 DEF Backup!Skip, Backup!Back
  <2>7. record' = RestoreOf(r.phase, r.step + 1, r.parts, r.stuck,
                        r.plan, r.sound, r.told, r.held,
                        r.worked, r.applied, r.residual,
                        r.failed, r.package)
    BY <1>e, <1>p, <1>21, <2>1, <2>2, <2>3, <2>4, <2>5, <2>6 DEF RestoreOf, Backup!Skip
  <2>8. /\ record'.phase = r.phase /\ record'.step = r.step + 1 /\ record'.parts = r.parts
        /\ record'.stuck = r.stuck /\ record'.plan = r.plan /\ record'.told = r.told
        /\ record'.held = r.held /\ record'.worked = r.worked
    BY <2>7 DEF RestoreOf
  <2>9. record' \in Restores
    BY <1>t, <2>7, <2>1, <2>2, <2>3, <2>4, <2>5, <2>6 DEF Restores, RestoreOf
  <2>10. PlanHolds(record')
    BY <1>b, <1>h, <2>8, <2>1, <2>2, <2>3, <2>4, <2>5, <2>6 DEF PlanHolds, Whole
  <2>11. PartsHold(record')
    BY <1>b, <1>h, <2>8, <2>1, <2>2, <2>3, <2>4, <2>5, <2>6 DEF PlanHolds, PartsHold, Whole
  <2>12. PlanEnds BY <1>b, <2>8, <2>1, <2>2, <2>3, <2>4, <2>5, <2>6 DEF PlanEnds, Whole
  <2> QED BY <2>10, <2>11, <2>9, <2>12 DEF BackupHolds
<1>22. CASE Backup!Remove
  <2>1. r.step \in 1..3 /\ r.step + 1 \in 1..4 /\ r.phase = "roll"
    BY <1>b, <1>p, <1>22 DEF Backup!Remove
  <2>2. Backup!Returned[r.step] \in BackupParts
    BY <2>1 DEF Backup!Returned, BackupParts
  <2>3. r.plan
    BY <1>h, <2>1 DEF PlanHolds
  <2>4. \A i \in 1..3 : i < r.step + 1 => i < r.step \/ i = r.step
    BY <1>b
  <2>5. \A i \in 1..3 : Backup!Returned[i] \in BackupParts
    BY <1>z
  <2>6. PICK q \in BackupParts, left \in {"none", "broken"} :
          /\ r.parts[q].previous # "none"
          /\ record' = [record EXCEPT !.parts =
                         [r.parts EXCEPT ![q] = [r.parts[q] EXCEPT !.live = left]]]
    BY <1>22, <1>p, <2>1, <2>2, <2>3, <2>4, <2>5 DEF Backup!Remove, Backup!Back
  <2> DEFINE parts == [r.parts EXCEPT ![q] = [r.parts[q] EXCEPT !.live = left]]
  <2>7. parts \in PartFiles
    BY <1>f, <1>t, <1>p, <2>1, <2>2, <2>3, <2>4, <2>5, <2>6
    DEF Restores, PartFiles, Contents, BackupParts
  <2>8. \A p \in BackupParts : parts[p].previous = r.parts[p].previous
    BY <1>f, <1>t DEF Restores, PartFiles
  <2>9. \A p \in BackupParts : p # q => parts[p] = r.parts[p]
    BY <1>t DEF Restores, PartFiles
  <2>10. parts[q].previous # "none"
    BY <1>f, <1>t, <2>6 DEF Restores, PartFiles
  <2>11. record' = RestoreOf(r.phase, r.step, parts, r.stuck, r.plan,
                        r.sound, r.told, r.held, r.worked,
                        r.applied, r.residual, r.failed,
                        r.package)
    BY <1>e, <1>p, <2>6, <2>1, <2>2, <2>3, <2>4, <2>5, <2>6 DEF RestoreOf
  <2> HIDE DEF parts
  <2>12. /\ record'.phase = r.phase /\ record'.step = r.step /\ record'.parts = parts
        /\ record'.stuck = r.stuck /\ record'.plan = r.plan /\ record'.told = r.told
        /\ record'.held = r.held /\ record'.worked = r.worked
    BY <2>11 DEF RestoreOf
  <2>13. record' \in Restores
    BY <1>t, <2>11, <2>7, <2>1, <2>2, <2>3, <2>4, <2>5, <2>6 DEF Restores, RestoreOf
  <2>14. PlanHolds(record')
    BY <1>b, <1>h, <2>12, <2>8, <2>9, <2>10, <2>1, <2>2, <2>3, <2>4, <2>5, <2>6
    DEF PlanHolds, Whole
  <2>15. PartsHold(record')
    BY <1>b, <1>h, <2>12, <2>8, <2>9, <2>10, <2>1, <2>2, <2>3, <2>4, <2>5, <2>6
    DEF PlanHolds, PartsHold, Whole
  <2>16. PlanEnds
    BY <1>b, <2>12, <2>8, <2>9, <2>10, <2>1, <2>2, <2>3, <2>4, <2>5, <2>6 DEF PlanEnds, Whole
  <2> QED BY <2>14, <2>15, <2>13, <2>16 DEF BackupHolds
<1>23. CASE Backup!Return
  <2>1. r.step \in 1..3 /\ r.step + 1 \in 1..4 /\ r.phase = "roll"
    BY <1>b, <1>p, <1>23 DEF Backup!Return
  <2>2. Backup!Returned[r.step] \in BackupParts
    BY <2>1 DEF Backup!Returned, BackupParts
  <2>3. r.plan
    BY <1>h, <2>1 DEF PlanHolds
  <2>4. \A i \in 1..3 : i < r.step + 1 => i < r.step \/ i = r.step
    BY <1>b
  <2>5. \A i \in 1..3 : Backup!Returned[i] \in BackupParts
    BY <1>z
  <2>6. PICK q \in BackupParts :
          /\ q = Backup!Returned[r.step] /\ r.parts[q].previous # "none"
          /\ record' = [record EXCEPT !.step = r.step + 1, !.parts = [r.parts EXCEPT ![q] =
                     [live |-> r.parts[q].previous, prepared |-> r.parts[q].prepared,
                         previous |-> "none"]]]
    BY <1>23, <1>p, <2>1, <2>2, <2>3, <2>4, <2>5 DEF Backup!Return, Backup!Back
  <2> DEFINE parts == [r.parts EXCEPT ![q] =
                     [live |-> r.parts[q].previous, prepared |-> r.parts[q].prepared,
                         previous |-> "none"]]
  <2>7. parts \in PartFiles
    BY <1>f, <1>t, <1>p, <2>1, <2>2, <2>3, <2>4, <2>5, <2>6
    DEF Restores, PartFiles, Contents, BackupParts
  <2>8. parts[q].previous = "none" /\ parts[q].live = "current"
    BY <1>f, <1>t, <2>6 DEF Restores, PartFiles
  <2>9. \A p \in BackupParts : p # q => parts[p] = r.parts[p]
    BY <1>t DEF Restores, PartFiles
  <2>10. record' = RestoreOf(r.phase, r.step + 1, parts, r.stuck,
                        r.plan, r.sound, r.told, r.held,
                        r.worked, r.applied, r.residual,
                        r.failed, r.package)
    BY <1>e, <1>p, <2>6, <2>1, <2>2, <2>3, <2>4, <2>5, <2>6 DEF RestoreOf
  <2> HIDE DEF parts
  <2>11. /\ record'.phase = r.phase /\ record'.step = r.step + 1 /\ record'.parts = parts
        /\ record'.stuck = r.stuck /\ record'.plan = r.plan /\ record'.told = r.told
        /\ record'.held = r.held /\ record'.worked = r.worked
    BY <2>10 DEF RestoreOf
  <2>12. record' \in Restores
    BY <1>t, <2>10, <2>7, <2>1, <2>2, <2>3, <2>4, <2>5, <2>6 DEF Restores, RestoreOf
  <2>13. PlanHolds(record')
    BY <1>b, <1>h, <2>11, <2>8, <2>9, <2>1, <2>2, <2>3, <2>4, <2>5, <2>6 DEF PlanHolds, Whole
  <2>14. PartsHold(record')
    BY <1>b, <1>h, <2>11, <2>8, <2>9, <2>1, <2>2, <2>3, <2>4, <2>5, <2>6
    DEF PlanHolds, PartsHold, Whole
  <2>15. PlanEnds
    BY <1>b, <2>11, <2>8, <2>9, <2>1, <2>2, <2>3, <2>4, <2>5, <2>6 DEF PlanEnds, Whole
  <2> QED BY <2>13, <2>14, <2>12, <2>15 DEF BackupHolds
<1>24. CASE Backup!LeaveBehind
  <2>1. r.step \in 1..3 /\ r.step + 1 \in 1..4 /\ r.phase = "roll"
    BY <1>b, <1>p, <1>24 DEF Backup!LeaveBehind
  <2>2. Backup!Returned[r.step] \in BackupParts
    BY <2>1 DEF Backup!Returned, BackupParts
  <2>3. r.plan
    BY <1>h, <2>1 DEF PlanHolds
  <2>4. \A i \in 1..3 : i < r.step + 1 => i < r.step \/ i = r.step
    BY <1>b
  <2>5. \A i \in 1..3 : Backup!Returned[i] \in BackupParts
    BY <1>z
  <2>6. record' = RestoreOf(r.phase, r.step + 1, r.parts, TRUE,
                        r.plan, r.sound, r.told, r.held,
                        r.worked, r.applied, r.residual,
                        r.failed, r.package)
    BY <1>e, <1>p, <1>24, <2>1, <2>2, <2>3, <2>4, <2>5 DEF RestoreOf, Backup!LeaveBehind
  <2>7. /\ record'.phase = r.phase /\ record'.step = r.step + 1 /\ record'.parts = r.parts
        /\ record'.stuck = TRUE /\ record'.plan = r.plan /\ record'.told = r.told
        /\ record'.held = r.held /\ record'.worked = r.worked
    BY <2>6 DEF RestoreOf
  <2>8. record' \in Restores BY <1>t, <2>6, <2>1, <2>2, <2>3, <2>4, <2>5 DEF Restores, RestoreOf
  <2>9. PlanHolds(record')
    BY <1>b, <1>h, <2>7, <2>1, <2>2, <2>3, <2>4, <2>5 DEF PlanHolds, Whole
  <2>10. PartsHold(record')
    BY <1>b, <1>h, <2>7, <2>1, <2>2, <2>3, <2>4, <2>5 DEF PlanHolds, PartsHold, Whole
  <2>11. PlanEnds BY <1>b, <2>7, <2>1, <2>2, <2>3, <2>4, <2>5 DEF PlanEnds, Whole
  <2> QED BY <2>9, <2>10, <2>8, <2>11 DEF BackupHolds
<1>g. ASSUME Backup!GiveUp, ~r.stuck
      PROVE  \A p \in BackupParts : r.parts[p].previous = "none" /\ r.parts[p].live = "current"
  <2>1. r.phase = "roll" /\ r.step = 4 /\ r.plan
    BY <1>b, <1>g, <1>h, <1>p, <1>t DEF Backup!GiveUp, PlanHolds, Restores
  <2>2. \A i \in 1..3 : r.parts[Backup!Returned[i]].previous = "none"
    BY <1>g, <1>h, <2>1 DEF PartsHold
  <2>3. \A p \in BackupParts : \E i \in 1..3 : p = Backup!Returned[i]
    BY DEF BackupParts, Backup!Returned
  <2> QED BY <1>h, <2>1, <2>2, <2>3 DEF PartsHold
<1>q. ASSUME ~r.stuck, r.phase = "roll", \A p \in BackupParts : r.parts[p].live = "current",
             record' = [record EXCEPT !.phase = "down", !.plan = FALSE, !.failed = TRUE,
                                     !.parts =
                         [p \in BackupParts |-> [r.parts[p] EXCEPT !.prepared = "none"]]]
      PROVE  BackupHolds' /\ PlanEnds
  <2> DEFINE parts == [p \in BackupParts |-> [r.parts[p] EXCEPT !.prepared = "none"]]
  <2>1. parts \in PartFiles
    BY <1>f, <1>t, <1>p, <1>q DEF Restores, PartFiles, Contents, BackupParts
  <2>2. \A p \in BackupParts :
          parts[p].previous = r.parts[p].previous /\ parts[p].live = r.parts[p].live
    BY <1>f, <1>t DEF Restores, PartFiles
  <2>3. record' = RestoreOf("down", r.step, parts, r.stuck, FALSE,
                        r.sound, r.told, r.held, r.worked,
                        r.applied, r.residual, TRUE, r.package)
    BY <1>e, <1>p, <1>q, <1>q DEF RestoreOf
  <2> HIDE DEF parts
  <2>4. /\ record'.phase = "down" /\ record'.step = r.step /\ record'.parts = parts
        /\ record'.stuck = r.stuck /\ record'.plan = FALSE /\ record'.told = r.told
        /\ record'.held = r.held /\ record'.worked = r.worked
    BY <2>3 DEF RestoreOf
  <2>5. record' \in Restores BY <1>t, <2>3, <2>1, <1>q DEF Restores, RestoreOf
  <2>6. PlanHolds(record') BY <1>b, <1>h, <2>4, <2>2, <1>q DEF PlanHolds, Whole
  <2>7. PartsHold(record') BY <1>b, <1>h, <2>4, <2>2, <1>q DEF PlanHolds, PartsHold, Whole
  <2>8. PlanEnds BY <1>b, <2>4, <2>2, <1>q DEF PlanEnds, Whole
  <2> QED BY <2>5, <2>6, <2>7, <2>8 DEF BackupHolds
<1>u. ASSUME r.stuck, r.phase = "roll", record' = [record EXCEPT !.phase = "down"]
      PROVE  BackupHolds' /\ PlanEnds
  <2>1. record' = RestoreOf("down", r.step, r.parts, r.stuck, r.plan,
                        r.sound, r.told, r.held, r.worked,
                        r.applied, r.residual, r.failed,
                        r.package)
    BY <1>e, <1>p, <1>u, <1>u DEF RestoreOf
  <2>2. /\ record'.phase = "down" /\ record'.step = r.step /\ record'.parts = r.parts
        /\ record'.stuck = r.stuck /\ record'.plan = r.plan /\ record'.told = r.told
        /\ record'.held = r.held /\ record'.worked = r.worked
    BY <2>1 DEF RestoreOf
  <2>3. record' \in Restores BY <1>t, <2>1, <1>u DEF Restores, RestoreOf
  <2>4. PlanHolds(record') BY <1>b, <1>h, <2>2, <1>u DEF PlanHolds, Whole
  <2>5. PartsHold(record') BY <1>b, <1>h, <2>2, <1>u DEF PlanHolds, PartsHold, Whole
  <2>6. PlanEnds BY <1>b, <2>2, <1>u DEF PlanEnds, Whole
  <2> QED BY <2>3, <2>4, <2>5, <2>6 DEF BackupHolds
<1>25. CASE Backup!GiveUp
  <2>1. CASE r.stuck BY <1>25, <1>u, <2>1 DEF Backup!GiveUp
  <2>2. CASE ~r.stuck BY <1>25, <1>g, <1>p, <1>q, <2>2 DEF Backup!GiveUp
  <2> QED BY <2>1, <2>2
<1>x. ASSUME NEW missing, r.phase = "down",
             record' = [record EXCEPT !.parts = Backup!Made(r.parts, missing)]
      PROVE  BackupHolds' /\ PlanEnds
  <2> DEFINE parts == Backup!Made(r.parts, missing)
  <2>1. parts \in PartFiles
    BY <1>f, <1>t, <1>p, <1>x DEF Restores, PartFiles, Contents, BackupParts, Backup!Made
  <2>2. \A p \in BackupParts : parts[p].previous = r.parts[p].previous
    BY <1>p, <1>t DEF Backup!Made, Restores, PartFiles
  <2>3. \A p \in BackupParts : r.parts[p].live = "current" => parts[p].live = "current"
    BY <1>p, <1>t DEF Backup!Made, Restores, PartFiles
  <2>4. \A p \in BackupParts : r.parts[p].live = "restored" => parts[p].live = "restored"
    BY <1>p, <1>t DEF Backup!Made, Restores, PartFiles
  <2>5. record' = RestoreOf(r.phase, r.step, parts, r.stuck, r.plan,
                        r.sound, r.told, r.held, r.worked,
                        r.applied, r.residual, r.failed,
                        r.package)
    BY <1>e, <1>p, <1>x, <1>x DEF RestoreOf
  <2> HIDE DEF parts
  <2>6. /\ record'.phase = r.phase /\ record'.step = r.step /\ record'.parts = parts
        /\ record'.stuck = r.stuck /\ record'.plan = r.plan /\ record'.told = r.told
        /\ record'.held = r.held /\ record'.worked = r.worked
    BY <2>5 DEF RestoreOf
  <2>7. record' \in Restores BY <1>t, <2>5, <2>1, <1>x DEF Restores, RestoreOf
  <2>8. PlanHolds(record') BY <1>b, <1>h, <2>6, <2>2, <2>3, <2>4, <1>x DEF PlanHolds, Whole
  <2>9. PartsHold(record')
    BY <1>b, <1>h, <2>6, <2>2, <2>3, <2>4, <1>x DEF PlanHolds, PartsHold, Whole
  <2>10. PlanEnds BY <1>b, <2>6, <2>2, <2>3, <2>4, <1>x DEF PlanEnds, Whole
  <2> QED BY <2>8, <2>9, <2>7, <2>10 DEF BackupHolds
<1>y. ASSUME r.phase = "down",
             record' = [record EXCEPT !.parts = [p \in BackupParts |-> Backup!Pair("current")],
                 !.plan = TRUE, !.sound = TRUE,
                                           !.told = "scheduled", !.held = FALSE, !.worked = FALSE]
      PROVE  BackupHolds' /\ PlanEnds
  <2> DEFINE parts == [p \in BackupParts |-> Backup!Pair("current")]
  <2>1. parts \in PartFiles
    BY <1>f, <1>t, <1>p, <1>y DEF Restores, PartFiles, Contents, BackupParts, Backup!Pair
  <2>2. \A p \in BackupParts : parts[p].live = "current" /\ parts[p].previous = "none"
    BY DEF Backup!Pair
  <2>3. record' = RestoreOf(r.phase, r.step, parts, r.stuck, TRUE, TRUE,
                        "scheduled", FALSE, FALSE, r.applied, r.residual,
                        r.failed, r.package)
    BY <1>e, <1>p, <1>y, <1>y DEF RestoreOf
  <2> HIDE DEF parts
  <2>4. /\ record'.phase = r.phase /\ record'.step = r.step /\ record'.parts = parts
        /\ record'.stuck = r.stuck /\ record'.plan = TRUE /\ record'.told = "scheduled"
        /\ record'.held = FALSE /\ record'.worked = FALSE
    BY <2>3 DEF RestoreOf
  <2>5. record' \in Restores BY <1>t, <2>3, <2>1, <1>y DEF Restores, RestoreOf
  <2>6. PlanHolds(record') BY <1>b, <1>h, <2>4, <2>2, <1>y DEF PlanHolds, Whole
  <2>7. PartsHold(record') BY <1>b, <1>h, <2>4, <2>2, <1>y DEF PlanHolds, PartsHold, Whole
  <2>8. PlanEnds BY <1>b, <2>4, <2>2, <1>y DEF PlanEnds, Whole
  <2> QED BY <2>5, <2>6, <2>7, <2>8 DEF BackupHolds
<1>26. CASE Backup!Choose
  <2> DEFINE made == [record EXCEPT !.parts = Backup!Made(r.parts, Backup!Parts)]
             Chosen == [record EXCEPT !.parts = [p \in BackupParts |-> Backup!Pair("current")],
                 !.plan = TRUE, !.sound = TRUE,
                          !.told = "scheduled", !.held = FALSE, !.worked = FALSE]
  <2>1. r.phase = "down" BY <1>26 DEF Backup!Choose
  <2>2. \/ record' = [record EXCEPT !.parts = Backup!Made(r.parts, {"database"})]
        \/ record' = made
        \/ record' = [Backup!Planned(made) EXCEPT !.held = FALSE]
    BY <1>26 DEF Backup!Choose
  <2>3. CASE record' = [record EXCEPT !.parts = Backup!Made(r.parts, {"database"})]
    BY <1>x, <2>1, <2>3
  <2>4. CASE record' = made BY <1>x, <2>1, <2>4
  <2>5. [Backup!Planned(made) EXCEPT !.held = FALSE] = Chosen
    BY <1>e, <1>p DEF Backup!Planned, Backup!Settled, RestoreOf
  <2>6. CASE record' = [Backup!Planned(made) EXCEPT !.held = FALSE]
    BY <1>y, <2>1, <2>5, <2>6
  <2> QED BY <2>2, <2>3, <2>4, <2>6
<1> QED
  BY <1>1, <1>2, <1>3, <1>4, <1>5, <1>6, <1>7, <1>8, <1>9, <1>10, <1>11, <1>12, <1>13, <1>14,
     <1>15, <1>16, <1>17, <1>18, <1>19, <1>20, <1>21, <1>22, <1>23, <1>24, <1>25, <1>26
  DEF Backup!Next

\* A service that is up works with all of the old data or all of the restored.
LEMMA BackupAnswers == ASSUME BackupHolds, Backup!Next PROVE Backup!Answers
<1>1. BackupHolds' BY BackupSteps
<1>2. Backup!Parts = BackupParts BY PartsAreKnown
<1>3. record'.phase = "up" => \E c \in {"current", "restored"} : Backup!Whole(record'.parts, c)
  BY <1>1, <1>2 DEF BackupHolds, PartsHold, Whole, Backup!Whole
<1>4. record'.plan => \A p \in Backup!Parts :
        "current" \in {record'.parts[p].live, record'.parts[p].previous}
  BY <1>1, <1>2 DEF BackupHolds, PartsHold, Restores, PartFiles
<1>5. record.plan /\ ~record'.plan /\ ~Backup!Commit => Backup!Whole(record'.parts, "current")
  BY <1>2, BackupSteps DEF PlanEnds, Whole, Backup!Whole
<1>6. Backup!Commit /\ record.worked => record.told = "refused"
  BY DEF BackupHolds, PlanHolds, Backup!Commit
<1> QED BY <1>3, <1>4, <1>5, <1>6 DEF Backup!Answers

----------------------------------------------------------------------------
(* The rows together.                                                         *)
\* The domains whose invariants are above.
Proved == {"money", "reminder", "task", "inbox", "focus", "client", "backup"}
RowHolds ==
  /\ domain = "money" => MoneyHolds
  /\ domain = "reminder" => ReminderHolds
  /\ domain = "task" => TaskHolds
  /\ domain = "inbox" => InboxHolds
  /\ domain = "focus" => FocusHolds
  /\ domain = "client" => ClientHolds
  /\ domain = "backup" => BackupHolds
\* What the screen says of a row that keeps its invariant: no answer was disbelieved, and
\* what was refused or turned down is known.
RecordsInv ==
  /\ RowHolds
  /\ domain \in Proved => ClientReadsEveryRow /\ OffersAreHonoured /\ AnswersAreBelieved

\* The reader of the domain takes a row that keeps the invariant of the domain.
LEMMA RowIsRead == RowHolds /\ domain \in Proved => RowReads \/ KnownUnread
  BY MoneyIsRead, ReminderIsRead, TaskIsRead, InboxIsRead, FocusIsRead, ClientIsRead,
     BackupIsRead
  DEF RowHolds, Proved, RowReads, KnownUnread

\* So it does after a step.
LEMMA NextRowIsRead == (RowHolds /\ domain \in Proved => RowReads \/ KnownUnread)'
  BY RowIsRead, PTL

\* The service takes a command that is offered upon a row that keeps the invariant.
LEMMA OfferIsTaken ==
  ASSUME RowHolds, domain \in Proved, NEW c \in Offered PROVE Taken(c) \/ KnownRefusal(c)
<1>1. CASE domain = "money" BY <1>1, MoneyIsOffered DEF RowHolds, Offered, Taken
<1>2. CASE domain = "reminder" BY <1>2, ReminderIsOffered DEF RowHolds, Offered, Taken
<1>3. CASE domain = "task"
  BY <1>3, TaskIsOffered DEF RowHolds, Offered, Taken, KnownRefusal
<1>4. CASE domain = "inbox"
  BY <1>4, InboxIsOffered DEF RowHolds, Offered, Taken, KnownRefusal
<1>5. CASE domain = "focus" BY <1>5, FocusIsOffered DEF RowHolds, Offered, Taken
<1>6. CASE domain = "client" BY <1>6, ClientIsOffered DEF RowHolds, Offered, Taken
<1>7. CASE domain = "backup"
  BY <1>7, BackupIsOffered DEF RowHolds, Offered, Taken, KnownRefusal
<1> QED BY <1>1, <1>2, <1>3, <1>4, <1>5, <1>6, <1>7 DEF Proved

\* A change of the row keeps the invariant of its domain, and its answer is believed.
LEMMA ChangeKeepsRow ==
  ASSUME RowHolds, domain \in Proved, domain' = domain, Changes PROVE RowHolds' /\ AnswerAgrees
<1>1. CASE domain = "money" BY <1>1, MoneySteps DEF RowHolds, Changes, AnswerAgrees
<1>2. CASE domain = "reminder" BY <1>2, ReminderSteps DEF RowHolds, Changes, AnswerAgrees
<1>3. CASE domain = "task" BY <1>3, TaskStays, TaskAnswers DEF RowHolds, Changes, AnswerAgrees
<1>4. CASE domain = "inbox" BY <1>4, InboxSteps DEF RowHolds, Changes, AnswerAgrees
<1>5. CASE domain = "focus" BY <1>5, FocusSteps DEF RowHolds, Changes, AnswerAgrees
<1>6. CASE domain = "client" BY <1>6, ClientSteps DEF RowHolds, Changes, AnswerAgrees
<1>7. CASE domain = "backup"
  BY <1>7, BackupSteps, BackupAnswers DEF RowHolds, Changes, AnswerAgrees
<1> QED BY <1>1, <1>2, <1>3, <1>4, <1>5, <1>6, <1>7 DEF Proved

\* The invariants are about the row and nothing else.
LEMMA SameRowHolds ==
  ASSUME RowHolds, UNCHANGED <<domain, record>> PROVE RowHolds'
<1>1. MoneyHolds => MoneyHolds' BY DEF MoneyHolds
<1>2. ReminderHolds => ReminderHolds' BY DEF ReminderHolds
<1>3. TaskHolds => TaskHolds' BY DEF TaskHolds
<1>4. InboxHolds => InboxHolds' BY DEF InboxHolds
<1>5. FocusHolds => FocusHolds' BY DEF FocusHolds, FocusTimed
<1>6. ClientHolds => ClientHolds' BY DEF ClientHolds
<1>7. BackupHolds => BackupHolds' BY DEF BackupHolds
<1> QED BY <1>1, <1>2, <1>3, <1>4, <1>5, <1>6, <1>7 DEF RowHolds

\* The invariant holds of a row as it begins.
LEMMA RecordsStart == RecordInit => RecordsInv
<1> SUFFICES ASSUME RecordInit PROVE RecordsInv OBVIOUS
<1>1. RowHolds
  BY MoneyStarts, ReminderStarts, TaskStarts, InboxStarts, FocusStarts, ClientStarts,
     BackupStarts
  DEF RecordInit, RowHolds
<1>2. domain \in Proved => RowReads \/ KnownUnread BY <1>1, RowIsRead
<1> QED
  BY <1>1, <1>2
  DEF RecordInit, RecordsInv, ClientReadsEveryRow, OffersAreHonoured, AnswersAreBelieved

\* Every step keeps it: a change of the row, and a button pressed upon it.
LEMMA RecordsStep == RecordsInv /\ [RecordNext]_recordVars => RecordsInv'
<1> SUFFICES ASSUME RecordsInv, [RecordNext]_recordVars, domain' \in Proved PROVE RecordsInv'
  BY DEF RecordsInv, RowHolds, Proved
<1>1. /\ domain' = domain /\ domain \in Proved /\ RowHolds
      /\ ClientReadsEveryRow /\ OffersAreHonoured /\ AnswersAreBelieved
  BY DEF RecordNext, recordVars, RecordsInv
<1>2. SUFFICES RowHolds' /\ ClientReadsEveryRow' /\ OffersAreHonoured' /\ AnswersAreBelieved'
  BY DEF RecordsInv
<1>3. CASE Moves
  <2>1. RowHolds' /\ AnswerAgrees BY <1>1, <1>3, ChangeKeepsRow DEF Moves
  <2>2. RowReads' \/ KnownUnread' BY <1>1, <2>1, NextRowIsRead
  <2> QED
    BY <1>3, <2>1, <2>2 DEF Moves, ClientReadsEveryRow, OffersAreHonoured, AnswersAreBelieved
<1>4. CASE Press
  <2>1. screen' \in {"shown", "known_refusal"} BY <1>1, <1>4, OfferIsTaken DEF Press
  <2>2. RowHolds' BY <1>1, <1>4, SameRowHolds DEF Press
  <2> QED BY <2>1, <2>2 DEF ClientReadsEveryRow, OffersAreHonoured, AnswersAreBelieved
<1>5. CASE UNCHANGED recordVars
  <2>1. RowHolds' BY <1>1, <1>5, SameRowHolds DEF recordVars
  <2>2. KnownUnread => KnownUnread'
    BY <1>1, <1>5 DEF recordVars, Proved, KnownUnread, Item!Redated, Item!Due
  <2> QED
    BY <1>1, <1>5, <2>1, <2>2
    DEF recordVars, ClientReadsEveryRow, OffersAreHonoured, AnswersAreBelieved
<1> QED BY <1>3, <1>4, <1>5 DEF RecordNext

\* The invariants of the seven domains hold whatever a row has been through, and nothing on
\* the screen was disbelieved, or refused or turned down but for what is known.
THEOREM RecordsAreInvariant == RecordSpec => []RecordsInv
  BY RecordsStart, RecordsStep, PTL DEF RecordSpec

\* Whatever commands a row of these domains has been through, the strict reader of the
\* client takes it (normalizeInvoice, parseReminder and the readers beside them), but for
\* an inbox item whose due time the person has edited.
THEOREM RowsAreRead == RecordSpec => [](domain \in Proved => ClientReadsEveryRow)
<1>1. RecordsInv => (domain \in Proved => ClientReadsEveryRow)
  BY DEF RecordsInv
<1> QED BY <1>1, RecordsAreInvariant, PTL

\* Every button these pages enable upon an up-to-date row is a command the service takes,
\* but for the three that only the service can judge: an inbox item whose policy waits
\* for its tasks is not resolved, an artifact that is needed is not deleted, a damaged
\* package is not read.
THEOREM OffersAreTaken == RecordSpec => [](domain \in Proved => OffersAreHonoured)
<1>1. RecordsInv => (domain \in Proved => OffersAreHonoured)
  BY DEF RecordsInv
<1> QED BY <1>1, RecordsAreInvariant, PTL

\* Every answer is what the client demands of it: a submission and its verdict, the clock
\* of a session, and the parts of a restore, which are never a mixture of old and new.
THEOREM AnswersHold == RecordSpec => [](domain \in Proved => AnswersAreBelieved)
<1>1. RecordsInv => (domain \in Proved => AnswersAreBelieved)
  BY DEF RecordsInv
<1> QED BY <1>1, RecordsAreInvariant, PTL
=============================================================================
