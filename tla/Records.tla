------------------------------ MODULE Records ------------------------------
(* One row of one domain at a time, under the commands the service takes for  *)
(* it: what the web client believes of the row, and what it offers to do.     *)
EXTENDS Naturals, Sequences

CONSTANTS LastDay,        \* the last day of the invoices' calendar
          MonthLengths,   \* the days of each month of the reminders' calendar
          LastSecond,     \* the last reading of the clock of a Focus session
          PlannedSeconds, \* the seconds a Focus session is planned to last
          MinuteLength    \* the seconds that make a minute there
ASSUME CalendarAssumption ==
  /\ LastDay \in Nat
  /\ MonthLengths \in Seq(1..31) /\ MonthLengths # <<>>
  /\ {LastSecond, PlannedSeconds, MinuteLength} \subseteq Nat \ {0}

VARIABLES domain, record,
          screen   \* what the client has made of the row as it is
recordVars == <<domain, record, screen>>

Money == INSTANCE MoneyRecords
Reminder == INSTANCE ReminderRecords
Task == INSTANCE TaskRecords
Proposal == INSTANCE ProposalRecords
Item == INSTANCE InboxRecords
Focus == INSTANCE FocusRecords
Plan == INSTANCE PlanRecords
Backup == INSTANCE BackupRecords
Import == INSTANCE ImportRecords
Customer == INSTANCE ClientRecords

\* The strict reader of the domain takes the row.
RowReads ==
  CASE domain = "money" -> Money!Reads
    [] domain = "reminder" -> Reminder!Reads
    [] domain = "task" -> Task!Reads
    [] domain = "proposal" -> Proposal!Reads
    [] domain = "inbox" -> Item!Reads
    [] domain = "focus" -> Focus!Reads
    [] domain = "plan" -> Plan!Reads
    [] domain = "backup" -> Backup!Reads
    [] domain = "import" -> Import!Reads
    [] domain = "client" -> Customer!Reads
\* A button that is enabled upon the row, and whether the service takes its command.
Offered ==
  CASE domain = "money" -> Money!Offers
    [] domain = "reminder" -> Reminder!Offers
    [] domain = "task" -> Task!Offers
    [] domain = "proposal" -> Proposal!Offers
    [] domain = "inbox" -> Item!Offers
    [] domain = "focus" -> Focus!Offers
    [] domain = "plan" -> Plan!Offers
    [] domain = "backup" -> Backup!Offers
    [] domain = "import" -> Import!Offers
    [] domain = "client" -> Customer!Offers
Taken(c) ==
  CASE domain = "money" -> Money!Accepts(c)
    [] domain = "reminder" -> Reminder!Accepts(c)
    [] domain = "task" -> Task!Accepts(c)
    [] domain = "proposal" -> Proposal!Accepts(c)
    [] domain = "inbox" -> Item!Accepts(c)
    [] domain = "focus" -> Focus!Accepts(c)
    [] domain = "plan" -> Plan!Accepts(c)
    [] domain = "backup" -> Backup!Accepts(c)
    [] domain = "import" -> Import!Accepts(c)
    [] domain = "client" -> Customer!Accepts(c)
\* What the reader is known to refuse: an inbox item whose due time the person edited,
\* a proposal that was written as the reader of proposals does not take it.
KnownUnread ==
  \/ domain = "inbox" /\ Item!Redated
  \/ domain = "proposal" /\ Proposal!Refused(record)
\* What the service is known to refuse, though the button is enabled.
KnownRefusal(c) ==
  \/ domain = "inbox" /\ Item!PolicyRefuses(c)
  \/ domain = "task" /\ Task!StillNeeded(c)
  \/ domain = "backup" /\ Backup!FindsDamage(c)
\* The client holds the answer to a command against what it sent and what it showed.
AnswerAgrees ==
  record' # record =>
    /\ domain = "task" => Task!Answers
    /\ domain = "proposal" => Proposal!Answers
    /\ domain = "focus" => Focus!Answers
    /\ domain = "plan" => Plan!Answers
    /\ domain = "backup" => Backup!Answers
    /\ domain = "import" => Import!Answers

Changes ==
  \/ domain = "money" /\ Money!Next
  \/ domain = "reminder" /\ Reminder!Next
  \/ domain = "task" /\ Task!Next
  \/ domain = "proposal" /\ Proposal!Next
  \/ domain = "inbox" /\ Item!Next
  \/ domain = "focus" /\ Focus!Next
  \/ domain = "plan" /\ Plan!Next
  \/ domain = "backup" /\ Backup!Next
  \/ domain = "import" /\ Import!Next
  \/ domain = "client" /\ Customer!Next

RecordInit ==
  /\ \/ domain = "money" /\ Money!Init
     \/ domain = "reminder" /\ Reminder!Init
     \/ domain = "task" /\ Task!Init
     \/ domain = "proposal" /\ Proposal!Init
     \/ domain = "inbox" /\ Item!Init
     \/ domain = "focus" /\ Focus!Init
     \/ domain = "plan" /\ Plan!Init
     \/ domain = "backup" /\ Backup!Init
     \/ domain = "import" /\ Import!Init
     \/ domain = "client" /\ Customer!Init
  /\ screen = IF RowReads THEN "shown" ELSE "refused"
\* The row changes, by a command of this client or behind its back, and the client
\* takes the answer, if it sent the command, and reads the row again.
Moves ==
  /\ Changes
  /\ screen' = IF ~AnswerAgrees THEN "disbelieved" ELSE IF RowReads' THEN "shown" ELSE "refused"
\* A button is pressed upon the row as it is.
Press ==
  /\ screen = "shown"
  /\ \E c \in Offered :
       screen' = IF Taken(c) THEN "shown" ELSE IF KnownRefusal(c) THEN "known_refusal" ELSE "turned_down"
  /\ UNCHANGED record
RecordNext == UNCHANGED domain /\ (Moves \/ Press)
RecordSpec == RecordInit /\ [][RecordNext]_recordVars

----------------------------------------------------------------------------
\* Whatever legal commands a row has been through, in whatever order, the strict
\* reader of the client takes it; a row it refused would take the whole list that
\* holds it off the screen, and the person could not even repair it. It is not so of two
\* kinds of row: some inbox items with a due time that was edited (EditedItemsAreRead),
\* and three proposals, of a person's name kept with its blanks, of a text short enough
\* to be shown whole, and of a milestone with a title of one letter.
ClientReadsEveryRow == screen = "refused" => KnownUnread


\* A button the client enables upon an up-to-date row is a command the service
\* takes: the conditions are written twice, in TypeScript over what the row shows
\* and in Go over the tables, and need not say the same. Three are refused that only
\* the service can judge (KnownRefusal): resolving an inbox item whose policy waits for its tasks,
\* deleting an artifact that an active Agent Run or an active inbox item needs, and
\* reading a backup package whose damage its list entry does not show.
OffersAreHonoured == screen # "turned_down"

\* What the client demands of the answer to a command holds of what the service
\* did: a command that took effect is never shown as one that failed. What a confirmed
\* proposal does is what its card showed, with every consent its card asked for.
AnswersAreBelieved == screen # "disbelieved"

\* A confirmed proposal can be listed whatever becomes of what it made: its receipt
\* outlives the run or the conversation it is about, as that of a run does when the
\* task is deleted with it (ai_agent_run_actions.go, readAIAgentRunResult).
EveryReceiptIsServed ==
  domain = "proposal" /\ record.stage = "card" /\ record.status = "confirmed" =>
    Proposal!Served(record)
=============================================================================
