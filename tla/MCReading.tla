----------------------------- MODULE MCReading -----------------------------
(* The reads of the web client for TLC: one record in the cache and the        *)
(* command that changes it, or one list, or one row of a domain under its      *)
(* commands. The three share no state; what is not looked at stays as it began. *)
EXTENDS Refreshing, Listing, Records

VARIABLE looksAt
allVars == <<looksAt, vars, listVars, recordVars>>

First == <<2, 1>>
Months == <<3, 2, 3>>
AnyRole == CHOOSE r \in Roles : TRUE

ReadingInit ==
  /\ Init /\ ListInit
  /\ \/ looksAt = "cache" /\ view = TasksView /\ domain = "money" /\ RecordInit
     \/ looksAt = "list" /\ role = AnyRole /\ domain = "money" /\ RecordInit
     \/ looksAt = "row" /\ role = AnyRole /\ view = TasksView /\ RecordInit
ReadingNext ==
  /\ UNCHANGED looksAt
  /\ \/ looksAt = "cache" /\ Next /\ UNCHANGED <<listVars, recordVars>>
     \/ looksAt = "list" /\ ListNext /\ UNCHANGED <<vars, recordVars>>
     \/ looksAt = "row" /\ RecordNext /\ UNCHANGED <<vars, listVars>>
\* No fair step is enabled in the parts that stay as they began.
ReadingSpec == ReadingInit /\ [][ReadingNext]_allVars /\ Fairness /\ ListFairness

\* What the client refuses of the service's answers is an answer that was put
\* together while the rows changed; of what legal commands made of a row it refuses
\* nothing but the two kinds that Records names (KnownUnread): inbox items whose due
\* time was edited, and three sorts of proposals.
AnswersAreTaken == OnlyTornAnswersAreRefused /\ ClientReadsEveryRow
=============================================================================
