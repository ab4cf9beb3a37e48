------------------------------ MODULE Listing ------------------------------
(* One list of the web client, read page by page while others add and remove *)
(* rows of it. What React Query keeps of a page that is left is not modelled: *)
(* a page that is turned to is read, and the one before stands in for it.     *)
EXTENDS Integers, SequencesExt, FiniteSets

(* The lists the web client reads from the service: how each answer is taken, *)
(* how strictly it is checked, and how the views page, grow or walk them.      *)

\* check: a page must have exactly the rows its total leaves for it ("exact"), at
\* most those ("within"), at most a page and the total ("fitting"), or any rows.
\* whole: the service counts and reads in one transaction.
\* cursor: a page begins after the last row read, not at an offset.
Answer(check) == [check |-> check, whole |-> TRUE, cursor |-> FALSE]
Torn(answer) == [answer EXCEPT !.whole = FALSE]

TaskPage == Answer("exact")
ActorPage == Answer("exact")
ClientActorLinkPage == Answer("exact")
TaskRunFilePage == Answer("exact")
ProjectArtifactPage == Answer("within")
TaskEventPage == Answer("fitting")
TaskSubmissionPage == Answer("fitting")
TaskArtifactPage == Answer("fitting")
TaskAssignmentPage == Answer("fitting")
InboxItemPage == Answer("fitting")
InboxItemTaskPage == Answer("fitting")
ProjectEventPage == Answer("fitting")
ProjectNotePage == Answer("fitting")
AutomationRunPage == Answer("fitting")
EvaluationReviewPage == Answer("fitting")
AgentInboxPage == Answer("fitting")
ReminderPage == Torn(Answer("fitting"))
SearchPage == Torn(Answer("fitting"))
ClientPage == Answer("any")
ClientActivityPage == Answer("any")
ClientFollowupPage == Answer("any")
ClientAttachmentPage == Answer("any")
ProjectPage == Answer("any")
ProjectAttachmentPage == Answer("any")
ContentItemPage == Answer("any")
RoadmapPage == Answer("any")
FinancialEntryPage == Answer("any")
InvoicePage == Answer("any")
FocusSessionPage == Answer("any")
InboxEventPage == Answer("any")
AgentRunPage == Answer("any")
EvaluationPage == Answer("any")
TagPage == Torn(Answer("any"))
KnowledgePage == Torn(Answer("any"))
MessagePage == [Answer("any") EXCEPT !.cursor = TRUE]

----------------------------------------------------------------------------
\* How a view reads.
\* mode: one page at a time ("paged"); page after page on demand ("grown"); all
\* pages in a row, refusing a total that changes or a row that comes back
\* ("steady"), or taking whatever comes ("loose").
\* settles: a page past the end is left for the last one.
\* blocks: but not while something else is going on (closed, reordering...).
\* picker: typed text is sent after a pause, and results are locked meanwhile.
View(answer, mode) ==
  [answer |-> answer, mode |-> mode, settles |-> FALSE, blocks |-> FALSE, picker |-> FALSE]
Paged(answer) == [View(answer, "paged") EXCEPT !.settles = TRUE]
Blocking(view) == [view EXCEPT !.blocks = TRUE]
Picker(answer) == [Blocking(Paged(answer)) EXCEPT !.picker = TRUE]
Grown(answer) == View(answer, "grown")

TasksView == Blocking(Paged(TaskPage))
RiskTasksView == Blocking(Paged(TaskPage))
ProjectTasksView == Paged(TaskPage)
ChildTasksView == Blocking(Paged(TaskPage))
CandidateTasksView == Blocking(Paged(TaskPage))
RemindersView == Paged(ReminderPage)
ProjectsView == Paged(ProjectPage)
ClientProjectsView == Blocking(Paged(ProjectPage))
ProjectNotesView == Paged(ProjectNotePage)
ProjectAttachmentsView == Paged(ProjectAttachmentPage)
ProjectArtifactsView == Paged(ProjectArtifactPage)
ClientsView == Paged(ClientPage)
ClientActivitiesView == Paged(ClientActivityPage)
ClientFollowupsView == Paged(ClientFollowupPage)
ClientAttachmentsView == Paged(ClientAttachmentPage)
InboxView == Paged(InboxItemPage)
IncomeView == Paged(FinancialEntryPage)
InvoicesView == Paged(InvoicePage)
RoadmapView == Blocking(Paged(RoadmapPage))
FocusHistoryView == Paged(FocusSessionPage)
TaskFocusHistoryView == Blocking(Paged(FocusSessionPage))
ProjectFocusHistoryView == Paged(FocusSessionPage)
AutomationRunsView == Paged(AutomationRunPage)
ActorsView == Blocking(Paged(ActorPage))
TaskSelectView == Picker(TaskPage)
ProjectSelectView == Picker(ProjectPage)
ClientSelectView == Picker(ClientPage)
\* Pages that nothing brings back.
WorkspaceRunsView == View(AgentRunPage, "paged")
KnowledgeAccessView == View(KnowledgePage, "paged")

TaskEventsView == Grown(TaskEventPage)
TaskSubmissionsView == Grown(TaskSubmissionPage)
TaskArtifactsView == Grown(TaskArtifactPage)
TaskAssignmentsView == Grown(TaskAssignmentPage)
InboxItemTasksView == Grown(InboxItemTaskPage)
InboxEventsView == Grown(InboxEventPage)
ProjectEventsView == Grown(ProjectEventPage)
ContentCalendarView == Grown(ContentItemPage)
MessagesView == Grown(MessagePage)
AgentInboxView == Grown(AgentInboxPage)
WorkspaceOverviewView == Grown(AgentInboxPage)

AllTasks == View(TaskPage, "steady")
AllActors == View(ActorPage, "steady")
AllTags == View(TagPage, "loose")

----------------------------------------------------------------------------
CONSTANTS
  RowIds,       \* rows there can be
  FirstRows,    \* the rows there are at first, in order
  PageSize,
  MaxListEdits  \* changes of the list by others
\* Rows are numbered as they are created.
NewestFirst(list) == \A i, j \in DOMAIN list : i < j => list[i] > list[j]
ASSUME ListingAssumption ==
  /\ RowIds \subseteq Nat /\ PageSize \in Nat \ {0} /\ MaxListEdits \in Nat
  /\ FirstRows \in Seq(RowIds) /\ NewestFirst(FirstRows)

Views ==
  {TasksView, RiskTasksView, ProjectTasksView, ChildTasksView, CandidateTasksView, RemindersView,
   ProjectsView, ClientProjectsView, ProjectNotesView, ProjectAttachmentsView,
   ProjectArtifactsView, ClientsView, ClientActivitiesView, ClientFollowupsView,
   ClientAttachmentsView, InboxView, IncomeView, InvoicesView, RoadmapView, FocusHistoryView,
   TaskFocusHistoryView, ProjectFocusHistoryView, AutomationRunsView, ActorsView, TaskSelectView,
   ProjectSelectView, ClientSelectView, WorkspaceRunsView, KnowledgeAccessView, TaskEventsView,
   TaskSubmissionsView, TaskArtifactsView, TaskAssignmentsView, InboxItemTasksView,
   InboxEventsView, ProjectEventsView, ContentCalendarView, MessagesView, AgentInboxView,
   WorkspaceOverviewView, AllTasks, AllActors, AllTags}

VARIABLES view, rows, edits, page, typed, text, blocked, shown, fetch, refused
listVars == <<view, rows, edits, page, typed, text, blocked, shown, fetch, refused>>

\* What became of the list since page one was asked for.
Fresh(R) == [stayed |-> R, gone |-> FALSE, came |-> FALSE]
NoFetch == [phase |-> "none", key |-> <<0, 1>>, got |-> <<>>, all |-> <<>>, total |-> 0,
            upTo |-> 0, since |-> [stayed |-> {}, gone |-> FALSE, came |-> FALSE], edited |-> FALSE, torn |-> FALSE]
NothingShown == [key |-> <<0, 0>>, pages |-> <<>>, all |-> <<>>, since |-> NoFetch.since]

ListInit ==
  /\ view \in Views
  /\ rows = FirstRows /\ edits = 0
  /\ page = 1 /\ typed = 0 /\ text = 0 /\ blocked = FALSE
  /\ shown = NothingShown /\ fetch = NoFetch /\ refused = "no"

----------------------------------------------------------------------------
\* What is shown: its pages, and all their rows one after the other.
Shows == shown.pages # <<>>
Latest(pages) == pages[Len(pages)]
LastPage_OneMore(total) == total \div PageSize + 1
LastPage(total) == IF total = 0 THEN 1 ELSE (total + PageSize - 1) \div PageSize
More(pages) == pages # <<>> /\ Latest(pages).more
Reading == fetch.phase # "none"

\* The rows that answer a text: any of them, or every other one.
Matching ==
  LET Answering[n \in 0..Len(rows)] ==
        IF n = 0 THEN <<>>
        ELSE IF rows[n] % 2 = 1 THEN Append(Answering[n - 1], rows[n])
        ELSE Answering[n - 1]
  IN IF text = 0 THEN rows ELSE Answering[Len(rows)]
Skipping(n, list) ==
  IF n * PageSize >= Len(list) THEN <<>> ELSE SubSeq(list, n * PageSize + 1, Len(list))
\* A list read by a cursor is in order of creation, the newest row first.
OlderThan(r, list) ==
  LET newer == CHOOSE n \in 0..Len(list) : \A i \in DOMAIN list : list[i] < r <=> i > n
  IN SubSeq(list, newer + 1, Len(list))
After(got, all) ==
  IF view.answer.cursor THEN IF all = <<>> THEN Matching ELSE OlderThan(Last(all), Matching)
  ELSE Skipping(Len(got), Matching)
Wanted ==
  IF view.mode = "paged" THEN Skipping(page - 1, Matching) ELSE After(fetch.got, fetch.all)
FirstPage(list) == IF Len(list) <= PageSize THEN list ELSE SubSeq(list, 1, PageSize)
ReadRows == FirstPage(Wanted)

----------------------------------------------------------------------------
\* The key of a paged list is its text and its page.
Key(t, p) == <<t, IF view.mode = "paged" THEN p ELSE 1>>

\* The rest of the world, or a command of this client, whose hook has a list that
\* is shown read again.
Edited(span, id, comes) ==
  [span EXCEPT !.stayed = @ \ {id}, !.gone = @ \/ ~comes, !.came = @ \/ comes]
\* Reading again: all pages read so far, or the one shown.
FetchOf(key, got, all, upTo, span) ==
  [NoFetch EXCEPT !.phase = "asked", !.key = key, !.got = got, !.all = all, !.upTo = upTo,
                  !.since = span]
PagesShown(key) == IF view.mode = "grown" /\ shown.key = key THEN Len(shown.pages) ELSE 1
FetchAgain(R) == FetchOf(Key(text, page), <<>>, <<>>, PagesShown(Key(text, page)), Fresh(R))
EditList(new, id, comes) ==
  /\ edits < MaxListEdits
  /\ rows' = new /\ edits' = edits + 1
  /\ \/ fetch' = IF ~Reading THEN fetch
                 ELSE [fetch EXCEPT !.since = Edited(@, id, comes), !.edited = TRUE,
                                    !.torn = @ \/ fetch.phase = "counted"]
     \/ Shows /\ fetch' = FetchAgain(ToSet(new))
  /\ shown' = IF ~Shows THEN shown ELSE [shown EXCEPT !.since = Edited(@, id, comes)]
  /\ UNCHANGED <<view, page, typed, text, blocked, refused>>
AddRow ==
  \E id \in RowIds \ ToSet(rows), at \in 1..(Len(rows) + 1) :
    /\ view.answer.cursor => at = 1 /\ \A r \in ToSet(rows) : r < id
    /\ EditList(InsertAt(rows, at, id), id, TRUE)
RemoveRow == \E at \in DOMAIN rows : EditList(RemoveAt(rows, at), rows[at], FALSE)

----------------------------------------------------------------------------
\* The view asks.
Open ==
  /\ ~Reading /\ ~Shows /\ (view.picker => ~blocked)
  /\ fetch' = FetchAgain(ToSet(rows)) /\ refused' = "no"
  /\ UNCHANGED <<view, rows, edits, page, typed, text, blocked, shown>>
\* A poll, or a command about something else; neither interrupts a read.
Reread ==
  /\ Shows /\ ~Reading
  /\ fetch' = FetchAgain(ToSet(rows)) /\ refused' = "no"
  /\ UNCHANGED <<view, rows, edits, page, typed, text, blocked, shown>>
GoTo(t, p) ==
  /\ page' = p /\ text' = t /\ refused' = "no"
  /\ fetch' = FetchOf(Key(t, p), <<>>, <<>>, 1, Fresh(ToSet(rows)))
  /\ UNCHANGED <<view, rows, edits, blocked, shown>>
Turn ==
  /\ view.mode = "paged" /\ ~Reading /\ refused = "no" /\ Shows
  /\ view.picker => ~blocked /\ typed = text
  /\ \E p \in 1..LastPage(Latest(shown.pages).total) : p # page /\ GoTo(text, p) /\ UNCHANGED typed
Type ==
  /\ view.picker /\ ~blocked
  /\ typed' = 1 - typed
  /\ UNCHANGED <<view, rows, edits, page, text, blocked, shown, fetch, refused>>
Debounce ==
  /\ view.picker /\ ~blocked /\ typed # text
  /\ GoTo(typed, 1) /\ UNCHANGED typed
\* A picker that closes forgets what it was at; any other view just does something else.
Close ==
  /\ blocked' = TRUE /\ page' = 1 /\ typed' = 0 /\ text' = 0 /\ refused' = "no"
  /\ shown' = NothingShown /\ fetch' = NoFetch
Block ==
  /\ view.blocks
  /\ IF view.picker /\ ~blocked THEN Close
     ELSE blocked' = ~blocked /\ UNCHANGED <<page, typed, text, refused, shown, fetch>>
  /\ UNCHANGED <<view, rows, edits>>
LoadMore ==
  /\ view.mode = "grown" /\ ~Reading /\ More(shown.pages)
  /\ fetch' = FetchOf(shown.key, shown.pages, shown.all, Len(shown.pages) + 1, shown.since)
  /\ refused' = "no"
  /\ UNCHANGED <<view, rows, edits, page, typed, text, blocked, shown>>
\* useSettledPage: only on an answer for this very page.
OnItsAnswer == refused = "no" /\ ~Reading /\ shown.key = Key(text, page)
SettlePage ==
  /\ view.settles /\ ~blocked /\ OnItsAnswer
  /\ page > LastPage(Latest(shown.pages).total)
  /\ GoTo(text, LastPage(Latest(shown.pages).total)) /\ UNCHANGED typed

----------------------------------------------------------------------------
\* The service answers, in one transaction or counting first.
Count ==
  /\ fetch.phase = "asked" /\ ~view.answer.whole
  /\ fetch' = [fetch EXCEPT !.phase = "counted", !.total = Len(Matching)]
  /\ UNCHANGED <<view, rows, edits, page, typed, text, blocked, shown, refused>>
AnswerOf(total) ==
  [total |-> total, items |-> ReadRows,
   more |-> IF view.answer.cursor THEN Len(Wanted) > PageSize
            ELSE (Len(fetch.got) + 1) * PageSize < total]
Read ==
  /\ fetch.phase = IF view.answer.whole THEN "asked" ELSE "counted"
  /\ fetch' = [fetch EXCEPT !.phase = "read",
                            !.got = Append(@, AnswerOf(IF view.answer.whole THEN Len(Matching)
                                                       ELSE fetch.total)),
                            !.all = @ \o ReadRows]
  /\ UNCHANGED <<view, rows, edits, page, typed, text, blocked, shown, refused>>

\* The reader of the client.
PageRead == IF view.mode = "paged" THEN page ELSE Len(fetch.got)
LeftFor(total, p) ==
  LET left == total - (p - 1) * PageSize
  IN IF left < 0 THEN 0 ELSE IF left > PageSize THEN PageSize ELSE left
Takes(a) ==
  CASE view.answer.check = "exact" -> Len(a.items) = LeftFor(a.total, PageRead)
    [] view.answer.check = "within" -> Len(a.items) <= LeftFor(a.total, PageRead)
    [] view.answer.check = "fitting" -> Len(a.items) <= PageSize /\ Len(a.items) <= a.total
    [] OTHER -> TRUE
Alike(got) == \A i \in DOMAIN got : got[i].total = got[1].total
Steady_TotalsOnly(got, all) == Alike(got)
Steady(got, all) == Alike(got) /\ Len(all) = Cardinality(ToSet(all))
\* What is left to read: a refetch reads as many pages as there were, a walk
\* goes on until it has the total, or for the loose one an empty page.
Unfinished(got, all) ==
  CASE view.mode = "paged" -> FALSE
    [] view.mode = "grown" -> Len(got) < fetch.upTo /\ More(got)
    [] view.mode = "steady" -> Len(all) # got[1].total
    [] OTHER -> Len(all) < Latest(got).total /\ Latest(got).items # <<>>

RefuseAnswer ==
  /\ refused' = IF fetch.torn THEN "torn"
                ELSE IF view.mode = "steady" /\ fetch.edited THEN "moved" ELSE "whole"
  /\ fetch' = NoFetch
  /\ shown' = IF shown.key = fetch.key THEN shown ELSE NothingShown
Arrive ==
  /\ fetch.phase = "read"
  /\ IF ~Takes(Latest(fetch.got)) \/ (view.mode = "steady" /\ ~Steady(fetch.got, fetch.all))
     THEN RefuseAnswer
     ELSE IF Unfinished(fetch.got, fetch.all)
       THEN fetch' = [fetch EXCEPT !.phase = "asked"] /\ UNCHANGED <<shown, refused>>
       ELSE /\ shown' = [key |-> fetch.key, pages |-> fetch.got, all |-> fetch.all,
                       since |-> fetch.since]
            /\ fetch' = NoFetch /\ refused' = "no"
  /\ UNCHANGED <<view, rows, edits, page, typed, text, blocked>>
\* The request is lost; its retries with it.
LoseRead ==
  /\ Reading
  /\ refused' = "lost" /\ fetch' = NoFetch
  /\ shown' = IF shown.key = fetch.key THEN shown ELSE NothingShown
  /\ UNCHANGED <<view, rows, edits, page, typed, text, blocked>>

ListNext ==
  \/ AddRow \/ RemoveRow \/ Open \/ Reread \/ Turn \/ Type \/ Debounce \/ Block \/ LoadMore
  \/ SettlePage  \/ Count \/ Read \/ Arrive \/ LoseRead
ListSpec == ListInit /\ [][ListNext]_listVars
\* Reads are answered. An effect runs after the render of every answer, so polls
\* cannot keep it away.
ListFairness == WF_listVars(Read \/ Count) /\ WF_listVars(Arrive) /\ SF_listVars(SettlePage)
LiveListSpec == ListSpec /\ ListFairness

----------------------------------------------------------------------------
\* Read to its end, a list shows every row that was there all the time, and the
\* walk of all tasks and actors shows it once. What hides a row is named: a
\* removal while an offset list grows; for a walk that sees the same total again,
\* a removal and an addition; for the tags, which are counted and read apart, any
\* change. Messages are read by a cursor and have no exception.
ReadToTheEnd == Shows /\ view.mode # "paged" /\ ~(view.mode = "grown" /\ More(shown.pages))
MayHide ==
  CASE view.answer.cursor -> FALSE
    [] view.mode = "grown" -> shown.since.gone
    [] view.mode = "steady" -> shown.since.gone /\ shown.since.came
    [] OTHER -> shown.since.gone \/ shown.since.came
ReadToTheEndIsWhole ==
  /\ ReadToTheEnd => shown.since.stayed \subseteq ToSet(shown.all) \/ MayHide
  /\ ReadToTheEnd /\ view.mode = "steady" => Cardinality(ToSet(shown.all)) = Len(shown.all)

\* A reader refuses an answer of the service only if the list changed while it was
\* being read in parts: between the pages of a walk, or between the count and the
\* rows of the reminders, which the service does not read in one transaction.
OnlyTornAnswersAreRefused ==
  /\ refused # "whole"
  /\ refused = "torn" => view = RemindersView
  /\ refused = "moved" => view \in {AllTasks, AllActors}

\* A page that turns out to lie past the end is not where the user is left: the
\* view comes back to a page with rows or to the first, unless a read fails or the
\* view is busy with something else.
Stranded == OnItsAnswer /\ Shows /\ page > 1 /\ Latest(shown.pages).items = <<>>
PageComesBack ==
  (view.settles /\ view.answer.whole /\ Stranded) ~>
    (page = 1 \/ (OnItsAnswer /\ ~Stranded) \/ refused # "no" \/ blocked)
=============================================================================
