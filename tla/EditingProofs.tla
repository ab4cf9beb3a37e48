---------------------------- MODULE EditingProofs ----------------------------
(* Proofs about Editing for every set of forms with the traits of the table,  *)
(* any number of writes by others and any number of keys; and about Launching *)
(* for any number of edits of what a start rests on.                          *)
EXTENDS Editing, Launching, Integers, TLAPS

Asks == {"none", "reading", "retrying", "unread", "choice"}
PageStates ==
  [open : BOOLEAN, typed : Inputs \cup {Untouched}, base : Versions, seen : Versions,
   raised : BOOLEAN, refused : Versions, ask : Asks, latest : Versions]

\* A form that is opened shows, and would replace, the version it is opened on.
LEMMA OpenedForm ==
  ASSUME NEW v \in Versions
  PROVE  /\ Opened(v) \in PageStates /\ Closed \in PageStates
         /\ Opened(v).base = v /\ Opened(v).seen = v /\ Opened(v).open
         /\ Opened(v).typed = Untouched /\ Opened(v).ask = "none"
<1>1. None \in Versions /\ Untouched \in Inputs \cup {Untouched} /\ "none" \in Asks
  BY EditingAssumption DEF Versions, None, Asks
<1>2. Closed \in PageStates
  BY <1>1 DEF Closed, PageStates
<1>3. Opened(v) \in PageStates
  BY <1>1, <1>2 DEF Opened, PageStates
<1>4. Closed.typed = Untouched /\ Closed.ask = "none"
  BY DEF Closed
<1>5. Opened(v).base = v /\ Opened(v).seen = v /\ Opened(v).open = TRUE
  BY <1>2 DEF Opened, PageStates
<1>6. Opened(v).typed = Untouched /\ Opened(v).ask = "none"
  BY <1>2, <1>4 DEF Opened, PageStates
<1> QED BY <1>2, <1>3, <1>5, <1>6

\* What reads, choices and other sections write into an open form is again a form.
LEMMA AskedForm ==
  ASSUME NEW p \in PageStates, NEW v \in Versions, NEW a \in Asks
  PROVE  [p EXCEPT !.ask = a] \in PageStates /\ [p EXCEPT !.ask = a, !.latest = v] \in PageStates
BY DEF PageStates

LEMMA RewrittenForm ==
  ASSUME NEW p \in PageStates, NEW v \in Versions
  PROVE  /\ Rehydrated(p, v) \in PageStates /\ Rebased(p, v) \in PageStates
         /\ Rebased(p, v).base = v /\ Rebased(p, v).seen = v /\ Rebased(p, v).open = p.open
         /\ Rebased(p, v).typed = p.typed /\ Rebased(p, v).latest = p.latest
         /\ Rebased(p, v).ask = p.ask
<1>1. Untouched \in Inputs \cup {Untouched}
  OBVIOUS
<1>2. Rehydrated(p, v) \in PageStates
  BY <1>1 DEF Rehydrated, PageStates
<1> QED BY <1>2 DEF Rebased, PageStates

LEMMA RaisedForm ==
  ASSUME NEW p \in PageStates, NEW v \in Versions
  PROVE  /\ Raised(p, v) \in PageStates
         /\ Raised(p, v).base = v /\ Raised(p, v).open = p.open /\ Raised(p, v).ask = p.ask
         /\ Raised(p, v).typed = p.typed /\ Raised(p, v).latest = p.latest
         /\ Raised(p, v).seen = IF p.seen = v - 1 THEN v ELSE p.seen
         /\ p.seen < v - 1 => Raised(p, v).raised
<1> DEFINE seen == IF p.seen = v - 1 THEN v ELSE p.seen
           raised == p.raised \/ p.seen < v - 1
<1>1. seen \in Versions /\ raised \in BOOLEAN
  <2>1. seen \in Versions BY DEF PageStates
  <2>2. raised \in BOOLEAN BY Zenon
  <2> QED BY <2>1, <2>2
<1>2. Raised(p, v) = [p EXCEPT !.base = v, !.seen = seen, !.raised = raised]
  BY Zenon DEF Raised, PageStates
<1> HIDE DEF seen, raised
<1>3. /\ Raised(p, v) \in PageStates
      /\ Raised(p, v).base = v /\ Raised(p, v).open = p.open /\ Raised(p, v).ask = p.ask
      /\ Raised(p, v).typed = p.typed /\ Raised(p, v).latest = p.latest
      /\ Raised(p, v).seen = seen /\ Raised(p, v).raised = raised
  BY <1>1, <1>2 DEF PageStates
<1>4. seen = IF p.seen = v - 1 THEN v ELSE p.seen
  BY DEF seen
<1>5. p.seen < v - 1 => raised
  BY DEF raised
<1> QED BY <1>3, <1>4, <1>5

\* What a newer read of the record does to the form: nothing, or it takes the read
\* whole, or the version that is shown or sent alone.
Followed(q, v) ==
  \/ q = page /\ (form.sends = "live" => ~page.open \/ v = copy.version \/ form.draft \notin {"replaced", "none"})
  \/ form.draft \in {"replaced", "clean"} /\ q = Rehydrated(page, v)
  \/ form.draft = "none" /\ form.sends = "live" /\ q = [page EXCEPT !.seen = v]
  \/ form.draft = "kept" /\ form.sends = "raised" /\ q = [page EXCEPT !.base = v]
  \/ /\ form.draft = "kept" /\ form.conflict = "await" /\ page.ask # "none"
     /\ \E a \in {"none", page.ask} : q = [Rebased(page, v) EXCEPT !.ask = a]
LEMMA FormFollows ==
  ASSUME TypeOK, NEW v \in Versions, NEW q \in Follows(page, v)
  PROVE  Followed(q, v)
<1>0. page \in PageStates
  BY DEF TypeOK, PageStates, Asks
<1>1. CASE ~page.open \/ v = copy.version
  BY <1>1 DEF Follows, Followed
<1>2. CASE page.open /\ v # copy.version /\ form.draft = "replaced"
  BY <1>2 DEF Follows, Followed
<1>3. CASE page.open /\ v # copy.version /\ form.draft = "clean"
  BY <1>3 DEF Follows, Followed
<1>4. CASE page.open /\ v # copy.version /\ form.draft = "none"
  BY <1>4 DEF Follows, Followed
<1>5. CASE page.open /\ v # copy.version /\ form.draft = "kept"
  <2>1. CASE form.sends = "raised" /\ page.ask = "none" /\ Idle
    BY <1>5, <2>1 DEF Follows, Followed
  <2>2. CASE ~(form.sends = "raised" /\ page.ask = "none" /\ Idle) /\ form.conflict = "await" /\ page.ask # "none"
    <3>1. q = [Rebased(page, v) EXCEPT !.ask = IF Rebased(page, v).ask = "unread" THEN "none" ELSE Rebased(page, v).ask]
      BY <1>5, <2>2 DEF Follows
    <3>2. Rebased(page, v).ask = page.ask
      BY <1>0 DEF Rebased, PageStates
    <3> QED BY <1>5, <2>2, <3>1, <3>2 DEF Followed
  <2>3. CASE /\ ~(form.sends = "raised" /\ page.ask = "none" /\ Idle)
             /\ ~(form.conflict = "await" /\ page.ask # "none")
    BY <1>5, <2>3 DEF Follows, Followed
  <2> QED BY <2>1, <2>2, <2>3
<1>6. form \in Forms /\ form.draft \in {"kept", "replaced", "clean", "none"}
  BY FormsAssumption DEF TypeOK, FormTraits
<1> QED BY <1>1, <1>2, <1>3, <1>4, <1>5, <1>6

\* A read of its own makes another form of it, which stays open and types nothing.
LEMMA ReadsRebase ==
  ASSUME TypeOK, page.ask # "none" => page.open, RebaseRead
  PROVE  /\ page' \in PageStates /\ page'.open
         /\ page'.typed \in {page.typed, Untouched}
         /\ page'.ask # "none" => page'.latest = server
         /\ \/ page'.base = server /\ page'.seen = server
            \/ page'.base = page.base /\ page'.seen = page.seen /\ page'.raised = page.raised
<1>0. page \in PageStates /\ server \in Versions /\ page' = After(page) /\ page.open
  BY EditingAssumption DEF TypeOK, PageStates, Asks, RebaseRead, Reading, Versions, None
<1>1. CASE form.conflict \in Rebasing
  <2>1. page' = [Rebased(page, server) EXCEPT !.ask = "none"]
    BY <1>0, <1>1 DEF After, Rebasing
  <2>2. /\ Rebased(page, server) \in PageStates /\ Rebased(page, server).open
        /\ Rebased(page, server).typed = page.typed
        /\ Rebased(page, server).base = server /\ Rebased(page, server).seen = server
    BY <1>0, RewrittenForm
  <2> QED BY <2>1, <2>2 DEF PageStates, Asks
<1>2. CASE form.conflict = "restart"
  <2>1. page' = Opened(server)
    BY <1>0, <1>2 DEF After, Rebasing
  <2> QED BY <1>0, <2>1, OpenedForm
<1>3. CASE form.conflict \notin Rebasing /\ form.conflict # "restart"
  <2>1. page' = [page EXCEPT !.ask = "choice", !.latest = server]
    BY <1>0, <1>3 DEF After
  <2> QED BY <1>0, <2>1 DEF PageStates, Asks
<1> QED BY <1>1, <1>2, <1>3

\* A key is reused, or a new one is made for what is sent now.
AttemptMade ==
  \/ Attempt = attempt /\ (form.key = "none" \/ Reuses)
  \/ /\ form.key # "none" /\ ~Reuses
     /\ Attempt = [key |-> attempt.made + 1, input |-> page.typed, version |-> Sends,
                   made |-> attempt.made + 1]
LEMMA AttemptIsMade == AttemptMade
  BY Zenon DEF Attempt, AttemptMade

LEMMA StartIsTyped == Init => TypeOK
<1> SUFFICES ASSUME Init PROVE TypeOK
  OBVIOUS
<1>1. page \in PageStates
  BY OpenedForm, EditingAssumption DEF Init, Versions, None
<1>2. 0 \in 0..MaxVersion /\ 0 \in 0..MaxKeys /\ None \in Versions
      /\ Untouched \in Inputs \cup {Untouched}
  BY EditingAssumption DEF Versions, None
<1>3. /\ form \in Forms /\ server \in 0..MaxVersion /\ gone \in BOOLEAN
      /\ copy \in [version : 0..MaxVersion, owed : BOOLEAN]
  BY <1>2 DEF Init
<1>6. served \in [keys : SUBSET Keys, times : 0..2]
  <2>1. {} \in SUBSET Keys /\ 0 \in 0..2
    OBVIOUS
  <2> QED BY <2>1 DEF Init
<1>4. attempt \in [key : 0..MaxKeys, input : Inputs \cup {Untouched}, version : Versions,
                   made : 0..MaxKeys]
  BY <1>2 DEF Init, NoAttempt
<1>5. request \in [phase : {"none", "sent", "carried_out", "refused"}, key : 0..MaxKeys,
                   input : Inputs \cup {Untouched}, version : Versions,
                   error : {"none", "conflict", "refused", "lost"}]
  BY <1>2 DEF Init, NoRequest
<1> QED BY <1>1, <1>3, <1>4, <1>5, <1>6 DEF TypeOK, PageStates, Asks

\* The ranges of the variables, the form's traits included: every step of a form
\* keeps them (store and page state of the forms' components and hooks).
THEOREM TypeCorrect == Spec => []TypeOK
<1>1. Init => TypeOK
  BY StartIsTyped
<1>2. TypeOK /\ [Next]_vars => TypeOK'
  <2> SUFFICES ASSUME TypeOK, [Next]_vars PROVE TypeOK'
    OBVIOUS
  <2> USE EditingAssumption
  <2>p. /\ page \in PageStates /\ server \in 0..MaxVersion /\ copy.version \in 0..MaxVersion
        /\ \A v \in 0..MaxVersion : v \in Versions
        /\ None \in Versions /\ page.latest \in Versions
    BY DEF TypeOK, PageStates, Asks, Versions, None
  <2>q. ASSUME UNCHANGED <<form, attempt, request, served>>, server' \in 0..MaxVersion,
               gone' \in BOOLEAN, copy' \in [version : 0..MaxVersion, owed : BOOLEAN],
               page' \in PageStates
        PROVE  TypeOK'
    BY <2>q DEF TypeOK, PageStates, Asks
  <2>a. \A a \in Asks : [page EXCEPT !.ask = a] \in PageStates
    BY <2>p DEF PageStates
  <2>r. ASSUME NEW v \in 0..MaxVersion, NEW q \in Follows(page, v)
        PROVE  q \in PageStates
    <3>1. v \in Versions
      BY <2>p
    <3>2. Followed(q, v)
      BY <3>1, <2>r, FormFollows
    <3>3. page.ask \in Asks /\ "none" \in Asks
      BY <2>p DEF PageStates, Asks
    <3>4. Rehydrated(page, v) \in PageStates /\ Rebased(page, v) \in PageStates
      BY <2>p, <3>1, RewrittenForm
    <3>5. [page EXCEPT !.seen = v] \in PageStates /\ [page EXCEPT !.base = v] \in PageStates
      BY <2>p, <3>1 DEF PageStates
    <3>6. \A a \in {"none", page.ask} : [Rebased(page, v) EXCEPT !.ask = a] \in PageStates
      BY <3>1, <3>3, <3>4, AskedForm
    <3> QED BY <2>p, <3>2, <3>4, <3>5, <3>6 DEF Followed
  <2>1. ASSUME Open PROVE TypeOK'
    <3>1. page' \in PageStates
      BY <2>p, <2>1, OpenedForm DEF Open
    <3> QED BY <2>1, <3>1 DEF Open, PageStates, NoAttempt, TypeOK, Asks, record, Untouched, Versions, None
  <2>2. ASSUME Close PROVE TypeOK'
    BY <2>p, <2>q, <2>2, OpenedForm DEF Close, record, sending, TypeOK
  <2>3. ASSUME Type PROVE TypeOK'
    <3>1. page' \in PageStates
      BY <2>p, <2>3 DEF Type, PageStates
    <3> QED BY <2>3, <3>1 DEF Type, record, sending, TypeOK, PageStates, Asks
  <2>4. ASSUME ReadsAgain PROVE TypeOK'
    BY <2>p, <2>q, <2>r, <2>4 DEF ReadsAgain, record, sending, TypeOK
  <2>5. ASSUME ForeignWrite \/ ForeignDelete PROVE TypeOK'
    <3>1. CASE ForeignWrite
      <4>1. server' \in 0..MaxVersion
        BY <2>p, <3>1 DEF ForeignWrite
      <4> QED BY <2>p, <2>q, <3>1, <4>1 DEF ForeignWrite, sending, TypeOK
    <3>2. CASE ForeignDelete
      BY <2>p, <2>q, <3>2 DEF ForeignDelete, sending, TypeOK
    <3> QED BY <2>5, <3>1, <3>2
  <2>6. ASSUME Submit PROVE TypeOK'
    <3>1. Sends \in Versions
      BY <2>p DEF Sends, PageStates
    <3>2. attempt' \in [key : 0..MaxKeys, input : Inputs \cup {Untouched}, version : Versions,
                        made : 0..MaxKeys]
      BY <2>6, <3>1, AttemptIsMade DEF Submit, AttemptMade, TypeOK
    <3> QED BY <2>6, <3>1, <3>2 DEF Submit, record, TypeOK
  <2>7. ASSUME CarriesOut PROVE TypeOK'
    <3>1. server' \in 0..MaxVersion /\ page' \in PageStates
      BY <2>p, <2>7 DEF CarriesOut, PageStates, Versions, None
    <3>2. request.key # 0 => Carried \in Keys
      BY <2>p DEF Carried, Keys, TypeOK
    <3>3. served' \in [keys : SUBSET Keys, times : 0..2]
      BY <2>7, <3>2 DEF CarriesOut, TypeOK
    <3> QED BY <2>7, <3>1, <3>3 DEF CarriesOut, TypeOK, PageStates, Asks
  <2>8. ASSUME Replays \/ Refuses \/ Lost PROVE TypeOK'
    BY <2>8 DEF Replays, Refuses, Lost, record, TypeOK
  <2>9. ASSUME Done PROVE TypeOK'
    <3>1. page' \in PageStates
      BY <2>9, <2>p, OpenedForm DEF Done
    <3> QED BY <2>9, <3>1 DEF Done, NoAttempt, NoRequest, record, TypeOK, PageStates, Asks, Untouched, Versions, None
  <2>10. ASSUME Conflict PROVE TypeOK'
    <3>1. /\ page' = Told(page) /\ request' = NoRequest
          /\ copy' = [copy EXCEPT !.owed = form.hookReads \/ PageReads]
          /\ UNCHANGED <<form, server, gone, attempt, served>>
      BY <2>10 DEF Conflict, record
    <3> DEFINE q == [page EXCEPT !.refused = request.version]
    <3>2. q \in PageStates
      BY <2>p DEF PageStates, TypeOK
    <3>3. \A a \in Asks : [q EXCEPT !.ask = a] \in PageStates
      BY <3>2 DEF PageStates
    <3> HIDE DEF q
    <3>4. Told(page) \in {Closed, q, [q EXCEPT !.ask = "unread"], [q EXCEPT !.ask = "reading"]}
      BY Zenon DEF Told, q
    <3>5. Told(page) \in PageStates
      BY <2>p, <3>2, <3>3, <3>4, OpenedForm DEF Asks
    <3>6. (form.hookReads \/ PageReads) \in BOOLEAN
      BY Zenon
    <3>7. copy' \in [version : 0..MaxVersion, owed : BOOLEAN]
      BY <3>1, <3>6 DEF TypeOK
    <3> QED BY <3>1, <3>5, <3>7 DEF NoRequest, PageStates, TypeOK, Asks, Untouched, Versions, None
  <2>11. ASSUME Fails PROVE TypeOK'
    <3>1. page' \in {page, [page EXCEPT !.ask = "reading"]}
      BY <2>11, Zenon DEF Fails
    <3>2. page' \in PageStates
      BY <2>p, <2>a, <3>1 DEF Asks
    <3> QED BY <2>11, <3>2 DEF Fails, NoRequest, record, TypeOK, PageStates, Asks, Untouched, Versions, None
  <2>12. ASSUME RebaseRead PROVE TypeOK'
    <3>1. After(page) \in PageStates
      <4>1. server \in Versions /\ "none" \in Asks /\ "choice" \in Asks
        BY <2>p DEF Asks
      <4>2. After(page) \in {[Rebased(page, server) EXCEPT !.ask = "none"], Opened(server),
                             [page EXCEPT !.ask = "choice", !.latest = server]}
        BY Zenon DEF After
      <4>3. Rebased(page, server) \in PageStates /\ Opened(server) \in PageStates
        BY <2>p, <4>1, RewrittenForm, OpenedForm
      <4>4. [Rebased(page, server) EXCEPT !.ask = "none"] \in PageStates
        BY <4>1, <4>3, AskedForm
      <4>5. [page EXCEPT !.ask = "choice", !.latest = server] \in PageStates
        BY <2>p, <4>1, AskedForm
      <4> QED BY <4>2, <4>3, <4>4, <4>5
    <3> QED BY <2>p, <2>q, <2>12, <3>1 DEF RebaseRead, record, sending, TypeOK
  <2>13. ASSUME KeepDraft \/ AdoptLatest PROVE TypeOK'
    <3>1. page' \in PageStates
      <4>1. "none" \in Asks
        BY DEF Asks
      <4>2. Rebased(page, page.latest) \in PageStates /\ Opened(page.latest) \in PageStates
        BY <2>p, RewrittenForm, OpenedForm
      <4>3. [Rebased(page, page.latest) EXCEPT !.ask = "none", !.latest = None] \in PageStates
        BY <2>p, <4>1, <4>2, AskedForm
      <4> QED BY <2>13, <4>2, <4>3 DEF KeepDraft, AdoptLatest
    <3> QED BY <2>p, <2>q, <2>13, <3>1 DEF KeepDraft, AdoptLatest, record, sending, TypeOK
  <2>14. ASSUME OwedReadFails \/ RebaseFails \/ AskAgain PROVE TypeOK'
    <3>1. page' \in PageStates
      BY <2>p, <2>a, <2>14 DEF OwedReadFails, RebaseFails, AskAgain, Asks
    <3> QED BY <2>p, <2>q, <2>14, <3>1 DEF OwedReadFails, RebaseFails, AskAgain, record, sending, TypeOK
  <2>15. ASSUME SiblingCommand PROVE TypeOK'
    <3>1. server + 1 \in 0..MaxVersion /\ server + 1 \in Versions
      BY <2>p, <2>15 DEF SiblingCommand
    <3>2. PICK p \in Follows(page, server + 1) : page' = Raised(p, server + 1)
      BY <2>15 DEF SiblingCommand
    <3>3. page' \in PageStates
      BY <2>r, <3>1, <3>2, <2>p, RaisedForm
    <3> QED BY <2>p, <2>q, <2>15, <3>1, <3>3 DEF SiblingCommand, sending, TypeOK
  <2>16. CASE UNCHANGED vars
    BY <2>16 DEF vars, record, sending, TypeOK
  <2> QED
    BY <2>1, <2>2, <2>3, <2>4, <2>5, <2>6, <2>7, <2>8, <2>9, <2>10, <2>11, <2>12, <2>13, <2>14,
       <2>15, <2>16
    DEF Next, BackgroundRead, OwedRead
<1> QED
  BY <1>1, <1>2, PTL DEF Spec

-----------------------------------------------------------------------------
(* What is sent and what is shown never run ahead of the record.             *)

\* A closed form holds nothing, a request belongs to an open one, no version is
\* newer than the record, and only some forms ever wait for a read of their own.
Known ==
  /\ copy.version <= server
  /\ page.open => page.base <= server /\ page.seen <= server
  /\ ~page.open => page.typed = Untouched /\ page.ask = "none"
  /\ request.phase # "none" => page.open
  /\ request.phase = "sent" => request.version <= server
  /\ page.ask # "none" => form.conflict \in ReadsItself
  /\ page.ask = "choice" => page.latest <= server

LEMMA KnownInit == Init => Known
  BY DEF Init, Known, Closed, NoRequest, Untouched

LEMMA KnownStep == TypeOK /\ Known /\ [Next]_vars => Known'
<1> SUFFICES ASSUME TypeOK, Known, [Next]_vars PROVE Known'
  OBVIOUS
<1> USE EditingAssumption DEF Known, Idle
<1>0. /\ server \in 0..MaxVersion /\ copy.version \in 0..MaxVersion
      /\ page \in PageStates
      /\ \A v \in 0..MaxVersion : v \in Versions
      /\ page.base \in Int /\ page.seen \in Int /\ page.latest \in Int /\ page.latest \in Versions
      /\ request.version \in Int
  BY DEF TypeOK, PageStates, Asks, Versions, None
<1>f. ASSUME NEW v \in {server, server + 1}, v \in Versions, NEW q \in Follows(page, v)
      PROVE  /\ q \in PageStates /\ q.open = page.open /\ q.typed \in {page.typed, Untouched}
             /\ q.ask \in {page.ask, "none"} /\ q.latest = page.latest
             /\ q.base \in {page.base, v} /\ q.seen \in {page.seen, v}
  <2>1. Followed(q, v)
    BY <1>f, FormFollows
  <2>2. CASE q = page \/ q = [page EXCEPT !.seen = v] \/ q = [page EXCEPT !.base = v]
    BY <1>0, <1>f, <2>2 DEF PageStates
  <2>3. CASE q = Rehydrated(page, v)
    BY <1>0, <1>f, <2>3 DEF Rehydrated, PageStates
  <2>4. CASE \E a \in {"none", page.ask} : q = [Rebased(page, v) EXCEPT !.ask = a]
    <3>1. PICK a \in {"none", page.ask} : q = [Rebased(page, v) EXCEPT !.ask = a]
      BY <2>4
    <3>2. a \in Asks
      BY <1>0, <3>1 DEF PageStates, Asks
    <3>3. /\ Rebased(page, v) \in PageStates
          /\ Rebased(page, v).base = v /\ Rebased(page, v).seen = v
          /\ Rebased(page, v).open = page.open /\ Rebased(page, v).typed = page.typed
          /\ Rebased(page, v).latest = page.latest
      BY <1>0, <1>f, RewrittenForm
    <3> QED BY <3>1, <3>2, <3>3 DEF PageStates
  <2> QED BY <2>1, <2>2, <2>3, <2>4 DEF Followed
<1>1. ASSUME Open PROVE Known'
  BY <1>0, <1>1, OpenedForm DEF Open, record
<1>2. ASSUME Close \/ Done PROVE Known'
  BY <1>2 DEF Close, Done, Closed, NoRequest, record, sending
<1>3. ASSUME Type PROVE Known'
  BY <1>0, <1>3 DEF Type, PageStates, record, sending
<1>4. ASSUME ReadsAgain PROVE Known'
  <2>1. /\ page'.ask \in {page.ask, "none"} /\ page'.open = page.open
        /\ page'.base \in {page.base, server} /\ page'.seen \in {page.seen, server}
        /\ page'.typed \in {page.typed, Untouched} /\ page'.latest = page.latest
    BY <1>0, <1>4, <1>f DEF ReadsAgain
  <2> QED BY <1>0, <1>4, <2>1 DEF ReadsAgain, record, sending
<1>5. ASSUME ForeignWrite PROVE Known'
  BY <1>0, <1>5 DEF ForeignWrite, sending
<1>6. ASSUME Submit PROVE Known'
  BY <1>0, <1>6 DEF Submit, Sends, TypeOK, record
<1>7. ASSUME CarriesOut PROVE Known'
  BY <1>0, <1>7 DEF CarriesOut, PageStates, TypeOK
<1>8. ASSUME Replays \/ Refuses \/ Lost PROVE Known'
  BY <1>0, <1>8 DEF Replays, Refuses, Lost, TypeOK, record
<1>9. ASSUME Conflict PROVE Known'
  <2>1. page' = Told(page) /\ request'.phase = "none" /\ page.open /\ copy'.version = copy.version
        /\ UNCHANGED <<form, server>>
    BY <1>9 DEF Conflict, NoRequest, record, TypeOK
  <2> DEFINE q == [page EXCEPT !.refused = request.version]
  <2>2. /\ q.open = page.open /\ q.base = page.base /\ q.seen = page.seen /\ q.ask = page.ask
        /\ q.latest = page.latest /\ q \in PageStates
    BY <1>0 DEF PageStates, TypeOK
  <2> HIDE DEF q
  <2>3. \/ page' = Closed \/ page' = q
        \/ form.conflict \in ReadsItself /\ page' = [q EXCEPT !.ask = "reading"]
        \/ form.conflict \in ReadsItself /\ page' = [q EXCEPT !.ask = "unread"]
    <3>1. CASE form.conflict = "close"
      BY <2>1, <3>1 DEF Told, ReadsItself, Rebasing, Choosing
    <3>2. CASE form.conflict = "blocked"
      BY <2>1, <3>2 DEF Told, q, ReadsItself, Rebasing
    <3>3. CASE form.conflict \in ReadsItself \ {"blocked"}
      BY <2>1, <3>3 DEF Told, q, ReadsItself, Rebasing, Choosing
    <3>4. CASE form.conflict \notin ReadsItself /\ form.conflict # "close"
      BY <2>1, <3>4 DEF Told, q, ReadsItself, Rebasing
    <3> QED BY <3>1, <3>2, <3>3, <3>4
  <2>4. CASE page' = Closed
    BY <1>0, <2>1, <2>4 DEF Closed
  <2>5. CASE page' = q
    BY <1>0, <2>1, <2>2, <2>5
  <2>6. CASE form.conflict \in ReadsItself /\ page' = [q EXCEPT !.ask = "reading"]
    BY <1>0, <2>1, <2>2, <2>6 DEF PageStates
  <2>7. CASE form.conflict \in ReadsItself /\ page' = [q EXCEPT !.ask = "unread"]
    BY <1>0, <2>1, <2>2, <2>7 DEF PageStates
  <2> QED BY <2>3, <2>4, <2>5, <2>6, <2>7
<1>10. ASSUME Fails PROVE Known'
  <2>1. \/ page' = page
        \/ form.conflict \in {"restart", "await"} /\ page' = [page EXCEPT !.ask = "reading"]
    BY <1>10, Zenon DEF Fails
  <2>2. page.open /\ request'.phase = "none" /\ UNCHANGED <<form, server, copy>>
    BY <1>10 DEF Fails, NoRequest, record
  <2> QED BY <1>0, <2>1, <2>2 DEF PageStates, ReadsItself, Rebasing
<1>11. ASSUME RebaseRead PROVE Known'
  <2>1. /\ page.open /\ form.conflict \in ReadsItself
        /\ server' = server /\ copy'.version = server
        /\ UNCHANGED <<form, request>>
    BY <1>0, <1>11 DEF RebaseRead, Reading, TypeOK, record, sending
  <2>2. /\ page'.open /\ page'.base \in {page.base, server} /\ page'.seen \in {page.seen, server}
        /\ page'.ask # "none" => page'.latest = server
    BY <1>11, <2>1, ReadsRebase
  <2> QED BY <1>0, <2>1, <2>2
<1>12. ASSUME KeepDraft \/ AdoptLatest PROVE Known'
  <2>1. page.open /\ page.latest <= server /\ UNCHANGED <<form, server, copy, request>>
    BY <1>0, <1>12 DEF KeepDraft, AdoptLatest, record, sending
  <2>2. Opened(page.latest).open /\ Opened(page.latest).base = page.latest
        /\ Opened(page.latest).seen = page.latest /\ Opened(page.latest).ask = "none"
    BY <1>0, OpenedForm
  <2>3. Rebased(page, page.latest) \in PageStates /\ Rebased(page, page.latest).open
        /\ Rebased(page, page.latest).base = page.latest
        /\ Rebased(page, page.latest).seen = page.latest
    BY <1>0, <2>1, RewrittenForm
  <2>4. /\ page'.open /\ page'.ask = "none"
        /\ page'.base = page.latest /\ page'.seen = page.latest
    BY <1>12, <2>2, <2>3 DEF KeepDraft, AdoptLatest, PageStates
  <2> QED BY <1>0, <2>1, <2>4
<1>13. ASSUME OwedReadFails \/ RebaseFails \/ AskAgain \/ ForeignDelete PROVE Known'
  <2>1. /\ UNCHANGED <<form, server, request>> /\ copy'.version = copy.version
        /\ \/ page' = page
           \/ page.ask # "none" /\ \E a \in {"none", "unread", "retrying"} : page' = [page EXCEPT !.ask = a]
    BY <1>13 DEF OwedReadFails, RebaseFails, AskAgain, ForeignDelete, Reading, record, sending, TypeOK
  <2> QED BY <1>0, <2>1 DEF PageStates
<1>14. ASSUME SiblingCommand PROVE Known'
  <2>1. server + 1 \in Versions /\ request' = request /\ form' = form /\ server' = server + 1
        /\ copy'.version = server + 1 /\ page.open /\ page.ask = "none" /\ request.phase = "none"
    BY <1>0, <1>14 DEF SiblingCommand, sending, TypeOK
  <2>2. PICK p \in Follows(page, server + 1) : page' = Raised(p, server + 1)
    BY <1>14 DEF SiblingCommand
  <2>3. p \in PageStates /\ p.open /\ p.ask = "none" /\ p.seen \in {page.seen, server + 1}
    BY <1>f, <2>1
  <2>4. page'.open /\ page'.base = server + 1 /\ page'.ask = "none"
        /\ page'.seen \in {page.seen, server + 1}
    BY <2>1, <2>2, <2>3, RaisedForm
  <2> QED BY <1>0, <2>1, <2>4
<1>15. CASE UNCHANGED vars
  BY <1>15 DEF vars, Sends, record, sending
<1> QED
  BY <1>1, <1>2, <1>3, <1>4, <1>5, <1>6, <1>7, <1>8, <1>9, <1>10, <1>11, <1>12, <1>13, <1>14, <1>15
  DEF Next, BackgroundRead, OwedRead

-----------------------------------------------------------------------------
(* What is carried out was shown.                                            *)

\* A form whose draft, and so whose version, another section has not raised over facts
\* it did not show could be sent now only over the very version it shows, or over one
\* the record has left behind; and so it is of its command that is on its way.
Faced ==
  Announces =>
    /\ page.open => page.seen = Sends \/ page.raised \/ Sends < server
    /\ request.phase = "sent" =>
         page.seen = request.version \/ page.raised \/ request.version < server

LEMMA FacedStep == TypeOK /\ Known /\ Faced /\ [Next]_vars => Faced'
<1> SUFFICES ASSUME TypeOK, Known, Faced, [Next]_vars, Announces' PROVE Faced'
  BY DEF Faced
<1>0. /\ server \in 0..MaxVersion /\ copy.version \in 0..MaxVersion
      /\ page \in PageStates /\ form \in Forms /\ form' = form
      /\ \A v \in 0..MaxVersion : v \in Versions
      /\ page.latest \in Versions
  BY EditingAssumption
  DEF TypeOK, PageStates, Asks, Versions, None, Next, Open, Close, Type, BackgroundRead, OwedRead,
      ReadsAgain, OwedReadFails, ForeignWrite, ForeignDelete, SiblingCommand, Submit, CarriesOut,
      Replays, Refuses, Lost, Done, Conflict, Fails, RebaseRead, RebaseFails, AskAgain, KeepDraft,
      AdoptLatest, vars, record
<1>a. /\ Announces
      /\ form.sends \in {"opened", "live", "beside"} /\ (form.sends = "live" => form.draft # "kept")
      /\ form.sends = "live" => form.draft # "clean" /\ form.conflict \notin ReadsItself
  BY <1>0, FormsAssumption DEF Announces, FormTraits
<1>b. form.draft \in {"kept", "replaced", "clean", "none"}
  BY <1>0, FormsAssumption DEF FormTraits
<1>c. page.base \in Int /\ page.seen \in Int /\ request.version \in Int
  BY <1>0, EditingAssumption DEF PageStates, TypeOK, Versions, None
<1> USE <1>0, <1>a, <1>c, EditingAssumption DEF Faced, Known, Sends
<1>f. ASSUME NEW v \in {server, server + 1}, v \in Versions, NEW q \in Follows(page, v)
      PROVE  /\ q \in PageStates
             /\ \/ q = page /\ (form.sends = "live" => ~page.open \/ v = copy.version)
                \/ q.base = v /\ q.seen = v
                \/ form.sends = "live" /\ q.seen = v
  <2>1. Followed(q, v)
    BY <1>f, FormFollows
  <2>2. CASE q = page /\ (form.sends = "live" => ~page.open \/ v = copy.version \/ form.draft \notin {"replaced", "none"})
    BY <1>b, <2>2
  <2>3. CASE form.draft = "none" /\ form.sends = "live" /\ q = [page EXCEPT !.seen = v]
    BY <1>f, <2>3 DEF PageStates
  <2>4. CASE q = Rehydrated(page, v)
    BY <1>f, <2>4 DEF Rehydrated, PageStates
  <2>5. CASE \E a \in {"none", page.ask} : q = [Rebased(page, v) EXCEPT !.ask = a]
    <3>1. PICK a \in {"none", page.ask} : q = [Rebased(page, v) EXCEPT !.ask = a]
      BY <2>5
    <3>2. a \in Asks
      BY <3>1 DEF PageStates, Asks
    <3>3. /\ Rebased(page, v) \in PageStates
          /\ Rebased(page, v).base = v /\ Rebased(page, v).seen = v
      BY <1>f, RewrittenForm
    <3> QED BY <3>1, <3>2, <3>3 DEF PageStates
  <2> QED BY <2>1, <2>2, <2>3, <2>4, <2>5 DEF Followed
<1>1. ASSUME Open PROVE Faced'
  <2>1. Opened(copy.version).base = copy.version /\ Opened(copy.version).seen = copy.version
    BY OpenedForm
  <2> QED BY <1>1, <2>1 DEF Open, Idle, record
<1>2. ASSUME Close \/ Done PROVE Faced'
  BY <1>2 DEF Close, Done, Closed, NoRequest, Idle, record, sending
<1>3. ASSUME Type PROVE Faced'
  BY <1>3 DEF Type, Idle, PageStates, record, sending
<1>4. ASSUME ReadsAgain PROVE Faced'
  <2>1. server' = server /\ copy'.version = server /\ request' = request /\ page' \in Follows(page, server)
    BY <1>4 DEF ReadsAgain, record, sending
  <2>2. \/ page' = page /\ (form.sends = "live" => ~page.open \/ server = copy.version)
        \/ page'.base = server /\ page'.seen = server
        \/ form.sends = "live" /\ page'.seen = server
    BY <2>1, <1>f
  <2> QED BY <2>1, <2>2
<1>5. ASSUME ForeignWrite PROVE Faced'
  BY <1>5 DEF ForeignWrite, sending
<1>6. ASSUME Submit PROVE Faced'
  BY <1>6 DEF Submit, record
<1>7. ASSUME CarriesOut PROVE Faced'
  <2>1. CASE form.versioned
    BY <1>7, <2>1 DEF CarriesOut, PageStates, TypeOK
  <2>2. CASE ~form.versioned
    BY <1>7, <2>2 DEF CarriesOut, TypeOK
  <2> QED BY <2>1, <2>2
<1>8. ASSUME Replays \/ Refuses \/ Lost PROVE Faced'
  <2>1. UNCHANGED <<form, server, copy, page>>
    BY <1>8 DEF Replays, Refuses, Lost, record
  <2>2. request'.phase # "sent"
    BY <1>8 DEF Replays, Refuses, Lost, TypeOK
  <2> QED BY <2>1, <2>2
<1>9. ASSUME Conflict PROVE Faced'
  <2>1. /\ page' = Told(page) /\ request'.phase = "none" /\ copy'.version = copy.version
        /\ server' = server
    BY <1>9 DEF Conflict, NoRequest, record, TypeOK
  <2> DEFINE q == [page EXCEPT !.refused = request.version]
  <2>2. q.open = page.open /\ q.base = page.base /\ q.seen = page.seen /\ q.raised = page.raised
        /\ q \in PageStates
    BY DEF PageStates, TypeOK
  <2> HIDE DEF q
  <2>3. page' \in {Closed, q, [q EXCEPT !.ask = "reading"], [q EXCEPT !.ask = "unread"]}
    BY <2>1, Zenon DEF Told, q
  <2>4. \/ ~page'.open
        \/ page'.open = page.open /\ page'.base = page.base /\ page'.seen = page.seen /\ page'.raised = page.raised
    BY <2>2, <2>3 DEF Closed, PageStates
  <2> QED BY <2>1, <2>4
<1>10. ASSUME RebaseRead PROVE Faced'
  <2>1. /\ page.open /\ form.sends # "live" /\ server' = server /\ request' = request
    BY <1>10 DEF RebaseRead, Reading, record, sending
  <2>2. \/ page'.base = server /\ page'.seen = server
        \/ page'.base = page.base /\ page'.seen = page.seen /\ page'.raised = page.raised
    BY <1>10, ReadsRebase
  <2> QED BY <2>1, <2>2
<1>11. ASSUME KeepDraft \/ AdoptLatest PROVE Faced'
  <2>1. /\ form.sends # "live" /\ request' = request /\ request.phase = "none"
        /\ page.ask = "choice"
    BY <1>11 DEF KeepDraft, AdoptLatest, Idle, sending
  <2>2. Opened(page.latest).base = page.latest /\ Opened(page.latest).seen = page.latest
    BY OpenedForm
  <2>3. Rebased(page, page.latest) \in PageStates /\ Rebased(page, page.latest).base = page.latest
        /\ Rebased(page, page.latest).seen = page.latest
    BY RewrittenForm
  <2>4. page'.base = page.latest /\ page'.seen = page.latest
    BY <1>11, <2>2, <2>3 DEF KeepDraft, AdoptLatest, PageStates
  <2> QED BY <2>1, <2>4
<1>12. ASSUME Fails \/ OwedReadFails \/ RebaseFails \/ AskAgain \/ ForeignDelete PROVE Faced'
  <2>1. UNCHANGED server /\ copy'.version = copy.version
        /\ (request' = request \/ request'.phase = "none")
    BY <1>12 DEF Fails, OwedReadFails, RebaseFails, AskAgain, ForeignDelete, NoRequest, record, sending, TypeOK
  <2>2. page' = page \/ \E a \in Asks : page' = [page EXCEPT !.ask = a]
    <3>1. CASE Fails
      <4>1. page' = page \/ page' = [page EXCEPT !.ask = "reading"]
        BY <3>1, Zenon DEF Fails
      <4> QED BY <4>1 DEF Asks
    <3>2. CASE ~Fails
      BY <1>12, <3>2 DEF OwedReadFails, RebaseFails, AskAgain, ForeignDelete, Asks
    <3> QED BY <3>1, <3>2
  <2>3. page'.open = page.open /\ page'.base = page.base /\ page'.seen = page.seen /\ page'.raised = page.raised
    BY <2>2 DEF PageStates
  <2> QED BY <2>1, <2>3
<1>13. ASSUME SiblingCommand PROVE Faced'
  <2>1. /\ server + 1 \in Versions /\ request' = request /\ server' = server + 1
        /\ page.open /\ request.phase = "none" /\ form.sends = "beside"
    BY <1>13 DEF SiblingCommand, Idle, sending
  <2>2. PICK p \in Follows(page, server + 1) : page' = Raised(p, server + 1)
    BY <1>13 DEF SiblingCommand
  <2>3. p \in PageStates /\ (p = page \/ p.seen = server + 1)
    BY <1>f, <2>1, <2>2
  <2>4. /\ page'.base = server + 1
        /\ page'.seen = IF p.seen = server THEN server + 1 ELSE p.seen
        /\ p.seen < server => page'.raised
    <3>1. server + 1 - 1 = server
      OBVIOUS
    <3> DEFINE v == server + 1
    <3>2. /\ v \in Versions /\ page' = Raised(p, v)
          /\ Raised(p, v).base = v
          /\ Raised(p, v).seen = IF p.seen = v - 1 THEN v ELSE p.seen
          /\ p.seen < v - 1 => Raised(p, v).raised
      <4> HIDE DEF v
      <4>1. v \in Versions /\ page' = Raised(p, v)
        BY <2>1, <2>2 DEF v
      <4> QED BY <2>3, <4>1, RaisedForm
    <3>3. v - 1 = server
      BY <3>1
    <3> HIDE DEF v
    <3> QED BY <3>2, <3>3 DEF v
  <2> QED BY <2>1, <2>3, <2>4
<1>14. CASE UNCHANGED vars
  BY <1>14 DEF vars, record, sending
<1> QED
  BY <1>1, <1>2, <1>3, <1>4, <1>5, <1>6, <1>7, <1>8, <1>9, <1>10, <1>11, <1>12, <1>13, <1>14
  DEF Next, BackgroundRead, OwedRead

LEMMA Holding == Spec => [](TypeOK /\ Known /\ Faced)
<1>1. Init => TypeOK /\ Known /\ Faced
  <2>1. Init => Faced
    BY DEF Init, Faced, Closed, NoRequest
  <2> QED BY <2>1, StartIsTyped, KnownInit
<1>2. TypeOK /\ TypeOK' /\ Known /\ Faced /\ [Next]_vars => (Known /\ Faced)'
  BY KnownStep, FacedStep
<1> QED BY <1>1, <1>2, TypeCorrect, PTL DEF Spec

\* A command of a form that announces what it replaces is carried out only over the
\* version whose facts the form showed, or over the one that a command of another
\* section of its dialog made while the form did not show the facts before it (the
\* forms' version fields, onTaskUpdated of the task dialog, the service's version check).
THEOREM OverwritesAreSeen == Spec => NothingIsOverwrittenUnseen
<1>1. TypeOK /\ Known /\ Faced /\ [Next]_vars =>
        [(CarriesOut /\ Announces /\ form.versioned) => server = page.seen \/ page.raised]_vars
  <2> SUFFICES ASSUME TypeOK, Known, Faced, CarriesOut, Announces, form.versioned
               PROVE  server = page.seen \/ page.raised
    OBVIOUS
  <2>1. request.phase = "sent" /\ request.version = server
    BY DEF CarriesOut, Stale
  <2> QED BY <2>1, EditingAssumption DEF Faced, TypeOK
<1> QED BY <1>1, Holding, PTL DEF Spec, NothingIsOverwrittenUnseen

-----------------------------------------------------------------------------
(* What is typed is made into a record once.                                 *)

Adds == form.adds /\ form.key # "none" /\ form.sends # "live"
KeyTaken(k) == \E s \in served.keys : s.key = k

\* Once the input has been carried out, the key the form would send it with is one the
\* service has carried out, and what is on its way bears that key.
Spent ==
  Adds =>
    /\ page.ask = "none" /\ request.error # "conflict" /\ served.times <= 1
    /\ request.phase = "sent" =>
         /\ request.key = attempt.key /\ request.key # 0
         /\ page.typed = Untouched \/ Reuses
    /\ served.times = 1 /\ page.typed # Untouched => Reuses /\ KeyTaken(attempt.key)
    /\ served.times = 1 /\ request.phase = "sent" => KeyTaken(request.key)

LEMMA SpentStep == TypeOK /\ Known /\ Spent /\ [Next]_vars => Spent'
<1> SUFFICES ASSUME TypeOK, Known, Spent, [Next]_vars, Adds' PROVE Spent'
  BY DEF Spent
<1>0. /\ page \in PageStates /\ form \in Forms /\ form' = form
      /\ attempt.key \in Nat /\ attempt.made \in Nat /\ served.times \in 0..2
  BY DEF TypeOK, PageStates, Asks, Next, Open, Close, Type, BackgroundRead, OwedRead, ReadsAgain,
         OwedReadFails, ForeignWrite, ForeignDelete, SiblingCommand, Submit, CarriesOut, Replays,
         Refuses, Lost, Done, Conflict, Fails, RebaseRead, RebaseFails, AskAgain, KeepDraft,
         AdoptLatest, vars, record
<1>a. /\ Adds /\ form.sends = "opened" /\ form.draft # "none" /\ ~form.versioned
      /\ form.conflict \notin ReadsItself
      /\ form.key \in {"per_input", "per_mount"}
  BY <1>0, FormsAssumption DEF Adds, FormTraits
<1>b. form.draft \in {"kept", "replaced", "clean"}
  BY <1>0, <1>a, FormsAssumption DEF FormTraits
<1> USE <1>0, <1>a, EditingAssumption DEF Spent, Reuses, Same, Sends, KeyTaken
<1>1. ASSUME Open PROVE Spent'
  <2>1. server \in Versions /\ copy.version \in Versions
    BY DEF TypeOK, Versions, None
  <2>2. Opened(copy.version).ask = "none" /\ Opened(copy.version).typed = Untouched
    BY <2>1, OpenedForm
  <2> QED BY <1>1, <2>2 DEF Open, Idle, TypeOK, record
<1>2. ASSUME Close \/ Done PROVE Spent'
  BY <1>2 DEF Close, Done, Closed, NoRequest, Idle, TypeOK, record, sending
<1>3. ASSUME Type PROVE Spent'
  BY <1>3 DEF Type, Idle, PageStates, TypeOK, record, sending
<1>4. ASSUME ReadsAgain PROVE Spent'
  <2>1. server \in Versions
    BY DEF TypeOK, Versions, None
  <2>2. page' = page \/ page' = Rehydrated(page, server)
    <3>1. Followed(page', server)
      BY <1>4, <2>1, FormFollows DEF ReadsAgain
    <3> QED BY <1>b, <3>1 DEF Followed
  <2>3. page'.ask = page.ask /\ (page'.typed = Untouched \/ page' = page)
    BY <2>2 DEF Rehydrated, PageStates
  <2> QED BY <1>4, <2>3 DEF ReadsAgain, record, sending
<1>5. ASSUME ForeignWrite \/ ForeignDelete \/ OwedReadFails PROVE Spent'
  BY <1>5 DEF ForeignWrite, ForeignDelete, OwedReadFails, record, sending
<1>6. ASSUME Submit PROVE Spent'
  <2>1. /\ page' = page /\ served' = served /\ attempt' = Attempt /\ page.typed # Untouched
        /\ request'.error = "none" /\ request'.key = Attempt.key
    BY <1>6 DEF Submit, Adds
  <2>2. Reuses' /\ Attempt.key # 0
    BY <2>1, AttemptIsMade DEF AttemptMade
  <2>3. served.times = 1 => Attempt = attempt
    BY <2>1, AttemptIsMade DEF AttemptMade
  <2> QED BY <2>1, <2>2, <2>3
<1>7. ASSUME CarriesOut PROVE Spent'
  <2>1. /\ request.phase = "sent" /\ served.times = 0 /\ request.key # 0
    BY <1>7 DEF CarriesOut, Taken
  <2>2. /\ page' = page /\ attempt' = attempt
        /\ served'.times = 1 /\ Carried \in served'.keys
        /\ request'.error = request.error /\ request'.phase = "carried_out"
    BY <1>7, <2>1 DEF CarriesOut, TypeOK
  <2>3. Carried.key = attempt.key
    BY <2>1 DEF Carried
  <2> QED BY <2>1, <2>2, <2>3
<1>8. ASSUME Replays \/ Refuses \/ Lost PROVE Spent'
  <2>1. /\ page' = page /\ attempt' = attempt /\ served' = served
        /\ request'.key = request.key /\ request'.phase \in {"carried_out", "refused"}
    BY <1>8 DEF Replays, Refuses, Lost, TypeOK
  <2>2. request'.error # "conflict"
    BY <1>8 DEF Replays, Refuses, Lost, TypeOK, Stale
  <2> QED BY <2>1, <2>2
<1>9. ASSUME Conflict PROVE Spent'
  BY <1>9 DEF Conflict
<1>10. ASSUME Fails PROVE Spent'
  <2>1. page' = page
    BY <1>10, Zenon DEF Fails, ReadsItself, Rebasing
  <2> QED BY <1>10, <2>1 DEF Fails, NoRequest, record, TypeOK
<1>11. ASSUME RebaseRead \/ RebaseFails \/ AskAgain \/ KeepDraft \/ AdoptLatest PROVE Spent'
  BY <1>11 DEF RebaseRead, RebaseFails, AskAgain, KeepDraft, AdoptLatest, Reading
<1>12. ASSUME SiblingCommand PROVE Spent'
  BY <1>12 DEF SiblingCommand
<1>13. CASE UNCHANGED vars
  BY <1>13 DEF vars, record, sending
<1> QED
  BY <1>1, <1>2, <1>3, <1>4, <1>5, <1>6, <1>7, <1>8, <1>9, <1>10, <1>11, <1>12, <1>13
  DEF Next, BackgroundRead, OwedRead

\* What was typed is made into a record at most once, however often the answer is lost
\* and it is sent again (the idempotency keys of the create hooks and the service's
\* replay of them).
THEOREM InputsAreAppliedOnce == Spec => []AppliedOnce
<1>1. Init => Spent
  BY DEF Init, Spent, Closed, NoRequest
<1>2. TypeOK /\ Known /\ Spent /\ [Next]_vars => Spent'
  BY SpentStep
<1>3. Spent => AppliedOnce
  BY DEF Spent, Adds, AppliedOnce, Once
<1> QED BY <1>1, <1>2, <1>3, Holding, PTL DEF Spec

----------------------------------------------------------------------------
(* Launching. *)
\* Values that a form and a call begin with, and what a consent writes down.
LEMMA LaunchValues ==
  /\ NotShown \in Versioned /\ Frozen \in Versioned /\ Frozen \in [Facts -> 0..MaxMoves]
  /\ NothingAgreed \in [Consents -> Versioned] /\ Inherited \in [Consents -> Versioned]
  /\ Unknown \in 0..Unknown /\ Unknown \notin 0..MaxMoves
  /\ \A v \in 0..MaxMoves : v \in 0..Unknown
  /\ Loads \subseteq Consents /\ "task" \in Facts /\ "provider" \in Facts
  /\ "file" \in Facts /\ "source" \in Facts
<1>1. Unknown \in 0..Unknown /\ Unknown \notin 0..MaxMoves /\ 0 \in 0..Unknown
      /\ \A v \in 0..MaxMoves : v \in 0..Unknown
  BY LaunchingAssumption DEF Unknown
<1>2. NotShown \in Versioned /\ Frozen \in Versioned /\ Frozen \in [Facts -> 0..MaxMoves]
  BY <1>1, LaunchingAssumption DEF NotShown, Frozen, Versioned
<1>3. NothingAgreed \in [Consents -> Versioned]
  BY <1>2 DEF NothingAgreed
<1>4. Inherited \in [Consents -> Versioned]
  BY <1>1, <1>2 DEF Inherited, Versioned
<1> QED BY <1>1, <1>2, <1>3, <1>4 DEF Loads, Consents, Facts

DeskStates == [open : BOOLEAN, view : Versioned, shown : Versioned, given : [Consents -> Versioned]]
WorldStates == [facts : [Facts -> 0..MaxMoves], slot : {"empty", "agent", "other"}, active : BOOLEAN]
CallStates ==
  [phase : {"none", "checking", "rechecking", "sent", "created", "conflict", "failed"},
   told : Versioned, agreed : [Consents -> Versioned], live : BOOLEAN, assign : 0..Unknown]

\* What is read again leaves a form that is one still.
LEMMA RereadDesk ==
  ASSUME LaunchTypeOK, NEW f \in Facts, NEW v \in 0..MaxMoves
  PROVE  /\ Reread(f, v) \in DeskStates /\ Overtaken(f) \in CallStates
         /\ Reread(f, v).open = desk.open /\ Reread(f, v).view = [desk.view EXCEPT ![f] = v]
         /\ Reread(f, v).given = Cleared(f)
         /\ Reread(f, v).shown = Preview(f)
         /\ Overtaken(f).told = call.told /\ Overtaken(f).agreed = call.agreed
         /\ Overtaken(f).phase = call.phase /\ (Overtaken(f).live => call.live)
         /\ Overtaken(f).assign = call.assign
<1> USE LaunchValues
<1>1. desk \in DeskStates /\ call \in CallStates
  BY DEF LaunchTypeOK, DeskStates, CallStates
<1>2. [desk.view EXCEPT ![f] = v] \in Versioned
  BY <1>1 DEF DeskStates, Versioned
<1>3. Cleared(f) \in [Consents -> Versioned] /\ Preview(f) \in Versioned
  BY <1>1 DEF Cleared, Preview, DeskStates
<1>4. Reread(f, v) = [desk EXCEPT !.view = [desk.view EXCEPT ![f] = v], !.shown = Preview(f), !.given = Cleared(f)]
  BY <1>1 DEF Reread, DeskStates
<1>5. Reread(f, v) \in DeskStates /\ Reread(f, v).open = desk.open
      /\ Reread(f, v).view = [desk.view EXCEPT ![f] = v]
      /\ Reread(f, v).given = Cleared(f) /\ Reread(f, v).shown = Preview(f)
  BY <1>1, <1>2, <1>3, <1>4 DEF DeskStates
<1>6. (call.live /\ f \notin Watched) \in BOOLEAN
  OBVIOUS
<1>7. Overtaken(f) = [call EXCEPT !.live = call.live /\ f \notin Watched]
  BY <1>1 DEF Overtaken, CallStates
<1>8. /\ Overtaken(f) \in CallStates
      /\ Overtaken(f).told = call.told /\ Overtaken(f).agreed = call.agreed
      /\ Overtaken(f).phase = call.phase
      /\ Overtaken(f).assign = call.assign
      /\ Overtaken(f).live = (call.live /\ f \notin Watched)
  BY <1>1, <1>6, <1>7, Zenon DEF CallStates
<1> QED BY <1>5, <1>8

LEMMA NewDesks ==
  ASSUME LaunchTypeOK, NEW v \in Versioned
  PROVE  /\ NewDesk(v) \in DeskStates /\ NewDesk(v).open /\ NewDesk(v).view = v
         /\ NewDesk(v).given = NothingAgreed /\ NoCall \in CallStates
         /\ [NewDesk(v) EXCEPT !.open = FALSE] \in DeskStates
         /\ [NewDesk(v) EXCEPT !.open = FALSE].given = NothingAgreed
         /\ \A b \in BOOLEAN : /\ [NewDesk(v) EXCEPT !.open = b] \in DeskStates
                               /\ [NewDesk(v) EXCEPT !.open = b].given = NothingAgreed
         /\ ~NoCall.live /\ NoCall.phase = "none"
<1>1. NewDesk(v) \in DeskStates
  BY LaunchValues DEF NewDesk, DeskStates
<1>2. NoCall \in CallStates
  BY LaunchValues DEF NoCall, CallStates
<1> QED BY <1>1, <1>2 DEF NewDesk, NoCall, DeskStates

\* The ranges of the variables (a launch's form, its copies and its request).
THEOREM LaunchTypeCorrect == LaunchSpec => []LaunchTypeOK
<1>1. LaunchInit => LaunchTypeOK
  BY LaunchValues DEF LaunchInit, LaunchTypeOK, NewDesk, NoCall
<1>2. LaunchTypeOK /\ [LaunchNext]_launchVars => LaunchTypeOK'
  <2> SUFFICES ASSUME LaunchTypeOK, [LaunchNext]_launchVars PROVE LaunchTypeOK'
    OBVIOUS
  <2> USE LaunchValues
  <2>0. /\ desk \in DeskStates /\ call \in CallStates /\ launch \in Ways
        /\ world.facts \in [Facts -> 0..MaxMoves] /\ desk.view \in Versioned /\ world \in WorldStates
    BY DEF LaunchTypeOK, DeskStates, CallStates, WorldStates
  <2>a. ASSUME launch' = launch, world' = world, desk' \in DeskStates, call' \in CallStates
        PROVE  LaunchTypeOK'
    BY <2>0, <2>a DEF LaunchTypeOK, DeskStates, CallStates
  <2>1. ASSUME Edits PROVE LaunchTypeOK'
    BY <2>1, LaunchingAssumption DEF Edits, LaunchTypeOK
  <2>2. ASSUME Reassigns PROVE LaunchTypeOK'
    <3>1. PICK s \in {"empty", "agent", "other"} :
            world' = [world EXCEPT !.slot = s, !.facts["task"] = world.facts["task"] + 1]
      BY <2>2 DEF Reassigns
    <3>2. world.facts["task"] + 1 \in 0..MaxMoves
      BY <2>0, <2>2, LaunchingAssumption DEF Reassigns
    <3>3. [world.facts EXCEPT !["task"] = world.facts["task"] + 1] \in [Facts -> 0..MaxMoves]
      BY <2>0, <3>2
    <3>4. world' \in WorldStates
      BY <2>0, <3>1, <3>3 DEF WorldStates
    <3> QED BY <2>0, <2>2, <3>4 DEF Reassigns, LaunchTypeOK, WorldStates
  <2>3. ASSUME RunsElsewhere PROVE LaunchTypeOK'
    BY <2>3 DEF RunsElsewhere, LaunchTypeOK
  <2>4. ASSUME Reads PROVE LaunchTypeOK'
    <3>1. PICK f \in Involved \ {"source"} :
            desk' = Reread(f, world.facts[f]) /\ call' = Overtaken(f)
      BY <2>4 DEF Reads
    <3>2. f \in Facts /\ world.facts[f] \in 0..MaxMoves
      BY <2>0 DEF Involved, Facts
    <3> QED BY <2>4, <2>a, <3>1, <3>2, RereadDesk DEF Reads
  <2>5. ASSUME PicksAgain PROVE LaunchTypeOK'
    <3> DEFINE g == IF launch.way = "restart" THEN NothingAgreed
                    ELSE [desk.given EXCEPT !["file"] = NotShown, !["project"] = NotShown]
               s == IF launch.way = "restart" THEN NotShown ELSE desk.shown
               w == [desk.view EXCEPT !["source"] = world.facts["source"]]
    <3>1. g \in [Consents -> Versioned] /\ s \in Versioned /\ w \in Versioned
      BY <2>0 DEF DeskStates, Versioned
    <3>2. desk' = [desk EXCEPT !.view = w, !.shown = s, !.given = g]
      BY <2>0, <2>5 DEF PicksAgain, DeskStates
    <3> HIDE DEF g, s, w
    <3>3. desk' \in DeskStates
      BY <2>0, <3>1, <3>2 DEF DeskStates
    <3> QED BY <2>0, <2>5, <2>a, <3>3 DEF PicksAgain
  <2>6. ASSUME TakesBack PROVE LaunchTypeOK'
    BY <2>0, <2>6, <2>a, NewDesks DEF TakesBack
  <2>7. ASSUME Leaves PROVE LaunchTypeOK'
    <3>1. call' \in CallStates
      BY <2>0, <2>7 DEF Leaves, CallStates
    <3> QED BY <2>0, <2>7, <2>a, <3>1, NewDesks DEF Leaves
  <2>8. ASSUME Returns PROVE LaunchTypeOK'
    BY <2>0, <2>8, <2>a, NewDesks DEF Returns
  <2>9. ASSUME PreviewsRework PROVE LaunchTypeOK'
    <3> DEFINE g == [desk.given EXCEPT !["rework"] = NotShown]
               s == [desk.shown EXCEPT !["task"] = desk.view["task"]]
    <3>1. g \in [Consents -> Versioned] /\ s \in Versioned
      BY <2>0 DEF DeskStates, Versioned
    <3>2. desk' = [desk EXCEPT !.shown = s, !.given = g]
      BY <2>0, <2>9 DEF PreviewsRework, DeskStates
    <3> HIDE DEF g, s
    <3>3. desk' \in DeskStates
      BY <2>0, <3>1, <3>2 DEF DeskStates
    <3> QED BY <2>0, <2>9, <2>a, <3>3 DEF PreviewsRework
  <2>10. ASSUME PreviewsRestart PROVE LaunchTypeOK'
    <3>1. world.facts \in Versioned
      BY <2>0 DEF Versioned
    <3>2. desk' \in DeskStates
      BY <2>0, <2>10, <3>1 DEF PreviewsRestart, DeskStates
    <3> QED BY <2>0, <2>10, <2>a, <3>2 DEF PreviewsRestart
  <2>11. ASSUME Agrees PROVE LaunchTypeOK'
    <3>1. PICK c \in Asked : desk' =
            [desk EXCEPT !.given[c] = [f \in Facts |-> IF f \in RestsOn(c) THEN Sight[f] ELSE Unknown]]
      BY <2>11 DEF Agrees
    <3>2. c \in Consents
      BY <2>0 DEF Asked, Ways, Consents, Loads
    <3>3. Sight \in Versioned
      BY <2>0 DEF Sight, DeskStates
    <3> DEFINE s == [f \in Facts |-> IF f \in RestsOn(c) THEN Sight[f] ELSE Unknown]
    <3>4. s \in Versioned
      BY <3>3 DEF Versioned
    <3> HIDE DEF s
    <3>5. desk' = [desk EXCEPT !.given = [desk.given EXCEPT ![c] = s]]
      BY <2>0, <3>1 DEF DeskStates, s
    <3>6. [desk.given EXCEPT ![c] = s] \in [Consents -> Versioned]
      BY <2>0, <3>2, <3>4 DEF DeskStates
    <3>7. desk' \in DeskStates
      BY <2>0, <3>5, <3>6 DEF DeskStates
    <3> QED BY <2>0, <2>11, <2>a, <3>7 DEF Agrees
  <2>12. ASSUME Clicks PROVE LaunchTypeOK'
    <3>1. Sight \in Versioned /\ desk.given \in [Consents -> Versioned]
      BY <2>0 DEF Sight, DeskStates
    <3>2. call' \in CallStates
      BY <2>12, <3>1 DEF Clicks, NoCall, CallStates
    <3> QED BY <2>0, <2>12, <2>a, <3>2 DEF Clicks
  <2>13. ASSUME Checks PROVE LaunchTypeOK'
    <3> DEFINE newer == desk.open /\ desk.view["provider"] # world.facts["provider"]
               read == IF newer THEN Overtaken("provider") ELSE call
    <3>0. world.facts["provider"] \in 0..MaxMoves
      BY <2>0
    <3>1. read \in CallStates
      BY <2>0, <3>0, RereadDesk
    <3>2. desk' = IF newer THEN Reread("provider", world.facts["provider"]) ELSE desk
      BY <2>13 DEF Checks
    <3>3. desk' \in DeskStates
      BY <2>0, <3>0, <3>2, RereadDesk
    <3>4. \/ call' = [read EXCEPT !.phase = IF launch.way = "again" THEN "sent" ELSE "rechecking",
                            !.assign = IF world.slot = "empty" THEN world.facts["task"] ELSE Unknown]
          \/ call' = [read EXCEPT !.phase = "failed"]
      BY <2>13 DEF Checks
    <3> HIDE DEF read, newer
    <3>5. world.facts["task"] \in 0..Unknown
      BY <2>0
    <3>6. call' \in CallStates
      BY <3>1, <3>4, <3>5 DEF CallStates
    <3> QED BY <2>13, <2>a, <3>3, <3>6 DEF Checks
  <2>14. ASSUME SendsStart \/ GivesUp \/ Declines \/ Vanishes PROVE LaunchTypeOK'
    <3>1. call' \in CallStates
      BY <2>0, <2>14 DEF SendsStart, GivesUp, Declines, Vanishes, CallStates
    <3> QED BY <2>0, <2>14, <2>a, <3>1 DEF SendsStart, GivesUp, Declines, Vanishes
  <2>15. ASSUME Creates PROVE LaunchTypeOK'
    <3>1. call' \in CallStates
      BY <2>0, <2>15 DEF Creates, CallStates
    <3> DEFINE v == IF world.slot = "empty" THEN world.facts["task"] + 1 ELSE world.facts["task"]
    <3>2. v \in 0..MaxMoves
      BY <2>0, <2>15, LaunchingAssumption DEF Creates
    <3>3. world' = [world EXCEPT !.active = TRUE, !.slot = "agent",
                                 !.facts = [world.facts EXCEPT !["task"] = v]]
      BY <2>0, <2>15 DEF Creates, WorldStates
    <3> HIDE DEF v
    <3>4. [world.facts EXCEPT !["task"] = v] \in [Facts -> 0..MaxMoves]
      BY <2>0, <3>2
    <3>5. world' \in WorldStates
      BY <2>0, <3>3, <3>4 DEF WorldStates
    <3> QED BY <2>0, <2>15, <3>1, <3>5 DEF Creates, LaunchTypeOK, CallStates, DeskStates, WorldStates
  <2>16. ASSUME Succeeds PROVE LaunchTypeOK'
    <3>1. (launch.way \in {"start", "again"}) \in BOOLEAN
      OBVIOUS
    <3>2. desk' \in DeskStates
      BY <2>0, <2>16, <3>1, NewDesks, Zenon DEF Succeeds
    <3> QED BY <2>0, <2>16, <2>a, <3>2, NewDesks DEF Succeeds
  <2>17. ASSUME Failed PROVE LaunchTypeOK'
    <3> DEFINE g == [desk.given EXCEPT !["file"] = NotShown, !["project"] = NotShown]
    <3>1. g \in [Consents -> Versioned]
      BY <2>0 DEF DeskStates
    <3>2. AfterFailure \in {NewDesk(desk.view), [desk EXCEPT !.given = g], desk}
      BY <2>0 DEF AfterFailure, DeskStates
    <3> HIDE DEF g
    <3>3. [desk EXCEPT !.given = g] \in DeskStates
      BY <2>0, <3>1 DEF DeskStates
    <3>4. AfterFailure \in DeskStates
      BY <2>0, <3>2, <3>3, NewDesks
    <3> QED BY <2>0, <2>17, <2>a, <3>4, NewDesks DEF Failed
  <2>18. CASE UNCHANGED launchVars
    BY <2>18 DEF launchVars, LaunchTypeOK
  <2> QED BY <2>1, <2>2, <2>3, <2>4, <2>5, <2>6, <2>7, <2>8, <2>9, <2>10, <2>11, <2>12, <2>13,
             <2>14, <2>15, <2>16, <2>17, <2>18 DEF LaunchNext
<1> QED BY <1>1, <1>2, PTL DEF LaunchSpec

\* A file is agreed to by its id, and only while it is there: its version is the first.
Due(f, v) == IF f = "file" THEN 0 ELSE v[f]
\* What is agreed to is what the form shows now.
ConsentsAreSeen ==
  \A c \in Consents : Agreed(c) =>
    /\ c \in Asked
    /\ \A f \in RestsOn(c) : desk.given[c][f] = Due(f, Sight)
\* A restart's preview is made of a file that is there.
PreviewsAreWhole ==
  launch.way = "restart" /\ desk.shown # NotShown /\ Carries("file") => desk.shown["file"] = 0
\* What is sent is what was agreed to.
CallsAreSeen ==
  call.phase \in {"checking", "rechecking", "sent"} =>
    /\ \A c \in Asked : \A f \in RestsOn(c) : call.agreed[c][f] = Due(f, call.told)
    /\ launch.way \in {"retry", "again"} => call.told = Frozen
LiveIsOpen == call.live => desk.open
LaunchInv == ConsentsAreSeen /\ PreviewsAreWhole /\ CallsAreSeen /\ LiveIsOpen

\* The facts that a consent asked for is about are facts, its file one that goes along.
LEMMA RestsOnFacts ==
  ASSUME launch \in Ways
  PROVE  /\ Asked \subseteq Consents
         /\ \A c \in Consents : RestsOn(c) \subseteq Facts
         /\ \A c \in Asked : /\ "file" \in RestsOn(c) => Carries("file")
                             /\ "source" \in RestsOn(c) => Carries("project")
                             /\ launch.way # "restart" /\ "task" \in RestsOn(c) => Carries("rework")
         /\ launch.way = "start" => Asked = launch.carries /\ Asked \subseteq Loads
         /\ launch.way = "start" => "source" \notin RestsOn("rework")
         /\ launch.way = "start" => "source" \notin RestsOn("file")
<1>1. Asked \subseteq Consents
  BY DEF Ways, Asked, Consents, Loads
<1>2. Involved \subseteq Facts
  BY DEF Involved, Facts
<1>3. \A c \in Consents : RestsOn(c) \subseteq Facts
  BY <1>2 DEF RestsOn, Facts
<1>4. launch.way = "start" => Asked = launch.carries /\ Asked \subseteq Loads
  BY DEF Asked, Ways
<1>5. ASSUME NEW c \in Asked
      PROVE  /\ "file" \in RestsOn(c) => Carries("file")
             /\ "source" \in RestsOn(c) => Carries("project")
             /\ launch.way # "restart" /\ "task" \in RestsOn(c) => Carries("rework")
  <2>1. CASE c \in launch.carries
    BY <2>1, <1>1 DEF RestsOn, Carries, Involved, Consents, Loads, Ways
  <2>2. CASE c = "restart" /\ launch.way = "restart"
    BY <2>2 DEF RestsOn, Carries, Involved
  <2>3. CASE c = "execution"
    BY <2>3 DEF RestsOn
  <2> QED BY <2>1, <2>2, <2>3 DEF Asked
<1>6. "source" \notin RestsOn("rework") /\ "source" \notin RestsOn("file")
  BY DEF RestsOn
<1> QED BY <1>1, <1>3, <1>4, <1>5, <1>6

\* A form that was begun anew has nothing agreed to.
LEMMA NothingIsSeen ==
  ASSUME launch' = launch, desk'.given = NothingAgreed
  PROVE  ConsentsAreSeen'
  BY DEF ConsentsAreSeen, Agreed, NothingAgreed

\* Reads of any one fact leave every consent that stands true to what is shown.
LEMMA ReadsAreSeen ==
  ASSUME LaunchTypeOK, LaunchInv, launch' = launch, NEW f \in Facts \ {"source"}, NEW v \in 0..MaxMoves,
         desk' = Reread(f, v)
  PROVE  ConsentsAreSeen' /\ PreviewsAreWhole'
<1> USE LaunchValues
<1>1. desk'.view = [desk.view EXCEPT ![f] = v] /\ desk'.given = Cleared(f) /\ desk'.shown = Preview(f)
  BY RereadDesk
<1>2. PreviewsAreWhole'
  BY <1>1 DEF PreviewsAreWhole, Preview, Carries
<1>3. CASE f \in Watched
  BY <1>1, <1>2, <1>3, NothingIsSeen DEF Cleared
<1>4. CASE f \notin Watched
  <2>1. launch.way = "start" /\ f = "file" /\ desk'.given = desk.given
    BY <1>1, <1>4 DEF Watched, Facts, Cleared
  <2>2. \A g \in Facts \ {"file"} : desk'.view[g] = desk.view[g]
    BY <1>1, <2>1 DEF LaunchTypeOK, Versioned
  <2>3. Sight = desk.view /\ Sight' = desk'.view
    BY <2>1 DEF Sight
  <2>4. Asked' = Asked /\ \A c \in Consents : RestsOn(c)' = RestsOn(c) /\ RestsOn(c) \subseteq Facts
    BY RestsOnFacts DEF LaunchTypeOK, Asked, RestsOn, Involved, Carries
  <2>5. \A g \in Facts : Due(g, Sight)' = Due(g, Sight)
    BY <2>2, <2>3 DEF Due
  <2>6. \A c \in Consents : Agreed(c)' = Agreed(c)
    BY <2>1 DEF Agreed
  <2>7. ASSUME NEW c \in Consents, Agreed(c)
        PROVE  c \in Asked /\ \A g \in RestsOn(c) : desk'.given[c][g] = Due(g, Sight)'
    BY <2>1, <2>4, <2>5, <2>7 DEF LaunchInv, ConsentsAreSeen
  <2>8. ConsentsAreSeen'
    BY <2>4, <2>6, <2>7 DEF ConsentsAreSeen
  <2> QED BY <1>2, <2>8
<1> QED BY <1>3, <1>4

LEMMA LaunchInvStep ==
  ASSUME LaunchTypeOK, LaunchTypeOK', LaunchInv, [LaunchNext]_launchVars
  PROVE  LaunchInv'
<1> USE LaunchValues
<1>0. /\ desk \in DeskStates /\ call \in CallStates /\ launch \in Ways /\ launch' = launch
      /\ world.facts \in [Facts -> 0..MaxMoves] /\ desk.view \in Versioned
  BY DEF LaunchTypeOK, DeskStates, CallStates, launchVars, LaunchNext, Edits, Reassigns, RunsElsewhere,
         Reads, PicksAgain, TakesBack, Leaves, Returns, PreviewsRework, PreviewsRestart, Agrees, Clicks,
         Checks, SendsStart, GivesUp, Creates, Declines, Vanishes, Succeeds, Failed
<1>s. ASSUME desk' = desk PROVE ConsentsAreSeen' /\ PreviewsAreWhole'
  BY <1>0, <1>s DEF LaunchInv, ConsentsAreSeen, PreviewsAreWhole, Agreed, Asked, RestsOn, Involved, Carries,
                    Due, Sight
<1>c. ASSUME /\ call'.phase \in {"checking", "rechecking", "sent"} =>
                  call.phase \in {"checking", "rechecking", "sent"}
             /\ call'.told = call.told /\ call'.agreed = call.agreed
      PROVE  CallsAreSeen'
  BY <1>0, <1>c DEF LaunchInv, CallsAreSeen, Asked, RestsOn, Involved, Carries, Due
<1>n. ASSUME desk'.given = NothingAgreed, desk'.shown = NotShown PROVE ConsentsAreSeen' /\ PreviewsAreWhole'
  BY <1>0, <1>n, NothingIsSeen DEF PreviewsAreWhole
<1>d. ASSUME NEW v \in Versioned, NEW b \in BOOLEAN
      PROVE  /\ NewDesk(v).given = NothingAgreed /\ NewDesk(v).shown = NotShown
             /\ [NewDesk(v) EXCEPT !.open = b].given = NothingAgreed
             /\ [NewDesk(v) EXCEPT !.open = b].shown = NotShown
  BY DEF NewDesk
<1>q. ~NoCall.live /\ NoCall.phase = "none"
  BY DEF NoCall
<1>1. ASSUME Edits \/ Reassigns \/ RunsElsewhere PROVE LaunchInv'
  BY <1>0, <1>1, <1>s, <1>c DEF Edits, Reassigns, RunsElsewhere, LaunchInv, LiveIsOpen
<1>2. ASSUME Reads PROVE LaunchInv'
  <2>1. PICK f \in Involved \ {"source"} :
          desk' = Reread(f, world.facts[f]) /\ call' = Overtaken(f)
    BY <1>2 DEF Reads
  <2>2. f \in Facts \ {"source"} /\ world.facts[f] \in 0..MaxMoves
    BY <1>0 DEF Involved, Facts
  <2>3. CallsAreSeen' /\ LiveIsOpen'
    BY <2>1, <2>2, <1>c, RereadDesk DEF LaunchInv, LiveIsOpen
  <2> QED BY <1>0, <2>1, <2>2, <2>3, ReadsAreSeen DEF LaunchInv
<1>3. ASSUME PicksAgain PROVE LaunchInv'
  <2>1. desk'.open = desk.open /\ call' = call /\ desk'.view = [desk.view EXCEPT !["source"] = world.facts["source"]]
    BY <1>0, <1>3 DEF PicksAgain, DeskStates
  <2>2. CallsAreSeen' /\ LiveIsOpen'
    BY <2>1, <1>c DEF LaunchInv, LiveIsOpen
  <2>3. CASE launch.way = "restart"
    <3>1. desk'.given = NothingAgreed /\ desk'.shown = NotShown
      BY <1>0, <1>3, <2>3 DEF PicksAgain, DeskStates
    <3> QED BY <2>2, <3>1, <1>n DEF LaunchInv
  <2>4. CASE launch.way = "start"
    <3>1. desk'.given = [desk.given EXCEPT !["file"] = NotShown, !["project"] = NotShown]
      BY <1>0, <1>3, <2>4 DEF PicksAgain, DeskStates
    <3>2. \A c \in Consents : Agreed(c)' => Agreed(c) /\ c \notin {"file", "project"} /\ desk'.given[c] = desk.given[c]
      BY <1>0, <3>1 DEF Agreed, DeskStates
    <3>3. Asked' = Asked /\ \A c \in Consents : RestsOn(c)' = RestsOn(c)
      BY <1>0 DEF Asked, RestsOn, Involved, Carries
    <3>4. ASSUME NEW c \in Consents, Agreed(c)'
          PROVE  c \in Asked /\ \A f \in RestsOn(c) : desk'.given[c][f] = Due(f, Sight)'
      <4>1. c \in Asked /\ c = "rework"
        BY <1>0, <2>4, <3>2, <3>4, RestsOnFacts DEF LaunchInv, ConsentsAreSeen, Loads
      <4>2. \A f \in RestsOn(c) : f \in Facts /\ f # "source"
        BY <1>0, <2>4, <4>1, RestsOnFacts
      <4>3. \A f \in RestsOn(c) : desk'.view[f] = desk.view[f]
        BY <1>0, <2>1, <4>2 DEF Versioned
      <4>4. \A f \in RestsOn(c) : Due(f, Sight)' = Due(f, Sight)
        BY <1>0, <2>4, <4>3 DEF Due, Sight
      <4> QED BY <3>2, <3>4, <4>1, <4>4 DEF LaunchInv, ConsentsAreSeen
    <3>5. ConsentsAreSeen'
      BY <3>3, <3>4 DEF ConsentsAreSeen
    <3>6. PreviewsAreWhole'
      BY <1>0, <2>4 DEF PreviewsAreWhole
    <3> QED BY <2>2, <3>5, <3>6 DEF LaunchInv
  <2> QED BY <1>3, <2>3, <2>4 DEF PicksAgain
<1>4. ASSUME TakesBack \/ Returns PROVE LaunchInv'
  <2>1. desk'.given = NothingAgreed /\ desk'.shown = NotShown /\ desk'.open /\ call' = call
    BY <1>0, <1>4, <1>d, NewDesks DEF TakesBack, Returns
  <2> QED BY <2>1, <1>n, <1>c DEF LaunchInv, LiveIsOpen
<1>5. ASSUME Leaves PROVE LaunchInv'
  <2>1. desk'.given = NothingAgreed /\ desk'.shown = NotShown
    BY <1>0, <1>5, <1>d DEF Leaves
  <2>2. ~call'.live /\ call'.phase = call.phase /\ call'.told = call.told /\ call'.agreed = call.agreed
    BY <1>0, <1>5 DEF Leaves, CallStates
  <2> QED BY <2>1, <2>2, <1>n, <1>c DEF LaunchInv, LiveIsOpen
<1>6. ASSUME PreviewsRework PROVE LaunchInv'
  <2>1. /\ desk'.open = desk.open /\ call' = call /\ desk'.view = desk.view
        /\ desk'.given = [desk.given EXCEPT !["rework"] = NotShown]
    BY <1>0, <1>6 DEF PreviewsRework, DeskStates
  <2>2. Sight' = Sight /\ Asked' = Asked /\ \A c \in Consents : RestsOn(c)' = RestsOn(c)
    BY <1>0, <1>6, <2>1 DEF PreviewsRework, Sight, Asked, RestsOn, Involved, Carries
  <2>3. \A c \in Consents : Agreed(c)' => Agreed(c) /\ desk'.given[c] = desk.given[c]
    BY <1>0, <2>1 DEF Agreed, DeskStates
  <2>4. ConsentsAreSeen'
    BY <2>2, <2>3 DEF LaunchInv, ConsentsAreSeen, Due
  <2>5. PreviewsAreWhole'
    BY <1>0, <1>6 DEF PreviewsRework, PreviewsAreWhole
  <2> QED BY <2>1, <2>4, <2>5, <1>c DEF LaunchInv, LiveIsOpen
<1>7. ASSUME PreviewsRestart PROVE LaunchInv'
  <2>1. /\ desk'.open = desk.open /\ call' = call
        /\ desk'.shown = world.facts /\ desk'.given = NothingAgreed
    BY <1>0, <1>7 DEF PreviewsRestart, DeskStates
  <2>2. PreviewsAreWhole'
    BY <1>0, <1>7, <2>1 DEF PreviewsRestart, Freezable, FilesStand, PreviewsAreWhole, Carries
  <2> QED BY <1>0, <2>1, <2>2, <1>c, NothingIsSeen DEF LaunchInv, LiveIsOpen
<1>8. ASSUME Agrees PROVE LaunchInv'
  <2>1. PICK c \in Asked : Legible(c) /\ desk' =
          [desk EXCEPT !.given[c] = [f \in Facts |-> IF f \in RestsOn(c) THEN Sight[f] ELSE Unknown]]
    BY <1>8 DEF Agrees
  <2> DEFINE s == [f \in Facts |-> IF f \in RestsOn(c) THEN Sight[f] ELSE Unknown]
  <2>2. c \in Consents /\ RestsOn(c) \subseteq Facts
    BY <1>0, RestsOnFacts
  <2>3. \A f \in RestsOn(c) : s[f] = Due(f, Sight)
    <3>1. ASSUME "file" \in RestsOn(c) PROVE Sight["file"] = 0
      <4>1. Carries("file")
        BY <1>0, <3>1, RestsOnFacts
      <4>2. CASE launch.way = "start"
        <5>1. c = "file"
          BY <1>0, <4>2, <3>1, RestsOnFacts DEF RestsOn, Loads
        <5> QED BY <2>1, <4>2, <5>1 DEF Legible, Sight
      <4>3. CASE launch.way = "restart"
        <5>1. desk.shown # NotShown
          BY <2>1, <4>3 DEF Legible
        <5> QED BY <4>1, <4>3, <5>1 DEF LaunchInv, PreviewsAreWhole, Sight
      <4>4. CASE launch.way \notin {"start", "restart"}
        BY <4>4 DEF Sight, Frozen, Facts
      <4> QED BY <4>2, <4>3, <4>4
    <3> QED BY <2>2, <3>1 DEF Due
  <2> HIDE DEF s
  <2>4. /\ desk'.given = [desk.given EXCEPT ![c] = s] /\ desk'.view = desk.view
        /\ desk'.shown = desk.shown /\ desk'.open = desk.open /\ call' = call
    BY <1>0, <1>8, <2>1 DEF Agrees, DeskStates, s
  <2>5. Sight' = Sight /\ Asked' = Asked /\ \A d \in Consents : RestsOn(d)' = RestsOn(d)
    BY <1>0, <2>4 DEF Sight, Asked, RestsOn, Involved, Carries
  <2>6. ASSUME NEW d \in Consents, Agreed(d)'
        PROVE  d \in Asked /\ \A f \in RestsOn(d) : desk'.given[d][f] = Due(f, Sight)
    <3>1. CASE d = c
      BY <1>0, <2>2, <2>3, <2>4, <3>1 DEF DeskStates
    <3>2. CASE d # c
      <4>1. desk'.given[d] = desk.given[d]
        BY <1>0, <2>4, <3>2 DEF DeskStates
      <4> QED BY <2>6, <4>1 DEF LaunchInv, ConsentsAreSeen, Agreed
    <3> QED BY <3>1, <3>2
  <2>7. ConsentsAreSeen'
    BY <2>5, <2>6 DEF ConsentsAreSeen, Due
  <2>8. PreviewsAreWhole'
    BY <1>0, <2>4 DEF LaunchInv, PreviewsAreWhole, Carries
  <2> QED BY <2>4, <2>7, <2>8, <1>c DEF LaunchInv, LiveIsOpen
<1>9. ASSUME Clicks PROVE LaunchInv'
  <2>1. /\ call'.told = Sight /\ call'.live = TRUE
        /\ call'.agreed = IF launch.way = "again" THEN Inherited ELSE desk.given
    BY <1>9 DEF Clicks, NoCall
  <2>2. desk.open /\ desk' = desk
    BY <1>9 DEF Clicks, AtDesk
  <2>3. Asked' = Asked /\ \A c \in Asked : RestsOn(c)' = RestsOn(c) /\ c \in Consents
    BY <1>0, RestsOnFacts DEF Asked, RestsOn, Involved, Carries
  <2>4. ASSUME NEW c \in Asked, NEW f \in RestsOn(c)
        PROVE  call'.agreed[c][f] = Due(f, Sight)
    <3>1. CASE launch.way # "again"
      <4>1. Agreed(c)
        BY <1>9, <3>1 DEF Clicks, Ready
      <4> QED BY <2>1, <2>3, <3>1, <4>1 DEF LaunchInv, ConsentsAreSeen
    <3>2. CASE launch.way = "again"
      <4>1. c \in launch.carries /\ f \in Facts /\ c \in Consents
        BY <1>0, <2>3, <3>2, RestsOnFacts DEF Asked
      <4>2. Inherited[c][f] = 0
        BY <4>1, <2>4 DEF Inherited, Carries
      <4>3. Due(f, Sight) = 0
        BY <4>1, <3>2 DEF Due, Sight, Frozen
      <4> QED BY <2>1, <3>2, <4>2, <4>3
    <3> QED BY <3>1, <3>2
  <2>5. launch.way \in {"retry", "again"} => Sight = Frozen
    BY DEF Sight
  <2>6. CallsAreSeen'
    BY <1>0, <2>1, <2>3, <2>4, <2>5 DEF CallsAreSeen, Due
  <2> QED BY <1>s, <2>1, <2>2, <2>6 DEF LaunchInv, LiveIsOpen
<1>10. ASSUME Checks PROVE LaunchInv'
  <2> DEFINE newer == desk.open /\ desk.view["provider"] # world.facts["provider"]
             read == IF newer THEN Overtaken("provider") ELSE call
  <2>1. /\ call.phase = "checking"
        /\ desk' = IF newer THEN Reread("provider", world.facts["provider"]) ELSE desk
        /\ \/ call' = [read EXCEPT !.phase = IF launch.way = "again" THEN "sent" ELSE "rechecking",
                         !.assign = IF world.slot = "empty" THEN world.facts["task"] ELSE Unknown]
           \/ call' = [read EXCEPT !.phase = "failed"]
    BY <1>10 DEF Checks
  <2>2. world.facts["provider"] \in 0..MaxMoves /\ "provider" \in Facts \ {"source"}
    BY <1>0 DEF Facts
  <2>3. /\ read \in CallStates /\ read.told = call.told /\ read.agreed = call.agreed
        /\ read.live => call.live
    BY <1>0, <2>2, RereadDesk
  <2>4. desk'.open = desk.open
    BY <2>1, <2>2, RereadDesk
  <2>5. ConsentsAreSeen' /\ PreviewsAreWhole'
    <3>1. CASE newer
      BY <1>0, <2>1, <2>2, <3>1, ReadsAreSeen
    <3>2. CASE ~newer
      BY <2>1, <3>2, <1>s
    <3> QED BY <3>1, <3>2
  <2> HIDE DEF read, newer
  <2>6. call'.told = call.told /\ call'.agreed = call.agreed /\ call'.live = read.live
    BY <2>1, <2>3 DEF CallStates
  <2>7. CallsAreSeen'
    BY <2>1, <2>6, <1>c
  <2> QED BY <2>3, <2>4, <2>5, <2>6, <2>7 DEF LaunchInv, LiveIsOpen
<1>11. ASSUME SendsStart \/ GivesUp \/ Declines \/ Vanishes \/ Creates PROVE LaunchInv'
  <2>1. /\ desk' = desk /\ call'.told = call.told /\ call'.agreed = call.agreed /\ call'.live = call.live
        /\ call'.phase \in {"checking", "rechecking", "sent"} => call.phase \in {"checking", "rechecking", "sent"}
    BY <1>0, <1>11 DEF SendsStart, GivesUp, Declines, Vanishes, Creates, CallStates
  <2> QED BY <2>1, <1>s, <1>c DEF LaunchInv, LiveIsOpen
<1>12. ASSUME Succeeds PROVE LaunchInv'
  <2>1. call' = NoCall
    BY <1>12 DEF Succeeds
  <2>2. CallsAreSeen' /\ LiveIsOpen'
    BY <2>1, <1>q DEF CallsAreSeen, LiveIsOpen
  <2>3. (launch.way \in {"start", "again"}) \in BOOLEAN
    OBVIOUS
  <2>4. CASE desk.open
    <3>1. desk'.given = NothingAgreed /\ desk'.shown = NotShown
      BY <1>0, <1>12, <2>3, <2>4, <1>d, Zenon DEF Succeeds
    <3> QED BY <2>2, <3>1, <1>n DEF LaunchInv
  <2>5. CASE ~desk.open
    BY <1>12, <2>2, <2>5, <1>s DEF Succeeds, LaunchInv
  <2> QED BY <2>4, <2>5
<1>13. ASSUME Failed PROVE LaunchInv'
  <2>1. call' = NoCall
    BY <1>13 DEF Failed
  <2>2. CallsAreSeen' /\ LiveIsOpen'
    BY <2>1, <1>q DEF CallsAreSeen, LiveIsOpen
  <2> DEFINE g == [desk.given EXCEPT !["file"] = NotShown, !["project"] = NotShown]
  <2>3. \/ desk' = NewDesk(desk.view) \/ desk' = desk
        \/ desk' = [desk EXCEPT !.given = g]
    BY <1>0, <1>13 DEF Failed, AfterFailure, DeskStates
  <2>4. CASE desk' = NewDesk(desk.view)
    BY <1>0, <2>2, <2>4, <1>d, <1>n DEF LaunchInv
  <2>5. CASE desk' = desk
    BY <2>2, <2>5, <1>s DEF LaunchInv
  <2>6. CASE desk' = [desk EXCEPT !.given = g]
    <3>1. desk'.given = g /\ desk'.view = desk.view /\ desk'.shown = desk.shown
      BY <1>0, <2>6 DEF DeskStates
    <3>2. \A c \in Consents : Agreed(c)' => Agreed(c) /\ desk'.given[c] = desk.given[c]
      BY <1>0, <3>1 DEF Agreed, DeskStates
    <3>3. Sight' = Sight /\ Asked' = Asked /\ \A c \in Consents : RestsOn(c)' = RestsOn(c)
      BY <1>0, <3>1 DEF Sight, Asked, RestsOn, Involved, Carries
    <3>4. ConsentsAreSeen' /\ PreviewsAreWhole'
      BY <1>0, <3>1, <3>2, <3>3 DEF LaunchInv, ConsentsAreSeen, PreviewsAreWhole, Due, Carries
    <3> QED BY <2>2, <3>4 DEF LaunchInv
  <2> QED BY <2>3, <2>4, <2>5, <2>6
<1>14. CASE UNCHANGED launchVars
  BY <1>14, <1>s, <1>c DEF launchVars, LaunchInv, LiveIsOpen
<1> QED BY <1>1, <1>2, <1>3, <1>4, <1>5, <1>6, <1>7, <1>8, <1>9, <1>10, <1>11, <1>12, <1>13, <1>14
        DEF LaunchNext

\* A run is made of what was agreed to, as it was when it was agreed to, and what was
\* left before it was sent is not sent (startMutation, create and retry of the forms;
\* createAgentRun, retryAgentRun and prepareAgentRun of the service).
THEOREM LaunchesAreWhatWasAgreed == LaunchSpec => LaunchesAreAgreed
<1>1. LaunchInit => LaunchInv
  BY DEF LaunchInit, LaunchInv, ConsentsAreSeen, PreviewsAreWhole, CallsAreSeen, LiveIsOpen, NewDesk, NoCall,
         Agreed, NothingAgreed
<1>2. LaunchTypeOK /\ LaunchTypeOK' /\ LaunchInv /\ [LaunchNext]_launchVars => LaunchInv'
  BY LaunchInvStep
<1>3. LaunchTypeOK /\ LaunchInv /\ [LaunchNext]_launchVars =>
        [/\ Creates => \A c \in Asked : \A f \in RestsOn(c) : call.agreed[c][f] = world.facts[f]
         /\ SendsStart /\ MindsTheOwner => desk.open]_launchVars
  <2> SUFFICES ASSUME LaunchTypeOK, LaunchInv
               PROVE  /\ Creates => \A c \in Asked : \A f \in RestsOn(c) : call.agreed[c][f] = world.facts[f]
                      /\ SendsStart /\ MindsTheOwner => desk.open
    OBVIOUS
  <2>1. ASSUME SendsStart, MindsTheOwner PROVE desk.open
    BY <2>1 DEF SendsStart, Rechecked, LaunchInv, LiveIsOpen
  <2>2. ASSUME Creates, NEW c \in Asked, NEW f \in RestsOn(c)
        PROVE  call.agreed[c][f] = world.facts[f]
    <3>0. launch \in Ways /\ f \in Facts /\ c \in Consents
      BY RestsOnFacts DEF LaunchTypeOK
    <3>1. call.agreed[c][f] = Due(f, call.told) /\ (launch.way \in {"retry", "again"} => call.told = Frozen)
      BY <2>2 DEF Creates, LaunchInv, CallsAreSeen
    <3>2. Identity /\ Freezable(call.told) /\ Fingerprint
      BY <2>2 DEF Creates, Accepts
    <3>3. CASE f = "file"
      BY <3>0, <3>1, <3>2, <3>3, <2>2, RestsOnFacts DEF Due, Freezable, FilesStand, SourceStands, ReworkStands
    <3>4. CASE f = "source"
      BY <3>0, <3>1, <3>2, <3>4, <2>2, RestsOnFacts DEF Due, Freezable, FilesStand, SourceStands, ReworkStands
    <3>5. CASE f \in {"task", "provider"} /\ launch.way = "restart"
      BY <3>0, <3>1, <3>2, <3>5 DEF Due, Fingerprint, SamePreview, Involved
    <3>6. CASE f \in {"task", "provider"} /\ launch.way \in {"retry", "again"}
      BY <3>0, <3>1, <3>2, <3>6 DEF Due, Identity, Frozen
    <3>7. CASE f \in {"task", "provider"} /\ launch.way = "start"
      <4>1. c \in launch.carries /\ Confirms
        BY <3>0, <3>7, RestsOnFacts DEF Confirms
      <4>2. CASE f = "provider"
        BY <3>1, <3>2, <3>7, <4>1, <4>2 DEF Due, Identity, SameProvider
      <4>3. CASE f = "task"
        BY <3>0, <3>1, <3>2, <3>7, <4>3, <2>2, RestsOnFacts DEF Due, Freezable, FilesStand, SourceStands, ReworkStands
      <4> QED BY <3>7, <4>2, <4>3
    <3> QED BY <3>0, <3>3, <3>4, <3>5, <3>6, <3>7 DEF Ways, Facts
  <2> QED BY <2>1, <2>2
<1> QED BY <1>1, <1>2, <1>3, LaunchTypeCorrect, PTL DEF LaunchSpec, LaunchesAreAgreed

=============================================================================
