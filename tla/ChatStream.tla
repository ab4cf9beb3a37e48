----------------------------- MODULE ChatStream -----------------------------
(* The chat of one window with its sidecar: a message is sent under a request *)
(* identity, its generation is streamed, stopped, cut off or answered late,    *)
(* and a recovery that polls the service picks up what the stream has lost.    *)
(* The generations of another window, and those a continuation lease runs in   *)
(* the background, are there to be mistaken for this window's.                 *)
EXTENDS Naturals, Sequences

CONSTANTS MaxRequests,   \* request identities this window makes
          MaxRevisions,  \* times the draft is typed
          MaxInputs,     \* both, in all
          MaxFaults      \* connections lost, recoveries failed
ASSUME ChatAssumption == MaxRequests \in Nat /\ MaxRevisions \in Nat /\ MaxInputs \in Nat /\ MaxFaults \in Nat

VARIABLES
  generations,  \* the service: the state of each generation
  background,   \* the one from elsewhere is a turn of a lease, not another window's message
  late,         \* requests given up by the window that may still arrive
  draft,        \* what is typed, and its revision
  requests,     \* the identities made: the message and the revision each was made for
  uncertain,    \* uncertainRequest: the last request whose fate is not known
  saved,        \* the request identity kept in session storage
  call,         \* the stream being read (controller)
  streaming,    \* the generation the page shows as running
  retained,     \* the ended turns the page shows
  outcomes,     \* the drafts of accepted sends that have ended, the page not reacting yet
  recovery,     \* the status lookup in progress
  owed,         \* a send or a stop will look its generation up
  faults
vars == <<generations, background, late, draft, requests, uncertain, saved, call, streaming,
          retained, outcomes, recovery, owed, faults>>

Requests == 1..MaxRequests
Elsewhere == MaxRequests + 1   \* a generation this window has not asked for
Generations == Requests \cup {Elsewhere}
NoOne == 0
Ended == {"completed", "cut"}  \* cut: failed or cancelled, which the page treats alike
Texts == 1..2
Empty == 0

NoRequest == [id |-> NoOne, text |-> Empty, revision |-> 0]
NoCall == [id |-> NoOne, fresh |-> FALSE, accepted |-> FALSE, aborted |-> FALSE]
NotStreaming == [on |-> FALSE, id |-> NoOne]
NoRecovery == [step |-> "none", asked |-> NoOne, active |-> {}, answer |-> "none"]

Init ==
  /\ generations = [g \in Generations |-> "none"] /\ late = {}
  /\ background \in BOOLEAN
  /\ draft = [text |-> Empty, revision |-> 0]
  /\ requests = <<>>
  /\ uncertain = NoRequest /\ saved = NoOne
  /\ call = NoCall /\ streaming = NotStreaming
  /\ retained = [g \in Generations |-> "none"]
  /\ outcomes = {} /\ recovery = NoRecovery /\ owed = FALSE /\ faults = 0

Calling == call.id # NoOne
Unknown(g) == generations[g] \in {"none", "gone"}
\* A newer recoveryRevision: the lookup in progress will find that it is not its own.
Stale(r) == IF r.step = "none" THEN r ELSE [NoRecovery EXCEPT !.step = "stale"]
service == <<generations, background, late>>
typing == <<draft, requests>>

----------------------------------------------------------------------------
\* The service.
GenerationEnds ==
  /\ \E g \in Generations, e \in Ended :
       /\ generations[g] = "active"
       /\ g = Elsewhere => e = "completed"
       /\ generations' = [generations EXCEPT ![g] = e]
  /\ UNCHANGED <<background, late, typing, uncertain, saved, call, streaming, retained, outcomes, recovery, owed, faults>>
OthersStart ==
  /\ generations[Elsewhere] = "none"
  /\ generations' = [generations EXCEPT ![Elsewhere] = "active"]
  /\ UNCHANGED <<background, late, typing, uncertain, saved, call, streaming, retained, outcomes, recovery, owed, faults>>
Accepts ==
  /\ Calling /\ Unknown(call.id)
  /\ generations' = [generations EXCEPT ![call.id] = "active"]
  /\ call' = [call EXCEPT !.fresh = TRUE]
  /\ UNCHANGED <<background, late, typing, uncertain, saved, streaming, retained, outcomes, recovery, owed, faults>>
\* A request the window has given up still arrives, unless it did before.
ArrivesLate ==
  /\ \E r \in late :
       /\ late' = late \ {r}
       /\ generations' = IF Unknown(r) THEN [generations EXCEPT ![r] = "active"]
                         ELSE generations
  /\ UNCHANGED <<background, typing, uncertain, saved, call, streaming, retained, outcomes, recovery, owed, faults>>

----------------------------------------------------------------------------
\* The page.
HasInputs == draft.revision + Len(requests) < MaxInputs
Type ==
  /\ draft.revision < MaxRevisions /\ HasInputs
  /\ \E t \in Texts :
       /\ t <= draft.revision + 1   \* the first text typed is called 1
       /\ draft' = [text |-> t, revision |-> draft.revision + 1]
  /\ UNCHANGED <<service, requests, uncertain, saved, call, streaming, retained, outcomes, recovery, owed, faults>>
\* The same message, sent again while the fate of the last one is not known, is the
\* same request.
Retries == uncertain.id # NoOne /\ uncertain.text = draft.text
Send ==
  /\ draft.text # Empty /\ ~streaming.on /\ ~Calling
  /\ Retries \/ (Len(requests) < MaxRequests /\ HasInputs)
  /\ LET id == IF Retries THEN uncertain.id ELSE Len(requests) + 1 IN
       /\ requests' = IF Retries THEN requests
                      ELSE Append(requests, [text |-> draft.text, revision |-> draft.revision])
       /\ uncertain' = [id |-> id, text |-> draft.text, revision |-> draft.revision]
       /\ saved' = id
       /\ call' = [NoCall EXCEPT !.id = id]
  /\ streaming' = [on |-> TRUE, id |-> NoOne]
  /\ recovery' = Stale(recovery) /\ owed' = FALSE
  /\ UNCHANGED <<service, draft, retained, outcomes, faults>>
\* Mutant: what was typed since is not looked at.
Reacts_Overwrites ==
  /\ \E o \in outcomes :
       /\ outcomes' = outcomes \ {o}
       /\ draft' = [draft EXCEPT !.text = Empty]
  /\ UNCHANGED <<service, requests, uncertain, saved, call, streaming, retained, recovery, owed, faults>>
\* The page clears the draft of an accepted message, unless it was typed since.
Reacts ==
  /\ \E o \in outcomes :
       /\ outcomes' = outcomes \ {o}
       /\ draft' = IF o = draft.revision THEN [draft EXCEPT !.text = Empty] ELSE draft
  /\ UNCHANGED <<service, requests, uncertain, saved, call, streaming, retained, recovery, owed, faults>>

----------------------------------------------------------------------------
\* The stream. Its meta frame is the acceptance, its last frame the end.
Meta ==
  /\ Calling /\ call.fresh /\ ~call.accepted /\ ~call.aborted
  /\ call' = [call EXCEPT !.accepted = TRUE]
  /\ streaming' = [on |-> TRUE, id |-> call.id]
  /\ saved' = call.id
  /\ UNCHANGED <<service, typing, uncertain, retained, outcomes, recovery, owed, faults>>

\* send's finally: what is known of the call is kept, the lookup in progress is of
\* an earlier time, and a send whose generation may live on looks it up.
Ends(accepted, looks) ==
  /\ call' = NoCall
  /\ outcomes' = IF accepted THEN outcomes \cup {uncertain.revision} ELSE outcomes
  /\ recovery' = Stale(recovery)
  /\ owed' = looks
Forgets == uncertain' = NoRequest /\ saved' = NoOne
StreamEnds ==
  /\ Calling /\ call.accepted /\ ~call.aborted /\ generations[call.id] \in Ended
  /\ Ends(TRUE, generations[call.id] # "completed")
  /\ Forgets
  /\ streaming' = NotStreaming
  /\ retained' = [retained EXCEPT ![call.id] = generations[call.id]]
  /\ UNCHANGED <<service, typing, faults>>
\* The service knows the request already: it answers with its generation only.
AlreadyAccepted ==
  /\ Calling /\ ~call.fresh /\ ~call.aborted /\ ~Unknown(call.id)
  /\ Ends(TRUE, TRUE)
  /\ streaming' = [on |-> TRUE, id |-> call.id]
  /\ UNCHANGED <<service, typing, uncertain, saved, retained, faults>>
\* A refusal before the acceptance (busy provider, changed context) is final.
Rejects ==
  /\ Calling /\ ~call.fresh /\ ~call.aborted /\ Unknown(call.id)
  /\ Ends(FALSE, FALSE)
  /\ Forgets
  /\ streaming' = NotStreaming
  /\ UNCHANGED <<service, typing, retained, faults>>
GivenUp == IF call.fresh THEN late ELSE late \cup {call.id}
Breaks ==
  /\ Calling /\ ~call.aborted /\ faults < MaxFaults
  /\ faults' = faults + 1
  /\ Ends(call.accepted, call.accepted)
  /\ late' = GivenUp
  /\ streaming' = NotStreaming
  /\ UNCHANGED <<generations, background, typing, uncertain, saved, retained>>
Aborted ==
  /\ Calling /\ call.aborted
  /\ Ends(call.accepted, TRUE)
  /\ late' = GivenUp
  /\ streaming' = NotStreaming
  /\ UNCHANGED <<generations, background, typing, uncertain, saved, retained, faults>>

\* The service is restarted over restored data: it knows no generation any more,
\* and what was being streamed or was on its way breaks.
DataRestored ==
  /\ faults < MaxFaults /\ faults' = faults + 1
  /\ generations' = [g \in Generations |-> IF generations[g] = "none" THEN "none" ELSE "gone"]
  /\ late' = {}
  /\ IF Calling /\ ~call.aborted
     THEN Ends(call.accepted, call.accepted) /\ streaming' = NotStreaming
     ELSE UNCHANGED <<call, outcomes, recovery, owed, streaming>>
  /\ UNCHANGED <<background, typing, uncertain, saved, retained>>

\* stop: the stream is aborted, and its generation cancelled when it is known; the
\* cancel may not arrive.
Stop ==
  /\ streaming.on
  /\ call' = IF Calling THEN [call EXCEPT !.aborted = TRUE] ELSE call
  /\ generations' \in {generations} \cup
       (IF streaming.id # NoOne /\ generations[streaming.id] = "active"
        THEN {[generations EXCEPT ![streaming.id] = "cut"]} ELSE {})
  /\ recovery' = Stale(recovery)
  /\ owed' = (owed \/ ~Calling)
  /\ UNCHANGED <<background, late, typing, uncertain, saved, streaming, retained, outcomes, faults>>

----------------------------------------------------------------------------
\* recover: the active generations, then the one it is about, if it is not among them.
Starts == recovery' = [NoRecovery EXCEPT !.step = "ask_active"]
\* Mutant: the timer asks only while nothing is shown as running.
Poll_Idle ==
  /\ recovery.step = "none" /\ ~streaming.on
  /\ Starts
  /\ UNCHANGED <<service, typing, uncertain, saved, call, streaming, retained, outcomes, owed, faults>>
Poll ==
  /\ recovery.step = "none"
  /\ Starts
  /\ UNCHANGED <<service, typing, uncertain, saved, call, streaming, retained, outcomes, owed, faults>>
OwedRecovery ==
  /\ owed /\ owed' = FALSE
  /\ IF recovery.step = "none" THEN Starts ELSE UNCHANGED recovery
  /\ UNCHANGED <<service, typing, uncertain, saved, call, streaming, retained, outcomes, faults>>
ServiceAnswers ==
  /\ \/ /\ recovery.step = "ask_active"
        /\ recovery' = [recovery EXCEPT !.step = "active",
                          !.active = {g \in Generations : generations[g] = "active"}]
     \/ /\ recovery.step = "ask_one"
        /\ recovery' = [recovery EXCEPT !.step = "one", !.answer = generations[recovery.asked]]
  /\ UNCHANGED <<service, typing, uncertain, saved, call, streaming, retained, outcomes, owed, faults>>
RecoveryFails ==
  /\ recovery.step # "none" /\ faults < MaxFaults
  /\ faults' = faults + 1
  /\ recovery' = NoRecovery
  /\ UNCHANGED <<service, typing, uncertain, saved, call, streaming, retained, outcomes, owed>>

\* Mutant: whatever is not active is shown as completed.
Adopt_Completed(g, state) ==
  /\ recovery' = NoRecovery
  /\ draft' = IF uncertain.id = g /\ uncertain.revision = draft.revision
              THEN [draft EXCEPT !.text = Empty] ELSE draft
  /\ IF state = "active"
     THEN /\ streaming' = [on |-> TRUE, id |-> g]
          /\ UNCHANGED <<uncertain, saved, retained>>
     ELSE /\ streaming' = NotStreaming
          /\ Forgets
          /\ retained' = [retained EXCEPT ![g] = "completed"]
\* What recover does with the generation it has found.
Adopt(g, state) ==
  /\ recovery' = NoRecovery
  /\ draft' = IF uncertain.id = g /\ uncertain.revision = draft.revision
              THEN [draft EXCEPT !.text = Empty] ELSE draft
  /\ IF state = "active"
     THEN /\ streaming' = [on |-> TRUE, id |-> g]
          /\ UNCHANGED <<uncertain, saved, retained>>
     ELSE /\ streaming' = NotStreaming
          /\ Forgets
          /\ retained' = IF retained[g] # "none" THEN retained ELSE [retained EXCEPT ![g] = state]
Nothing(kept) ==
  /\ recovery' = NoRecovery
  /\ saved' = kept
  /\ UNCHANGED <<draft, uncertain, streaming, retained>>
Manual == IF background THEN recovery.active \ {Elsewhere} ELSE recovery.active
AdoptAny(kept) ==
  IF Manual = {} THEN Nothing(kept)
  ELSE /\ \E g \in Manual :
            /\ draft' = IF uncertain.id = g /\ uncertain.revision = draft.revision
                        THEN [draft EXCEPT !.text = Empty] ELSE draft
            /\ streaming' = [on |-> TRUE, id |-> g]
       /\ recovery' = NoRecovery
       /\ saved' = kept
       /\ UNCHANGED <<uncertain, retained>>
NotMine_Never == FALSE   \* mutant: the controller is not looked at again
NotMine == Calling
Asks(g) ==
  IF g \in recovery.active THEN Adopt(g, "active")
  ELSE /\ recovery' = [recovery EXCEPT !.step = "ask_one", !.asked = g]
       /\ UNCHANGED <<draft, uncertain, saved, streaming, retained>>
ActiveArrives ==
  /\ recovery.step = "active"
  /\ CASE NotMine -> Nothing(saved)
       [] ~NotMine /\ streaming.id # NoOne -> Asks(streaming.id)
       [] ~NotMine /\ streaming.id = NoOne /\ saved # NoOne -> Asks(saved)
       [] OTHER -> AdoptAny(saved)
  /\ UNCHANGED <<service, requests, call, outcomes, owed, faults>>
StaleArrives ==
  /\ recovery.step = "stale"
  /\ recovery' = NoRecovery
  /\ UNCHANGED <<service, typing, uncertain, saved, call, streaming, retained, outcomes, owed, faults>>
\* The window shows a generation the service no longer knows, or has saved a request
\* that never reached it.
Gone ==
  IF streaming.id = recovery.asked
  THEN /\ recovery' = NoRecovery /\ streaming' = NotStreaming /\ saved' = NoOne
       /\ UNCHANGED <<draft, uncertain, retained>>
  ELSE AdoptAny(NoOne)
OneArrives ==
  /\ recovery.step = "one"
  /\ CASE NotMine -> Nothing(saved)
       [] ~NotMine /\ recovery.answer \in {"none", "gone"} -> Gone
       [] OTHER -> Adopt(recovery.asked, recovery.answer)
  /\ UNCHANGED <<service, requests, call, outcomes, owed, faults>>

Stream == Meta \/ StreamEnds \/ AlreadyAccepted \/ Rejects \/ Breaks \/ Aborted
Lookup == OwedRecovery \/ ServiceAnswers \/ StaleArrives \/ ActiveArrives \/ OneArrives
Next ==
  \/ GenerationEnds \/ OthersStart \/ Accepts \/ ArrivesLate \/ DataRestored
  \/ Type \/ Send \/ Reacts \/ Stop
  \/ Stream \/ Poll \/ Lookup \/ RecoveryFails
Spec == Init /\ [][Next]_vars

\* The service takes up a request and ends what it has begun, the stream is read; the
\* page's timer asks again every three seconds and its questions are answered.
Fairness == WF_vars(GenerationEnds) /\ WF_vars(Accepts \/ Stream) /\ WF_vars(Poll \/ Lookup)
LiveSpec == Spec /\ Fairness

----------------------------------------------------------------------------
TypeOK ==
  /\ generations \in [Generations -> {"none", "active", "gone"} \cup Ended]
  /\ late \subseteq Requests /\ background \in BOOLEAN
  /\ draft \in [text : {Empty} \cup Texts, revision : 0..MaxRevisions]
  /\ requests \in Seq([text : Texts, revision : 1..MaxRevisions])
  /\ Len(requests) <= MaxRequests
  /\ uncertain \in [id : {NoOne} \cup Requests, text : {Empty} \cup Texts,
                    revision : 0..MaxRevisions]
  /\ saved \in {NoOne} \cup Requests
  /\ call \in [id : {NoOne} \cup Requests, fresh : BOOLEAN, accepted : BOOLEAN, aborted : BOOLEAN]
  /\ streaming \in [on : BOOLEAN, id : {NoOne} \cup Generations]
  /\ retained \in [Generations -> {"none"} \cup Ended]
  /\ outcomes \subseteq 1..MaxRevisions
  /\ recovery \in [step : {"none", "ask_active", "active", "ask_one", "one", "stale"},
                   asked : {NoOne} \cup Generations,
                   active : SUBSET Generations,
                   answer : {"none", "active", "gone"} \cup Ended]
  /\ owed \in BOOLEAN
  /\ faults \in 0..MaxFaults

\* While a stream is read the page shows that stream as running, whatever an older
\* lookup comes back with, and never a background turn of a continuation lease as its
\* own (send and recover share the streaming state); a turn kept as ended has ended,
\* and the way it is shown, though a lookup overtook the end of its stream.
StreamIsTheWindows ==
  /\ Calling => streaming.on /\ streaming.id \in {NoOne, call.id}
  /\ background => streaming.id # Elsewhere
RetainedIsTrue == \A g \in Generations :
  retained[g] # "none" => generations[g] \in {retained[g], "gone"}
ShownTurnsAreTrue == StreamIsTheWindows /\ RetainedIsTrue

\* The draft is cleared only for the message the service has: a text typed while it
\* was on its way, or one whose request never arrived, is not lost.
OnlyAcceptedIsCleared == [][
  draft.text # Empty /\ draft'.text = Empty =>
    \E r \in DOMAIN requests : requests[r].text = draft.text /\ generations[r] # "none"]_vars

\* A generation shown as running is not shown so for ever: however its stream was
\* lost, a lookup ends it, unless stop is pressed for ever.
RunningEnds == (streaming.on ~> ~streaming.on) \/ []<><<Stop>>_vars
=============================================================================
