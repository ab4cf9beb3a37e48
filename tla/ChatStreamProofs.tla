--------------------------- MODULE ChatStreamProofs ---------------------------
(* Proofs about ChatStream, for any number of requests, revisions and faults: *)
(* what the page shows of its generations is true, and a draft is cleared only *)
(* for a message the service has.                                             *)
EXTENDS ChatStream, SequenceTheorems, TLAPS

-----------------------------------------------------------------------------
(* The values the variables take.                                            *)

States == {"none", "active", "gone"} \cup Ended
Drafts == [text : {Empty} \cup Texts, revision : 0..MaxRevisions]
Messages == [text : Texts, revision : 1..MaxRevisions]
Fates == [id : {NoOne} \cup Requests, text : {Empty} \cup Texts, revision : 0..MaxRevisions]
Calls == [id : {NoOne} \cup Requests, fresh : BOOLEAN, accepted : BOOLEAN, aborted : BOOLEAN]
Streamings == [on : BOOLEAN, id : {NoOne} \cup Generations]
Steps == {"none", "ask_active", "active", "ask_one", "one", "stale"}
Lookups ==
  [step : Steps, asked : {NoOne} \cup Generations, active : SUBSET Generations, answer : States]

Types ==
  /\ generations \in [Generations -> States] /\ late \subseteq Requests /\ background \in BOOLEAN
  /\ draft \in Drafts /\ requests \in Seq(Messages) /\ Len(requests) <= MaxRequests
  /\ uncertain \in Fates /\ saved \in {NoOne} \cup Requests
  /\ call \in Calls /\ streaming \in Streamings
  /\ retained \in [Generations -> {"none"} \cup Ended]
  /\ outcomes \subseteq 1..MaxRevisions
  /\ recovery \in Lookups /\ owed \in BOOLEAN /\ faults \in 0..MaxFaults

-----------------------------------------------------------------------------
(* The inductive invariant.                                                  *)

\* Every identity the page or the service names has been made.
Made == 1..Len(requests)
Known ==
  /\ uncertain.id \in {NoOne} \cup Made /\ saved \in {NoOne} \cup Made
  /\ call.id \in {NoOne} \cup Made /\ late \subseteq Made
  /\ streaming.id \in {NoOne, Elsewhere} \cup Made
  /\ recovery.asked \in {NoOne, Elsewhere} \cup Made
  /\ recovery.active \subseteq {Elsewhere} \cup Made
  /\ \A r \in Requests \ Made : generations[r] = "none" /\ retained[r] = "none"

\* The call is for the request whose fate is not known. The page has not shown its
\* end yet, and its text is the draft's unless the draft was typed since.
Current ==
  /\ Calling => call.id = uncertain.id
  /\ call.accepted => call.fresh
  /\ Calling /\ call.fresh => generations[call.id] # "none"
  /\ draft.text # Empty => draft.revision > 0
  /\ uncertain.revision <= draft.revision
  /\ uncertain.id # NoOne =>
       /\ uncertain.revision > 0
       /\ retained[uncertain.id] = "none"
       /\ requests[uncertain.id].text = uncertain.text
       /\ uncertain.revision = draft.revision => draft.text \in {Empty, uncertain.text}

\* No request that may still arrive is one whose end is shown and forgotten by the
\* service: it would begin again.
Spent == \A r \in late : retained[r] # "none" => generations[r] # "gone"

\* What a lookup has come back with, if it is still its own.
Looked ==
  /\ background => recovery.asked # Elsewhere
  /\ \A g \in recovery.active : generations[g] # "none"
  /\ recovery.step \in {"ask_one", "one"} => recovery.asked # NoOne
  /\ recovery.step = "one" /\ recovery.answer # "none" => generations[recovery.asked] # "none"
  /\ ~Calling /\ recovery.step = "one" /\ recovery.answer \in Ended =>
       \/ generations[recovery.asked] = recovery.answer
       \/ generations[recovery.asked] = "gone" /\ recovery.asked \notin late

\* A send that has ended accepted was for a request the service has had.
Sent ==
  \A o \in outcomes :
    /\ o <= draft.revision
    /\ \E r \in Made :
         /\ generations[r] # "none"
         /\ o = draft.revision => draft.text \in {Empty, requests[r].text}

ChatInv == Types /\ Known /\ Current /\ Spent /\ Looked /\ Sent /\ ShownTurnsAreTrue

-----------------------------------------------------------------------------
(* What the helpers of the model make of these values.                       *)

LEMMA TypesAreTyped == TypeOK <=> Types
  BY DEF TypeOK, Types, States, Drafts, Messages, Fates, Calls, Streamings, Lookups, Steps

LEMMA Identities ==
  /\ NoOne \notin Generations /\ Elsewhere \notin Requests /\ Elsewhere # NoOne
  /\ Requests \subseteq Generations /\ Elsewhere \in Generations
  BY ChatAssumption DEF Generations, Requests, Elsewhere, NoOne

LEMMA MadeAreRequests == ASSUME Types PROVE Made \subseteq Requests /\ Len(requests) \in Nat
<1>1. Len(requests) \in Nat
  BY LenProperties DEF Types
<1> QED BY <1>1, ChatAssumption DEF Made, Requests, Types

LEMMA Nothings ==
  /\ NoRequest \in Fates /\ NoRequest.id = NoOne /\ NoRequest.revision = 0
  /\ NoCall \in Calls /\ NoCall.id = NoOne /\ ~NoCall.fresh /\ ~NoCall.accepted
  /\ NotStreaming \in Streamings /\ NotStreaming.id = NoOne /\ ~NotStreaming.on
  /\ NoRecovery \in Lookups /\ NoRecovery.step = "none" /\ NoRecovery.asked = NoOne
  /\ NoRecovery.active = {} /\ NoRecovery.answer = "none"
<1>1. NoRequest \in Fates /\ NoRequest.id = NoOne /\ NoRequest.revision = 0
  BY ChatAssumption DEF NoRequest, Fates, NoOne, Empty
<1>2. NoCall \in Calls /\ NoCall.id = NoOne /\ ~NoCall.fresh /\ ~NoCall.accepted
  BY DEF NoCall, Calls
<1>3. NotStreaming \in Streamings /\ NotStreaming.id = NoOne /\ ~NotStreaming.on
  BY DEF NotStreaming, Streamings
<1>4. /\ NoRecovery \in Lookups /\ NoRecovery.step = "none" /\ NoRecovery.asked = NoOne
      /\ NoRecovery.active = {} /\ NoRecovery.answer = "none"
  BY DEF NoRecovery, Lookups, Steps, States
<1> QED BY <1>1, <1>2, <1>3, <1>4

\* A lookup r' that says no more than r did and is nobody's answer.
Quiet(r, s) ==
  /\ s \in Lookups /\ s.step \in {"none", "stale", "ask_active"}
  /\ s.asked \in {NoOne, r.asked} /\ s.active \subseteq r.active

LEMMA LookupsAreQuieted ==
  ASSUME NEW r \in Lookups
  PROVE  Quiet(r, Stale(r)) /\ Quiet(r, NoRecovery)
         /\ Quiet(r, [NoRecovery EXCEPT !.step = "ask_active"])
<1>1. /\ [NoRecovery EXCEPT !.step = "stale"] \in Lookups
      /\ [NoRecovery EXCEPT !.step = "stale"].step = "stale"
      /\ [NoRecovery EXCEPT !.step = "stale"].asked = NoOne
      /\ [NoRecovery EXCEPT !.step = "stale"].active = {}
  BY Nothings DEF Lookups, Steps
<1>2. /\ [NoRecovery EXCEPT !.step = "ask_active"] \in Lookups
      /\ [NoRecovery EXCEPT !.step = "ask_active"].step = "ask_active"
      /\ [NoRecovery EXCEPT !.step = "ask_active"].asked = NoOne
      /\ [NoRecovery EXCEPT !.step = "ask_active"].active = {}
  BY Nothings DEF Lookups, Steps
<1>3. Quiet(r, Stale(r))
  BY <1>1 DEF Quiet, Stale
<1> QED BY <1>2, <1>3, Nothings DEF Quiet

\* No generation is forgotten altogether.
Remembers == \A g \in Generations : generations[g] # "none" => generations'[g] # "none"

LEMMA QuietIsLooked ==
  ASSUME Types, Known, Looked, Quiet(recovery, recovery'), Remembers, background' = background
  PROVE  Looked'
<1>1. recovery.active \subseteq Generations
  BY DEF Lookups, Types
<1> QED BY <1>1, Identities DEF Looked, Quiet, Remembers

LEMMA QuietIsKnown ==
  ASSUME Known, Quiet(recovery, recovery'), UNCHANGED requests
  PROVE  /\ recovery'.asked \in {NoOne, Elsewhere} \cup Made'
         /\ recovery'.active \subseteq {Elsewhere} \cup Made'
  BY DEF Known, Quiet, Made

\* The sends that have ended, while no draft is typed and no send ends.
LEMMA SentStays ==
  ASSUME Types, Sent, Remembers, UNCHANGED requests, outcomes' \subseteq outcomes,
         draft'.revision = draft.revision, draft'.text \in {Empty, draft.text}
  PROVE  Sent'
<1>1. Made' = Made /\ Made \subseteq Generations
  BY MadeAreRequests, Identities DEF Made
<1> SUFFICES ASSUME NEW o \in outcomes'
             PROVE  /\ o <= draft'.revision
                    /\ \E r \in Made' : /\ generations'[r] # "none"
                                        /\ o = draft'.revision =>
                                             draft'.text \in {Empty, requests'[r].text}
  BY DEF Sent
<1>2. PICK r \in Made : /\ generations[r] # "none"
                        /\ o = draft.revision => draft.text \in {Empty, requests[r].text}
  BY DEF Sent
<1>3. o <= draft'.revision
  BY DEF Sent
<1> QED BY <1>1, <1>2, <1>3 DEF Remembers

\* send's finally: the lookup in progress is silenced, and the message it was for
\* is one the service has if the send was accepted.
LEMMA EndsWell ==
  ASSUME ChatInv, NEW accepted \in BOOLEAN, NEW looks \in BOOLEAN, Ends(accepted, looks),
         Calling, accepted => generations[call.id] # "none",
         UNCHANGED <<background, draft, requests>>, Remembers
  PROVE  /\ call' \in Calls /\ ~Calling' /\ ~call'.accepted /\ call'.id = NoOne
         /\ outcomes' \subseteq 1..MaxRevisions /\ recovery' \in Lookups /\ owed' \in BOOLEAN
         /\ Quiet(recovery, recovery') /\ Looked' /\ Sent'
<1>1. call' = NoCall /\ recovery' = Stale(recovery) /\ owed' = looks
  BY DEF Ends
<1>2. recovery \in Lookups /\ Types
  BY DEF ChatInv, Types
<1>3. Quiet(recovery, recovery') /\ recovery' \in Lookups
  BY <1>1, <1>2, LookupsAreQuieted DEF Quiet
<1>4. Looked'
  BY <1>3, QuietIsLooked DEF ChatInv
<1>5. uncertain.id = call.id /\ uncertain.id \in Made /\ uncertain.revision \in 1..MaxRevisions
  BY <1>2, ChatAssumption DEF ChatInv, Current, Known, Calling, Fates, Types
<1>6. outcomes' \subseteq 1..MaxRevisions
  BY <1>2, <1>5 DEF Ends, Types
<1>7. Sent'
  <2>1. Made' = Made /\ Made \subseteq Generations
    BY <1>2, MadeAreRequests, Identities DEF Made
  <2> SUFFICES ASSUME NEW o \in outcomes'
               PROVE  /\ o <= draft.revision
                      /\ \E r \in Made : /\ generations'[r] # "none"
                                         /\ o = draft.revision =>
                                              draft.text \in {Empty, requests[r].text}
    BY <2>1 DEF Sent
  <2>2. CASE o \in outcomes
    BY <2>1, <2>2 DEF ChatInv, Sent, Remembers
  <2>3. CASE o \notin outcomes
    <3>1. o = uncertain.revision /\ accepted
      BY <2>3 DEF Ends
    <3>2. /\ uncertain.revision <= draft.revision /\ requests[uncertain.id].text = uncertain.text
          /\ uncertain.revision = draft.revision => draft.text \in {Empty, uncertain.text}
      BY <1>5, Identities DEF ChatInv, Current, Calling
    <3> QED BY <1>5, <2>1, <3>1, <3>2 DEF Remembers
  <2> QED BY <2>2, <2>3
<1> QED BY <1>1, <1>3, <1>4, <1>6, <1>7, Nothings DEF Calling

-----------------------------------------------------------------------------
(* The service.                                                              *)

\* A generation that begins or ends, a late request among them, is not one the
\* page shows as ended.
ServiceMoves ==
  /\ generations' \in [Generations -> States] /\ late' \subseteq late
  /\ \A g \in Generations :
       \/ generations'[g] = generations[g]
       \/ g \in late /\ Unknown(g) /\ g \notin late' /\ generations'[g] = "active"
       \/ generations[g] = "active" /\ generations'[g] \in Ended
       \/ g = Elsewhere /\ generations[g] = "none" /\ generations'[g] = "active"
  /\ UNCHANGED <<background, typing, uncertain, saved, call, streaming, retained, outcomes, recovery>>

LEMMA ServiceMovesKeeps ==
  ASSUME ChatInv, ServiceMoves, owed' \in BOOLEAN, faults' \in 0..MaxFaults
  PROVE  ChatInv'
<1>1. Types /\ Types'
  BY DEF ChatInv, ServiceMoves, typing, Types
<1>2. Made \subseteq Requests /\ Made' = Made /\ late \subseteq Made
  BY <1>1, MadeAreRequests DEF ChatInv, Known, ServiceMoves, Made, typing
<1>3. Remembers
  BY DEF ServiceMoves, Remembers, Ended
<1>4. UNCHANGED <<background, draft, requests, uncertain, saved, call, streaming, retained,
                  outcomes, recovery>>
  BY DEF ServiceMoves, typing
<1>5. \A g \in Generations : retained[g] # "none" =>
        generations[g] \in Ended \cup {"gone"} /\ (g \in late => generations[g] # "gone")
  BY <1>1 DEF ChatInv, ShownTurnsAreTrue, RetainedIsTrue, Spent, Types
<1>6. \A g \in Generations : retained[g] # "none" => generations'[g] = generations[g]
  <2> SUFFICES ASSUME NEW g \in Generations, retained[g] # "none"
               PROVE  generations'[g] = generations[g]
    OBVIOUS
  <2>1. generations[g] \notin {"active", "none"} /\ (g \in late => generations[g] # "gone")
    BY <1>5 DEF Ended
  <2> QED BY <2>1 DEF ServiceMoves, Unknown
<1>7. Known'
  <2>1. \A r \in Requests \ Made : generations'[r] = "none" /\ retained[r] = "none"
    BY <1>2, Identities DEF ChatInv, Known, ServiceMoves
  <2> QED BY <1>2, <1>4, <2>1 DEF ChatInv, Known, ServiceMoves
<1>8. Current'
  <2>1. Calling /\ call.fresh => generations'[call.id] # "none"
    BY <1>1, <1>3, Identities DEF ChatInv, Current, Remembers, Calls, Calling, Types
  <2> QED BY <1>4, <2>1 DEF ChatInv, Current, Calling
<1>9. Spent'
  BY <1>2, <1>4, <1>6, Identities DEF ChatInv, Spent, ServiceMoves
<1>10. Looked'
  <2>1. recovery.active \subseteq Generations /\ recovery.asked \in {NoOne} \cup Generations
    BY <1>1 DEF Lookups, Types
  <2>2. \A g \in recovery.active : generations'[g] # "none"
    BY <1>3, <2>1 DEF ChatInv, Looked, Remembers
  <2>3. recovery.step = "one" /\ recovery.answer # "none" => generations'[recovery.asked] # "none"
    BY <1>3, <2>1 DEF ChatInv, Looked, Remembers
  <2>4. ~Calling /\ recovery.step = "one" /\ recovery.answer \in Ended =>
          \/ generations'[recovery.asked] = recovery.answer
          \/ generations'[recovery.asked] = "gone" /\ recovery.asked \notin late'
    <3> SUFFICES ASSUME ~Calling, recovery.step = "one", recovery.answer \in Ended
                 PROVE  \/ generations'[recovery.asked] = recovery.answer
                        \/ generations'[recovery.asked] = "gone" /\ recovery.asked \notin late'
      OBVIOUS
    <3>1. recovery.asked \in Generations
      BY <2>1 DEF ChatInv, Looked
    <3>2. \/ generations[recovery.asked] = recovery.answer
          \/ generations[recovery.asked] = "gone" /\ recovery.asked \notin late
      BY DEF ChatInv, Looked
    <3>3. generations'[recovery.asked] = generations[recovery.asked]
      BY <3>1, <3>2 DEF ServiceMoves, Unknown, Ended
    <3> QED BY <3>2, <3>3 DEF ServiceMoves
  <2> QED BY <1>4, <2>2, <2>3, <2>4 DEF ChatInv, Looked, Calling
<1>11. Sent'
  BY <1>1, <1>3, <1>4, SentStays DEF ChatInv, Types
<1>12. ShownTurnsAreTrue'
  BY <1>4, <1>6 DEF ChatInv, ShownTurnsAreTrue, StreamIsTheWindows, RetainedIsTrue, Calling
<1> QED BY <1>1, <1>7, <1>8, <1>9, <1>10, <1>11, <1>12 DEF ChatInv

LEMMA GenerationEndsKeeps == ASSUME ChatInv, GenerationEnds PROVE ChatInv'
<1>1. generations \in [Generations -> States] /\ owed \in BOOLEAN /\ faults \in 0..MaxFaults
  BY DEF ChatInv, Types
<1>2. ServiceMoves /\ UNCHANGED <<owed, faults>>
  BY <1>1 DEF GenerationEnds, ServiceMoves, States
<1> QED BY <1>1, <1>2, ServiceMovesKeeps

LEMMA OthersStartKeeps == ASSUME ChatInv, OthersStart PROVE ChatInv'
<1>1. generations \in [Generations -> States] /\ owed \in BOOLEAN /\ faults \in 0..MaxFaults
  BY DEF ChatInv, Types
<1>2. ServiceMoves /\ UNCHANGED <<owed, faults>>
  BY <1>1, Identities DEF OthersStart, ServiceMoves, States
<1> QED BY <1>1, <1>2, ServiceMovesKeeps

LEMMA ArrivesLateKeeps == ASSUME ChatInv, ArrivesLate PROVE ChatInv'
<1>1. /\ generations \in [Generations -> States] /\ owed \in BOOLEAN /\ faults \in 0..MaxFaults
      /\ late \subseteq Generations
  BY Identities DEF ChatInv, Types
<1>2. ServiceMoves /\ UNCHANGED <<owed, faults>>
  BY <1>1 DEF ArrivesLate, ServiceMoves, States
<1> QED BY <1>1, <1>2, ServiceMovesKeeps

LEMMA AcceptsKeeps == ASSUME ChatInv, Accepts PROVE ChatInv'
<1>1. Types /\ call.id \in Made /\ Calling /\ uncertain.id = call.id
  BY DEF ChatInv, Known, Accepts, Calling, Current
<1>2. Made \subseteq Requests /\ Made' = Made /\ call.id \in Generations
  BY <1>1, MadeAreRequests, Identities DEF Accepts, Made, typing
<1>3. /\ generations' \in [Generations -> States] /\ generations'[call.id] = "active"
      /\ \A g \in Generations : g # call.id => generations'[g] = generations[g]
  BY <1>1, <1>2 DEF Accepts, States, Types
<1>4. /\ call' \in Calls /\ call'.id = call.id /\ call'.accepted = call.accepted /\ call'.fresh
      /\ Calling'
  BY <1>1 DEF Accepts, Calls, Calling, Types
<1>5. UNCHANGED <<background, late, draft, requests, uncertain, saved, streaming, retained,
                  outcomes, recovery, owed, faults>>
  BY DEF Accepts, typing
<1>6. Types' /\ Remembers
  BY <1>1, <1>3, <1>4, <1>5 DEF Remembers, Types
<1>7. Known'
  BY <1>1, <1>2, <1>3, <1>4, <1>5, Identities DEF ChatInv, Known
<1>8. retained[call.id] = "none"
  BY <1>1, Identities, <1>2 DEF ChatInv, Current
<1>9. Current'
  BY <1>1, <1>3, <1>4, <1>5 DEF ChatInv, Current, Calling
<1>10. Spent'
  BY <1>1, <1>2, <1>3, <1>5, <1>8, Identities DEF ChatInv, Spent, Types
<1>11. Looked'
  <2>1. recovery.active \subseteq Generations /\ recovery.asked \in {NoOne} \cup Generations
    BY <1>1 DEF Lookups, Types
  <2> QED BY <1>4, <1>5, <1>6, <2>1 DEF ChatInv, Looked, Remembers
<1>12. Sent'
  BY <1>1, <1>5, <1>6, SentStays DEF ChatInv, Types
<1>13. ShownTurnsAreTrue'
  BY <1>3, <1>4, <1>5, <1>8 DEF ChatInv, ShownTurnsAreTrue, StreamIsTheWindows, RetainedIsTrue, Calling
<1> QED BY <1>6, <1>7, <1>9, <1>10, <1>11, <1>12, <1>13 DEF ChatInv

\* What the service has forgotten nobody mistakes for something else: what was on
\* its way is lost with it.
LEMMA DataRestoredKeeps == ASSUME ChatInv, DataRestored PROVE ChatInv'
<1>1. Types /\ Made' = Made /\ Made \subseteq Requests
  BY MadeAreRequests DEF ChatInv, DataRestored, Made, typing
<1>2. UNCHANGED <<background, draft, requests, uncertain, saved, retained>> /\ late' = {}
      /\ faults' \in 0..MaxFaults
  BY <1>1, ChatAssumption DEF DataRestored, typing, Types
<1>3. /\ generations' \in [Generations -> States]
      /\ \A g \in Generations :
           generations'[g] = IF generations[g] = "none" THEN "none" ELSE "gone"
  BY DEF DataRestored, States
<1>4. Remembers
  BY <1>3 DEF Remembers
<1>5. Spent' /\ RetainedIsTrue'
  BY <1>2, <1>3, <1>1
     DEF Spent, ChatInv, ShownTurnsAreTrue, RetainedIsTrue, Types, Ended
<1>6. \A r \in Requests \ Made : generations'[r] = "none" /\ retained[r] = "none"
  BY <1>3, Identities DEF ChatInv, Known
<1>7. CASE Calling /\ ~call.aborted
  <2>1. Ends(call.accepted, call.accepted) /\ streaming' = NotStreaming
    BY <1>7 DEF DataRestored
  <2>2. call.accepted \in BOOLEAN /\ (call.accepted => generations[call.id] # "none")
    BY <1>1, <1>7 DEF Types, Calls, ChatInv, Current
  <2>3. /\ call' \in Calls /\ ~Calling' /\ ~call'.accepted /\ call'.id = NoOne
        /\ outcomes' \subseteq 1..MaxRevisions /\ recovery' \in Lookups /\ owed' \in BOOLEAN
        /\ Quiet(recovery, recovery') /\ Looked' /\ Sent'
    BY <1>2, <1>4, <1>7, <2>1, <2>2, EndsWell
  <2>4. Types'
    BY <1>1, <1>2, <1>3, <2>1, <2>3, Nothings DEF Types
  <2>5. Known'
    BY <1>1, <1>2, <1>6, <2>1, <2>3, Nothings, QuietIsKnown DEF ChatInv, Known
  <2>6. Current' /\ StreamIsTheWindows'
    BY <1>2, <2>1, <2>3, Nothings, Identities DEF ChatInv, Current, StreamIsTheWindows
  <2> QED BY <1>5, <2>3, <2>4, <2>5, <2>6 DEF ChatInv, ShownTurnsAreTrue
<1>8. CASE ~(Calling /\ ~call.aborted)
  <2>1. UNCHANGED <<call, outcomes, recovery, owed, streaming>>
    BY <1>8 DEF DataRestored
  <2>2. Types'
    BY <1>1, <1>2, <1>3, <2>1 DEF Types
  <2>3. Known'
    BY <1>1, <1>2, <1>6, <2>1 DEF ChatInv, Known
  <2>4. Calling /\ call.fresh => generations'[call.id] # "none"
    BY <1>1, <1>4, Identities DEF ChatInv, Current, Remembers, Calls, Calling, Types
  <2>5. Current' /\ StreamIsTheWindows'
    BY <1>2, <2>1, <2>4
       DEF ChatInv, Current, Calling, ShownTurnsAreTrue, StreamIsTheWindows
  <2>6. recovery.active \subseteq Generations /\ recovery.asked \in {NoOne} \cup Generations
    BY <1>1 DEF Types, Lookups
  <2>7. Looked'
    BY <1>2, <1>3, <2>1, <2>6, Identities DEF ChatInv, Looked, Calling, Ended
  <2>8. Sent'
    BY <1>1, <1>2, <1>4, <2>1, SentStays DEF ChatInv, Types, Drafts
  <2> QED BY <1>5, <2>2, <2>3, <2>5, <2>7, <2>8 DEF ChatInv, ShownTurnsAreTrue
<1> QED BY <1>7, <1>8

-----------------------------------------------------------------------------
(* The page.                                                                 *)

LEMMA TypeKeeps == ASSUME ChatInv, Type PROVE ChatInv'
<1>1. PICK t \in Texts :
        /\ t <= draft.revision + 1
        /\ draft' = [text |-> t, revision |-> draft.revision + 1]
  BY DEF Type
<1>2. Types /\ draft.revision \in Nat
  BY ChatAssumption DEF ChatInv, Types, Drafts
<1>3. draft' \in Drafts /\ draft'.text = t /\ draft'.revision = draft.revision + 1
  BY <1>1, <1>2, ChatAssumption DEF Type, Drafts, Types
<1>4. UNCHANGED <<generations, background, late, requests, uncertain, saved, call, streaming,
                  retained, outcomes, recovery, owed, faults>>
  BY DEF Type, service
<1>5. Types'
  BY <1>2, <1>3, <1>4 DEF Types
<1>6. Known' /\ Spent' /\ Looked' /\ ShownTurnsAreTrue'
  BY <1>4 DEF ChatInv, Known, Made, Spent, Looked, Calling, ShownTurnsAreTrue,
              StreamIsTheWindows, RetainedIsTrue
<1>7. uncertain.revision \in Nat
  BY <1>2, ChatAssumption DEF Types, Fates
<1>8. Current'
  BY <1>2, <1>3, <1>4, <1>7 DEF ChatInv, Current, Calling
<1>9. Sent'
  <2>1. \A o \in outcomes : o \in Nat
    BY <1>2, ChatAssumption DEF Types
  <2> QED BY <1>2, <1>3, <1>4, <2>1 DEF ChatInv, Sent, Made
<1> QED BY <1>5, <1>6, <1>8, <1>9 DEF ChatInv

LEMMA ReactsKeeps == ASSUME ChatInv, Reacts PROVE ChatInv'
<1>1. PICK o \in outcomes :
        /\ outcomes' = outcomes \ {o}
        /\ draft' = IF o = draft.revision THEN [draft EXCEPT !.text = Empty] ELSE draft
  BY DEF Reacts
<1>2. Types
  BY DEF ChatInv
<1>3. draft' \in Drafts /\ draft'.text \in {Empty, draft.text} /\ draft'.revision = draft.revision
  BY <1>1, <1>2 DEF Types, Drafts
<1>4. UNCHANGED <<generations, background, late, requests, uncertain, saved, call, streaming,
                  retained, recovery, owed, faults>>
  BY DEF Reacts, service
<1>5. Types'
  BY <1>1, <1>2, <1>3, <1>4 DEF Types
<1>6. Known' /\ Spent' /\ Looked' /\ ShownTurnsAreTrue'
  BY <1>4 DEF ChatInv, Known, Made, Spent, Looked, Calling, ShownTurnsAreTrue,
              StreamIsTheWindows, RetainedIsTrue
<1>7. Current'
  BY <1>3, <1>4 DEF ChatInv, Current, Calling
<1>8. Sent'
  BY <1>1, <1>2, <1>3, <1>4, SentStays DEF ChatInv, Remembers
<1> QED BY <1>5, <1>6, <1>7, <1>8 DEF ChatInv

\* The request a send makes is new to everybody, or is the one whose fate is not known.
LEMMA SendKeeps == ASSUME ChatInv, Send PROVE ChatInv'
<1> DEFINE id == IF Retries THEN uncertain.id ELSE Len(requests) + 1
           message == [text |-> draft.text, revision |-> draft.revision]
<1>1. Types /\ Len(requests) \in Nat /\ Made = 1..Len(requests)
  BY MadeAreRequests DEF ChatInv, Made
<1>2. draft.text \in Texts /\ draft.revision \in 1..MaxRevisions /\ ~Calling
  BY <1>1, ChatAssumption DEF Send, ChatInv, Current, Types, Drafts
<1>3. /\ requests' = IF Retries THEN requests ELSE Append(requests, message)
      /\ uncertain' = [id |-> id, text |-> draft.text, revision |-> draft.revision]
      /\ saved' = id /\ call' = [NoCall EXCEPT !.id = id]
      /\ streaming' = [on |-> TRUE, id |-> NoOne]
      /\ recovery' = Stale(recovery) /\ owed' = FALSE
      /\ UNCHANGED <<generations, background, late, draft, retained, outcomes, faults>>
  BY DEF Send, service
<1>4. /\ requests' \in Seq(Messages) /\ id \in 1..Len(requests') /\ Len(requests') \in Nat
      /\ Len(requests) <= Len(requests') /\ Len(requests') <= MaxRequests
      /\ \A i \in Made : requests'[i] = requests[i]
      /\ requests'[id].text = draft.text /\ retained[id] = "none"
  <2>1. CASE Retries
    <3>1. requests' = requests /\ id = uncertain.id /\ uncertain.id # NoOne
          /\ uncertain.text = draft.text
      BY <1>3, <2>1 DEF Retries
    <3>2. uncertain.id \in 1..Len(requests)
      BY <3>1 DEF ChatInv, Known, Made
    <3> QED BY <1>1, <3>1, <3>2 DEF ChatInv, Current, Types
  <2>2. CASE ~Retries
    <3>1. requests' = Append(requests, message) /\ id = Len(requests) + 1 /\ id <= MaxRequests
      BY <1>1, <1>3, <2>2, ChatAssumption DEF Send
    <3>2. message \in Messages
      BY <1>2 DEF Messages
    <3>3. /\ requests' \in Seq(Messages) /\ Len(requests') = Len(requests) + 1
          /\ requests'[id] = message
          /\ \A i \in 1..Len(requests) : requests'[i] = requests[i]
      BY <1>1, <3>1, <3>2, AppendProperties DEF Types
    <3>4. id \in Requests \ Made
      BY <1>1, <3>1, ChatAssumption DEF Requests
    <3> QED BY <1>1, <3>1, <3>3, <3>4 DEF ChatInv, Known
  <2> QED BY <2>1, <2>2
<1>5. id \in Requests /\ id # NoOne /\ Made \subseteq Made' /\ id \in Made'
  BY <1>1, <1>4, ChatAssumption DEF Made, Requests, NoOne
<1> HIDE DEF id, message
<1>6. /\ call' \in Calls /\ call'.id = id /\ ~call'.fresh /\ ~call'.accepted
      /\ streaming' \in Streamings /\ streaming'.on /\ streaming'.id = NoOne
      /\ uncertain' \in Fates /\ uncertain'.id = id /\ uncertain'.text = draft.text
      /\ uncertain'.revision = draft.revision
  <2>1. call' \in Calls /\ call'.id = id /\ ~call'.fresh /\ ~call'.accepted
    BY <1>3, <1>5, Nothings DEF Calls
  <2>2. streaming' \in Streamings /\ streaming'.on /\ streaming'.id = NoOne
    BY <1>3 DEF Streamings
  <2>3. uncertain' \in Fates /\ uncertain'.id = id /\ uncertain'.text = draft.text
        /\ uncertain'.revision = draft.revision
    BY <1>2, <1>3, <1>5, ChatAssumption DEF Fates
  <2> QED BY <2>1, <2>2, <2>3
<1>7. Quiet(recovery, recovery') /\ recovery' \in Lookups /\ Remembers
  BY <1>1, <1>3, LookupsAreQuieted DEF Types, Quiet, Remembers
<1>8. Types'
  BY <1>1, <1>3, <1>4, <1>5, <1>6, <1>7 DEF Types
<1>9. Known'
  <2>1. \A r \in Requests \ Made' : generations[r] = "none" /\ retained[r] = "none"
    BY <1>5 DEF ChatInv, Known
  <2>2. /\ recovery'.asked \in {NoOne, Elsewhere} \cup Made'
        /\ recovery'.active \subseteq {Elsewhere} \cup Made'
    BY <1>5, <1>7 DEF ChatInv, Known, Quiet
  <2>3. late \subseteq Made'
    BY <1>5 DEF ChatInv, Known
  <2> QED BY <1>3, <1>5, <1>6, <2>1, <2>2, <2>3 DEF Known
<1>10. Current'
  BY <1>2, <1>3, <1>4, <1>6 DEF Current, Calling
<1>11. Spent' /\ Looked'
  BY <1>3, <1>7, QuietIsLooked DEF ChatInv, Spent
<1>12. Sent'
  BY <1>3, <1>4, <1>5 DEF ChatInv, Sent
<1>13. ShownTurnsAreTrue'
  BY <1>3, <1>5, <1>6, Identities
     DEF ChatInv, ShownTurnsAreTrue, StreamIsTheWindows, RetainedIsTrue
<1> QED BY <1>8, <1>9, <1>10, <1>11, <1>12, <1>13 DEF ChatInv

LEMMA StopKeeps == ASSUME ChatInv, Stop PROVE ChatInv'
<1>1. Types /\ Made' = Made /\ Made \subseteq Generations
  BY MadeAreRequests, Identities DEF ChatInv, Stop, Made, typing
<1>2. UNCHANGED <<background, late, draft, requests, uncertain, saved, streaming, retained,
                  outcomes, faults>>
  BY DEF Stop, typing
<1>3. /\ call' \in Calls /\ call'.id = call.id /\ call'.fresh = call.fresh
      /\ call'.accepted = call.accepted
  BY <1>1 DEF Stop, Types, Calls
<1>4. /\ generations' \in [Generations -> States]
      /\ \A g \in Generations :
           \/ generations'[g] = generations[g]
           \/ generations[g] = "active" /\ generations'[g] = "cut"
  BY <1>1 DEF Stop, Types, States, Ended
<1>5. Quiet(recovery, recovery') /\ recovery' \in Lookups
  BY <1>1, LookupsAreQuieted DEF Stop, Types, Quiet
<1>6. Remembers
  BY <1>4 DEF Remembers
<1>7. Types'
  BY <1>1, <1>2, <1>3, <1>4, <1>5 DEF Types, Stop
<1>8. Known'
  <2>1. \A r \in Requests \ Made : generations'[r] = "none"
    BY <1>4, Identities DEF ChatInv, Known
  <2> QED BY <1>1, <1>2, <1>3, <1>5, <2>1, QuietIsKnown DEF ChatInv, Known
<1>9. Current'
  <2>1. Calling /\ call.fresh => generations'[call.id] # "none"
    BY <1>1, <1>6, Identities DEF ChatInv, Current, Remembers, Calls, Calling, Types
  <2> QED BY <1>2, <1>3, <2>1 DEF ChatInv, Current, Calling
<1>10. Spent'
  BY <1>1, <1>2, <1>4 DEF ChatInv, Spent, Known
<1>11. Looked' /\ Sent'
  BY <1>1, <1>2, <1>5, <1>6, QuietIsLooked, SentStays DEF ChatInv
<1>12. ShownTurnsAreTrue'
  BY <1>2, <1>3, <1>4, <1>1
     DEF ChatInv, ShownTurnsAreTrue, StreamIsTheWindows, RetainedIsTrue, Calling, Types, Ended
<1> QED BY <1>7, <1>8, <1>9, <1>10, <1>11, <1>12 DEF ChatInv

-----------------------------------------------------------------------------
(* The stream.                                                               *)

LEMMA MetaKeeps == ASSUME ChatInv, Meta PROVE ChatInv'
<1>1. Types /\ Calling /\ call.fresh /\ call.id \in Made /\ Made \subseteq Requests
  BY MadeAreRequests DEF ChatInv, Meta, Known, Calling
<1>2. UNCHANGED <<generations, background, late, draft, requests, uncertain, retained, outcomes,
                  recovery, owed, faults>>
  BY DEF Meta, service, typing
<1>3. /\ call' \in Calls /\ call'.id = call.id /\ call'.fresh /\ saved' = call.id
      /\ streaming' \in Streamings /\ streaming'.on /\ streaming'.id = call.id
  BY <1>1, Identities DEF Meta, Types, Calls, Streamings
<1>4. Types' /\ Known'
  BY <1>1, <1>2, <1>3 DEF Types, ChatInv, Known, Made
<1>5. Current' /\ Spent' /\ Looked' /\ Sent'
  BY <1>1, <1>2, <1>3 DEF ChatInv, Current, Spent, Looked, Sent, Calling, Made
<1>6. ShownTurnsAreTrue'
  BY <1>1, <1>2, <1>3, Identities
     DEF ChatInv, ShownTurnsAreTrue, StreamIsTheWindows, RetainedIsTrue, Calling
<1> QED BY <1>4, <1>5, <1>6 DEF ChatInv

\* What every end of a stream leaves behind, apart from what it shows as ended.
LEMMA StreamOver ==
  ASSUME ChatInv, Calling, NEW accepted \in BOOLEAN, NEW looks \in BOOLEAN, Ends(accepted, looks),
         accepted => generations[call.id] # "none",
         UNCHANGED <<generations, background, draft, requests>>,
         late' \subseteq late \cup {call.id}, faults' \in 0..MaxFaults,
         streaming' = NotStreaming \/ streaming' = [on |-> TRUE, id |-> call.id],
         Forgets \/ UNCHANGED <<uncertain, saved>>,
         \/ UNCHANGED retained
         \/ /\ uncertain' = NoRequest /\ generations[call.id] \in Ended
            /\ retained' = [retained EXCEPT ![call.id] = generations[call.id]]
  PROVE  ChatInv'
<1>1. /\ Types /\ Made' = Made /\ Made \subseteq Requests /\ call.id \in Made
      /\ call.id = uncertain.id /\ retained[call.id] = "none"
  BY MadeAreRequests, Identities DEF ChatInv, Known, Made, Calling, Current
<1>2. /\ call' \in Calls /\ ~Calling' /\ ~call'.accepted /\ call'.id = NoOne
      /\ outcomes' \subseteq 1..MaxRevisions /\ recovery' \in Lookups /\ owed' \in BOOLEAN
      /\ Quiet(recovery, recovery') /\ Looked' /\ Sent'
  BY EndsWell DEF Remembers
<1>3. streaming' \in Streamings /\ streaming'.id \in {NoOne, call.id}
  <2>1. CASE streaming' = NotStreaming
    BY <2>1, Nothings
  <2>2. CASE streaming' = [on |-> TRUE, id |-> call.id]
    BY <1>1, <2>2, Identities DEF Streamings
  <2> QED BY <2>1, <2>2
<1>4. \/ uncertain' = NoRequest /\ saved' = NoOne
      \/ UNCHANGED <<uncertain, saved>>
  BY DEF Forgets
<1>5. /\ retained' \in [Generations -> {"none"} \cup Ended]
      /\ \A g \in Generations : g # call.id => retained'[g] = retained[g]
      /\ retained'[call.id] = "none" \/ /\ retained'[call.id] = generations[call.id]
                                        /\ generations[call.id] \in Ended /\ uncertain' = NoRequest
  BY <1>1, Identities DEF Types
<1>6. Types'
  BY <1>1, <1>2, <1>3, <1>4, <1>5, Nothings DEF Types
<1>7. Known'
  BY <1>1, <1>2, <1>3, <1>4, <1>5, Nothings, Identities, QuietIsKnown DEF ChatInv, Known
<1>8. Current'
  <2>1. draft.revision \in Nat
    BY <1>1, ChatAssumption DEF Types, Drafts
  <2>2. CASE uncertain' = NoRequest
    BY <1>2, <2>1, <2>2, Nothings DEF ChatInv, Current, Calling
  <2>3. CASE uncertain' # NoRequest
    BY <1>1, <1>2, <1>4, <1>5, <2>3 DEF ChatInv, Current, Calling
  <2> QED BY <2>2, <2>3
<1>9. Spent'
  BY <1>1, <1>5, Identities DEF ChatInv, Spent, Types, Ended
<1>10. ShownTurnsAreTrue'
  BY <1>1, <1>2, <1>3, <1>5, Identities
     DEF ChatInv, ShownTurnsAreTrue, StreamIsTheWindows, RetainedIsTrue
<1> QED BY <1>2, <1>6, <1>7, <1>8, <1>9, <1>10 DEF ChatInv

LEMMA EndsOfStreamsKeep ==
  ASSUME ChatInv, StreamEnds \/ AlreadyAccepted \/ Rejects \/ Breaks \/ Aborted
  PROVE  ChatInv'
<1>1. /\ Types /\ Calling /\ call.accepted \in BOOLEAN /\ faults \in 0..MaxFaults
      /\ call.accepted => generations[call.id] # "none"
  BY DEF ChatInv, Types, Calls, Current, StreamEnds, AlreadyAccepted, Rejects, Breaks, Aborted
<1>2. CASE StreamEnds
  <2>1. Ends(TRUE, generations[call.id] # "completed") /\ Forgets /\ generations[call.id] \in Ended
        /\ streaming' = NotStreaming /\ call.accepted
        /\ retained' = [retained EXCEPT ![call.id] = generations[call.id]]
        /\ UNCHANGED <<generations, background, late, draft, requests, faults>>
    BY <1>2 DEF StreamEnds, service, typing
  <2>2. uncertain' = NoRequest
    BY <2>1 DEF Forgets
  <2> QED BY <1>1, <2>1, <2>2, StreamOver
<1>3. CASE AlreadyAccepted
  <2>1. Ends(TRUE, TRUE) /\ streaming' = [on |-> TRUE, id |-> call.id] /\ generations[call.id] # "none"
        /\ UNCHANGED <<generations, background, late, draft, requests, uncertain, saved, retained,
                       faults>>
    BY <1>3 DEF AlreadyAccepted, service, typing, Unknown
  <2> QED BY <1>1, <2>1, StreamOver
<1>4. CASE Rejects
  <2>1. Ends(FALSE, FALSE) /\ Forgets /\ streaming' = NotStreaming
        /\ UNCHANGED <<generations, background, late, draft, requests, retained, faults>>
    BY <1>4 DEF Rejects, service, typing
  <2> QED BY <1>1, <2>1, StreamOver
<1>5. late' = GivenUp => late' \subseteq late \cup {call.id}
  BY DEF GivenUp
<1>6. CASE Breaks
  <2>1. Ends(call.accepted, call.accepted) /\ streaming' = NotStreaming /\ late' = GivenUp
        /\ UNCHANGED <<generations, background, draft, requests, uncertain, saved, retained>>
    BY <1>6 DEF Breaks, typing
  <2>2. faults' \in 0..MaxFaults
    BY <1>1, <1>6, ChatAssumption DEF Breaks
  <2> QED BY <1>1, <1>5, <2>1, <2>2, StreamOver
<1>7. CASE Aborted
  <2>1. Ends(call.accepted, TRUE) /\ streaming' = NotStreaming /\ late' = GivenUp
        /\ UNCHANGED <<generations, background, draft, requests, uncertain, saved, retained, faults>>
    BY <1>7 DEF Aborted, typing
  <2> QED BY <1>1, <1>5, <2>1, StreamOver
<1> QED BY <1>2, <1>3, <1>4, <1>6, <1>7

-----------------------------------------------------------------------------
(* The lookup.                                                               *)

\* A lookup that starts, fails or is dropped.
LEMMA QuietLookupsKeep ==
  ASSUME ChatInv, Poll \/ OwedRecovery \/ RecoveryFails \/ StaleArrives
  PROVE  ChatInv'
<1>1. Types
  BY DEF ChatInv
<1>2. UNCHANGED <<generations, background, late, draft, requests, uncertain, saved, call, streaming,
                  retained, outcomes>>
  BY DEF Poll, OwedRecovery, RecoveryFails, StaleArrives, service, typing
<1>3. faults' \in 0..MaxFaults /\ owed' \in BOOLEAN
  <2>1. faults \in 0..MaxFaults /\ owed \in BOOLEAN
    BY <1>1 DEF Types
  <2>2. CASE Poll \/ OwedRecovery \/ StaleArrives
    BY <2>1, <2>2 DEF Poll, OwedRecovery, StaleArrives
  <2>3. CASE RecoveryFails
    BY <2>1, <2>3, ChatAssumption DEF RecoveryFails
  <2> QED BY <2>2, <2>3
<1>4. UNCHANGED recovery \/ Quiet(recovery, recovery')
  BY <1>1, LookupsAreQuieted DEF Types, Poll, OwedRecovery, RecoveryFails, StaleArrives, Starts
<1>5. recovery' \in Lookups
  BY <1>1, <1>4 DEF Types, Quiet
<1>6. Types' /\ Remembers
  BY <1>1, <1>2, <1>3, <1>5 DEF Types, Remembers
<1>7. Looked'
  <2>1. CASE UNCHANGED recovery
    BY <1>2, <2>1 DEF ChatInv, Looked, Calling
  <2>2. CASE Quiet(recovery, recovery')
    BY <1>2, <1>6, <2>2, QuietIsLooked DEF ChatInv
  <2> QED BY <1>4, <2>1, <2>2
<1>8. Known'
  <2>1. /\ recovery'.asked \in {NoOne, Elsewhere} \cup Made
        /\ recovery'.active \subseteq {Elsewhere} \cup Made
    BY <1>4 DEF ChatInv, Known, Quiet
  <2> QED BY <1>2, <2>1 DEF ChatInv, Known, Made
<1>9. Current' /\ Spent' /\ Sent' /\ ShownTurnsAreTrue'
  BY <1>2 DEF ChatInv, Current, Spent, Sent, ShownTurnsAreTrue, StreamIsTheWindows,
              RetainedIsTrue, Calling, Made
<1> QED BY <1>6, <1>7, <1>8, <1>9 DEF ChatInv

LEMMA ServiceAnswersKeeps == ASSUME ChatInv, ServiceAnswers PROVE ChatInv'
<1>1. Types /\ recovery \in Lookups /\ generations \in [Generations -> States]
      /\ Made \subseteq Requests
  BY MadeAreRequests DEF ChatInv, Types
<1>2. UNCHANGED <<generations, background, late, draft, requests, uncertain, saved, call, streaming,
                  retained, outcomes, owed, faults>>
  BY DEF ServiceAnswers, service, typing
<1> DEFINE active == {g \in Generations : generations[g] = "active"}
<1>3. \/ /\ recovery' \in Lookups /\ recovery'.step = "active" /\ recovery'.active = active
         /\ recovery'.asked = recovery.asked
      \/ /\ recovery' \in Lookups /\ recovery'.step = "one" /\ recovery'.active = recovery.active
         /\ recovery'.asked = recovery.asked /\ recovery.asked \in Generations
         /\ recovery'.answer = generations[recovery.asked]
  <2>1. CASE recovery.step = "ask_active"
    <3>1. recovery' = [recovery EXCEPT !.step = "active", !.active = active]
      BY <2>1 DEF ServiceAnswers
    <3> HIDE DEF active
    <3>2. active \in SUBSET Generations
      BY DEF active
    <3> QED BY <1>1, <3>1, <3>2 DEF Lookups, Steps
  <2>2. CASE recovery.step = "ask_one"
    <3>1. recovery' = [recovery EXCEPT !.step = "one", !.answer = generations[recovery.asked]]
      BY <2>2 DEF ServiceAnswers
    <3>2. recovery.asked \in Generations
      BY <1>1, <2>2 DEF ChatInv, Looked, Lookups
    <3> QED BY <1>1, <3>1, <3>2 DEF Lookups, Steps
  <2> QED BY <2>1, <2>2 DEF ServiceAnswers
<1>4. Types'
  BY <1>1, <1>2, <1>3 DEF Types
<1>5. \A g \in active : generations[g] # "none" /\ g \in {Elsewhere} \cup Made
  BY DEF ChatInv, Known, Generations
<1> HIDE DEF active
<1>6. Looked'
  <2>1. CASE recovery'.step = "active"
    <3>1. recovery'.asked = recovery.asked /\ \A g \in recovery'.active : generations[g] # "none"
      BY <1>3, <1>5, <2>1
    <3> QED BY <1>2, <2>1, <3>1 DEF ChatInv, Looked
  <2>2. CASE recovery'.step = "one"
    <3>1. /\ recovery'.active = recovery.active /\ recovery'.asked = recovery.asked
          /\ recovery.asked # NoOne /\ recovery'.answer = generations[recovery.asked]
      BY <1>3, <2>2, Identities
    <3> QED BY <1>2, <2>2, <3>1 DEF ChatInv, Looked
  <2> QED BY <1>3, <2>1, <2>2
<1>7. Known'
  BY <1>2, <1>3, <1>5 DEF ChatInv, Known, Made
<1>8. Current' /\ Spent' /\ Sent' /\ ShownTurnsAreTrue'
  BY <1>2 DEF ChatInv, Current, Spent, Sent, ShownTurnsAreTrue, StreamIsTheWindows,
              RetainedIsTrue, Calling, Made
<1> QED BY <1>4, <1>6, <1>7, <1>8 DEF ChatInv

\* An answer changes nothing but the page, and clears the draft of a message at most.
Heard ==
  /\ UNCHANGED <<generations, background, late, requests, call, outcomes, owed, faults>>
  /\ recovery' = NoRecovery
  /\ draft' \in {draft, [draft EXCEPT !.text = Empty]}

LEMMA HeardKeeps ==
  ASSUME ChatInv, Heard,
         streaming' \in Streamings, streaming'.id \in {NoOne, Elsewhere} \cup Made,
         background => streaming'.id # Elsewhere,
         Calling => UNCHANGED streaming,
         \/ Forgets /\ ~Calling
         \/ UNCHANGED uncertain /\ saved' \in {saved, NoOne},
         \/ UNCHANGED retained
         \/ /\ Forgets
            /\ \E g \in Generations, e \in Ended :
                 /\ retained' = [retained EXCEPT ![g] = e]
                 /\ g = Elsewhere \/ g \in Made
                 /\ generations[g] = e \/ (generations[g] = "gone" /\ g \notin late)
  PROVE  ChatInv'
<1>1. Types /\ Made' = Made /\ Made \subseteq Requests
  BY MadeAreRequests DEF ChatInv, Heard, Made
<1>2. UNCHANGED <<generations, background, late, requests, call, outcomes, owed, faults>>
  BY DEF Heard
<1>3. /\ draft' \in Drafts /\ draft'.revision = draft.revision
      /\ draft'.text \in {Empty, draft.text}
  BY <1>1 DEF Heard, Types, Drafts
<1>4. recovery' \in Lookups /\ Quiet(recovery, recovery') /\ Remembers
  BY <1>1, <1>2, Nothings, LookupsAreQuieted DEF Heard, Types, Remembers
<1>5. /\ uncertain' \in Fates /\ uncertain'.id \in {NoOne} \cup Made
      /\ saved' \in {NoOne} \cup Made
      /\ uncertain' = NoRequest \/ uncertain' = uncertain
      /\ Calling => uncertain' = uncertain
  BY <1>1, Nothings DEF ChatInv, Known, Types, Forgets
<1>6. /\ retained' \in [Generations -> {"none"} \cup Ended]
      /\ \A g \in Generations : retained'[g] # retained[g] =>
           /\ retained'[g] \in Ended /\ g \in {Elsewhere} \cup Made /\ uncertain' = NoRequest
           /\ \/ generations[g] = retained'[g]
              \/ generations[g] = "gone" /\ g \notin late
  BY <1>1 DEF Types, Forgets
<1>7. Types'
  BY <1>1, <1>2, <1>3, <1>4, <1>5, <1>6, Identities DEF Types
<1>8. Known'
  <2>1. \A r \in Requests \ Made : retained'[r] = "none"
    BY <1>6, Identities DEF ChatInv, Known
  <2> QED BY <1>1, <1>2, <1>4, <1>5, <2>1, QuietIsKnown DEF ChatInv, Known
<1>9. Current'
  <2>1. draft.revision \in Nat
    BY <1>1, ChatAssumption DEF Types, Drafts
  <2>2. CASE uncertain' = NoRequest
    BY <1>2, <1>3, <1>5, <2>1, <2>2, Nothings DEF ChatInv, Current, Calling
  <2>3. CASE uncertain' # NoRequest
    <3>1. UNCHANGED <<uncertain, retained>>
      BY <1>5, <2>3 DEF Forgets
    <3> QED BY <1>2, <1>3, <3>1 DEF ChatInv, Current, Calling
  <2> QED BY <2>2, <2>3
<1>10. Spent'
  BY <1>1, <1>2, <1>6, Identities DEF ChatInv, Spent, Types, Ended
<1>11. Looked' /\ Sent'
  BY <1>1, <1>2, <1>3, <1>4, QuietIsLooked, SentStays DEF ChatInv
<1>12. ShownTurnsAreTrue'
  <2>1. RetainedIsTrue'
    BY <1>2, <1>6 DEF ChatInv, ShownTurnsAreTrue, RetainedIsTrue
  <2>2. StreamIsTheWindows'
    BY <1>2 DEF ChatInv, ShownTurnsAreTrue, StreamIsTheWindows, Calling
  <2> QED BY <2>1, <2>2 DEF ShownTurnsAreTrue
<1> QED BY <1>7, <1>8, <1>9, <1>10, <1>11, <1>12 DEF ChatInv

\* What is found running is shown as running.
LEMMA RunningIsShown ==
  ASSUME Types, NEW g \in Generations
  PROVE  [on |-> TRUE, id |-> g] \in Streamings /\ [on |-> TRUE, id |-> g].id = g
  BY DEF Streamings

LEMMA AdoptAnyKeeps ==
  ASSUME ChatInv, ~Calling, NEW kept \in {saved, NoOne}, AdoptAny(kept),
         UNCHANGED <<service, requests, call, outcomes, owed, faults>>
  PROVE  ChatInv'
<1>1. Types /\ UNCHANGED <<generations, background, late>> /\ recovery.active \subseteq Generations
  BY DEF ChatInv, service, Types, Lookups
<1>2. CASE Manual = {}
  <2>1. Heard /\ UNCHANGED <<uncertain, streaming, retained>> /\ saved' = kept
    BY <1>1, <1>2 DEF AdoptAny, Nothing, Heard
  <2> QED BY <1>1, <2>1, HeardKeeps
            DEF ChatInv, Types, Known, ShownTurnsAreTrue, StreamIsTheWindows
<1>3. CASE Manual # {}
  <2>1. PICK g \in Manual :
          /\ draft' = IF uncertain.id = g /\ uncertain.revision = draft.revision
                      THEN [draft EXCEPT !.text = Empty] ELSE draft
          /\ streaming' = [on |-> TRUE, id |-> g]
    BY <1>3 DEF AdoptAny
  <2>2. Heard /\ UNCHANGED <<uncertain, retained>> /\ saved' = kept
    BY <1>1, <1>3, <2>1 DEF AdoptAny, Heard
  <2>3. g \in Generations /\ g \in {Elsewhere} \cup Made /\ (background => g # Elsewhere)
    BY <1>1 DEF Manual, ChatInv, Known
  <2> QED BY <1>1, <2>1, <2>2, <2>3, RunningIsShown, HeardKeeps
<1> QED BY <1>2, <1>3

LEMMA AdoptKeeps ==
  ASSUME ChatInv, ~Calling, NEW g \in Generations, NEW state \in {"active"} \cup Ended, Adopt(g, state),
         g \in {Elsewhere} \cup Made, background => g # Elsewhere,
         state # "active" =>
           generations[g] = state \/ (generations[g] = "gone" /\ g \notin late),
         UNCHANGED <<service, requests, call, outcomes, owed, faults>>
  PROVE  ChatInv'
<1>1. Types /\ UNCHANGED <<generations, background, late>>
  BY DEF ChatInv, service
<1>2. Heard
  BY <1>1 DEF Adopt, Heard
<1>3. CASE state = "active"
  <2>1. streaming' = [on |-> TRUE, id |-> g] /\ UNCHANGED <<uncertain, saved, retained>>
    BY <1>3 DEF Adopt
  <2> QED BY <1>1, <1>2, <2>1, RunningIsShown, HeardKeeps
<1>4. CASE state # "active"
  <2>1. /\ streaming' = NotStreaming /\ Forgets
        /\ retained' = IF retained[g] # "none" THEN retained ELSE [retained EXCEPT ![g] = state]
    BY <1>4 DEF Adopt
  <2>2. streaming' \in Streamings /\ streaming'.id = NoOne /\ NoOne # Elsewhere
    BY <2>1, Nothings, Identities
  <2>3. state \in Ended
    BY <1>4
  <2> QED BY <1>2, <1>4, <2>1, <2>2, <2>3, HeardKeeps
<1> QED BY <1>3, <1>4

LEMMA NothingKeeps ==
  ASSUME ChatInv, Nothing(saved), UNCHANGED <<service, requests, call, outcomes, owed, faults>>
  PROVE  ChatInv'
<1>1. Heard /\ UNCHANGED <<uncertain, streaming, retained, saved>>
  BY DEF Nothing, Heard, service
<1> QED BY <1>1, HeardKeeps
          DEF ChatInv, Types, Known, ShownTurnsAreTrue, StreamIsTheWindows

\* A question about one generation is about one that has been made.
LEMMA AsksKeeps ==
  ASSUME ChatInv, ~Calling, NEW g \in Generations, Asks(g),
         g \in {Elsewhere} \cup Made, background => g # Elsewhere,
         UNCHANGED <<service, requests, call, outcomes, owed, faults>>
  PROVE  ChatInv'
<1>1. CASE g \in recovery.active
  BY <1>1, AdoptKeeps DEF Asks
<1>2. CASE g \notin recovery.active
  <2>1. /\ recovery' = [recovery EXCEPT !.step = "ask_one", !.asked = g]
        /\ UNCHANGED <<generations, background, late, draft, requests, uncertain, saved, call,
                       streaming, retained, outcomes, owed, faults>>
    BY <1>2 DEF Asks, service
  <2>2. Types
    BY DEF ChatInv
  <2>3. /\ recovery' \in Lookups /\ recovery'.step = "ask_one" /\ recovery'.asked = g
        /\ recovery'.active = recovery.active
    BY <2>1, <2>2 DEF Types, Lookups, Steps
  <2>4. Types' /\ Known'
    BY <2>1, <2>2, <2>3 DEF Types, ChatInv, Known, Made
  <2>5. Looked'
    BY <2>1, <2>3, Identities DEF ChatInv, Looked
  <2>6. Current' /\ Spent' /\ Sent' /\ ShownTurnsAreTrue'
    BY <2>1 DEF ChatInv, Current, Spent, Sent, ShownTurnsAreTrue, StreamIsTheWindows,
                RetainedIsTrue, Calling, Made
  <2> QED BY <2>4, <2>5, <2>6 DEF ChatInv
<1> QED BY <1>1, <1>2

LEMMA ActiveArrivesKeeps == ASSUME ChatInv, ActiveArrives PROVE ChatInv'
<1>1. /\ UNCHANGED <<service, requests, call, outcomes, owed, faults>>
      /\ CASE NotMine -> Nothing(saved)
           [] ~NotMine /\ streaming.id # NoOne -> Asks(streaming.id)
           [] ~NotMine /\ streaming.id = NoOne /\ saved # NoOne -> Asks(saved)
           [] OTHER -> AdoptAny(saved)
  BY DEF ActiveArrives
<1>2. /\ streaming.id \in {NoOne, Elsewhere} \cup Made /\ saved \in {NoOne} \cup Made
      /\ background => streaming.id # Elsewhere
      /\ Made \subseteq Requests
  BY MadeAreRequests DEF ChatInv, Known, ShownTurnsAreTrue, StreamIsTheWindows
<1>3. CASE Calling
  <2>1. Nothing(saved)
    BY <1>1, <1>3, Zenon DEF NotMine
  <2> QED BY <1>1, <2>1, NothingKeeps
<1>4. CASE ~Calling /\ streaming.id # NoOne
  <2>1. Asks(streaming.id)
    BY <1>1, <1>4, Zenon DEF NotMine
  <2> QED BY <1>1, <1>2, <1>4, <2>1, Identities, AsksKeeps
<1>5. CASE ~Calling /\ streaming.id = NoOne /\ saved # NoOne
  <2>1. Asks(saved)
    BY <1>1, <1>5, Zenon DEF NotMine
  <2> QED BY <1>1, <1>2, <1>5, <2>1, Identities, AsksKeeps
<1>6. CASE ~Calling /\ streaming.id = NoOne /\ saved = NoOne
  <2>1. AdoptAny(saved)
    BY <1>1, <1>6, Zenon DEF NotMine
  <2> QED BY <1>1, <1>6, <2>1, AdoptAnyKeeps
<1> QED BY <1>3, <1>4, <1>5, <1>6

\* The window shows a generation the service has forgotten, or has saved a request
\* that never arrived.
LEMMA GoneKeeps ==
  ASSUME ChatInv, ~Calling, Gone, UNCHANGED <<service, requests, call, outcomes, owed, faults>>
  PROVE  ChatInv'
<1>1. CASE streaming.id = recovery.asked
  <2>1. Heard /\ UNCHANGED <<uncertain, retained>> /\ saved' = NoOne /\ streaming' = NotStreaming
    BY <1>1 DEF Gone, Heard, service
  <2>2. NotStreaming \in Streamings /\ NotStreaming.id = NoOne /\ NoOne # Elsewhere
    BY Nothings, Identities
  <2> QED BY <2>1, <2>2, HeardKeeps
<1>2. CASE streaming.id # recovery.asked
  BY <1>2, AdoptAnyKeeps DEF Gone
<1> QED BY <1>1, <1>2

LEMMA OneArrivesKeeps == ASSUME ChatInv, OneArrives PROVE ChatInv'
<1>1. /\ UNCHANGED <<service, requests, call, outcomes, owed, faults>> /\ recovery.step = "one"
      /\ CASE NotMine -> Nothing(saved)
           [] ~NotMine /\ recovery.answer \in {"none", "gone"} -> Gone
           [] OTHER -> Adopt(recovery.asked, recovery.answer)
  BY DEF OneArrives
<1>2. CASE Calling
  <2>1. Nothing(saved)
    BY <1>1, <1>2, Zenon DEF NotMine
  <2> QED BY <1>1, <2>1, NothingKeeps
<1>3. CASE ~Calling /\ recovery.answer \in {"none", "gone"}
  <2>1. Gone
    BY <1>1, <1>3, Zenon DEF NotMine
  <2> QED BY <1>1, <1>3, <2>1, GoneKeeps
<1>4. CASE ~Calling /\ recovery.answer \notin {"none", "gone"}
  <2>1. Adopt(recovery.asked, recovery.answer)
    BY <1>1, <1>4, Zenon DEF NotMine
  <2>2. recovery \in Lookups /\ recovery.answer \in {"active"} \cup Ended
    BY <1>4 DEF ChatInv, Types, Lookups, States
  <2>3. /\ recovery.asked \in Generations /\ recovery.asked \in {Elsewhere} \cup Made
        /\ background => recovery.asked # Elsewhere
    BY <1>1, <2>2 DEF ChatInv, Looked, Known, Lookups
  <2>4. recovery.answer # "active" =>
          \/ generations[recovery.asked] = recovery.answer
          \/ generations[recovery.asked] = "gone" /\ recovery.asked \notin late
    BY <1>1, <1>4, <2>2 DEF ChatInv, Looked
  <2> QED BY <1>1, <1>4, <2>1, <2>2, <2>3, <2>4, AdoptKeeps
<1> QED BY <1>2, <1>3, <1>4

-----------------------------------------------------------------------------
(* The theorems.                                                             *)

LEMMA ChatInit == Init => ChatInv
<1> SUFFICES ASSUME Init PROVE ChatInv
  OBVIOUS
<1>1. Made = {} /\ <<>> \in Seq(Messages) /\ Len(requests) = 0
  BY DEF Init, Made
<1>2. draft \in Drafts /\ draft.text = Empty /\ draft.revision = 0
  BY ChatAssumption DEF Init, Drafts
<1>3. Types
  <2>1. /\ generations \in [Generations -> States] /\ late \subseteq Requests
        /\ background \in BOOLEAN /\ retained \in [Generations -> {"none"} \cup Ended]
        /\ outcomes \subseteq 1..MaxRevisions
    BY DEF Init, States
  <2>2. requests \in Seq(Messages) /\ Len(requests) <= MaxRequests
    BY <1>1, ChatAssumption DEF Init
  <2>3. /\ uncertain \in Fates /\ saved \in {NoOne} \cup Requests /\ call \in Calls
        /\ streaming \in Streamings /\ recovery \in Lookups
    BY Nothings, Zenon DEF Init
  <2>4. owed \in BOOLEAN
    BY Zenon DEF Init
  <2>5. 0 \in 0..MaxFaults /\ faults = 0
    BY ChatAssumption DEF Init
  <2> QED BY <1>2, <2>1, <2>2, <2>3, <2>4, <2>5 DEF Types
<1>4. Known /\ Current /\ Spent /\ Looked /\ Sent
  BY <1>1, <1>2, Nothings, Identities
     DEF Init, Known, Current, Calling, Spent, Looked, Sent
<1>5. ShownTurnsAreTrue
  BY Nothings, Identities
     DEF Init, ShownTurnsAreTrue, StreamIsTheWindows, RetainedIsTrue, Calling
<1> QED BY <1>3, <1>4, <1>5 DEF ChatInv

LEMMA ChatStep == ChatInv /\ [Next]_vars => ChatInv'
<1> SUFFICES ASSUME ChatInv, [Next]_vars PROVE ChatInv'
  OBVIOUS
<1>1. CASE Next
  BY <1>1, GenerationEndsKeeps, OthersStartKeeps, AcceptsKeeps, ArrivesLateKeeps,
     DataRestoredKeeps, TypeKeeps, SendKeeps, ReactsKeeps, StopKeeps, MetaKeeps,
     EndsOfStreamsKeep, QuietLookupsKeep, ServiceAnswersKeeps, ActiveArrivesKeeps,
     OneArrivesKeeps DEF Next, Stream, Lookup
<1>2. CASE UNCHANGED vars
  BY <1>2 DEF vars, ChatInv, Types, Known, Made, Current, Calling, Spent, Looked, Sent,
              ShownTurnsAreTrue, StreamIsTheWindows, RetainedIsTrue
<1> QED BY <1>1, <1>2

LEMMA ChatAlways == Spec => []ChatInv
  BY ChatInit, ChatStep, PTL DEF Spec

\* The variables keep their ranges.
THEOREM TypeCorrect == Spec => []TypeOK
<1>1. ChatInv => TypeOK
  BY TypesAreTyped DEF ChatInv
<1> QED BY <1>1, ChatAlways, PTL

\* Whatever is lost, answered late or overtaken, the stream that is read is shown as
\* running and as nothing else, no background turn is taken for the window's own,
\* and a turn shown as ended has ended the way it is shown.
THEOREM ShownTurnsAreRight == Spec => []ShownTurnsAreTrue
<1>1. ChatInv => ShownTurnsAreTrue
  BY DEF ChatInv
<1> QED BY <1>1, ChatAlways, PTL

\* A message that is found accepted is one the service has had.
LEMMA FoundIsAccepted ==
  ASSUME ChatInv, NEW g \in Generations, uncertain.id = g, uncertain.revision = draft.revision,
         draft.text # Empty, generations[g] # "none"
  PROVE  \E r \in Made : requests[r].text = draft.text /\ generations[r] # "none"
<1>1. uncertain.id # NoOne /\ uncertain.id \in Made
  BY Identities DEF ChatInv, Known
<1> QED BY <1>1 DEF ChatInv, Current

LEMMA ClearedIsAccepted ==
  ASSUME ChatInv, [Next]_vars, draft.text # Empty, draft'.text = Empty
  PROVE  \E r \in Made : requests[r].text = draft.text /\ generations[r] # "none"
<1>1. recovery.active \subseteq Generations /\ recovery \in Lookups
  BY DEF ChatInv, Types, Lookups
<1>2. CASE Reacts
  <2>1. PICK o \in outcomes : o = draft.revision
    BY <1>2 DEF Reacts
  <2> QED BY <2>1 DEF ChatInv, Sent
<1>3. CASE AdoptAny(saved) \/ AdoptAny(NoOne)
  <2>1. PICK g \in Manual : uncertain.id = g /\ uncertain.revision = draft.revision
    BY <1>3 DEF AdoptAny, Nothing
  <2>2. g \in Generations /\ generations[g] # "none"
    BY <1>1, <2>1 DEF Manual, ChatInv, Looked
  <2> QED BY <2>1, <2>2, FoundIsAccepted
<1>4. ASSUME NEW g \in Generations, NEW state, Adopt(g, state), generations[g] # "none"
      PROVE  \E r \in Made : requests[r].text = draft.text /\ generations[r] # "none"
  <2>1. uncertain.id = g /\ uncertain.revision = draft.revision
    BY <1>4 DEF Adopt
  <2> QED BY <1>4, <2>1, FoundIsAccepted
<1>5. CASE ActiveArrives
  <2>1. CASE Calling
    BY <1>5, <2>1, Zenon DEF ActiveArrives, NotMine, Nothing
  <2>2. CASE ~Calling /\ (streaming.id # NoOne \/ saved # NoOne)
    <3>1. PICK g \in {streaming.id, saved} : Asks(g)
      BY <1>5, <2>2, Zenon DEF ActiveArrives, NotMine
    <3>2. g \in recovery.active /\ Adopt(g, "active")
      BY <3>1 DEF Asks
    <3> QED BY <1>1, <1>4, <3>2 DEF ChatInv, Looked
  <2>3. CASE ~Calling /\ streaming.id = NoOne /\ saved = NoOne
    <3>1. AdoptAny(saved)
      BY <1>5, <2>3, Zenon DEF ActiveArrives, NotMine
    <3> QED BY <1>3, <3>1
  <2> QED BY <2>1, <2>2, <2>3
<1>6. CASE OneArrives
  <2>1. CASE Calling
    BY <1>6, <2>1, Zenon DEF OneArrives, NotMine, Nothing
  <2>2. CASE ~Calling /\ recovery.answer \in {"none", "gone"}
    <3>1. Gone
      BY <1>6, <2>2, Zenon DEF OneArrives, NotMine
    <3> QED BY <1>3, <3>1 DEF Gone
  <2>3. CASE ~Calling /\ recovery.answer \notin {"none", "gone"}
    <3>1. Adopt(recovery.asked, recovery.answer) /\ recovery.step = "one"
      BY <1>6, <2>3, Zenon DEF OneArrives, NotMine
    <3>2. recovery.asked \in Generations /\ generations[recovery.asked] # "none"
      BY <1>1, <2>3, <3>1 DEF ChatInv, Looked, Lookups
    <3> QED BY <1>4, <3>1, <3>2
  <2> QED BY <2>1, <2>2, <2>3
<1>7. CASE Type
  <2>1. draft'.text \in Texts
    BY <1>7 DEF Type
  <2> QED BY <2>1 DEF Texts, Empty
<1>8. CASE UNCHANGED vars
  BY <1>8 DEF vars
<1>9. CASE \/ GenerationEnds \/ OthersStart \/ Accepts \/ ArrivesLate \/ DataRestored \/ Send
           \/ Stop \/ Stream \/ Poll \/ RecoveryFails
           \/ OwedRecovery \/ ServiceAnswers \/ StaleArrives
  <2>1. UNCHANGED draft
    BY <1>9 DEF GenerationEnds, OthersStart, Accepts, ArrivesLate, DataRestored, Send, Stop, Stream,
                Meta, StreamEnds, AlreadyAccepted, Rejects, Breaks, Aborted, Poll, RecoveryFails,
                OwedRecovery, ServiceAnswers, StaleArrives, typing
  <2> QED BY <2>1
<1> QED BY <1>2, <1>5, <1>6, <1>7, <1>8, <1>9 DEF Next, Lookup

\* A draft that goes is the text of a message whose request the service has had: what
\* was typed while it was on its way stays, and so does one that never arrived.
THEOREM DraftsAreKept == Spec => OnlyAcceptedIsCleared
<1>1. ChatInv /\ [Next]_vars =>
        [draft.text # Empty /\ draft'.text = Empty =>
           \E r \in DOMAIN requests : requests[r].text = draft.text /\ generations[r] # "none"]_vars
  <2>1. ChatInv => DOMAIN requests = Made
    BY DEF ChatInv, Types, Made
  <2> QED BY <2>1, ClearedIsAccepted
<1> QED BY <1>1, ChatAlways, PTL DEF Spec, OnlyAcceptedIsCleared
=============================================================================
