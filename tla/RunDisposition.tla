--------------------------- MODULE RunDisposition ---------------------------
(***************************************************************************)
(* What the owner of the workspace is promised about one Agent Run,        *)
(* whatever workers, transactions, retries and restarts stand behind it:   *)
(* it is queued once, claimed once, the model is asked at most once, and   *)
(* it ends in exactly one disposition.  Output appears only for a run      *)
(* whose model was asked and whose cancellation was not accepted.          *)
(***************************************************************************)
EXTENDS Naturals

VARIABLES
  phase,     \* where the run stands
  accepted,  \* a cancellation was accepted
  asked      \* how often the model was asked

vars == <<phase, accepted, asked>>

Waiting == {"queued", "claimed"}
Published == {"submitted", "retained"}
Ended == {"failed", "cancelled", "interrupted"}
Phases == {"absent"} \cup Waiting \cup {"staged"} \cup Published \cup Ended

Init == phase = "absent" /\ accepted = FALSE /\ asked = 0

Queue ==
  phase = "absent" /\ phase' = "queued" /\ UNCHANGED <<accepted, asked>>

Claim ==
  phase = "queued" /\ phase' = "claimed" /\ UNCHANGED <<accepted, asked>>

Ask ==
  phase = "claimed" /\ asked = 0 /\ asked' = 1 /\ UNCHANGED <<phase, accepted>>

\* A cancellation ends a queued run at once and binds a claimed one.
Accept ==
  /\ phase \in Waiting
  /\ accepted' = TRUE
  /\ phase' = IF phase = "queued" THEN "cancelled" ELSE phase
  /\ UNCHANGED asked

\* The answer becomes durable: staged for delivery, or published.
Answer ==
  /\ phase \in {"claimed", "staged"} /\ asked = 1 /\ ~accepted
  /\ phase' \in Published \cup (IF phase = "claimed" THEN {"staged"} ELSE {})
  /\ UNCHANGED <<accepted, asked>>

\* The run ends without output; after an accepted cancellation, as cancelled.
End ==
  /\ \/ phase = "queued" /\ phase' = "failed"
     \/ phase = "claimed" /\ phase' \in (IF accepted THEN {"cancelled"} ELSE Ended)
  /\ UNCHANGED <<accepted, asked>>

Next == Queue \/ Claim \/ Ask \/ Accept \/ Answer \/ End

Spec == Init /\ [][Next]_vars
=============================================================================
