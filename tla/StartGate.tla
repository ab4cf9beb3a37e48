----------------------------- MODULE StartGate ------------------------------
(***************************************************************************)
(* What the person who confirms an Agent Run with a start condition is     *)
(* promised: the run waits behind a one-way gate; the gate opens only      *)
(* after the condition has come true; the run starts only behind an open   *)
(* gate; and a gate that closes instead ends the run unstarted.            *)
(***************************************************************************)
VARIABLES
  gate,    \* "none" for an ordinary run, "waiting", "released", "closed"
  run,     \* "absent", "queued", "started", "over"
  earned   \* the predecessor has met the condition, which it cannot unmeet

vars == <<gate, run, earned>>

Init == gate = "none" /\ run = "absent" /\ earned = FALSE

\* A run is confirmed, with a condition that has not come true, or without.
Confirm ==
  /\ run = "absent" /\ run' = "queued"
  /\ gate' \in {"none", "waiting"}
  /\ UNCHANGED earned

Earn ==
  /\ gate # "none" /\ ~earned /\ earned' = TRUE
  /\ UNCHANGED <<gate, run>>

Release ==
  /\ gate = "waiting" /\ earned /\ run = "queued"
  /\ gate' = "released"
  /\ UNCHANGED <<run, earned>>

Close ==
  /\ gate = "waiting" /\ run \in {"queued", "over"}
  /\ gate' = "closed" /\ run' = "over"
  /\ UNCHANGED earned

Start ==
  /\ run = "queued" /\ gate \in {"none", "released"}
  /\ run' = "started"
  /\ UNCHANGED <<gate, earned>>

\* Cancelled while queued, refused at the claim, or finished without output.
End ==
  /\ run \in {"queued", "started"}
  /\ run' = "over"
  /\ UNCHANGED <<gate, earned>>

Next == Confirm \/ Earn \/ Release \/ Close \/ Start \/ End

Spec == Init /\ [][Next]_vars
=============================================================================
