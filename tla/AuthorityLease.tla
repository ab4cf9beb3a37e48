--------------------------- MODULE AuthorityLease ---------------------------
(***************************************************************************)
(* What a person who lets the assistant go on by itself is promised: the   *)
(* permission is granted once, is worth a limited number of turns, and     *)
(* when it has ended for any reason it is never worth a turn again.        *)
(***************************************************************************)
EXTENDS Naturals

CONSTANT MaxTurns

VARIABLES
  permission,  \* "unasked", "open" or "ended"
  spent        \* turns begun under it

vars == <<permission, spent>>

Init == permission = "unasked" /\ spent = 0

Grant == permission = "unasked" /\ permission' = "open" /\ UNCHANGED spent

Spend ==
  /\ permission = "open" /\ spent < MaxTurns
  /\ spent' = spent + 1
  /\ UNCHANGED permission

End == permission = "open" /\ permission' = "ended" /\ UNCHANGED spent

Next == Grant \/ Spend \/ End

Spec == Init /\ [][Next]_vars
=============================================================================
