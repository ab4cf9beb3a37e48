--------------------------- MODULE MCAgentRunGate ---------------------------
(* TLC instances of AgentRunGate.                                          *)
EXTENDS AgentRunGate, TLC

CONSTANTS p1, p2

Nobody == {}
OnePerson == {p1}
TwoPeople == {p1, p2}
OneStep == {1}

\* A pair of runs is looked at with slots, people, edits and crashes; a chain or a
\* fork of three without.
PairOrPlainChain ==
  phase[3] # "absent" =>
    /\ \A r \in Runs : ~slot[r]
    /\ edits = 0 /\ stops = 0

PersonSymmetry == Permutations(People)
=============================================================================
