----------------------------- MODULE MCAgentRun -----------------------------
(* TLC instances of AgentRun.                                              *)
EXTENDS AgentRun, TLC

CONSTANTS t1, t2, o1, o2, o3

TaskPair == {t1, t2}
Objects3 == {o1, o2, o3}

\* What is looked at: one run, with every fault, outside command, crash and shutdown
\* the bounds allow, or two, which compete for one worker, with a single fault.
VARIABLE looksAt
runVars == <<looksAt, vars>>
Within ==
  /\ task[1] # t2   \* the tasks are alike
  /\ \/ looksAt = "one_run" /\ status[2] = "none"
     \/ looksAt = "two_runs" /\ faults <= 1 /\ changes = 0 /\ stops = 0
RunInit == Init /\ looksAt \in {"one_run", "two_runs"}
RunNext == UNCHANGED looksAt /\ Next /\ Within'
RunSpec == RunInit /\ [][RunNext]_runVars /\ Fairness

FirstRun == INSTANCE RunDisposition
  WITH phase <- Phase(1), accepted <- 1 \in cancelRequested, asked <- calls[1]

\* Every step of the sidecar is, for the run, a step of RunDisposition or a
\* stutter: queued, claimed and asked at most once, and ended exactly once.
RunKeepsItsPromise == FirstRun!Spec
=============================================================================
