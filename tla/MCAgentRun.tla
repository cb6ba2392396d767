----------------------------- MODULE MCAgentRun -----------------------------
(* Model values for the runs of AgentRun.                                  *)
EXTENDS AgentRun, TLC

CONSTANTS r1, r2, t1, a1

TwoRuns  == {r1, r2}
OneTask  == {t1}
OneAgent == {a1}

Symmetry == Permutations(TwoRuns)
=============================================================================
