---------------------------- MODULE MCAgentTasks ----------------------------
(* Model values for the runs of AgentTasks.                                *)
EXTENDS AgentTasks

CONSTANTS a1, a2, r1, r2, s1, s2

OneAgent   == {a1}
MCAgents   == {a1, a2}
TwoRunners == {r1, r2}
TwoSweeps  == {s1, s2}
OneSweep   == {s1}
=============================================================================
