-------------------------- MODULE MCAgentFailover --------------------------
(* Model values for the runs of AgentFailover.                             *)
EXTENDS AgentFailover

CONSTANTS a1, a2, s1, d1, d2, c1

TwoAgents   == {a1, a2}
OneSweep    == {s1}
OneAdmin    == {d1}
TwoAdmins   == {d1, d2}
OneConnector == {c1}
NoConnector  == {}
RevokedOnly  == {"revoked"}
PausedRevoked == {"paused", "revoked"}
=============================================================================
