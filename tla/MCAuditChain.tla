---------------------------- MODULE MCAuditChain ----------------------------
(* Model values for the runs of AuditChain.                                *)
EXTENDS AuditChain

CONSTANTS w1, c1

OneWriter   == {w1}
OneChecker  == {c1}
=============================================================================
