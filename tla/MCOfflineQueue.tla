--------------------------- MODULE MCOfflineQueue ---------------------------
(* Model values for the runs of OfflineQueue.                              *)
EXTENDS OfflineQueue

CONSTANTS f1, f2

OneFlusher  == {f1}
TwoFlushers == {f1, f2}
=============================================================================
