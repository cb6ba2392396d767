-------------------------- MODULE MCWriteApproval --------------------------
(* Model values for the runs of WriteApproval.                             *)
EXTENDS WriteApproval, TLC

CONSTANTS a1, q1, q2, q3

OneAgent      == {a1}
OneRequest    == {q1}
ThreeRequests == {q1, q2, q3}

Symmetry == Permutations(ThreeRequests)
=============================================================================
