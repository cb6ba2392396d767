------------------------- MODULE MCRoutineSchedule -------------------------
(* Model values for the runs of RoutineSchedule.                           *)
EXTENDS RoutineSchedule

CONSTANTS w1, w2, p1, p2

OneRow     == {w1}
TwoRows    == {w1, w2}
OnePass    == {p1}
TwoPasses  == {p1, p2}
TwoHours   == {0, 1}
=============================================================================
