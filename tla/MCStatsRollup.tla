--------------------------- MODULE MCStatsRollup ---------------------------
(* Three responses of one kind: two times fall in each bucket, two rows fill *)
(* a batch, and the third row is beyond the retention cap.                   *)
EXTENDS StatsRollup, TLC

CONSTANTS q1, q2, q3, any

MCDimOf    == [r \in Request |-> any]
Responses  == Permutations(Request)
=============================================================================
