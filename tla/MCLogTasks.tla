----------------------------- MODULE MCLogTasks -----------------------------
(* Three writes for one request, and a waiter on it: the first write may be  *)
(* over, and its entry gone or kept, when the third is linked to the second. *)
EXTENDS LogTasks

CONSTANTS t1, t2, t3, k1, w1

MCKeyOf   == [t \in Task |-> k1]
MCWaitKey == [w \in Waiter |-> k1]
=============================================================================
