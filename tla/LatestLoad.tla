----------------------------- MODULE LatestLoad -----------------------------
(***************************************************************************)
(* What a page of the console that loads again and again promises: it      *)
(* shows the answer of a load only while that load is the newest one asked *)
(* for, so that what it shows never goes back to an older one.  Loads are  *)
(* numbered from 1; 0 stands for nothing shown.                            *)
(***************************************************************************)
EXTENDS Naturals

VARIABLES
  asked,  \* the newest load
  shown   \* the load whose answer is shown

Init == asked \in Nat /\ shown = 0

Ask == asked' = asked + 1 /\ UNCHANGED shown
Show == shown < asked /\ shown' = asked /\ UNCHANGED asked

Next == Ask \/ Show

Spec == Init /\ [][Next]_<<asked, shown>>
=============================================================================
