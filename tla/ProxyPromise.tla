---------------------------- MODULE ProxyPromise ----------------------------
(***************************************************************************)
(* What the gateway promises for one inbound request: upstreams are called *)
(* a bounded number of times, only while nothing has been answered; the    *)
(* answer starts once and, when it has ended, nothing more happens.  A     *)
(* request may also be dropped without an answer, after at least one       *)
(* upstream had it: the code does that, its comments deny it.              *)
(***************************************************************************)
EXTENDS Naturals

VARIABLES
  phase,   \* "open", "answering", "closed" or "dropped"
  sends,   \* upstream calls so far
  budget   \* upstream calls allowed

vars == <<phase, sends, budget>>

Init == phase = "open" /\ sends = 0 /\ budget \in Nat

Send ==
  /\ phase = "open" /\ sends < budget
  /\ sends' = sends + 1
  /\ UNCHANGED <<phase, budget>>

Answer ==
  /\ phase = "open"
  /\ phase' \in {"answering", "closed"}
  /\ UNCHANGED <<sends, budget>>

Finish ==
  /\ phase = "answering"
  /\ phase' = "closed"
  /\ UNCHANGED <<sends, budget>>

Drop ==
  /\ phase = "open" /\ sends > 0
  /\ phase' = "dropped"
  /\ UNCHANGED <<sends, budget>>

Next == Send \/ Answer \/ Finish \/ Drop

Spec == Init /\ [][Next]_vars
=============================================================================
