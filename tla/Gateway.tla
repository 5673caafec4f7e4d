------------------------------- MODULE Gateway -------------------------------
(***************************************************************************)
(* Two parts of the gateway of which a behaviour shows one while the other *)
(* rests: one request in the loop over the routes, and the requests of the *)
(* keys and what they are charged.                                         *)
(***************************************************************************)
EXTENDS GatewayProxy

CONSTANTS
  Relayed,  \* the requests of the keys
  Key, Quota, None, MaxCost, MaxRecords, MaxTime, MaxRestarts

VARIABLES
  part,     \* the part that is shown
  now, restarts, created, completed, insert, update, row, clean,
  key, stage, apiKey, due, top, peak

account == <<now, restarts, created, completed, insert, update, row, clean,
             key, stage, apiKey, due, top, peak>>

Account == INSTANCE KeyQuota WITH Request <- Relayed

ASSUME AccountAssumption ==
  /\ Account!QuotaAssumption
  /\ IsFiniteSet(Relayed)
  /\ MaxRecords \in Nat /\ MaxTime \in Nat /\ MaxRestarts \in Nat

ProxyRests == Init /\ req = (CHOOSE q \in Request : ~q.timed) /\ policy = (CHOOSE p \in Policy : TRUE)

GatewayInit ==
  \/ part = "proxy" /\ Init /\ Account!Init
  \/ part = "account" /\ ProxyRests /\ Account!Init

GatewayNext ==
  \/ part = "proxy" /\ Next /\ UNCHANGED <<part, account>>
  \/ part = "account" /\ Account!Next /\ UNCHANGED <<part, vars>>

GatewaySpec == GatewayInit /\ [][GatewayNext]_<<part, vars, account>>

(* The fairness of the handler; the keys are checked for safety only.        *)
FairGatewaySpec == GatewaySpec /\ HandlerFairness

(* A key is charged less than its highest quota and what the requests under  *)
(* way at one time may cost, whatever crashes, fails or is changed           *)
(* (auth.go:91, handler.go:634-659).                                         *)
OverspendBounded == Account!OverspendBounded
=============================================================================
