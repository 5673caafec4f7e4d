------------------------------ MODULE KeyQuota ------------------------------
(***************************************************************************)
(* The quotas of the API keys.  A request is let in by what its key has    *)
(* used so far (AuthenticateGateway, gateway/auth.go) and charged to the   *)
(* key once its response has been recorded (recordResponse, chargeQuota in *)
(* gateway/handler.go, IncrementCostUsed in repo/apikey.go).  In between   *)
(* lie the steps of RequestLog, other requests of the key, and the changes *)
(* the console makes to the keys.                                          *)
(*                                                                         *)
(* A charge is any number of micro-USD up to a bound: UsageCost has how it *)
(* is calculated.                                                          *)
(***************************************************************************)
EXTENDS RequestLog

CONSTANTS
  Key,      \* ids of keys; an id is given once
  Quota,    \* quotas a key may be given, in micro-USD
  None,     \* no quota; no key
  MaxCost   \* the most one response costs

(* What the theorems about this module assume of them.                      *)
QuotaAssumption ==
  /\ Quota \subseteq Int /\ None \notin Int /\ None \notin Key
  /\ MaxCost \in Nat

VARIABLES
  key,      \* console_api_keys: [at, quota, used]
  stage,    \* where the handling of each request stands
  apiKey,   \* the key it was let in with, None for the administrator's
  due,      \* the charge on its way to the key
  top,      \* history: the highest quota a key has had, None if ever without
  peak      \* history: the most requests of a key that were under way at once

quotaVars == <<key, stage, apiKey, due, top, peak>>
vars      == <<logVars, quotaVars>>

NoRow == [at |-> "free", quota |-> None, used |-> 0]

Init ==
  /\ LogInit
  /\ key = [k \in Key |-> NoRow]
  /\ stage = [r \in Request |-> "new"] /\ apiKey = [r \in Request |-> None]
  /\ due = [r \in Request |-> 0]
  /\ top = [k \in Key |-> 0] /\ peak = [k \in Key |-> 0]

Move(r, s)  == stage' = [stage EXCEPT ![r] = s]
UnderWay(k) == {r \in Request : apiKey[r] = k /\ stage[r] \in {"admitted", "charge"}}

-----------------------------------------------------------------------------
(* AuthenticateGateway *)

(* Mutant: a quota that is just used up still lets requests in. *)
QuotaOverdrawn(k) == key[k].quota # None /\ key[k].used > key[k].quota
QuotaExhausted(k) == key[k].quota # None /\ key[k].used >= key[k].quota

(* One query reads quota and usage together.                                 *)
Authenticate(r, k) ==
  /\ stage[r] = "new" /\ key[k].at = "row" /\ ~QuotaExhausted(k)
  /\ Move(r, "admitted")
  /\ apiKey' = [apiKey EXCEPT ![r] = k]
  /\ LET n == Cardinality(UnderWay(k)) + 1
     IN  peak' = [peak EXCEPT ![k] = IF n > @ THEN n ELSE @]
  /\ UNCHANGED <<logVars, key, due, top>>

AuthenticateAdmin(r) ==
  /\ stage[r] = "new" /\ Move(r, "admitted")
  /\ UNCHANGED <<logVars, key, apiKey, due, top, peak>>

(* No such key, no answer from the database, the quota used up, or a model   *)
(* that the key may not use.                                                 *)
Refuse(r) ==
  /\ stage[r] = "new" /\ Move(r, "over")
  /\ UNCHANGED <<logVars, key, apiKey, due, top, peak>>

-----------------------------------------------------------------------------
(* The request *)

(* No upstream answered with headers that were relayed: nothing is recorded. *)
EndUnrelayed(r) ==
  /\ stage[r] = "admitted" /\ created[r] = 0 /\ Move(r, "over")
  /\ UNCHANGED <<logVars, key, apiKey, due, top, peak>>

Relay(r) == stage[r] = "admitted" /\ RecordRequest(r) /\ UNCHANGED quotaVars

(* Not captured, or a wait of the goroutine lasted 30 seconds: no charge.    *)
EndUncharged(r) ==
  /\ RecordResponse(r) \/ GiveUp(r)
  /\ IF update'[r] = "over" THEN Move(r, "over") ELSE UNCHANGED stage
  /\ UNCHANGED <<key, apiKey, due, top, peak>>

(* After the UPDATE, whether or not it succeeded, the usage is priced.       *)
ChargeQuota(r) ==
  /\ SaveResponse(r)
  /\ IF apiKey[r] = None
     THEN Move(r, "over") /\ UNCHANGED due
     ELSE Move(r, "charge") /\ \E cost \in 0..MaxCost : due' = [due EXCEPT ![r] = cost]
  /\ UNCHANGED <<key, apiKey, top, peak>>

(* cost_used = cost_used + due; a deleted row matches nothing, and the error *)
(* of a failed update is only logged.                                        *)
IncrementCostUsed(r) ==
  /\ stage[r] = "charge" /\ Move(r, "over")
  /\ due' = [due EXCEPT ![r] = 0]
  /\ \/ key' = [key EXCEPT ![apiKey[r]].used = IF key[apiKey[r]].at = "row" THEN @ + due[r] ELSE @]
     \/ UNCHANGED key
  /\ UNCHANGED <<logVars, apiKey, top, peak>>

-----------------------------------------------------------------------------
(* The console *)

Higher(a, b) == IF a = None \/ b = None THEN None ELSE IF a > b THEN a ELSE b

Create(k, quota) ==
  /\ key[k].at = "free"
  /\ key' = [key EXCEPT ![k] = [at |-> "row", quota |-> quota, used |-> 0]]
  /\ top' = [top EXCEPT ![k] = quota]
  /\ UNCHANGED <<logVars, stage, apiKey, due, peak>>

(* Also below what is used; of a key that is gone it says so.                *)
SetCostQuota(k, quota) ==
  /\ IF key[k].at = "row"
     THEN /\ key' = [key EXCEPT ![k].quota = quota]
          /\ top' = [top EXCEPT ![k] = Higher(@, quota)]
     ELSE UNCHANGED <<key, top>>
  /\ UNCHANGED <<logVars, stage, apiKey, due, peak>>

(* Requests of the key that are under way go on.                             *)
DeleteKey(k) ==
  /\ key[k].at = "row" /\ key' = [key EXCEPT ![k].at = "gone"]
  /\ UNCHANGED <<logVars, stage, apiKey, due, top, peak>>

-----------------------------------------------------------------------------
Crash ==
  /\ Restart
  /\ stage' = [r \in Request |-> IF stage[r] = "new" THEN "new" ELSE "over"]
  /\ due' = [r \in Request |-> 0]
  /\ UNCHANGED <<key, apiKey, top, peak>>

Next ==
  \/ \E r \in Request :
       \/ \E k \in Key : Authenticate(r, k)
       \/ AuthenticateAdmin(r) \/ Refuse(r) \/ EndUnrelayed(r) \/ Relay(r)
       \/ (SaveRequest(r) \/ Observe(r) \/ WaitForRequest(r) \/ ObserveDone(r))
            /\ UNCHANGED quotaVars
       \/ EndUncharged(r) \/ ChargeQuota(r) \/ IncrementCostUsed(r)
  \/ \E k \in Key :
       \/ \E quota \in Quota \cup {None} : Create(k, quota) \/ SetCostQuota(k, quota)
       \/ DeleteKey(k)
  \/ (Cleanup \/ Clock) /\ UNCHANGED quotaVars
  \/ Crash

Spec == Init /\ [][Next]_vars

-----------------------------------------------------------------------------
(* Properties *)

TypeOK ==
  /\ LogTypeOK
  /\ key \in [Key -> [at: {"free", "row", "gone"}, quota: Int \cup {None}, used: Nat]]
  /\ stage \in [Request -> {"new", "admitted", "charge", "over"}]
  /\ apiKey \in [Request -> Key \cup {None}]
  /\ due \in [Request -> 0..MaxCost]
  /\ top \in [Key -> Int \cup {None}] /\ peak \in [Key -> Nat]

(* What a key is charged stays below its highest quota and what the requests *)
(* under way at one time may cost: the check does not reserve anything, so   *)
(* they are all let in by the same balance, but once their charges have used *)
(* the quota up nobody else is, whatever was given up, lost in a crash or    *)
(* changed in the console meanwhile (auth.go:91, handler.go:634-659).        *)
OverspendBounded ==
  \A k \in Key :
    key[k].used > 0 /\ top[k] # None => key[k].used < top[k] + MaxCost * peak[k]
=============================================================================
