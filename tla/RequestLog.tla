----------------------------- MODULE RequestLog -----------------------------
(***************************************************************************)
(* The life of the rows of console_requests: the INSERT that               *)
(* recordRequest starts when the headers are relayed, the UPDATE that      *)
(* recordResponse makes once the body has ended and been parsed, and the   *)
(* scheduler's Cleanup, which prunes beyond the retention cap              *)
(* (internal/gateway/handler.go, internal/consolestore/store.go).          *)
(*                                                                         *)
(* Every database call is a step of its own and may fail.  LogTasks opens  *)
(* up the coordinator that orders the two writes of a request.             *)
(***************************************************************************)
EXTENDS Integers, FiniteSets

CONSTANTS
  Request,     \* the relayed responses considered
  MaxRecords,  \* the retention cap, DEBUG_DB_MAX_RECORDS
  MaxTime,     \* bound of the clock
  MaxRestarts  \* bound of the process restarts

ASSUME LogAssumption ==
  /\ IsFiniteSet(Request)
  /\ MaxRecords \in Nat /\ MaxTime \in Nat /\ MaxRestarts \in Nat

VARIABLES
  now,        \* the clock
  restarts,
  created,    \* created_at of each response, 0 before it is relayed
  completed,  \* completed_at the observer took, 0 before the body ended
  insert,     \* where the INSERT of recordRequest stands
  update,     \* where the goroutine of recordResponse stands
  row,        \* what the table holds of each request
  clean       \* the run of Cleanup: its place and its cutoff

logVars == <<now, restarts, created, completed, insert, update, row, clean>>

Time    == 1..(MaxTime + 1)
Present == {r \in Request : row[r] \in {"open", "completed"}}

LogInit ==
  /\ now = 1 /\ restarts = 0
  /\ created = [r \in Request |-> 0] /\ completed = [r \in Request |-> 0]
  /\ insert = [r \in Request |-> "none"] /\ update = [r \in Request |-> "none"]
  /\ row = [r \in Request |-> "absent"]
  /\ clean = [at |-> "idle", cutoff |-> 0]

-----------------------------------------------------------------------------
(* The two writes of a request *)

(* The headers are relayed and the INSERT is handed to the coordinator.      *)
RecordRequest(r) ==
  /\ created[r] = 0
  /\ created' = [created EXCEPT ![r] = now]
  /\ insert' = [insert EXCEPT ![r] = "pending"]
  /\ UNCHANGED <<now, restarts, completed, update, row, clean>>

(* Nobody reads the error: the task ends either way. *)
SaveRequest(r) ==
  /\ insert[r] = "pending"
  /\ insert' = [insert EXCEPT ![r] = "ended"]
  /\ \E result \in {"open", "refused"} : row' = [row EXCEPT ![r] = result]
  /\ UNCHANGED <<now, restarts, created, completed, update, clean>>

(* The body has ended; only POSTs are captured, others end here. *)
RecordResponse(r) ==
  /\ created[r] # 0 /\ update[r] = "none"
  /\ \E next \in {"insert", "over"} : update' = [update EXCEPT ![r] = next]
  /\ UNCHANGED <<now, restarts, created, completed, insert, row, clean>>

(* The observer drains the closed pipe, stamps the end and parses usage. *)
Observe(r) ==
  /\ update[r] \in {"insert", "observer"} /\ completed[r] = 0
  /\ completed' = [completed EXCEPT ![r] = now]
  /\ UNCHANGED <<now, restarts, created, insert, update, row, clean>>

InsertEnded(r) == insert[r] = "ended"

WaitForRequest(r) ==
  /\ update[r] = "insert" /\ InsertEnded(r)
  /\ update' = [update EXCEPT ![r] = "observer"]
  /\ UNCHANGED <<now, restarts, created, completed, insert, row, clean>>

ObserveDone(r) ==
  /\ update[r] = "observer" /\ completed[r] # 0
  /\ update' = [update EXCEPT ![r] = "save"]
  /\ UNCHANGED <<now, restarts, created, completed, insert, row, clean>>

(* Either wait lasted 30 seconds: the row keeps no response. *)
GiveUp(r) ==
  /\ update[r] \in {"insert", "observer"}
  /\ update' = [update EXCEPT ![r] = "over"]
  /\ UNCHANGED <<now, restarts, created, completed, insert, row, clean>>

(* The UPDATE: it may fail, and no matching row is no error. *)
SaveResponse(r) ==
  /\ update[r] = "save"
  /\ update' = [update EXCEPT ![r] = "over"]
  /\ \/ row' = [row EXCEPT ![r] = IF @ = "open" THEN "completed" ELSE @]
     \/ UNCHANGED row
  /\ UNCHANGED <<now, restarts, created, completed, insert, clean>>

-----------------------------------------------------------------------------
(* Cleanup: count, find the cutoff, delete *)

NewerThan(c) == {r \in Present : created[r] > c}
NoOlder(c)   == {r \in Present : created[r] >= c}

Count ==
  /\ clean.at = "idle" /\ Cardinality(Present) > MaxRecords
  /\ clean' = [at |-> "cutoff", cutoff |-> 0]
  /\ UNCHANGED <<now, restarts, created, completed, insert, update, row>>

(* ORDER BY created_at DESC OFFSET MaxRecords LIMIT 1. *)
FindCutoff ==
  /\ clean.at = "cutoff"
  /\ \E r \in Present :
       /\ Cardinality(NewerThan(created[r])) <= MaxRecords
       /\ Cardinality(NoOlder(created[r])) > MaxRecords
       /\ clean' = [at |-> "delete", cutoff |-> created[r]]
  /\ UNCHANGED <<now, restarts, created, completed, insert, update, row>>

ExcessWithTies == {r \in Present : created[r] <= clean.cutoff}
Excess         == {r \in Present : created[r] < clean.cutoff}

Delete ==
  /\ clean.at = "delete"
  /\ row' = [r \in Request |-> IF r \in Excess THEN "pruned" ELSE row[r]]
  /\ clean' = [at |-> "idle", cutoff |-> 0]
  /\ UNCHANGED <<now, restarts, created, completed, insert, update>>

CleanupFails ==
  /\ clean.at # "idle"
  /\ clean' = [at |-> "idle", cutoff |-> 0]
  /\ UNCHANGED <<now, restarts, created, completed, insert, update, row>>

-----------------------------------------------------------------------------
Clock ==
  /\ now <= MaxTime /\ now' = now + 1
  /\ UNCHANGED <<restarts, created, completed, insert, update, row, clean>>

(* The process dies and starts again: only the table is left. *)
Restart ==
  /\ restarts < MaxRestarts /\ restarts' = restarts + 1
  /\ insert' = [r \in Request |-> IF insert[r] = "pending" THEN "none" ELSE insert[r]]
  /\ update' = [r \in Request |-> IF created[r] = 0 THEN "none" ELSE "over"]
  /\ clean' = [at |-> "idle", cutoff |-> 0]
  /\ UNCHANGED <<now, created, completed, row>>

Writes(r) ==
  \/ RecordRequest(r) \/ SaveRequest(r) \/ RecordResponse(r)
  \/ Observe(r) \/ WaitForRequest(r) \/ ObserveDone(r) \/ GiveUp(r)

Cleanup == Count \/ FindCutoff \/ Delete \/ CleanupFails

-----------------------------------------------------------------------------
(* Properties *)

LogTypeOK ==
  /\ now \in Time /\ restarts \in 0..MaxRestarts
  /\ created \in [Request -> Time \cup {0}]
  /\ completed \in [Request -> Time \cup {0}]
  /\ insert \in [Request -> {"none", "pending", "ended"}]
  /\ update \in [Request -> {"none", "insert", "observer", "save", "over"}]
  /\ row \in [Request -> {"absent", "refused", "open", "completed", "pruned"}]
  /\ clean \in [at: {"idle", "cutoff", "delete"}, cutoff: Time \cup {0}]

(* The UPDATE is never issued before the INSERT: a response that finds no    *)
(* row was refused one by the database or lost it to Cleanup (handler.go:    *)
(* 580, store.go:140-141).                                                   *)
SaveAfterInsert == \A r \in Request : update[r] = "save" => row[r] # "absent"

(* A row is pruned only if MaxRecords newer ones stay, whatever was inserted *)
(* or completed since the rows were counted (store.go:289-292).              *)
KeepsNewest ==
  [][\A r \in Request : row[r] # "pruned" /\ row'[r] = "pruned" =>
       Cardinality({q \in Request : /\ row'[q] \in {"open", "completed"}
                                    /\ created[q] > created[r]}) >= MaxRecords]_logVars
=============================================================================
