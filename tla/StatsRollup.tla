---------------------------- MODULE StatsRollup ----------------------------
(***************************************************************************)
(* The rollup job (internal/statsstore/rollup.go) beside the writes and    *)
(* the cleanup of RequestLog: each tick reads the cursor from the          *)
(* statistics, selects a batch of completed rows past it and adds the      *)
(* batch to the buckets in one transaction.                                *)
(*                                                                         *)
(* Of a statistics row the request count and the watermark are kept: the   *)
(* other columns are summed the way the count is.                          *)
(***************************************************************************)
EXTENDS RequestLog, FiniteSetsExt

CONSTANTS
  BatchLimit,  \* rows of one tick
  BucketMs,    \* width of a bucket
  Dim,         \* combinations of route, model and client
  DimOf        \* the combination of each request

ASSUME RollupAssumption ==
  /\ BatchLimit \in Nat \ {0} /\ BucketMs \in Nat \ {0}
  /\ DimOf \in [Request -> Dim]

VARIABLES
  stats,    \* request_stats_5m: count and watermark of each bucket key
  tick,     \* the run of RollupTick: place, cursor and batch
  counted,  \* history: how often each request was added to the statistics
  late,     \* history: requests whose UPDATE committed behind the cursor
  tied      \* history: requests left out of a full batch that ends in their time

rollupVars == <<stats, tick, counted, late, tied>>
vars       == <<now, restarts, created, completed, insert, update, row, clean,
                stats, tick, counted, late, tied>>

AlignDown(t) == (t \div BucketMs) * BucketMs
Bucket       == {AlignDown(t) : t \in Time}
BucketKey    == Bucket \X Dim
KeyOf(r)     == <<AlignDown(created[r]), DimOf[r]>>

Idle == [at |-> "idle", cursor |-> 0, batch |-> {}]

Init ==
  /\ LogInit
  /\ stats = [k \in BucketKey |-> [requests |-> 0, watermark |-> 0]]
  /\ tick = Idle
  /\ counted = [r \in Request |-> 0]
  /\ late = {} /\ tied = {}

-----------------------------------------------------------------------------
(* RollupTick *)

Latest(rows) == Max({completed[r] : r \in rows} \cup {0})

(* COALESCE(MAX(max_request_created_at), 0). *)
Cursor == Max({stats[k].watermark : k \in BucketKey} \cup {0})

ReadCursor ==
  /\ tick.at = "idle"
  /\ tick' = [at |-> "select", cursor |-> Cursor, batch |-> {}]
  /\ UNCHANGED <<logVars, stats, counted, late, tied>>

PastOrAtCursor == {r \in Request : row[r] = "completed" /\ completed[r] >= tick.cursor}
PastCursor     == {r \in Request : row[r] = "completed" /\ completed[r] > tick.cursor}

TakesNewest(batch, rows) ==
  \A r \in batch, q \in rows \ batch : completed[r] >= completed[q]
TakesOldest(batch, rows) ==
  \A r \in batch, q \in rows \ batch : completed[r] <= completed[q]

(* ORDER BY completed_at ASC LIMIT BatchLimit, in any order within a time.   *)
SelectRows ==
  /\ tick.at = "select"
  /\ \E batch \in SUBSET PastCursor :
       /\ Cardinality(batch) = Min({BatchLimit, Cardinality(PastCursor)})
       /\ TakesOldest(batch, PastCursor)
       /\ tick' = IF batch = {} THEN Idle
                  ELSE [at |-> "persist", cursor |-> tick.cursor, batch |-> batch]
       /\ tied' = tied \cup {r \in PastCursor \ batch : completed[r] = Latest(batch)}
  /\ UNCHANGED <<logVars, stats, counted, late>>

(* ON CONFLICT DO UPDATE: counts add up and the watermark only grows.        *)
Overwrite(old, rows) ==
  [requests |-> Cardinality(rows), watermark |-> Max({old.watermark, Latest(rows)})]
Upsert(old, rows) ==
  [requests  |-> old.requests + Cardinality(rows),
   watermark |-> Max({old.watermark, Latest(rows)})]

Persist ==
  /\ tick.at = "persist"
  /\ stats' = [k \in BucketKey |->
                 LET rows == {r \in tick.batch : KeyOf(r) = k}
                 IN  IF rows = {} THEN stats[k] ELSE Upsert(stats[k], rows)]
  /\ counted' = [r \in Request |-> counted[r] + IF r \in tick.batch THEN 1 ELSE 0]
  /\ tick' = Idle
  /\ UNCHANGED <<logVars, late, tied>>

(* An error of a query, or of the transaction, which leaves nothing behind. *)
TickFails ==
  /\ tick.at # "idle"
  /\ tick' = Idle
  /\ UNCHANGED <<logVars, stats, counted, late, tied>>

-----------------------------------------------------------------------------
Horizon == Max({Cursor, Latest(tick.batch)})

Commit(r) ==
  /\ SaveResponse(r)
  /\ late' = IF row'[r] # row[r] /\ completed[r] <= Horizon THEN late \cup {r} ELSE late
  /\ UNCHANGED <<stats, tick, counted, tied>>

Crash ==
  /\ Restart
  /\ tick' = Idle
  /\ UNCHANGED <<stats, counted, late, tied>>

RollupTick == ReadCursor \/ SelectRows \/ Persist \/ TickFails

Next ==
  \/ \E r \in Request : (Writes(r) /\ UNCHANGED rollupVars) \/ Commit(r)
  \/ (Cleanup \/ Clock) /\ UNCHANGED rollupVars
  \/ RollupTick
  \/ Crash

Spec == Init /\ [][Next]_vars

-----------------------------------------------------------------------------
(* Properties *)

TypeOK ==
  /\ LogTypeOK
  /\ stats \in [BucketKey -> [requests: Nat, watermark: Time \cup {0}]]
  /\ tick \in [at: {"idle", "select", "persist"}, cursor: Time \cup {0},
               batch: SUBSET Request]
  /\ counted \in [Request -> Nat]
  /\ late \subseteq Request /\ tied \subseteq Request

(* No request is added to the statistics twice, over ticks, failed           *)
(* transactions and restarts (rollup.go:112-116).                            *)
CountedOnce == \A r \in Request : counted[r] <= 1

(* What a bucket counts is the requests added to it, however many ticks      *)
(* touched it while it was open, also once their rows are pruned             *)
(* (rollup.go:237-241).                                                      *)
BucketsAddUp ==
  \A k \in BucketKey :
    stats[k].requests = Cardinality({r \in Request : counted[r] = 1 /\ KeyOf(r) = k})

(* A completed row is counted or still ahead of the cursor, unless its       *)
(* UPDATE committed behind a tick or it shares its time with the end of a    *)
(* full batch (rollup.go:127-130).                                           *)
NothingSkipped ==
  \A r \in Request :
    row[r] = "completed" /\ counted[r] = 0 /\ r \notin late \cup tied =>
      completed[r] > Cursor

-----------------------------------------------------------------------------
(* What a comment says and the code does not do *)

(* rollup.go:230-231: filtering on completed_at avoids the race of the rows' *)
(* writers, so no completed row is left behind the cursor.                   *)
NoneLeftBehind ==
  \A r \in Request :
    row[r] = "completed" /\ counted[r] = 0 => completed[r] >= Cursor
=============================================================================
