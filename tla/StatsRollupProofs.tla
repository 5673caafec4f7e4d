------------------------- MODULE StatsRollupProofs -------------------------
(***************************************************************************)
(* Proofs about StatsRollup for any number of requests, any retention cap, *)
(* batch limit and bucket width, and any number of restarts.               *)
(***************************************************************************)
EXTENDS StatsRollup, FiniteSetTheorems, WellFoundedInduction, TLAPS

-----------------------------------------------------------------------------
(* The maximum of a set of times *)

Stamp == Time \cup {0}

LEMMA StampIsNat == \A t \in Stamp : t \in Nat /\ t <= MaxTime + 1
BY LogAssumption DEF Stamp, Time

(* A set of times has a largest one: the distance to the clock's bound has a *)
(* smallest value.                                                           *)
LEMMA MaxStamp ==
  ASSUME NEW S \in SUBSET Stamp, S # {}
  PROVE  Max(S) \in S /\ \A x \in S : Max(S) >= x
<1> DEFINE T == {n \in Nat : \E x \in S : n = MaxTime + 1 - x}
<1>1. PICK s \in S : TRUE
  OBVIOUS
<1>2. s \in Nat /\ s <= MaxTime + 1 /\ MaxTime \in Nat
  BY <1>1, StampIsNat, LogAssumption
<1>3. T # {}
  <2>1. MaxTime + 1 - s \in T
    BY <1>1, <1>2
  <2>2. QED
    BY <2>1
<1>4. PICK n \in T : \A m \in T : ~ (<<m, n>> \in OpToRel(<, Nat))
  <2>1. T \subseteq Nat
    OBVIOUS
  <2> HIDE DEF T
  <2>2. QED
    BY <1>3, <2>1, NatLessThanWellFounded, WFMin
<1>5. \A m \in T : ~ (m < n)
  BY <1>4 DEF OpToRel
<1>6. PICK x \in S : n = MaxTime + 1 - x
  BY <1>4
<1>7. \A y \in S : x >= y
  <2>1. SUFFICES ASSUME NEW y \in S PROVE x >= y
    OBVIOUS
  <2>2. x \in Nat /\ y \in Nat /\ y <= MaxTime + 1
    BY StampIsNat
  <2>3. MaxTime + 1 - y \in T
    BY <1>2, <2>2
  <2>4. QED
    BY <1>2, <1>5, <1>6, <2>2, <2>3
<1>8. QED
  BY <1>7 DEF Max

LEMMA MaxOfTwo ==
  ASSUME NEW a \in Stamp, NEW b \in Stamp
  PROVE  Max({a, b}) \in {a, b} /\ Max({a, b}) >= a /\ Max({a, b}) >= b
<1>1. {a, b} \in SUBSET Stamp /\ {a, b} # {}
  OBVIOUS
<1>2. QED
  BY <1>1, MaxStamp

Stamps == [Request -> Stamp]

(* Latest is the largest completion time of a set of rows, 0 for none.       *)
LEMMA LatestFacts ==
  ASSUME completed \in Stamps, NEW rows \in SUBSET Request
  PROVE  /\ Latest(rows) \in Stamp
         /\ \A r \in rows : completed[r] <= Latest(rows)
         /\ rows # {} => \E r \in rows : Latest(rows) = completed[r]
<1> DEFINE S == {completed[r] : r \in rows} \cup {0}
<1>1. S \in SUBSET Stamp /\ S # {}
  BY DEF Stamps, Stamp
<1>2. Latest(rows) = Max(S)
  BY DEF Latest
<1>3. Max(S) \in S /\ \A x \in S : Max(S) >= x
  BY <1>1, MaxStamp
<1>4. \A r \in rows : completed[r] \in Nat /\ completed[r] \in S
  BY StampIsNat DEF Stamps
<1>5. Max(S) \in Nat
  BY <1>1, <1>3, StampIsNat
<1>6. ASSUME rows # {} PROVE \E r \in rows : Max(S) = completed[r]
  <2>1. CASE Max(S) = 0
    <3>1. PICK r \in rows : TRUE
      BY <1>6
    <3>2. completed[r] = 0
      BY <1>3, <1>4, <2>1
    <3>3. QED
      BY <2>1, <3>2
  <2>2. CASE Max(S) # 0
    BY <1>3, <2>2
  <2>3. QED
    BY <2>1, <2>2
<1>7. QED
  BY <1>1, <1>2, <1>3, <1>4, <1>5, <1>6

StatsType == [BucketKey -> [requests: Nat, watermark: Stamp]]

CursorIsLargest ==
  /\ Cursor \in Stamp
  /\ \A k \in BucketKey : stats[k].watermark <= Cursor
  /\ Cursor = 0 \/ \E k \in BucketKey : Cursor = stats[k].watermark

(* Cursor is the largest watermark, 0 when there is none.                    *)
LEMMA CursorFacts == stats \in StatsType => CursorIsLargest
<1> SUFFICES ASSUME stats \in StatsType PROVE CursorIsLargest
  OBVIOUS
<1> USE DEF CursorIsLargest
<1> DEFINE S == {stats[k].watermark : k \in BucketKey} \cup {0}
<1>1. S \in SUBSET Stamp /\ S # {}
  BY DEF StatsType, Stamp
<1>2. Cursor = Max(S)
  BY DEF Cursor
<1>3. Max(S) \in S /\ \A x \in S : Max(S) >= x
  BY <1>1, MaxStamp
<1>4. \A k \in BucketKey : stats[k].watermark \in Nat /\ stats[k].watermark \in S
  BY StampIsNat DEF StatsType
<1>5. Max(S) \in Nat
  BY <1>1, <1>3, StampIsNat
<1>6. QED
  BY <1>1, <1>2, <1>3, <1>4, <1>5

-----------------------------------------------------------------------------
(* The inductive invariant *)

(* Where the goroutines of a request stand says what the table holds.        *)
Stages ==
  \A r \in Request :
    /\ insert[r] # "none" \/ update[r] # "none" \/ row[r] # "absent" => created[r] # 0
    /\ insert[r] = "pending" => row[r] = "absent"
    /\ insert[r] = "ended" => row[r] # "absent"
    /\ created[r] # 0 /\ insert[r] = "none" => update[r] = "over"
    /\ update[r] \in {"observer", "save"} => insert[r] = "ended"
    /\ update[r] = "save" => completed[r] # 0
    /\ row[r] = "completed" => completed[r] # 0 /\ update[r] = "over"

(* A tick works with the present cursor and a batch of uncounted rows.       *)
Ticks ==
  /\ tick.at # "idle" => tick.cursor = Cursor
  /\ \A r \in tick.batch : /\ row[r] \in {"completed", "pruned"}
                            /\ completed[r] > Cursor
                            /\ update[r] = "over"
  /\ tick.at = "persist" <=> tick.batch # {}

(* The cursor is not behind any counted row.                                 *)
Counts ==
  \A r \in Request : counted[r] # 0 =>
    /\ counted[r] = 1 /\ row[r] \in {"completed", "pruned"} /\ update[r] = "over"
    /\ completed[r] # 0 /\ completed[r] <= Cursor

(* A completed row that is not excused is ahead of the cursor, and of the    *)
(* batch on its way unless it is in it.                                      *)
Ahead ==
  \A r \in Request :
    row[r] = "completed" /\ counted[r] = 0 /\ r \notin late \cup tied =>
      completed[r] > Cursor /\ (r \in tick.batch \/ completed[r] > Latest(tick.batch))

IInv == TypeOK /\ Stages /\ Ticks /\ Counts /\ Ahead

LEMMA NextCases ==
  ASSUME [Next]_vars
  PROVE  \/ \E r \in Request :
              /\ \/ RecordRequest(r) \/ SaveRequest(r) \/ RecordResponse(r) \/ Observe(r)
                 \/ WaitForRequest(r) \/ ObserveDone(r) \/ GiveUp(r)
              /\ UNCHANGED rollupVars
         \/ \E r \in Request : Commit(r)
         \/ (Count \/ FindCutoff \/ Delete \/ CleanupFails \/ Clock) /\ UNCHANGED rollupVars
         \/ ReadCursor \/ SelectRows \/ Persist \/ TickFails \/ Crash
         \/ UNCHANGED vars
BY DEF Next, Writes, Cleanup, RollupTick

(* Every step of the log's part preserves what the table holds.              *)
LEMMA StagesStep == TypeOK /\ Stages /\ [Next]_vars => Stages'
<1> SUFFICES ASSUME TypeOK, Stages, [Next]_vars PROVE Stages'
  OBVIOUS
<1> USE DEF TypeOK, LogTypeOK, Stages, Time
<1>1. ASSUME NEW q \in Request, RecordRequest(q), UNCHANGED rollupVars PROVE Stages'
  BY <1>1 DEF RecordRequest
<1>2. ASSUME NEW q \in Request, SaveRequest(q), UNCHANGED rollupVars PROVE Stages'
  BY <1>2 DEF SaveRequest
<1>3. ASSUME NEW q \in Request, RecordResponse(q), UNCHANGED rollupVars PROVE Stages'
  BY <1>3 DEF RecordResponse
<1>4. ASSUME NEW q \in Request, Observe(q), UNCHANGED rollupVars PROVE Stages'
  BY <1>4 DEF Observe
<1>5. ASSUME NEW q \in Request, WaitForRequest(q), UNCHANGED rollupVars PROVE Stages'
  BY <1>5 DEF WaitForRequest, InsertEnded
<1>6. ASSUME NEW q \in Request, ObserveDone(q), UNCHANGED rollupVars PROVE Stages'
  BY <1>6 DEF ObserveDone
<1>7. ASSUME NEW q \in Request, GiveUp(q), UNCHANGED rollupVars PROVE Stages'
  BY <1>7 DEF GiveUp
<1>8. CASE Count /\ UNCHANGED rollupVars
  BY <1>8 DEF Count
<1>9. CASE FindCutoff /\ UNCHANGED rollupVars
  BY <1>9 DEF FindCutoff, Present
<1>10. CASE Delete /\ UNCHANGED rollupVars
  BY <1>10 DEF Delete, Excess, Present
<1>11. CASE CleanupFails /\ UNCHANGED rollupVars
  BY <1>11 DEF CleanupFails
<1>12. CASE Clock /\ UNCHANGED rollupVars
  BY <1>12 DEF Clock
<1>13. ASSUME NEW q \in Request, Commit(q) PROVE Stages'
  BY <1>13 DEF Commit, SaveResponse
<1>14. CASE ReadCursor \/ SelectRows \/ Persist \/ TickFails \/ UNCHANGED vars
  BY <1>14 DEF ReadCursor, SelectRows, Persist, TickFails, logVars, vars
<1>15. CASE Crash
  BY <1>15 DEF Crash, Restart
<1>16. QED
  BY <1>1, <1>2, <1>3, <1>4, <1>5, <1>6, <1>7, <1>8, <1>9, <1>10, <1>11, <1>12, <1>13, <1>14, <1>15, NextCases
-----------------------------------------------------------------------------
(* The transaction of a tick *)

(* A bucket key is what a request falls in once it is relayed.               *)
LEMMA KeyOfType ==
  ASSUME TypeOK, NEW r \in Request, created[r] # 0
  PROVE  KeyOf(r) \in BucketKey
<1>1. created[r] \in Time
  BY DEF TypeOK, LogTypeOK
<1>2. AlignDown(created[r]) \in Bucket /\ DimOf[r] \in Dim
  BY <1>1, RollupAssumption DEF Bucket
<1>3. QED
  BY <1>2 DEF KeyOf, BucketKey

LEMMA TypesOfStats == TypeOK => stats \in StatsType /\ completed \in Stamps
BY DEF TypeOK, LogTypeOK, StatsType, Stamps, Stamp

RowsOf(k) == {r \in tick.batch : KeyOf(r) = k}

(* What the upsert makes of one bucket row.                                  *)
LEMMA UpsertFacts ==
  ASSUME TypeOK, NEW k \in BucketKey, NEW rows \in SUBSET Request
  PROVE  /\ Upsert(stats[k], rows) \in [requests: Nat, watermark: Stamp]
         /\ Upsert(stats[k], rows).requests = stats[k].requests + Cardinality(rows)
         /\ Upsert(stats[k], rows).watermark \in {stats[k].watermark, Latest(rows)}
         /\ Upsert(stats[k], rows).watermark >= stats[k].watermark
         /\ Upsert(stats[k], rows).watermark >= Latest(rows)
<1>1. stats[k].requests \in Nat /\ stats[k].watermark \in Stamp
  BY TypesOfStats DEF StatsType
<1>2. Latest(rows) \in Stamp
  BY TypesOfStats, LatestFacts
<1>3. Cardinality(rows) \in Nat
  BY LogAssumption, FS_Subset, FS_CardinalityType
<1>4. Max({stats[k].watermark, Latest(rows)}) \in {stats[k].watermark, Latest(rows)}
      /\ Max({stats[k].watermark, Latest(rows)}) >= stats[k].watermark
      /\ Max({stats[k].watermark, Latest(rows)}) >= Latest(rows)
  BY <1>1, <1>2, MaxOfTwo
<1>5. QED
  BY <1>1, <1>2, <1>3, <1>4 DEF Upsert

LEMMA BatchType == TypeOK => tick.batch \in SUBSET Request
BY DEF TypeOK

(* The transaction types.                                                    *)
LEMMA PersistType ==
  ASSUME TypeOK, Persist
  PROVE  /\ stats' \in StatsType
         /\ \A k \in BucketKey :
              stats'[k] = IF RowsOf(k) = {} THEN stats[k] ELSE Upsert(stats[k], RowsOf(k))
<1>1. stats' = [k \in BucketKey |->
                 IF RowsOf(k) = {} THEN stats[k] ELSE Upsert(stats[k], RowsOf(k))]
  BY DEF Persist, RowsOf
<1>2. ASSUME NEW k \in BucketKey
      PROVE  (IF RowsOf(k) = {} THEN stats[k] ELSE Upsert(stats[k], RowsOf(k)))
               \in [requests: Nat, watermark: Stamp]
  <2>1. RowsOf(k) \in SUBSET Request
    BY BatchType DEF RowsOf
  <2>2. Upsert(stats[k], RowsOf(k)) \in [requests: Nat, watermark: Stamp]
    BY <2>1, UpsertFacts
  <2>3. stats[k] \in [requests: Nat, watermark: Stamp]
    BY TypesOfStats DEF StatsType
  <2>4. QED
    BY <2>2, <2>3
<1>3. QED
  BY <1>1, <1>2 DEF StatsType

(* It moves the cursor to the end of the batch, and no further.              *)
LEMMA PersistCursor ==
  ASSUME TypeOK, Stages, Ticks, Persist
  PROVE  /\ Cursor' \in Stamp /\ Cursor' >= Cursor
         /\ \A r \in tick.batch : Cursor' >= completed[r]
         /\ Cursor' <= Cursor \/ Cursor' <= Latest(tick.batch)
<1>1. /\ Cursor \in Stamp
      /\ \A k \in BucketKey : stats[k].watermark <= Cursor
      /\ Cursor = 0 \/ \E k \in BucketKey : Cursor = stats[k].watermark
  BY TypesOfStats, CursorFacts DEF CursorIsLargest
<1>2. /\ Cursor' \in Stamp
      /\ \A k \in BucketKey : stats'[k].watermark <= Cursor'
      /\ Cursor' = 0 \/ \E k \in BucketKey : Cursor' = stats'[k].watermark
  <2>1. stats' \in StatsType
    BY PersistType
  <2>2. (stats \in StatsType)' => CursorIsLargest'
    BY CursorFacts, PTL
  <2>3. QED
    BY <2>1, <2>2 DEF CursorIsLargest, BucketKey, Bucket, AlignDown, Stamp, Time, StatsType
<1>3. ASSUME NEW k \in BucketKey
      PROVE  /\ stats'[k].watermark \in Stamp /\ stats[k].watermark \in Stamp
             /\ stats'[k].watermark >= stats[k].watermark
             /\ \A r \in RowsOf(k) : stats'[k].watermark >= completed[r]
             /\ stats'[k].watermark <= Cursor \/ stats'[k].watermark <= Latest(tick.batch)
  <2>1. RowsOf(k) \in SUBSET Request /\ RowsOf(k) \subseteq tick.batch
    BY BatchType DEF RowsOf
  <2>2. stats'[k] = IF RowsOf(k) = {} THEN stats[k] ELSE Upsert(stats[k], RowsOf(k))
    BY PersistType
  <2>3. /\ Latest(RowsOf(k)) \in Stamp /\ \A r \in RowsOf(k) : completed[r] <= Latest(RowsOf(k))
        /\ RowsOf(k) # {} => \E r \in RowsOf(k) : Latest(RowsOf(k)) = completed[r]
    BY <2>1, TypesOfStats, LatestFacts
  <2>4. Latest(tick.batch) \in Stamp /\ \A r \in tick.batch : completed[r] <= Latest(tick.batch)
    BY BatchType, TypesOfStats, LatestFacts
  <2>5. stats[k].watermark \in Stamp /\ stats'[k].watermark \in Stamp
    BY TypesOfStats, PersistType DEF StatsType
  <2>6. \A r \in RowsOf(k) : completed[r] \in Nat
    BY <2>1, TypesOfStats, StampIsNat DEF Stamps
  <2>7. CASE RowsOf(k) = {}
    BY <2>2, <2>5, <2>7, <1>1, StampIsNat
  <2>8. CASE RowsOf(k) # {}
    <3>1. Latest(RowsOf(k)) <= Latest(tick.batch)
      BY <2>1, <2>3, <2>4, <2>8
    <3>2. /\ stats'[k].watermark \in {stats[k].watermark, Latest(RowsOf(k))}
          /\ stats'[k].watermark >= stats[k].watermark
          /\ stats'[k].watermark >= Latest(RowsOf(k))
      BY <2>1, <2>2, <2>8, UpsertFacts
    <3>3. QED
      BY <1>1, <2>3, <2>4, <2>5, <2>6, <3>1, <3>2, StampIsNat
  <2>9. QED
    BY <2>7, <2>8
<1>4. Cursor' >= Cursor
  BY <1>1, <1>2, <1>3, StampIsNat
<1>5. ASSUME NEW r \in tick.batch PROVE Cursor' >= completed[r]
  <2>1. r \in Request /\ created[r] # 0
    BY BatchType DEF Ticks, Stages
  <2>2. KeyOf(r) \in BucketKey /\ r \in RowsOf(KeyOf(r))
    BY <2>1, KeyOfType DEF RowsOf
  <2>3. completed[r] \in Nat
    BY <2>1, TypesOfStats, StampIsNat DEF Stamps
  <2>4. QED
    BY <1>2, <1>3, <2>2, <2>3, StampIsNat
<1>6. Cursor' <= Cursor \/ Cursor' <= Latest(tick.batch)
  BY <1>1, <1>2, <1>3, StampIsNat
<1>7. QED
  BY <1>2, <1>4, <1>5, <1>6
-----------------------------------------------------------------------------
(* The steps *)

LEMMA CursorStamp == TypeOK => Cursor \in Stamp
BY TypesOfStats, CursorFacts DEF CursorIsLargest

LEMMA TypeStep == TypeOK /\ [Next]_vars => TypeOK'
<1> SUFFICES ASSUME TypeOK, [Next]_vars PROVE TypeOK'
  OBVIOUS
<1> USE LogAssumption DEF TypeOK, LogTypeOK, Time, rollupVars
<1>1. ASSUME NEW q \in Request, RecordRequest(q), UNCHANGED rollupVars PROVE TypeOK'
  BY <1>1 DEF RecordRequest
<1>2. ASSUME NEW q \in Request, SaveRequest(q), UNCHANGED rollupVars PROVE TypeOK'
  BY <1>2 DEF SaveRequest
<1>3. ASSUME NEW q \in Request, RecordResponse(q), UNCHANGED rollupVars PROVE TypeOK'
  BY <1>3 DEF RecordResponse
<1>4. ASSUME NEW q \in Request, Observe(q), UNCHANGED rollupVars PROVE TypeOK'
  BY <1>4 DEF Observe
<1>5. ASSUME NEW q \in Request, WaitForRequest(q), UNCHANGED rollupVars PROVE TypeOK'
  BY <1>5 DEF WaitForRequest
<1>6. ASSUME NEW q \in Request, ObserveDone(q), UNCHANGED rollupVars PROVE TypeOK'
  BY <1>6 DEF ObserveDone
<1>7. ASSUME NEW q \in Request, GiveUp(q), UNCHANGED rollupVars PROVE TypeOK'
  BY <1>7 DEF GiveUp
<1>8. CASE Count /\ UNCHANGED rollupVars
  BY <1>8 DEF Count
<1>9. CASE FindCutoff /\ UNCHANGED rollupVars
  BY <1>9 DEF FindCutoff, Present
<1>10. CASE Delete /\ UNCHANGED rollupVars
  BY <1>10 DEF Delete
<1>11. CASE CleanupFails /\ UNCHANGED rollupVars
  BY <1>11 DEF CleanupFails
<1>12. CASE Clock /\ UNCHANGED rollupVars
  BY <1>12 DEF Clock
<1>13. ASSUME NEW r \in Request, Commit(r) PROVE TypeOK'
  BY <1>13 DEF Commit, SaveResponse
<1>14. CASE ReadCursor
  BY <1>14, CursorStamp DEF ReadCursor, Stamp, logVars, Time
<1>15. CASE SelectRows
  BY <1>15 DEF SelectRows, PastCursor, Idle, logVars
<1>16. CASE Persist
  <2>1. stats' \in [BucketKey -> [requests: Nat, watermark: Time \cup {0}]]
    BY <1>16, PersistType DEF StatsType, Stamp
  <2>2. counted' \in [Request -> Nat]
    BY <1>16 DEF Persist
  <2>3. QED
    BY <1>16, <2>1, <2>2 DEF Persist, Idle, logVars, BucketKey, Bucket, AlignDown
<1>17. CASE TickFails
  BY <1>17 DEF TickFails, Idle, logVars
<1>18. CASE Crash
  BY <1>18 DEF Crash, Restart, Idle
<1>19. CASE UNCHANGED vars
  BY <1>19 DEF vars
<1>20. QED
  BY <1>1, <1>2, <1>3, <1>4, <1>5, <1>6, <1>7, <1>8, <1>9, <1>10, <1>11, <1>12, <1>13, <1>14, <1>15, <1>16, <1>17, <1>18, <1>19, NextCases

(* A step of the log's part moves neither the cursor nor the batch's end.    *)
LEMMA LogFrame ==
  ASSUME TypeOK, Stages, Ticks, UNCHANGED <<stats, tick>>,
         \A r \in Request : update[r] = "over" => completed'[r] = completed[r]
  PROVE  Cursor' = Cursor /\ Latest(tick.batch)' = Latest(tick.batch)
<1>1. Cursor' = Cursor
  BY DEF Cursor, BucketKey, Bucket, AlignDown, Time
<1>2. \A r \in tick.batch : completed'[r] = completed[r]
  BY BatchType DEF Ticks
<1>3. {completed'[r] : r \in tick.batch} = {completed[r] : r \in tick.batch}
  BY <1>2
<1>4. QED
  BY <1>1, <1>3 DEF Latest

(* What the steps of the log's part do to a row and its goroutine.           *)
LogMoves ==
  \A r \in Request :
    /\ update[r] = "over" => update'[r] = "over" /\ completed'[r] = completed[r]
    /\ row[r] \in {"completed", "pruned"} => row'[r] \in {"completed", "pruned"}
    /\ row'[r] = "completed" /\ row[r] # "completed" =>
         /\ row[r] = "open"
         /\ completed[r] > Horizon \/ r \in late'
         /\ completed'[r] = completed[r]
         /\ update'[r] = "over" /\ update[r] = "save"

LEMMA LogStep ==
  ASSUME TypeOK, Stages, Ticks, Counts,
         \/ \E r \in Request :
              /\ \/ RecordRequest(r) \/ SaveRequest(r) \/ RecordResponse(r) \/ Observe(r)
                 \/ WaitForRequest(r) \/ ObserveDone(r) \/ GiveUp(r)
              /\ UNCHANGED rollupVars
         \/ \E r \in Request : Commit(r)
         \/ (Count \/ FindCutoff \/ Delete \/ CleanupFails \/ Clock) /\ UNCHANGED rollupVars
  PROVE  LogMoves /\ UNCHANGED <<stats, tick, counted, tied>> /\ late \subseteq late'
<1> USE DEF TypeOK, LogTypeOK, Stages, LogMoves, rollupVars
<1>1. ASSUME NEW q \in Request, RecordRequest(q), UNCHANGED rollupVars PROVE LogMoves
  BY <1>1 DEF RecordRequest
<1>2. ASSUME NEW q \in Request, SaveRequest(q), UNCHANGED rollupVars PROVE LogMoves
  BY <1>2 DEF SaveRequest
<1>3. ASSUME NEW q \in Request, RecordResponse(q), UNCHANGED rollupVars PROVE LogMoves
  BY <1>3 DEF RecordResponse
<1>4. ASSUME NEW q \in Request, Observe(q), UNCHANGED rollupVars PROVE LogMoves
  BY <1>4 DEF Observe
<1>5. ASSUME NEW q \in Request, WaitForRequest(q), UNCHANGED rollupVars PROVE LogMoves
  BY <1>5 DEF WaitForRequest
<1>6. ASSUME NEW q \in Request, ObserveDone(q), UNCHANGED rollupVars PROVE LogMoves
  BY <1>6 DEF ObserveDone
<1>7. ASSUME NEW q \in Request, GiveUp(q), UNCHANGED rollupVars PROVE LogMoves
  BY <1>7 DEF GiveUp
<1>8. ASSUME Count, UNCHANGED rollupVars PROVE LogMoves
  BY <1>8 DEF Count
<1>9. ASSUME FindCutoff, UNCHANGED rollupVars PROVE LogMoves
  BY <1>9 DEF FindCutoff
<1>10. ASSUME Delete, UNCHANGED rollupVars PROVE LogMoves
  BY <1>10 DEF Delete, Excess, Present
<1>11. ASSUME CleanupFails, UNCHANGED rollupVars PROVE LogMoves
  BY <1>11 DEF CleanupFails
<1>12. ASSUME Clock, UNCHANGED rollupVars PROVE LogMoves
  BY <1>12 DEF Clock
<1>13. ASSUME NEW q \in Request, Commit(q) PROVE LogMoves
  <2>1. /\ update[q] = "save" /\ update' = [update EXCEPT ![q] = "over"]
        /\ completed' = completed
        /\ row' = [row EXCEPT ![q] = IF @ = "open" THEN "completed" ELSE @] \/ row' = row
    BY <1>13 DEF Commit, SaveResponse
  <2>2. row'[q] # row[q] => completed[q] > Horizon \/ q \in late'
    <3>1. completed[q] \in Nat /\ Horizon \in Nat
      <4>1. Cursor \in Stamp /\ Latest(tick.batch) \in Stamp
        BY CursorStamp, BatchType, TypesOfStats, LatestFacts
      <4>2. Horizon \in Stamp
        <5>1. Max({Cursor, Latest(tick.batch)}) \in {Cursor, Latest(tick.batch)}
          BY <4>1, MaxOfTwo
        <5>2. QED
          BY <4>1, <5>1 DEF Horizon
      <4>3. completed[q] \in Stamp
        BY DEF Stamp
      <4>4. QED
        BY <4>2, <4>3, StampIsNat
    <3>2. QED
      BY <1>13, <3>1 DEF Commit
  <2>3. QED
    BY <2>1, <2>2
<1>14. UNCHANGED <<stats, tick, counted, tied>> /\ late \subseteq late'
  BY DEF Commit
<1>15. QED
  BY <1>1, <1>2, <1>3, <1>4, <1>5, <1>6, <1>7, <1>8, <1>9, <1>10, <1>11, <1>12, <1>13, <1>14
LEMMA NumberFacts ==
  ASSUME TypeOK
  PROVE  /\ \A r \in Request : completed[r] \in Nat /\ counted[r] \in Nat
         /\ Cursor \in Nat /\ Latest(tick.batch) \in Nat /\ Horizon \in Nat
         /\ Horizon >= Cursor /\ Horizon >= Latest(tick.batch)
         /\ \A r \in tick.batch : completed[r] <= Latest(tick.batch)
<1>1. Cursor \in Stamp /\ Latest(tick.batch) \in Stamp
  BY CursorStamp, BatchType, TypesOfStats, LatestFacts
<1>2. /\ Max({Cursor, Latest(tick.batch)}) \in {Cursor, Latest(tick.batch)}
      /\ Max({Cursor, Latest(tick.batch)}) >= Cursor
      /\ Max({Cursor, Latest(tick.batch)}) >= Latest(tick.batch)
  BY <1>1, MaxOfTwo
<1>3. \A r \in Request : completed[r] \in Nat /\ counted[r] \in Nat
  BY TypesOfStats, StampIsNat DEF Stamps, TypeOK
<1>4. \A r \in tick.batch : completed[r] <= Latest(tick.batch)
  BY BatchType, TypesOfStats, LatestFacts
<1>5. QED
  BY <1>1, <1>2, <1>3, <1>4, StampIsNat DEF Horizon

LEMMA EmptyLatest == Latest({}) = 0
<1>1. {completed[r] : r \in {}} \cup {0} = {0}
  OBVIOUS
<1>2. 0 \in Stamp /\ {0} \in SUBSET Stamp
  BY DEF Stamp
<1>3. Max({0}) = 0
  BY <1>2, MaxStamp
<1>4. QED
  BY <1>1, <1>3 DEF Latest

(* Dropping the tick drops its batch.                                        *)
LEMMA DropTick ==
  ASSUME IInv, tick' = Idle, UNCHANGED <<stats, counted, late, tied, row, completed>>,
         \A r \in Request : update[r] = "over" => update'[r] = "over"
  PROVE  Ticks' /\ Counts' /\ Ahead'
<1>1. Cursor' = Cursor /\ tick'.batch = {} /\ tick'.at = "idle"
  BY DEF Cursor, BucketKey, Bucket, AlignDown, Time, Idle
<1>2. Ticks'
  BY <1>1 DEF Ticks
<1>3. Counts'
  BY <1>1 DEF IInv, Counts
<1>4. Latest(tick.batch)' = 0
  <2>1. Latest(tick.batch)' = Latest({})
    BY <1>1 DEF Latest
  <2>2. QED
    BY <2>1, EmptyLatest
<1>5. Ahead'
  BY <1>1, <1>4, NumberFacts DEF IInv, Ahead
<1>6. QED
  BY <1>2, <1>3, <1>5

LEMMA LogPreserves ==
  ASSUME IInv, LogMoves, UNCHANGED <<stats, tick, counted, tied>>, late \subseteq late'
  PROVE  Ticks' /\ Counts' /\ Ahead'
<1> USE DEF IInv
<1>1. Cursor' = Cursor /\ Latest(tick.batch)' = Latest(tick.batch)
  BY LogFrame DEF LogMoves
<1>2. Ticks'
  BY <1>1, BatchType DEF Ticks, LogMoves
<1>3. Counts'
  BY <1>1 DEF Counts, LogMoves
<1>4. ASSUME NEW r \in Request, row'[r] = "completed", counted'[r] = 0,
             r \notin late' \cup tied'
      PROVE  completed'[r] > Cursor' /\ (r \in tick'.batch \/ completed'[r] > Latest(tick.batch)')
  <2>1. CASE row[r] = "completed"
    BY <1>1, <1>4, <2>1 DEF Ahead, LogMoves, Stages
  <2>2. CASE row[r] # "completed"
    <3>1. completed'[r] = completed[r] /\ completed[r] > Horizon
      BY <1>4, <2>2 DEF LogMoves
    <3>2. QED
      BY <1>1, <3>1, NumberFacts
  <2>3. QED
    BY <2>1, <2>2
<1>5. Ahead'
  BY <1>4 DEF Ahead
<1>6. QED
  BY <1>2, <1>3, <1>5

LEMMA ReadPreserves == IInv /\ ReadCursor => Ticks' /\ Counts' /\ Ahead'
<1> SUFFICES ASSUME IInv, ReadCursor PROVE Ticks' /\ Counts' /\ Ahead'
  OBVIOUS
<1>1. /\ tick'.at = "select" /\ tick'.cursor = Cursor /\ tick'.batch = {}
      /\ UNCHANGED <<row, completed, update, counted, late, tied>>
      /\ Cursor' = Cursor
  BY DEF ReadCursor, Cursor, BucketKey, Bucket, AlignDown, Time, logVars
<1>2. Latest(tick.batch)' = 0
  <2>1. Latest(tick.batch)' = Latest({})
    BY <1>1 DEF Latest
  <2>2. QED
    BY <2>1, EmptyLatest
<1>3. Ahead'
  BY <1>1, <1>2, NumberFacts DEF IInv, Ahead
<1>4. QED
  BY <1>1, <1>3 DEF IInv, Ticks, Counts

LEMMA SelectPreserves == IInv /\ SelectRows => Ticks' /\ Counts' /\ Ahead'
<1> SUFFICES ASSUME IInv, SelectRows PROVE Ticks' /\ Counts' /\ Ahead'
  OBVIOUS
<1> USE DEF IInv
<1>1. PICK batch \in SUBSET PastCursor :
        /\ TakesOldest(batch, PastCursor)
        /\ tick' = IF batch = {} THEN Idle
                   ELSE [at |-> "persist", cursor |-> tick.cursor, batch |-> batch]
        /\ tied' = tied \cup {r \in PastCursor \ batch : completed[r] = Latest(batch)}
  BY DEF SelectRows
<1>2. /\ UNCHANGED <<row, completed, update, counted, late, stats>>
      /\ tick.at = "select" /\ tick.cursor = Cursor /\ Cursor' = Cursor
  BY DEF SelectRows, Ticks, Cursor, BucketKey, Bucket, AlignDown, Time, logVars
<1>3. tick'.batch = batch /\ Latest(tick.batch)' = Latest(batch)
  BY <1>1, <1>2 DEF Idle, Latest
<1>4. Ticks'
  BY <1>1, <1>2, <1>3 DEF Ticks, Idle, PastCursor, Stages
<1>5. Counts'
  BY <1>2 DEF Counts
<1>6. ASSUME NEW r \in Request, row[r] = "completed", counted[r] = 0, r \notin late \cup tied'
      PROVE  completed[r] > Cursor /\ (r \in batch \/ completed[r] > Latest(batch))
  <2>1. completed[r] > Cursor
    BY <1>1, <1>6 DEF Ahead
  <2>2. r \in PastCursor
    BY <1>2, <1>6, <2>1 DEF PastCursor
  <2>3. CASE r \notin batch
    <3>1. completed[r] # Latest(batch)
      BY <1>1, <1>6, <2>2, <2>3
    <3>2. CASE batch = {}
      BY <2>1, <3>2, EmptyLatest, NumberFacts
    <3>3. CASE batch # {}
      <4>1. batch \in SUBSET Request
        BY <1>1 DEF PastCursor
      <4>2. PICK b \in batch : Latest(batch) = completed[b]
        BY <3>3, <4>1, TypesOfStats, LatestFacts
      <4>3. completed[b] <= completed[r]
        BY <1>1, <2>2, <2>3 DEF TakesOldest
      <4>4. QED
        BY <2>1, <3>1, <4>1, <4>2, <4>3, NumberFacts
    <3>4. QED
      BY <3>2, <3>3
  <2>4. QED
    BY <2>1, <2>3
<1>7. Ahead'
  BY <1>2, <1>3, <1>6 DEF Ahead
<1>8. QED
  BY <1>4, <1>5, <1>7

LEMMA PersistPreserves == IInv /\ Persist => Ticks' /\ Counts' /\ Ahead'
<1> SUFFICES ASSUME IInv, Persist PROVE Ticks' /\ Counts' /\ Ahead'
  OBVIOUS
<1> USE DEF IInv
<1>1. /\ tick'.at = "idle" /\ tick'.batch = {}
      /\ UNCHANGED <<row, completed, update, late, tied>>
      /\ counted' = [r \in Request |-> counted[r] + IF r \in tick.batch THEN 1 ELSE 0]
  BY DEF Persist, Idle, logVars
<1>2. /\ Cursor' \in Nat /\ Cursor' >= Cursor
      /\ \A r \in tick.batch : Cursor' >= completed[r]
      /\ Cursor' <= Cursor \/ Cursor' <= Latest(tick.batch)
  BY PersistCursor, StampIsNat
<1>3. Ticks'
  BY <1>1 DEF Ticks
<1>4. ASSUME NEW r \in Request, counted'[r] # 0
      PROVE  /\ counted'[r] = 1 /\ row[r] \in {"completed", "pruned"} /\ update[r] = "over"
             /\ completed[r] # 0 /\ completed[r] <= Cursor'
  <2>1. CASE r \in tick.batch
    <3>1. counted[r] = 0
      BY <2>1, NumberFacts DEF Ticks, Counts
    <3>2. QED
      BY <1>1, <1>2, <2>1, <3>1, NumberFacts DEF Ticks
  <2>2. CASE r \notin tick.batch
    <3>1. counted'[r] = counted[r]
      BY <1>1, <2>2, NumberFacts
    <3>2. QED
      BY <1>2, <1>4, <3>1, NumberFacts DEF Counts
  <2>3. QED
    BY <2>1, <2>2
<1>5. Counts'
  BY <1>1, <1>4 DEF Counts
<1>6. Latest(tick.batch)' = 0
  <2>1. Latest(tick.batch)' = Latest({})
    BY <1>1 DEF Latest
  <2>2. QED
    BY <2>1, EmptyLatest
<1>7. ASSUME NEW r \in Request, row[r] = "completed", counted'[r] = 0, r \notin late \cup tied
      PROVE  completed[r] > Cursor'
  <2>1. r \notin tick.batch /\ counted[r] = 0
    BY <1>1, <1>7, NumberFacts
  <2>2. completed[r] > Cursor /\ completed[r] > Latest(tick.batch)
    BY <1>7, <2>1 DEF Ahead
  <2>3. QED
    BY <1>2, <2>2, NumberFacts
<1>8. Ahead'
  BY <1>1, <1>2, <1>6, <1>7, NumberFacts DEF Ahead
<1>9. QED
  BY <1>3, <1>5, <1>8

LEMMA InitIInv == Init => IInv
<1> SUFFICES ASSUME Init PROVE IInv
  OBVIOUS
<1>1. TypeOK
  BY LogAssumption DEF Init, LogInit, TypeOK, LogTypeOK, Time, Idle
<1>2. Stages /\ Counts /\ Ahead
  BY DEF Init, LogInit, Stages, Counts, Ahead
<1>3. Ticks
  BY DEF Init, Idle, Ticks
<1>4. QED
  BY <1>1, <1>2, <1>3 DEF IInv

LEMMA StepIInv == IInv /\ [Next]_vars => IInv'
<1> SUFFICES ASSUME IInv, [Next]_vars PROVE IInv'
  OBVIOUS
<1>1. TypeOK' /\ Stages'
  BY TypeStep, StagesStep DEF IInv
<1>2. ASSUME \/ \E r \in Request :
                  /\ \/ RecordRequest(r) \/ SaveRequest(r) \/ RecordResponse(r) \/ Observe(r)
                     \/ WaitForRequest(r) \/ ObserveDone(r) \/ GiveUp(r)
                  /\ UNCHANGED rollupVars
             \/ \E r \in Request : Commit(r)
             \/ (Count \/ FindCutoff \/ Delete \/ CleanupFails \/ Clock) /\ UNCHANGED rollupVars
      PROVE  Ticks' /\ Counts' /\ Ahead'
  <2>1. LogMoves /\ UNCHANGED <<stats, tick, counted, tied>> /\ late \subseteq late'
    BY <1>2, LogStep DEF IInv
  <2>2. QED
    BY <2>1, LogPreserves
<1>3. ASSUME TickFails \/ Crash PROVE Ticks' /\ Counts' /\ Ahead'
  <2>1. tick' = Idle /\ UNCHANGED <<stats, counted, late, tied, row, completed>>
    BY <1>3 DEF TickFails, Crash, Restart, logVars
  <2>2. \A r \in Request : update[r] = "over" => update'[r] = "over"
    <3>1. CASE TickFails
      BY <3>1 DEF TickFails, logVars
    <3>2. CASE Crash
      BY <3>2 DEF Crash, Restart, IInv, Stages
    <3>3. QED
      BY <1>3, <3>1, <3>2
  <2>3. Ticks' /\ Counts' /\ Ahead'
    BY <2>1, <2>2, DropTick
  <2>4. QED
    BY <2>3
<1>4. ASSUME UNCHANGED vars PROVE Ticks' /\ Counts' /\ Ahead'
  <2>1. LogMoves /\ UNCHANGED <<stats, tick, counted, tied>> /\ late \subseteq late'
    BY <1>4 DEF LogMoves, vars
  <2>2. QED
    BY <1>1, <2>1, LogPreserves DEF IInv
<1>5. Ticks' /\ Counts' /\ Ahead'
  BY <1>2, <1>3, <1>4, ReadPreserves, SelectPreserves, PersistPreserves, NextCases
<1>6. QED
  BY <1>1, <1>5 DEF IInv

-----------------------------------------------------------------------------
(* What the buckets count *)

CountedIn(k) == {r \in Request : counted[r] = 1 /\ KeyOf(r) = k}

(* The time a response was relayed stays, and with it its bucket.            *)
LEMMA CreatedKept ==
  ASSUME IInv, [Next]_vars
  PROVE  \A r \in Request : created[r] # 0 => created'[r] = created[r]
<1> USE DEF IInv, TypeOK, LogTypeOK, rollupVars, logVars
<1>1. ASSUME NEW q \in Request, RecordRequest(q)
      PROVE  \A r \in Request : created[r] # 0 => created'[r] = created[r]
  BY <1>1 DEF RecordRequest
<1>2. ASSUME NEW q \in Request,
             SaveRequest(q) \/ RecordResponse(q) \/ Observe(q) \/ WaitForRequest(q)
               \/ ObserveDone(q) \/ GiveUp(q) \/ Commit(q)
      PROVE  created' = created
  BY <1>2 DEF SaveRequest, RecordResponse, Observe, WaitForRequest, ObserveDone, GiveUp,
     Commit, SaveResponse
<1>3. ASSUME Count \/ FindCutoff \/ Delete \/ CleanupFails \/ Clock
      PROVE  created' = created
  BY <1>3 DEF Count, FindCutoff, Delete, CleanupFails, Clock
<1>4. ASSUME ReadCursor \/ SelectRows \/ Persist \/ TickFails \/ Crash \/ UNCHANGED vars
      PROVE  created' = created
  BY <1>4 DEF ReadCursor, SelectRows, Persist, TickFails, Crash, Restart, vars
<1>5. QED
  BY <1>1, <1>2, <1>3, <1>4, NextCases

(* Only Persist changes what the statistics hold and what was counted.       *)
LEMMA StatsKept ==
  ASSUME [Next]_vars
  PROVE  Persist \/ UNCHANGED <<stats, counted>>
<1> USE DEF rollupVars
<1>1. ASSUME NEW q \in Request, Commit(q) PROVE UNCHANGED <<stats, counted>>
  BY <1>1 DEF Commit
<1>2. ASSUME ReadCursor \/ SelectRows \/ TickFails \/ Crash \/ UNCHANGED vars
      PROVE  UNCHANGED <<stats, counted>>
  BY <1>2 DEF ReadCursor, SelectRows, TickFails, Crash, vars
<1>3. QED
  BY <1>1, <1>2, NextCases

(* A counted row, and a row of a batch, has been relayed.                    *)
LEMMA WereRelayed ==
  ASSUME IInv
  PROVE  \A r \in Request : counted[r] # 0 \/ r \in tick.batch => created[r] # 0
BY DEF IInv, Counts, Ticks, Stages

LEMMA BucketsStep == IInv /\ BucketsAddUp /\ [Next]_vars => BucketsAddUp'
<1> SUFFICES ASSUME IInv, BucketsAddUp, [Next]_vars,
                    NEW k \in BucketKey
             PROVE  stats'[k].requests = Cardinality(CountedIn(k)')
  BY DEF BucketsAddUp, CountedIn, BucketKey, Bucket, AlignDown, Time
<1>1. \A r \in Request : created[r] # 0 => KeyOf(r)' = KeyOf(r)
  BY CreatedKept DEF KeyOf, AlignDown
<1>2. stats[k].requests = Cardinality(CountedIn(k))
  BY DEF BucketsAddUp, CountedIn
<1>3. CASE UNCHANGED <<stats, counted>>
  <2>1. CountedIn(k)' = CountedIn(k)
    BY <1>1, <1>3, WereRelayed DEF CountedIn
  <2>2. QED
    BY <1>2, <1>3, <2>1
<1>4. CASE Persist
  <2>1. /\ counted' = [r \in Request |-> counted[r] + IF r \in tick.batch THEN 1 ELSE 0]
        /\ stats'[k] = IF RowsOf(k) = {} THEN stats[k] ELSE Upsert(stats[k], RowsOf(k))
    BY <1>4, PersistType DEF Persist, IInv
  <2>2. \A r \in Request : r \in tick.batch => counted[r] = 0
    BY NumberFacts DEF IInv, Ticks, Counts
  <2>3. tick.batch \subseteq Request
    BY BatchType DEF IInv
  <2>4. CountedIn(k)' = CountedIn(k) \cup RowsOf(k)
    <3>1. ASSUME NEW r \in Request
          PROVE  r \in CountedIn(k)' <=> r \in CountedIn(k) \/ r \in RowsOf(k)
      <4>1. counted'[r] = 1 <=> counted[r] = 1 \/ r \in tick.batch
        BY <2>1, <2>2, NumberFacts DEF IInv
      <4>2. counted[r] = 1 \/ r \in tick.batch => KeyOf(r)' = KeyOf(r)
        BY <1>1, WereRelayed
      <4>3. QED
        BY <4>1, <4>2 DEF CountedIn, RowsOf
    <3>2. QED
      BY <2>3, <3>1 DEF CountedIn, RowsOf
  <2>5. CountedIn(k) \cap RowsOf(k) = {}
    BY <2>2 DEF CountedIn, RowsOf
  <2>6. IsFiniteSet(CountedIn(k)) /\ IsFiniteSet(RowsOf(k))
    <3>1. CountedIn(k) \in SUBSET Request /\ RowsOf(k) \in SUBSET Request
      BY <2>3 DEF CountedIn, RowsOf
    <3>2. QED
      BY <3>1, LogAssumption, FS_Subset
  <2>7. Cardinality(CountedIn(k) \cup RowsOf(k)) = Cardinality(CountedIn(k)) + Cardinality(RowsOf(k))
    <3>1. Cardinality(CountedIn(k)) \in Nat /\ Cardinality(RowsOf(k)) \in Nat
      BY <2>6, FS_CardinalityType
    <3>2. Cardinality(CountedIn(k) \cap RowsOf(k)) = 0
      BY <2>5, FS_EmptySet
    <3>3. Cardinality(CountedIn(k) \cup RowsOf(k)) =
            Cardinality(CountedIn(k)) + Cardinality(RowsOf(k)) - Cardinality(CountedIn(k) \cap RowsOf(k))
      BY <2>6, FS_Union, Zenon
    <3>4. QED
      BY <3>1, <3>2, <3>3
  <2>8. CASE RowsOf(k) = {}
    BY <1>2, <2>1, <2>4, <2>8
  <2>9. CASE RowsOf(k) # {}
    <3>1. RowsOf(k) \in SUBSET Request
      BY <2>3 DEF RowsOf
    <3>2. Upsert(stats[k], RowsOf(k)).requests = stats[k].requests + Cardinality(RowsOf(k))
      BY <3>1, UpsertFacts DEF IInv
    <3>3. QED
      BY <1>2, <2>1, <2>4, <2>7, <2>9, <3>2
  <2>10. QED
    BY <2>8, <2>9
<1>5. QED
  BY <1>3, <1>4, StatsKept

LEMMA BucketsInit == Init => BucketsAddUp
<1> SUFFICES ASSUME Init, NEW k \in BucketKey
             PROVE  stats[k].requests = Cardinality(CountedIn(k))
  BY DEF BucketsAddUp, CountedIn
<1>1. CountedIn(k) = {}
  BY DEF Init, CountedIn
<1>2. QED
  BY <1>1, FS_EmptySet DEF Init

-----------------------------------------------------------------------------
(* What the cleanup leaves *)

(* The rows the cutoff was taken from stay until the DELETE, which one       *)
(* cleanup at a time issues; rows inserted meanwhile only add to them.       *)
Enough == clean.at = "delete" => Cardinality(NoOlder(clean.cutoff)) > MaxRecords

RowsKept ==
  \A r \in Request :
    /\ row[r] \in {"open", "completed"} => row'[r] \in {"open", "completed"}
    /\ row'[r] = "pruned" => row[r] = "pruned"

(* Only the DELETE prunes, and only the search for the cutoff leads to it.   *)
LEMMA CleanupAlone ==
  ASSUME IInv, [Next]_vars
  PROVE  Delete \/ RowsKept
<1> USE DEF IInv, TypeOK, LogTypeOK, RowsKept, rollupVars, logVars
<1>1. ASSUME NEW q \in Request,
             RecordRequest(q) \/ RecordResponse(q) \/ Observe(q) \/ WaitForRequest(q)
               \/ ObserveDone(q) \/ GiveUp(q)
      PROVE  RowsKept
  BY <1>1 DEF RecordRequest, RecordResponse, Observe, WaitForRequest, ObserveDone, GiveUp
<1>2. ASSUME NEW q \in Request, SaveRequest(q) PROVE RowsKept
  BY <1>2 DEF SaveRequest, Stages
<1>3. ASSUME NEW q \in Request, Commit(q) PROVE RowsKept
  BY <1>3 DEF Commit, SaveResponse
<1>4. ASSUME Count \/ FindCutoff \/ CleanupFails \/ Clock PROVE RowsKept
  BY <1>4 DEF Count, FindCutoff, CleanupFails, Clock
<1>5. ASSUME ReadCursor \/ SelectRows \/ Persist \/ TickFails \/ Crash \/ UNCHANGED vars
      PROVE  RowsKept
  BY <1>5 DEF ReadCursor, SelectRows, Persist, TickFails, Crash, Restart, vars
<1>6. QED
  BY <1>1, <1>2, <1>3, <1>4, <1>5, NextCases

LEMMA CutoffKept ==
  ASSUME IInv, [Next]_vars
  PROVE  FindCutoff \/ clean'.at # "delete" \/ clean' = clean
<1> USE DEF rollupVars, logVars
<1>1. ASSUME NEW q \in Request,
             RecordRequest(q) \/ SaveRequest(q) \/ RecordResponse(q) \/ Observe(q)
               \/ WaitForRequest(q) \/ ObserveDone(q) \/ GiveUp(q) \/ Commit(q)
      PROVE  clean' = clean
  BY <1>1 DEF RecordRequest, SaveRequest, RecordResponse, Observe, WaitForRequest,
     ObserveDone, GiveUp, Commit, SaveResponse
<1>2. ASSUME Count \/ Delete \/ CleanupFails \/ Clock
      PROVE  clean'.at # "delete" \/ clean' = clean
  BY <1>2 DEF Count, Delete, CleanupFails, Clock
<1>3. ASSUME ReadCursor \/ SelectRows \/ Persist \/ TickFails \/ Crash \/ UNCHANGED vars
      PROVE  clean'.at # "delete" \/ clean' = clean
  BY <1>3 DEF ReadCursor, SelectRows, Persist, TickFails, Crash, Restart, vars
<1>4. QED
  BY <1>1, <1>2, <1>3, NextCases

LEMMA PresentFinite == \A S \in SUBSET Request : IsFiniteSet(S) /\ Cardinality(S) \in Nat
BY LogAssumption, FS_Subset, FS_CardinalityType

(* A row that is there was relayed, so its time stays.                       *)
LEMMA PresentRelayed == IInv => \A r \in Present : created[r] # 0
BY DEF IInv, Stages, Present

LEMMA EnoughStep == IInv /\ Enough /\ [Next]_vars => Enough'
<1> SUFFICES ASSUME IInv, Enough, [Next]_vars, clean'.at = "delete"
             PROVE  Cardinality(NoOlder(clean.cutoff)') > MaxRecords
  BY DEF Enough
<1>1. CASE FindCutoff
  <2>1. PICK r \in Present : /\ Cardinality(NoOlder(created[r])) > MaxRecords
                             /\ clean' = [at |-> "delete", cutoff |-> created[r]]
    BY <1>1 DEF FindCutoff
  <2>2. created' = created /\ row' = row
    BY <1>1 DEF FindCutoff
  <2>3. NoOlder(clean.cutoff)' = NoOlder(created[r])
    BY <2>1, <2>2 DEF NoOlder, Present
  <2>4. QED
    BY <2>1, <2>3
<1>2. CASE clean' = clean
  <2>1. RowsKept
    <3>1. CASE Delete
      BY <1>2, <3>1 DEF Delete
    <3>2. QED
      BY <3>1, CleanupAlone
  <2>2. NoOlder(clean.cutoff) \subseteq NoOlder(clean.cutoff)'
    BY <1>2, <2>1, CreatedKept, PresentRelayed DEF NoOlder, Present, RowsKept
  <2>3. Cardinality(NoOlder(clean.cutoff)) > MaxRecords
    BY <1>2 DEF Enough
  <2>4. NoOlder(clean.cutoff) \in SUBSET Request /\ NoOlder(clean.cutoff)' \in SUBSET Request
    BY DEF NoOlder, Present
  <2>5. Cardinality(NoOlder(clean.cutoff)) <= Cardinality(NoOlder(clean.cutoff)')
    BY <2>2, <2>4, PresentFinite, FS_Subset
  <2>6. QED
    BY <2>3, <2>4, <2>5, PresentFinite, LogAssumption
<1>3. QED
  BY <1>1, <1>2, CutoffKept

LEMMA EnoughInit == Init => Enough
BY DEF Init, LogInit, Enough

(* The newer rows that stay when the DELETE prunes a row.                    *)
NewerKept(r) == {q \in Request : /\ row'[q] \in {"open", "completed"}
                                 /\ created[q] > created[r]}

LEMMA PruneStep ==
  ASSUME IInv, Enough, [Next]_vars, NEW r \in Request, row[r] # "pruned", row'[r] = "pruned"
  PROVE  Cardinality(NewerKept(r)) >= MaxRecords
<1>1. CASE Delete
  <2>1. r \in Excess /\ \A q \in Request : q \notin Excess => row'[q] = row[q]
    BY <1>1 DEF Delete
  <2>2. clean.cutoff \in Nat /\ \A q \in Request : created[q] \in Nat
    BY StampIsNat DEF IInv, TypeOK, LogTypeOK, Stamp
  <2>3. NoOlder(clean.cutoff) \subseteq NewerKept(r)
    BY <2>1, <2>2 DEF NoOlder, NewerKept, Excess, Present
  <2>4. NoOlder(clean.cutoff) \in SUBSET Request /\ NewerKept(r) \in SUBSET Request
    BY DEF NoOlder, Present, NewerKept
  <2>5. Cardinality(NoOlder(clean.cutoff)) <= Cardinality(NewerKept(r))
    BY <2>3, <2>4, PresentFinite, FS_Subset
  <2>6. Cardinality(NoOlder(clean.cutoff)) > MaxRecords
    BY <1>1 DEF Delete, Enough
  <2>7. QED
    BY <2>4, <2>5, <2>6, PresentFinite, LogAssumption
<1>2. QED
  BY <1>1, CleanupAlone DEF RowsKept

-----------------------------------------------------------------------------
THEOREM Inductive == Spec => []IInv
BY InitIInv, StepIInv, PTL DEF Spec

-----------------------------------------------------------------------------
(* The theorems *)

(* Every reachable state of the log, the cleanup and the rollup is well      *)
(* typed; the watermark in particular never passes the clock.                *)
THEOREM TypeCorrect == Spec => []TypeOK
<1>1. IInv => TypeOK
  BY DEF IInv
<1>2. QED
  BY <1>1, Inductive, PTL

(* No request is added to the statistics twice, whatever ticks fail and      *)
(* however often the process restarts (rollup.go:112-116).                   *)
THEOREM NeverCountedTwice == Spec => []CountedOnce
<1>1. IInv => CountedOnce
  BY DEF IInv, TypeOK, Counts, CountedOnce
<1>2. QED
  BY <1>1, Inductive, PTL

(* The UPDATE of a response is never issued before its INSERT ended          *)
(* (handler.go:580, store.go:140-141).                                       *)
THEOREM SavedAfterInsert == Spec => []SaveAfterInsert
<1>1. IInv => SaveAfterInsert
  BY DEF IInv, Stages, SaveAfterInsert
<1>2. QED
  BY <1>1, Inductive, PTL

(* Apart from late commits and ties at the end of a full batch, no completed *)
(* row falls behind the cursor uncounted (rollup.go:127-130).                *)
THEOREM OnlyExcusedSkipped == Spec => []NothingSkipped
<1>1. IInv => NothingSkipped
  BY DEF IInv, Ahead, NothingSkipped
<1>2. QED
  BY <1>1, Inductive, PTL

(* The count of a bucket is the number of requests added to it, over any     *)
(* number of ticks, failed transactions, restarts and prunings               *)
(* (rollup.go:237-241).                                                      *)
THEOREM CountsAddUp == Spec => []BucketsAddUp
<1>1. QED
  BY Inductive, BucketsInit, BucketsStep, PTL DEF Spec

(* A row is pruned only if MaxRecords newer ones stay: what is inserted or   *)
(* completed between the count, the search for the cutoff and the DELETE     *)
(* cannot make the cleanup take a row within the cap (store.go:289-292).     *)
THEOREM CleanupKeepsNewest == Spec => KeepsNewest
<1>1. IInv /\ Enough /\ [Next]_vars =>
        [\A r \in Request : row[r] # "pruned" /\ row'[r] = "pruned" =>
           Cardinality({q \in Request : /\ row'[q] \in {"open", "completed"}
                                        /\ created[q] > created[r]}) >= MaxRecords]_logVars
  BY PruneStep DEF NewerKept
<1>2. Spec => []Enough
  BY Inductive, EnoughInit, EnoughStep, PTL DEF Spec
<1>3. QED
  BY <1>1, <1>2, Inductive, PTL DEF Spec, KeepsNewest
=============================================================================
