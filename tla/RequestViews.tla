---------------------------- MODULE RequestViews ----------------------------
(***************************************************************************)
(* What the console tells of a request: the row of the log                 *)
(* (request-log-table.tsx), the request's page (detail-view.tsx), and the  *)
(* latency and cache cards and the tables, which the rollup sums up.  A    *)
(* request gets its row when an upstream has sent its headers              *)
(* (gateway/handler.go), its times from the observer                       *)
(* (observer/observer.go) and its counts with the end of its body.         *)
(***************************************************************************)
EXTENDS Integers, Sequences, FiniteSets

CONSTANTS
  None,
  Channel,
  TypeOf,                 \* the type of a channel's upstream
  Outcome,                \* by type, what a response may come to: [status, usage, truncated]
  MaxRequests, MaxTime,   \* bounds
  UsageMetricRows(_, _)   \* the counts on the page of a request, see UsageCost

VARIABLES
  now,
  call,      \* the request under way: [method, relayed, firstChunk, firstToken]
  log,       \* console_requests, the newest last
  stats,     \* the sums of the statistics, by channel
  counted    \* the rows in the statistics

vars == <<now, call, log, stats, counted>>

NoUsage == [f \in {"input", "output", "total", "create", "read", "cached"} |-> 0]
NoSums == [f \in {"requests", "hits", "creates", "tokens", "duration", "firstToken",
                  "generation", "timed"} |-> 0]

Init ==
  /\ now = 0 /\ call = None /\ log = <<>>
  /\ stats = [c \in Channel |-> NoSums] /\ counted = {}

(***************************************************************************)
(* A request.                                                              *)
(***************************************************************************)
Arrive(method) ==
  /\ call = None /\ Len(log) < MaxRequests
  /\ call' = [method |-> method, relayed |-> FALSE, firstChunk |-> None, firstToken |-> None]
  /\ UNCHANGED <<now, log, stats, counted>>

(* All attempts failed: the gateway answers itself.  Neither they nor the    *)
(* request are recorded.                                                     *)
WriteTerminalError ==
  /\ call # None /\ ~call.relayed
  /\ call' = None
  /\ UNCHANGED <<now, log, stats, counted>>

(* The row; the gateway leaves out which channels were tried before.  What   *)
(* the client was told is history.                                           *)
RecordRequest(channel, status) ==
  [channel |-> channel, failoverFrom |-> None, originalRoute |-> None, retryAttempt |-> 0,
   created |-> now, status |-> None, truncation |-> None,
   firstChunk |-> None, firstToken |-> None, completed |-> None,
   usage |-> NoUsage, told |-> status]

(* Only a POST has its response observed.  *)
StreamResponse(channel, status) ==
  /\ call # None /\ ~call.relayed
  /\ log' = Append(log, RecordRequest(channel, status))
  /\ call' = IF call.method = "POST" THEN [call EXCEPT !.relayed = TRUE] ELSE None
  /\ UNCHANGED <<now, stats, counted>>

Relaying == call # None /\ call.relayed

(* The observer reads a chunk, which may be the first and may have text in   *)
(* an event stream.                                                          *)
ObserveChunk(text) ==
  /\ Relaying
  /\ call' = [call EXCEPT !.firstChunk = IF @ = None THEN now ELSE @,
                          !.firstToken = IF @ = None /\ text THEN now ELSE @]
  /\ call' # call
  /\ UNCHANGED <<now, log, stats, counted>>

Observed(row, o) ==
  [row EXCEPT !.status = row.told, !.usage = o.usage,
              !.truncation = IF o.truncated THEN "size_limit" ELSE None,
              !.firstChunk = call.firstChunk, !.firstToken = call.firstToken, !.completed = now]

(* The body ends, or the client leaves.  The second write may fail. *)
RecordResponse(o) ==
  /\ Relaying
  /\ o \in Outcome[TypeOf[log[Len(log)].channel]] /\ o.status = log[Len(log)].told
  /\ o.usage # NoUsage \/ o.truncated => call.firstChunk # None
  /\ log' \in {[log EXCEPT ![Len(log)] = Observed(@, o)], log}
  /\ call' = None
  /\ UNCHANGED <<now, stats, counted>>

(***************************************************************************)
(* The statistics.                                                         *)
(***************************************************************************)
Since(from, at) == IF from = None \/ at = None THEN 0 ELSE at - from

Fold(row) ==
  [requests   |-> 1,
   hits       |-> IF row.usage.read > 0 THEN 1 ELSE 0,
   creates    |-> IF row.usage.create > 0 THEN 1 ELSE 0,
   tokens     |-> row.usage.input + row.usage.output,
   duration   |-> row.completed - row.created,
   firstToken |-> Since(row.created, row.firstToken),
   generation |-> Since(row.firstToken, row.completed),
   timed      |-> 1]

Sum(Of(_), S) ==
  LET sum[T \in SUBSET S] ==
        IF T = {} THEN 0 ELSE LET e == CHOOSE e \in T : TRUE IN Of(e) + sum[T \ {e}]
  IN sum[S]

RollUp ==
  /\ LET rows   == {i \in DOMAIN log \ counted : log[i].completed # None}
         Own(c) == {i \in rows : log[i].channel = c}
     IN /\ rows # {} /\ counted' = counted \cup rows
        /\ stats' = [c \in Channel |-> [f \in DOMAIN NoSums |->
                       stats[c][f] + Sum(LAMBDA i : Fold(log[i])[f], Own(c))]]
  /\ UNCHANGED <<now, call, log>>

Clock == now < MaxTime /\ now' = now + 1 /\ UNCHANGED <<call, log, stats, counted>>

Outcomes == UNION {Outcome[type] : type \in DOMAIN Outcome}

Next ==
  \/ \E method \in {"POST", "GET"} : Arrive(method)
  \/ WriteTerminalError \/ RollUp \/ Clock
  \/ \E c \in Channel, o \in Outcomes : StreamResponse(c, o.status)
  \/ \E text \in BOOLEAN : ObserveChunk(text)
  \/ \E o \in Outcomes : RecordResponse(o)

Spec == Init /\ [][Next]_vars

(***************************************************************************)
(* Times as they are shown.  None is sent as null, which is shown as zero. *)
(***************************************************************************)
DeltaMs(from, to) == IF from = None \/ to = None THEN None ELSE to - from

Timing(row) ==
  [firstChunk |-> DeltaMs(row.created, row.firstChunk),
   firstToken |-> DeltaMs(row.created, row.firstToken),
   duration   |-> DeltaMs(row.created, row.completed),
   generation |-> DeltaMs(row.firstToken, row.completed)]

FormatDuration(ms) == IF ms = None THEN 0 ELSE ms

(* Tokens and the time they took, or None. *)
OutputTokensPerSecond(usage, timing) ==
  IF usage.output > 0 /\ timing.generation # None /\ timing.generation > 0
  THEN [tokens |-> usage.output, ms |-> timing.generation] ELSE None

(***************************************************************************)
(* The row of the log.                                                     *)
(***************************************************************************)
RequestCacheReadTokens(row) ==
  IF TypeOf[row.channel] = "openai" THEN row.usage.cached ELSE row.usage.read

RequestCacheHitRate(row) ==
  LET read   == RequestCacheReadTokens(row)
      prompt == IF TypeOf[row.channel] = "openai" THEN row.usage.input
                ELSE row.usage.input + row.usage.create + read
      rate   == (100 * read) \div prompt
  IN IF prompt <= 0 THEN None ELSE IF rate > 100 THEN 100 ELSE rate

HttpStatusLabel(status) ==
  CASE status = None         -> "running"
    [] status \in {408, 504} -> "timeout"
    [] status \in 200..399   -> "success"
    [] OTHER                 -> "failure"

RuntimeStatusBadges(row) ==
  {HttpStatusLabel(row.status)} \cup
  (CASE row.truncation = None                      -> {}
     [] row.truncation = "stream duration timeout" -> {"truncatedStream"}
     [] row.truncation = "body too large"          -> {"truncatedSize"}
     [] OTHER                                      -> {"truncatedLog"}) \cup
  (CASE row.failoverFrom # None -> {"failedOver"}
     [] row.retryAttempt > 0    -> {"retriedSameRoute"}
     [] OTHER                   -> {})

Route(row) ==
  IF row.failoverFrom = None THEN <<row.channel>>
  ELSE <<IF row.originalRoute = None THEN row.failoverFrom ELSE row.originalRoute, row.channel>>

RequestRow(row) ==
  [route      |-> Route(row),
   badges     |-> RuntimeStatusBadges(row),
   firstToken |-> FormatDuration(Timing(row).firstToken),
   total      |-> FormatDuration(Timing(row).duration),
   input      |-> row.usage.input - row.usage.cached,
   output     |-> row.usage.output,
   cache      |-> RequestCacheReadTokens(row),
   hitRate    |-> RequestCacheHitRate(row),
   speed      |-> OutputTokensPerSecond(row.usage, Timing(row))]

(***************************************************************************)
(* The page of a request.                                                  *)
(***************************************************************************)
RequestRows(row) ==
  [route |-> Route(row), status |-> row.status, retryAttempt |-> row.retryAttempt]

TimingRows(row) == [part \in DOMAIN Timing(row) |-> FormatDuration(Timing(row)[part])]

(***************************************************************************)
(* The cards and the tables, each average as its sum and what divides it.  *)
(***************************************************************************)
Overview == [f \in DOMAIN NoSums |-> Sum(LAMBDA c : stats[c][f], Channel)]

LatencyCards ==
  [firstChunk |-> Overview.firstToken, firstToken |-> Overview.firstToken,
   duration |-> Overview.duration, generation |-> Overview.generation, of |-> Overview.timed]

CacheMisses ==
  LET misses == Overview.requests - Overview.hits - Overview.creates
  IN IF misses < 0 THEN 0 ELSE misses

CacheCards ==
  [hitRate |-> IF Overview.requests > 0 THEN (100 * Overview.hits) \div Overview.requests ELSE 0,
   hits |-> Overview.hits, creates |-> Overview.creates, misses |-> CacheMisses]

BucketRow(c) ==
  [requests |-> stats[c].requests,
   hitRate |-> IF stats[c].requests = 0 THEN 0 ELSE (100 * stats[c].hits) \div stats[c].requests,
   avgFirstToken |-> IF stats[c].timed > 0 THEN stats[c].firstToken \div stats[c].timed ELSE None,
   tokens |-> stats[c].tokens]

(***************************************************************************)
(* Properties.                                                             *)
(***************************************************************************)
Shown == DOMAIN log
Done  == {i \in Shown : log[i].completed # None}

TypeOK ==
  /\ now \in 0..MaxTime /\ counted \subseteq Done /\ Len(log) <= MaxRequests
  /\ \A i \in Shown : log[i].channel \in Channel /\ log[i].created \in 0..now

(* The times of a request add up: chunks come before tokens, tokens before   *)
(* the end, and what came before the first token and what came after it make *)
(* the whole (observer.go, detail.go).                                       *)
TimesAddUp ==
  \A i \in Done :
    LET t == TimingRows(log[i])
    IN /\ t.firstChunk \in 0..t.duration
       /\ log[i].firstToken # None =>
            t.firstChunk <= t.firstToken /\ t.firstToken + t.generation = t.duration

(* The log and the page of a request tell the same of it, though each has    *)
(* its own formulas: route, times and counts, and the hit rate is that of    *)
(* the counts on the page, if no more was cached than sent.                  *)
ListAgreesWithPage ==
  \A i \in Shown :
    LET row    == RequestRow(log[i])
        counts == UsageMetricRows(log[i].usage, TypeOf[log[i].channel])
        prompt == counts.uncached + counts.cached + counts.created
    IN /\ row.route = RequestRows(log[i]).route
       /\ row.firstToken = TimingRows(log[i]).firstToken /\ row.total = TimingRows(log[i]).duration
       /\ row.input = counts.uncached /\ row.output = counts.completion
       /\ row.cache = counts.cached
       /\ row.speed # None => row.speed.ms <= row.total
       /\ row.input >= 0 =>
            IF prompt = 0 THEN row.hitRate = None
            ELSE row.hitRate * prompt <= 100 * counts.cached
                 /\ 100 * counts.cached < (row.hitRate + 1) * prompt

(* A row has one badge for its status, which is the client's, and runs as    *)
(* long as its second write is not done; the badge of a cut off body is      *)
(* there if it was.                                                          *)
BadgesTell ==
  \A i \in Shown :
    LET badges == RuntimeStatusBadges(log[i])
    IN /\ Cardinality(badges \cap {"running", "success", "failure", "timeout"}) = 1
       /\ "running" \in badges <=> i \notin Done
       /\ i \in Done => ("success" \in badges <=> log[i].told < 400)
       /\ log[i].truncation # None <=>
            badges \cap {"truncatedStream", "truncatedSize", "truncatedLog"} # {}

Between(x, S) == \E low, high \in S : low <= x /\ x <= high

(* An average lies between what it is the average of, over all the           *)
(* restarts of the sums: of requests, or of the rows of the table; the cards *)
(* of first token and generation make that of the duration exactly if every  *)
(* request had a token; and a miss has neither hit nor creation, unless some *)
(* request had both.                                                         *)
AveragesAddUp ==
  counted # {} =>
    LET n         == Cardinality(counted)
        times     == {TimingRows(log[i]).duration : i \in counted}
        tables    == {BucketRow(c) : c \in {log[i].channel : i \in counted}}
        misses    == {i \in counted : log[i].usage.read = 0 /\ log[i].usage.create = 0}
        both      == {i \in counted : log[i].usage.read > 0 /\ log[i].usage.create > 0}
        cards     == LatencyCards
    IN /\ cards.of = n
       /\ Between(cards.duration, {n * time : time \in times})
       /\ cards.firstToken + cards.generation <= cards.duration
       /\ cards.firstToken + cards.generation = cards.duration <=>
            \A i \in counted : log[i].firstToken # None \/ TimingRows(log[i]).duration = 0
       /\ Between(cards.firstToken \div n, {b.avgFirstToken : b \in tables})
       /\ Between(CacheCards.hitRate, {b.hitRate : b \in tables})
       /\ CacheCards.misses <= Cardinality(misses)
       /\ both = {} => CacheCards.misses = Cardinality(misses)

(* The card of the misses counts the requests with neither (en.ts:143); not  *)
(* so once a request had both.                                               *)
MissesCounted == CacheCards.misses =
  Cardinality({i \in counted : log[i].usage.read = 0 /\ log[i].usage.create = 0})
=============================================================================
