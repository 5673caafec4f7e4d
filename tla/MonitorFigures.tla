--------------------------- MODULE MonitorFigures ---------------------------
(***************************************************************************)
(* The figures of the monitor page.  One load brings two answers, the      *)
(* statistics that the rollup counted and the newest rows of the request   *)
(* log, and the page works out the same things from both, with different   *)
(* code: totals, the trend (dashboard-page.tsx), the health of a channel   *)
(* by the hour (utils/channel-health.ts) and its status.  They are         *)
(* compared after every change of the log.  Time is counted in the 5       *)
(* minutes of a statistics bucket.                                         *)
(***************************************************************************)
EXTENDS Integers, Sequences, FiniteSets, FiniteSetsExt, SequencesExt

CONSTANTS
  Route,
  None,
  Status,              \* the response statuses that upstreams give
  DashboardRange,      \* the ranges to choose from
  BucketSize,          \* the width of the trend's buckets by range
  Span,                \* how far a range goes back
  Hour,                \* the buckets of an hour
  LIMIT,               \* rows that the page asks for
  MaxRows, MaxTime, MaxPruned   \* bounds

VARIABLES
  log,      \* console_requests, oldest first: [at, route, status, took]
  pruned,   \* how many of the oldest the cleanup deleted
  counted,  \* the rows that the rollup has counted
  now

vars == <<log, pruned, counted, now>>

Init == log = <<>> /\ pruned = 0 /\ counted = {} /\ now = 0

(***************************************************************************)
(* The log.                                                                *)
(***************************************************************************)
Arrives(route) ==
  /\ Len(log) < MaxRows
  /\ log' = Append(log, [at |-> now, route |-> route, status |-> None, took |-> None])
  /\ UNCHANGED <<pruned, counted, now>>

(* The status and the times come with the second write of a row.  *)
Completes(i) ==
  /\ i > pruned /\ log[i].status = None
  /\ \E status \in Status :
       log' = [log EXCEPT ![i].status = status, ![i].took = now - log[i].at]
  /\ UNCHANGED <<pruned, counted, now>>

RollUp ==
  /\ counted' = counted \cup {i \in DOMAIN log : i > pruned /\ log[i].status # None}
  /\ UNCHANGED <<log, pruned, now>>

Cleanup ==
  /\ pruned < Len(log) /\ pruned < MaxPruned /\ pruned' = pruned + 1
  /\ UNCHANGED <<log, counted, now>>

Clock ==
  /\ now < MaxTime /\ now' = now + 1
  /\ UNCHANGED <<log, pruned, counted>>

Next ==
  \/ RollUp \/ Cleanup \/ Clock
  \/ \E route \in Route : Arrives(route)
  \/ \E i \in DOMAIN log : Completes(i)

Spec == Init /\ [][Next]_vars

(***************************************************************************)
(* The two answers, for a filter.  The statistics know the range; the list *)
(* of requests is asked with it and does not look at it.                   *)
(***************************************************************************)
Matches(row, route) == route = None \/ row.route = route

IsError(status)  == status = None \/ status >= 400    \* as the rollup has it
Errors(rows)     == Cardinality({i \in rows : IsError(log[i].status)})

InRange(route, range) == {i \in counted : Matches(log[i], route) /\ log[i].at >= now - Span[range]}

Overview(route, range) ==
  LET rows == InRange(route, range) IN [total |-> Cardinality(rows), errors |-> Errors(rows)]

(* The rows of the list, by their place in the log. *)
Listed(route) ==
  LET fits == {i \in DOMAIN log : i > pruned /\ Matches(log[i], route)}
  IN {i \in fits : Cardinality({j \in fits : j > i}) < LIMIT}

(***************************************************************************)
(* The figures.                                                            *)
(***************************************************************************)
BucketOf(i, size) == (log[i].at \div size) * size

Buckets(rows, size) == SetToSortSeq({BucketOf(i, size) : i \in rows}, <)

CountsIfEnded(status) == status # None /\ status >= 400    \* a plausible mistake
CountsAsError(status) == status = None \/ status >= 400

Point(rows) ==
  LET timed == {i \in rows : log[i].took # None}
  IN [total     |-> Cardinality(rows),
      errors    |-> Cardinality({i \in rows : CountsAsError(log[i].status)}),
      latency   |-> MapThenSumSet(LAMBDA i : log[i].took, timed),
      timedRows |-> Cardinality(timed)]

TrendData(rows, range) ==
  LET at == Buckets(rows, BucketSize[range])
  IN [k \in DOMAIN at |-> Point({i \in rows : BucketOf(i, BucketSize[range]) = at[k]})]

(* The last six hours that had a request at all. *)
RouteSparkline(rows, route) ==
  LET own   == {i \in rows : log[i].route = route}
      hours == Buckets(own, Hour)
      from  == IF Len(hours) > 6 THEN Len(hours) - 5 ELSE 1
  IN [k \in 1..(Len(hours) - from + 1) |->
        Cardinality({i \in own : BucketOf(i, Hour) = hours[from + k - 1]})]

IsSuccess(status) == status # None /\ status >= 200 /\ status < 400

HealthOf(rows) ==
  LET success == {i \in rows : IsSuccess(log[i].status)}
  IN CASE rows = {}       -> "no-data"
       [] success = rows  -> "healthy"
       [] success # {}    -> "degraded"
       [] OTHER           -> "down"

HourlyStatus(rows, route) ==
  [hour \in {BucketOf(i, Hour) : i \in rows} |->
     HealthOf({i \in rows : log[i].route = route /\ BucketOf(i, Hour) = hour})]

(* The badge of a channel, from the statistics: below 5 and 20 per cent. *)
ChannelStatus(route, range) ==
  LET all == Overview(route, range)
  IN CASE all.total = 0               -> "unknown"
       [] all.errors * 20 < all.total -> "healthy"
       [] all.errors * 5 < all.total  -> "degraded"
       [] OTHER                       -> "down"

(***************************************************************************)
(* The usage page, from the statistics alone.  Its series has a point for  *)
(* every bucket of the range, but the query groups by the five minutes of  *)
(* the stored rows, and the last of a bucket's groups overwrites the       *)
(* others.                                                                 *)
(***************************************************************************)
SuccessCount(all) == IF all.errors > all.total THEN 0 ELSE all.total - all.errors

BucketTable(filter, range) ==
  LET rows == InRange(filter, range)
  IN [route \in {log[i].route : i \in rows} |->
        LET own == {i \in rows : log[i].route = route}
        IN [requests |-> Cardinality(own), errors |-> Errors(own)]]

AlignDown(t, size) == (t \div size) * size

Timeseries(filter, range) ==
  LET size  == BucketSize[range]
      first == AlignDown(now - Span[range], size)
  IN [t \in {AlignDown(u, size) : u \in first..now} |->
        LET rows == {i \in InRange(filter, range) : BucketOf(i, size) = t}
            last == {i \in rows : \A j \in rows : log[j].at <= log[i].at}
        IN [requests |-> Cardinality(last), errors |-> Errors(last)]]

(***************************************************************************)
(* Properties.                                                             *)
(***************************************************************************)
TypeOK ==
  /\ \A i \in DOMAIN log : log[i].at \in 0..now /\ (log[i].status = None <=> log[i].took = None)
  /\ pruned \in 0..Len(log) /\ counted \subseteq DOMAIN log /\ now \in 0..MaxTime

SumOf(points, field) == FoldFunction(LAMBDA p, sum : p[field] + sum, 0, points)

(* Every listed request is in one point of the trend, an error at most once, *)
(* and in one bar of its channel.                                            *)
EachRequestOnce ==
  \A range \in DashboardRange :
    LET rows  == Listed(None)
        trend == TrendData(rows, range)
    IN /\ SumOf(trend, "total") = Cardinality(rows)
       /\ \A k \in DOMAIN trend : trend[k].total > 0 /\ trend[k].errors <= trend[k].total
       /\ \A route \in Route :
            Len(RouteSparkline(rows, route)) < 6 =>
              FoldFunction(+, 0, RouteSparkline(rows, route))
                = Cardinality({i \in rows : log[i].route = route})

(* A channel is green all over exactly when no request of it is an error in  *)
(* the trend: the two count errors each in its own way.                      *)
HealthAgreesWithTrend ==
  \A route \in Route :
    LET rows == Listed(route)
    IN (\A hour \in {BucketOf(i, Hour) : i \in rows} : HourlyStatus(rows, route)[hour] = "healthy")
         <=> SumOf(TrendData(rows, "all"), "errors") = 0

CaughtUp == pruned = 0 /\ counted = DOMAIN log /\ Len(log) <= LIMIT

(* With every request completed and counted and room for all in the list,    *)
(* the trend adds up to the cards above it, and a channel that is green or   *)
(* red in every hour has the status that says so.                            *)
FiguresAgree ==
  CaughtUp =>
    \A route \in Route :
      LET rows   == Listed(route)
          hourly == HourlyStatus(rows, route)
          all(s) == rows # {} /\ \A hour \in DOMAIN hourly : hourly[hour] = s
      IN /\ Overview(route, "all").total = SumOf(TrendData(rows, "all"), "total")
         /\ Overview(route, "all").errors = SumOf(TrendData(rows, "all"), "errors")
         /\ all("healthy") => ChannelStatus(route, "all") = "healthy"
         /\ all("down")    => ChannelStatus(route, "all") = "down"

(* Every range of the usage page adds up: the requests of the table are      *)
(* those of the cards, errors and successes make them, the series of five    *)
(* minutes has them all, and in a wider one a point that is shown empty is.  *)
UsageAddsUp ==
  \A filter \in Route \cup {None}, range \in DashboardRange :
    LET all   == Overview(filter, range)
        table == BucketTable(filter, range)
        chart == Timeseries(filter, range)
    IN /\ SumOf(table, "requests") = all.total /\ SumOf(table, "errors") = all.errors
       /\ SuccessCount(all) + all.errors = all.total
       /\ BucketSize[range] = 1 => SumOf(chart, "requests") = all.total
       /\ \A i \in InRange(filter, range) : chart[BucketOf(i, BucketSize[range])].requests > 0
=============================================================================
