----------------------------- MODULE StatsPage ------------------------------
(***************************************************************************)
(* The statistics of the console: use-dashboard-stats.ts behind the        *)
(* monitor page and use-usage-stats.ts behind the usage page.  Both load   *)
(* when the filter changes, every five seconds and on Refresh, and number  *)
(* their loads so that only the newest counts (loadIdRef).  A load of the  *)
(* monitor is two calls, the statistics and the requests; one of the usage *)
(* page is a single call.  The server's data is a version that grows.      *)
(***************************************************************************)
EXTENDS Naturals, FiniteSets

CONSTANTS
  Part,                   \* the calls of a load
  Filter,                 \* the values of the filters, taken together
  None,
  MaxLoads, MaxVersion    \* bounds

VARIABLES
  filter,     \* routeFilter, modelFilter, clientFilter and rangeFilter
  shown,      \* None or [id, query, got]: the answer shown (its id is history)
  loading,
  loadId,     \* loadIdRef
  out,        \* the loads that are out
  version,    \* the server's data
  signedOut,
  failed      \* history: the newest load was answered with an error

vars == <<filter, shown, loading, loadId, out, version, signedOut, failed>>

Load(id, f) ==
  [id |-> id, query |-> f, at |-> [p \in Part |-> "sent"], got |-> [p \in Part |-> 0]]

Init ==
  /\ filter \in Filter
  /\ shown = None /\ loading = TRUE
  /\ loadId = 1 /\ out = {Load(1, filter)}
  /\ version = 0 /\ signedOut = FALSE /\ failed = FALSE

Ask(f) ==
  /\ ~signedOut /\ loadId < MaxLoads
  /\ loadId' = loadId + 1
  /\ out' = out \cup {Load(loadId + 1, f)}
  /\ failed' = FALSE
  /\ UNCHANGED <<shown, loading, version, signedOut>>

(* Refresh, or the timer's tick. *)
Refresh == Ask(filter) /\ UNCHANGED filter

AskedFor(f) == filter
Wanted(f) == f

(* A filter the user picks, or the client of another link to the usage page. *)
SetFilter(f) ==
  /\ f # filter
  /\ filter' = f
  /\ Ask(Wanted(f))

(***************************************************************************)
(* The server.                                                             *)
(***************************************************************************)
NewData ==
  /\ version < MaxVersion /\ version' = version + 1
  /\ UNCHANGED <<filter, shown, loading, loadId, out, signedOut, failed>>

Settled(l, p, how) ==
  out' = (out \ {l}) \cup
           {[l EXCEPT !.at[p] = how, !.got[p] = IF how = "ok" THEN version ELSE 0]}

Serve(l, p) ==
  /\ ~signedOut /\ l.at[p] = "sent"
  /\ \E how \in {"ok", "error", "unauthorized"} : Settled(l, p, how)
  /\ UNCHANGED <<filter, shown, loading, loadId, version, signedOut, failed>>

(***************************************************************************)
(* Answers.  All the calls of a load have to succeed; the first that fails *)
(* ends it.                                                                *)
(***************************************************************************)
EveryLoad(l) == TRUE
Newest(l) == l.id = loadId

Succeeded(l) ==
  /\ \A p \in Part : l.at[p] = "ok"
  /\ IF Newest(l)
     THEN /\ shown' = [id |-> l.id, query |-> l.query, got |-> l.got]
          /\ loading' = FALSE
     ELSE UNCHANGED <<shown, loading>>
  /\ UNCHANGED <<signedOut, failed>>

StillLoading(l) == loading /\ ~Newest(l)

Failed(l) ==
  /\ \E p \in Part :
       /\ l.at[p] \in {"error", "unauthorized"}
       /\ signedOut' = (Newest(l) /\ l.at[p] = "unauthorized")
  /\ loading' = StillLoading(l)
  /\ failed' = (failed \/ Newest(l))
  /\ UNCHANGED shown

Answered(l) ==
  /\ ~signedOut
  /\ Succeeded(l) \/ Failed(l)
  /\ out' = out \ {l}
  /\ UNCHANGED <<filter, loadId, version>>

Next ==
  \/ Refresh \/ NewData
  \/ \E f \in Filter : SetFilter(f)
  \/ \E l \in out : Answered(l) \/ \E p \in Part : Serve(l, p)

Spec == Init /\ [][Next]_vars

(***************************************************************************)
(* Properties.                                                             *)
(***************************************************************************)
States == {"sent", "ok", "error", "unauthorized"}
Loads == [id : Nat, query : Filter, at : [Part -> States], got : [Part -> Nat]]

(* The state has its types, no two loads have a number, and the page says it *)
(* is loading only while its newest load is out.                             *)
TypeOK ==
  /\ filter \in Filter /\ loading \in BOOLEAN /\ signedOut \in BOOLEAN /\ failed \in BOOLEAN
  /\ loadId \in Nat /\ version \in Nat /\ out \subseteq Loads
  /\ shown \in [id : Nat, query : Filter, got : [Part -> Nat]] \cup {None}
  /\ \A l, m \in out : l.id = m.id => l = m
  /\ loading /\ ~signedOut => \E l \in out : Newest(l)

(* Once its newest load was answered, and not with an error, the page shows  *)
(* the statistics of the filter that is set: whatever the order of the       *)
(* answers, an old filter's numbers never stay under a new filter.           *)
SettledShowsFilter ==
  ~signedOut /\ ~failed /\ (\A l \in out : ~Newest(l)) => shown # None /\ shown.query = filter

(* The numbers shown never get older, though polls may be answered in any    *)
(* order.                                                                    *)
NeverGoesBack ==
  [][shown # None => shown' # None /\ \A p \in Part : shown.got[p] <= shown'.got[p]]_vars

ShownLoad == IF shown = None THEN 0 ELSE shown.id
Latest == INSTANCE LatestLoad WITH asked <- loadId, shown <- ShownLoad

(* The page keeps the promise of LatestLoad: it shows the newest load it     *)
(* asked for or keeps what it showed.                                        *)
ShowsLatest == Latest!Spec
=============================================================================
