------------------------------ MODULE LogsPage ------------------------------
(***************************************************************************)
(* The request log of the console: use-dashboard-data.ts behind            *)
(* logs-page.tsx and the sort buttons of request-log-table.tsx.  Loads are *)
(* numbered and only the newest counts; the offset and the order of the    *)
(* rows become the page's own when they are answered.                      *)
(***************************************************************************)
EXTENDS Integers, FiniteSets

CONSTANTS
  PAGE_SIZE,
  SortKey,                       \* created_at, response_status, tokens
  CreatedAt,                     \* the first of them
  MaxTotal, MaxLoads, MaxChanges \* bounds

VARIABLES
  total,      \* requests the server has
  shown,      \* the answer shown: [id, offset, by, order, total], its id is history
  loading, refreshing,
  loadId,     \* loadIdRef
  out,        \* the loads that are out
  options,    \* the call for the filter options: sent or answered
  signedOut,
  changes,    \* how often total changed (bound)
  shrunk      \* history: requests were deleted

page == <<shown, loading, refreshing>>
vars == <<total, page, loadId, out, options, signedOut, changes, shrunk>>

Load(id, offset, by, order) ==
  [id |-> id, offset |-> offset, by |-> by, order |-> order, total |-> 0, at |-> "sent"]

Init ==
  /\ total \in 0..MaxTotal
  /\ shown = [id |-> 0, offset |-> 0, by |-> CreatedAt, order |-> "desc", total |-> 0]
  /\ loading = TRUE /\ refreshing = TRUE
  /\ loadId = 1 /\ out = {Load(1, 0, CreatedAt, "desc")}
  /\ options = "sent" /\ signedOut = FALSE /\ changes = 0 /\ shrunk = FALSE

RefreshDashboard(offset, by, order) ==
  /\ ~signedOut /\ loadId < MaxLoads
  /\ loadId' = loadId + 1
  /\ out' = out \cup {Load(loadId + 1, offset, by, order)}
  /\ refreshing' = TRUE
  /\ UNCHANGED <<total, shown, loading, options, signedOut, changes, shrunk>>

Refresh ==
  /\ ~refreshing
  /\ RefreshDashboard(shown.offset, shown.by, shown.order)

CanPrev == shown.offset > 0

GoPrev ==
  /\ ~refreshing /\ CanPrev
  /\ RefreshDashboard(IF shown.offset < PAGE_SIZE THEN 0 ELSE shown.offset - PAGE_SIZE,
                      shown.by, shown.order)

CanNext == shown.offset + PAGE_SIZE < shown.total

GoNext ==
  /\ ~refreshing /\ CanNext
  /\ RefreshDashboard(shown.offset + PAGE_SIZE, shown.by, shown.order)

(* A page that has no rows at first shows no table, and so no sort buttons;  *)
(* otherwise they stay enabled while a load is out.                          *)
HasTable == shown.offset < shown.total

HandleSortChange(by, order) == RefreshDashboard(0, by, order)

ToggleSort(by) ==
  /\ HasTable
  /\ HandleSortChange(by, IF by = shown.by /\ shown.order = "desc" THEN "asc" ELSE "desc")

(***************************************************************************)
(* The server: requests arrive, and old ones are deleted.                  *)
(***************************************************************************)
Change ==
  /\ changes < MaxChanges /\ changes' = changes + 1
  /\ \E n \in 0..MaxTotal : n # total /\ total' = n /\ shrunk' = (shrunk \/ n < total)
  /\ UNCHANGED <<page, loadId, out, options, signedOut>>

Serve(l) ==
  /\ ~signedOut /\ l.at = "sent"
  /\ \E how \in {"ok", "error", "unauthorized"} :
       out' = (out \ {l}) \cup {[l EXCEPT !.at = how, !.total = IF how = "ok" THEN total ELSE 0]}
  /\ UNCHANGED <<total, page, loadId, options, signedOut, changes, shrunk>>

EveryLoad(l) == TRUE
Newest(l) == l.id = loadId

EndsOnSuccess(l) == IF Newest(l) /\ l.at = "ok" THEN loading' = FALSE /\ refreshing' = FALSE
                                                ELSE UNCHANGED <<loading, refreshing>>
Ends(l) == IF Newest(l) THEN loading' = FALSE /\ refreshing' = FALSE
                        ELSE UNCHANGED <<loading, refreshing>>

Answered(l) ==
  /\ ~signedOut /\ l.at # "sent"
  /\ out' = out \ {l}
  /\ shown' = IF Newest(l) /\ l.at = "ok"
              THEN [id |-> l.id, offset |-> l.offset, by |-> l.by, order |-> l.order, total |-> l.total]
              ELSE shown
  /\ signedOut' = (Newest(l) /\ l.at = "unauthorized")
  /\ Ends(l)
  /\ UNCHANGED <<total, loadId, options, changes, shrunk>>

(* Asked for once, when the page is mounted; an error is dropped. *)
FilterOptionsAnswered ==
  /\ ~signedOut /\ options = "sent"
  /\ options' = "answered"
  /\ signedOut' \in BOOLEAN
  /\ UNCHANGED <<total, page, loadId, out, changes, shrunk>>

Next ==
  \/ Refresh \/ GoPrev \/ GoNext \/ Change \/ FilterOptionsAnswered
  \/ \E by \in SortKey : ToggleSort(by)
  \/ \E l \in out : Serve(l) \/ Answered(l)

Spec == Init /\ [][Next]_vars

(***************************************************************************)
(* Properties.                                                             *)
(***************************************************************************)
(* The state has its types, and the buttons are held back exactly while the  *)
(* newest load is out, so that they always come back.                        *)
TypeOK ==
  /\ shown.offset \in Nat /\ shown.by \in SortKey /\ shown.id \in 0..loadId
  /\ \A l, m \in out : l.id = m.id => l = m
  /\ ~signedOut => (refreshing <=> \E l \in out : Newest(l))

(* The page shown starts within the requests that there are, unless some     *)
(* were deleted: Next is offered only when there is a next page.             *)
PageWithinTotal == ~shrunk /\ shown.offset > 0 => shown.offset < shown.total

Latest == INSTANCE LatestLoad WITH asked <- loadId, shown <- shown.id

(* The page keeps the promise of LatestLoad: rows, offset and order are      *)
(* those of the newest load or stay as they are.                             *)
ShowsLatest == Latest!Spec
=============================================================================
