----------------------------- MODULE DetailPage -----------------------------
(***************************************************************************)
(* The page of one request (detail-page.tsx).  The request it shows is the *)
(* address's (use-hash-route.ts): the page stays mounted, with its detail, *)
(* when the address names another request.                                 *)
(***************************************************************************)
EXTENDS Integers, FiniteSets

CONSTANTS
  Request,     \* requests the address may name
  None,
  MaxLoads     \* bound

VARIABLES
  requestId,
  detail,      \* the request whose detail is held, or None
  error,
  loading,
  loadId,      \* loadIdRef
  out,         \* the loads that are out
  logged,      \* the requests the server has; it may delete them
  signedOut

vars == <<requestId, detail, error, loading, loadId, out, logged, signedOut>>

Load(id, r) == [id |-> id, of |-> r, at |-> "sent"]

Init ==
  /\ requestId \in Request
  /\ detail = None /\ error = FALSE /\ loading = TRUE
  /\ loadId = 1 /\ out = {Load(1, requestId)}
  /\ logged = Request /\ signedOut = FALSE

LoadDetail(r) ==
  /\ ~signedOut /\ loadId < MaxLoads
  /\ loadId' = loadId + 1
  /\ out' = out \cup {Load(loadId + 1, r)}
  /\ loading' = TRUE
  /\ UNCHANGED <<detail, error, logged, signedOut>>

Refresh == LoadDetail(requestId) /\ UNCHANGED requestId

Navigate(r) == r # requestId /\ requestId' = r /\ LoadDetail(r)

Cleanup ==
  /\ \E r \in logged : logged' = logged \ {r}
  /\ UNCHANGED <<requestId, detail, error, loading, loadId, out, signedOut>>

(* A request that is gone is answered with an error. *)
Serve(l) ==
  /\ ~signedOut /\ l.at = "sent"
  /\ \E how \in {"ok", "error", "unauthorized"} :
       /\ how = "ok" => l.of \in logged
       /\ out' = (out \ {l}) \cup {[l EXCEPT !.at = how]}
  /\ UNCHANGED <<requestId, detail, error, loading, loadId, logged, signedOut>>

Newest(l) == l.id = loadId

StillLoading(l) == loading /\ ~Newest(l)

Answered(l) ==
  /\ ~signedOut /\ l.at # "sent"
  /\ out' = out \ {l}
  /\ detail' = IF Newest(l) /\ l.at = "ok" THEN l.of ELSE detail
  /\ error' = IF Newest(l) THEN l.at = "error" \/ (error /\ l.at = "unauthorized") ELSE error
  /\ signedOut' = (Newest(l) /\ l.at = "unauthorized")
  /\ loading' = StillLoading(l)
  /\ UNCHANGED <<requestId, loadId, logged>>

Next ==
  \/ Refresh \/ Cleanup
  \/ \E r \in Request : Navigate(r)
  \/ \E l \in out : Serve(l) \/ Answered(l)

Spec == Init /\ [][Next]_vars

(***************************************************************************)
(* Properties.                                                             *)
(***************************************************************************)
(* The state has its types, and the page says it is loading exactly while    *)
(* the load of its address, its newest, is out.                              *)
TypeOK ==
  /\ requestId \in Request /\ detail \in Request \cup {None}
  /\ error \in BOOLEAN /\ loadId \in Nat
  /\ \A l, m \in out : l.id = m.id => l = m
  /\ ~signedOut => (loading <=> \E l \in out : Newest(l) /\ l.of = requestId)

(* Once nothing loads, the page shows the request its address names, or an   *)
(* error, however often the address changed while answers were out.          *)
DetailOfAddress ==
  ~loading /\ ~error /\ ~signedOut => detail = requestId
=============================================================================
