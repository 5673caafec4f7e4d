------------------------- MODULE ViewPagesProofs -------------------------
(***************************************************************************)
(* Proofs about the pages that show something, for every set of filters,   *)
(* parts, requests and tabs, for any prices and any answers, and however   *)
(* many steps.                                                             *)
(*                                                                         *)
(* Of the statistics, IInv says what the numbers of the loads are for: the *)
(* newest load out, if there is one, asks for the filter that is set; and  *)
(* every load younger than the answer shown was asked after it, so what it *)
(* brings is at least as new.  Of the request log, LogsInv adds that loads *)
(* and answers begin within the requests there are; DetailInv, of the page *)
(* of a request, that an address has one load that counts.  SessionInv     *)
(* ties the buttons of login and logout to the calls that are out.         *)
(* ThemeInv adds to the agreement of the tabs what is on its way: the last *)
(* event in a tab's queue is what is stored.  ViewsInv says what a row of  *)
(* the log is at every stage of its request, CostInv what the sums are of  *)
(* the rows counted; both leave the formulas to lemmas about numbers.      *)
(***************************************************************************)
EXTENDS ViewPages, Sequences, FiniteSetTheorems, TLAPS

Shown == [id : Nat, query : Filter, got : [Part -> Nat]]

Typed ==
  /\ filter \in Filter /\ loading \in BOOLEAN /\ signedOut \in BOOLEAN /\ failed \in BOOLEAN
  /\ loadId \in Nat \ {0} /\ version \in Nat /\ out \subseteq Loads
  /\ shown \in Shown \cup {None}

Numbered ==
  /\ \A l \in out : l.id \in 1..loadId
  /\ \A l, m \in out : l.id = m.id => l = m

LoadingBacked == loading /\ ~signedOut => \E l \in out : l.id = loadId

NewestAsksFilter ==
  /\ \A l \in out : l.id = loadId => l.query = filter
  /\ ~signedOut /\ ~failed /\ (\A l \in out : l.id # loadId) =>
       shown # None /\ shown.query = filter

ShownBounded ==
  shown # None => /\ shown.id \in 1..loadId
                  /\ \A p \in Part : shown.got[p] <= version

GotBounded == \A l \in out : \A p \in Part : l.at[p] = "ok" => l.got[p] <= version

YoungerIsNewer ==
  shown # None => \A l \in out : l.id >= shown.id =>
    /\ l.id # shown.id
    /\ \A p \in Part : l.at[p] = "ok" => shown.got[p] <= l.got[p]

IInv ==
  Typed /\ Numbered /\ LoadingBacked /\ NewestAsksFilter /\ ShownBounded /\ GotBounded /\ YoungerIsNewer

LEMMA NoneIsNoAnswer == None \notin Shown
BY ShownAssumption DEF Shown

(* A new load, a record of its own, has its type and has brought nothing. *)
LEMMA LoadTyped ==
  ASSUME NEW id \in Nat, NEW f \in Filter
  PROVE  /\ Load(id, f) \in Loads /\ Load(id, f).id = id /\ Load(id, f).query = f
         /\ \A p \in Part : Load(id, f).at[p] = "sent"
BY DEF Load, Loads, States

(* The first load asks for the filter that is set. *)
LEMMA InitInv == Init => IInv
<1> SUFFICES ASSUME Init PROVE IInv
  OBVIOUS
<1>1. filter \in Filter /\ Load(1, filter) \in Loads /\ Load(1, filter).id = 1
      /\ Load(1, filter).query = filter /\ \A p \in Part : Load(1, filter).at[p] = "sent"
  BY LoadTyped DEF Init
<1>2. Typed
  <2>1. loading \in BOOLEAN /\ signedOut \in BOOLEAN /\ failed \in BOOLEAN
    BY DEF Init
  <2>2. loadId \in Nat \ {0} /\ version \in Nat
    BY DEF Init
  <2>3. out \subseteq Loads /\ filter \in Filter /\ shown \in Shown \cup {None}
    BY <1>1 DEF Init
  <2> QED
    BY <2>1, <2>2, <2>3 DEF Typed
<1>3. Numbered /\ LoadingBacked /\ NewestAsksFilter /\ ShownBounded /\ GotBounded /\ YoungerIsNewer
  BY <1>1 DEF Init, Numbered, LoadingBacked, NewestAsksFilter, ShownBounded, GotBounded, YoungerIsNewer
<1> QED
  BY <1>2, <1>3 DEF IInv

(* A load that is asked is the newest and asks for the filter then set. *)
LEMMA AskStep ==
  ASSUME IInv, Ask(filter'), filter' \in Filter
  PROVE  IInv'
<1> DEFINE new == Load(loadId + 1, filter')
<1>1. /\ loadId' = loadId + 1 /\ out' = out \cup {new} /\ failed' = FALSE
      /\ UNCHANGED <<shown, loading, version, signedOut>>
  BY DEF Ask
<1>2. /\ new \in Loads /\ new.id = loadId + 1 /\ new.query = filter'
      /\ \A p \in Part : new.at[p] = "sent"
  BY LoadTyped DEF IInv, Typed
<1> HIDE DEF new
<1>3. Typed'
  <2>1. loading' \in BOOLEAN /\ signedOut' \in BOOLEAN /\ failed' \in BOOLEAN
    BY <1>1 DEF IInv, Typed
  <2>2. loadId' \in Nat \ {0} /\ version' \in Nat
    BY <1>1 DEF IInv, Typed
  <2>3. out' \subseteq Loads /\ filter' \in Filter /\ shown' \in Shown \cup {None}
    BY <1>1, <1>2 DEF IInv, Typed
  <2> QED
    BY <2>1, <2>2, <2>3 DEF Typed
<1>4. Numbered'
  BY <1>1, <1>2 DEF IInv, Typed, Numbered
<1>5. LoadingBacked' /\ NewestAsksFilter'
  <2>1. new \in out' /\ new.id = loadId' /\ new.query = filter'
    BY <1>1, <1>2
  <2>2. \A l \in out' : l.id = loadId' => l = new
    BY <1>4, <2>1 DEF Numbered
  <2> QED
    BY <2>1, <2>2 DEF LoadingBacked, NewestAsksFilter
<1>6. ShownBounded' /\ GotBounded'
  BY <1>1, <1>2 DEF IInv, Typed, ShownBounded, GotBounded
<1>7. YoungerIsNewer'
  <2> SUFFICES ASSUME shown' # None, NEW l \in out', l.id >= shown'.id
               PROVE  /\ l.id # shown'.id
                      /\ \A p \in Part : l.at[p] = "ok" => shown'.got[p] <= l.got[p]
    BY DEF YoungerIsNewer
  <2>1. CASE l = new
    BY <1>1, <1>2, <2>1 DEF IInv, Typed, ShownBounded
  <2>2. CASE l \in out
    BY <1>1, <2>2 DEF IInv, YoungerIsNewer
  <2> QED
    BY <1>1, <2>1, <2>2
<1> QED
  BY <1>3, <1>4, <1>5, <1>6, <1>7 DEF IInv

(* New data leaves the loads alone. *)
LEMMA NewDataStep == IInv /\ NewData => IInv'
<1> SUFFICES ASSUME IInv, NewData PROVE IInv'
  OBVIOUS
<1>1. Typed' /\ Numbered' /\ LoadingBacked' /\ NewestAsksFilter' /\ YoungerIsNewer'
  BY DEF IInv, NewData, Typed, Numbered, LoadingBacked, NewestAsksFilter, YoungerIsNewer
<1>2. ShownBounded'
  <2> SUFFICES ASSUME shown # None, NEW p \in Part PROVE shown.got[p] <= version + 1
    BY DEF IInv, NewData, ShownBounded
  <2>1. shown.got[p] \in Nat /\ shown.got[p] <= version /\ version \in Nat
    BY DEF IInv, Typed, Shown, ShownBounded
  <2> QED
    BY <2>1
<1>3. GotBounded'
  <2> SUFFICES ASSUME NEW l \in out, NEW p \in Part, l.at[p] = "ok" PROVE l.got[p] <= version + 1
    BY DEF IInv, NewData, GotBounded
  <2>1. l.got[p] \in Nat /\ l.got[p] <= version /\ version \in Nat
    BY DEF IInv, Typed, Loads, GotBounded
  <2> QED
    BY <2>1
<1> QED
  BY <1>1, <1>2, <1>3 DEF IInv

(* A call that is served brings the server's data of that moment. *)
LEMMA ServeStep ==
  ASSUME IInv, NEW l \in out, NEW p \in Part, Serve(l, p)
  PROVE  IInv'
<1>1. PICK how \in {"ok", "error", "unauthorized"} : Settled(l, p, how)
  BY DEF Serve
<1> DEFINE m == [l EXCEPT !.at[p] = how, !.got[p] = IF how = "ok" THEN version ELSE 0]
<1>2. out' = (out \ {l}) \cup {m}
      /\ UNCHANGED <<filter, shown, loading, loadId, version, signedOut, failed>>
  BY <1>1 DEF Serve, Settled
<1>3. l \in Loads /\ version \in Nat
  BY DEF IInv, Typed
<1>4. m \in Loads
  BY <1>3 DEF Loads, States
<1>5. m.id = l.id /\ m.query = l.query
  BY <1>3 DEF Loads
<1>6. \A q \in Part : m.at[q] = "ok" => m.got[q] = IF q = p THEN version ELSE l.got[q]
  BY <1>3 DEF Loads
<1>7. \A q \in Part : q # p => m.at[q] = l.at[q]
  BY <1>3 DEF Loads
<1> HIDE DEF m
<1>8. Typed'
  BY <1>2, <1>4 DEF IInv, Typed
<1>9. Numbered'
  BY <1>2, <1>5 DEF IInv, Numbered
<1>10. LoadingBacked' /\ NewestAsksFilter'
  BY <1>2, <1>5 DEF IInv, LoadingBacked, NewestAsksFilter
<1>11. ShownBounded' /\ GotBounded'
  BY <1>2, <1>3, <1>6, <1>7 DEF IInv, ShownBounded, GotBounded
<1>12. YoungerIsNewer'
  <2> SUFFICES ASSUME shown' # None, NEW k \in out', k.id >= shown'.id
               PROVE  /\ k.id # shown'.id
                      /\ \A q \in Part : k.at[q] = "ok" => shown'.got[q] <= k.got[q]
    BY DEF YoungerIsNewer
  <2>1. CASE k \in out
    BY <1>2, <2>1 DEF IInv, YoungerIsNewer
  <2>2. CASE k = m
    <3>1. l.id >= shown.id /\ l.id # shown.id
          /\ \A q \in Part : l.at[q] = "ok" => shown.got[q] <= l.got[q]
      BY <1>2, <1>5, <2>2 DEF IInv, YoungerIsNewer
    <3>2. \A q \in Part : shown.got[q] <= version
      BY <1>2 DEF IInv, ShownBounded
    <3>3. \A q \in Part : m.at[q] = "ok" => shown.got[q] <= m.got[q]
      BY <1>6, <1>7, <3>1, <3>2
    <3> QED
      BY <1>2, <1>5, <2>2, <3>1, <3>3
  <2> QED
    BY <1>2, <2>1, <2>2
<1> QED
  BY <1>8, <1>9, <1>10, <1>11, <1>12 DEF IInv

(* An answer is shown only if its load is the newest, which asks for the     *)
(* filter that is set.                                                       *)
LEMMA AnsweredStep ==
  ASSUME IInv, NEW l \in out, Answered(l)
  PROVE  IInv'
<1>1. out' = out \ {l} /\ UNCHANGED <<filter, loadId, version>> /\ ~signedOut
  BY DEF Answered
<1>2. l \in Loads /\ l.id \in 1..loadId /\ loadId \in Nat /\ version \in Nat
  BY DEF IInv, Typed, Numbered
<1>3. \A m \in out' : m.id # l.id /\ m \in out
  BY <1>1 DEF IInv, Numbered
<1>4. Numbered'
  BY <1>1 DEF IInv, Numbered
<1>7. GotBounded'
  BY <1>1 DEF IInv, GotBounded
<1>5. CASE Succeeded(l) /\ Newest(l)
  <2> DEFINE s == [id |-> l.id, query |-> l.query, got |-> l.got]
  <2>1. shown' = s /\ loading' = FALSE /\ UNCHANGED <<signedOut, failed>>
        /\ \A p \in Part : l.at[p] = "ok"
    BY <1>5 DEF Succeeded
  <2>2. s \in Shown /\ s.id = loadId /\ s.query = filter
        /\ \A p \in Part : s.got[p] = l.got[p]
    BY <1>2, <1>5 DEF Loads, Shown, IInv, NewestAsksFilter, Newest
  <2> HIDE DEF s
  <2>3. Typed'
    BY <1>1, <2>1, <2>2 DEF IInv, Typed
  <2>4. LoadingBacked' /\ NewestAsksFilter'
    <3>1. shown' # None
      BY <2>1, <2>2, NoneIsNoAnswer
    <3>2. \A m \in out' : m.id # loadId'
      BY <1>1, <1>3, <1>5 DEF Newest
    <3> QED
      BY <1>1, <2>1, <2>2, <3>1, <3>2 DEF LoadingBacked, NewestAsksFilter
  <2>5. ShownBounded'
    <3>1. \A p \in Part : l.got[p] <= version
      BY <2>1 DEF IInv, GotBounded
    <3> QED
      BY <1>1, <1>2, <2>1, <2>2, <3>1 DEF ShownBounded
  <2>6. YoungerIsNewer'
    <3>1. \A m \in out' : ~(m.id >= loadId)
      BY <1>1, <1>2, <1>3, <1>4, <1>5 DEF Newest, Numbered
    <3> QED
      BY <2>1, <2>2, <3>1 DEF YoungerIsNewer
  <2> QED
    BY <1>4, <1>7, <2>3, <2>4, <2>5, <2>6 DEF IInv
<1>6. CASE (Succeeded(l) /\ ~Newest(l)) \/ Failed(l)
  <2>1. shown' = shown /\ loading' \in BOOLEAN /\ signedOut' \in BOOLEAN /\ failed' \in BOOLEAN
    BY <1>6 DEF Succeeded, Failed, StillLoading, IInv, Typed
  <2>2. Typed'
    BY <1>1, <2>1 DEF IInv, Typed
  <2>3. LoadingBacked'
    BY <1>1, <1>6 DEF IInv, LoadingBacked, Succeeded, Failed, StillLoading, Newest
  <2>4. NewestAsksFilter'
    BY <1>1, <1>6 DEF IInv, NewestAsksFilter, Succeeded, Failed, Newest
  <2>5. ShownBounded' /\ YoungerIsNewer'
    BY <1>1, <2>1 DEF IInv, ShownBounded, YoungerIsNewer
  <2> QED
    BY <1>4, <1>7, <2>2, <2>3, <2>4, <2>5 DEF IInv
<1> QED
  BY <1>5, <1>6 DEF Answered
(* Every step keeps the invariant. *)
LEMMA NextInv == IInv /\ [Next]_vars => IInv'
<1> SUFFICES ASSUME IInv, [Next]_vars PROVE IInv'
  OBVIOUS
<1>1. CASE Refresh
  BY <1>1, AskStep DEF Refresh, IInv, Typed
<1>2. CASE NewData
  BY <1>2, NewDataStep
<1>3. ASSUME NEW f \in Filter, SetFilter(f) PROVE IInv'
  BY <1>3, AskStep DEF SetFilter, Wanted
<1>4. ASSUME NEW l \in out, Answered(l) PROVE IInv'
  BY <1>4, AnsweredStep
<1>5. ASSUME NEW l \in out, NEW p \in Part, Serve(l, p) PROVE IInv'
  BY <1>5, ServeStep
<1>6. CASE UNCHANGED vars
  BY <1>6 DEF vars, IInv, Typed, Numbered, LoadingBacked, NewestAsksFilter, ShownBounded,
     GotBounded, YoungerIsNewer
<1> QED
  BY <1>1, <1>2, <1>3, <1>4, <1>5, <1>6 DEF Next

(* The invariant holds in every reachable state. *)
LEMMA Invariance == Spec => []IInv
<1>1. Init => IInv
  BY InitInv
<1>2. IInv /\ [Next]_vars => IInv'
  BY NextInv
<1> QED
  BY <1>1, <1>2, PTL DEF Spec

(* The state has its types and the page says it is loading only while its    *)
(* newest load is out.                                                       *)
THEOREM StatsTyped == Spec => []TypeOK
<1>1. IInv => TypeOK
  BY DEF IInv, Typed, Numbered, LoadingBacked, TypeOK, Newest, Shown
<1> QED
  BY <1>1, Invariance, PTL

(* The numbers shown belong to the filter that is set, once the newest load  *)
(* was answered, and not with an error: after one that failed, those of the  *)
(* filter before stand.                                                      *)
THEOREM SettledShows == Spec => []SettledShowsFilter
<1>1. IInv => SettledShowsFilter
  BY DEF IInv, NewestAsksFilter, SettledShowsFilter, Newest
<1> QED
  BY <1>1, Invariance, PTL

(* Only an answer changes what is shown, and it shows its own load, the      *)
(* newest, which is younger than the one shown.                              *)
LEMMA ShownStep ==
  ASSUME IInv, [Next]_vars
  PROVE  \/ UNCHANGED shown
         \/ \E l \in out : /\ l.id = loadId /\ UNCHANGED loadId
                           /\ shown' = [id |-> l.id, query |-> l.query, got |-> l.got]
                           /\ \A p \in Part : l.at[p] = "ok"
<1>1. ASSUME NEW l \in out, Answered(l)
      PROVE  \/ UNCHANGED shown
             \/ /\ l.id = loadId /\ UNCHANGED loadId
                /\ shown' = [id |-> l.id, query |-> l.query, got |-> l.got]
                /\ \A p \in Part : l.at[p] = "ok"
  BY <1>1 DEF Answered, Succeeded, Failed, Newest
<1>2. CASE Refresh \/ NewData \/ (\E f \in Filter : SetFilter(f))
  BY <1>2 DEF Refresh, NewData, SetFilter, Ask
<1>3. CASE \E l \in out : \E p \in Part : Serve(l, p)
  BY <1>3 DEF Serve
<1>4. CASE UNCHANGED vars
  BY <1>4 DEF vars
<1> QED
  BY <1>1, <1>2, <1>3, <1>4 DEF Next

(* The numbers shown never get older. *)
THEOREM ShownNeverOlder == Spec => NeverGoesBack
<1> DEFINE Step == shown # None =>
             shown' # None /\ \A p \in Part : shown.got[p] <= shown'.got[p]
<1>1. IInv /\ [Next]_vars => Step
  <2> SUFFICES ASSUME IInv, [Next]_vars, shown # None
               PROVE  shown' # None /\ \A p \in Part : shown.got[p] <= shown'.got[p]
    OBVIOUS
  <2>1. CASE UNCHANGED shown
    BY <2>1 DEF IInv, Typed, Shown
  <2>2. ASSUME NEW l \in out, l.id = loadId, \A p \in Part : l.at[p] = "ok",
               shown' = [id |-> l.id, query |-> l.query, got |-> l.got]
        PROVE  shown' # None /\ \A p \in Part : shown.got[p] <= shown'.got[p]
    <3>1. l \in Loads /\ l.id >= shown.id
      BY <2>2 DEF IInv, Typed, ShownBounded
    <3>2. shown' \in Shown
      BY <2>2, <3>1 DEF Shown, Loads
    <3> QED
      BY <2>2, <3>1, <3>2, NoneIsNoAnswer DEF IInv, YoungerIsNewer
  <2> QED
    BY <2>1, <2>2, ShownStep
<1> QED
  BY <1>1, Invariance, PTL DEF Spec, NeverGoesBack

(* The page implements LatestLoad: whatever the order of the answers, it     *)
(* shows the newest load or keeps what it showed.                            *)
THEOREM StatsImplementsLatest == Spec => ShowsLatest
<1>1. Init => Latest!Init
  BY DEF Init, Latest!Init, ShownLoad
<1>2. IInv /\ [Next]_vars => [Latest!Next]_<<loadId, ShownLoad>>
  <2> SUFFICES ASSUME IInv, [Next]_vars PROVE [Latest!Next]_<<loadId, ShownLoad>>
    OBVIOUS
  <2>1. CASE UNCHANGED shown
    <3>1. loadId' = loadId \/ loadId' = loadId + 1
      BY DEF Next, Refresh, NewData, SetFilter, Ask, Answered, Serve, vars
    <3> QED
      BY <2>1, <3>1 DEF ShownLoad, Latest!Next, Latest!Ask
  <2>2. ASSUME NEW l \in out, l.id = loadId, UNCHANGED loadId,
               shown' = [id |-> l.id, query |-> l.query, got |-> l.got]
        PROVE  Latest!Show
    <3>1. l \in Loads /\ loadId \in Nat \ {0}
      BY DEF IInv, Typed
    <3>2. shown' \in Shown /\ shown'.id = loadId
      BY <2>2, <3>1 DEF Shown, Loads
    <3>3. ShownLoad' = loadId
      BY <3>2, NoneIsNoAnswer DEF ShownLoad
    <3>4. ShownLoad < loadId
      <4>1. CASE shown = None
        BY <3>1, <4>1 DEF ShownLoad
      <4>2. CASE shown # None
        BY <2>2, <4>2 DEF ShownLoad, IInv, Typed, ShownBounded, YoungerIsNewer
      <4> QED
        BY <4>1, <4>2
    <3> QED
      BY <2>2, <3>3, <3>4 DEF Latest!Show
  <2> QED
    BY <2>1, <2>2, ShownStep DEF Latest!Next
<1> QED
  BY <1>1, <1>2, Invariance, PTL DEF Spec, ShowsLatest, Latest!Spec

-----------------------------------------------------------------------------
(* The request log *)

Order == {"asc", "desc"}
Rows  == [id : Nat, offset : Nat, by : SortKey, order : Order, total : Nat]
RowLoads ==
  [id : Nat, offset : Nat, by : SortKey, order : Order, total : Nat, at : States]

LogsTyped ==
  /\ total \in Nat /\ rows \in Rows /\ rowsId \in Nat \ {0} /\ rowsOut \subseteq RowLoads
  /\ rowsSignedOut \in BOOLEAN /\ shrunk \in BOOLEAN

LogsNumbered ==
  /\ rows.id \in 0..rowsId
  /\ \A l \in rowsOut : l.id \in 1..rowsId
  /\ \A l, m \in rowsOut : l.id = m.id => l = m
  /\ \A l \in rowsOut : l.id = rowsId => rows.id < rowsId

LogsBacked == ~rowsSignedOut => (refreshing <=> \E l \in rowsOut : l.id = rowsId)

(* Unless requests were deleted, what is shown, asked for or answered begins *)
(* within the requests there are.                                            *)
LogsWithin ==
  ~shrunk =>
    /\ rows.total <= total /\ (rows.offset > 0 => rows.offset < rows.total)
    /\ \A l \in rowsOut : l.offset > 0 => l.offset < total
    /\ \A l \in rowsOut : l.at = "ok" => l.total <= total /\ (l.offset > 0 => l.offset < l.total)

LogsInv == LogsTyped /\ LogsNumbered /\ LogsBacked /\ LogsWithin

LEMMA LogsInit == Logs!Init => LogsInv
<1> SUFFICES ASSUME Logs!Init PROVE LogsInv
  OBVIOUS
<1> DEFINE l == [id |-> 1, offset |-> 0, by |-> CreatedAt, order |-> "desc", total |-> 0, at |-> "sent"]
<1>1. /\ rowsOut = {l} /\ rowsId = 1 /\ refreshing = TRUE /\ shrunk = FALSE /\ rowsSignedOut = FALSE
      /\ total \in 0..MaxTotal
      /\ rows = [id |-> 0, offset |-> 0, by |-> CreatedAt, order |-> "desc", total |-> 0]
  BY DEF Logs!Init, Logs!Load
<1>2. l \in RowLoads /\ rows \in Rows /\ total \in Nat
  BY <1>1, PagesAssumption DEF RowLoads, Rows, Order, States
<1>3. l.id = 1 /\ l.offset = 0 /\ l.at = "sent"
  OBVIOUS
<1> HIDE DEF l
<1>4. rows.id = 0 /\ rows.offset = 0 /\ rows.total = 0
  BY <1>1
<1>5. LogsTyped
  <2>1. rowsId \in Nat \ {0} /\ rowsOut \subseteq RowLoads
    BY <1>1, <1>2
  <2>2. rowsSignedOut \in BOOLEAN /\ shrunk \in BOOLEAN
    BY <1>1
  <2> QED
    BY <1>2, <2>1, <2>2 DEF LogsTyped
<1>6. LogsNumbered
  BY <1>1, <1>3, <1>4 DEF LogsNumbered
<1>7. LogsBacked
  BY <1>1, <1>3 DEF LogsBacked
<1>8. LogsWithin
  BY <1>1, <1>2, <1>3, <1>4 DEF LogsWithin, Rows
<1> QED
  BY <1>5, <1>6, <1>7, <1>8 DEF LogsInv

(* A new load begins at the start or within what is shown. *)
LEMMA LogsAsked ==
  ASSUME LogsInv, NEW offset \in Nat, NEW by \in SortKey, NEW order \in Order,
         Logs!RefreshDashboard(offset, by, order), ~shrunk /\ offset > 0 => offset < rows.total
  PROVE  LogsInv'
<1> DEFINE l == [id |-> rowsId + 1, offset |-> offset, by |-> by, order |-> order, total |-> 0,
                 at |-> "sent"]
<1>1. /\ rowsOut' = rowsOut \cup {l} /\ rowsId' = rowsId + 1 /\ refreshing' = TRUE
      /\ UNCHANGED <<total, rows, rowsSignedOut, shrunk>>
  BY DEF Logs!RefreshDashboard, Logs!Load
<1>2. l \in RowLoads /\ rowsId + 1 \in Nat \ {0}
  BY DEF RowLoads, States, LogsInv, LogsTyped
<1>3. l.id = rowsId + 1 /\ l.offset = offset /\ l.at = "sent"
  OBVIOUS
<1> HIDE DEF l
<1>4. rows \in Rows /\ total \in Nat /\ rowsId \in Nat
  BY DEF LogsInv, LogsTyped
<1>5. LogsTyped'
  BY <1>1, <1>2 DEF LogsInv, LogsTyped
<1>6. LogsNumbered'
  BY <1>1, <1>3, <1>4 DEF LogsInv, LogsNumbered, Rows
<1>7. LogsBacked'
  BY <1>1, <1>3 DEF LogsBacked
<1>8. LogsWithin'
  BY <1>1, <1>3, <1>4 DEF LogsInv, LogsWithin, Rows
<1> QED
  BY <1>5, <1>6, <1>7, <1>8 DEF LogsInv

LEMMA LogsServed ==
  ASSUME LogsInv, NEW l \in rowsOut, Logs!Serve(l)
  PROVE  LogsInv'
<1>1. PICK how \in {"ok", "error", "unauthorized"} :
        rowsOut' = (rowsOut \ {l}) \cup {[l EXCEPT !.at = how, !.total = IF how = "ok" THEN total ELSE 0]}
  BY DEF Logs!Serve
<1>2. UNCHANGED <<total, rows, refreshing, rowsId, rowsSignedOut, shrunk>>
  BY DEF Logs!Serve, Logs!page
<1>3. l \in RowLoads /\ total \in Nat /\ rowsId \in Nat /\ rows \in Rows
  BY DEF LogsInv, LogsTyped
<1> DEFINE m == [l EXCEPT !.at = how, !.total = IF how = "ok" THEN total ELSE 0]
<1>4. /\ m \in RowLoads /\ m.id = l.id /\ m.offset = l.offset
      /\ m.at = "ok" => m.total = total
  BY <1>3 DEF RowLoads, States
<1>5. rowsOut' = (rowsOut \ {l}) \cup {m}
  BY <1>1
<1> HIDE DEF m
<1>6. LogsTyped'
  BY <1>2, <1>4, <1>5 DEF LogsInv, LogsTyped
<1>7. LogsNumbered'
  BY <1>2, <1>4, <1>5 DEF LogsInv, LogsNumbered
<1>8. LogsBacked'
  BY <1>2, <1>4, <1>5 DEF LogsInv, LogsBacked
<1>9. LogsWithin'
  BY <1>2, <1>3, <1>4, <1>5 DEF LogsInv, LogsWithin
<1> QED
  BY <1>6, <1>7, <1>8, <1>9 DEF LogsInv

LEMMA LogsAnswered ==
  ASSUME LogsInv, NEW l \in rowsOut, Logs!Answered(l)
  PROVE  LogsInv'
<1>1. /\ rowsOut' = rowsOut \ {l} /\ ~rowsSignedOut /\ UNCHANGED <<total, rowsId, shrunk>>
      /\ rowsSignedOut' \in BOOLEAN
      /\ l.id # rowsId => rows' = rows /\ refreshing' = refreshing
      /\ l.id = rowsId => refreshing' = FALSE
      /\ rows' # rows => /\ l.id = rowsId /\ l.at = "ok"
                         /\ rows' = [id |-> l.id, offset |-> l.offset, by |-> l.by, order |-> l.order,
                                     total |-> l.total]
  BY DEF Logs!Answered, Logs!Ends, Logs!Newest
<1>2. l \in RowLoads /\ total \in Nat /\ rowsId \in Nat \ {0} /\ rows \in Rows
  BY DEF LogsInv, LogsTyped
<1>3. rows' = rows \/ (/\ l.id = rowsId /\ l.at = "ok" /\ rows'.id = l.id
                       /\ rows'.offset = l.offset /\ rows'.total = l.total)
  BY <1>1
<1>4. rows' \in Rows
  BY <1>1, <1>2 DEF RowLoads, Rows
<1>5. LogsTyped'
  BY <1>1, <1>4 DEF LogsInv, LogsTyped
<1>6. LogsNumbered'
  BY <1>1, <1>2, <1>3 DEF LogsInv, LogsNumbered
<1>7. LogsBacked'
  <2>1. CASE l.id = rowsId
    BY <1>1, <2>1 DEF LogsInv, LogsNumbered, LogsBacked
  <2>2. CASE l.id # rowsId
    BY <1>1, <2>2 DEF LogsInv, LogsBacked
  <2> QED
    BY <2>1, <2>2
<1>8. LogsWithin'
  BY <1>1, <1>2, <1>3 DEF LogsInv, LogsWithin
<1> QED
  BY <1>5, <1>6, <1>7, <1>8 DEF LogsInv

LEMMA LogsStep == LogsInv /\ [Logs!Next]_Logs!vars => LogsInv'
<1> SUFFICES ASSUME LogsInv, [Logs!Next]_Logs!vars PROVE LogsInv'
  OBVIOUS
<1>1. /\ rows.offset \in Nat /\ rows.total \in Nat /\ rows.by \in SortKey /\ rows.order \in Order
      /\ total \in Nat
  BY DEF LogsInv, LogsTyped, Rows
<1>2. CASE Logs!Refresh \/ Logs!GoPrev
  <2>1. PICK offset \in Nat : /\ Logs!RefreshDashboard(offset, rows.by, rows.order)
                              /\ offset <= rows.offset
    BY <1>1, <1>2, PagesAssumption DEF Logs!Refresh, Logs!GoPrev
  <2>2. ~shrunk /\ offset > 0 => offset < rows.total
    BY <1>1, <2>1 DEF LogsInv, LogsWithin
  <2> QED
    BY <1>1, <2>1, <2>2, LogsAsked
<1>3. CASE Logs!GoNext
  <2>1. /\ Logs!RefreshDashboard(rows.offset + PAGE_SIZE, rows.by, rows.order)
        /\ rows.offset + PAGE_SIZE < rows.total /\ rows.offset + PAGE_SIZE \in Nat
    BY <1>1, <1>3, PagesAssumption DEF Logs!GoNext, Logs!CanNext
  <2> QED
    BY <1>1, <2>1, LogsAsked
<1>4. ASSUME NEW by \in SortKey, Logs!ToggleSort(by)
      PROVE  LogsInv'
  <2>1. PICK order \in Order : Logs!RefreshDashboard(0, by, order)
    BY <1>4 DEF Logs!ToggleSort, Logs!HandleSortChange, Order
  <2> QED
    BY <2>1, LogsAsked
<1>5. CASE Logs!Change
  <2>1. PICK n \in 0..MaxTotal : total' = n /\ shrunk' = (shrunk \/ n < total)
    BY <1>5 DEF Logs!Change
  <2>2. UNCHANGED <<rows, rowsId, rowsOut, rowsSignedOut, refreshing>>
    BY <1>5 DEF Logs!Change, Logs!page
  <2>3. n \in Nat /\ (~shrunk' => ~shrunk /\ total <= n) /\ shrunk' \in BOOLEAN
    <3>1. n \in Nat /\ (n < total \/ total <= n)
      BY <1>1, <2>1, PagesAssumption
    <3>2. shrunk' \in BOOLEAN
      BY <2>1
    <3>3. ~shrunk' => ~shrunk /\ ~(n < total)
      BY <2>1
    <3> QED
      BY <3>1, <3>2, <3>3
  <2>4. \A l \in rowsOut : l.offset \in Nat /\ l.total \in Nat
    BY DEF LogsInv, LogsTyped, RowLoads
  <2>5. LogsWithin'
    BY <1>1, <2>1, <2>2, <2>3, <2>4 DEF LogsInv, LogsWithin
  <2> QED
    BY <2>1, <2>2, <2>3, <2>5 DEF LogsInv, LogsTyped, LogsNumbered, LogsBacked
<1>6. CASE Logs!FilterOptionsAnswered
  <2>1. /\ UNCHANGED <<total, rows, rowsId, rowsOut, refreshing, shrunk>>
        /\ ~rowsSignedOut /\ rowsSignedOut' \in BOOLEAN
    BY <1>6 DEF Logs!FilterOptionsAnswered, Logs!page
  <2> QED
    BY <2>1 DEF LogsInv, LogsTyped, LogsNumbered, LogsBacked, LogsWithin
<1>7. CASE UNCHANGED Logs!vars
  BY <1>7 DEF Logs!vars, Logs!page, LogsInv, LogsTyped, LogsNumbered, LogsBacked, LogsWithin
<1> QED
  BY <1>2, <1>3, <1>4, <1>5, <1>6, <1>7, LogsServed, LogsAnswered DEF Logs!Next

LEMMA LogsInvariance == Logs!Spec => []LogsInv
BY LogsInit, LogsStep, PTL DEF Logs!Spec

LEMMA LogsInvHolds == LogsInv => Logs!TypeOK /\ Logs!PageWithinTotal
BY DEF LogsInv, LogsTyped, LogsNumbered, LogsBacked, LogsWithin, Rows, Logs!TypeOK,
   Logs!PageWithinTotal, Logs!Newest

(* The rows shown begin within the requests there are, unless some were      *)
(* deleted, and the buttons come back once the newest load is answered.      *)
THEOREM LogsHold == Logs!Spec => [](Logs!TypeOK /\ Logs!PageWithinTotal)
BY LogsInvHolds, LogsInvariance, PTL

(* The request log implements LatestLoad: whatever the order of the answers, *)
(* rows, offset and order are those of the newest load or stay.              *)
THEOREM LogsImplementLatest == Logs!Spec => LogsShowLatest
<1>1. Logs!Init => Logs!Latest!Init
  <2>1. Logs!Init => rowsId = 1 /\ rows.id = 0
    BY SMTT(30) DEF Logs!Init
  <2> QED
    BY <2>1 DEF Logs!Latest!Init
<1>2. LogsInv /\ [Logs!Next]_Logs!vars => [Logs!Latest!Next]_<<rowsId, rows.id>>
  <2> SUFFICES ASSUME LogsInv, [Logs!Next]_Logs!vars
               PROVE  [Logs!Latest!Next]_<<rowsId, rows.id>>
    OBVIOUS
  <2>1. CASE \E l \in rowsOut : Logs!Answered(l)
    <3>1. PICK l \in rowsOut : Logs!Answered(l)
      BY <2>1
    <3>2. rowsId' = rowsId /\ (rows' = rows \/ (l.id = rowsId /\ rows'.id = l.id))
      BY <3>1 DEF Logs!Answered, Logs!Newest
    <3>3. l.id = rowsId => rows.id < rowsId
      BY DEF LogsInv, LogsNumbered
    <3> QED
      BY <3>2, <3>3 DEF Logs!Latest!Next, Logs!Latest!Show
  <2>2. CASE UNCHANGED rows /\ (rowsId' = rowsId \/ rowsId' = rowsId + 1)
    BY <2>2 DEF Logs!Latest!Next, Logs!Latest!Ask
  <2> QED
    BY <2>1, <2>2
    DEF Logs!Next, Logs!Refresh, Logs!GoPrev, Logs!GoNext, Logs!ToggleSort, Logs!HandleSortChange,
        Logs!RefreshDashboard, Logs!Change, Logs!FilterOptionsAnswered, Logs!Serve, Logs!page,
        Logs!vars
<1> QED
  BY <1>1, <1>2, LogsInvariance, PTL DEF Logs!Spec, LogsShowLatest, Logs!ShowsLatest, Logs!Latest!Spec

-----------------------------------------------------------------------------
(* The page of one request *)

DetailLoads == [id : Nat, of : Request, at : States]

DetailInv ==
  /\ requestId \in Request /\ detail \in Request \cup {None} /\ error \in BOOLEAN
  /\ detailLoading \in BOOLEAN /\ detailSignedOut \in BOOLEAN
  /\ detailId \in Nat \ {0} /\ detailOut \subseteq DetailLoads
  /\ \A l \in detailOut : l.id \in 1..detailId /\ (l.id = detailId => l.of = requestId)
  /\ \A l, m \in detailOut : l.id = m.id => l = m
  /\ ~detailSignedOut => (detailLoading <=> \E l \in detailOut : l.id = detailId)
  /\ ~detailLoading /\ ~error /\ ~detailSignedOut => detail = requestId

LEMMA DetailInit == Detail!Init => DetailInv
<1> SUFFICES ASSUME Detail!Init PROVE DetailInv
  OBVIOUS
<1> DEFINE l == [id |-> 1, of |-> requestId, at |-> "sent"]
<1>1. /\ requestId \in Request /\ detail = None /\ error = FALSE /\ detailLoading = TRUE
      /\ detailId = 1 /\ detailOut = {l} /\ detailSignedOut = FALSE
  BY DEF Detail!Init, Detail!Load
<1>2. l \in DetailLoads /\ l.id = 1 /\ l.of = requestId
  BY <1>1 DEF DetailLoads, States
<1> HIDE DEF l
<1>3. /\ detail \in Request \cup {None} /\ error \in BOOLEAN /\ detailLoading \in BOOLEAN
      /\ detailSignedOut \in BOOLEAN /\ detailOut \subseteq DetailLoads
  BY <1>1, <1>2
<1> QED
  BY <1>1, <1>2, <1>3 DEF DetailInv

LEMMA DetailAsked ==
  ASSUME DetailInv, NEW r \in Request, Detail!LoadDetail(r), requestId' = r
  PROVE  DetailInv'
<1> DEFINE l == [id |-> detailId + 1, of |-> r, at |-> "sent"]
<1>1. /\ detailOut' = detailOut \cup {l} /\ detailId' = detailId + 1 /\ detailLoading' = TRUE
      /\ UNCHANGED <<detail, error, detailSignedOut>>
  BY DEF Detail!LoadDetail, Detail!Load
<1>2. l \in DetailLoads /\ l.id = detailId + 1 /\ l.of = r
  BY DEF DetailLoads, States, DetailInv
<1> HIDE DEF l
<1> QED
  BY <1>1, <1>2 DEF DetailInv

LEMMA DetailServed ==
  ASSUME DetailInv, NEW l \in detailOut, Detail!Serve(l)
  PROVE  DetailInv'
<1>1. PICK how \in States : detailOut' = (detailOut \ {l}) \cup {[l EXCEPT !.at = how]}
  BY DEF Detail!Serve, States
<1>2. UNCHANGED <<requestId, detail, error, detailLoading, detailId, detailSignedOut>>
  BY DEF Detail!Serve
<1> DEFINE m == [l EXCEPT !.at = how]
<1>3. m \in DetailLoads /\ m.id = l.id /\ m.of = l.of
  BY DEF DetailInv, DetailLoads
<1>4. detailOut' = (detailOut \ {l}) \cup {m}
  BY <1>1
<1> HIDE DEF m
<1> QED
  BY <1>2, <1>3, <1>4 DEF DetailInv

LEMMA DetailAnswered ==
  ASSUME DetailInv, NEW l \in detailOut, Detail!Answered(l)
  PROVE  DetailInv'
<1>1. /\ detailOut' = detailOut \ {l} /\ ~detailSignedOut /\ UNCHANGED <<requestId, detailId>>
      /\ l.at # "sent"
  BY DEF Detail!Answered
<1>2. l \in DetailLoads
  BY DEF DetailInv
<1>3. CASE l.id = detailId
  <2>1. /\ detail' = IF l.at = "ok" THEN l.of ELSE detail
        /\ error' = (l.at = "error" \/ (error /\ l.at = "unauthorized"))
        /\ detailSignedOut' = (l.at = "unauthorized")
        /\ detailLoading' = FALSE
    BY <1>3 DEF Detail!Answered, Detail!Newest, Detail!StillLoading
  <2> QED
    BY <1>1, <1>2, <1>3, <2>1 DEF DetailInv, DetailLoads, States
<1>4. CASE l.id # detailId
  <2>1. detail' = detail /\ error' = error /\ detailSignedOut' = FALSE /\ detailLoading' = detailLoading
    BY <1>4 DEF Detail!Answered, Detail!Newest, Detail!StillLoading, DetailInv
  <2> QED
    BY <1>1, <1>2, <1>4, <2>1 DEF DetailInv
<1> QED
  BY <1>3, <1>4

LEMMA DetailStep == DetailInv /\ [Detail!Next]_Detail!vars => DetailInv'
<1> SUFFICES ASSUME DetailInv, [Detail!Next]_Detail!vars PROVE DetailInv'
  OBVIOUS
<1>1. CASE Detail!Refresh
  BY <1>1, DetailAsked DEF Detail!Refresh, DetailInv
<1>2. ASSUME NEW r \in Request, Detail!Navigate(r) PROVE DetailInv'
  BY <1>2, DetailAsked DEF Detail!Navigate
<1>3. CASE Detail!Cleanup \/ UNCHANGED Detail!vars
  BY <1>3 DEF Detail!Cleanup, Detail!vars, DetailInv
<1> QED
  BY <1>1, <1>2, <1>3, DetailServed, DetailAnswered DEF Detail!Next

LEMMA DetailInvHolds == DetailInv => Detail!TypeOK /\ Detail!DetailOfAddress
BY DEF DetailInv, Detail!TypeOK, Detail!DetailOfAddress, Detail!Newest

(* Once nothing loads, the page of a request shows the one of its address or *)
(* an error, however often the address changed while answers were out.       *)
THEOREM DetailHolds == Detail!Spec => [](Detail!TypeOK /\ Detail!DetailOfAddress)
BY DetailInvHolds, DetailInit, DetailStep, PTL DEF Detail!Spec
-----------------------------------------------------------------------------
(* The session of the tabs *)

Kinds    == {"session", "login", "logout", "page"}
Sessions == [enabled : BOOLEAN, authenticated : BOOLEAN, known : BOOLEAN]
TabState == [session : Sessions, error : BOOLEAN, logoutPending : BOOLEAN, submitting : BOOLEAN,
             page : Page]
CallsOut == [tab : Tab, kind : Kinds, with : Password \cup {None}, left : Nat,
             at : {"sent", "ok", "error", "unauthorized"}, says : Sessions]

SessionTyped ==
  /\ password \in Password \cup {None} /\ cookie \in Password \cup {None}
  /\ tabs \in [Tab -> TabState] /\ calls \subseteq CallsOut

Apart(sent) ==
  /\ \A c, d \in sent : c.tab = d.tab /\ c.kind = d.kind /\ c.left = d.left => c = d
  /\ \A c \in sent : c.kind # "page" => c.left = 0

OneOfAKind == Apart(calls)

(* A button is held back exactly while its call is out; a tab that was       *)
(* loaded again has no call of the page before it.                           *)
ButtonsHeld ==
  \A t \in Tab : /\ tabs[t].logoutPending <=> \E c \in calls : c.tab = t /\ c.kind = "logout"
                 /\ tabs[t].submitting <=> \E c \in calls : c.tab = t /\ c.kind = "login"

SessionInv == SessionTyped /\ OneOfAKind /\ ButtonsHeld

LEMMA SessionsTyped ==
  ASSUME NEW enabled \in BOOLEAN, NEW authenticated \in BOOLEAN
  PROVE  Session!Session(enabled, authenticated) \in Sessions
BY DEF Session!Session, Sessions

LEMMA UnknownTyped == Session!Unknown \in Sessions
BY DEF Session!Unknown, Sessions

LEMMA FreshTyped ==
  ASSUME NEW p \in Page
  PROVE  /\ Session!Fresh(p) \in TabState
         /\ ~Session!Fresh(p).logoutPending /\ ~Session!Fresh(p).submitting
BY UnknownTyped DEF Session!Fresh, TabState

(* A call that is sent, a record of its own. *)
LEMMA CallTyped ==
  ASSUME NEW t \in Tab, NEW kind \in Kinds, NEW with \in Password \cup {None}
  PROVE  /\ Session!Call(t, kind, with) \in CallsOut
         /\ Session!Call(t, kind, with).tab = t /\ Session!Call(t, kind, with).kind = kind
         /\ Session!Call(t, kind, with).left = 0
BY UnknownTyped DEF Session!Call, CallsOut

(* A page that is mounted leaves the calls of the pages before it further    *)
(* behind, and the others alone; its own is the only one of its mount.       *)
LEMMA MountedApart ==
  ASSUME NEW t \in Tab, NEW sent, sent \subseteq CallsOut, Apart(sent),
         NEW with \in Password \cup {None}
  PROVE  /\ Session!Mounted(t, sent, with) \subseteq CallsOut
         /\ Apart(Session!Mounted(t, sent, with))
         /\ \A u, k : k # "page" =>
              ((\E c \in Session!Mounted(t, sent, with) : c.tab = u /\ c.kind = k)
               <=> \E c \in sent : c.tab = u /\ c.kind = k)
<1> DEFINE After(c) == IF c.tab = t /\ c.kind = "page" THEN [c EXCEPT !.left = @ + 1] ELSE c
           new      == Session!Call(t, "page", with)
           all      == {After(c) : c \in sent} \cup {new}
<1>1. Session!Mounted(t, sent, with) = all
  BY DEF Session!Mounted
<1>2. new \in CallsOut /\ new.tab = t /\ new.kind = "page" /\ new.left = 0
  BY CallTyped DEF Kinds
<1>3. \A c \in sent : /\ After(c) \in CallsOut /\ After(c).tab = c.tab /\ After(c).kind = c.kind
                     /\ IF c.tab = t /\ c.kind = "page"
                        THEN After(c) = [c EXCEPT !.left = c.left + 1] /\ After(c).left = c.left + 1
                        ELSE After(c) = c
  BY DEF CallsOut
<1>4. \A c \in sent : c \in CallsOut /\ c.left \in Nat
  BY DEF CallsOut
<1> HIDE DEF After, new
<1>5. all \subseteq CallsOut
  BY <1>2, <1>3
<1>6. \A c, d \in sent : After(c).tab = After(d).tab /\ After(c).kind = After(d).kind
                        /\ After(c).left = After(d).left => c = d
  <2> SUFFICES ASSUME NEW c \in sent, NEW d \in sent, After(c).tab = After(d).tab,
                      After(c).kind = After(d).kind, After(c).left = After(d).left
               PROVE  c.tab = d.tab /\ c.kind = d.kind /\ c.left = d.left
    BY DEF Apart
  <2> QED
    BY <1>3, <1>4
<1>7. \A c \in sent : c.tab = t /\ c.kind = "page" => After(c).left # 0
  BY <1>3, <1>4
<1>8. Apart(all)
  <2>1. \A c, d \in all : c.tab = d.tab /\ c.kind = d.kind /\ c.left = d.left => c = d
    BY <1>2, <1>3, <1>6, <1>7
  <2>2. \A c \in all : c.kind # "page" => c.left = 0
    BY <1>2, <1>3 DEF Apart
  <2> QED
    BY <2>1, <2>2 DEF Apart
<1>9. \A u, k : k # "page" => ((\E c \in all : c.tab = u /\ c.kind = k)
                              <=> \E c \in sent : c.tab = u /\ c.kind = k)
  BY <1>2, <1>3
<1> QED
  BY <1>1, <1>5, <1>8, <1>9

LEMMA SessionInit == Session!Init => SessionInv
<1> SUFFICES ASSUME Session!Init PROVE SessionInv
  OBVIOUS
<1>1. /\ password \in Password \cup {None} /\ cookie \in Password \cup {None}
      /\ calls = {Session!Call(t, "session", cookie) : t \in Tab}
      /\ tabs \in [Tab -> {Session!Fresh(p) : p \in Page}]
  BY DEF Session!Init
<1>2. \A c \in calls : /\ c \in CallsOut /\ c.kind = "session" /\ c.left = 0
                       /\ c = Session!Call(c.tab, "session", cookie)
  <2> SUFFICES ASSUME NEW t \in Tab
               PROVE  LET c == Session!Call(t, "session", cookie)
                      IN c \in CallsOut /\ c.kind = "session" /\ c.tab = t /\ c.left = 0
    BY <1>1
  <2> QED
    BY <1>1, CallTyped DEF Kinds
<1>3. \A t \in Tab : tabs[t] \in TabState /\ ~tabs[t].logoutPending /\ ~tabs[t].submitting
  <2> SUFFICES ASSUME NEW t \in Tab
               PROVE  tabs[t] \in TabState /\ ~tabs[t].logoutPending /\ ~tabs[t].submitting
    OBVIOUS
  <2>1. PICK p \in Page : tabs[t] = Session!Fresh(p)
    BY <1>1
  <2> QED
    BY <2>1, FreshTyped
<1>4. SessionTyped
  BY <1>1, <1>2, <1>3 DEF SessionTyped
<1>5. OneOfAKind
  BY <1>2 DEF OneOfAKind, Apart
<1>6. ButtonsHeld
  BY <1>2, <1>3 DEF ButtonsHeld
<1> QED
  BY <1>4, <1>5, <1>6 DEF SessionInv

LEMMA SignedOffInit == SignedOff => SessionInv
<1> SUFFICES ASSUME SignedOff PROVE SessionInv
  OBVIOUS
<1> DEFINE first == CHOOSE p \in Page : TRUE
<1>1. first \in Page
  BY PagesAssumption
<1> HIDE DEF first
<1> DEFINE off == [Session!Fresh(first) EXCEPT !.session = Session!Session(FALSE, FALSE)]
<1>2. off \in TabState /\ ~off.logoutPending /\ ~off.submitting
  <2>1. Session!Fresh(first) \in TabState /\ ~Session!Fresh(first).logoutPending
        /\ ~Session!Fresh(first).submitting
    BY <1>1, FreshTyped
  <2>2. Session!Session(FALSE, FALSE) \in Sessions
    BY SessionsTyped
  <2> QED
    BY <2>1, <2>2 DEF TabState
<1>3. tabs = [t \in Tab |-> off] /\ calls = {} /\ password = None /\ cookie = None
  BY DEF SignedOff, first
<1> HIDE DEF off
<1> QED
  BY <1>2, <1>3 DEF SessionInv, SessionTyped, OneOfAKind, Apart, ButtonsHeld

(* A call that is sent while none of its kind is out. *)
LEMMA SentOne ==
  ASSUME SessionInv, NEW t \in Tab, NEW kind \in {"login", "logout"},
         NEW with \in Password \cup {None},
         ~\E c \in calls : c.tab = t /\ c.kind = kind,
         Session!Send(t, kind, with),
         tabs' \in [Tab -> TabState],
         \A u \in Tab :
           /\ tabs'[u].logoutPending <=> tabs[u].logoutPending \/ (u = t /\ kind = "logout")
           /\ tabs'[u].submitting <=> tabs[u].submitting \/ (u = t /\ kind = "login")
  PROVE  SessionInv'
<1> DEFINE new == Session!Call(t, kind, with)
<1>1. calls' = calls \cup {new} /\ UNCHANGED <<password, cookie>>
  BY DEF Session!Send
<1>2. new \in CallsOut /\ new.tab = t /\ new.kind = kind /\ new.left = 0
  BY CallTyped DEF Kinds
<1> HIDE DEF new
<1>3. SessionTyped'
  BY <1>1, <1>2 DEF SessionInv, SessionTyped
<1>4. OneOfAKind'
  BY <1>1, <1>2 DEF SessionInv, OneOfAKind, Apart
<1>5. ButtonsHeld'
  <2> SUFFICES ASSUME NEW u \in Tab
               PROVE  /\ tabs'[u].logoutPending <=> \E c \in calls' : c.tab = u /\ c.kind = "logout"
                      /\ tabs'[u].submitting <=> \E c \in calls' : c.tab = u /\ c.kind = "login"
    BY DEF ButtonsHeld
  <2>1. \A k \in Kinds : (\E c \in calls' : c.tab = u /\ c.kind = k)
                         <=> (\E c \in calls : c.tab = u /\ c.kind = k) \/ (u = t /\ k = kind)
    BY <1>1, <1>2
  <2> QED
    BY <2>1 DEF SessionInv, ButtonsHeld, Kinds
<1> QED
  BY <1>3, <1>4, <1>5 DEF SessionInv

(* A change of one tab's record that leaves its buttons alone. *)
LEMMA HandleLoginStep ==
  ASSUME SessionInv, NEW t \in Tab, NEW p \in Password, Session!HandleLogin(t, p)
  PROVE  SessionInv'
<1>1. /\ tabs' = [tabs EXCEPT ![t].submitting = TRUE] /\ Session!Send(t, "login", p)
      /\ ~\E c \in calls : c.tab = t /\ c.kind = "login"
  BY DEF Session!HandleLogin, Session!Out
<1>2. tabs \in [Tab -> TabState]
  BY DEF SessionInv, SessionTyped
<1>3. tabs' \in [Tab -> TabState]
  BY <1>1, <1>2 DEF TabState
<1>4. \A u \in Tab :
        /\ tabs'[u].logoutPending <=> tabs[u].logoutPending \/ (u = t /\ "login" = "logout")
        /\ tabs'[u].submitting <=> tabs[u].submitting \/ (u = t /\ "login" = "login")
  BY <1>1, <1>2 DEF TabState
<1> QED
  BY <1>1, <1>3, <1>4, SentOne DEF Kinds

LEMMA HandleLogoutStep ==
  ASSUME SessionInv, NEW t \in Tab, Session!HandleLogout(t)
  PROVE  SessionInv'
<1>1. /\ tabs' = [tabs EXCEPT ![t].logoutPending = TRUE] /\ Session!Send(t, "logout", None)
      /\ ~tabs[t].logoutPending
  BY DEF Session!HandleLogout
<1>2. tabs \in [Tab -> TabState] /\ ~\E c \in calls : c.tab = t /\ c.kind = "logout"
  BY <1>1 DEF SessionInv, SessionTyped, ButtonsHeld
<1>3. tabs' \in [Tab -> TabState]
  BY <1>1, <1>2 DEF TabState
<1>4. \A u \in Tab :
        /\ tabs'[u].logoutPending <=> tabs[u].logoutPending \/ (u = t /\ "logout" = "logout")
        /\ tabs'[u].submitting <=> tabs[u].submitting \/ (u = t /\ "logout" = "login")
  BY <1>1, <1>2 DEF TabState
<1> QED
  BY <1>1, <1>2, <1>3, <1>4, SentOne DEF Kinds

LEMMA NavigateStep ==
  ASSUME SessionInv, NEW t \in Tab, NEW p \in Page, Session!Navigate(t, p)
  PROVE  SessionInv'
<1>1. /\ tabs' = [tabs EXCEPT ![t].page = p] /\ calls' = Session!Mounted(t, calls, cookie)
      /\ UNCHANGED <<password, cookie>>
  BY DEF Session!Navigate
<1>2. /\ tabs \in [Tab -> TabState] /\ cookie \in Password \cup {None}
      /\ calls \subseteq CallsOut /\ Apart(calls)
  BY DEF SessionInv, SessionTyped, OneOfAKind
<1>3. tabs' \in [Tab -> TabState]
  BY <1>1, <1>2 DEF TabState
<1>4. \A u \in Tab : /\ tabs'[u].logoutPending = tabs[u].logoutPending
                     /\ tabs'[u].submitting = tabs[u].submitting
  BY <1>1, <1>2 DEF TabState
<1>5. /\ calls' \subseteq CallsOut /\ Apart(calls')
      /\ \A u, k : k # "page" => ((\E c \in calls' : c.tab = u /\ c.kind = k)
                                 <=> \E c \in calls : c.tab = u /\ c.kind = k)
  BY <1>1, <1>2, MountedApart
<1>6. SessionTyped'
  BY <1>1, <1>3, <1>5 DEF SessionInv, SessionTyped
<1>7. OneOfAKind'
  BY <1>5 DEF OneOfAKind, Apart
<1>8. ButtonsHeld'
  BY <1>4, <1>5 DEF SessionInv, ButtonsHeld
<1> QED
  BY <1>6, <1>7, <1>8 DEF SessionInv

(* The load the timer begins takes the place of the one before. *)
LEMMA PollStep ==
  ASSUME SessionInv, NEW t \in Tab, Session!Poll(t)
  PROVE  SessionInv'
<1> DEFINE new == Session!Call(t, "page", cookie)
<1>1. /\ calls' = (calls \ Session!OfMount(t)) \cup {new}
      /\ UNCHANGED <<password, cookie, tabs>>
  BY DEF Session!Poll
<1>2. new \in CallsOut /\ new.tab = t /\ new.kind = "page" /\ new.left = 0
  BY CallTyped DEF Kinds, SessionInv, SessionTyped
<1> HIDE DEF new
<1>3. \A c \in calls : c \in Session!OfMount(t) <=> c.tab = t /\ c.kind = "page" /\ c.left = 0
  BY DEF Session!OfMount, Session!Out
<1>4. SessionTyped'
  BY <1>1, <1>2 DEF SessionInv, SessionTyped
<1>5. OneOfAKind'
  BY <1>1, <1>2, <1>3 DEF SessionInv, OneOfAKind, Apart
<1>6. \A u, k : k # "page" => ((\E c \in calls' : c.tab = u /\ c.kind = k)
                              <=> \E c \in calls : c.tab = u /\ c.kind = k)
  BY <1>1, <1>2, <1>3
<1>7. ButtonsHeld'
  <2>1. \A k \in {"login", "logout"} : \A u : ((\E c \in calls' : c.tab = u /\ c.kind = k)
                                            <=> \E c \in calls : c.tab = u /\ c.kind = k)
    BY <1>6
  <2> QED
    BY <1>1, <2>1 DEF SessionInv, ButtonsHeld
<1> QED
  BY <1>4, <1>5, <1>7 DEF SessionInv

(* A tab that is loaded again drops its calls, and holds nothing back. *)
LEMMA ReloadStep ==
  ASSUME SessionInv, NEW t \in Tab, Session!Reload(t)
  PROVE  SessionInv'
<1> DEFINE new == Session!Call(t, "session", cookie)
<1>1. /\ tabs' = [tabs EXCEPT ![t] = Session!Fresh(tabs[t].page)]
      /\ calls' = {c \in calls : c.tab # t} \cup {new} /\ UNCHANGED <<password, cookie>>
  BY DEF Session!Reload
<1>2. /\ tabs \in [Tab -> TabState] /\ tabs[t].page \in Page
      /\ cookie \in Password \cup {None} /\ calls \subseteq CallsOut
  BY DEF SessionInv, SessionTyped, TabState
<1>3. new \in CallsOut /\ new.tab = t /\ new.kind = "session" /\ new.left = 0
  BY <1>2, CallTyped DEF Kinds
<1>4. /\ tabs' \in [Tab -> TabState] /\ ~tabs'[t].logoutPending /\ ~tabs'[t].submitting
      /\ \A u \in Tab : u # t => tabs'[u] = tabs[u]
  BY <1>1, <1>2, FreshTyped
<1> HIDE DEF new
<1>5. SessionTyped'
  BY <1>1, <1>2, <1>3, <1>4 DEF SessionInv, SessionTyped
<1>6. OneOfAKind'
  BY <1>1, <1>3 DEF SessionInv, OneOfAKind, Apart
<1>7. ButtonsHeld'
  <2> SUFFICES ASSUME NEW u \in Tab
               PROVE  /\ tabs'[u].logoutPending <=> \E c \in calls' : c.tab = u /\ c.kind = "logout"
                      /\ tabs'[u].submitting <=> \E c \in calls' : c.tab = u /\ c.kind = "login"
    BY DEF ButtonsHeld
  <2>1. CASE u = t
    BY <1>1, <1>3, <1>4, <2>1
  <2>2. CASE u # t
    <3>1. \A k : (\E c \in calls' : c.tab = u /\ c.kind = k) <=> \E c \in calls : c.tab = u /\ c.kind = k
      BY <1>1, <1>3, <2>2
    <3> QED
      BY <1>4, <2>2, <3>1 DEF SessionInv, ButtonsHeld
  <2> QED
    BY <2>1, <2>2
<1> QED
  BY <1>5, <1>6, <1>7 DEF SessionInv

(* A call that is served or fails is still its tab's, of its kind. *)
LEMMA ReplacedStep ==
  ASSUME SessionInv, NEW c \in calls, NEW how \in {"ok", "error", "unauthorized"}, NEW says \in Sessions,
         Session!Replaced(c, how, says), UNCHANGED <<password, cookie, tabs>>
  PROVE  SessionInv'
<1> DEFINE d == [c EXCEPT !.at = how, !.says = says, !.with = Session!Kept(c, how)]
<1>1. calls' = (calls \ {c}) \cup {d}
  BY DEF Session!Replaced
<1>2. c \in CallsOut
  BY DEF SessionInv, SessionTyped
<1>3. d \in CallsOut /\ d.tab = c.tab /\ d.kind = c.kind /\ d.left = c.left
  <2>1. Session!Kept(c, how) \in Password \cup {None}
    BY <1>2 DEF Session!Kept, CallsOut
  <2> QED
    BY <1>2, <2>1 DEF CallsOut
<1> HIDE DEF d
<1>4. SessionTyped'
  BY <1>1, <1>3 DEF SessionInv, SessionTyped
<1>5. OneOfAKind'
  BY <1>1, <1>3 DEF SessionInv, OneOfAKind, Apart
<1>6. ButtonsHeld'
  <2> SUFFICES ASSUME NEW t \in Tab
               PROVE  /\ tabs[t].logoutPending <=> \E e \in calls' : e.tab = t /\ e.kind = "logout"
                      /\ tabs[t].submitting <=> \E e \in calls' : e.tab = t /\ e.kind = "login"
    BY DEF ButtonsHeld
  <2>1. \A k : (\E e \in calls' : e.tab = t /\ e.kind = k) <=> \E e \in calls : e.tab = t /\ e.kind = k
    BY <1>1, <1>3
  <2> QED
    BY <2>1 DEF SessionInv, ButtonsHeld
<1> QED
  BY <1>4, <1>5, <1>6 DEF SessionInv

LEMMA SessionServed ==
  ASSUME SessionInv, NEW c \in calls, Session!Serve(c)
  PROVE  SessionInv'
<1>1. c.kind \in Kinds
  BY DEF SessionInv, SessionTyped, CallsOut
<1>2. PICK how \in {"ok", "error", "unauthorized"}, says \in Sessions : Session!Replaced(c, how, says)
  <2>1. CASE c.kind = "session"
    <3>1. /\ Session!Replaced(c, "ok", Session!Session(password # None, Session!Authenticated(c.with)))
          /\ Session!Session(password # None, Session!Authenticated(c.with)) \in Sessions
      BY <2>1, SessionsTyped DEF Session!Serve, Session!Authenticated
    <3> QED
      BY <3>1
  <2>2. CASE c.kind = "login"
    BY <2>2, UnknownTyped DEF Session!Serve
  <2>3. CASE c.kind = "logout"
    BY <2>3, UnknownTyped DEF Session!Serve
  <2>4. CASE c.kind = "page"
    BY <2>4, UnknownTyped DEF Session!Serve
  <2> QED
    BY <1>1, <2>1, <2>2, <2>3, <2>4 DEF Kinds
<1> QED
  BY <1>2, ReplacedStep DEF Session!Serve

LEMMA SessionFailed ==
  ASSUME SessionInv, NEW c \in calls, Session!Fail(c)
  PROVE  SessionInv'
BY ReplacedStep, UnknownTyped DEF Session!Fail

(* An answer gives the button of its kind back, and touches no other. *)
LEMMA SessionAnswered ==
  ASSUME SessionInv, NEW c \in calls, Session!Answered(c)
  PROVE  SessionInv'
<1> DEFINE t == c.tab
<1> DEFINE left == calls \ {c}
<1>1. /\ calls' = IF Session!Opens(c) THEN Session!Mounted(t, left, cookie') ELSE left
      /\ password' = password
  BY DEF Session!Answered
<1>2. /\ c \in CallsOut /\ t \in Tab /\ c.says \in Sessions /\ c.with \in Password \cup {None}
      /\ tabs \in [Tab -> TabState] /\ cookie \in Password \cup {None} /\ tabs[t] \in TabState
  BY DEF SessionInv, SessionTyped, CallsOut
<1>3. Session!SignedOut(tabs[t].session) \in Sessions
  BY <1>2, SessionsTyped DEF Session!SignedOut, TabState, Sessions
<1>4. Session!Session(TRUE, TRUE) \in Sessions
  BY SessionsTyped
<1>5. /\ cookie' \in Password \cup {None} /\ tabs' \in [Tab -> TabState]
      /\ \A u \in Tab : u # t => tabs'[u] = tabs[u]
      /\ tabs'[t].logoutPending <=> tabs[t].logoutPending /\ c.kind # "logout"
      /\ tabs'[t].submitting <=> tabs[t].submitting /\ c.kind # "login"
  <2>1. CASE Session!SessionAnswered(c)
    <3> DEFINE s == IF c.at = "ok" THEN c.says ELSE tabs[t].session
    <3>1. tabs' = [tabs EXCEPT ![t] = [@ EXCEPT !.session = s, !.error = (c.at # "ok")]]
      BY <1>2, <2>1 DEF Session!SessionAnswered, Session!ErrorAfter, TabState
    <3>2. s \in Sessions
      BY <1>2 DEF TabState
    <3> HIDE DEF s
    <3> QED
      BY <1>2, <2>1, <3>1, <3>2 DEF Session!SessionAnswered, TabState
  <2>2. CASE Session!LoginAnswered(c)
    <3> DEFINE s == IF c.at = "ok" THEN Session!Session(TRUE, TRUE) ELSE tabs[t].session
    <3>1. tabs' = [tabs EXCEPT ![t] = [@ EXCEPT !.session = s, !.submitting = FALSE]]
      BY <1>2, <2>2 DEF Session!LoginAnswered, TabState
    <3>2. s \in Sessions
      BY <1>2, <1>4 DEF TabState
    <3> HIDE DEF s
    <3> QED
      <4>1. c.kind = "login" /\ cookie' \in Password \cup {None}
        BY <1>2, <2>2 DEF Session!LoginAnswered
      <4>2. /\ tabs'[t] = [tabs[t] EXCEPT !.session = s, !.submitting = FALSE]
            /\ \A u \in Tab : u # t => tabs'[u] = tabs[u]
        BY <1>2, <3>1
      <4>3. tabs'[t] \in TabState /\ tabs' \in [Tab -> TabState]
        BY <1>2, <3>1, <3>2, <4>2 DEF TabState
      <4> QED
        BY <1>2, <4>1, <4>2, <4>3 DEF TabState
  <2>3. CASE Session!LogoutAnswered(c)
    <3> DEFINE s == IF c.at = "ok" THEN Session!SignedOut(tabs[t].session) ELSE tabs[t].session
    <3>1. tabs' = [tabs EXCEPT ![t] = [@ EXCEPT !.session = s, !.logoutPending = FALSE]]
      BY <1>2, <2>3 DEF Session!LogoutAnswered, TabState
    <3>2. s \in Sessions
      BY <1>2, <1>3 DEF TabState
    <3> HIDE DEF s
    <3> QED
      <4>1. c.kind = "logout" /\ cookie' \in Password \cup {None}
        BY <1>2, <2>3 DEF Session!LogoutAnswered
      <4>2. /\ tabs'[t] = [tabs[t] EXCEPT !.session = s, !.logoutPending = FALSE]
            /\ \A u \in Tab : u # t => tabs'[u] = tabs[u]
        BY <1>2, <3>1
      <4>3. tabs'[t] \in TabState /\ tabs' \in [Tab -> TabState]
        BY <1>2, <3>1, <3>2, <4>2 DEF TabState
      <4> QED
        BY <1>2, <4>1, <4>2, <4>3 DEF TabState
  <2>4. CASE Session!PageAnswered(c)
    <3> DEFINE s == IF c.at = "unauthorized" THEN Session!SignedOut(tabs[t].session)
                                             ELSE tabs[t].session
    <3>1. tabs' = [tabs EXCEPT ![t] = [@ EXCEPT !.session = s]]
      BY <1>2, <2>4 DEF Session!PageAnswered, TabState
    <3>2. s \in Sessions
      BY <1>2, <1>3 DEF TabState
    <3> HIDE DEF s
    <3> QED
      BY <1>2, <2>4, <3>1, <3>2 DEF Session!PageAnswered, TabState
  <2> QED
    BY <2>1, <2>2, <2>3, <2>4 DEF Session!Answered
<1>6. left \subseteq CallsOut /\ Apart(left)
  BY DEF SessionInv, SessionTyped, OneOfAKind, Apart
<1>7. /\ calls' \subseteq CallsOut /\ Apart(calls')
      /\ \A u, k : k # "page" => ((\E d \in calls' : d.tab = u /\ d.kind = k)
                                 <=> \E d \in left : d.tab = u /\ d.kind = k)
  <2> HIDE DEF left
  <2>1. CASE Session!Opens(c)
    BY <1>1, <1>2, <1>5, <1>6, <2>1, MountedApart
  <2>2. CASE ~Session!Opens(c)
    BY <1>1, <1>6, <2>2
  <2> QED
    BY <2>1, <2>2
<1>8. SessionTyped'
  BY <1>1, <1>5, <1>7 DEF SessionInv, SessionTyped
<1>9. OneOfAKind'
  BY <1>7 DEF OneOfAKind, Apart
<1>10. ButtonsHeld'
  <2> SUFFICES ASSUME NEW u \in Tab
               PROVE  /\ tabs'[u].logoutPending <=> \E d \in calls' : d.tab = u /\ d.kind = "logout"
                      /\ tabs'[u].submitting <=> \E d \in calls' : d.tab = u /\ d.kind = "login"
    BY DEF ButtonsHeld
  <2>1. \A k : k # "page" => ((\E d \in left : d.tab = u /\ d.kind = k)
                 <=> (\E d \in calls : d.tab = u /\ d.kind = k) /\ (u = t => k # c.kind))
    BY DEF SessionInv, OneOfAKind, Apart
  <2> HIDE DEF left
  <2>2. \A k \in {"login", "logout"} : (\E d \in calls' : d.tab = u /\ d.kind = k)
                 <=> (\E d \in calls : d.tab = u /\ d.kind = k) /\ (u = t => k # c.kind)
    BY <1>7, <2>1
  <2>3. /\ tabs[u].logoutPending <=> \E d \in calls : d.tab = u /\ d.kind = "logout"
        /\ tabs[u].submitting <=> \E d \in calls : d.tab = u /\ d.kind = "login"
    BY DEF SessionInv, ButtonsHeld
  <2>4. /\ tabs'[u].logoutPending <=> tabs[u].logoutPending /\ (u = t => c.kind # "logout")
        /\ tabs'[u].submitting <=> tabs[u].submitting /\ (u = t => c.kind # "login")
    BY <1>5
  <2> HIDE DEF t
  <2> QED
    BY <2>2, <2>3, <2>4
<1> QED
  BY <1>8, <1>9, <1>10 DEF SessionInv

LEMMA SessionStep == SessionInv /\ [Session!Next]_Session!vars => SessionInv'
<1> SUFFICES ASSUME SessionInv, [Session!Next]_Session!vars PROVE SessionInv'
  OBVIOUS
<1>1. CASE Session!Restart
  <2>1. /\ password' \in Password \cup {None} /\ UNCHANGED <<cookie, tabs, calls>>
    BY <1>1 DEF Session!Restart
  <2> QED
    BY <2>1 DEF SessionInv, SessionTyped, OneOfAKind, ButtonsHeld
<1>2. CASE UNCHANGED Session!vars
  BY <1>2 DEF Session!vars, SessionInv, SessionTyped, OneOfAKind, ButtonsHeld
<1> QED
  BY <1>1, <1>2, HandleLoginStep, HandleLogoutStep, NavigateStep, PollStep, ReloadStep,
     SessionServed, SessionFailed, SessionAnswered DEF Session!Next

LEMMA SessionTypeOK == SessionInv => Session!TypeOK
BY DEF SessionInv, SessionTyped, OneOfAKind, Apart, ButtonsHeld, Session!TypeOK, Session!Out

-----------------------------------------------------------------------------
(* The theme of the tabs *)

Theme   == Themes!Theme
Last(e) == e[Len(e)]

ThemeTyped ==
  /\ stored \in Theme \cup {None} /\ scheme \in {"dark", "light"} /\ crossed \in BOOLEAN
  /\ theme \in [Tab -> Theme \cup {None}] /\ class \in [Tab -> {"dark", "light", None}]
  /\ listening \in [Tab -> BOOLEAN] /\ due \in [Tab -> BOOLEAN] /\ notified \in [Tab -> BOOLEAN]
  /\ events \in [Tab -> Seq(Theme)]

ClosedTabsClean ==
  \A t \in Tab : theme[t] = None => class[t] = None /\ events[t] = <<>> /\ ~listening[t] /\ ~due[t]

(* A theme that is not the system's has its class whether or not an event of *)
(* the scheme is on its way: the event then finds no handler.                *)
ClassApplied ==
  \A t \in Tab :
    theme[t] # None /\ ~due[t] =>
      /\ listening[t] <=> theme[t] = "system"
      /\ theme[t] # "system" => class[t] = theme[t]
      /\ theme[t] = "system" /\ ~notified[t] => class[t] = scheme

(* A tab shows the stored theme or is yet to hear of it last. *)
TabsCatchUp ==
  ~crossed =>
    \A t \in Tab :
      theme[t] # None =>
        /\ events[t] = <<>> => theme[t] = Themes!StoredTheme
        /\ events[t] # <<>> => stored = Last(events[t])

ThemeInv == ThemeTyped /\ ClosedTabsClean /\ ClassApplied /\ TabsCatchUp

LEMMA NoneIsNoTheme == None \notin Theme /\ Theme = {"dark", "light", "system"}
BY PagesAssumption DEF Theme, Themes!Theme

LEMMA EmptyIsNoEvents == <<>> \in Seq(Theme)
OBVIOUS

LEMMA LastHeard ==
  ASSUME NEW e \in Seq(Theme), NEW th \in Theme
  PROVE  /\ Append(e, th) \in Seq(Theme) /\ Append(e, th) # <<>> /\ Last(Append(e, th)) = th
         /\ e # <<>> => /\ Head(e) \in Theme /\ Tail(e) \in Seq(Theme)
                        /\ Tail(e) = <<>> => Head(e) = Last(e)
                        /\ Tail(e) # <<>> => Last(Tail(e)) = Last(e)
<1>1. Append(e, th) \in Seq(Theme) /\ Append(e, th) # <<>> /\ Last(Append(e, th)) = th
  BY DEF Last
<1>2. ASSUME e # <<>>
      PROVE  /\ Head(e) \in Theme /\ Tail(e) \in Seq(Theme)
             /\ Tail(e) = <<>> => Head(e) = Last(e)
             /\ Tail(e) # <<>> => Last(Tail(e)) = Last(e)
  <2>1. Len(e) \in Nat /\ Len(e) > 0 /\ Len(Tail(e)) = Len(e) - 1
    BY <1>2
  <2>2. Head(e) \in Theme /\ Tail(e) \in Seq(Theme) /\ Head(e) = e[1]
    BY <1>2
  <2>3. Tail(e) = <<>> => Len(e) = 1
    <3> SUFFICES ASSUME Tail(e) = <<>> PROVE Len(e) = 1
      OBVIOUS
    <3>1. Len(Tail(e)) = 0
      <4>1. Len(<<>>) = 0
        OBVIOUS
      <4> QED
        BY <4>1, Zenon
    <3> QED
      BY <2>1, <3>1
  <2>4. Tail(e) # <<>> => Len(Tail(e)) \in 1..Len(Tail(e)) /\ Len(Tail(e)) + 1 = Len(e)
    BY <2>1, <2>2
  <2>5. \A i \in 1..Len(Tail(e)) : Tail(e)[i] = e[i + 1]
    BY <1>2
  <2> QED
    BY <2>2, <2>3, <2>4, <2>5 DEF Last
<1> QED
  BY <1>1, <1>2

LEMMA ThemeInit == Themes!Init => ThemeInv
<1> SUFFICES ASSUME Themes!Init PROVE ThemeInv
  OBVIOUS
<1>1. /\ stored \in {None, "system", "dark"} /\ scheme \in {"dark", "light"} /\ crossed = FALSE
      /\ theme = [t \in Tab |-> None] /\ class = [t \in Tab |-> None]
      /\ listening = [t \in Tab |-> FALSE] /\ due = [t \in Tab |-> FALSE]
      /\ notified = [t \in Tab |-> FALSE] /\ events = [t \in Tab |-> <<>>]
  BY DEF Themes!Init
<1>2. ThemeTyped
  <2>1. stored \in Theme \cup {None} /\ scheme \in {"dark", "light"} /\ crossed \in BOOLEAN
    BY <1>1, NoneIsNoTheme
  <2>2. theme \in [Tab -> Theme \cup {None}] /\ class \in [Tab -> {"dark", "light", None}]
    BY <1>1
  <2>3. listening \in [Tab -> BOOLEAN] /\ due \in [Tab -> BOOLEAN] /\ notified \in [Tab -> BOOLEAN]
    BY <1>1
  <2>4. events \in [Tab -> Seq(Theme)]
    BY <1>1, EmptyIsNoEvents
  <2> QED
    BY <2>1, <2>2, <2>3, <2>4 DEF ThemeTyped
<1>3. \A t \in Tab : theme[t] = None /\ class[t] = None /\ events[t] = <<>> /\ ~listening[t] /\ ~due[t]
  BY <1>1
<1> QED
  BY <1>2, <1>3 DEF ThemeInv, ClosedTabsClean, ClassApplied, TabsCatchUp

LEMMA OpenTabStep ==
  ASSUME ThemeInv, NEW t \in Tab, Themes!OpenTab(t)
  PROVE  ThemeInv'
<1>1. /\ theme[t] = None /\ theme' = [theme EXCEPT ![t] = Themes!StoredTheme]
      /\ class' = [class EXCEPT ![t] = Themes!FirstClass] /\ due' = [due EXCEPT ![t] = TRUE]
      /\ UNCHANGED <<stored, scheme, listening, notified, events, crossed>>
  BY DEF Themes!OpenTab, Themes!Open
<1>2. ThemeTyped
  BY DEF ThemeInv
<1>3. Themes!StoredTheme \in Theme /\ Themes!StoredTheme' = Themes!StoredTheme
      /\ Themes!FirstClass \in {"dark", "light"}
  BY <1>1, <1>2, NoneIsNoTheme
  DEF ThemeTyped, Themes!StoredTheme, Themes!defaultTheme, Themes!FirstClass, Themes!ResolvedTheme, Theme
<1>4. events[t] = <<>>
  BY <1>1 DEF ThemeInv, ClosedTabsClean
<1>5. ThemeTyped'
  BY <1>1, <1>2, <1>3 DEF ThemeTyped
<1>6. ClosedTabsClean'
  BY <1>1, <1>2, <1>3, NoneIsNoTheme DEF ThemeInv, ThemeTyped, ClosedTabsClean
<1>7. ClassApplied'
  BY <1>1, <1>2 DEF ThemeInv, ThemeTyped, ClassApplied
<1>8. TabsCatchUp'
  BY <1>1, <1>2, <1>3, <1>4 DEF ThemeInv, ThemeTyped, TabsCatchUp
<1> QED
  BY <1>5, <1>6, <1>7, <1>8 DEF ThemeInv

LEMMA CloseTabStep ==
  ASSUME ThemeInv, NEW t \in Tab, Themes!CloseTab(t)
  PROVE  ThemeInv'
<1>1. /\ theme' = [theme EXCEPT ![t] = None] /\ class' = [class EXCEPT ![t] = None]
      /\ listening' = [listening EXCEPT ![t] = FALSE] /\ due' = [due EXCEPT ![t] = FALSE]
      /\ notified' = [notified EXCEPT ![t] = FALSE] /\ events' = [events EXCEPT ![t] = <<>>]
      /\ UNCHANGED <<stored, scheme, crossed>>
  BY DEF Themes!CloseTab
<1>2. ThemeTyped /\ Themes!StoredTheme' = Themes!StoredTheme
  BY <1>1 DEF ThemeInv, Themes!StoredTheme
<1>3. ThemeTyped'
  BY <1>1, <1>2, EmptyIsNoEvents DEF ThemeTyped
<1>4. ClosedTabsClean'
  BY <1>1, <1>2 DEF ThemeInv, ThemeTyped, ClosedTabsClean
<1>5. ClassApplied'
  BY <1>1, <1>2 DEF ThemeInv, ThemeTyped, ClassApplied
<1>6. TabsCatchUp'
  BY <1>1, <1>2 DEF ThemeInv, ThemeTyped, TabsCatchUp
<1> QED
  BY <1>3, <1>4, <1>5, <1>6 DEF ThemeInv

(* A theme that is written in a tab that has heard of everything is the      *)
(* last the other tabs will hear of.                                         *)
LEMMA WrittenStep ==
  ASSUME ThemeInv, NEW t \in Tab, NEW th \in Theme, theme[t] # None,
         Themes!SetItem(t, th), Themes!SetThemeState(t, th),
         UNCHANGED <<scheme, class, listening, notified>>
  PROVE  ThemeInv'
<1>1. /\ stored' = th /\ theme' = [theme EXCEPT ![t] = th]
      /\ due' = [due EXCEPT ![t] = @ \/ th # theme[t]]
  BY DEF Themes!SetItem, Themes!SetThemeState
<1>2. ThemeTyped
  BY DEF ThemeInv
<1>3. Themes!StoredTheme' = th
  BY <1>1 DEF Themes!StoredTheme, Theme
<1>4. /\ events' \in [Tab -> Seq(Theme)] /\ crossed' \in BOOLEAN
      /\ ~crossed' => ~crossed /\ (th # stored => events[t] = <<>>)
      /\ \A u \in Tab : IF th # stored /\ u # t /\ theme[u] # None
                        THEN events'[u] = Append(events[u], th) ELSE events'[u] = events[u]
  <2>1. CASE th = stored
    <3>1. events' = events /\ crossed' = (crossed \/ FALSE)
      BY <2>1 DEF Themes!SetItem
    <3> QED
      BY <1>2, <2>1, <3>1 DEF ThemeTyped
  <2>2. CASE th # stored
    <3>1. /\ events' = [u \in Tab |-> IF u # t /\ theme[u] # None THEN Append(events[u], th) ELSE events[u]]
          /\ crossed' = (crossed \/ events[t] # <<>>)
      BY <2>2 DEF Themes!SetItem, Themes!Open
    <3>2. \A u \in Tab : events[u] \in Seq(Theme) /\ Append(events[u], th) \in Seq(Theme)
      BY <1>2, LastHeard DEF ThemeTyped
    <3> QED
      BY <1>2, <2>2, <3>1, <3>2 DEF ThemeTyped
  <2> QED
    BY <2>1, <2>2
<1>5. ThemeTyped'
  BY <1>1, <1>2, <1>4 DEF ThemeTyped
<1>6. ClosedTabsClean'
  BY <1>1, <1>2, <1>4, NoneIsNoTheme DEF ThemeInv, ThemeTyped, ClosedTabsClean
<1>7. ClassApplied'
  <2> SUFFICES ASSUME NEW u \in Tab, theme'[u] # None, ~due'[u]
               PROVE  /\ listening[u] <=> theme'[u] = "system"
                      /\ theme'[u] # "system" => class[u] = theme'[u]
                      /\ theme'[u] = "system" /\ ~notified[u] => class[u] = scheme
    BY DEF ClassApplied
  <2>1. theme'[u] = theme[u] /\ ~due[u]
    BY <1>1, <1>2 DEF ThemeTyped
  <2> QED
    BY <2>1 DEF ThemeInv, ClassApplied
<1>8. TabsCatchUp'
  <2> SUFFICES ASSUME ~crossed', NEW u \in Tab, theme'[u] # None
               PROVE  /\ events'[u] = <<>> => theme'[u] = th
                      /\ events'[u] # <<>> => th = Last(events'[u])
    BY <1>1, <1>3 DEF TabsCatchUp
  <2>1. /\ ~crossed /\ (th # stored => events[t] = <<>>) /\ theme[t] # None
        /\ theme'[u] = IF u = t THEN th ELSE theme[u]
    BY <1>1, <1>2, <1>4 DEF ThemeTyped
  <2>2. CASE th # stored /\ u # t
    <3>1. events'[u] = Append(events[u], th) /\ events[u] \in Seq(Theme)
      BY <1>2, <1>4, <2>1, <2>2 DEF ThemeTyped
    <3> QED
      BY <3>1, LastHeard
  <2>3. CASE th # stored /\ u = t
    BY <1>4, <2>1, <2>3
  <2>4. CASE th = stored
    <3>1. events'[u] = events[u] /\ theme[u] # None /\ Themes!StoredTheme = th
      BY <1>4, <2>1, <2>4 DEF Themes!StoredTheme, Theme
    <3> QED
      BY <2>1, <2>4, <3>1 DEF ThemeInv, TabsCatchUp
  <2> QED
    BY <2>2, <2>3, <2>4
<1> QED
  BY <1>5, <1>6, <1>7, <1>8 DEF ThemeInv

LEMMA StorageStep ==
  ASSUME ThemeInv, NEW t \in Tab, Themes!HandleStorageChange(t)
  PROVE  ThemeInv'
<1> DEFINE th == Head(events[t])
<1>1. /\ events[t] # <<>> /\ theme' = [theme EXCEPT ![t] = th]
      /\ due' = [due EXCEPT ![t] = @ \/ th # theme[t]] /\ events' = [events EXCEPT ![t] = Tail(@)]
      /\ UNCHANGED <<stored, scheme, class, listening, notified, crossed>>
  BY DEF Themes!HandleStorageChange, Themes!SetThemeState
<1>2. ThemeTyped /\ events[t] \in Seq(Theme)
  BY DEF ThemeInv, ThemeTyped
<1>3. /\ th \in Theme /\ Tail(events[t]) \in Seq(Theme)
      /\ Tail(events[t]) = <<>> => th = Last(events[t])
      /\ Tail(events[t]) # <<>> => Last(Tail(events[t])) = Last(events[t])
  BY <1>1, <1>2, LastHeard
<1>4. theme[t] # None
  BY <1>1 DEF ThemeInv, ClosedTabsClean
<1> HIDE DEF th
<1>5. ThemeTyped'
  BY <1>1, <1>2, <1>3 DEF ThemeTyped
<1>6. ClosedTabsClean'
  BY <1>1, <1>2, <1>3, NoneIsNoTheme DEF ThemeInv, ThemeTyped, ClosedTabsClean
<1>7. ClassApplied'
  <2> SUFFICES ASSUME NEW u \in Tab, theme'[u] # None, ~due'[u]
               PROVE  /\ listening[u] <=> theme'[u] = "system"
                      /\ theme'[u] # "system" => class[u] = theme'[u]
                      /\ theme'[u] = "system" /\ ~notified[u] => class[u] = scheme
    BY <1>1 DEF ClassApplied
  <2>1. theme'[u] = theme[u] /\ ~due[u]
    BY <1>1, <1>2 DEF ThemeTyped
  <2> QED
    BY <2>1 DEF ThemeInv, ClassApplied
<1>8. TabsCatchUp'
  <2> SUFFICES ASSUME ~crossed, NEW u \in Tab, theme'[u] # None
               PROVE  /\ events'[u] = <<>> => theme'[u] = Themes!StoredTheme
                      /\ events'[u] # <<>> => stored = Last(events'[u])
    BY <1>1 DEF TabsCatchUp, Themes!StoredTheme
  <2>1. CASE u = t
    <3>1. stored = Last(events[t]) /\ theme'[u] = th /\ events'[u] = Tail(events[t])
      BY <1>1, <1>2, <1>4, <2>1 DEF ThemeInv, ThemeTyped, TabsCatchUp
    <3> QED
      BY <1>3, <3>1 DEF Themes!StoredTheme, Theme
  <2>2. CASE u # t
    BY <1>1, <1>2, <2>2 DEF ThemeInv, ThemeTyped, TabsCatchUp
  <2> QED
    BY <2>1, <2>2
<1> QED
  BY <1>5, <1>6, <1>7, <1>8 DEF ThemeInv

LEMMA AppliesStep ==
  ASSUME ThemeInv, NEW t \in Tab, Themes!Applies(t)
  PROVE  ThemeInv'
<1>1. /\ due[t] /\ due' = [due EXCEPT ![t] = FALSE]
      /\ class' = [class EXCEPT ![t] = Themes!ResolvedTheme(theme[t])]
      /\ listening' = [listening EXCEPT ![t] = theme[t] = "system"]
      /\ UNCHANGED <<stored, scheme, theme, notified, events, crossed>>
  BY DEF Themes!Applies
<1>2. ThemeTyped /\ theme[t] \in Theme
  BY <1>1 DEF ThemeInv, ThemeTyped, ClosedTabsClean
<1> DEFINE r == Themes!ResolvedTheme(theme[t])
<1>3. r \in {"dark", "light"} /\ r = IF theme[t] = "system" THEN scheme ELSE theme[t]
  BY <1>2, NoneIsNoTheme DEF ThemeTyped, Themes!ResolvedTheme
<1> HIDE DEF r
<1>4. class' = [class EXCEPT ![t] = r]
  BY <1>1 DEF r
<1>5. ThemeTyped'
  BY <1>1, <1>2, <1>3, <1>4 DEF ThemeTyped
<1>6. ClosedTabsClean'
  BY <1>1, <1>2, <1>4, NoneIsNoTheme DEF ThemeInv, ThemeTyped, ClosedTabsClean
<1>7. ClassApplied'
  <2> SUFFICES ASSUME NEW u \in Tab, theme[u] # None, ~due'[u]
               PROVE  /\ listening'[u] <=> theme[u] = "system"
                      /\ theme[u] # "system" => class'[u] = theme[u]
                      /\ theme[u] = "system" /\ ~notified[u] => class'[u] = scheme
    BY <1>1 DEF ClassApplied
  <2>1. CASE u = t
    <3>1. listening'[u] = (theme[u] = "system") /\ class'[u] = r
      BY <1>1, <1>2, <1>4, <2>1 DEF ThemeTyped
    <3> QED
      BY <1>3, <2>1, <3>1
  <2>2. CASE u # t
    <3>1. listening'[u] = listening[u] /\ class'[u] = class[u] /\ ~due[u]
      BY <1>1, <1>2, <1>4, <2>2 DEF ThemeTyped
    <3> QED
      BY <3>1 DEF ThemeInv, ClassApplied
  <2> QED
    BY <2>1, <2>2
<1>8. TabsCatchUp'
  BY <1>1 DEF ThemeInv, TabsCatchUp, Themes!StoredTheme
<1> QED
  BY <1>5, <1>6, <1>7, <1>8 DEF ThemeInv

LEMMA SchemeStep ==
  ASSUME ThemeInv, Themes!SchemeChanges
  PROVE  ThemeInv'
<1>1. /\ scheme' \in {"dark", "light"} /\ notified' = [t \in Tab |-> theme[t] # None]
      /\ UNCHANGED <<stored, theme, class, listening, due, events, crossed>>
  BY DEF Themes!SchemeChanges, Themes!Open
<1>2. ThemeTyped
  BY DEF ThemeInv
<1>3. ThemeTyped'
  <2>1. notified' \in [Tab -> BOOLEAN]
    BY <1>1
  <2> QED
    BY <1>1, <1>2, <2>1 DEF ThemeTyped
<1>4. ClosedTabsClean' /\ TabsCatchUp'
  BY <1>1 DEF ThemeInv, ClosedTabsClean, TabsCatchUp, Themes!StoredTheme
<1>5. ClassApplied'
  BY <1>1 DEF ThemeInv, ClassApplied
<1> QED
  BY <1>3, <1>4, <1>5 DEF ThemeInv

LEMMA ChangeStep ==
  ASSUME ThemeInv, NEW t \in Tab, Themes!HandleChange(t)
  PROVE  ThemeInv'
<1>1. /\ notified' = [notified EXCEPT ![t] = FALSE]
      /\ class' = IF listening[t] THEN [class EXCEPT ![t] = scheme] ELSE class
      /\ UNCHANGED <<stored, scheme, theme, listening, due, events, crossed>>
  BY DEF Themes!HandleChange, Themes!ResolvedTheme
<1>2. ThemeTyped
  BY DEF ThemeInv
<1>3. ThemeTyped'
  BY <1>1, <1>2 DEF ThemeTyped
<1>4. ClosedTabsClean'
  BY <1>1, <1>2 DEF ThemeInv, ThemeTyped, ClosedTabsClean
<1>5. ClassApplied'
  <2> SUFFICES ASSUME NEW u \in Tab, theme[u] # None, ~due[u]
               PROVE  /\ listening[u] <=> theme[u] = "system"
                      /\ theme[u] # "system" => class'[u] = theme[u]
                      /\ theme[u] = "system" /\ ~notified'[u] => class'[u] = scheme
    BY <1>1 DEF ClassApplied
  <2>1. CASE u = t
    <3>1. class'[u] = IF listening[u] THEN scheme ELSE class[u]
      BY <1>1, <1>2, <2>1 DEF ThemeTyped
    <3> QED
      BY <3>1 DEF ThemeInv, ClassApplied
  <2>2. CASE u # t
    <3>1. class'[u] = class[u] /\ notified'[u] = notified[u]
      BY <1>1, <1>2, <2>2 DEF ThemeTyped
    <3> QED
      BY <3>1 DEF ThemeInv, ClassApplied
  <2> QED
    BY <2>1, <2>2
<1>6. TabsCatchUp'
  BY <1>1 DEF ThemeInv, TabsCatchUp, Themes!StoredTheme
<1> QED
  BY <1>3, <1>4, <1>5, <1>6 DEF ThemeInv

LEMMA ThemeStep == ThemeInv /\ [Themes!Next]_Themes!vars => ThemeInv'
<1> SUFFICES ASSUME ThemeInv, [Themes!Next]_Themes!vars PROVE ThemeInv'
  OBVIOUS
<1>1. CASE UNCHANGED Themes!vars
  BY <1>1 DEF Themes!vars, Themes!page, ThemeInv, ThemeTyped, ClosedTabsClean, ClassApplied,
     TabsCatchUp, Themes!StoredTheme
<1>2. ASSUME NEW t \in Tab, NEW th \in Themes!Theme, Themes!SetTheme(t, th) PROVE ThemeInv'
  BY <1>2, WrittenStep DEF Themes!SetTheme, Themes!Open, Theme
<1>3. ASSUME NEW t \in Tab, NEW press \in Themes!Press, Themes!HandleKeyDown(t, press)
      PROVE  ThemeInv'
  <2>1. Themes!Toggled(theme[t]) \in Theme
    BY NoneIsNoTheme DEF Themes!Toggled
  <2> QED
    BY <1>3, <2>1, WrittenStep DEF Themes!HandleKeyDown, Themes!Open
<1> QED
  BY <1>1, <1>2, <1>3, OpenTabStep, CloseTabStep, StorageStep, AppliesStep, SchemeStep, ChangeStep
  DEF Themes!Next

LEMMA ThemesHold == ThemeInv => Themes!TypeOK /\ Themes!ClassFollowsTheme /\ Themes!TabsAgree
<1> SUFFICES ASSUME ThemeInv
             PROVE  Themes!TypeOK /\ Themes!ClassFollowsTheme /\ Themes!TabsAgree
  OBVIOUS
<1>1. Themes!TypeOK
  BY DEF ThemeInv, ThemeTyped, ClosedTabsClean, Themes!TypeOK, Themes!Open, Theme
<1>2. Themes!ClassFollowsTheme
  BY DEF ThemeInv, ClassApplied, Themes!ClassFollowsTheme, Themes!Open, Themes!ResolvedTheme
<1>3. Themes!TabsAgree
  BY DEF ThemeInv, TabsCatchUp, Themes!TabsAgree, Themes!Open
<1> QED
  BY <1>1, <1>2, <1>3

-----------------------------------------------------------------------------
(* What is told of a request *)

Times  == Nat \cup {None}
Usages == [Count -> Nat]
Status == 200..599

CallStates == [method : {"POST", "GET"}, relayed : BOOLEAN, firstChunk : Times, firstToken : Times]

LogRows ==
  [channel : Channel, failoverFrom : {None}, originalRoute : {None}, retryAttempt : {0},
   created : Nat, status : Status \cup {None}, truncation : {None, "size_limit"},
   firstChunk : Times, firstToken : Times, completed : Times, usage : Usages, told : Status]

(* The times that a row or the call under way has, between two moments.      *)
InOrder(from, t, to) ==
  /\ t.firstChunk # None => from <= t.firstChunk /\ t.firstChunk <= to
  /\ t.firstToken # None => /\ t.firstChunk # None /\ t.firstChunk <= t.firstToken
                            /\ t.firstToken <= to

(* A row that runs has nothing of its response; one that is done has its     *)
(* times in order, the client's status, and the counts of its provider.      *)
Running(r) ==
  r.completed = None /\ r.status = None /\ r.firstChunk = None /\ r.firstToken = None
  /\ r.truncation = None /\ r.usage.output = 0

Ended(r) ==
  r.completed # None /\ r.status = r.told /\ r.created <= r.completed /\ InOrder(r.created, r, r.completed)

RowTold(r) ==
  /\ Running(r) \/ Ended(r)
  /\ TypeOf[r.channel] = "anthropic" => r.usage.cached = 0

RowsTold == \A i \in DOMAIN log : RowTold(log[i]) /\ log[i].created <= now

CallTold ==
  call # None =>
    IF call.relayed
    THEN log # <<>> /\ log[Len(log)].completed = None /\ InOrder(log[Len(log)].created, call, now)
    ELSE Len(log) < MaxRequests /\ call.firstChunk = None /\ call.firstToken = None

CountedDone == counted \subseteq {i \in DOMAIN log : log[i].completed # None}

ViewsTyped ==
  /\ now \in 0..MaxTime /\ log \in Seq(LogRows) /\ Len(log) <= MaxRequests
  /\ call \in CallStates \cup {None}

ViewsInv == ViewsTyped /\ RowsTold /\ CallTold /\ CountedDone

LEMMA NoUsageTyped == Views!NoUsage \in Usages /\ \A f \in Count : Views!NoUsage[f] = 0
BY DEF Views!NoUsage, Usages, Count

LEMMA ViewsInit == Views!Init => ViewsInv
<1> SUFFICES ASSUME Views!Init PROVE ViewsInv
  OBVIOUS
<1>1. now = 0 /\ call = None /\ log = <<>> /\ counted = {}
  BY DEF Views!Init
<1>2. Len(log) = 0 /\ log \in Seq(LogRows) /\ DOMAIN log = {}
  BY <1>1
<1>3. ViewsTyped
  BY <1>1, <1>2, TimesAssumption DEF ViewsTyped
<1> QED
  BY <1>1, <1>2, <1>3 DEF ViewsInv, RowsTold, CallTold, CountedDone

LEMMA ArriveStep ==
  ASSUME ViewsInv, NEW method \in {"POST", "GET"}, Views!Arrive(method)
  PROVE  ViewsInv'
<1> DEFINE new == [method |-> method, relayed |-> FALSE, firstChunk |-> None, firstToken |-> None]
<1>1. call' = new /\ Len(log) < MaxRequests /\ UNCHANGED <<now, log, counted>>
  BY DEF Views!Arrive
<1>2. new \in CallStates /\ ~new.relayed /\ new.firstChunk = None /\ new.firstToken = None
  BY DEF CallStates, Times
<1> HIDE DEF new
<1>3. ViewsTyped' /\ CallTold'
  BY <1>1, <1>2 DEF ViewsInv, ViewsTyped, CallTold
<1>4. RowsTold' /\ CountedDone'
  BY <1>1 DEF ViewsInv, RowsTold, RowTold, CountedDone
<1> QED
  BY <1>3, <1>4 DEF ViewsInv

LEMMA TerminalStep == ViewsInv /\ Views!WriteTerminalError => ViewsInv'
<1> SUFFICES ASSUME ViewsInv, Views!WriteTerminalError PROVE ViewsInv'
  OBVIOUS
<1>1. call' = None /\ UNCHANGED <<now, log, counted>>
  BY DEF Views!WriteTerminalError
<1> QED
  BY <1>1 DEF ViewsInv, ViewsTyped, RowsTold, RowTold, CallTold, CountedDone

LEMMA OutcomeTyped ==
  ASSUME NEW type \in {"openai", "anthropic"}, NEW o \in Outcome[type]
  PROVE  /\ o.status \in Status /\ o.truncated \in BOOLEAN /\ o.usage \in Usages
         /\ type = "anthropic" => o.usage.cached = 0
<1>1. /\ o.status \in Status /\ o.truncated \in BOOLEAN /\ IsUsage(o.usage)
      /\ type = "anthropic" => o.usage.cached = 0
  BY OutcomeAssumption DEF Status, Type
<1>2. o.usage \in Usages
  BY <1>1 DEF IsUsage, Usages
<1> QED
  BY <1>1, <1>2

(* The row of a request that an upstream answers. *)
LEMMA StreamStep ==
  ASSUME ViewsInv, NEW c \in Channel, NEW status \in Status, Views!StreamResponse(c, status)
  PROVE  ViewsInv'
<1> DEFINE r == Views!RecordRequest(c, status)
<1>1. /\ call # None /\ ~call.relayed /\ log' = Append(log, r) /\ UNCHANGED <<now, counted>>
      /\ call' = IF call.method = "POST" THEN [call EXCEPT !.relayed = TRUE] ELSE None
  BY DEF Views!StreamResponse
<1>2. /\ log \in Seq(LogRows) /\ now \in Nat /\ now <= MaxTime /\ call \in CallStates
      /\ Len(log) < MaxRequests /\ Len(log) \in Nat /\ MaxRequests \in Nat
  BY <1>1, TimesAssumption DEF ViewsInv, ViewsTyped, CallTold
<1>3. /\ r \in LogRows /\ Running(r) /\ r.created = now /\ RowTold(r) /\ r.completed = None
  <2>1. /\ r.failoverFrom = None /\ r.originalRoute = None /\ r.retryAttempt = 0 /\ r.channel = c
        /\ r.created = now /\ r.status = None /\ r.truncation = None /\ r.firstChunk = None
        /\ r.firstToken = None /\ r.completed = None /\ r.usage = Views!NoUsage /\ r.told = status
    BY DEF Views!RecordRequest
  <2>2. r \in LogRows
    BY <1>2, NoUsageTyped DEF Views!RecordRequest, LogRows, Times
  <2>3. r.usage.output = 0 /\ r.usage.cached = 0
    BY <2>1, NoUsageTyped DEF Count
  <2> QED
    BY <1>2, <2>1, <2>2, <2>3 DEF Running, RowTold
<1> HIDE DEF r
<1>4. /\ log' \in Seq(LogRows) /\ Len(log') = Len(log) + 1 /\ log'[Len(log')] = r
      /\ \A i \in DOMAIN log : i \in DOMAIN log' /\ log'[i] = log[i]
      /\ \A i \in DOMAIN log' : i \in DOMAIN log \/ i = Len(log')
  BY <1>1, <1>2, <1>3
<1>5. ViewsTyped'
  <2>1. call' \in CallStates \cup {None}
    BY <1>1, <1>2 DEF CallStates
  <2> QED
    BY <1>1, <1>2, <1>4, <2>1 DEF ViewsInv, ViewsTyped
<1>6. RowsTold'
  <2> SUFFICES ASSUME NEW i \in DOMAIN log' PROVE RowTold(log'[i]) /\ log'[i].created <= now
    BY <1>1 DEF RowsTold
  <2>1. CASE i \in DOMAIN log
    BY <1>4, <2>1 DEF ViewsInv, RowsTold
  <2>2. CASE i = Len(log')
    BY <1>2, <1>3, <1>4, <2>2
  <2> QED
    BY <1>4, <2>1, <2>2
<1>7. CallTold'
  <2> SUFFICES ASSUME call' # None
               PROVE  /\ call'.relayed /\ log' # <<>> /\ log'[Len(log')].completed = None
                      /\ InOrder(log'[Len(log')].created, call', now)
    BY <1>1 DEF CallTold
  <2>1. call' = [call EXCEPT !.relayed = TRUE]
    BY <1>1
  <2>2. call'.relayed /\ call'.firstChunk = call.firstChunk /\ call'.firstToken = call.firstToken
    BY <1>2, <2>1 DEF CallStates
  <2> QED
    BY <1>1, <1>2, <1>3, <1>4, <2>2 DEF ViewsInv, CallTold, InOrder
<1>8. CountedDone'
  BY <1>1, <1>4 DEF ViewsInv, CountedDone
<1> QED
  BY <1>5, <1>6, <1>7, <1>8 DEF ViewsInv

LEMMA NewestRow ==
  ASSUME ViewsInv, Views!Relaying
  PROVE  /\ Len(log) \in DOMAIN log /\ log[Len(log)] \in LogRows
         /\ log[Len(log)].completed = None /\ Running(log[Len(log)])
         /\ call \in CallStates /\ call.relayed
         /\ InOrder(log[Len(log)].created, call, now) /\ log[Len(log)].created <= now
<1>1. call # None /\ call.relayed /\ log \in Seq(LogRows) /\ log # <<>> /\ call \in CallStates
      /\ log[Len(log)].completed = None /\ InOrder(log[Len(log)].created, call, now)
  BY DEF Views!Relaying, ViewsInv, ViewsTyped, CallTold
<1>2. Len(log) \in DOMAIN log /\ log[Len(log)] \in LogRows
  BY <1>1
<1>3. RowTold(log[Len(log)])
  BY <1>2 DEF ViewsInv, RowsTold
<1>4. Running(log[Len(log)]) /\ log[Len(log)].created <= now
  BY <1>1, <1>2, <1>3 DEF RowTold, Ended, ViewsInv, RowsTold
<1> QED
  BY <1>1, <1>2, <1>4

LEMMA ChunkStep ==
  ASSUME ViewsInv, NEW text \in BOOLEAN, Views!ObserveChunk(text)
  PROVE  ViewsInv'
<1>1. /\ Views!Relaying /\ UNCHANGED <<now, log, counted>>
      /\ call' = [call EXCEPT !.firstChunk = IF @ = None THEN now ELSE @,
                              !.firstToken = IF @ = None /\ text THEN now ELSE @]
  BY DEF Views!ObserveChunk
<1>2. /\ call \in CallStates /\ call.relayed /\ log # <<>> /\ log[Len(log)].completed = None
      /\ InOrder(log[Len(log)].created, call, now) /\ log[Len(log)].created <= now
      /\ log[Len(log)].created \in Nat
  BY <1>1, NewestRow DEF LogRows, ViewsInv, CallTold, Views!Relaying
<1>3. now \in Nat /\ None \notin Nat
  BY TimesAssumption DEF ViewsInv, ViewsTyped
<1>4. /\ call'.firstChunk = IF call.firstChunk = None THEN now ELSE call.firstChunk
      /\ call'.firstToken = IF call.firstToken = None /\ text THEN now ELSE call.firstToken
      /\ call'.relayed /\ call' \in CallStates
  BY <1>1, <1>2, <1>3 DEF CallStates, Times
<1>5. call.firstChunk \in Times /\ call.firstToken \in Times
  BY <1>2 DEF CallStates
<1>6. InOrder(log[Len(log)].created, call', now)
  BY <1>2, <1>3, <1>4, <1>5 DEF InOrder, Times
<1>7. ViewsTyped' /\ CallTold'
  BY <1>1, <1>2, <1>4, <1>6 DEF ViewsInv, ViewsTyped, CallTold
<1>8. RowsTold' /\ CountedDone'
  BY <1>1 DEF ViewsInv, RowsTold, RowTold, CountedDone
<1> QED
  BY <1>7, <1>8 DEF ViewsInv

(* The second write of a row, which takes the times of the call. *)
LEMMA RecordStep ==
  ASSUME ViewsInv, NEW o \in Views!Outcomes, Views!RecordResponse(o)
  PROVE  ViewsInv'
<1> DEFINE old == log[Len(log)]
           r   == Views!Observed(old, o)
<1>1. /\ Views!Relaying /\ call' = None /\ UNCHANGED <<now, counted>>
      /\ o \in Outcome[TypeOf[old.channel]] /\ o.status = old.told
      /\ log' = [log EXCEPT ![Len(log)] = r] \/ log' = log
  BY DEF Views!RecordResponse
<1>2. /\ Len(log) \in DOMAIN log /\ old \in LogRows /\ old.completed = None
      /\ call \in CallStates /\ InOrder(old.created, call, now) /\ old.created <= now
  BY <1>1, NewestRow
<1>3. now \in Nat /\ None \notin Nat /\ log \in Seq(LogRows)
  BY TimesAssumption DEF ViewsInv, ViewsTyped
<1>4. /\ o.truncated \in BOOLEAN /\ o.usage \in Usages
      /\ TypeOf[old.channel] = "anthropic" => o.usage.cached = 0
  BY <1>1, <1>2, OutcomeTyped, OutcomeAssumption DEF LogRows, Type
<1>5. /\ r \in LogRows /\ r.channel = old.channel /\ r.created = old.created /\ r.told = old.told
      /\ r.status = old.told /\ r.usage = o.usage /\ r.completed = now
      /\ r.firstChunk = call.firstChunk /\ r.firstToken = call.firstToken
  <2> DEFINE cut == IF o.truncated THEN "size_limit" ELSE None
  <2>1. /\ call.firstChunk \in Times /\ call.firstToken \in Times /\ now \in Times
        /\ old.told \in Status /\ cut \in {None, "size_limit"}
    BY <1>2, <1>3, <1>4 DEF CallStates, LogRows, Times
  <2>2. r = [old EXCEPT !.status = old.told, !.usage = o.usage, !.truncation = cut,
                        !.firstChunk = call.firstChunk, !.firstToken = call.firstToken,
                        !.completed = now]
    BY DEF Views!Observed
  <2> HIDE DEF old, r, cut
  <2> QED
    BY <1>2, <1>4, <2>1, <2>2 DEF LogRows
<1> HIDE DEF r, old
<1>6. RowTold(r) /\ r.completed # None
  BY <1>2, <1>3, <1>4, <1>5 DEF RowTold, Ended, InOrder
<1>7. CASE log' = log
  BY <1>1, <1>7 DEF ViewsInv, ViewsTyped, RowsTold, RowTold, CallTold, CountedDone
<1>8. CASE log' = [log EXCEPT ![Len(log)] = r]
  <2>1. /\ log' \in Seq(LogRows) /\ Len(log') = Len(log) /\ DOMAIN log' = DOMAIN log
        /\ \A i \in DOMAIN log : log'[i] = IF i = Len(log) THEN r ELSE log[i]
    BY <1>2, <1>3, <1>5, <1>8
  <2>2. ViewsTyped'
    BY <1>1, <2>1 DEF ViewsInv, ViewsTyped
  <2>3. RowsTold'
    <3> SUFFICES ASSUME NEW i \in DOMAIN log PROVE RowTold(log'[i]) /\ log'[i].created <= now
      BY <1>1, <2>1 DEF RowsTold
    <3> QED
      BY <1>2, <1>5, <1>6, <2>1 DEF ViewsInv, RowsTold
  <2>4. CallTold'
    BY <1>1 DEF CallTold
  <2>5. CountedDone'
    BY <1>1, <1>6, <2>1 DEF ViewsInv, CountedDone
  <2> QED
    BY <2>2, <2>3, <2>4, <2>5 DEF ViewsInv
<1> QED
  BY <1>1, <1>7, <1>8

LEMMA RollUpStep == ViewsInv /\ Views!RollUp => ViewsInv'
<1> SUFFICES ASSUME ViewsInv, Views!RollUp PROVE ViewsInv'
  OBVIOUS
<1>1. /\ counted' = counted \cup {i \in DOMAIN log \ counted : log[i].completed # None}
      /\ UNCHANGED <<now, call, log>>
  BY DEF Views!RollUp
<1>2. ViewsTyped' /\ RowsTold' /\ CallTold'
  BY <1>1 DEF ViewsInv, ViewsTyped, RowsTold, RowTold, CallTold
<1>3. CountedDone'
  BY <1>1 DEF ViewsInv, CountedDone
<1> QED
  BY <1>2, <1>3 DEF ViewsInv

LEMMA ClockStep == ViewsInv /\ Views!Clock => ViewsInv'
<1> SUFFICES ASSUME ViewsInv, Views!Clock PROVE ViewsInv'
  OBVIOUS
<1>1. now < MaxTime /\ now' = now + 1 /\ UNCHANGED <<call, log, counted>>
  BY DEF Views!Clock
<1>2. now \in Nat /\ MaxTime \in Nat /\ log \in Seq(LogRows) /\ call \in CallStates \cup {None}
  BY TimesAssumption DEF ViewsInv, ViewsTyped
<1>3. ViewsTyped'
  BY <1>1, <1>2 DEF ViewsInv, ViewsTyped
<1>4. RowsTold'
  <2> SUFFICES ASSUME NEW i \in DOMAIN log PROVE RowTold(log[i]) /\ log[i].created <= now'
    BY <1>1 DEF RowsTold
  <2>1. RowTold(log[i]) /\ log[i].created <= now
    BY DEF ViewsInv, RowsTold
  <2>2. log[i] \in LogRows
    BY <1>2
  <2> QED
    BY <1>1, <1>2, <2>1, <2>2 DEF LogRows
<1>5. CallTold'
  <2>1. CASE call # None /\ call.relayed
    <3>1. /\ InOrder(log[Len(log)].created, call, now) /\ log # <<>>
          /\ log[Len(log)].completed = None
      BY <2>1 DEF ViewsInv, CallTold
    <3>2. call.firstChunk \in Times /\ call.firstToken \in Times
      BY <1>2, <2>1 DEF CallStates
    <3>3. InOrder(log[Len(log)].created, call, now')
      BY <1>1, <1>2, <3>1, <3>2 DEF InOrder, Times
    <3> QED
      BY <1>1, <2>1, <3>1, <3>3 DEF CallTold
  <2>2. CASE ~(call # None /\ call.relayed)
    BY <1>1, <2>2 DEF ViewsInv, CallTold
  <2> QED
    BY <2>1, <2>2
<1>6. CountedDone'
  BY <1>1 DEF ViewsInv, CountedDone
<1> QED
  BY <1>3, <1>4, <1>5, <1>6 DEF ViewsInv

LEMMA ViewsStep == ViewsInv /\ [Views!Next]_Views!vars => ViewsInv'
<1> SUFFICES ASSUME ViewsInv, [Views!Next]_Views!vars PROVE ViewsInv'
  OBVIOUS
<1>1. CASE UNCHANGED Views!vars
  BY <1>1 DEF Views!vars, ViewsInv, ViewsTyped, RowsTold, RowTold, CallTold, CountedDone
<1>2. ASSUME NEW c \in Channel, NEW o \in Views!Outcomes, Views!StreamResponse(c, o.status)
      PROVE  ViewsInv'
  <2>1. PICK type \in {"openai", "anthropic"} : o \in Outcome[type]
    BY OutcomeAssumption DEF Views!Outcomes, Type
  <2> QED
    BY <1>2, <2>1, OutcomeTyped, StreamStep
<1> QED
  BY <1>1, <1>2, ArriveStep, TerminalStep, ChunkStep, RecordStep, RollUpStep, ClockStep
  DEF Views!Next

(* What a row of the log has, as it is shown. *)
LEMMA RowTyped ==
  ASSUME ViewsInv, NEW i \in DOMAIN log
  PROVE  /\ log[i] \in LogRows /\ RowTold(log[i]) /\ log[i].usage \in Usages
         /\ \A f \in Count : log[i].usage[f] \in Nat
         /\ TypeOf[log[i].channel] \in {"openai", "anthropic"}
         /\ log[i].channel \in Channel /\ log[i].created \in 0..now
<1>1. log[i] \in LogRows /\ now \in Nat
  BY TimesAssumption DEF ViewsInv, ViewsTyped
<1>2. RowTold(log[i]) /\ log[i].created <= now
  BY DEF ViewsInv, RowsTold
<1>3. log[i].usage \in Usages /\ log[i].channel \in Channel /\ log[i].created \in Nat
  BY <1>1 DEF LogRows
<1>4. \A f \in Count : log[i].usage[f] \in Nat
  BY <1>3 DEF Usages
<1> QED
  BY <1>1, <1>2, <1>3, <1>4, OutcomeAssumption DEF Type

LEMMA TimesTyped ==
  ASSUME NEW r \in LogRows
  PROVE  /\ r.firstChunk \in Times /\ r.firstToken \in Times /\ r.completed \in Times
         /\ r.created \in Nat
BY DEF LogRows

LEMMA ViewsTypeOK == ViewsInv => Views!TypeOK
<1> SUFFICES ASSUME ViewsInv PROVE Views!TypeOK
  OBVIOUS
<1>1. \A i \in DOMAIN log : log[i].channel \in Channel /\ log[i].created \in 0..now
  BY RowTyped
<1> QED
  BY <1>1 DEF ViewsInv, ViewsTyped, CountedDone, Views!TypeOK, Views!Done, Views!Shown

(* The times as they are shown: zero for one that there is not. *)
LEMMA ShownTimes ==
  ASSUME NEW r \in LogRows, Ended(r)
  PROVE  LET t == Views!TimingRows(r)
         IN /\ t.firstChunk = IF r.firstChunk = None THEN 0 ELSE r.firstChunk - r.created
            /\ t.firstToken = IF r.firstToken = None THEN 0 ELSE r.firstToken - r.created
            /\ t.duration = r.completed - r.created
            /\ t.generation = IF r.firstToken = None THEN 0 ELSE r.completed - r.firstToken
<1>1. /\ r.firstChunk \in Times /\ r.firstToken \in Times /\ r.completed \in Times
      /\ r.created \in Nat /\ None \notin Nat
  BY TimesTyped, TimesAssumption
<1>2. \A x \in Nat, t \in Times : t # None /\ x <= t =>
        Views!FormatDuration(Views!DeltaMs(x, t)) = t - x
  <2> SUFFICES ASSUME NEW x \in Nat, NEW t \in Nat, x <= t
               PROVE  Views!FormatDuration(Views!DeltaMs(x, t)) = t - x
    BY DEF Times
  <2>1. Views!DeltaMs(x, t) = t - x
    BY <1>1 DEF Views!DeltaMs
  <2>2. t - x # None
    BY <1>1
  <2> QED
    BY <2>1, <2>2 DEF Views!FormatDuration
<1>3. \A x, y \in Times : x = None \/ y = None => Views!FormatDuration(Views!DeltaMs(x, y)) = 0
  BY DEF Views!FormatDuration, Views!DeltaMs
<1>4. LET t == Views!TimingRows(r)
      IN /\ t.firstChunk = Views!FormatDuration(Views!DeltaMs(r.created, r.firstChunk))
         /\ t.firstToken = Views!FormatDuration(Views!DeltaMs(r.created, r.firstToken))
         /\ t.duration = Views!FormatDuration(Views!DeltaMs(r.created, r.completed))
         /\ t.generation = Views!FormatDuration(Views!DeltaMs(r.firstToken, r.completed))
  BY DEF Views!TimingRows, Views!Timing
<1>5. /\ r.completed # None /\ r.created <= r.completed
      /\ r.firstChunk # None => r.created <= r.firstChunk
      /\ r.firstToken # None => r.created <= r.firstToken /\ r.firstToken <= r.completed
  BY <1>1 DEF Ended, InOrder, Times
<1>6. r.created \in Times
  BY <1>1 DEF Times
<1>7. Views!TimingRows(r).firstChunk = IF r.firstChunk = None THEN 0 ELSE r.firstChunk - r.created
  BY <1>1, <1>2, <1>3, <1>4, <1>5, <1>6
<1>8. Views!TimingRows(r).firstToken = IF r.firstToken = None THEN 0 ELSE r.firstToken - r.created
  BY <1>1, <1>2, <1>3, <1>4, <1>5, <1>6
<1>9. Views!TimingRows(r).duration = r.completed - r.created
  BY <1>1, <1>2, <1>4, <1>5
<1>10. Views!TimingRows(r).generation = IF r.firstToken = None THEN 0 ELSE r.completed - r.firstToken
  <2>1. CASE r.firstToken = None
    BY <1>1, <1>3, <1>4, <2>1
  <2>2. CASE r.firstToken # None
    <3>1. r.firstToken \in Nat
      BY <1>1, <2>2 DEF Times
    <3> QED
      BY <1>1, <1>2, <1>4, <1>5, <2>2, <3>1
  <2> QED
    BY <2>1, <2>2
<1> QED
  BY <1>7, <1>8, <1>9, <1>10

LEMMA TimesHold == ViewsInv => Views!TimesAddUp
<1> SUFFICES ASSUME ViewsInv, NEW i \in DOMAIN log, log[i].completed # None
             PROVE  LET t == Views!TimingRows(log[i])
                    IN /\ t.firstChunk \in 0..t.duration
                       /\ log[i].firstToken # None =>
                            t.firstChunk <= t.firstToken /\ t.firstToken + t.generation = t.duration
  BY DEF Views!TimesAddUp, Views!Done, Views!Shown
<1> DEFINE r == log[i]
<1>1. r \in LogRows /\ Ended(r)
  BY RowTyped DEF RowTold, Running
<1> HIDE DEF r
<1>2. /\ r.firstChunk \in Times /\ r.firstToken \in Times /\ r.completed \in Times
      /\ r.created \in Nat /\ None \notin Nat
  BY <1>1, TimesTyped, TimesAssumption
<1>3. /\ r.completed # None /\ r.created <= r.completed
      /\ r.firstChunk # None => r.created <= r.firstChunk /\ r.firstChunk <= r.completed
      /\ r.firstToken # None => /\ r.firstChunk # None /\ r.firstChunk <= r.firstToken
                                /\ r.firstToken <= r.completed
  BY <1>1 DEF Ended, InOrder
<1> DEFINE t == Views!TimingRows(r)
<1>4. /\ t.firstChunk = IF r.firstChunk = None THEN 0 ELSE r.firstChunk - r.created
      /\ t.firstToken = IF r.firstToken = None THEN 0 ELSE r.firstToken - r.created
      /\ t.duration = r.completed - r.created
      /\ t.generation = IF r.firstToken = None THEN 0 ELSE r.completed - r.firstToken
  BY <1>1, ShownTimes
<1> HIDE DEF t
<1>5. t.firstChunk \in 0..t.duration
  BY <1>2, <1>3, <1>4 DEF Times
<1>6. r.firstToken # None => t.firstChunk <= t.firstToken /\ t.firstToken + t.generation = t.duration
  BY <1>2, <1>3, <1>4 DEF Times
<1> QED
  BY <1>5, <1>6 DEF r, t

(* Division in whole numbers. *)
LEMMA Quotient ==
  ASSUME NEW a \in Nat, NEW b \in Nat \ {0}
  PROVE  a \div b \in Nat /\ (a \div b) * b <= a /\ a < ((a \div b) + 1) * b
<1> DEFINE r == a \div b
<1>1. r \in Int /\ a % b \in 0..(b - 1) /\ a = b * r + (a % b)
  OBVIOUS
<1> HIDE DEF r
<1>2. r * b <= a
  BY <1>1
<1>3. a < (r + 1) * b
  BY <1>1
<1>4. r >= 0
  BY <1>1, <1>3
<1> QED
  BY <1>1, <1>2, <1>3, <1>4 DEF r

(* A part of a whole, as a rate, is at most a hundred per cent of it. *)
LEMMA HitRates ==
  ASSUME NEW r \in LogRows, TypeOf[r.channel] \in {"openai", "anthropic"},
         NEW part \in Nat, NEW whole \in Nat, part <= whole,
         part = Views!RequestCacheReadTokens(r),
         whole = IF TypeOf[r.channel] = "openai" THEN r.usage.input
                 ELSE r.usage.input + r.usage.create + part
  PROVE  LET rate == Views!RequestCacheHitRate(r)
         IN IF whole = 0 THEN rate = None
            ELSE rate * whole <= 100 * part /\ 100 * part < (rate + 1) * whole
<1> DEFINE percent == (100 * part) \div whole
<1>1. Views!RequestCacheHitRate(r) =
        IF whole <= 0 THEN None ELSE IF percent > 100 THEN 100 ELSE percent
  BY DEF Views!RequestCacheHitRate
<1>2. CASE whole = 0
  BY <1>1, <1>2
<1>3. CASE whole # 0
  <2>1. percent \in Nat /\ percent * whole <= 100 * part /\ 100 * part < (percent + 1) * whole
    <3> DEFINE hundredfold == 100 * part
    <3>1. hundredfold \in Nat /\ whole \in Nat \ {0}
      BY <1>3
    <3> HIDE DEF hundredfold
    <3>2. /\ hundredfold \div whole \in Nat /\ (hundredfold \div whole) * whole <= hundredfold
          /\ hundredfold < ((hundredfold \div whole) + 1) * whole
      BY <3>1, Quotient, Zenon
    <3> QED
      BY <3>2, Zenon DEF hundredfold
  <2> HIDE DEF percent
  <2>2. ~(percent >= 101)
    <3> SUFFICES ASSUME percent >= 101 PROVE FALSE
      OBVIOUS
    <3>1. percent * whole >= 101 * whole
      BY <2>1
    <3> QED
      BY <1>3, <2>1, <3>1
  <2>3. Views!RequestCacheHitRate(r) = percent
    BY <1>1, <1>3, <2>1, <2>2
  <2> QED
    BY <1>3, <2>1, <2>3
<1> QED
  BY <1>2, <1>3

LEMMA PagesAgree == ViewsInv => Views!ListAgreesWithPage
<1> SUFFICES ASSUME ViewsInv, NEW i \in DOMAIN log
             PROVE  LET told    == Views!RequestRow(log[i])
                        counts == Cost!UsageMetricRows(log[i].usage, TypeOf[log[i].channel])
                        prompt == counts.uncached + counts.cached + counts.created
                    IN /\ told.route = Views!RequestRows(log[i]).route
                       /\ told.firstToken = Views!TimingRows(log[i]).firstToken
                       /\ told.total = Views!TimingRows(log[i]).duration
                       /\ told.input = counts.uncached /\ told.output = counts.completion
                       /\ told.cache = counts.cached
                       /\ told.speed # None => told.speed.ms <= told.total
                       /\ told.input >= 0 =>
                            IF prompt = 0 THEN told.hitRate = None
                            ELSE told.hitRate * prompt <= 100 * counts.cached
                                 /\ 100 * counts.cached < (told.hitRate + 1) * prompt
  BY DEF Views!ListAgreesWithPage, Views!Shown
<1> DEFINE r      == log[i]
           u      == r.usage
           type   == TypeOf[r.channel]
           told    == Views!RequestRow(r)
           counts == Cost!UsageMetricRows(u, type)
<1>1. /\ r \in LogRows /\ RowTold(r) /\ u \in Usages /\ type \in {"openai", "anthropic"}
      /\ u.input \in Nat /\ u.output \in Nat /\ u.create \in Nat /\ u.read \in Nat /\ u.cached \in Nat
  BY RowTyped DEF Count
<1>2. type = "anthropic" => u.cached = 0
  BY <1>1 DEF RowTold
<1>3. /\ told.route = Views!Route(r) /\ told.firstToken = Views!FormatDuration(Views!Timing(r).firstToken)
      /\ told.total = Views!FormatDuration(Views!Timing(r).duration)
      /\ told.input = u.input - u.cached /\ told.output = u.output
      /\ told.cache = Views!RequestCacheReadTokens(r) /\ told.hitRate = Views!RequestCacheHitRate(r)
      /\ told.speed = Views!OutputTokensPerSecond(u, Views!Timing(r))
  BY DEF Views!RequestRow
<1>4. /\ counts.uncached = IF type = "openai" THEN u.input - u.cached ELSE u.input
      /\ counts.cached = IF type = "openai" THEN u.cached ELSE u.read
      /\ counts.created = IF type = "openai" THEN 0 ELSE u.create
      /\ counts.completion = u.output
  BY DEF Cost!UsageMetricRows
<1>5. told.route = Views!RequestRows(r).route
  BY <1>3 DEF Views!RequestRows
<1>6. told.firstToken = Views!TimingRows(r).firstToken /\ told.total = Views!TimingRows(r).duration
  BY <1>3 DEF Views!TimingRows, Views!Timing
<1>7. told.input = counts.uncached /\ told.output = counts.completion /\ told.cache = counts.cached
  BY <1>1, <1>2, <1>3, <1>4 DEF Views!RequestCacheReadTokens
<1>8. told.speed # None => told.speed.ms <= told.total
  <2> SUFFICES ASSUME told.speed # None PROVE told.speed.ms <= told.total
    OBVIOUS
  <2>1. /\ u.output > 0 /\ Views!Timing(r).generation # None
        /\ told.speed.ms = Views!Timing(r).generation
    BY <1>3 DEF Views!OutputTokensPerSecond
  <2>2. Ended(r)
    BY <1>1, <2>1 DEF RowTold, Running
  <2>3. /\ r.firstToken \in Times /\ r.completed \in Times /\ r.created \in Nat /\ None \notin Nat
        /\ r.firstChunk \in Times
    BY <1>1, TimesTyped, TimesAssumption
  <2>4. told.speed.ms = r.completed - r.firstToken /\ r.firstToken # None
    BY <2>1 DEF Views!Timing, Views!DeltaMs
  <2>5. told.total = r.completed - r.created
    BY <1>1, <1>6, <2>2, ShownTimes
  <2>6. r.created <= r.firstToken /\ r.completed \in Nat /\ r.firstToken \in Nat
    BY <2>2, <2>3, <2>4 DEF Ended, InOrder, Times
  <2> QED
    BY <2>3, <2>4, <2>5, <2>6
<1>9. ASSUME told.input >= 0
      PROVE  LET prompt == counts.uncached + counts.cached + counts.created
             IN IF prompt = 0 THEN told.hitRate = None
                ELSE told.hitRate * prompt <= 100 * counts.cached
                     /\ 100 * counts.cached < (told.hitRate + 1) * prompt
  <2> DEFINE prompt == counts.uncached + counts.cached + counts.created
  <2>1. /\ prompt = IF type = "openai" THEN u.input ELSE u.input + u.create + counts.cached
        /\ prompt \in Nat /\ counts.cached \in Nat /\ counts.cached <= prompt
        /\ counts.cached = Views!RequestCacheReadTokens(r)
    BY <1>1, <1>3, <1>4, <1>7, <1>9
  <2> HIDE DEF prompt, counts, told
  <2>2. LET rate == Views!RequestCacheHitRate(r)
        IN IF prompt = 0 THEN rate = None
           ELSE rate * prompt <= 100 * counts.cached /\ 100 * counts.cached < (rate + 1) * prompt
    BY <1>1, <2>1, HitRates
  <2> QED
    BY <1>3, <2>2 DEF prompt
<1> HIDE DEF told, counts
<1> QED
  BY <1>5, <1>6, <1>7, <1>8, <1>9 DEF told, counts, r

(* A row's badges: one for its status, one if it was cut off. *)
LEMMA BadgesHold == ViewsInv => Views!BadgesTell
<1> SUFFICES ASSUME ViewsInv, NEW i \in DOMAIN log
             PROVE  LET badges == Views!RuntimeStatusBadges(log[i])
                    IN /\ Views!Cardinality(badges \cap {"running", "success", "failure", "timeout"}) = 1
                       /\ "running" \in badges <=> i \notin Views!Done
                       /\ i \in Views!Done => ("success" \in badges <=> log[i].told < 400)
                       /\ log[i].truncation # None <=>
                            badges \cap {"truncatedStream", "truncatedSize", "truncatedLog"} # {}
  BY DEF Views!BadgesTell, Views!Shown
<1> DEFINE r == log[i]
           label == Views!HttpStatusLabel(r.status)
           cut == IF r.truncation = None THEN {} ELSE {"truncatedLog"}
           badges == Views!RuntimeStatusBadges(r)
<1>1. r \in LogRows /\ RowTold(r) /\ (i \in Views!Done <=> r.completed # None)
  BY RowTyped DEF Views!Done, Views!Shown
<1>2. /\ r.status \in Status \cup {None} /\ r.told \in Status /\ r.truncation \in {None, "size_limit"}
      /\ r.failoverFrom = None /\ r.retryAttempt = 0
  BY <1>1 DEF LogRows
<1>3. badges = {label} \cup cut
  <2> DEFINE byCut == CASE r.truncation = None                      -> {}
                        [] r.truncation = "stream duration timeout" -> {"truncatedStream"}
                        [] r.truncation = "body too large"          -> {"truncatedSize"}
                        [] OTHER                                    -> {"truncatedLog"}
             byTry == CASE r.failoverFrom # None -> {"failedOver"}
                        [] r.retryAttempt > 0    -> {"retriedSameRoute"}
                        [] OTHER                 -> {}
  <2>1. badges = {label} \cup byCut \cup byTry
    BY DEF Views!RuntimeStatusBadges
  <2>2. byTry = {}
    BY <1>2
  <2>3. byCut = cut
    <3>1. CASE r.truncation = None
      BY <3>1, TruncationAssumption
    <3>2. CASE r.truncation # None
      <4>1. r.truncation = "size_limit"
        BY <1>2, <3>2
      <4> QED
        BY <3>2, <4>1
    <3> QED
      BY <3>1, <3>2
  <2> HIDE DEF byCut, byTry, badges, cut
  <2> QED
    BY <2>1, <2>2, <2>3
<1>4. /\ label \in {"running", "success", "failure", "timeout"}
      /\ label = "running" <=> r.status = None
      /\ r.status # None => (label = "success" <=> r.status < 400)
  BY <1>2, TimesAssumption DEF Views!HttpStatusLabel, Status
<1>5. /\ r.completed = None <=> r.status = None
      /\ r.completed # None => r.status = r.told
  BY <1>1, <1>2, TimesAssumption DEF RowTold, Running, Ended, Status
<1> HIDE DEF label, cut, badges, r
<1>6. badges \cap {"running", "success", "failure", "timeout"} = {label}
  BY <1>3, <1>4 DEF cut
<1>7. Views!Cardinality({label}) = 1
  BY FS_Singleton DEF Views!Cardinality, Cardinality
<1>8. "running" \in badges <=> i \notin Views!Done
  BY <1>1, <1>3, <1>4, <1>5 DEF cut
<1>9. i \in Views!Done => ("success" \in badges <=> r.told < 400)
  BY <1>1, <1>3, <1>4, <1>5 DEF cut
<1>10. r.truncation # None <=> badges \cap {"truncatedStream", "truncatedSize", "truncatedLog"} # {}
  BY <1>3, <1>4 DEF cut
<1> QED
  BY <1>6, <1>7, <1>8, <1>9, <1>10 DEF badges, r

-----------------------------------------------------------------------------
(* What a response costs *)

RowOf(a, named, done) ==
  [type |-> a.type, named |-> named, usage |-> a.usage, said |-> a.said, counted |-> done]

(* The row last stored is that of an answer, and is in the statistics once   *)
(* at most; at the prices of today its key was charged what the answer       *)
(* costs; and without cached prompts the statistics cost what they should.   *)
RowAnswered == row # None => \E a \in Answer, named, done \in BOOLEAN : row = RowOf(a, named, done)

Sums == [requests : Nat, input : Nat, output : Nat, cached : Nat, cost : [Cost!PricedPart -> Nat]]

CostTyped ==
  /\ tariff \in Tariff \cup {None} /\ owed \in Nat /\ requests \in 0..MaxAnswers /\ stats \in Sums

CountedOnce ==
  /\ stats.requests <= requests
  /\ row # None /\ ~row.counted => stats.requests < requests

ChargedToday ==
  row # None /\ charge # None /\ row.named => charge \in Cost!ChargeQuota(TRUE, row.usage)

OwedInSums == stats.cached = 0 => Cost!Sum(stats.cost) = owed

CostInv == CostTyped /\ RowAnswered /\ CountedOnce /\ ChargedToday /\ OwedInSums

LEMMA AnswerTyped ==
  ASSUME NEW a \in Answer
  PROVE  /\ a.type \in Type /\ \A f \in Count : a.usage[f] \in Nat
         /\ a.usage = [f \in Count |-> a.usage[f]]
         /\ a.usage.input \in Nat /\ a.usage.output \in Nat /\ a.usage.create \in Nat
         /\ a.usage.read \in Nat /\ a.usage.cached \in Nat /\ a.usage.total \in Nat
<1>1. a.type \in Type /\ \A f \in Count : a.usage[f] \in Nat
  BY AnswerAssumption DEF IsUsage
<1>2. a.usage = [f \in Count |-> a.usage[f]]
  BY AnswerAssumption DEF IsUsage
<1> QED
  BY <1>1, <1>2 DEF Count

LEMMA PricesTyped ==
  ASSUME CostTyped, tariff # None, NEW p \in Cost!PricedPart
  PROVE  Cost!ToInt(tariff[p]) \in Nat
BY TariffAssumption DEF CostTyped, Cost!ToInt

LEMMA CostInit == Cost!Init => CostInv
<1> SUFFICES ASSUME Cost!Init PROVE CostInv
  OBVIOUS
<1>1. /\ tariff \in Tariff \cup {None} /\ row = None /\ charge = None
      /\ stats = Cost!NoStats /\ owed = 0 /\ requests = 0
  BY DEF Cost!Init
<1>2. /\ stats \in Sums /\ stats.requests = 0
      /\ \A p \in Cost!PricedPart : stats.cost[p] = 0
  BY <1>1 DEF Cost!NoStats, Sums
<1>3. Cost!Sum(stats.cost) = 0
  BY <1>2 DEF Cost!Sum, Cost!PricedPart
<1>4. CostTyped
  BY <1>1, <1>2, AnswerAssumption DEF CostTyped
<1> QED
  BY <1>1, <1>2, <1>3, <1>4 DEF CostInv, RowAnswered, CountedOnce, ChargedToday, OwedInSums

LEMMA RespondStep ==
  ASSUME CostInv, NEW a \in Answer, NEW named \in BOOLEAN, Cost!Respond(a, named)
  PROVE  CostInv'
<1> DEFINE new == RowOf(a, named, FALSE)
<1>1. /\ requests < MaxAnswers /\ requests' = requests + 1 /\ row' \in {new, None}
      /\ charge' \in Cost!ChargeQuota(named, a.usage) \cup {None}
      /\ UNCHANGED <<tariff, stats, owed>>
  BY DEF Cost!Respond, RowOf
<1>2. new.named = named /\ new.usage = a.usage
  BY DEF RowOf
<1>3. RowAnswered'
  BY <1>1 DEF RowAnswered
<1> HIDE DEF new
<1>4. CostTyped'
  BY <1>1, AnswerAssumption DEF CostInv, CostTyped
<1>5. CountedOnce'
  <2>1. stats.requests <= requests /\ stats.requests \in Nat /\ requests \in Nat
    BY AnswerAssumption DEF CostInv, CountedOnce, CostTyped, Sums
  <2> QED
    BY <1>1, <2>1 DEF CountedOnce
<1>6. ChargedToday'
  BY <1>1, <1>2 DEF ChargedToday, Cost!ChargeQuota
<1>7. OwedInSums'
  BY <1>1 DEF CostInv, OwedInSums
<1> QED
  BY <1>3, <1>4, <1>5, <1>6, <1>7 DEF CostInv

LEMMA PriceStep == CostInv /\ Cost!Refresh => CostInv'
<1> SUFFICES ASSUME CostInv, Cost!Refresh PROVE CostInv'
  OBVIOUS
<1>1. /\ tariff' \in Tariff \cup {None} /\ charge' = None
      /\ UNCHANGED <<row, stats, owed, requests>>
  BY DEF Cost!Refresh
<1> QED
  BY <1>1 DEF CostInv, CostTyped, RowAnswered, CountedOnce, ChargedToday, OwedInSums

(* The buckets of a usage: what was cached is not in the input too.          *)
LEMMA Buckets ==
  ASSUME NEW a \in Answer
  PROVE  LET u == a.usage
             b == Cost!BucketsForUsage(u)
         IN /\ \A p \in Cost!PricedPart : b[p] \in Nat
            /\ b["output"] = u.output /\ b["cacheWrite"] = u.create
            /\ a.type = "openai" => b["cacheRead"] = u.cached /\ b["cacheWrite"] = 0
            /\ u.cached = 0 => b["cacheRead"] = u.read /\ b["input"] = u.input
            /\ u.cached <= u.input => b["input"] = u.input - u.cached
<1> DEFINE u == a.usage
           b == Cost!BucketsForUsage(u)
<1>1. /\ u.input \in Nat /\ u.output \in Nat /\ u.create \in Nat /\ u.read \in Nat /\ u.cached \in Nat
      /\ a.type = "openai" => u.create = 0 /\ u.read = 0
  BY AnswerTyped, AnswerAssumption
<1>2. /\ b["input"] = IF u.cached > u.input THEN 0 ELSE u.input - u.cached
      /\ b["output"] = u.output
      /\ b["cacheRead"] = IF u.read > 0 \/ u.create > 0 THEN u.read ELSE u.cached
      /\ b["cacheWrite"] = u.create
  BY DEF Cost!BucketsForUsage
<1> HIDE DEF u, b
<1>3. \A p \in Cost!PricedPart : b[p] \in Nat
  BY <1>1, <1>2 DEF Cost!PricedPart
<1>4. a.type = "openai" => b["cacheRead"] = u.cached /\ b["cacheWrite"] = 0
  BY <1>1, <1>2
<1>5. u.cached = 0 => b["cacheRead"] = u.read /\ b["input"] = u.input
  BY <1>1, <1>2
<1>6. u.cached <= u.input => b["input"] = u.input - u.cached
  BY <1>1, <1>2
<1> QED
  BY <1>2, <1>3, <1>4, <1>5, <1>6 DEF u, b

(* A row is added to the sums at the prices of the moment, with its cost.    *)
LEMMA AddStep == CostInv /\ Cost!RollUp => CostInv'
<1> SUFFICES ASSUME CostInv, Cost!RollUp PROVE CostInv'
  OBVIOUS
<1> DEFINE price(p) == IF tariff = None THEN 0 ELSE Cost!ToInt(tariff[p])
           u == row.usage
           paid == IF tariff = None THEN 0 ELSE Cost!CalculateCost(u, tariff)
<1>1. /\ row # None /\ ~row.counted /\ row' = [row EXCEPT !.counted = TRUE]
      /\ stats' = Cost!Fold(stats, u) /\ owed' = owed + paid
      /\ UNCHANGED <<tariff, charge, requests>>
  BY DEF Cost!RollUp
<1>2. PICK a \in Answer, named \in BOOLEAN, done \in BOOLEAN : row = RowOf(a, named, done)
  BY <1>1 DEF CostInv, RowAnswered
<1>3. row' = RowOf(a, named, TRUE) /\ u = a.usage
  BY <1>1, <1>2 DEF RowOf
<1>4. row'.usage = row.usage /\ row'.named = row.named /\ row'.counted
  BY <1>2, <1>3 DEF RowOf
<1>5. /\ u.input \in Nat /\ u.output \in Nat /\ u.create \in Nat /\ u.read \in Nat /\ u.cached \in Nat
  BY <1>3, AnswerTyped
<1>6. \A p \in Cost!PricedPart : price(p) \in Nat
  BY PricesTyped DEF CostInv
<1>7. /\ stats \in Sums /\ stats.requests \in Nat /\ stats.input \in Nat /\ stats.output \in Nat
      /\ stats.cached \in Nat /\ stats.cost \in [Cost!PricedPart -> Nat] /\ owed \in Nat
  BY DEF CostInv, CostTyped, Sums
<1>8. /\ stats'.requests = stats.requests + 1 /\ stats'.cached = stats.cached + u.cached
      /\ stats' = [requests |-> stats.requests + 1, input |-> stats.input + u.input,
                   output |-> stats.output + u.output, cached |-> stats.cached + u.cached,
                   cost |-> stats'.cost]
      /\ stats'.cost = [stats.cost EXCEPT !["input"]      = @ + u.input * price("input"),
                                          !["output"]     = @ + u.output * price("output"),
                                          !["cacheRead"]  = @ + u.read * price("cacheRead"),
                                          !["cacheWrite"] = @ + u.create * price("cacheWrite")]
  BY <1>1 DEF Cost!Fold
<1> HIDE DEF price, u, paid
<1>9. /\ u.input * price("input") \in Nat /\ u.output * price("output") \in Nat
      /\ u.read * price("cacheRead") \in Nat /\ u.create * price("cacheWrite") \in Nat
  BY <1>5, <1>6 DEF Cost!PricedPart
<1>10. /\ stats'.cost \in [Cost!PricedPart -> Nat]
       /\ stats'.cost["input"] = stats.cost["input"] + u.input * price("input")
       /\ stats'.cost["output"] = stats.cost["output"] + u.output * price("output")
       /\ stats'.cost["cacheRead"] = stats.cost["cacheRead"] + u.read * price("cacheRead")
       /\ stats'.cost["cacheWrite"] = stats.cost["cacheWrite"] + u.create * price("cacheWrite")
  BY <1>7, <1>8, <1>9 DEF Cost!PricedPart
<1>11. paid \in Nat /\ (u.cached = 0 =>
         paid = u.input * price("input") + u.output * price("output")
                + u.read * price("cacheRead") + u.create * price("cacheWrite"))
  <2>1. CASE tariff = None
    BY <1>5, <2>1 DEF paid, price
  <2>2. CASE tariff # None
    <3> DEFINE b == Cost!BucketsForUsage(u)
    <3>1. paid = b["input"] * price("input") + b["output"] * price("output")
                 + b["cacheRead"] * price("cacheRead") + b["cacheWrite"] * price("cacheWrite")
      BY <2>2 DEF paid, price, Cost!CalculateCost, Cost!Sum, Cost!PricedPart
    <3>2. /\ \A p \in Cost!PricedPart : b[p] \in Nat
          /\ b["output"] = u.output /\ b["cacheWrite"] = u.create
          /\ u.cached = 0 => b["cacheRead"] = u.read /\ b["input"] = u.input
      BY <1>3, Buckets
    <3> HIDE DEF b
    <3>3. /\ b["input"] * price("input") \in Nat /\ b["output"] * price("output") \in Nat
          /\ b["cacheRead"] * price("cacheRead") \in Nat /\ b["cacheWrite"] * price("cacheWrite") \in Nat
      BY <1>6, <3>2 DEF Cost!PricedPart
    <3> QED
      BY <3>1, <3>2, <3>3
  <2> QED
    BY <2>1, <2>2
<1>12. CostTyped'
  <2>1. stats' \in Sums
    BY <1>5, <1>7, <1>8, <1>10 DEF Sums
  <2>2. owed' \in Nat
    BY <1>1, <1>7, <1>11
  <2> QED
    BY <1>1, <2>1, <2>2 DEF CostInv, CostTyped
<1>13. RowAnswered'
  BY <1>3 DEF RowAnswered
<1>14. CountedOnce'
  <2>1. stats.requests < requests /\ requests \in Nat
    BY <1>1, AnswerAssumption DEF CostInv, CountedOnce, CostTyped
  <2> QED
    BY <1>1, <1>4, <1>7, <1>8, <2>1 DEF CountedOnce
<1>15. ChargedToday'
  <2> SUFFICES ASSUME charge # None, row.named
               PROVE  charge \in Cost!ChargeQuota(TRUE, row.usage)'
    BY <1>1, <1>4 DEF ChargedToday
  <2>1. charge \in Cost!ChargeQuota(TRUE, row.usage)
    BY <1>1 DEF CostInv, ChargedToday
  <2> QED
    BY <1>1, <1>4, <2>1 DEF Cost!ChargeQuota
<1>16. OwedInSums'
  <2> SUFFICES ASSUME stats'.cached = 0
               PROVE  Cost!Sum(stats'.cost) = owed'
    BY DEF OwedInSums, Cost!Sum
  <2>1. stats.cached = 0 /\ u.cached = 0
    BY <1>5, <1>7, <1>8
  <2>2. Cost!Sum(stats.cost) = owed
    BY <2>1 DEF CostInv, OwedInSums
  <2>3. \A p \in Cost!PricedPart : stats.cost[p] \in Nat
    BY <1>7
  <2>4. Cost!Sum(stats'.cost)
        = Cost!Sum(stats.cost) + (u.input * price("input") + u.output * price("output")
                                  + u.read * price("cacheRead") + u.create * price("cacheWrite"))
    BY <1>9, <1>10, <2>3 DEF Cost!Sum, Cost!PricedPart
  <2> QED
    BY <1>1, <1>11, <2>1, <2>2, <2>4
<1> QED
  BY <1>12, <1>13, <1>14, <1>15, <1>16 DEF CostInv

LEMMA CostStep == CostInv /\ [Cost!Next]_Cost!vars => CostInv'
<1> SUFFICES ASSUME CostInv, [Cost!Next]_Cost!vars PROVE CostInv'
  OBVIOUS
<1>1. CASE UNCHANGED Cost!vars
  BY <1>1 DEF Cost!vars, CostInv, CostTyped, RowAnswered, CountedOnce, ChargedToday, OwedInSums,
     Cost!ChargeQuota
<1> QED
  BY <1>1, RespondStep, PriceStep, AddStep DEF Cost!Next

(* A number of tenths, rounded, is at most half of ten away. *)
LEMMA Rounded ==
  ASSUME NEW x \in Nat
  PROVE  LET r == Cost!RoundUSD(x)
         IN r \in Nat /\ x - 10 * r >= -5 /\ x - 10 * r <= 4
BY DEF Cost!RoundUSD

LEMMA NearIs ==
  ASSUME NEW x \in Int, NEW y \in Int, NEW limit \in Nat, x - y >= -limit, x - y <= limit
  PROVE  Cost!Near(x, y, limit)
BY DEF Cost!Near

LEMMA CardsHold == CostInv => Cost!CardsAddUp
<1> SUFFICES ASSUME CostInv PROVE Cost!CardsAddUp
  OBVIOUS
<1> DEFINE c == stats.cost
           r(p) == Cost!RoundUSD(c[p])
           whole == Cost!RoundUSD(Cost!Sum(c))
<1>1. \A p \in Cost!PricedPart : c[p] \in Nat
  BY DEF CostInv, CostTyped, Sums
<1>2. /\ Cost!CostCards[1] = whole /\ Cost!CostCards[2] = r("input") /\ Cost!CostCards[3] = r("output")
      /\ Cost!CostCards[4] = r("cacheRead") + r("cacheWrite")
  BY DEF Cost!CostCards, Cost!Overview, Cost!PricedPart
<1>3. /\ c["input"] \in Nat /\ c["output"] \in Nat /\ c["cacheRead"] \in Nat /\ c["cacheWrite"] \in Nat
      /\ Cost!Sum(c) = c["input"] + c["output"] + c["cacheRead"] + c["cacheWrite"]
  BY <1>1 DEF Cost!PricedPart, Cost!Sum
<1>4. \A p \in Cost!PricedPart : r(p) \in Nat /\ c[p] - 10 * r(p) >= -5 /\ c[p] - 10 * r(p) <= 4
  BY <1>1, Rounded
<1>5. Cost!Sum(c) \in Nat
  BY <1>3
<1>6. whole \in Nat /\ Cost!Sum(c) - 10 * whole >= -5 /\ Cost!Sum(c) - 10 * whole <= 4
  BY <1>5, Rounded
<1> HIDE DEF c, r, whole
<1>7. Cost!Near(whole, r("input") + r("output") + (r("cacheRead") + r("cacheWrite")), 2)
  <2> DEFINE x == r("input") + r("output") + (r("cacheRead") + r("cacheWrite"))
  <2>1. x \in Int /\ whole - x >= -2 /\ whole - x <= 2
    BY <1>3, <1>4, <1>6 DEF Cost!PricedPart
  <2> HIDE DEF x
  <2>2. Cost!Near(whole, x, 2)
    BY <1>6, <2>1, NearIs
  <2> QED
    BY <2>2 DEF x
<1>8. stats.cached = 0 => Cost!Sum(stats.cost) = owed
  BY DEF CostInv, OwedInSums
<1> QED
  BY <1>2, <1>7, <1>8 DEF Cost!CardsAddUp

LEMMA CostTypeOK == CostInv => Cost!TypeOK
<1> SUFFICES ASSUME CostInv PROVE Cost!TypeOK
  OBVIOUS
<1>1. row # None => \A f \in DOMAIN row.usage : row.usage[f] \in Nat
  <2> SUFFICES ASSUME row # None PROVE \A f \in DOMAIN row.usage : row.usage[f] \in Nat
    OBVIOUS
  <2>1. PICK a \in Answer : row.usage = a.usage
    BY DEF CostInv, RowAnswered, RowOf
  <2>2. DOMAIN a.usage = Count /\ \A f \in Count : a.usage[f] \in Nat
    BY AnswerTyped
  <2> QED
    BY <2>1, <2>2
<1> QED
  BY <1>1 DEF CostInv, CostTyped, CountedOnce, Cost!TypeOK

LEMMA RowSaid == CostInv => Cost!RowIsWhatWasSaid
<1> SUFFICES ASSUME CostInv, row # None, row.said # None, NEW f \in DOMAIN row.said
             PROVE  row.usage[f] = row.said[f]
  BY DEF Cost!RowIsWhatWasSaid
<1>1. PICK a \in Answer : row.usage = a.usage /\ row.said = a.said
  BY DEF CostInv, RowAnswered, RowOf
<1> QED
  BY <1>1, AnswerAssumption

(* A row's parts cost whole tenths of a micro-USD. *)
LEMMA PartsCost ==
  ASSUME CostTyped, tariff # None, NEW a \in Answer
  PROVE  /\ \A p \in Cost!PricedPart :
              /\ Cost!ComputeCost(a.usage)[p] \in Nat
              /\ Cost!ComputeCost(a.usage)[p] = Cost!BucketsForUsage(a.usage)[p] * Cost!ToInt(tariff[p])
         /\ Cost!Sum(Cost!ComputeCost(a.usage)) \in Nat
         /\ Cost!CalculateCost(a.usage, tariff) = Cost!Sum(Cost!ComputeCost(a.usage))
<1> DEFINE b == Cost!BucketsForUsage(a.usage)
           c == Cost!ComputeCost(a.usage)
<1>1. \A p \in Cost!PricedPart : c[p] = b[p] * Cost!ToInt(tariff[p])
  BY DEF Cost!ComputeCost
<1>2. \A p \in Cost!PricedPart : b[p] \in Nat
  BY Buckets
<1>3. Cost!CalculateCost(a.usage, tariff) = Cost!Sum(c)
  BY DEF Cost!CalculateCost, Cost!ComputeCost
<1> HIDE DEF b, c
<1>4. \A p \in Cost!PricedPart : c[p] \in Nat
  <2> SUFFICES ASSUME NEW p \in Cost!PricedPart PROVE c[p] \in Nat
    OBVIOUS
  <2>1. b[p] \in Nat /\ Cost!ToInt(tariff[p]) \in Nat
    BY <1>2, PricesTyped
  <2> QED
    BY <1>1, <2>1
<1>5. Cost!Sum(c) \in Nat
  BY <1>4 DEF Cost!Sum, Cost!PricedPart
<1> QED
  BY <1>1, <1>3, <1>4, <1>5 DEF b, c

LEMMA ChargesHold == CostInv => Cost!ChargedAsShown
<1> SUFFICES ASSUME CostInv, row # None, charge # None, row.named
             PROVE  LET shown_ == IF tariff = None THEN 0
                                  ELSE Cost!RoundUSD(Cost!Sum(Cost!ComputeCost(row.usage)))
                    IN charge \in {shown_, shown_ - 1}
  BY DEF Cost!ChargedAsShown
<1>1. charge \in Cost!ChargeQuota(TRUE, row.usage)
  BY DEF CostInv, ChargedToday
<1>2. CASE tariff = None
  BY <1>1, <1>2 DEF Cost!ChargeQuota
<1>3. CASE tariff # None
  <2>1. PICK a \in Answer : row.usage = a.usage
    BY DEF CostInv, RowAnswered, RowOf
  <2> DEFINE cost == Cost!Sum(Cost!ComputeCost(row.usage))
  <2>2. cost \in Nat /\ Cost!CalculateCost(row.usage, tariff) = cost
    BY <1>3, <2>1, PartsCost DEF CostInv
  <2> HIDE DEF cost
  <2>3. charge \in {cost \div 10} \cup (IF cost % 10 = 0 /\ cost > 0 THEN {cost \div 10 - 1} ELSE {})
    BY <1>1, <1>3, <2>2 DEF Cost!ChargeQuota, Cost!ToMicroUSD
  <2>4. charge \in {Cost!RoundUSD(cost), Cost!RoundUSD(cost) - 1}
    BY <2>2, <2>3 DEF Cost!RoundUSD
  <2> QED
    BY <1>3, <2>4 DEF cost
<1> QED
  BY <1>2, <1>3

(* The lines of the page of a request: what each part costs, and their       *)
(* tokens, which are those counted above them.                               *)
LEMMA LinesCost ==
  ASSUME CostTyped, tariff # None, NEW a \in Answer
  PROVE  LET lines == Cost!CostMetricRows(a.usage, a.type)
         IN /\ \A p \in DOMAIN lines : Cost!Near(lines[p].tokens * lines[p].price, 10 * lines[p].cost, 5)
            /\ Cost!Near(Cost!SumOfFormulas([p \in DOMAIN lines |-> lines[p].cost]),
                         Cost!RoundUSD(Cost!Sum(Cost!ComputeCost(a.usage))), 2)
<1> DEFINE lines == Cost!CostMetricRows(a.usage, a.type)
           b == Cost!BucketsForUsage(a.usage)
           c == Cost!ComputeCost(a.usage)
           r(p) == Cost!RoundUSD(c[p])
<1>1. /\ \A p \in Cost!PricedPart :
           b[p] \in Nat /\ c[p] \in Nat /\ c[p] = b[p] * Cost!ToInt(tariff[p])
      /\ Cost!Sum(c) \in Nat /\ b["output"] = a.usage.output
      /\ a.type = "openai" => b["cacheWrite"] = 0
  BY PartsCost, Buckets
<1>2. DOMAIN lines = Cost!FormulaParts(a.type) /\ DOMAIN lines \subseteq Cost!PricedPart
  BY DEF Cost!CostMetricRows, Cost!FormulaParts
<1>3. \A p \in DOMAIN lines :
        /\ lines[p].tokens = b[p] /\ lines[p].price = Cost!ToInt(tariff[p]) /\ lines[p].cost = r(p)
  BY <1>1 DEF Cost!CostMetricRows
<1>4. \A p \in Cost!PricedPart : r(p) \in Nat /\ c[p] - 10 * r(p) >= -5 /\ c[p] - 10 * r(p) <= 4
  BY <1>1, Rounded
<1>5. /\ Cost!RoundUSD(Cost!Sum(c)) \in Nat /\ Cost!Sum(c) - 10 * Cost!RoundUSD(Cost!Sum(c)) >= -5
      /\ Cost!Sum(c) - 10 * Cost!RoundUSD(Cost!Sum(c)) <= 4
  BY <1>1, Rounded
<1> HIDE DEF lines, b, c, r
<1>6. ASSUME NEW p \in DOMAIN lines
      PROVE  Cost!Near(lines[p].tokens * lines[p].price, 10 * lines[p].cost, 5)
  <2>1. lines[p].tokens * lines[p].price = c[p] /\ c[p] \in Nat
    BY <1>1, <1>2, <1>3
  <2>2. lines[p].cost = r(p) /\ r(p) \in Nat /\ c[p] - 10 * r(p) >= -5 /\ c[p] - 10 * r(p) <= 5
    BY <1>2, <1>3, <1>4, <2>1
  <2>3. Cost!Near(c[p], 10 * r(p), 5)
    BY <2>1, <2>2, NearIs
  <2> QED
    BY <2>1, <2>2, <2>3
<1>7. Cost!Near(Cost!SumOfFormulas([p \in DOMAIN lines |-> lines[p].cost]), Cost!RoundUSD(Cost!Sum(c)), 2)
  <2> DEFINE costs == [p \in DOMAIN lines |-> lines[p].cost]
             y == Cost!RoundUSD(Cost!Sum(c))
             last == IF "cacheWrite" \in DOMAIN lines THEN r("cacheWrite") ELSE 0
  <2>1. DOMAIN lines = IF a.type = "openai" THEN {"input", "output", "cacheRead"}
                       ELSE {"input", "output", "cacheRead", "cacheWrite"}
    BY <1>2 DEF Cost!FormulaParts, Cost!PricedPart
  <2>2. /\ costs["input"] = r("input") /\ costs["output"] = r("output")
        /\ costs["cacheRead"] = r("cacheRead") /\ DOMAIN costs = DOMAIN lines
        /\ "cacheWrite" \in DOMAIN lines => costs["cacheWrite"] = r("cacheWrite")
    BY <1>3, <2>1
  <2>3. Cost!SumOfFormulas(costs) = r("input") + r("output") + r("cacheRead") + last
    BY <2>2 DEF Cost!SumOfFormulas
  <2>4. last = r("cacheWrite")
    <3>1. CASE a.type = "openai"
      <4>1. b["cacheWrite"] = 0 /\ Cost!ToInt(tariff["cacheWrite"]) \in Nat
        BY <1>1, <3>1, PricesTyped DEF Cost!PricedPart
      <4>2. c["cacheWrite"] = 0
        BY <1>1, <4>1 DEF Cost!PricedPart
      <4>3. r("cacheWrite") = 0
        BY <4>2 DEF r, Cost!RoundUSD
      <4> QED
        BY <2>1, <3>1, <4>3
    <3>2. CASE a.type # "openai"
      BY <2>1, <3>2
    <3> QED
      BY <3>1, <3>2
  <2>5. Cost!Sum(c) = c["input"] + c["output"] + c["cacheRead"] + c["cacheWrite"]
    BY DEF Cost!Sum
  <2> HIDE DEF last, costs, y
  <2>6. /\ Cost!SumOfFormulas(costs) \in Int /\ y \in Int
        /\ Cost!SumOfFormulas(costs) - y >= -2 /\ Cost!SumOfFormulas(costs) - y <= 2
    <3>1. /\ y \in Nat /\ Cost!Sum(c) - 10 * y >= -5 /\ Cost!Sum(c) - 10 * y <= 4
      BY <1>5 DEF y
    <3> QED
      BY <1>1, <1>4, <2>3, <2>4, <2>5, <3>1 DEF Cost!PricedPart
  <2>7. Cost!Near(Cost!SumOfFormulas(costs), y, 2)
    BY <2>6, NearIs
  <2> QED
    BY <2>7 DEF costs, y
<1> QED
  BY <1>6, <1>7 DEF lines, c

LEMMA CountsAddUp ==
  ASSUME NEW a \in Answer, a.said # None, a.usage.cached <= a.usage.input
  PROVE  LET counts == Cost!UsageMetricRows(a.usage, a.type)
             b == Cost!BucketsForUsage(a.usage)
         IN /\ counts.uncached + counts.cached + counts.created + counts.completion = counts.total
            /\ b["input"] = counts.uncached
            /\ b["input"] + b["output"] + b["cacheRead"]
               + (IF a.type = "openai" THEN 0 ELSE b["cacheWrite"]) = counts.total
<1> DEFINE u == a.usage
           counts == Cost!UsageMetricRows(u, a.type)
           b == Cost!BucketsForUsage(u)
<1>1. /\ u.input \in Nat /\ u.output \in Nat /\ u.create \in Nat /\ u.read \in Nat /\ u.cached \in Nat
      /\ u.total \in Nat /\ a.type \in Type /\ u.cached <= u.input
  BY AnswerTyped
<1>2. /\ a.type = "openai" => u.total = u.input + u.output
      /\ a.type # "openai" => u.cached = 0 /\ u.total = u.input + u.output + u.create + u.read
  BY AnswerAssumption
<1>3. /\ b["output"] = u.output /\ b["cacheWrite"] = u.create /\ b["input"] = u.input - u.cached
      /\ a.type = "openai" => b["cacheRead"] = u.cached
      /\ a.type # "openai" => b["cacheRead"] = u.read
  BY <1>2, Buckets
<1>4. /\ counts.uncached = IF a.type = "openai" THEN u.input - u.cached ELSE u.input
      /\ counts.cached = IF a.type = "openai" THEN u.cached ELSE u.read
      /\ counts.created = IF a.type = "openai" THEN 0 ELSE u.create
      /\ counts.completion = u.output /\ counts.total = Cost!GetTotalTokens(u, a.type)
  BY DEF Cost!UsageMetricRows
<1> HIDE DEF u, counts, b
<1>5. counts.total = IF a.type = "openai" THEN u.input + u.output
                     ELSE u.input + u.output + u.create + u.read
  BY <1>1, <1>2, <1>4 DEF Cost!GetTotalTokens
<1>6. counts.uncached + counts.cached + counts.created + counts.completion = counts.total
  BY <1>1, <1>4, <1>5
<1>7. b["input"] = counts.uncached
  BY <1>1, <1>2, <1>3, <1>4
<1>8. b["input"] + b["output"] + b["cacheRead"] + (IF a.type = "openai" THEN 0 ELSE b["cacheWrite"])
      = counts.total
  BY <1>1, <1>2, <1>3, <1>5
<1> QED
  BY <1>6, <1>7, <1>8 DEF u, counts, b

LEMMA FormulasHold == CostInv => Cost!FormulasAddUp
<1> SUFFICES ASSUME CostInv, row # None
             PROVE  LET u == row.usage
                        counts == Cost!UsageMetricRows(u, row.type)
                    IN /\ tariff # None =>
                            LET lines == Cost!CostMetricRows(u, row.type) IN
                            /\ \A p \in DOMAIN lines :
                                 Cost!Near(lines[p].tokens * lines[p].price, 10 * lines[p].cost, 5)
                            /\ Cost!Near(Cost!SumOfFormulas([p \in DOMAIN lines |-> lines[p].cost]),
                                         Cost!RoundUSD(Cost!Sum(Cost!ComputeCost(u))), 2)
                            /\ row.said # None /\ u.cached <= u.input =>
                                 /\ Cost!SumOfFormulas([p \in DOMAIN lines |-> lines[p].tokens])
                                    = counts.total
                                 /\ lines["input"].tokens = counts.uncached
                       /\ row.said # None /\ u.cached <= u.input =>
                            counts.uncached + counts.cached + counts.created + counts.completion
                            = counts.total
  BY DEF Cost!FormulasAddUp
<1>1. PICK a \in Answer : row.usage = a.usage /\ row.said = a.said /\ row.type = a.type
  BY DEF CostInv, RowAnswered, RowOf
<1> DEFINE counts == Cost!UsageMetricRows(a.usage, a.type)
           lines == Cost!CostMetricRows(a.usage, a.type)
           b == Cost!BucketsForUsage(a.usage)
           tokens == [p \in DOMAIN lines |-> lines[p].tokens]
<1>2. ASSUME row.said # None, a.usage.cached <= a.usage.input
      PROVE  /\ counts.uncached + counts.cached + counts.created + counts.completion = counts.total
             /\ b["input"] = counts.uncached
             /\ b["input"] + b["output"] + b["cacheRead"]
                + (IF a.type = "openai" THEN 0 ELSE b["cacheWrite"]) = counts.total
  BY <1>1, <1>2, CountsAddUp
<1>3. ASSUME tariff # None
      PROVE  /\ \A p \in DOMAIN lines : Cost!Near(lines[p].tokens * lines[p].price, 10 * lines[p].cost, 5)
             /\ Cost!Near(Cost!SumOfFormulas([p \in DOMAIN lines |-> lines[p].cost]),
                          Cost!RoundUSD(Cost!Sum(Cost!ComputeCost(a.usage))), 2)
  BY <1>3, LinesCost DEF CostInv
<1>4. ASSUME row.said # None, a.usage.cached <= a.usage.input
      PROVE  Cost!SumOfFormulas(tokens) = counts.total /\ lines["input"].tokens = counts.uncached
  <2>1. DOMAIN lines = IF a.type = "openai" THEN {"input", "output", "cacheRead"}
                       ELSE {"input", "output", "cacheRead", "cacheWrite"}
    BY DEF Cost!CostMetricRows, Cost!FormulaParts, Cost!PricedPart
  <2>2. b["output"] = a.usage.output
    BY Buckets
  <2>3. \A p \in DOMAIN lines : lines[p].tokens = b[p]
    BY <2>2 DEF Cost!CostMetricRows
  <2>4. /\ DOMAIN tokens = DOMAIN lines /\ tokens["input"] = b["input"] /\ tokens["output"] = b["output"]
        /\ tokens["cacheRead"] = b["cacheRead"]
        /\ "cacheWrite" \in DOMAIN lines => tokens["cacheWrite"] = b["cacheWrite"]
    BY <2>1, <2>3
  <2>5. lines["input"].tokens = b["input"]
    BY <2>1, <2>3
  <2> HIDE DEF tokens, lines, b, counts
  <2>6. Cost!SumOfFormulas(tokens) = b["input"] + b["output"] + b["cacheRead"]
                                     + (IF a.type = "openai" THEN 0 ELSE b["cacheWrite"])
    BY <2>1, <2>4 DEF Cost!SumOfFormulas
  <2> QED
    BY <1>2, <1>4, <2>5, <2>6
<1> HIDE DEF counts, lines, b, tokens
<1> QED
  BY <1>1, <1>2, <1>3, <1>4 DEF counts, lines, tokens

-----------------------------------------------------------------------------
(* The pages together *)

(* A step is one of a page, or leaves it as it is. *)
LEMMA StepOfAPage ==
  ASSUME [PagesNext]_pagesVars
  PROVE  /\ [Logs!Next]_Logs!vars /\ [Detail!Next]_Detail!vars /\ [Session!Next]_Session!vars
         /\ [Themes!Next]_Themes!vars /\ [Cost!Next]_Cost!vars /\ [Views!Next]_Views!vars
<1>1. UNCHANGED logsVars => UNCHANGED Logs!vars
  BY DEF logsVars, Logs!vars, Logs!page
<1>2. UNCHANGED detailVars => UNCHANGED Detail!vars
  BY DEF detailVars, Detail!vars
<1>3. UNCHANGED sessionVars => UNCHANGED Session!vars
  BY DEF sessionVars, Session!vars
<1>4. UNCHANGED themeVars => UNCHANGED Themes!vars
  BY DEF themeVars, Themes!vars, Themes!page
<1>5. UNCHANGED costVars => UNCHANGED Cost!vars
  BY DEF costVars, Cost!vars
<1>6. UNCHANGED requestVars => UNCHANGED Views!vars
  BY DEF requestVars, Views!vars
<1>7. \/ UNCHANGED <<logsVars, detailVars, sessionVars, themeVars, costVars, requestVars>>
      \/ Logs!Next /\ UNCHANGED <<detailVars, sessionVars, themeVars, costVars, requestVars>>
      \/ Detail!Next /\ UNCHANGED <<logsVars, sessionVars, themeVars, costVars, requestVars>>
      \/ Session!Next /\ UNCHANGED <<logsVars, detailVars, themeVars, costVars, requestVars>>
      \/ Themes!Next /\ UNCHANGED <<logsVars, detailVars, sessionVars, costVars, requestVars>>
      \/ Cost!Next /\ UNCHANGED <<logsVars, detailVars, sessionVars, themeVars, requestVars>>
      \/ Views!Next /\ UNCHANGED <<logsVars, detailVars, sessionVars, themeVars, costVars>>
  BY DEF PagesNext, pagesVars
<1> QED
  BY <1>1, <1>2, <1>3, <1>4, <1>5, <1>6, <1>7

PagesInv == LogsInv /\ DetailInv /\ SessionInv /\ ThemeInv /\ CostInv /\ ViewsInv

LEMMA PagesInvariance == PagesSpec => []PagesInv
<1>1. PagesInit => PagesInv
  <2> SUFFICES ASSUME PagesInit PROVE PagesInv
    OBVIOUS
  <2>1. /\ Logs!Init /\ Detail!Init /\ Themes!Init /\ Cost!Init /\ Views!Init
        /\ Session!Init \/ SignedOff
    BY DEF PagesInit
  <2> QED
    BY <2>1, LogsInit, DetailInit, SessionInit, SignedOffInit, ThemeInit, CostInit, ViewsInit
    DEF PagesInv
<1>2. PagesInv /\ [PagesNext]_pagesVars => PagesInv'
  <2> SUFFICES ASSUME PagesInv, [PagesNext]_pagesVars PROVE PagesInv'
    OBVIOUS
  <2>1. /\ [Logs!Next]_Logs!vars /\ [Detail!Next]_Detail!vars /\ [Session!Next]_Session!vars
        /\ [Themes!Next]_Themes!vars /\ [Cost!Next]_Cost!vars /\ [Views!Next]_Views!vars
    BY StepOfAPage
  <2>2. LogsInv' /\ DetailInv' /\ SessionInv'
    BY <2>1, LogsStep, DetailStep, SessionStep DEF PagesInv
  <2>3. ThemeInv' /\ CostInv' /\ ViewsInv'
    BY <2>1, ThemeStep, CostStep, ViewsStep DEF PagesInv
  <2> QED
    BY <2>2, <2>3 DEF PagesInv
<1> QED
  BY <1>1, <1>2, PTL DEF PagesSpec

(* The rows of the log begin within the requests there are, the page of a    *)
(* request shows the one of its address, buttons that are held back have an  *)
(* answer to come, tabs agree on the theme, and the log, the page of a       *)
(* request and the badges tell the same of it: whatever the order of the     *)
(* answers and events, and for any responses of the upstreams.               *)
THEOREM PagesHold == PagesSpec => []PagesConsistent
<1>1. PagesInv => PagesConsistent
  <2> SUFFICES ASSUME PagesInv PROVE PagesConsistent
    OBVIOUS
  <2>1. Logs!TypeOK /\ Logs!PageWithinTotal
    BY LogsInvHolds DEF PagesInv
  <2>2. Detail!TypeOK /\ Detail!DetailOfAddress
    BY DetailInvHolds DEF PagesInv
  <2>3. Session!TypeOK /\ Themes!TypeOK /\ Themes!ClassFollowsTheme /\ Themes!TabsAgree
    BY SessionTypeOK, ThemesHold DEF PagesInv
  <2>4. Views!TypeOK /\ Views!TimesAddUp /\ Views!ListAgreesWithPage /\ Views!BadgesTell
    BY ViewsTypeOK, TimesHold, PagesAgree, BadgesHold DEF PagesInv
  <2> QED
    BY <2>1, <2>2, <2>3, <2>4 DEF PagesConsistent
<1> QED
  BY <1>1, PagesInvariance, PTL

(* The page of a request adds up, to the micro-USD, in tokens and in cost; a *)
(* key pays what is shown, or a micro-USD less; and the cards of the usage   *)
(* page add up, and make what the requests cost while no prompt was cached   *)
(* by OpenAI: for any prices and any usage that AnswerAssumption allows.     *)
(* That the counts parsed are the upstream's, and add up to its total, is    *)
(* that assumption and not proved: a row only keeps them.                    *)
THEOREM CostsHold == PagesSpec => []CostsAgree
<1>1. PagesInv => CostsAgree
  BY CostTypeOK, RowSaid, FormulasHold, ChargesHold, CardsHold DEF PagesInv, CostsAgree
<1> QED
  BY <1>1, PagesInvariance, PTL
=============================================================================
