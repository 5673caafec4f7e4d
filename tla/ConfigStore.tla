----------------------------- MODULE ConfigStore -----------------------------
(***************************************************************************)
(* The routing configuration: the provider and alias tables, the console   *)
(* handlers that change them, and the cached snapshot that requests are    *)
(* routed by (internal/configstore/store.go, internal/consoleapi/api.go,   *)
(* internal/repo/provider.go).                                             *)
(*                                                                         *)
(* Of a provider row only its enabled flag is kept.  What a snapshot holds *)
(* is the set of mutations it reflects: the two tables are read by two     *)
(* queries, and each reflects what was committed when it was read.         *)
(***************************************************************************)
EXTENDS Naturals, FiniteSets, TLC

CONSTANTS
  Mutation,  \* the console calls that change providers or aliases
  Request,   \* the inbound gateway calls
  Channel,   \* channel names
  NoChannel  \* the channel of a call that names none

ASSUME ConfigAssumption ==
  /\ IsFiniteSet(Mutation) /\ IsFiniteSet(Request)
  /\ Mutation \cap Request = {} /\ NoChannel \notin Channel

VARIABLES
  channels,   \* the provider table
  committed,  \* history: the mutations whose write was committed
  job,        \* the parameters of each mutation
  at,         \* where each mutation and each request stands
  view,       \* the snapshot each load is building
  current,    \* Store.current
  loaded,     \* Store.loaded
  flight,     \* requests inside the singleflight call "load"
  published   \* history: who has stored a snapshot

vars == <<channels, committed, job, at, view, current, loaded, flight, published>>

Loader == Mutation \cup Request
Kind   == {"create", "toggle", "edit", "delete", "alias"}
Row    == {"absent", "on", "off"}
Target == Channel \cup {NoChannel}
Job    == [kind: Kind \cup {"none"}, channel: Target, next: Target, enabled: {"on", "off"},
           saw: SUBSET Mutation]

(* raced: another snapshot was stored between this one's reads and its own   *)
(* storing.                                                                  *)
Snapshot    == [reflects: SUBSET Mutation, raced: BOOLEAN]
NewSnapshot == [reflects |-> {}, raced |-> FALSE]

(* A load reads the providers, then the aliases, stores the snapshot, then   *)
(* sets the flag: "providers" is a load about to read the providers, and so  *)
(* on.                                                                       *)
Loading      == {"providers", "aliases", "store", "mark"}
MutationAt   == {"idle", "reading", "writing", "refused", "stale", "answered"} \cup Loading
RequestAt    == {"idle", "joining", "leading", "sharing", "ready", "unavailable",
                 "routed"} \cup Loading

Init ==
  /\ channels \in [Channel -> Row]
  /\ committed = {}
  /\ job = [m \in Mutation |-> [kind |-> "none", channel |-> NoChannel, next |-> NoChannel,
                                enabled |-> "on", saw |-> {}]]
  /\ at = [l \in Loader |-> "idle"]
  /\ view = [l \in Loader |-> NewSnapshot]
  /\ current = NewSnapshot /\ loaded = FALSE
  /\ flight = {} /\ published = {}

store == <<current, loaded, published>>
table == <<channels, committed>>

Go(l, place) == at' = [at EXCEPT ![l] = place]

-----------------------------------------------------------------------------
(* The console *)

(* A console call arrives; an edit looks at the row first. *)
HandleMutation(m) ==
  /\ at[m] = "idle"
  /\ \E k \in Kind, c, n \in Target, e \in {"on", "off"} :
       /\ (k = "alias" <=> c = NoChannel) /\ (c = NoChannel <=> n = NoChannel)
       /\ k # "edit" => n = c
       /\ k # "toggle" => e = "on"
       /\ job' = [job EXCEPT ![m] = [kind |-> k, channel |-> c, next |-> n,
                                     enabled |-> e, saw |-> {}]]
       /\ Go(m, IF k = "edit" THEN "reading" ELSE "writing")
  /\ UNCHANGED <<table, view, store, flight>>

Exists(c)  == channels[c] # "absent"

(* PATCH keeps the enabled state the row has now. *)
GetByChannel(m) ==
  /\ at[m] = "reading" /\ Exists(job[m].channel)
  /\ job' = [job EXCEPT ![m].enabled = channels[job[m].channel], ![m].saw = committed]
  /\ Go(m, "writing")
  /\ UNCHANGED <<table, view, store, flight>>

(* The row is missing, the name is taken or the database fails. *)
Refuse(m) ==
  /\ at[m] \in {"reading", "writing"}
  /\ Go(m, "refused")
  /\ UNCHANGED <<table, job, view, store, flight>>

Commit(m, rows) ==
  /\ at[m] = "writing"
  /\ channels' = rows /\ committed' = committed \cup {m}
  /\ job' = [job EXCEPT ![m].saw = {}]
  /\ UNCHANGED <<view, store, flight>>

Upsert(m) ==
  /\ job[m].kind = "create"
  /\ Commit(m, [channels EXCEPT ![job[m].channel] = "on"])
  /\ Go(m, "providers")

(* The only mutation that answers without a refresh. *)
SetEnabled(m) ==
  /\ job[m].kind = "toggle" /\ Exists(job[m].channel)
  /\ Commit(m, [channels EXCEPT ![job[m].channel] = job[m].enabled])
  /\ Go(m, "answered")

(* What buildProviderInput leaves in an edit; the handler overwrites it with *)
(* what it read.                                                             *)
DefaultEnabled(m) == "off"
EditEnabled(m)    == job[m].enabled

Update(m) ==
  LET c == job[m].channel  n == job[m].next IN
  /\ job[m].kind = "edit" /\ Exists(c)
  /\ n # c => ~Exists(n)
  /\ Commit(m, [channels EXCEPT ![c] = "absent", ![n] = EditEnabled(m)])
  /\ Go(m, "providers")

DeleteUnrefreshed(m) ==
  /\ job[m].kind = "delete" /\ Exists(job[m].channel)
  /\ Commit(m, [channels EXCEPT ![job[m].channel] = "absent"])
  /\ Go(m, "answered")

Delete(m) ==
  /\ job[m].kind = "delete" /\ Exists(job[m].channel)
  /\ Commit(m, [channels EXCEPT ![job[m].channel] = "absent"])
  /\ Go(m, "providers")

(* Create, Update, SetEnabled and Delete of the alias repository. *)
MutateAlias(m) ==
  /\ job[m].kind = "alias"
  /\ Commit(m, channels)
  /\ Go(m, "providers")

-----------------------------------------------------------------------------
(* A load, by a mutation's Refresh or by the leader of EnsureLoaded *)

OfAliases == {m \in Mutation : job[m].kind = "alias"}

ReadProviders(l) ==
  /\ at[l] = "providers"
  /\ view' = [view EXCEPT ![l] = [reflects |-> committed \ OfAliases, raced |-> FALSE]]
  /\ Go(l, "aliases")
  /\ UNCHANGED <<table, job, store, flight>>

(* The flag is set before the snapshot is there. *)
ReadAliasesAndMark(l) ==
  /\ at[l] = "aliases"
  /\ view' = [view EXCEPT ![l].reflects = @ \cup (committed \cap OfAliases)]
  /\ Go(l, "store")
  /\ loaded' = TRUE
  /\ UNCHANGED <<table, job, current, published, flight>>

ReadAliases(l) ==
  /\ at[l] = "aliases"
  /\ view' = [view EXCEPT ![l].reflects = @ \cup (committed \cap OfAliases)]
  /\ Go(l, "store")
  /\ UNCHANGED <<table, job, store, flight>>

Overtaken(l) == {k \in Loader \ {l} : at[k] \in {"aliases", "store"}}

StoreSnapshot(l) ==
  /\ at[l] = "store"
  /\ current' = view[l]
  /\ published' = published \cup {l}
  /\ view' = [k \in Loader |->
       CASE k \in Overtaken(l) -> [view[k] EXCEPT !.raced = TRUE]
         [] k = l -> NewSnapshot
         [] OTHER -> view[k]]
  /\ Go(l, "mark")
  /\ UNCHANGED <<table, job, loaded, flight>>

(* The singleflight call ends: its leader and whoever shares it go on. *)
Land(place) ==
  /\ at' = [l \in Loader |-> IF l \in flight THEN place ELSE at[l]]
  /\ flight' = {}

MarkLoaded(l) ==
  /\ at[l] = "mark"
  /\ loaded' = TRUE
  /\ IF l \in Request THEN Land("ready") ELSE Go(l, "answered") /\ UNCHANGED flight
  /\ UNCHANGED <<table, job, view, current, published>>

LoadFailsAlone(l) ==
  /\ at[l] \in {"providers", "aliases"}
  /\ Go(l, IF l \in Request THEN "unavailable" ELSE "stale")
  /\ view' = [view EXCEPT ![l] = NewSnapshot]
  /\ UNCHANGED <<table, job, store, flight>>

(* A query fails, or the client of the call that runs it has gone.  The      *)
(* console ignores the error; every sharer of a flight gets it.              *)
LoadFails(l) ==
  /\ at[l] \in {"providers", "aliases"}
  /\ IF l \in Request THEN Land("unavailable") ELSE Go(l, "stale") /\ UNCHANGED flight
  /\ view' = [view EXCEPT ![l] = NewSnapshot]
  /\ UNCHANGED <<table, job, store>>

-----------------------------------------------------------------------------
(* The gateway *)

EnsureLoaded(r) ==
  /\ at[r] = "idle"
  /\ Go(r, IF loaded THEN "ready" ELSE "joining")
  /\ UNCHANGED <<table, job, view, store, flight>>

(* group.Do: the first to come leads, the others wait for its result. *)
Do(r) ==
  /\ at[r] = "joining"
  /\ Go(r, IF flight = {} THEN "leading" ELSE "sharing")
  /\ flight' = flight \cup {r}
  /\ UNCHANGED <<table, job, view, store>>

NoRecheck(r) ==
  /\ at[r] = "leading"
  /\ Go(r, "providers") /\ UNCHANGED flight
  /\ UNCHANGED <<table, job, view, store>>

(* The leader looks at the flag again before it loads. *)
Recheck(r) ==
  /\ at[r] = "leading"
  /\ IF loaded THEN Land("ready") ELSE Go(r, "providers") /\ UNCHANGED flight
  /\ UNCHANGED <<table, job, view, store>>

(* handleProxy takes the snapshot. *)
Route(r) ==
  /\ at[r] = "ready"
  /\ Go(r, "routed")
  /\ UNCHANGED <<table, job, view, store, flight>>

-----------------------------------------------------------------------------
Load(l) == ReadProviders(l) \/ ReadAliases(l) \/ StoreSnapshot(l) \/ MarkLoaded(l)
             \/ LoadFails(l)
Write(m) == Upsert(m) \/ SetEnabled(m) \/ Update(m) \/ Delete(m) \/ MutateAlias(m)
Console(m) == HandleMutation(m) \/ GetByChannel(m) \/ Refuse(m) \/ Write(m)
Serve(r) == Do(r) \/ Recheck(r) \/ Route(r)

Done ==
  /\ \A m \in Mutation : at[m] \in {"refused", "stale", "answered"}
  /\ \A r \in Request : at[r] \in {"unavailable", "routed"}
  /\ UNCHANGED vars

Next ==
  \/ \E m \in Mutation : Console(m)
  \/ \E r \in Request : EnsureLoaded(r) \/ Serve(r)
  \/ \E l \in Loader : Load(l)
  \/ Done

Spec == Init /\ [][Next]_vars

-----------------------------------------------------------------------------
(* Properties *)

TypeOK ==
  /\ channels \in [Channel -> Row]
  /\ committed \subseteq Mutation
  /\ job \in [Mutation -> Job]
  /\ at \in [Loader -> MutationAt \cup RequestAt]
  /\ view \in [Loader -> Snapshot]
  /\ current \in Snapshot /\ loaded \in BOOLEAN
  /\ flight \subseteq Request /\ published \subseteq Loader

(* Whoever passes EnsureLoaded, while a first load of another request or of  *)
(* the console is still on its way, finds a snapshot that was read from the  *)
(* database and not the empty one of NewStore (store.go:152-153).            *)
ReadyMeansLoaded == (\E r \in Request : at[r] = "ready") => published # {}

(* However the calls of a cold start interleave, with each other and with    *)
(* refreshes, at most one of them loads the configuration (store.go:173-175).*)
OneLoadAtBoot == \A r, s \in published \cap Request : r = s

Refreshing == {m \in committed : job[m].kind # "toggle"}

(* A create, edit, delete or alias change whose refresh succeeded is in the  *)
(* snapshot once it is answered, whatever loads ran beside it, unless the    *)
(* load that was stored last overlapped another one: then an older snapshot  *)
(* may have replaced a newer one (store.go:195-204).                         *)
AnsweredChangesRouted ==
  ~current.raced => {m \in Refreshing : at[m] = "answered"} \subseteq current.reflects

(* The same for the enabled flag of a provider: "Called after any admin      *)
(* mutation (create/update/delete provider or alias)" (store.go:195-196).    *)
TogglesRouted ==
  loaded /\ ~current.raced =>
    {m \in committed \ Refreshing : at[m] = "answered"} \subseteq current.reflects

Touched(m) == {job[m].channel, job[m].next}

Disturbed(m) ==
  \E o \in committed \ job[m].saw :
    job[o].kind # "alias" /\ job[m].channel \in Touched(o)

(* An edit, renaming the channel or not, leaves the enabled state as it is:  *)
(* it undoes a switch only if another console call changed the channel       *)
(* between the edit's read and its write (api.go:314-333, :999-1001).        *)
EditKeepsEnabled ==
  [][\A m \in Mutation :
       (job[m].kind = "edit" /\ m \in committed' \ committed) =>
         channels'[job[m].next] = channels[job[m].channel] \/ Disturbed(m)]_vars

(* No request waits for ever behind a flight: as long as somebody is in it,  *)
(* exactly one of them is its leader, at work, and whoever shares a result   *)
(* is in it, whether loads succeed, fail or find that a refresh came first   *)
(* (store.go:176-193).                                                       *)
FlightLed ==
  /\ flight = {r \in Request : at[r] \in {"leading", "sharing"} \cup Loading}
  /\ flight # {} => \E r \in flight : \A s \in flight : at[s] # "sharing" <=> s = r

(* For TLC: no action or property names a call or a channel, so states that  *)
(* differ in their names alone are one.                                      *)
Interchangeable == Permutations(Mutation) \cup Permutations(Request) \cup Permutations(Channel)
=============================================================================
