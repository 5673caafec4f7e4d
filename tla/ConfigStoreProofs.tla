-------------------------- MODULE ConfigStoreProofs --------------------------
(***************************************************************************)
(* Proofs about ConfigStore for any number of console calls, requests and  *)
(* channels.  No invariant of ConfigStore is inductive alone:              *)
(* AnsweredChangesRouted needs to know what the snapshots under            *)
(* construction reflect (Fresh), OneLoadAtBoot that nobody loads once a    *)
(* request has stored a snapshot (Boot), which rests on FlightLed, and     *)
(* EditKeepsEnabled what an edit has read (ReadHolds).                     *)
(***************************************************************************)
EXTENDS ConfigStore, TLAPS

(* Who is where, beyond TypeOK: the places of requests and of console calls. *)
Places ==
  /\ TypeOK
  /\ \A m \in Mutation : /\ at[m] \in MutationAt
                          /\ at[m] = "reading" => job[m].channel \in Channel
  /\ \A r \in Request : at[r] \in RequestAt

Answered == {m \in Refreshing : at[m] \in {"mark", "answered"}}

(* A console call's own load, and every load that no other one overtook,     *)
(* reflects what is answered by now, as far as it has read.                  *)
Fresh ==
  /\ \A m \in committed : at[m] \in Loading \cup {"stale", "answered"}
  /\ ~current.raced => Answered \subseteq current.reflects
  /\ \A l \in Loader : /\ at[l] = "aliases" /\ ~view[l].raced =>
                            Answered \ OfAliases \subseteq view[l].reflects
                       /\ at[l] = "store" /\ ~view[l].raced =>
                            Answered \subseteq view[l].reflects
  /\ \A m \in committed : /\ at[m] = "aliases" /\ m \notin OfAliases => m \in view[m].reflects
                          /\ at[m] = "store" => m \in view[m].reflects

(* A request that has stored a snapshot is about to set the flag or has set  *)
(* it; until then nobody else may load.                                      *)
Boot ==
  /\ OneLoadAtBoot /\ ReadyMeansLoaded
  /\ \A r \in Request : at[r] = "mark" => r \in published
  /\ \A r \in published \cap Request : at[r] = "mark" \/ loaded
  /\ (\E r \in Request : at[r] \in {"providers", "aliases", "store"}) =>
       published \cap Request = {}
  /\ loaded => published # {}
  /\ \A m \in Mutation : at[m] = "mark" => published # {}

IInv == Places /\ FlightLed /\ Fresh /\ Boot

USE ConfigAssumption DEF Loader, Loading, MutationAt, RequestAt, store, table, Go

-----------------------------------------------------------------------------
(* What a console call does before its load moves no request. *)
LEMMA WriteMoves ==
  ASSUME Places, NEW m \in Mutation, Write(m)
  PROVE  /\ at[m] = "writing"
         /\ \E place \in {"providers", "answered"} :
              /\ at' = [at EXCEPT ![m] = place]
              /\ place = "answered" => job[m].kind = "toggle"
         /\ committed' = committed \cup {m}
         /\ job' = [job EXCEPT ![m].saw = {}]
         /\ channels' \in [Channel -> Row]
         /\ UNCHANGED <<view, store, flight>>
<1> USE DEF Places, TypeOK, Commit
<1>0. at[m] = "writing"
  BY DEF Write, Upsert, SetEnabled, Update, Delete, MutateAlias
<1>1. CASE Upsert(m)
  BY <1>0, <1>1 DEF Upsert, Row
<1>2. CASE SetEnabled(m)
  <2>1. job[m].enabled \in Row
    BY DEF Job, Row
  <2> QED BY <1>0, <1>2, <2>1 DEF SetEnabled
<1>3. CASE Update(m)
  <2>1. job[m].enabled \in Row /\ "absent" \in Row
    BY DEF Job, Row
  <2> QED BY <1>0, <1>3, <2>1 DEF Update, EditEnabled
<1>4. CASE Delete(m)
  BY <1>0, <1>4 DEF Delete, Row
<1>5. CASE MutateAlias(m)
  BY <1>0, <1>5 DEF MutateAlias
<1> QED BY <1>1, <1>2, <1>3, <1>4, <1>5 DEF Write

LEMMA PlacesInit == Init => Places
<1> SUFFICES ASSUME Init PROVE Places
  OBVIOUS
<1>1. [kind |-> "none", channel |-> NoChannel, next |-> NoChannel, enabled |-> "on", saw |-> {}] \in Job
  BY DEF Job, Target
<1>2. NewSnapshot \in Snapshot
  BY DEF NewSnapshot, Snapshot
<1> QED BY <1>1, <1>2 DEF Init, Places, TypeOK

LEMMA PlacesNext == Places /\ [Next]_vars => Places'
<1> SUFFICES ASSUME Places, [Next]_vars PROVE Places'
  OBVIOUS
<1> USE DEF Places, TypeOK
<1>1. ASSUME NEW m \in Mutation, HandleMutation(m) PROVE Places'
  <2>1. PICK k \in Kind, c \in Target, n \in Target, e \in {"on", "off"} :
          /\ (k = "alias" <=> c = NoChannel)
          /\ job' = [job EXCEPT ![m] = [kind |-> k, channel |-> c, next |-> n,
                                        enabled |-> e, saw |-> {}]]
          /\ at' = [at EXCEPT ![m] = IF k = "edit" THEN "reading" ELSE "writing"]
    BY <1>1 DEF HandleMutation
  <2>2. [kind |-> k, channel |-> c, next |-> n, enabled |-> e, saw |-> {}] \in Job
    BY DEF Job
  <2>3. job' \in [Mutation -> Job]
    BY <2>1, <2>2
  <2>4. k = "edit" => c \in Channel
    BY <2>1 DEF Target
  <2>5. UNCHANGED <<channels, committed, view, current, loaded, published, flight>>
    BY <1>1 DEF HandleMutation
  <2>6. \A o \in Mutation : /\ at'[o] \in MutationAt
                             /\ at'[o] = "reading" => job'[o].channel \in Channel
    BY <2>1, <2>4
  <2> QED BY <2>1, <2>3, <2>5, <2>6
<1>2. ASSUME NEW m \in Mutation, GetByChannel(m) PROVE Places'
  <2>1. channels[job[m].channel] \in {"on", "off"}
    BY <1>2 DEF GetByChannel, Exists, Row
  <2> DEFINE read == [job[m] EXCEPT !.enabled = channels[job[m].channel]]
  <2>2. read \in Job
    BY <2>1 DEF Job
  <2>3. job' = [job EXCEPT ![m] = [read EXCEPT !.saw = committed]]
    BY <1>2 DEF GetByChannel
  <2>4. [read EXCEPT !.saw = committed] \in Job
    <3> HIDE DEF read
    <3> QED BY <2>2 DEF Job
  <2>5. job' \in [Mutation -> Job]
    BY <2>3, <2>4
  <2>6. \A o \in Mutation : job'[o].channel = job[o].channel
    BY <2>3 DEF Job
  <2> QED BY <1>2, <2>5, <2>6 DEF GetByChannel
<1>3. ASSUME NEW m \in Mutation, Refuse(m) PROVE Places'
  BY <1>3 DEF Refuse
<1>4. ASSUME NEW m \in Mutation, Write(m) PROVE Places'
  <2>1. job' \in [Mutation -> Job]
    BY <1>4, WriteMoves DEF Job
  <2>2. \A o \in Mutation : job'[o].channel = job[o].channel
    BY <1>4, WriteMoves DEF Job
  <2> QED BY <1>4, <2>1, <2>2, WriteMoves
<1>5. ASSUME NEW r \in Request, EnsureLoaded(r) PROVE Places'
  BY <1>5 DEF EnsureLoaded
<1>6. ASSUME NEW r \in Request, Serve(r) PROVE Places'
  BY <1>6 DEF Serve, Do, Recheck, Route, Land
<1>7. ASSUME NEW l \in Loader, ReadProviders(l) PROVE Places'
  BY <1>7 DEF ReadProviders, Snapshot
<1>8. ASSUME NEW l \in Loader, ReadAliases(l) PROVE Places'
  BY <1>8 DEF ReadAliases, Snapshot
<1>9. ASSUME NEW l \in Loader, StoreSnapshot(l) PROVE Places'
  <2>1. view' \in [Loader -> Snapshot]
    BY <1>9 DEF StoreSnapshot, Snapshot, NewSnapshot
  <2> QED BY <1>9, <2>1 DEF StoreSnapshot
<1>10. ASSUME NEW l \in Loader, MarkLoaded(l) PROVE Places'
  BY <1>10 DEF MarkLoaded, Land
<1>11. ASSUME NEW l \in Loader, LoadFails(l) PROVE Places'
  BY <1>11 DEF LoadFails, Land, Snapshot, NewSnapshot
<1>12. ASSUME UNCHANGED vars PROVE Places'
  BY <1>12 DEF vars
<1> QED
  BY <1>1, <1>2, <1>3, <1>4, <1>5, <1>6, <1>7, <1>8, <1>9, <1>10, <1>11, <1>12
  DEF Next, Console, Load, Done

-----------------------------------------------------------------------------
(* Requests and their flight *)

(* Where the calls of the console go, no request does. *)
LEMMA ConsoleMoves ==
  ASSUME Places, NEW m \in Mutation, Console(m)
  PROVE  /\ \A r \in Request : at'[r] = at[r]
         /\ UNCHANGED <<view, store, flight>>
         /\ at'[m] # "mark" /\ at[m] \notin Loading
         /\ \A l \in Loader : l # m => at'[l] = at[l]
<1> USE DEF Places, TypeOK
<1>1. CASE HandleMutation(m)
  BY <1>1 DEF HandleMutation
<1>2. CASE GetByChannel(m)
  BY <1>2 DEF GetByChannel
<1>3. CASE Refuse(m)
  BY <1>3 DEF Refuse
<1>4. CASE Write(m)
  BY <1>4, WriteMoves
<1> QED BY <1>1, <1>2, <1>3, <1>4 DEF Console

LEMMA FlightNext == Places /\ FlightLed /\ [Next]_vars => FlightLed'
<1> SUFFICES ASSUME Places, FlightLed, [Next]_vars PROVE FlightLed'
  OBVIOUS
<1> USE DEF Places, TypeOK, FlightLed
<1>1. ASSUME NEW m \in Mutation, Console(m) PROVE FlightLed'
  BY <1>1, ConsoleMoves
<1>2. ASSUME NEW r \in Request, EnsureLoaded(r) PROVE FlightLed'
  <2>1. r \notin flight /\ at'[r] \in {"ready", "joining"}
    BY <1>2 DEF EnsureLoaded
  <2>2. \A s \in Request : s # r => at'[s] = at[s]
    BY <1>2 DEF EnsureLoaded
  <2> QED BY <1>2, <2>1, <2>2 DEF EnsureLoaded
<1>3. ASSUME NEW r \in Request, Do(r) PROVE FlightLed'
  <2>1. r \notin flight /\ flight' = flight \cup {r}
    BY <1>3 DEF Do
  <2>2. at'[r] = IF flight = {} THEN "leading" ELSE "sharing"
    BY <1>3 DEF Do
  <2>3. \A s \in Request : s # r => at'[s] = at[s]
    BY <1>3 DEF Do
  <2>4. flight' = {s \in Request : at'[s] \in {"leading", "sharing"} \cup Loading}
    BY <2>1, <2>2, <2>3
  <2>5. CASE flight = {}
    BY <2>1, <2>2, <2>4, <2>5
  <2>6. CASE flight # {}
    <3>1. PICK s \in flight : \A t \in flight : at[t] # "sharing" <=> t = s
      BY <2>6
    <3>2. s \in flight' /\ \A t \in flight' : at'[t] # "sharing" <=> t = s
      BY <3>1, <2>1, <2>2, <2>3, <2>6
    <3> QED BY <3>2, <2>4
  <2> QED BY <2>5, <2>6
<1>4. ASSUME NEW place \in {"ready", "unavailable"}, Land(place) PROVE FlightLed'
  BY <1>4 DEF Land
<1>5. ASSUME NEW r \in Request, Recheck(r) PROVE FlightLed'
  <2>1. CASE loaded
    BY <2>1, <1>4, <1>5 DEF Recheck
  <2>2. CASE ~loaded
    BY <2>2, <1>5 DEF Recheck
  <2> QED BY <2>1, <2>2
<1>6. ASSUME NEW r \in Request, Route(r) PROVE FlightLed'
  <2>1. r \notin flight /\ at'[r] = "routed"
    BY <1>6 DEF Route
  <2>2. \A s \in Request : s # r => at'[s] = at[s]
    BY <1>6 DEF Route
  <2> QED BY <1>6, <2>1, <2>2 DEF Route
<1>7. ASSUME NEW l \in Loader, ReadProviders(l) \/ ReadAliases(l) \/ StoreSnapshot(l)
      PROVE FlightLed'
  <2>1. /\ at[l] \in Loading /\ at'[l] \in Loading /\ flight' = flight
        /\ \A s \in Loader : s # l => at'[s] = at[s]
    BY <1>7 DEF ReadProviders, ReadAliases, StoreSnapshot
  <2> QED BY <2>1
<1>8. ASSUME NEW l \in Loader, MarkLoaded(l) \/ LoadFails(l) PROVE FlightLed'
  <2>1. CASE l \in Request
    BY <2>1, <1>4, <1>8 DEF MarkLoaded, LoadFails
  <2>2. CASE l \notin Request
    <3>1. flight' = flight /\ \A s \in Request : at'[s] = at[s]
      BY <2>2, <1>8 DEF MarkLoaded, LoadFails
    <3> QED BY <3>1
  <2> QED BY <2>1, <2>2
<1>9. ASSUME UNCHANGED vars PROVE FlightLed'
  BY <1>9 DEF vars
<1> QED
  BY <1>1, <1>2, <1>3, <1>5, <1>6, <1>7, <1>8, <1>9 DEF Next, Load, Serve, Done

LEMMA BootNext == Places /\ FlightLed /\ Boot /\ [Next]_vars => Boot'
<1> SUFFICES ASSUME Places, FlightLed, Boot, [Next]_vars PROVE Boot'
  OBVIOUS
<1> USE DEF Places, TypeOK, Boot, OneLoadAtBoot, ReadyMeansLoaded
<1>1. ASSUME NEW m \in Mutation, Console(m) PROVE Boot'
  BY <1>1, ConsoleMoves
<1>2. ASSUME NEW r \in Request, EnsureLoaded(r) PROVE Boot'
  BY <1>2 DEF EnsureLoaded
<1>3. ASSUME NEW r \in Request, Do(r) PROVE Boot'
  BY <1>3 DEF Do
<1>4. ASSUME NEW r \in Request, Recheck(r) PROVE Boot'
  <2>1. \A s \in Request : at[s] # "mark"
    BY <1>4 DEF Recheck, FlightLed
  <2>2. CASE loaded
    BY <2>1, <2>2, <1>4 DEF Recheck, Land
  <2>3. CASE ~loaded
    BY <2>1, <2>3, <1>4 DEF Recheck
  <2> QED BY <2>2, <2>3
<1>5. ASSUME NEW r \in Request, Route(r) PROVE Boot'
  BY <1>5 DEF Route
<1>6. ASSUME NEW l \in Loader, ReadProviders(l) \/ ReadAliases(l) PROVE Boot'
  <2>1. /\ at[l] \in {"providers", "aliases"} /\ at'[l] \in {"aliases", "store"}
        /\ \A s \in Loader : s # l => at'[s] = at[s]
        /\ UNCHANGED <<loaded, published>>
    BY <1>6 DEF ReadProviders, ReadAliases
  <2> QED BY <2>1
<1>7. ASSUME NEW l \in Loader, StoreSnapshot(l) PROVE Boot'
  <2>1. /\ at[l] = "store" /\ at'[l] = "mark" /\ published' = published \cup {l}
        /\ \A s \in Loader : s # l => at'[s] = at[s]
        /\ UNCHANGED loaded
    BY <1>7 DEF StoreSnapshot
  <2>2. CASE l \in Request
    <3>1. published \cap Request = {}
      BY <2>1, <2>2
    <3>2. \A s \in Request : at'[s] \notin {"providers", "aliases", "store"}
      BY <2>1, <2>2 DEF FlightLed
    <3> QED BY <2>1, <2>2, <3>1, <3>2
  <2>3. CASE l \notin Request
    <3>1. published' \cap Request = published \cap Request
      BY <2>1, <2>3
    <3> QED BY <2>1, <2>3, <3>1
  <2> QED BY <2>2, <2>3
<1>8. ASSUME NEW l \in Loader, MarkLoaded(l) PROVE Boot'
  <2>1. published # {} /\ loaded' /\ published' = published
    BY <1>8 DEF MarkLoaded
  <2>2. \A s \in Loader : at'[s] \in Loading => at'[s] = at[s]
    BY <1>8 DEF MarkLoaded, Land
  <2> QED BY <2>1, <2>2
<1>9. ASSUME NEW l \in Loader, LoadFails(l) PROVE Boot'
  <2>1. UNCHANGED <<loaded, published, current>> /\ at[l] \in {"providers", "aliases"}
    BY <1>9 DEF LoadFails
  <2>2. CASE l \in Request
    BY <2>1, <2>2, <1>9 DEF LoadFails, Land
  <2>3. CASE l \notin Request
    BY <2>1, <2>3, <1>9 DEF LoadFails
  <2> QED BY <2>2, <2>3
<1>10. ASSUME UNCHANGED vars PROVE Boot'
  BY <1>10 DEF vars
<1> QED
  BY <1>1, <1>2, <1>3, <1>4, <1>5, <1>6, <1>7, <1>8, <1>9, <1>10 DEF Next, Load, Serve, Done

-----------------------------------------------------------------------------
(* What snapshots reflect *)

LEMMA FreshWrite ==
  ASSUME Places, Fresh, NEW m \in Mutation, Write(m)
  PROVE  Fresh'
<1> USE DEF Places, TypeOK
<1>1. PICK place \in {"providers", "answered"} :
        /\ at' = [at EXCEPT ![m] = place]
        /\ place = "answered" => job[m].kind = "toggle"
  BY WriteMoves
<1>2. /\ at[m] = "writing" /\ at'[m] = place
      /\ \A l \in Loader : l # m => at'[l] = at[l]
  BY <1>1, WriteMoves
<1>3. \A o \in Mutation : job'[o].kind = job[o].kind
  BY WriteMoves DEF Job
<1>4. OfAliases' = OfAliases
  BY <1>3 DEF OfAliases
<1>5. committed' = committed \cup {m} /\ m \notin committed
  BY <1>2, WriteMoves DEF Fresh
<1>6. Answered' = Answered
  BY <1>1, <1>2, <1>3, <1>5 DEF Answered, Refreshing
<1>7. UNCHANGED <<view, current>>
  BY WriteMoves
<1> QED BY <1>1, <1>2, <1>4, <1>5, <1>6, <1>7 DEF Fresh

(* A step that commits nothing, stores nothing, and neither begins nor ends  *)
(* the reads of a load.                                                      *)
Apart ==
  /\ UNCHANGED <<committed, view, current>>
  /\ \A m \in committed : /\ job'[m].kind = job[m].kind
                          /\ at'[m] = at[m] \/ (at[m] = "mark" /\ at'[m] = "answered")
  /\ \A l \in Loader : at'[l] \in {"aliases", "store"} => at'[l] = at[l]

LEMMA FreshKept ==
  ASSUME Places, Fresh, Apart
  PROVE  Fresh'
<1> USE DEF Places, TypeOK, Apart
<1>1. Answered' \subseteq Answered
  BY DEF Answered, Refreshing
<1>2. \A m \in committed : m \in OfAliases' <=> m \in OfAliases
  BY DEF OfAliases
<1>3. Answered' \ OfAliases' \subseteq Answered \ OfAliases
  BY <1>1, <1>2 DEF Answered, Refreshing
<1> QED BY <1>1, <1>2, <1>3 DEF Fresh

LEMMA FreshNext == Places /\ FlightLed /\ Fresh /\ [Next]_vars => Fresh'
<1> SUFFICES ASSUME Places, FlightLed, Fresh, [Next]_vars PROVE Fresh'
  OBVIOUS
<1> USE DEF Places, TypeOK
<1>1. ASSUME NEW m \in Mutation, HandleMutation(m) PROVE Fresh'
  <2>1. m \notin committed
    BY <1>1 DEF HandleMutation, Fresh
  <2>2. Apart
    BY <1>1, <2>1 DEF Apart, HandleMutation
  <2> QED BY <2>2, FreshKept
<1>2. ASSUME NEW m \in Mutation, GetByChannel(m) PROVE Fresh'
  <2>1. m \notin committed
    BY <1>2 DEF GetByChannel, Fresh
  <2>2. Apart
    BY <1>2, <2>1 DEF Apart, GetByChannel
  <2> QED BY <2>2, FreshKept
<1>3. ASSUME NEW m \in Mutation, Refuse(m) PROVE Fresh'
  <2>1. m \notin committed
    BY <1>3 DEF Refuse, Fresh
  <2>2. Apart
    BY <1>3, <2>1 DEF Apart, Refuse
  <2> QED BY <2>2, FreshKept
<1>4. ASSUME NEW m \in Mutation, Write(m) PROVE Fresh'
  BY <1>4, FreshWrite
<1>5. ASSUME NEW r \in Request, EnsureLoaded(r) \/ Serve(r) PROVE Fresh'
  <2>1. \A m \in Mutation : at'[m] = at[m]
    BY <1>5 DEF EnsureLoaded, Serve, Do, Recheck, Route, Land
  <2>2. \A s \in Request : at'[s] \in {"aliases", "store"} => at'[s] = at[s]
    BY <1>5 DEF EnsureLoaded, Serve, Do, Recheck, Route, Land
  <2>3. UNCHANGED <<committed, job, view, current>>
    BY <1>5 DEF EnsureLoaded, Serve, Do, Recheck, Route
  <2>4. Apart
    BY <2>1, <2>2, <2>3 DEF Apart
  <2> QED BY <2>4, FreshKept
<1>6. ASSUME NEW l \in Loader, ReadProviders(l) PROVE Fresh'
  <2>1. /\ at[l] = "providers" /\ at'[l] = "aliases"
        /\ \A k \in Loader : k # l => at'[k] = at[k] /\ view'[k] = view[k]
        /\ view'[l].reflects = committed \ OfAliases
        /\ UNCHANGED <<committed, job, current>>
    BY <1>6 DEF ReadProviders
  <2>2. Answered' = Answered /\ OfAliases' = OfAliases /\ Answered \subseteq committed
    BY <2>1 DEF Answered, Refreshing, OfAliases
  <2> QED BY <2>1, <2>2 DEF Fresh
<1>7. ASSUME NEW l \in Loader, ReadAliases(l) PROVE Fresh'
  <2>1. /\ at[l] = "aliases" /\ at'[l] = "store"
        /\ \A k \in Loader : k # l => at'[k] = at[k] /\ view'[k] = view[k]
        /\ view'[l].reflects = view[l].reflects \cup (committed \cap OfAliases)
        /\ view'[l].raced = view[l].raced
        /\ UNCHANGED <<committed, job, current>>
    BY <1>7 DEF ReadAliases, Snapshot
  <2>2. Answered' = Answered /\ OfAliases' = OfAliases /\ Answered \subseteq committed
    BY <2>1 DEF Answered, Refreshing, OfAliases
  <2>3. ~view[l].raced => Answered \subseteq view'[l].reflects
    BY <2>1, <2>2 DEF Fresh
  <2> QED BY <2>1, <2>2, <2>3 DEF Fresh
<1>8. ASSUME NEW l \in Loader, StoreSnapshot(l) PROVE Fresh'
  <2>1. /\ at[l] = "store" /\ at'[l] = "mark"
        /\ \A k \in Loader : k # l => at'[k] = at[k]
        /\ current' = view[l]
        /\ UNCHANGED <<committed, job>>
    BY <1>8 DEF StoreSnapshot
  <2>2. \A k \in Loader : k # l /\ at[k] \in {"aliases", "store"} =>
          view'[k].raced /\ view'[k].reflects = view[k].reflects
    BY <1>8 DEF StoreSnapshot, Overtaken, Snapshot
  <2>3. Answered' \subseteq Answered \cup {l} /\ OfAliases' = OfAliases
    BY <2>1 DEF Answered, Refreshing, OfAliases
  <2>4. ~current'.raced => Answered' \subseteq current'.reflects
    BY <2>1, <2>3 DEF Fresh, Answered, Refreshing
  <2> QED BY <2>1, <2>2, <2>3, <2>4 DEF Fresh
<1>9. ASSUME NEW l \in Loader, MarkLoaded(l) PROVE Fresh'
  <2>1. /\ UNCHANGED <<committed, job, view, current>>
        /\ \A k \in Loader : at'[k] \in {"aliases", "store"} => at'[k] = at[k]
    BY <1>9 DEF MarkLoaded, Land
  <2>2. \A m \in Mutation : at'[m] = at[m] \/ (at[m] = "mark" /\ at'[m] = "answered")
    BY <1>9 DEF MarkLoaded, Land
  <2>3. Apart
    BY <2>1, <2>2 DEF Apart
  <2> QED BY <2>3, FreshKept
<1>10. ASSUME NEW l \in Loader, LoadFails(l) PROVE Fresh'
  <2>0. l \in Request => l \in flight
    BY <1>10 DEF LoadFails, FlightLed
  <2>1. /\ UNCHANGED <<committed, job, current>>
        /\ \A k \in Loader : k # l => view'[k] = view[k]
        /\ \A k \in Loader : at'[k] \in {"aliases", "store"} => k # l /\ at'[k] = at[k]
    BY <2>0, <1>10 DEF LoadFails, Land
  <2>2. \A m \in Mutation : at'[m] = at[m] \/ (at[m] \in Loading /\ at'[m] = "stale")
    BY <1>10 DEF LoadFails, Land
  <2>3. Answered' \subseteq Answered /\ OfAliases' = OfAliases
    BY <2>1, <2>2 DEF Answered, Refreshing, OfAliases
  <2> QED BY <2>1, <2>2, <2>3 DEF Fresh
<1>11. ASSUME UNCHANGED vars PROVE Fresh'
  BY <1>11, FreshKept DEF vars, Apart
<1> QED
  BY <1>1, <1>2, <1>3, <1>4, <1>5, <1>6, <1>7, <1>8, <1>9, <1>10, <1>11
  DEF Next, Console, Load, Done

-----------------------------------------------------------------------------
(* The invariant holds initially and is kept by every step. *)
THEOREM Inductive == Spec => []IInv
<1>1. Init => IInv
  <2> SUFFICES ASSUME Init PROVE IInv
    OBVIOUS
  <2>1. Places
    BY PlacesInit
  <2>2. FlightLed /\ Boot
    BY DEF Init, FlightLed, Boot, OneLoadAtBoot, ReadyMeansLoaded
  <2>3. Fresh
    BY DEF Init, Fresh, Answered, Refreshing
  <2> QED BY <2>1, <2>2, <2>3 DEF IInv
<1>2. IInv /\ [Next]_vars => IInv'
  BY PlacesNext, FlightNext, BootNext, FreshNext DEF IInv
<1> QED BY <1>1, <1>2, PTL DEF Spec

(* Every reachable state is well typed; no call of the console is ever in a  *)
(* place of the gateway's or the other way round.                            *)
THEOREM TypeCorrect == Spec => []TypeOK
<1>1. IInv => TypeOK
  BY DEF IInv, Places
<1> QED BY <1>1, Inductive, PTL

(* A flight of EnsureLoaded always has exactly one leader at work, so nobody *)
(* shares a result that no one computes.                                     *)
THEOREM NobodyStranded == Spec => []FlightLed
<1>1. IInv => FlightLed
  BY DEF IInv
<1> QED BY <1>1, Inductive, PTL

(* However the calls of a cold start interleave, at most one of them loads.  *)
THEOREM BootLoadsOnce == Spec => []OneLoadAtBoot
<1>1. IInv => OneLoadAtBoot
  BY DEF IInv, Boot
<1> QED BY <1>1, Inductive, PTL

(* Whoever is let through, by its own load, a shared one or a refresh, finds *)
(* a snapshot that came from the database.                                   *)
THEOREM ReadyHasConfig == Spec => []ReadyMeansLoaded
<1>1. IInv => ReadyMeansLoaded
  BY DEF IInv, Boot
<1> QED BY <1>1, Inductive, PTL

(* A refreshed change is in the current snapshot once it is answered, unless *)
(* the load of that snapshot overlapped another one.                         *)
THEOREM ChangesReachRouting == Spec => []AnsweredChangesRouted
<1>1. IInv => AnsweredChangesRouted
  BY DEF IInv, Fresh, AnsweredChangesRouted, Answered
<1> QED BY <1>1, Inductive, PTL

-----------------------------------------------------------------------------
(* Edits and switches *)

(* What an edit has read of its channel still holds when it writes, unless   *)
(* another call that is committed since has touched the channel.             *)
ReadHolds ==
  /\ \A m \in Mutation : job[m].saw \subseteq committed
  /\ \A m \in Mutation : at[m] \in {"reading", "writing"} /\ job[m].kind = "edit" =>
       {job[m].channel, job[m].next} \subseteq Channel
  /\ \A m \in Mutation : at[m] = "writing" /\ job[m].kind = "edit" =>
       channels[job[m].channel] = job[m].enabled \/ Disturbed(m)

LEMMA ReadHoldsWrite ==
  ASSUME Places, Fresh, ReadHolds, NEW o \in Mutation, Write(o)
  PROVE  ReadHolds'
<1> USE DEF Places, TypeOK
<1>1. /\ at[o] = "writing" /\ at'[o] \notin {"reading", "writing"}
      /\ \A m \in Mutation \ {o} : at'[m] = at[m] /\ job'[m] = job[m]
      /\ committed' = committed \cup {o} /\ o \notin committed
      /\ job'[o] = [job[o] EXCEPT !.saw = {}]
  <2>1. PICK place \in {"providers", "answered"} : at' = [at EXCEPT ![o] = place]
    BY WriteMoves
  <2>2. /\ at[o] = "writing" /\ committed' = committed \cup {o}
        /\ job' = [job EXCEPT ![o].saw = {}]
    BY WriteMoves
  <2> QED BY <2>1, <2>2 DEF Fresh
<1>2. /\ job'[o].saw = {} /\ job'[o].kind = job[o].kind
      /\ job'[o].channel = job[o].channel /\ job'[o].next = job[o].next
  BY <1>1 DEF Job
<1>3. ASSUME NEW c \in Channel, job[o].kind = "alias" \/ c \notin Touched(o)
      PROVE  channels'[c] = channels[c]
  BY <1>3 DEF Write, Upsert, SetEnabled, Update, Delete, MutateAlias, Commit, Touched
<1>4. ASSUME NEW m \in Mutation, at'[m] = "writing", job'[m].kind = "edit"
      PROVE  channels'[job'[m].channel] = job'[m].enabled \/ Disturbed(m)'
  <2>1. m # o /\ job'[m] = job[m] /\ at[m] = "writing" /\ job[m].channel \in Channel
    BY <1>1, <1>4 DEF ReadHolds
  <2>2. o \notin job[m].saw
    BY <1>1 DEF ReadHolds
  <2>3. CASE job[o].kind # "alias" /\ job[m].channel \in Touched(o)
    BY <1>1, <1>2, <2>1, <2>2, <2>3 DEF Disturbed, Touched
  <2>4. CASE ~(job[o].kind # "alias" /\ job[m].channel \in Touched(o))
    <3>1. channels'[job[m].channel] = channels[job[m].channel]
      BY <1>3, <2>1, <2>4
    <3>2. Disturbed(m) => Disturbed(m)'
      BY <1>1, <1>2, <2>1 DEF Disturbed, Touched
    <3> QED BY <1>4, <2>1, <3>1, <3>2 DEF ReadHolds
  <2> QED BY <2>3, <2>4
<1>5. \A m \in Mutation : job'[m].saw \subseteq committed'
  BY <1>1, <1>2 DEF ReadHolds
<1>6. \A m \in Mutation : at'[m] \in {"reading", "writing"} /\ job'[m].kind = "edit" =>
        {job'[m].channel, job'[m].next} \subseteq Channel
  BY <1>1 DEF ReadHolds
<1> QED BY <1>4, <1>5, <1>6 DEF ReadHolds

LEMMA ReadHoldsNext == Places /\ Fresh /\ ReadHolds /\ [Next]_vars => ReadHolds'
<1> SUFFICES ASSUME Places, Fresh, ReadHolds, [Next]_vars PROVE ReadHolds'
  OBVIOUS
<1> USE DEF Places, TypeOK
<1>1. ASSUME NEW o \in Mutation, HandleMutation(o) PROVE ReadHolds'
  <2>1. PICK k \in Kind, c \in Target, n \in Target, e \in {"on", "off"} :
          /\ (k = "alias" <=> c = NoChannel) /\ (c = NoChannel <=> n = NoChannel)
          /\ job' = [job EXCEPT ![o] = [kind |-> k, channel |-> c, next |-> n,
                                        enabled |-> e, saw |-> {}]]
          /\ at' = [at EXCEPT ![o] = IF k = "edit" THEN "reading" ELSE "writing"]
    BY <1>1 DEF HandleMutation
  <2>2. at[o] = "idle" /\ o \notin committed /\ UNCHANGED <<channels, committed>>
    BY <1>1 DEF HandleMutation, Fresh
  <2>3. \A m \in Mutation \ {o} : job'[m] = job[m] /\ at'[m] = at[m]
    BY <2>1
  <2>4. /\ job'[o].saw = {} /\ job'[o].kind = k /\ job'[o].channel = c /\ job'[o].next = n
        /\ k = "edit" => at'[o] = "reading" /\ {c, n} \subseteq Channel
    BY <2>1 DEF Target
  <2>5. \A m \in Mutation \ {o} : Disturbed(m) => Disturbed(m)'
    BY <2>2, <2>3 DEF Disturbed, Touched
  <2> QED BY <2>2, <2>3, <2>4, <2>5 DEF ReadHolds
<1>2. ASSUME NEW o \in Mutation, GetByChannel(o) PROVE ReadHolds'
  <2> DEFINE c == job[o].channel
  <2>1. /\ at[o] = "reading" /\ o \notin committed /\ UNCHANGED <<channels, committed>>
        /\ job' = [job EXCEPT ![o] = [job[o] EXCEPT !.enabled = channels[c], !.saw = committed]]
    BY <1>2 DEF GetByChannel, Fresh
  <2>2. \A m \in Mutation \ {o} : job'[m] = job[m] /\ at'[m] = at[m]
    BY <1>2, <2>1 DEF GetByChannel
  <2>3. /\ job'[o].saw = committed /\ job'[o].enabled = channels[c]
        /\ job'[o].kind = job[o].kind /\ job'[o].channel = c /\ job'[o].next = job[o].next
    BY <2>1 DEF Job
  <2>4. \A m \in Mutation \ {o} : Disturbed(m) => Disturbed(m)'
    BY <2>1, <2>2 DEF Disturbed, Touched
  <2> QED BY <2>1, <2>2, <2>3, <2>4 DEF ReadHolds
<1>3. ASSUME UNCHANGED <<channels, committed, job>>,
             \A m \in Mutation : at'[m] \in {"reading", "writing"} => at'[m] = at[m]
      PROVE  ReadHolds'
  <2>1. \A m \in Mutation : Disturbed(m)' <=> Disturbed(m)
    BY <1>3 DEF Disturbed, Touched
  <2> QED BY <1>3, <2>1 DEF ReadHolds
<1>4. ASSUME NEW o \in Mutation, Refuse(o) PROVE ReadHolds'
  BY <1>3, <1>4 DEF Refuse
<1>5. ASSUME NEW r \in Request, EnsureLoaded(r) \/ Serve(r) PROVE ReadHolds'
  BY <1>3, <1>5 DEF EnsureLoaded, Serve, Do, Recheck, Route, Land
<1>6. ASSUME NEW l \in Loader, Load(l) PROVE ReadHolds'
  BY <1>3, <1>6
  DEF Load, ReadProviders, ReadAliases, StoreSnapshot, MarkLoaded, LoadFails, Land
<1>7. CASE UNCHANGED vars
  BY <1>3, <1>7 DEF vars
<1> QED
  BY <1>1, <1>2, <1>4, <1>5, <1>6, <1>7, ReadHoldsWrite DEF Next, Console, Done

(* An edit never undoes a switch it has not seen: the enabled state of the   *)
(* row it writes is the one the row had, however reads and writes of the     *)
(* console calls interleave, unless another one touched it in between.       *)
THEOREM EditsUndoNothing == Spec => EditKeepsEnabled
<1> DEFINE Step == \A m \in Mutation :
             (job[m].kind = "edit" /\ m \in committed' \ committed) =>
               channels'[job[m].next] = channels[job[m].channel] \/ Disturbed(m)
<1>1. Init => ReadHolds
  BY DEF Init, ReadHolds
<1>2. IInv /\ ReadHolds /\ [Next]_vars => ReadHolds'
  BY ReadHoldsNext DEF IInv
<1>3. IInv /\ ReadHolds /\ [Next]_vars => Step
  <2> SUFFICES ASSUME IInv, ReadHolds, [Next]_vars,
                      NEW m \in Mutation, job[m].kind = "edit", m \in committed', m \notin committed
               PROVE  channels'[job[m].next] = channels[job[m].channel] \/ Disturbed(m)
    OBVIOUS
  <2>1. ASSUME NEW o \in Mutation, Write(o) PROVE o = m
    BY <2>1, WriteMoves DEF IInv
  <2>2. Write(m)
    BY <2>1 DEF Next, Console, HandleMutation, GetByChannel, Refuse, EnsureLoaded, Serve, Do,
      Recheck, Route, Load, ReadProviders, ReadAliases, StoreSnapshot, MarkLoaded, LoadFails,
      Done, vars
  <2>3. Update(m) /\ at[m] = "writing"
    BY <2>2 DEF Write, Upsert, SetEnabled, Update, Delete, MutateAlias, Commit
  <2>4. {job[m].channel, job[m].next} \subseteq Channel
        /\ (channels[job[m].channel] = job[m].enabled \/ Disturbed(m))
    BY <2>3 DEF ReadHolds
  <2>5. channels'[job[m].next] = job[m].enabled
    BY <2>3, <2>4 DEF Update, Commit, EditEnabled, IInv, Places, TypeOK
  <2> QED BY <2>4, <2>5
<1>4. (Spec => [][Step]_vars) => (Spec => EditKeepsEnabled)
  BY DEF EditKeepsEnabled
<1> HIDE DEF Step
<1>5. Spec => [][Step]_vars
  BY <1>1, <1>2, <1>3, Inductive, PTL DEF Spec
<1> QED BY <1>4, <1>5
=============================================================================
