------------------------------ MODULE LogTasks ------------------------------
(***************************************************************************)
(* The coordinator of the asynchronous log writes                          *)
(* (internal/logtasks/logtasks.go).  A write is a task: those of           *)
(* TrackRequestWrite carry a key and are chained to the previous task of   *)
(* that key; those of Track are not.  What a task's function does is left  *)
(* to the modules that use this one.                                       *)
(***************************************************************************)
EXTENDS Integers, FiniteSets

CONSTANTS
  Task,      \* the calls of Track and TrackRequestWrite
  Key,       \* request identifiers
  KeyOf,     \* the request of each task, Plain for a call of Track
  Plain,
  Waiter,    \* the calls of WaitForRequest
  WaitKey,   \* the request each of them waits for
  NoTask     \* the nil channel

ASSUME LogTasksAssumption ==
  /\ IsFiniteSet(Task)
  /\ NoTask \notin Task /\ Plain \notin Key
  /\ KeyOf \in [Task -> Key \cup {Plain}]
  /\ WaitKey \in [Waiter -> Key]

VARIABLES
  stage,     \* how far each task is
  last,      \* the task that holds each key's entry in the map
  prev,      \* the task each keyed task waits for
  count,     \* the in-flight counter
  before,    \* history: tasks of its key linked earlier
  watch,     \* the channel each WaitForRequest returned
  waiting,   \* history: what each waiter found linked, and where it stands
  drain,     \* Wait: "idle", "waiting", "drained" or "expired"
  owed       \* history: tasks registered when Wait was called

vars == <<stage, last, prev, count, before, watch, waiting, drain, owed>>

Keyed(t) == KeyOf[t] # Plain

(* A task's stages, in order: its function runs between "running" and "ran"; *)
(* at "settled" the counter and the map entry are gone, at "closed" its      *)
(* channel is closed, at "gone" the wait group has forgotten it.             *)
Unfinished == {"unborn", "linked", "spawned", "running"}
Finished   == {"ran", "settled", "closed", "gone"}
Released   == {"closed", "gone"}
Counted    == {"spawned", "running", "ran"}

GroupedByGoroutine == {"running", "ran", "settled", "closed"}
Grouped            == {"spawned", "running", "ran", "settled", "closed"}

Init ==
  /\ stage = [t \in Task |-> "unborn"]
  /\ last = [k \in Key |-> NoTask]
  /\ prev = [t \in Task |-> NoTask]
  /\ count = 0
  /\ before = [t \in Task |-> {}]
  /\ watch = [w \in Waiter |-> NoTask]
  /\ waiting = [w \in Waiter |-> [at |-> "idle", owed |-> {}]]
  /\ drain = "idle" /\ owed = {}

chain   == <<last, prev, before>>
waiters == <<watch, waiting>>
drainer == <<drain, owed>>

Linked(k) == {t \in Task : KeyOf[t] = k /\ stage[t] # "unborn"}

PrevSelf(t) == t
PrevOf(t)   == last[KeyOf[t]]

(* First critical section of TrackRequestWrite. *)
Link(t) ==
  /\ Keyed(t) /\ stage[t] = "unborn"
  /\ stage' = [stage EXCEPT ![t] = "linked"]
  /\ prev' = [prev EXCEPT ![t] = PrevOf(t)]
  /\ last' = [last EXCEPT ![KeyOf[t]] = t]
  /\ before' = [before EXCEPT ![t] = Linked(KeyOf[t])]
  /\ UNCHANGED <<count, waiters, drainer>>

(* wg.Add, the counter and the go statement. *)
Register(t) ==
  /\ stage[t] = IF Keyed(t) THEN "linked" ELSE "unborn"
  /\ stage' = [stage EXCEPT ![t] = "spawned"]
  /\ count' = count + 1
  /\ UNCHANGED <<chain, waiters, drainer>>

Start(t) ==
  /\ stage[t] = "spawned"
  /\ prev[t] # NoTask => stage[prev[t]] \in Released
  /\ stage' = [stage EXCEPT ![t] = "running"]
  /\ UNCHANGED <<count, chain, waiters, drainer>>

Finish(t) ==
  /\ stage[t] = "running"
  /\ stage' = [stage EXCEPT ![t] = "ran"]
  /\ UNCHANGED <<count, chain, waiters, drainer>>

HoldsSomeEntry(t) == Keyed(t)
HoldsEntry(t)     == Keyed(t) /\ last[KeyOf[t]] = t

SettleKeepsEntry(t) ==
  /\ stage[t] = "ran"
  /\ stage' = [stage EXCEPT ![t] = "settled"]
  /\ count' = count - 1
  /\ UNCHANGED <<chain, waiters, drainer>>

(* The first deferred function to run. *)
Settle(t) ==
  /\ stage[t] = "ran"
  /\ stage' = [stage EXCEPT ![t] = "settled"]
  /\ count' = count - 1
  /\ last' = IF HoldsEntry(t) THEN [last EXCEPT ![KeyOf[t]] = NoTask] ELSE last
  /\ UNCHANGED <<prev, before, waiters, drainer>>

Close(t) ==
  /\ Keyed(t) /\ stage[t] = "settled"
  /\ stage' = [stage EXCEPT ![t] = "closed"]
  /\ UNCHANGED <<count, chain, waiters, drainer>>

Leave(t) ==
  /\ stage[t] = IF Keyed(t) THEN "closed" ELSE "settled"
  /\ stage' = [stage EXCEPT ![t] = "gone"]
  /\ UNCHANGED <<count, chain, waiters, drainer>>

WaitForRequest(w) ==
  /\ waiting[w].at = "idle"
  /\ watch' = [watch EXCEPT ![w] = last[WaitKey[w]]]
  /\ waiting' = [waiting EXCEPT ![w] = [at |-> "waiting", owed |-> Linked(WaitKey[w])]]
  /\ UNCHANGED <<stage, count, chain, drainer>>

WaitReturns(w) ==
  /\ waiting[w].at = "waiting"
  /\ watch[w] # NoTask => stage[watch[w]] \in Released
  /\ waiting' = [waiting EXCEPT ![w].at = "returned"]
  /\ UNCHANGED <<stage, count, chain, watch, drainer>>

OnTheirWay == {t \in Task : stage[t] \in {"spawned", "running"}}

Wait ==
  /\ drain = "idle"
  /\ drain' = "waiting" /\ owed' = OnTheirWay
  /\ UNCHANGED <<stage, count, chain, waiters>>

GroupEmpty == \A t \in Task : stage[t] \notin Grouped

Drained ==
  /\ drain = "waiting" /\ GroupEmpty
  /\ drain' = "drained"
  /\ UNCHANGED <<stage, count, chain, waiters, owed>>

Expired ==
  /\ drain = "waiting"
  /\ drain' = "expired"
  /\ UNCHANGED <<stage, count, chain, waiters, owed>>

Call(t)    == Link(t) \/ Register(t)
Perform(t) == Start(t) \/ Finish(t) \/ Settle(t) \/ Close(t) \/ Leave(t)
Await(w)   == WaitForRequest(w) \/ WaitReturns(w)

Done ==
  /\ \A t \in Task : stage[t] = "gone"
  /\ \A w \in Waiter : waiting[w].at = "returned"
  /\ drain \in {"drained", "expired"}
  /\ UNCHANGED vars

Next ==
  \/ \E t \in Task : Call(t) \/ Perform(t)
  \/ \E w \in Waiter : Await(w)
  \/ Wait \/ Drained \/ Expired
  \/ Done

Spec == Init /\ [][Next]_vars

(* The goroutines run, a call once begun is carried through, and the writes  *)
(* themselves end; nothing says that anybody calls.                          *)
FairSpec ==
  /\ Spec
  /\ \A t \in Task : /\ WF_vars(Register(t) /\ Keyed(t))
                     /\ WF_vars(Perform(t))
  /\ \A w \in Waiter : WF_vars(WaitReturns(w))

-----------------------------------------------------------------------------
(* Properties *)

TypeOK ==
  /\ stage \in [Task -> Unfinished \cup Finished]
  /\ last \in [Key -> Task \cup {NoTask}]
  /\ prev \in [Task -> Task \cup {NoTask}]
  /\ count \in Nat
  /\ before \in [Task -> SUBSET Task]
  /\ watch \in [Waiter -> Task \cup {NoTask}]
  /\ waiting \in [Waiter -> [at: {"idle", "waiting", "returned"}, owed: SUBSET Task]]
  /\ drain \in {"idle", "waiting", "drained", "expired"}
  /\ owed \in SUBSET Task

(* Writes of one request never overlap and run in the order of the calls,    *)
(* though every entry of the chain may be deleted while the next is linked   *)
(* (logtasks.go:10-12).                                                      *)
Serialized ==
  \A t \in Task : stage[t] \notin {"unborn", "linked", "spawned"} =>
    \A u \in before[t] : stage[u] \in Finished

(* WaitForRequest answers only when every write linked before it was asked   *)
(* has ended, also when it found no entry (logtasks.go:93-95).               *)
WaitMeansWritten ==
  \A w \in Waiter : waiting[w].at = "returned" =>
    \A t \in waiting[w].owed : stage[t] \in Finished

(* The map holds an entry only for a request that has a write on its way     *)
(* (logtasks.go:77-79).                                                      *)
MapBounded ==
  \A k \in Key : last[k] # NoTask =>
    KeyOf[last[k]] = k /\ stage[last[k]] \in {"linked", "spawned", "running", "ran"}

(* PendingCount is the number of tasks on their way (logtasks.go:125-126).   *)
CountExact == count = Cardinality({t \in Task : stage[t] \in Counted})

(* When Wait reports a drain, no write that was on its way when it was       *)
(* called is missing (logtasks.go:109-110).                                  *)
DrainComplete == drain = "drained" => \A t \in owed : stage[t] \in Finished

(* No chain of writes waits on itself: each linked write is carried out and  *)
(* whoever waits for a request hears of it.                                  *)
EveryWriteLands ==
  /\ \A t \in Task : stage[t] = "linked" ~> stage[t] = "gone"
  /\ \A w \in Waiter : waiting[w].at = "waiting" ~> waiting[w].at = "returned"
=============================================================================
