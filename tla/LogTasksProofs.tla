--------------------------- MODULE LogTasksProofs ---------------------------
(***************************************************************************)
(* Proofs about LogTasks for any number of tasks, requests and waiters.    *)
(*                                                                         *)
(* Serialized is not inductive: it needs to know why a task's predecessor  *)
(* in the chain stands for everything linked before it.  Chain says that,  *)
(* and that a missing map entry means that nothing is left to wait for.    *)
(***************************************************************************)
EXTENDS LogTasks, FiniteSetTheorems, TLAPS

Shape ==
  /\ stage \in [Task -> Unfinished \cup Finished]
  /\ last \in [Key -> Task \cup {NoTask}]
  /\ prev \in [Task -> Task \cup {NoTask}]
  /\ before \in [Task -> SUBSET Task]

WaiterShape ==
  /\ watch \in [Waiter -> Task \cup {NoTask}]
  /\ waiting \in [Waiter -> [at: {"idle", "waiting", "returned"}, owed: SUBSET Task]]

(* Every task linked before t is the predecessor, or was linked before it,   *)
(* or has ended.                                                             *)
Predecessors ==
  \A t \in Task :
    /\ stage[t] = "unborn" => prev[t] = NoTask /\ before[t] = {}
    /\ prev[t] # NoTask => /\ stage[prev[t]] # "unborn"
                           /\ before[t] \subseteq before[prev[t]] \cup {prev[t]}
    /\ prev[t] = NoTask => \A u \in before[t] : stage[u] \in Finished

(* The entry of a key is its latest task; without one, all its tasks ended.  *)
Entries ==
  \A k \in Key :
    /\ last[k] # NoTask => \A t \in Task : KeyOf[t] = k /\ stage[t] # "unborn" =>
                             t \in before[last[k]] \cup {last[k]}
    /\ last[k] = NoTask => \A t \in Task : KeyOf[t] = k /\ stage[t] # "unborn" =>
                             stage[t] \in Finished

Chain == Shape /\ Predecessors /\ Entries /\ MapBounded /\ Serialized

(* What a waiter was owed is ended or lies at or before the task it watches. *)
Watched ==
  \A w \in Waiter : waiting[w].at # "idle" =>
    /\ watch[w] = NoTask => \A t \in waiting[w].owed : stage[t] \in Finished
    /\ watch[w] # NoTask => /\ stage[watch[w]] # "unborn"
                            /\ waiting[w].owed \subseteq before[watch[w]] \cup {watch[w]}

USE LogTasksAssumption DEF Unfinished, Finished, Released, Keyed, Linked

-----------------------------------------------------------------------------
(* The steps that do not touch the chain leave Chain alone. *)
LEMMA ChainStutter ==
  ASSUME Chain, UNCHANGED <<stage, last, prev, before>>
  PROVE  Chain'
BY DEF Chain, Shape, Predecessors, Entries, MapBounded, Serialized

LEMMA ChainLink ==
  ASSUME Chain, NEW t \in Task, Link(t)
  PROVE  Chain'
<1> USE DEF Chain, Link, chain, PrevOf
<1> DEFINE k == KeyOf[t]
<1>0. k \in Key BY DEF Shape
<1>1. Shape'
  BY <1>0 DEF Shape
<1>2. \A u \in Task : u # t => stage'[u] = stage[u] /\ prev'[u] = prev[u] /\ before'[u] = before[u]
  BY DEF Shape
<1>3. /\ stage[t] = "unborn" /\ stage'[t] = "linked" /\ prev'[t] = last[k] /\ before'[t] = Linked(k)
      /\ last'[k] = t
      /\ \A j \in Key : j # k => last'[j] = last[j]
  BY <1>0 DEF Shape
<1>4. last[k] # t /\ last[k] \in Task \cup {NoTask}
  BY <1>0, <1>3 DEF Shape, MapBounded
<1>5. Predecessors'
  <2> SUFFICES ASSUME NEW u \in Task
               PROVE  /\ stage'[u] = "unborn" => prev'[u] = NoTask /\ before'[u] = {}
                      /\ prev'[u] # NoTask => /\ stage'[prev'[u]] # "unborn"
                                              /\ before'[u] \subseteq before'[prev'[u]] \cup {prev'[u]}
                      /\ prev'[u] = NoTask => \A v \in before'[u] : stage'[v] \in Finished
    BY DEF Predecessors
  <2>1. CASE u = t
    <3>1. CASE last[k] = NoTask
      BY <2>1, <3>1, <1>0, <1>2, <1>3 DEF Entries
    <3>2. CASE last[k] # NoTask
      <4>1. stage[last[k]] # "unborn"
        BY <3>2, <1>0 DEF MapBounded
      <4> QED BY <2>1, <3>2, <4>1, <1>0, <1>2, <1>3, <1>4 DEF Entries
    <3> QED BY <3>1, <3>2
  <2>2. CASE u # t
    <3>1. prev[u] # t
      BY <1>3 DEF Predecessors, Shape
    <3>2. prev[u] \in Task \cup {NoTask} /\ before[u] \subseteq Task
      BY DEF Shape
    <3>3. \A v \in before[u] : stage[v] \in Finished => stage'[v] \in Finished
      BY <3>2, <1>2, <1>3
    <3> QED BY <2>2, <3>1, <3>2, <3>3, <1>2 DEF Predecessors
  <2> QED BY <2>1, <2>2
<1>6. Entries'
  <2> SUFFICES ASSUME NEW j \in Key
               PROVE  /\ last'[j] # NoTask => \A u \in Task : KeyOf[u] = j /\ stage'[u] # "unborn" =>
                                                u \in before'[last'[j]] \cup {last'[j]}
                      /\ last'[j] = NoTask => \A u \in Task : KeyOf[u] = j /\ stage'[u] # "unborn" =>
                                                stage'[u] \in Finished
    BY DEF Entries
  <2>1. CASE j = k
    BY <2>1, <1>2, <1>3
  <2>2. CASE j # k
    <3>1. last[j] # t
      BY <1>3 DEF MapBounded
    <3>2. last[j] \in Task \cup {NoTask}
      BY DEF Shape
    <3> QED BY <2>2, <3>1, <3>2, <1>2, <1>3 DEF Entries
  <2> QED BY <2>1, <2>2
<1>7. MapBounded'
  <2> SUFFICES ASSUME NEW j \in Key, last'[j] # NoTask
               PROVE  /\ KeyOf[last'[j]] = j
                      /\ stage'[last'[j]] \in {"linked", "spawned", "running", "ran"}
    BY DEF MapBounded
  <2>1. CASE j = k
    BY <2>1, <1>3
  <2>2. CASE j # k
    <3>1. last[j] # t /\ last[j] \in Task
      BY <2>2, <1>3 DEF MapBounded, Shape
    <3> QED BY <2>2, <3>1, <1>2, <1>3 DEF MapBounded
  <2> QED BY <2>1, <2>2
<1>8. Serialized'
  <2> SUFFICES ASSUME NEW u \in Task, stage'[u] \notin {"unborn", "linked", "spawned"}, NEW v \in before'[u]
               PROVE  stage'[v] \in Finished
    BY DEF Serialized
  <2>1. u # t
    BY <1>3
  <2>2. v \in Task
    BY <1>1 DEF Shape
  <2> QED BY <2>1, <2>2, <1>2, <1>3 DEF Serialized
<1> QED BY <1>1, <1>5, <1>6, <1>7, <1>8

(* The other steps move one task's stage on, and Settle may drop its entry.  *)
LEMMA ChainPerform ==
  ASSUME Chain, NEW t \in Task, Register(t) \/ Perform(t)
  PROVE  Chain'
<1> USE DEF Chain, Register, Perform, Start, Finish, Settle, Close, Leave, chain
<1>1. Shape'
  BY DEF Shape, HoldsEntry
<1>2. /\ \A u \in Task : u # t => stage'[u] = stage[u]
      /\ stage[t] \in Finished => stage'[t] \in Finished
      /\ stage'[t] # "unborn"
      /\ stage[t] = "unborn" => KeyOf[t] = Plain
      /\ UNCHANGED <<prev, before>>
  BY DEF Shape
<1>3. \A u \in Task : stage[u] \in Finished => stage'[u] \in Finished
  BY <1>2
<1>4. \A u \in Task : stage[u] # "unborn" => stage'[u] # "unborn"
  BY <1>2
<1>5. \A u \in Task : /\ before[u] \subseteq Task
                      /\ prev[u] # NoTask => prev[u] \in Task
                      /\ KeyOf[u] # Plain => KeyOf[u] \in Key
  BY DEF Shape
<1>6. \A u \in Task : stage'[u] = "unborn" => stage[u] = "unborn"
  BY <1>2
<1>7. Predecessors'
  BY <1>2, <1>3, <1>4, <1>5, <1>6 DEF Predecessors
<1>8. Serialized'
  <2> SUFFICES ASSUME NEW u \in Task, stage'[u] \notin {"unborn", "linked", "spawned"}, NEW v \in before[u]
               PROVE  stage'[v] \in Finished
    BY DEF Serialized
  <2>0. v \in Task
    BY <1>5
  <2>1. CASE stage[u] \notin {"unborn", "linked", "spawned"}
    BY <2>0, <2>1, <1>3 DEF Serialized
  <2>2. CASE stage[u] \in {"unborn", "linked", "spawned"}
    <3>1. u = t /\ (prev[t] # NoTask => stage[prev[t]] \in Released)
      BY <2>2, <1>2 DEF Shape
    <3>2. CASE prev[t] = NoTask
      BY <3>1, <3>2, <2>0, <1>3 DEF Predecessors
    <3>3. CASE prev[t] # NoTask
      <4>1. stage[prev[t]] \in Released /\ prev[t] \in Task
        BY <3>1, <3>3, <1>5
      <4>2. v \in before[prev[t]] \cup {prev[t]}
        BY <3>1, <3>3 DEF Predecessors
      <4>3. stage[v] \in Finished
        BY <4>1, <4>2 DEF Serialized
      <4> QED BY <4>3, <2>0, <1>3
    <3> QED BY <3>2, <3>3
  <2> QED BY <2>1, <2>2
<1>9. \A j \in Key : (last'[j] = last[j])
        \/ (last[j] = t /\ last'[j] = NoTask /\ stage[t] = "ran" /\ stage'[t] \in Finished)
  BY DEF Shape, HoldsEntry
<1>10. MapBounded'
  <2> SUFFICES ASSUME NEW j \in Key, last'[j] # NoTask
               PROVE  KeyOf[last'[j]] = j /\ stage'[last'[j]] \in {"linked", "spawned", "running", "ran"}
    BY DEF MapBounded
  <2>1. last'[j] = last[j] /\ last[j] \in Task
    BY <1>9 DEF Shape
  <2>2. CASE last[j] = t
    <3>1. KeyOf[t] = j /\ stage[t] \in {"linked", "spawned", "running", "ran"}
      BY <2>1, <2>2 DEF MapBounded
    <3>2. stage[t] # "ran"
      BY <2>1, <2>2, <3>1 DEF Shape, HoldsEntry
    <3> QED BY <2>1, <2>2, <3>1, <3>2 DEF Shape
  <2>3. CASE last[j] # t
    BY <2>1, <2>3, <1>2 DEF MapBounded
  <2> QED BY <2>2, <2>3
<1>11. Entries'
  <2> SUFFICES ASSUME NEW j \in Key, NEW u \in Task, KeyOf[u] = j, stage'[u] # "unborn"
               PROVE  /\ last'[j] # NoTask => u \in before[last'[j]] \cup {last'[j]}
                      /\ last'[j] = NoTask => stage'[u] \in Finished
    BY DEF Entries
  <2>1. stage[u] # "unborn"
    BY <1>2
  <2>2. CASE last'[j] = last[j]
    BY <2>1, <2>2, <1>3 DEF Entries
  <2>3. CASE last'[j] # last[j]
    <3>1. last[j] = t /\ last'[j] = NoTask /\ stage[t] = "ran" /\ stage'[t] \in Finished
      BY <2>3, <1>9
    <3>2. u \in before[t] \cup {t}
      BY <3>1, <2>1 DEF Entries
    <3>3. CASE u = t
      BY <3>1, <3>3, <1>2
    <3>4. CASE u \in before[t]
      BY <3>1, <3>4, <1>2, <1>3 DEF Serialized
    <3> QED BY <3>1, <3>2, <3>3, <3>4
  <2> QED BY <2>2, <2>3
<1> QED BY <1>1, <1>7, <1>8, <1>10, <1>11

-----------------------------------------------------------------------------
LEMMA ChainInit == Init => Chain
BY DEF Init, Chain, Shape, Predecessors, Entries, MapBounded, Serialized

LEMMA ChainNext == Chain /\ [Next]_vars => Chain'
<1> SUFFICES ASSUME Chain, [Next]_vars PROVE Chain'
  OBVIOUS
<1>1. ASSUME NEW t \in Task, Link(t) PROVE Chain'
  BY <1>1, ChainLink
<1>2. ASSUME NEW t \in Task, Register(t) \/ Perform(t) PROVE Chain'
  BY <1>2, ChainPerform
<1>3. ASSUME NEW w \in Waiter, Await(w) PROVE Chain'
  BY <1>3, ChainStutter DEF Await, WaitForRequest, WaitReturns, chain
<1>4. CASE Wait \/ Drained \/ Expired \/ UNCHANGED vars
  BY <1>4, ChainStutter DEF Wait, Drained, Expired, vars, chain
<1> QED BY <1>1, <1>2, <1>3, <1>4 DEF Next, Call, Done

THEOREM ChainHolds == Spec => []Chain
BY ChainInit, ChainNext, PTL DEF Spec

(* Writes of one request run in the order they were made and never overlap.  *)
THEOREM WritesSerialized == Spec => []Serialized
<1>1. Chain => Serialized
  BY DEF Chain
<1> QED BY <1>1, ChainHolds, PTL

(* The map holds entries only for requests that have a write on its way.     *)
THEOREM MapNeverLeaks == Spec => []MapBounded
<1>1. Chain => MapBounded
  BY DEF Chain
<1> QED BY <1>1, ChainHolds, PTL

-----------------------------------------------------------------------------
(* Waiters *)

Waiters == WaiterShape /\ Watched /\ WaitMeansWritten

LEMMA FinishedForGood ==
  ASSUME Chain, [Next]_vars
  PROVE  /\ \A t \in Task : stage[t] \in Finished => stage'[t] \in Finished
         /\ \A t \in Task : stage[t] # "unborn" => stage'[t] # "unborn" /\ before'[t] = before[t]
<1> USE DEF Chain, Shape
<1>1. ASSUME NEW t \in Task, Call(t) \/ Perform(t)
      PROVE  /\ \A u \in Task : stage[u] \in Finished => stage'[u] \in Finished
             /\ \A u \in Task : stage[u] # "unborn" => stage'[u] # "unborn" /\ before'[u] = before[u]
  BY <1>1 DEF Call, Link, Register, Perform, Start, Finish, Settle, Close, Leave, chain
<1>2. ASSUME NEW w \in Waiter, Await(w) PROVE UNCHANGED <<stage, before>>
  BY <1>2 DEF Await, WaitForRequest, WaitReturns, chain
<1>3. CASE Wait \/ Drained \/ Expired \/ UNCHANGED vars
  BY <1>3 DEF Wait, Drained, Expired, vars, chain
<1> QED BY <1>1, <1>2, <1>3 DEF Next, Done

LEMMA WaitersInit == Init => Waiters
BY DEF Init, Waiters, WaiterShape, Watched, WaitMeansWritten

LEMMA WaitersStutter ==
  ASSUME Chain, Waiters, [Next]_vars, UNCHANGED <<watch, waiting>>
  PROVE  Waiters'
BY FinishedForGood DEF Waiters, WaiterShape, Watched, WaitMeansWritten

LEMMA WaitersAwait ==
  ASSUME Chain, Waiters, NEW w \in Waiter, Await(w)
  PROVE  Waiters'
<1> USE DEF Waiters, Chain, chain
<1>0. UNCHANGED <<stage, before, last>>
  BY DEF Await, WaitForRequest, WaitReturns
<1>1. CASE WaitForRequest(w)
  <2> USE <1>1 DEF WaitForRequest
  <2>1. WaiterShape'
    BY DEF WaiterShape, Shape
  <2>2. /\ watch'[w] = last[WaitKey[w]] /\ waiting'[w] = [at |-> "waiting", owed |-> Linked(WaitKey[w])]
        /\ \A v \in Waiter : v # w => watch'[v] = watch[v] /\ waiting'[v] = waiting[v]
    BY DEF WaiterShape
  <2>3. WaitKey[w] \in Key
    OBVIOUS
  <2>4. Watched'
    BY <1>0, <2>2, <2>3 DEF Watched, Entries, MapBounded
  <2>5. WaitMeansWritten'
    BY <1>0, <2>2 DEF WaitMeansWritten
  <2> QED BY <2>1, <2>4, <2>5
<1>2. CASE WaitReturns(w)
  <2> USE <1>2 DEF WaitReturns
  <2>1. WaiterShape'
    BY DEF WaiterShape
  <2>2. /\ waiting'[w].at = "returned" /\ waiting'[w].owed = waiting[w].owed /\ UNCHANGED watch
        /\ \A v \in Waiter : v # w => waiting'[v] = waiting[v]
    BY DEF WaiterShape
  <2>3. Watched'
    BY <1>0, <2>2 DEF Watched
  <2>4. \A t \in waiting[w].owed : stage[t] \in Finished
    <3>1. CASE watch[w] = NoTask
      BY <3>1 DEF Watched
    <3>2. CASE watch[w] # NoTask
      BY <3>2 DEF Watched, Serialized, WaiterShape
    <3> QED BY <3>1, <3>2
  <2>5. WaitMeansWritten'
    BY <1>0, <2>2, <2>4 DEF WaitMeansWritten
  <2> QED BY <2>1, <2>3, <2>5
<1> QED BY <1>1, <1>2 DEF Await

LEMMA WaitersNext == Chain /\ Waiters /\ [Next]_vars => Waiters'
<1> SUFFICES ASSUME Chain, Waiters, [Next]_vars PROVE Waiters'
  OBVIOUS
<1>1. ASSUME NEW t \in Task, Call(t) \/ Perform(t) PROVE UNCHANGED <<watch, waiting>>
  BY <1>1 DEF Call, Link, Register, Perform, Start, Finish, Settle, Close, Leave, waiters
<1>2. ASSUME NEW w \in Waiter, Await(w) PROVE Waiters'
  BY <1>2, WaitersAwait
<1>3. CASE Wait \/ Drained \/ Expired \/ UNCHANGED vars
  BY <1>3, WaitersStutter DEF Wait, Drained, Expired, vars, waiters
<1> QED BY <1>1, <1>2, <1>3, WaitersStutter DEF Next, Done

(* Whoever waited for a request finds its earlier writes done.               *)
THEOREM WaitersServed == Spec => []WaitMeansWritten
<1>1. Waiters => WaitMeansWritten
  BY DEF Waiters
<1>2. Chain /\ Waiters /\ [Next]_vars => (Chain /\ Waiters)'
  BY ChainNext, WaitersNext
<1> QED BY <1>1, <1>2, ChainInit, WaitersInit, PTL DEF Spec

-----------------------------------------------------------------------------
(* The drain and the counter *)

Drain == /\ drain \in {"idle", "waiting", "drained", "expired"}
         /\ owed \in SUBSET Task
         /\ \A t \in owed : stage[t] \notin {"unborn", "linked"}
         /\ DrainComplete

LEMMA SpawnedForGood ==
  ASSUME Chain, [Next]_vars, NEW t \in Task, stage[t] \notin {"unborn", "linked"}
  PROVE  stage'[t] \notin {"unborn", "linked"}
<1> USE DEF Chain, Shape
<1>1. ASSUME NEW u \in Task, Call(u) \/ Perform(u) PROVE stage'[t] \notin {"unborn", "linked"}
  BY <1>1 DEF Call, Link, Register, Perform, Start, Finish, Settle, Close, Leave
<1>2. ASSUME NEW w \in Waiter, Await(w) PROVE UNCHANGED stage
  BY <1>2 DEF Await, WaitForRequest, WaitReturns
<1>3. CASE Wait \/ Drained \/ Expired \/ UNCHANGED vars
  BY <1>3 DEF Wait, Drained, Expired, vars
<1> QED BY <1>1, <1>2, <1>3 DEF Next, Done

LEMMA DrainNext == Chain /\ Drain /\ [Next]_vars => Drain'
<1> SUFFICES ASSUME Chain, Drain, [Next]_vars PROVE Drain'
  OBVIOUS
<1>1. CASE UNCHANGED drainer
  <2>1. UNCHANGED <<drain, owed>>
    BY <1>1 DEF drainer
  <2> QED BY <2>1, FinishedForGood, SpawnedForGood DEF Drain, DrainComplete
<1>2. CASE Wait
  BY <1>2 DEF Wait, Drain, DrainComplete, OnTheirWay
<1>3. CASE Drained
  BY <1>3 DEF Drained, Drain, DrainComplete, GroupEmpty, Grouped, Chain, Shape
<1>4. CASE Expired
  BY <1>4 DEF Expired, Drain, DrainComplete
<1> QED BY <1>1, <1>2, <1>3, <1>4
        DEF Next, Done, vars, Call, Link, Register, Perform, Start, Finish, Settle, Close, Leave,
            Await, WaitForRequest, WaitReturns, drainer

(* A drain that reports success left none of the writes it was called for.   *)
THEOREM DrainHonest == Spec => []DrainComplete
<1>1. Init => Drain
  BY DEF Init, Drain, DrainComplete
<1>2. Drain => DrainComplete
  BY DEF Drain
<1>3. Chain /\ Drain /\ [Next]_vars => (Chain /\ Drain)'
  BY ChainNext, DrainNext
<1> QED BY <1>1, <1>2, <1>3, ChainInit, PTL DEF Spec

-----------------------------------------------------------------------------
OnTheCounter == {t \in Task : stage[t] \in Counted}

LEMMA CounterFinite == /\ IsFiniteSet(OnTheCounter)
                       /\ Cardinality(OnTheCounter) \in Nat
BY FS_Subset, FS_CardinalityType DEF OnTheCounter

LEMMA CountNext == Chain /\ CountExact /\ [Next]_vars => CountExact'
<1> SUFFICES ASSUME Chain, CountExact, [Next]_vars PROVE CountExact'
  OBVIOUS
<1> USE DEF Chain, Shape, Counted
<1>0. /\ count = Cardinality(OnTheCounter) /\ count \in Nat /\ IsFiniteSet(OnTheCounter)
      /\ CountExact' <=> count' = Cardinality(OnTheCounter')
  BY CounterFinite DEF CountExact, OnTheCounter
<1>1. ASSUME UNCHANGED count, OnTheCounter' = OnTheCounter PROVE CountExact'
  BY <1>0, <1>1
<1>2. ASSUME NEW t \in Task, Link(t) \/ Start(t) \/ Finish(t) \/ Close(t) \/ Leave(t)
      PROVE  CountExact'
  <2>1. UNCHANGED count
    BY <1>2 DEF Link, Start, Finish, Close, Leave
  <2>2. OnTheCounter' = OnTheCounter
    BY <1>2 DEF Link, Start, Finish, Close, Leave, OnTheCounter
  <2> QED BY <1>1, <2>1, <2>2
<1>3. ASSUME NEW t \in Task, Register(t) PROVE CountExact'
  <2>1. OnTheCounter' = OnTheCounter \cup {t} /\ t \notin OnTheCounter /\ count' = count + 1
    BY <1>3 DEF Register, OnTheCounter
  <2>2. Cardinality(OnTheCounter \cup {t}) = Cardinality(OnTheCounter) + 1
    BY <1>0, <2>1, FS_AddElement
  <2> QED BY <1>0, <2>1, <2>2
<1>4. ASSUME NEW t \in Task, Settle(t) PROVE CountExact'
  <2>1. OnTheCounter' = OnTheCounter \ {t} /\ t \in OnTheCounter /\ count' = count - 1
    BY <1>4 DEF Settle, OnTheCounter
  <2>2. Cardinality(OnTheCounter \ {t}) = Cardinality(OnTheCounter) - 1
    BY <1>0, <2>1, FS_RemoveElement
  <2> QED BY <1>0, <2>1, <2>2
<1>5. ASSUME NEW w \in Waiter, Await(w) PROVE CountExact'
  <2>1. UNCHANGED <<count, stage>>
    BY <1>5 DEF Await, WaitForRequest, WaitReturns
  <2> QED BY <1>1, <2>1 DEF OnTheCounter
<1>6. CASE Wait \/ Drained \/ Expired \/ UNCHANGED vars
  <2>1. UNCHANGED <<count, stage>>
    BY <1>6 DEF Wait, Drained, Expired, vars
  <2> QED BY <1>1, <2>1 DEF OnTheCounter
<1> QED BY <1>2, <1>3, <1>4, <1>5, <1>6 DEF Next, Call, Perform, Done

(* The in-flight counter is the number of tasks on their way.                *)
THEOREM CounterExact == Spec => []CountExact
<1>1. Init => CountExact
  <2> SUFFICES ASSUME Init PROVE CountExact
    OBVIOUS
  <2>1. OnTheCounter = {} /\ count = 0
    BY DEF Init, OnTheCounter, Counted
  <2> QED BY <2>1, FS_EmptySet DEF CountExact, OnTheCounter
<1>2. Chain /\ CountExact /\ [Next]_vars => (Chain /\ CountExact)'
  BY ChainNext, CountNext
<1> QED BY <1>1, <1>2, ChainInit, PTL DEF Spec

(* Every reachable state is well typed; that the counter never drops below   *)
(* zero follows from its being exact.                                        *)
THEOREM TypeCorrect == Spec => []TypeOK
<1>1. Chain /\ Waiters /\ Drain /\ CountExact => TypeOK
  <2> SUFFICES ASSUME Chain, Waiters, Drain, CountExact PROVE TypeOK
    OBVIOUS
  <2>1. count \in Nat
    BY CounterFinite DEF CountExact, OnTheCounter
  <2> QED BY <2>1 DEF Chain, Shape, Waiters, WaiterShape, Drain, TypeOK
<1>2. Init => Chain /\ Waiters /\ Drain
  BY ChainInit, WaitersInit DEF Init, Drain, DrainComplete
<1>3. Chain /\ Waiters /\ Drain /\ [Next]_vars => (Chain /\ Waiters /\ Drain)'
  BY ChainNext, WaitersNext, DrainNext
<1> QED BY <1>1, <1>2, <1>3, CounterExact, PTL DEF Spec
=============================================================================
