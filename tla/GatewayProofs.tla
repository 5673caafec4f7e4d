--------------------------- MODULE GatewayProofs ---------------------------
(***************************************************************************)
(* Proofs about the two parts of Gateway: about the loop for every set of  *)
(* routes, requests, policies and statuses, about the requests of the keys *)
(* for any number of them, any quotas and charges, and any number of       *)
(* restarts.                                                               *)
(***************************************************************************)
EXTENDS Gateway, FiniteSetTheorems, TLAPS

Dispatched == {"try", "forward", "wait", "headers", "convert", "relay"}

(* Where the handler may stand, given what it has written and believes.  The *)
(* loop's belief is only ever raised by an attempt given up for its status.  *)
Position ==
  /\ pc \in Dispatched => idx <= Len(candidates)
  /\ wroteResponse => refused
  /\ refused => policy.enabled /\ ~req.stream

Safety == OneAnswer /\ Position /\ SilentOnlyAfterRefusal

IInv == TypeOK /\ Safety

(* Past the loop's head there is a current candidate.                        *)
LEMMA CurrentType == IInv /\ pc \in Dispatched => Current \in Route
<1> SUFFICES ASSUME IInv, pc \in Dispatched PROVE Current \in Route
  OBVIOUS
<1>1. candidates \in Seq(Route) /\ idx \in Nat \ {0} /\ idx <= Len(candidates)
  BY DEF IInv, TypeOK, Safety, Position
<1>2. QED
  BY <1>1 DEF Current

(* Init establishes the inductive invariant.                                 *)
LEMMA InitIInv == Init => IInv
<1> SUFFICES ASSUME Init PROVE IInv
  OBVIOUS
<1>1. /\ req \in Request /\ policy \in Policy /\ candidates \in Seq(Route)
      /\ pc \in PC /\ idx \in Nat \ {0} /\ try \in Nat
  BY CandidateAssumption DEF Init, PC
<1>2. wroteResponse \in BOOLEAN /\ refused \in BOOLEAN
  BY DEF Init
<1>3. written \in Seq([by: {"gateway", "upstream"}, status: Int]) /\ sent \in Seq(Route)
  BY DEF Init
<1>4. TypeOK
  BY <1>1, <1>2, <1>3 DEF Init, TypeOK
<1>5. OneAnswer /\ Position /\ SilentOnlyAfterRefusal
  BY DEF Init, OneAnswer, Position, SilentOnlyAfterRefusal, Dispatched
<1>6. QED
  BY <1>4, <1>5 DEF IInv, Safety

Response == [by: {"gateway", "upstream"}, status: Int]

(* Writing to an untouched ResponseWriter starts exactly one response.       *)
LEMMA FirstWrite ==
  ASSUME written = <<>>, NEW by \in {"gateway", "upstream"}, NEW status \in Int,
         Write(by, status)
  PROVE  written' \in Seq(Response) /\ Len(written') = 1 /\ written' # <<>>
<1>1. [by |-> by, status |-> status] \in Response
  BY DEF Response
<1>2. written' = <<[by |-> by, status |-> status]>>
  BY DEF Write
<1>3. QED
  BY <1>1, <1>2

(* An error written before anything else is the whole answer.                *)
LEMMA TerminalAnswers ==
  ASSUME written = <<>>, NEW status \in Int, Terminal(status)
  PROVE  Len(written') = 1 /\ written' # <<>> /\ pc' = "done"
BY FirstWrite DEF Terminal

LEMMA OneIsNotNone == ASSUME NEW s, Len(s) = 1 PROVE s # <<>>
OBVIOUS

(* The steps of Next, DoCancelled and DoNetworkError being one failed Do.    *)
LEMMA NextCases ==
  Next => \/ Reject \/ Admit \/ PickCandidate \/ NextTry \/ Exhausted
          \/ RefuseLocally \/ RejectURL \/ SendUpstream
          \/ (pc = "wait" /\ DoFails) \/ DoReturnsHeaders \/ StatusRetry
          \/ ConvertBody \/ StartRelay
          \/ (\E how \in {"complete", "client", "timer", "upstream"} : RelayEnds(how))
          \/ TimerExpires \/ TimerCancels \/ ClientDisconnects \/ UNCHANGED vars
BY DEF Next, Handler, Environment, DoCancelled, DoNetworkError, Done

(* The request and its policy never change, nor does the list they make.     *)
LEMMA AskedFixed == [Next]_vars => UNCHANGED <<req, policy, candidates>>
<1> SUFFICES ASSUME [Next]_vars PROVE UNCHANGED <<req, policy, candidates>>
  OBVIOUS
<1>1. QED
  BY NextCases DEF vars, asked, Reject, Admit, PickCandidate, NextTry, Exhausted,
     RefuseLocally, RejectURL, SendUpstream, DoFails, DoReturnsHeaders,
     StatusRetry, ConvertBody, StartRelay, RelayEnds, TimerExpires,
     TimerCancels, ClientDisconnects

(* Every step preserves the types.                                           *)
LEMMA TypeStep == IInv /\ [Next]_vars => TypeOK'
<1> SUFFICES ASSUME IInv, [Next]_vars PROVE TypeOK'
  OBVIOUS
<1> TypeOK
  BY DEF IInv
<1> USE DEF TypeOK, PC, asked, loop, attempt, history
<1>1. CASE Reject
  BY <1>1, ProxyAssumption DEF Reject, Write
<1>2. CASE Admit
  BY <1>2, ProxyAssumption DEF Admit
<1>3. CASE PickCandidate
  BY <1>3, ProxyAssumption DEF PickCandidate
<1>4. CASE NextTry
  BY <1>4, ProxyAssumption DEF NextTry
<1>5. CASE Exhausted
  <2>1. written' \in Seq([by: {"gateway", "upstream"}, status: Int])
    <3>1. CASE wroteResponse
      BY <1>5, <3>1 DEF Exhausted
    <3>2. CASE ~wroteResponse
      <4>1. written = <<>> /\ Write("gateway", 502)
        BY <1>5, <3>2 DEF Exhausted, IInv, Safety, OneAnswer
      <4>2. QED
        BY <4>1, FirstWrite DEF Response
    <3>3. QED
      BY <3>1, <3>2
  <2>2. QED
    BY <1>5, <2>1 DEF Exhausted
<1>6. CASE RefuseLocally
  BY <1>6, ProxyAssumption DEF RefuseLocally, Terminal, Write
<1>7. CASE RejectURL
  BY <1>7, ProxyAssumption DEF RejectURL, Terminal, Write
<1>8. CASE SendUpstream
  <2>1. sent' \in Seq(Route)
    BY <1>8, CurrentType DEF SendUpstream, Dispatched
  <2>2. QED
    BY <1>8, <2>1 DEF SendUpstream
<1>9. CASE pc = "wait" /\ DoFails
  <2>1. CASE Retried(0)
    <3>1. wroteResponse' \in BOOLEAN
      BY <2>1 DEF Retried, Believes
    <3>2. QED
      BY <1>9, <2>1, <3>1 DEF DoFails, Retried
  <2>2. ASSUME NEW status \in {502, 504}, Terminal(status) PROVE TypeOK'
    BY <1>9, <2>2 DEF DoFails, Terminal, Write
  <2>3. QED
    BY <1>9, <2>1, <2>2 DEF DoFails
<1>10. CASE DoReturnsHeaders
  BY <1>10, ProxyAssumption DEF DoReturnsHeaders
<1>11. CASE StatusRetry
  BY <1>11, ProxyAssumption DEF StatusRetry, StatusFailover, Retried, Believes
<1>12. CASE ConvertBody
  BY <1>12, ProxyAssumption DEF ConvertBody, StopTimer
<1>13. CASE StartRelay
  BY <1>13, ProxyAssumption DEF StartRelay, StopTimer, Write
<1>14. ASSUME NEW how \in {"complete", "client", "timer", "upstream"}, RelayEnds(how)
      PROVE  TypeOK'
  BY <1>14 DEF RelayEnds
<1>15. CASE TimerExpires
  BY <1>15, ProxyAssumption DEF TimerExpires
<1>16. CASE TimerCancels
  BY <1>16, ProxyAssumption DEF TimerCancels
<1>17. CASE ClientDisconnects
  BY <1>17, ProxyAssumption DEF ClientDisconnects
<1>18. CASE UNCHANGED vars
  BY <1>18 DEF vars
<1>19. QED
  BY <1>1, <1>2, <1>3, <1>4, <1>5, <1>6, <1>7, <1>8, <1>9, <1>10, <1>11, <1>12, <1>13,
     <1>14, <1>15, <1>16, <1>17, <1>18, NextCases

(* Every step preserves the rest of the inductive invariant.                 *)
LEMMA SafetyStep == IInv /\ [Next]_vars => Safety'
<1> SUFFICES ASSUME IInv, [Next]_vars PROVE Safety'
  OBVIOUS
<1> USE AskedFixed DEF IInv, Safety, TypeOK, OneAnswer, Position, SilentOnlyAfterRefusal, Dispatched,
      asked, loop, attempt, history
<1>1. CASE Reject
  <2>1. PICK s \in {503, 400, 413, 401, 403, 429} : Write("gateway", s)
    BY <1>1 DEF Reject
  <2>2. written = <<>>
    BY <1>1 DEF Reject
  <2>3. Len(written') = 1 /\ written' # <<>>
    BY <2>1, <2>2, FirstWrite
  <2>4. QED
    BY <1>1, <2>3 DEF Reject
<1>2. CASE Admit
  BY <1>2 DEF Admit
<1>3. CASE PickCandidate
  BY <1>3 DEF PickCandidate
<1>4. CASE NextTry
  BY <1>4 DEF NextTry
<1>5. CASE Exhausted
  <2>1. CASE wroteResponse
    BY <1>5, <2>1 DEF Exhausted
  <2>2. CASE ~wroteResponse
    <3>1. written = <<>> /\ Write("gateway", 502)
      BY <1>5, <2>2 DEF Exhausted
    <3>2. Len(written') = 1 /\ written' # <<>>
      BY <3>1, FirstWrite
    <3>3. QED
      BY <1>5, <3>2 DEF Exhausted
  <2>3. QED
    BY <2>1, <2>2
<1>6. CASE RefuseLocally
  <2>1. pc = "forward" /\ Terminal(400)
    BY <1>6 DEF RefuseLocally
  <2>2. Len(written') = 1 /\ written' # <<>> /\ pc' = "done"
    BY <2>1, TerminalAnswers
  <2>3. UNCHANGED <<req, policy, candidates, loop, refused>>
    BY <1>6 DEF RefuseLocally, Terminal
  <2>4. QED
    BY <2>2, <2>3
<1>7. CASE RejectURL
  <2>1. pc = "forward" /\ Terminal(502)
    BY <1>7 DEF RejectURL
  <2>2. Len(written') = 1 /\ written' # <<>> /\ pc' = "done"
    BY <2>1, TerminalAnswers
  <2>3. UNCHANGED <<req, policy, candidates, loop, refused>>
    BY <1>7 DEF RejectURL, Terminal
  <2>4. QED
    BY <2>2, <2>3
<1>8. CASE SendUpstream
  BY <1>8 DEF SendUpstream
<1>9. CASE pc = "wait" /\ DoFails
  <2>1. CASE Retried(0)
    BY <1>9, <2>1 DEF DoFails, Retried, Believes
  <2>2. ASSUME NEW status \in {502, 504}, Terminal(status) PROVE Safety'
    <3>1. Len(written') = 1 /\ written' # <<>> /\ pc' = "done"
      BY <1>9, <2>2, TerminalAnswers
    <3>2. UNCHANGED <<req, policy, candidates, loop, refused>>
      BY <1>9, <2>2 DEF DoFails, Terminal
    <3>3. QED
      BY <3>1, <3>2
  <2>3. QED
    BY <1>9, <2>1, <2>2 DEF DoFails
<1>10. CASE DoReturnsHeaders
  BY <1>10 DEF DoReturnsHeaders
<1>11. CASE StatusRetry
  BY <1>11 DEF StatusRetry, StatusFailover, Retried, Believes
<1>12. CASE ConvertBody
  BY <1>12 DEF ConvertBody, StopTimer
<1>13. CASE StartRelay
  BY <1>13 DEF StartRelay, StopTimer, Write
<1>14. ASSUME NEW how \in {"complete", "client", "timer", "upstream"}, RelayEnds(how)
      PROVE  Safety'
  <2>1. pc = "relay" /\ pc' = "done"
    BY <1>14 DEF RelayEnds
  <2>2. UNCHANGED <<written, idx, wroteResponse, refused>>
    BY <1>14 DEF RelayEnds
  <2>3. Len(written) = 1
    BY <2>1
  <2>4. written # <<>>
    BY <2>3, OneIsNotNone
  <2>5. QED
    BY <2>1, <2>2, <2>4
<1>15. CASE TimerExpires
  BY <1>15 DEF TimerExpires
<1>16. CASE TimerCancels
  BY <1>16 DEF TimerCancels
<1>17. CASE ClientDisconnects
  BY <1>17 DEF ClientDisconnects
<1>18. CASE UNCHANGED vars
  BY <1>18 DEF vars
<1>19. QED
  BY <1>1, <1>2, <1>3, <1>4, <1>5, <1>6, <1>7, <1>8, <1>9, <1>10, <1>11, <1>12, <1>13,
     <1>14, <1>15, <1>16, <1>17, <1>18, NextCases

-----------------------------------------------------------------------------
(* Requests that leave the gateway once *)

InFlight == {"wait", "headers", "convert", "relay", "done"}

(* A named channel is the only candidate and is tried once: it was not sent  *)
(* to while the loop has its first attempt before it, and an attempt given   *)
(* up for its status is the end, with nothing written.                       *)
NamedOnce ==
  req.explicit =>
    /\ Len(candidates) = 1
    /\ Len(sent) <= 1
    /\ refused => pc = "done" /\ written = <<>> /\ policy.enabled /\ ~req.stream
    /\ \/ pc \in {"arrived", "forward"}
       \/ pc = "pick" /\ idx = 1
       \/ pc = "try" /\ try = 0
       => sent = <<>>

(* Under a disabled policy the loop never goes on after an attempt.          *)
DisabledOnce ==
  ~policy.enabled => Len(sent) <= 1 /\ (pc \notin InFlight => sent = <<>>) /\ ~refused

Once == NamedOnce /\ DisabledOnce

LEMMA OnceInit == Init => Once
<1> SUFFICES ASSUME Init PROVE Once
  OBVIOUS
<1>1. sent = <<>> /\ Len(sent) = 0 /\ ~refused
  BY DEF Init
<1>2. req.explicit => candidates = req.initial
  BY DEF Init, BuildFailoverCandidates
<1>3. req.explicit => Len(candidates) = 1
  BY <1>2, ProxyAssumption DEF Init
<1>4. QED
  BY <1>1, <1>3 DEF Once, NamedOnce, DisabledOnce

(* The first sending is one sending.                                         *)
LEMMA FirstSend == ASSUME sent = <<>>, NEW r, sent' = Append(sent, r) PROVE Len(sent') = 1
OBVIOUS

(* The only place of a list of one is its last.                              *)
LEMMA FirstOfOne == ASSUME NEW i \in Nat \ {0}, NEW n, n = 1, i <= n PROVE i = n
OBVIOUS

LEMMA OnceStep == IInv /\ Once /\ [Next]_vars => Once'
<1> SUFFICES ASSUME IInv, Once, [Next]_vars PROVE Once'
  OBVIOUS
<1> USE AskedFixed DEF IInv, TypeOK, Once, NamedOnce, DisabledOnce, InFlight, asked, loop,
      attempt, history
<1>1. CASE Reject
  BY <1>1 DEF Reject
<1>2. CASE Admit
  BY <1>2 DEF Admit
<1>3. CASE PickCandidate
  BY <1>3 DEF PickCandidate
<1>4. CASE NextTry
  <2>1. req.explicit /\ TriesLeft => try = 0
    BY DEF TriesLeft, MaxTries
  <2>2. QED
    BY <1>4, <2>1 DEF NextTry
<1>5. CASE Exhausted
  BY <1>5 DEF Exhausted
<1>6. CASE RefuseLocally
  BY <1>6 DEF RefuseLocally, Terminal
<1>7. CASE RejectURL
  BY <1>7 DEF RejectURL, Terminal
<1>8. CASE SendUpstream
  <2>1. pc = "forward" /\ pc' = "wait" /\ sent' = Append(sent, Current)
    BY <1>8 DEF SendUpstream
  <2>2. req.explicit \/ ~policy.enabled => Len(sent') = 1
    BY <2>1, FirstSend
  <2>3. UNCHANGED refused
    BY <1>8 DEF SendUpstream
  <2>4. QED
    BY <2>1, <2>2, <2>3
<1>9. CASE pc = "wait" /\ DoFails
  <2>1. CASE Retried(0)
    <3>1. CASE policy.enabled
      BY <1>9, <2>1, <3>1 DEF DoFails, Retried
    <3>2. CASE ~policy.enabled
      BY <1>9, <3>2 DEF DoFails, ShouldTriggerFailover, Terminal
    <3>3. QED
      BY <3>1, <3>2
  <2>2. ASSUME NEW status \in {502, 504}, Terminal(status) PROVE Once'
    BY <1>9, <2>2 DEF DoFails, Terminal
  <2>3. QED
    BY <1>9, <2>1, <2>2 DEF DoFails
<1>10. CASE DoReturnsHeaders
  BY <1>10 DEF DoReturnsHeaders
<1>11. CASE StatusRetry
  <2>1. pc = "headers" /\ Retried(upstream) /\ UNCHANGED sent /\ policy.enabled /\ ~req.stream
    BY <1>11 DEF StatusRetry, StatusFailover
  <2>2. wroteResponse' /\ written' = <<>>
    <3>1. upstream >= 400 /\ upstream # 0
      BY <1>11, ProxyAssumption DEF StatusRetry, StatusFailover
    <3>2. wroteResponse'
      BY <2>1, <3>1, Zenon DEF Retried, Believes
    <3>3. written = <<>>
      BY <2>1 DEF Safety, OneAnswer
    <3>4. QED
      BY <2>1, <3>2, <3>3, Zenon DEF Retried
  <2>3. req.explicit => pc' = "done"
    <3>1. req.explicit => idx = Len(candidates)
      <4>1. Position /\ pc \in Dispatched
        BY <2>1 DEF Safety, Dispatched
      <4>2. idx <= Len(candidates) /\ idx \in Nat \ {0}
        BY <4>1 DEF Position
      <4>3. req.explicit => Len(candidates) = 1
        OBVIOUS
      <4>4. ASSUME req.explicit PROVE idx = Len(candidates)
        BY <4>2, <4>3, <4>4, FirstOfOne
      <4>5. QED
        BY <4>4
    <3>2. req.explicit => try + 1 >= MaxTries
      BY DEF MaxTries
    <3>3. QED
      BY <2>1, <2>2, <3>1, <3>2, Zenon DEF Retried
  <2>4. QED
    BY <2>1, <2>2, <2>3
<1>12. CASE ConvertBody
  BY <1>12 DEF ConvertBody
<1>13. CASE StartRelay
  BY <1>13 DEF StartRelay
<1>14. ASSUME NEW how \in {"complete", "client", "timer", "upstream"}, RelayEnds(how)
      PROVE  Once'
  BY <1>14 DEF RelayEnds
<1>15. CASE TimerExpires
  BY <1>15 DEF TimerExpires
<1>16. CASE TimerCancels
  BY <1>16 DEF TimerCancels
<1>17. CASE ClientDisconnects
  BY <1>17 DEF ClientDisconnects
<1>18. CASE UNCHANGED vars
  BY <1>18 DEF vars
<1>19. QED
  BY <1>1, <1>2, <1>3, <1>4, <1>5, <1>6, <1>7, <1>8, <1>9, <1>10, <1>11, <1>12, <1>13,
     <1>14, <1>15, <1>16, <1>17, <1>18, NextCases

-----------------------------------------------------------------------------
(* The order of the attempts *)

Before(k) == {candidates[i] : i \in 1..k}

Begun == {"wait", "headers", "convert", "relay"}

(* What the upstreams have had while the loop runs: those before the current *)
(* candidate all their tries, the current one the tries counted, and the     *)
(* others nothing.                                                           *)
Waiting == pc \in {"arrived", "pick"} =>
  /\ attempted = Before(idx - 1)
  /\ \A r \in attempted : TimesSent(r) = Tries

Trying == pc \in Dispatched =>
  /\ attempted = Before(idx) /\ Current \notin Before(idx - 1)
  /\ \A r \in Before(idx - 1) : TimesSent(r) = Tries
  /\ TimesSent(Current) = IF pc \in Begun THEN try + 1 ELSE try
  /\ IF pc = "try" THEN try <= Tries ELSE try < Tries

Progress ==
  pc # "done" => /\ \A r \in Route : r \notin attempted => TimesSent(r) = 0
                 /\ Waiting /\ Trying

LEMMA TriesType == TypeOK => MaxTries \in Int /\ Tries \in Nat /\ (try < MaxTries => try < Tries)
                             /\ (try <= Tries /\ ~(try < MaxTries) => try = Tries)
<1> SUFFICES ASSUME TypeOK
             PROVE  MaxTries \in Int /\ Tries \in Nat /\ (try < MaxTries => try < Tries)
                    /\ (try <= Tries /\ ~(try < MaxTries) => try = Tries)
  OBVIOUS
<1>1. policy.retryAttempts \in Int
  BY ProxyAssumption DEF TypeOK, PolicyRecord
<1>2. MaxTries \in Int
  BY <1>1 DEF MaxTries
<1>3. QED
  BY <1>2 DEF Tries, TypeOK

(* Sending to a route adds one to its count and to no other.                 *)
LEMMA SentOnce ==
  ASSUME sent \in Seq(Route), NEW c \in Route, sent' = Append(sent, c), NEW r \in Route
  PROVE  TimesSent(r) \in Nat /\ TimesSent(r)' = TimesSent(r) + (IF r = c THEN 1 ELSE 0)
<1> DEFINE Old == {i \in DOMAIN sent : sent[i] = r}
           New == {i \in DOMAIN sent' : sent'[i] = r}
<1>1. DOMAIN sent = 1..Len(sent) /\ Len(sent) \in Nat /\ DOMAIN sent' = 1..(Len(sent) + 1)
  OBVIOUS
<1>2. IsFiniteSet(Old)
  <2>1. IsFiniteSet(1..Len(sent))
    BY <1>1, FS_Interval
  <2>2. QED
    BY <1>1, <2>1, FS_Subset
<1>3. \A i \in 1..Len(sent) : sent'[i] = sent[i]
  OBVIOUS
<1>4. sent'[Len(sent) + 1] = c
  OBVIOUS
<1>5. New = IF r = c THEN Old \cup {Len(sent) + 1} ELSE Old
  BY <1>1, <1>3, <1>4
<1>6. Len(sent) + 1 \notin Old
  BY <1>1
<1>7. Cardinality(Old) \in Nat
  BY <1>2, FS_CardinalityType
<1>8. Cardinality(New) = Cardinality(Old) + (IF r = c THEN 1 ELSE 0)
  <2> HIDE DEF Old, New
  <2>1. Cardinality(Old \cup {Len(sent) + 1}) = Cardinality(Old) + 1
    BY <1>2, <1>6, FS_AddElement
  <2>2. QED
    BY <1>5, <1>7, <2>1
<1>9. QED
  BY <1>7, <1>8 DEF TimesSent

(* While the loop runs, the order is kept.                                   *)
LEMMA ProgressOrdered == TypeOK /\ Progress /\ pc # "done" => RoutesTriedInOrder
<1> SUFFICES ASSUME TypeOK, Progress, pc # "done", NEW j \in DOMAIN candidates
             PROVE  /\ TimesSent(candidates[j]) <= Tries
                    /\ (\A i \in 1..(j - 1) : candidates[i] # candidates[j])
                         /\ TimesSent(candidates[j]) > 0 =>
                         \A i \in 1..(j - 1) : TimesSent(candidates[i]) = Tries
  BY DEF RoutesTriedInOrder
<1>1. /\ candidates \in Seq(Route) /\ j \in 1..Len(candidates) /\ candidates[j] \in Route
      /\ idx \in Nat \ {0} /\ try \in Nat /\ Tries \in Nat
  BY TriesType DEF TypeOK
<1>2. candidates[j] \notin attempted => TimesSent(candidates[j]) = 0
  BY <1>1 DEF Progress
<1>3. CASE pc \in {"arrived", "pick"}
  <2>1. attempted = Before(idx - 1) /\ \A r \in attempted : TimesSent(r) = Tries
    BY <1>3 DEF Progress, Waiting
  <2>2. TimesSent(candidates[j]) <= Tries
    BY <1>1, <1>2, <2>1
  <2>3. ASSUME \A i \in 1..(j - 1) : candidates[i] # candidates[j],
               TimesSent(candidates[j]) > 0, NEW i \in 1..(j - 1)
        PROVE  TimesSent(candidates[i]) = Tries
    <3>1. PICK k \in 1..(idx - 1) : candidates[k] = candidates[j]
      BY <1>2, <2>1, <2>3 DEF Before
    <3>2. i \in 1..(idx - 1)
      BY <1>1, <2>3, <3>1
    <3>3. QED
      BY <2>1, <3>2 DEF Before
  <2>4. QED
    BY <2>2, <2>3
<1>4. CASE pc \in Dispatched
  <2>1. /\ attempted = Before(idx)
        /\ \A r \in Before(idx - 1) : TimesSent(r) = Tries
        /\ TimesSent(Current) <= Tries
    BY <1>1, <1>4 DEF Progress, Trying, Begun
  <2>2. \A k \in 1..idx : k = idx \/ candidates[k] \in Before(idx - 1)
    BY <1>1 DEF Before
  <2>3. TimesSent(candidates[j]) <= Tries
    <3>1. CASE candidates[j] \in attempted
      <4>1. PICK k \in 1..idx : candidates[k] = candidates[j]
        BY <2>1, <3>1 DEF Before
      <4>2. QED
        BY <1>1, <2>1, <2>2, <4>1 DEF Current
    <3>2. QED
      BY <1>1, <1>2, <3>1
  <2>4. ASSUME \A i \in 1..(j - 1) : candidates[i] # candidates[j],
               TimesSent(candidates[j]) > 0, NEW i \in 1..(j - 1)
        PROVE  TimesSent(candidates[i]) = Tries
    <3>1. PICK k \in 1..idx : candidates[k] = candidates[j]
      BY <1>2, <2>1, <2>4 DEF Before
    <3>2. i \in 1..(idx - 1)
      BY <1>1, <2>4, <3>1
    <3>3. QED
      BY <2>1, <3>2 DEF Before
  <2>5. QED
    BY <2>3, <2>4
<1>5. QED
  BY <1>3, <1>4 DEF TypeOK, PC, Dispatched

LEMMA ProgressInit == Init => Progress
<1> SUFFICES ASSUME Init PROVE Progress
  OBVIOUS
<1>1. \A r : TimesSent(r) = 0
  <2>1. \A r : {i \in DOMAIN sent : sent[i] = r} = {}
    BY DEF Init
  <2>2. QED
    BY <2>1, FS_EmptySet DEF TimesSent
<1>2. attempted = {} /\ Before(idx - 1) = {}
  BY DEF Init, Before
<1>3. QED
  BY <1>1, <1>2 DEF Init, Progress, Waiting, Trying, Dispatched

(* A step that sends nothing and leaves the loop where it is.                *)
LEMMA StandsStill ==
  ASSUME Progress, UNCHANGED <<req, policy, candidates, idx, try, attempted, sent>>,
         pc' = pc \/ (pc = "arrived" /\ pc' = "pick") \/ (pc \in Begun /\ pc' \in Begun)
  PROVE  Progress'
<1>1. /\ \A r : TimesSent(r)' = TimesSent(r)
      /\ \A k : Before(k)' = Before(k)
      /\ UNCHANGED <<Current, Tries>>
  BY DEF TimesSent, Before, Current, Tries, MaxTries
<1>2. CASE pc = "done"
  BY <1>2 DEF Progress, Begun
<1>3. CASE pc # "done"
  <2>1. Waiting /\ Trying /\ \A r \in Route : r \notin attempted => TimesSent(r) = 0
    BY <1>3 DEF Progress
  <2>2. Waiting'
    BY <1>1, <2>1 DEF Waiting, Begun
  <2>3. Trying'
    BY <1>1, <2>1 DEF Trying, Dispatched, Begun
  <2>4. QED
    BY <1>1, <2>1, <2>2, <2>3 DEF Progress
<1>4. QED
  BY <1>2, <1>3

(* So every step keeps it: a candidate is left with all its tries made.      *)
LEMMA ProgressStep == IInv /\ Progress /\ [Next]_vars => Progress'
<1> SUFFICES ASSUME IInv, Progress, [Next]_vars, pc' # "done" PROVE Progress'
  BY DEF Progress
<1>t. /\ candidates \in Seq(Route) /\ idx \in Nat \ {0} /\ try \in Nat /\ sent \in Seq(Route)
      /\ pc \in PC /\ Tries \in Nat /\ (pc \in Dispatched => Current \in Route)
  BY TriesType, CurrentType DEF IInv, TypeOK
<1>f. UNCHANGED <<req, policy, candidates, Tries, MaxTries>>
  BY AskedFixed DEF Tries, MaxTries
<1> USE DEF asked, loop, attempt, history
<1>1. CASE Reject
  BY <1>1 DEF Reject
<1>2. CASE Admit
  BY <1>2, <1>f, StandsStill DEF Admit
<1>3. CASE PickCandidate
  <2>1. /\ pc = "pick" /\ attempted = Before(idx - 1) /\ UNCHANGED sent
        /\ \A r \in attempted : TimesSent(r) = Tries
        /\ \A r \in Route : r \notin attempted => TimesSent(r) = 0
        /\ idx <= Len(candidates) /\ Current \in Route
    BY <1>3, <1>t DEF PickCandidate, Progress, Waiting, Current
  <2>2. Before(idx) = Before(idx - 1) \cup {Current}
    BY <1>t DEF Before, Current
  <2>3. \A k \in Nat : Before(k)' = Before(k)
    BY <1>f DEF Before
  <2>4. \A r : TimesSent(r)' = TimesSent(r)
    BY <2>1 DEF TimesSent
  <2>5. CASE Current \in attempted /\ idx > 1
    <3>1. pc' = "pick" /\ idx' = idx + 1 /\ attempted' = attempted
      BY <1>3, <2>1, <2>5 DEF PickCandidate
    <3>2. attempted = Before(idx)
      BY <2>1, <2>2, <2>5
    <3>3. Before(idx - 1)' = Before(idx)
      BY <1>t, <1>f, <3>1 DEF Before
    <3>4. QED
      BY <1>f, <2>1, <2>4, <3>1, <3>2, <3>3 DEF Progress, Waiting, Trying, Dispatched
  <2>6. CASE ~(Current \in attempted /\ idx > 1)
    <3>1. pc' = "try" /\ idx' = idx /\ attempted' = attempted \cup {Current} /\ try' = 0
      BY <1>3, <2>6 DEF PickCandidate
    <3>2. Current \notin attempted
      BY <1>t, <2>1, <2>6 DEF Before
    <3>3. Current' = Current /\ TimesSent(Current) = 0
      BY <1>f, <2>1, <3>1, <3>2 DEF Current
    <3>4. Trying'
      BY <1>f, <1>t, <2>1, <2>2, <2>3, <2>4, <3>1, <3>2, <3>3 DEF Trying, Begun
    <3>5. QED
      BY <2>1, <2>4, <3>1, <3>4 DEF Progress, Waiting
  <2>7. QED
    BY <2>5, <2>6
<1>4. CASE NextTry
  <2>1. /\ pc = "try" /\ attempted = Before(idx) /\ UNCHANGED <<sent, try, attempted>>
        /\ \A r \in Before(idx - 1) : TimesSent(r) = Tries
        /\ TimesSent(Current) = try /\ try <= Tries /\ Current \notin Before(idx - 1)
        /\ \A r \in Route : r \notin attempted => TimesSent(r) = 0
    BY <1>4 DEF NextTry, Progress, Trying, Dispatched, Begun
  <2>2. \A r : TimesSent(r)' = TimesSent(r)
    BY <2>1 DEF TimesSent
  <2>3. \A k \in Nat : Before(k)' = Before(k)
    BY <1>f DEF Before
  <2>4. CASE TriesLeft
    <3>1. pc' = "forward" /\ UNCHANGED idx /\ try < Tries
      BY <1>4, <2>4, TriesType DEF NextTry, TriesLeft, IInv
    <3>2. Current' = Current
      BY <1>f, <3>1 DEF Current
    <3>3. QED
      BY <1>f, <1>t, <2>1, <2>2, <2>3, <3>1, <3>2 DEF Progress, Waiting, Trying, Begun
  <2>5. CASE ~TriesLeft
    <3>1. pc' = "pick" /\ idx' = idx + 1 /\ try = Tries
      BY <1>4, <2>1, <2>5, TriesType DEF NextTry, TriesLeft, IInv
    <3>2. Before(idx) = Before(idx - 1) \cup {Current}
      BY <1>t DEF Before, Current
    <3>3. attempted' = Before(idx - 1)'
      BY <1>t, <2>1, <2>3, <3>1
    <3>4. \A r \in attempted' : TimesSent(r)' = Tries'
      BY <1>f, <2>1, <2>2, <3>1, <3>2
    <3>5. QED
      BY <2>1, <2>2, <3>1, <3>3, <3>4 DEF Progress, Waiting, Trying, Dispatched
  <2>6. QED
    BY <2>4, <2>5
<1>5. CASE Exhausted
  BY <1>5 DEF Exhausted
<1>6. CASE RefuseLocally
  BY <1>6 DEF RefuseLocally, Terminal
<1>7. CASE RejectURL
  BY <1>7 DEF RejectURL, Terminal
<1>8. CASE SendUpstream
  <2>1. /\ pc = "forward" /\ pc' = "wait" /\ UNCHANGED <<idx, try, attempted>>
        /\ attempted = Before(idx) /\ sent' = Append(sent, Current) /\ Current \in Route
        /\ \A r \in Before(idx - 1) : TimesSent(r) = Tries
        /\ TimesSent(Current) = try /\ try < Tries /\ Current \notin Before(idx - 1)
        /\ \A r \in Route : r \notin attempted => TimesSent(r) = 0
    BY <1>8, <1>t DEF SendUpstream, Progress, Trying, Dispatched, Begun
  <2>2. \A r \in Route : TimesSent(r)' = TimesSent(r) + (IF r = Current THEN 1 ELSE 0)
    BY <1>t, <2>1, SentOnce
  <2>3. \A k \in Nat : Before(k)' = Before(k)
    BY <1>f DEF Before
  <2>4. Current' = Current /\ Current \in Before(idx)
    BY <1>f, <1>t, <2>1 DEF Current, Before
  <2>5. \A r \in Before(idx - 1) : r \in Route
    BY <1>t, <1>8, IInv DEF Before, SendUpstream, IInv, Safety, Position, Dispatched
  <2>6. TimesSent(Current)' = try + 1
    BY <2>1, <2>2, <2>4
  <2>7. \A r \in Before(idx - 1) : TimesSent(r)' = Tries
    BY <1>t, <2>1, <2>2, <2>5
  <2>8. \A r \in Route : r \notin attempted => TimesSent(r)' = 0
    BY <2>1, <2>2, <2>4
  <2>9. Trying'
    BY <1>f, <1>t, <2>1, <2>3, <2>4, <2>6, <2>7 DEF Trying, Begun
  <2>10. QED
    BY <2>1, <2>8, <2>9 DEF Progress, Waiting
<1>9. CASE pc \in Begun /\ pc' = "try" /\ try' = try + 1 /\ UNCHANGED <<idx, attempted, sent>>
  <2>1. /\ attempted = Before(idx) /\ try < Tries
        /\ \A r \in Before(idx - 1) : TimesSent(r) = Tries
        /\ TimesSent(Current) = try + 1 /\ Current \notin Before(idx - 1)
        /\ \A r \in Route : r \notin attempted => TimesSent(r) = 0
    BY <1>9 DEF Progress, Trying, Dispatched, Begun
  <2>2. \A r : TimesSent(r)' = TimesSent(r)
    BY <1>9 DEF TimesSent
  <2>3. \A k \in Nat : Before(k)' = Before(k)
    BY <1>f DEF Before
  <2>4. Current' = Current
    BY <1>f, <1>9 DEF Current
  <2>5. Trying'
    BY <1>f, <1>t, <1>9, <2>1, <2>2, <2>3, <2>4 DEF Trying, Begun
  <2>6. QED
    BY <1>9, <2>1, <2>2, <2>5 DEF Progress, Waiting
<1>10. CASE pc = "wait" /\ DoFails
  BY <1>9, <1>10 DEF DoFails, Retried, Terminal, Begun
<1>11. CASE StatusRetry
  BY <1>9, <1>11 DEF StatusRetry, Retried, Begun
<1>12. CASE DoReturnsHeaders
  BY <1>12, <1>f, StandsStill DEF DoReturnsHeaders, Begun
<1>13. CASE ConvertBody
  BY <1>13, <1>f, StandsStill DEF ConvertBody, Begun
<1>14. CASE StartRelay
  BY <1>14, <1>f, StandsStill DEF StartRelay, Begun
<1>15. ASSUME NEW how \in {"complete", "client", "timer", "upstream"}, RelayEnds(how)
       PROVE  Progress'
  BY <1>15 DEF RelayEnds
<1>16. CASE TimerExpires \/ TimerCancels \/ ClientDisconnects \/ UNCHANGED vars
  BY <1>16, <1>f, StandsStill DEF TimerExpires, TimerCancels, ClientDisconnects, vars
<1>17. QED
  BY <1>1, <1>2, <1>3, <1>4, <1>5, <1>6, <1>7, <1>8, <1>10, <1>11, <1>12, <1>13, <1>14,
     <1>15, <1>16, NextCases

(* Nothing is sent by the step that ends the request.                        *)
LEMMA OrderStep == IInv /\ Progress /\ RoutesTriedInOrder /\ [Next]_vars => RoutesTriedInOrder'
<1> SUFFICES ASSUME IInv, Progress, RoutesTriedInOrder, [Next]_vars PROVE RoutesTriedInOrder'
  OBVIOUS
<1>1. TypeOK' /\ Progress'
  BY TypeStep, ProgressStep
<1>2. CASE pc' # "done"
  <2>1. TypeOK' /\ Progress' /\ (pc # "done")' => RoutesTriedInOrder'
    BY ProgressOrdered, PTL
  <2>2. QED
    BY <1>1, <1>2, <2>1
<1>3. CASE pc' = "done"
  <2>1. UNCHANGED sent
    BY <1>3, NextCases
    DEF vars, asked, history, Reject, Admit, PickCandidate, NextTry, Exhausted,
       RefuseLocally, RejectURL, SendUpstream, DoFails, DoReturnsHeaders, StatusRetry,
       ConvertBody, StartRelay, RelayEnds, TimerExpires, TimerCancels, ClientDisconnects
  <2>2. UNCHANGED <<req, policy, candidates>>
    BY AskedFixed
  <2>3. QED
    BY <2>1, <2>2 DEF RoutesTriedInOrder, TimesSent, Tries, MaxTries
<1>4. QED
  BY <1>2, <1>3

-----------------------------------------------------------------------------
(* The promise *)

(* The calls made on the current candidate. *)
Spent == IF pc \in Begun THEN try + 1 ELSE IF pc \in {"try", "forward"} THEN try ELSE 0

(* The calls so far fit into the tries of the candidates passed, and nothing *)
(* is refused for its status that nobody had.                                *)
Within ==
  /\ pc # "done" => Len(sent) <= Tries * (idx - 1) + Spent
  /\ pc \in Begun \/ refused => sent # <<>>

LEMMA Product ==
  ASSUME NEW t \in Nat, NEW i \in Nat \ {0}
  PROVE  /\ t * (i - 1) \in Nat /\ t * i \in Nat /\ t * i = t * (i - 1) + t
         /\ \A n \in Nat : i <= n => t * n \in Nat /\ t * i <= t * n
<1>1. t * (i - 1) \in Nat /\ t * i \in Nat /\ t * i = t * (i - 1) + t
  OBVIOUS
<1>2. ASSUME NEW n \in Nat, i <= n PROVE t * n \in Nat /\ t * i <= t * n
  BY <1>2
<1>3. QED
  BY <1>1, <1>2

LEMMA WithinInit == Init => Within
<1> SUFFICES ASSUME Init PROVE Within
  OBVIOUS
<1>1. Tries \in Nat /\ Tries * 0 = 0
  BY TriesType, InitIInv DEF IInv
<1>2. QED
  BY <1>1 DEF Init, Within, Spent, Begun

(* One more call is one more element.                                        *)
LEMMA OneMore ==
  ASSUME sent \in Seq(Route), NEW c, sent' = Append(sent, c)
  PROVE  Len(sent') = Len(sent) + 1 /\ sent' # <<>>
OBVIOUS

LEMMA WithinStep == IInv /\ Progress /\ Within /\ [Next]_vars => Within'
<1> SUFFICES ASSUME IInv, Progress, Within, [Next]_vars PROVE Within'
  OBVIOUS
<1>t. /\ idx \in Nat \ {0} /\ try \in Nat /\ sent \in Seq(Route) /\ Len(sent) \in Nat
      /\ pc \in PC /\ Tries \in Nat /\ Tries * (idx - 1) \in Nat
      /\ Tries * idx = Tries * (idx - 1) + Tries
  BY TriesType, Product DEF IInv, TypeOK
<1>f. UNCHANGED Tries
  BY AskedFixed DEF Tries, MaxTries
<1> USE DEF Within, Spent, Begun, asked, loop, attempt, history
<1>1. CASE Reject
  BY <1>1 DEF Reject
<1>2. CASE Admit
  BY <1>2, <1>f DEF Admit
<1>3. CASE PickCandidate
  <2>1. pc = "pick" /\ Len(sent) <= Tries * (idx - 1) /\ UNCHANGED <<sent, refused>>
    BY <1>3, <1>t DEF PickCandidate
  <2>2. CASE pc' = "pick" /\ idx' = idx + 1
    <3>1. Tries' * (idx' - 1) = Tries * idx
      BY <1>t, <1>f, <2>2
    <3>2. QED
      BY <1>t, <2>1, <2>2, <3>1
  <2>3. CASE pc' = "try" /\ idx' = idx /\ try' = 0
    BY <1>t, <1>f, <2>1, <2>3
  <2>4. QED
    BY <1>3, <2>2, <2>3 DEF PickCandidate
<1>4. CASE NextTry
  <2>1. pc = "try" /\ Len(sent) <= Tries * (idx - 1) + try /\ try <= Tries /\ UNCHANGED <<sent, refused, try>>
    BY <1>4 DEF NextTry, Progress, Trying, Dispatched
  <2>2. CASE pc' = "forward" /\ idx' = idx
    BY <1>t, <1>f, <2>1, <2>2
  <2>3. CASE pc' = "pick" /\ idx' = idx + 1
    <3>1. Tries' * (idx' - 1) = Tries * idx
      BY <1>t, <1>f, <2>3
    <3>2. QED
      BY <1>t, <2>1, <2>3, <3>1
  <2>4. QED
    BY <1>4, <2>2, <2>3 DEF NextTry
<1>5. CASE Exhausted
  BY <1>5 DEF Exhausted
<1>6. CASE RefuseLocally
  BY <1>6 DEF RefuseLocally, Terminal
<1>7. CASE RejectURL
  BY <1>7 DEF RejectURL, Terminal
<1>8. CASE SendUpstream
  <2>1. pc = "forward" /\ pc' = "wait" /\ UNCHANGED <<idx, try, refused>>
        /\ Len(sent') = Len(sent) + 1 /\ sent' # <<>>
    BY <1>8, <1>t, OneMore DEF SendUpstream
  <2>2. QED
    BY <1>t, <1>f, <2>1
<1>9. CASE pc = "wait" /\ DoFails
  BY <1>9, <1>t, <1>f DEF DoFails, Retried, Terminal
<1>10. CASE DoReturnsHeaders
  BY <1>10, <1>f DEF DoReturnsHeaders
<1>11. CASE StatusRetry
  BY <1>11, <1>t, <1>f DEF StatusRetry, Retried
<1>12. CASE ConvertBody
  BY <1>12, <1>f DEF ConvertBody
<1>13. CASE StartRelay
  BY <1>13, <1>f DEF StartRelay
<1>14. ASSUME NEW how \in {"complete", "client", "timer", "upstream"}, RelayEnds(how)
      PROVE  Within'
  BY <1>14 DEF RelayEnds
<1>15. CASE TimerExpires \/ TimerCancels \/ ClientDisconnects
  BY <1>15, <1>f DEF TimerExpires, TimerCancels, ClientDisconnects
<1>16. CASE UNCHANGED vars
  BY <1>16, <1>f DEF vars
<1>17. QED
  BY <1>1, <1>2, <1>3, <1>4, <1>5, <1>6, <1>7, <1>8, <1>9, <1>10, <1>11, <1>12, <1>13,
     <1>14, <1>15, <1>16, NextCases

Phase == CASE pc = "done"  -> IF written = <<>> THEN "dropped" ELSE "closed"
           [] pc = "relay" -> "answering"
           [] OTHER        -> "open"

Budget == Tries * Len(candidates)

LEMMA PromiseInit == Init => Promise!Init
<1> SUFFICES ASSUME Init PROVE Promise!Init
  OBVIOUS
<1>1. Tries \in Nat /\ Len(candidates) \in Nat
  BY TriesType, InitIInv DEF IInv, TypeOK
<1>2. Tries * Len(candidates) \in Nat
  BY <1>1
<1>3. Len(sent) = 0
  BY DEF Init
<1>4. QED
  BY <1>2, <1>3 DEF Init, Promise!Init

LEMMA Stutters ==
  ASSUME UNCHANGED <<Phase, Budget, sent>>
  PROVE  [Promise!Next]_(Promise!vars)
BY DEF Promise!vars, Phase, Budget

LEMMA Answers ==
  ASSUME UNCHANGED <<Budget, sent>>, Phase = "open", Phase' \in {"answering", "closed"}
  PROVE  Promise!Next
<1>1. Promise!Answer
  BY DEF Promise!Answer, Phase, Budget
<1>2. QED
  BY <1>1 DEF Promise!Next

LEMMA Drops ==
  ASSUME UNCHANGED <<Budget, sent>>, Phase = "open", Phase' = "dropped", Len(sent) > 0
  PROVE  Promise!Next
<1>1. Promise!Drop
  BY DEF Promise!Drop, Phase, Budget
<1>2. QED
  BY <1>1 DEF Promise!Next

(* A call is only made while there is budget: the tries of the current       *)
(* candidate are part of it.                                                 *)
LEMMA Sends ==
  ASSUME IInv, Progress, Within, [Next]_vars, SendUpstream
  PROVE  Promise!Next
<1>1. /\ pc = "forward" /\ pc' = "wait" /\ sent' = Append(sent, Current) /\ sent \in Seq(Route)
      /\ idx \in Nat \ {0} /\ try \in Nat /\ Tries \in Nat
      /\ Len(candidates) \in Nat /\ idx <= Len(candidates)
  BY TriesType DEF IInv, TypeOK, Safety, Position, Dispatched, SendUpstream
<1>2. try < Tries /\ Len(sent) <= Tries * (idx - 1) + try
  BY <1>1 DEF Progress, Trying, Within, Spent, Dispatched, Begun
<1>3. Tries * (idx - 1) \in Nat /\ Tries * idx = Tries * (idx - 1) + Tries
      /\ Budget \in Nat /\ Tries * idx <= Budget
  BY <1>1, Product DEF Budget
<1>4. Len(sent) \in Nat /\ Len(sent) < Budget
  <2>1. Len(sent) \in Nat /\ Tries * idx \in Nat
    BY <1>1, Product
  <2>2. QED
    BY <2>1, <1>1, <1>2, <1>3
<1>5. Len(sent') = Len(sent) + 1
  BY <1>1, OneMore
<1>6. UNCHANGED Budget
  BY AskedFixed DEF Budget, Tries, MaxTries
<1>7. Phase = "open" /\ Phase' = "open"
  BY <1>1 DEF Phase
<1>8. Promise!Send
  BY <1>4, <1>5, <1>6, <1>7 DEF Promise!Send, Phase, Budget
<1>9. QED
  BY <1>8 DEF Promise!Next

LEMMA PromiseStep == IInv /\ Progress /\ Within /\ [Next]_vars => [Promise!Next]_(Promise!vars)
<1> SUFFICES ASSUME IInv, Progress, Within, [Next]_vars PROVE [Promise!Next]_(Promise!vars)
  OBVIOUS
<1>b. UNCHANGED Budget
  BY AskedFixed DEF Budget, Tries, MaxTries
<1>o. pc \notin {"relay", "done"} => written = <<>>
  BY DEF IInv, Safety, OneAnswer
<1>w. pc = "relay" => written # <<>>
  BY OneIsNotNone DEF IInv, Safety, OneAnswer
<1>s. pc \in Begun \/ refused => Len(sent) > 0
  BY DEF Within, IInv, TypeOK
<1> USE DEF asked, loop, attempt, history
<1>1. CASE Reject
  <2>1. PICK st \in {503, 400, 413, 401, 403, 429} : Write("gateway", st)
    BY <1>1 DEF Reject
  <2>2. written' # <<>>
    BY <1>1, <1>o, <2>1, FirstWrite DEF Reject
  <2>3. QED
    BY <1>1, <1>b, <2>2, Answers DEF Reject, Phase
<1>2. CASE Admit
  BY <1>2, <1>b, Stutters DEF Admit, Phase
<1>3. CASE PickCandidate
  BY <1>3, <1>b, Stutters DEF PickCandidate, Phase
<1>4. CASE NextTry
  BY <1>4, <1>b, Stutters DEF NextTry, Phase
<1>5. CASE Exhausted
  <2>1. CASE wroteResponse
    <3>1. refused /\ written' = <<>>
      BY <1>5, <1>o, <2>1 DEF Exhausted, IInv, Safety, Position
    <3>2. QED
      BY <1>5, <1>b, <1>s, <3>1, Drops DEF Exhausted, Phase
  <2>2. CASE ~wroteResponse
    <3>1. written' # <<>>
      BY <1>5, <1>o, <2>2, FirstWrite DEF Exhausted
    <3>2. QED
      BY <1>5, <1>b, <3>1, Answers DEF Exhausted, Phase
  <2>3. QED
    BY <2>1, <2>2
<1>6. ASSUME NEW status \in Int, Terminal(status), UNCHANGED sent, pc \in {"forward", "wait"}
      PROVE  [Promise!Next]_(Promise!vars)
  <2>1. written' # <<>> /\ pc' = "done"
    BY <1>6, <1>o, TerminalAnswers
  <2>2. QED
    BY <1>6, <1>b, <2>1, Answers DEF Phase
<1>7. CASE RefuseLocally \/ RejectURL
  BY <1>6, <1>7 DEF RefuseLocally, RejectURL
<1>8. CASE SendUpstream
  BY <1>8, Sends
<1>9. ASSUME NEW status, Retried(status), UNCHANGED sent, pc \in {"wait", "headers"}
      PROVE  [Promise!Next]_(Promise!vars)
  <2>1. written' = <<>> /\ Len(sent) > 0
    BY <1>9, <1>o, <1>s DEF Retried, Begun
  <2>2. CASE pc' = "done"
    BY <1>9, <1>b, <2>1, <2>2, Drops DEF Phase
  <2>3. CASE pc' = "try"
    BY <1>9, <1>b, <2>3, Stutters DEF Phase
  <2>4. QED
    BY <1>9, <2>2, <2>3 DEF Retried
<1>10. CASE pc = "wait" /\ DoFails
  BY <1>6, <1>9, <1>10 DEF DoFails
<1>11. CASE DoReturnsHeaders
  BY <1>11, <1>b, Stutters DEF DoReturnsHeaders, Phase
<1>12. CASE StatusRetry
  BY <1>9, <1>12 DEF StatusRetry
<1>13. CASE ConvertBody
  BY <1>13, <1>b, Stutters DEF ConvertBody, Phase
<1>14. CASE StartRelay
  BY <1>14, <1>b, Answers DEF StartRelay, Phase
<1>15. ASSUME NEW how \in {"complete", "client", "timer", "upstream"}, RelayEnds(how)
       PROVE  [Promise!Next]_(Promise!vars)
  <2>1. pc = "relay" /\ pc' = "done" /\ UNCHANGED <<sent, written>>
    BY <1>15 DEF RelayEnds
  <2>2. Promise!Finish
    BY <1>b, <1>w, <2>1 DEF Promise!Finish, Budget
  <2>3. QED
    BY <2>2 DEF Promise!Next
<1>16. CASE TimerExpires \/ TimerCancels \/ ClientDisconnects \/ UNCHANGED vars
  BY <1>16, <1>b, Stutters
  DEF TimerExpires, TimerCancels, ClientDisconnects, vars, Phase
<1>17. QED
  BY <1>1, <1>2, <1>3, <1>4, <1>5, <1>7, <1>8, <1>10, <1>11, <1>12, <1>13, <1>14, <1>15,
     <1>16, NextCases

-----------------------------------------------------------------------------
(* IInv is inductive: the type invariant and the two safety invariants hold  *)
(* in every state of every instance.                                         *)
THEOREM Inductive == Spec => []IInv
<1>1. IInv /\ [Next]_vars => IInv'
  BY TypeStep, SafetyStep DEF IInv
<1>2. QED
  BY InitIInv, <1>1, PTL DEF Spec

(* The candidates are tried in their order, each within its tries, for any   *)
(* list, retries and upstreams.                                              *)
THEOREM TriedInOrder == Spec => []RoutesTriedInOrder
<1>1. IInv /\ [Next]_vars => IInv'
  BY TypeStep, SafetyStep DEF IInv
<1>2. Init => IInv /\ Progress /\ RoutesTriedInOrder
  <2>1. Init => pc # "done"
    BY DEF Init
  <2>2. QED
    BY InitIInv, ProgressInit, ProgressOrdered, <2>1 DEF IInv
<1>3. QED
  BY <1>1, <1>2, ProgressStep, OrderStep, PTL DEF Spec

(* The handler implements ProxyPromise, for any list, policy and upstreams:  *)
(* calls within the budget, one answer after which nothing is called, and    *)
(* silence only when an upstream had the request.                            *)
THEOREM ProxyImplementsPromise == Spec => PromiseKept
<1>1. IInv /\ [Next]_vars => IInv'
  BY TypeStep, SafetyStep DEF IInv
<1>2. Init => IInv /\ Progress /\ Within
  BY InitIInv, ProgressInit, WithinInit
<1>3. QED
  BY <1>1, <1>2, ProgressStep, WithinStep, PromiseInit, PromiseStep, PTL
     DEF Spec, PromiseKept, Promise!Spec

(* The variables always have their types.                                    *)
THEOREM TypeCorrect == Spec => []TypeOK
BY Inductive, PTL DEF IInv

(* No request is answered twice, or answered before the loop is left.        *)
THEOREM AnsweredOnce == Spec => []OneAnswer
BY Inductive, PTL DEF IInv, Safety

(* A request that ends unanswered had an attempt given up for its status:    *)
(* timeouts and network errors alone always end in a response.               *)
THEOREM SilenceExplained == Spec => []SilentOnlyAfterRefusal
BY Inductive, PTL DEF IInv, Safety

(* A request for a named channel, or under a disabled policy, reaches at     *)
(* most one upstream, whatever the retries and candidates are set to.  It    *)
(* ends in the silence net/http makes an empty 200 exactly when the one      *)
(* upstream's status was given up, which a disabled policy never does        *)
(* (handler.go:242-246, :251-258, :279).                                     *)
THEOREM LeavesOnce == Spec => []SingleShot
<1>1. IInv /\ [Next]_vars => IInv'
  BY TypeStep, SafetyStep DEF IInv
<1>2. IInv /\ Once => SingleShot
  BY DEF IInv, Safety, SilentOnlyAfterRefusal, Once, NamedOnce, DisabledOnce, SingleShot
<1>3. QED
  BY InitIInv, OnceInit, OnceStep, <1>1, <1>2, PTL DEF Spec

-----------------------------------------------------------------------------
(***************************************************************************)
(* The requests of the keys.                                               *)
(***************************************************************************)
Load(k) == Cardinality(Account!UnderWay(k))

(* What is used and what the requests under way may still add stays below    *)
(* the highest quota and what the most of them could add.                    *)
Covered(k) ==
  key[k].used + MaxCost * Load(k) < top[k] + MaxCost * peak[k]

(* The quota in force does not pass the highest one.                         *)
WithinTop(k) ==
  key[k].at = "row" /\ top[k] # None => key[k].quota # None /\ key[k].quota <= top[k]

(* Of each key: nothing is under way before it is given out, the records are *)
(* not behind, and what is to come is covered.                               *)
Bounded(k) ==
  /\ key[k].at = "free" => Account!UnderWay(k) = {} /\ key[k].used = 0
  /\ WithinTop(k)
  /\ Load(k) <= peak[k]
  /\ top[k] # None /\ (Account!UnderWay(k) # {} \/ key[k].used > 0) => Covered(k)

(* Who is not let in yet has no key, so the administrator's request charges  *)
(* nobody.                                                                   *)
Unknown == \A r \in Relayed : stage[r] = "new" => apiKey[r] = None

(* The log only moves on for a request that was let in and is not over.      *)
Handled ==
  \A r \in Relayed :
    /\ update[r] # "none" => created[r] # 0
    /\ created[r] # 0 /\ update[r] # "over" => stage[r] = "admitted"

AccountInv == Account!TypeOK /\ Unknown /\ Handled /\ \A k \in Key : Bounded(k)

-----------------------------------------------------------------------------
(* Arithmetic and counting *)

LEMMA Multiples ==
  ASSUME NEW n \in Nat
  PROVE  /\ MaxCost * n \in Nat /\ MaxCost * (n + 1) = MaxCost * n + MaxCost
         /\ \A m \in Nat : n <= m => MaxCost * n <= MaxCost * m
<1>1. MaxCost \in Nat
  BY AccountAssumption DEF Account!QuotaAssumption
<1>2. MaxCost * n \in Nat /\ MaxCost * (n + 1) = MaxCost * n + MaxCost
  BY <1>1
<1>3. ASSUME NEW m \in Nat, n <= m PROVE MaxCost * n <= MaxCost * m
  BY <1>1, <1>3
<1>4. QED
  BY <1>2, <1>3

LEMMA Counted ==
  ASSUME NEW S \in SUBSET Relayed
  PROVE  /\ IsFiniteSet(S) /\ Cardinality(S) \in Nat
         /\ S = {} => Cardinality(S) = 0
         /\ \A T \in SUBSET S : Cardinality(T) <= Cardinality(S)
         /\ \A r \in Relayed \ S : Cardinality(S \cup {r}) = Cardinality(S) + 1
         /\ \A r \in S : Cardinality(S) = Cardinality(S \ {r}) + 1
<1>1. IsFiniteSet(S)
  BY AccountAssumption, FS_Subset
<1>2. Cardinality(S) \in Nat
  BY <1>1, FS_CardinalityType
<1>3. S = {} => Cardinality(S) = 0
  BY FS_EmptySet
<1>4. \A T \in SUBSET S : Cardinality(T) <= Cardinality(S)
  BY <1>1, FS_Subset
<1>5. \A r \in Relayed \ S : Cardinality(S \cup {r}) = Cardinality(S) + 1
  BY <1>1, FS_AddElement
<1>6. ASSUME NEW r \in S PROVE Cardinality(S) = Cardinality(S \ {r}) + 1
  <2>1. Cardinality(S \ {r}) = Cardinality(S) - 1
    BY <1>1, FS_RemoveElement
  <2>2. QED
    BY <1>2, <2>1
<1>7. QED
  BY <1>1, <1>2, <1>3, <1>4, <1>5, <1>6

LEMMA UnderWayType == \A k \in Key : Account!UnderWay(k) \in SUBSET Relayed /\ Load(k) \in Nat
BY Counted DEF Account!UnderWay, Load

-----------------------------------------------------------------------------
(* The kinds of steps *)

LEMMA AccountCases ==
  ASSUME [Account!Next]_Account!vars
  PROVE  \/ \E r \in Relayed, k \in Key : Account!Authenticate(r, k)
         \/ \E r \in Relayed : \/ Account!AuthenticateAdmin(r) \/ Account!Refuse(r)
                                 \/ Account!EndUnrelayed(r) \/ Account!Relay(r)
         \/ \E r \in Relayed : \/ Account!EndUncharged(r) \/ Account!ChargeQuota(r)
                                 \/ Account!IncrementCostUsed(r)
         \/ \E k \in Key, quota \in Quota \cup {None} :
               Account!Create(k, quota) \/ Account!SetCostQuota(k, quota)
         \/ \E k \in Key : Account!DeleteKey(k)
         \/ UNCHANGED Account!quotaVars
         \/ Account!Crash
BY DEF Account!Next, Account!vars

(* A step of the log leaves its types; StatsRollupProofs has the same for    *)
(* the statistics.                                                           *)
LEMMA LogTypeStep == Account!LogTypeOK /\ [Account!Next]_Account!vars => Account!LogTypeOK'
<1> SUFFICES ASSUME Account!LogTypeOK, [Account!Next]_Account!vars PROVE Account!LogTypeOK'
  OBVIOUS
<1> USE AccountAssumption DEF Account!LogTypeOK, Account!Time, Account!logVars
<1>1. ASSUME NEW r \in Relayed, Account!Relay(r) PROVE Account!LogTypeOK'
  BY <1>1 DEF Account!Relay, Account!RecordRequest
<1>2. ASSUME NEW r \in Relayed, Account!SaveRequest(r) PROVE Account!LogTypeOK'
  BY <1>2 DEF Account!SaveRequest
<1>3. ASSUME NEW r \in Relayed, Account!RecordResponse(r) PROVE Account!LogTypeOK'
  BY <1>3 DEF Account!RecordResponse
<1>4. ASSUME NEW r \in Relayed, Account!Observe(r) PROVE Account!LogTypeOK'
  BY <1>4 DEF Account!Observe
<1>5. ASSUME NEW r \in Relayed, Account!WaitForRequest(r) PROVE Account!LogTypeOK'
  BY <1>5 DEF Account!WaitForRequest
<1>6. ASSUME NEW r \in Relayed, Account!ObserveDone(r) PROVE Account!LogTypeOK'
  BY <1>6 DEF Account!ObserveDone
<1>7. ASSUME NEW r \in Relayed, Account!GiveUp(r) PROVE Account!LogTypeOK'
  BY <1>7 DEF Account!GiveUp
<1>8. ASSUME NEW r \in Relayed, Account!SaveResponse(r) PROVE Account!LogTypeOK'
  BY <1>8 DEF Account!SaveResponse
<1>9. CASE Account!Count
  BY <1>9 DEF Account!Count
<1>10. CASE Account!FindCutoff
  BY <1>10 DEF Account!FindCutoff, Account!Present
<1>11. CASE Account!Delete
  BY <1>11 DEF Account!Delete
<1>12. CASE Account!CleanupFails
  BY <1>12 DEF Account!CleanupFails
<1>13. CASE Account!Clock
  BY <1>13 DEF Account!Clock
<1>14. CASE Account!Crash
  BY <1>14 DEF Account!Crash, Account!Restart
<1>15. CASE UNCHANGED Account!logVars
  BY <1>15
<1>16. ASSUME NEW r \in Relayed,
              (\E k \in Key : Account!Authenticate(r, k)) \/ Account!AuthenticateAdmin(r) \/ Account!Refuse(r)
                \/ Account!EndUnrelayed(r) \/ Account!IncrementCostUsed(r)
       PROVE  UNCHANGED Account!logVars
  BY <1>16
  DEF Account!Authenticate, Account!AuthenticateAdmin, Account!Refuse,
      Account!EndUnrelayed, Account!IncrementCostUsed
<1>17. ASSUME NEW k \in Key,
              (\E quota \in Quota \cup {None} : Account!Create(k, quota) \/ Account!SetCostQuota(k, quota))
                \/ Account!DeleteKey(k)
       PROVE  UNCHANGED Account!logVars
  BY <1>17 DEF Account!Create, Account!SetCostQuota, Account!DeleteKey
<1>18. QED
  BY <1>1, <1>2, <1>3, <1>4, <1>5, <1>6, <1>7, <1>8, <1>9, <1>10, <1>11, <1>12, <1>13,
     <1>14,
     <1>15, <1>16, <1>17
  DEF Account!Next, Account!EndUncharged, Account!ChargeQuota, Account!Cleanup, Account!vars

LEMMA HigherFacts ==
  ASSUME NEW a \in Int \cup {None}, NEW b \in Int \cup {None}
  PROVE  /\ Account!Higher(a, b) \in Int \cup {None}
         /\ Account!Higher(a, b) # None => /\ a # None /\ b # None
                                  /\ Account!Higher(a, b) >= a /\ Account!Higher(a, b) >= b
<1>1. CASE a = None \/ b = None
  BY <1>1 DEF Account!Higher
<1>2. CASE a # None /\ b # None
  <2>1. a \in Int /\ b \in Int
    BY <1>2
  <2>2. CASE a > b
    BY <1>2, <2>1, <2>2 DEF Account!Higher
  <2>3. CASE ~(a > b)
    BY <1>2, <2>1, <2>3 DEF Account!Higher
  <2>4. QED
    BY <2>2, <2>3
<1>3. QED
  BY <1>1, <1>2

LEMMA AccountTypeStep ==
  Account!TypeOK /\ [Account!Next]_Account!vars => Account!TypeOK'
<1> SUFFICES ASSUME Account!TypeOK, [Account!Next]_Account!vars PROVE Account!TypeOK'
  OBVIOUS
<1>0. Account!LogTypeOK'
  BY LogTypeStep DEF Account!TypeOK
<1> USE <1>0, AccountAssumption DEF Account!QuotaAssumption, Account!TypeOK, Account!Move
<1>1. ASSUME NEW r \in Relayed, NEW k \in Key, Account!Authenticate(r, k) PROVE Account!TypeOK'
  <2>1. Load(k) \in Nat
    BY UnderWayType
  <2>2. QED
    BY <1>1, <2>1 DEF Account!Authenticate, Load, Account!Cardinality, Cardinality
<1>2. ASSUME NEW r \in Relayed,
             \/ Account!AuthenticateAdmin(r) \/ Account!Refuse(r)
             \/ Account!EndUnrelayed(r) \/ Account!Relay(r)
      PROVE  Account!TypeOK'
  BY <1>2
  DEF Account!AuthenticateAdmin, Account!Refuse, Account!EndUnrelayed, Account!Relay,
      Account!quotaVars
<1>3. ASSUME NEW r \in Relayed, Account!EndUncharged(r) PROVE Account!TypeOK'
  BY <1>3 DEF Account!EndUncharged
<1>4. ASSUME NEW r \in Relayed, Account!ChargeQuota(r) PROVE Account!TypeOK'
  BY <1>4 DEF Account!ChargeQuota
<1>5. ASSUME NEW r \in Relayed, Account!IncrementCostUsed(r) PROVE Account!TypeOK'
  <2>1. key' \in [Key -> [at: {"free", "row", "gone"}, quota: Int \cup {None}, used: Nat]]
    BY <1>5 DEF Account!IncrementCostUsed
  <2>2. QED
    BY <1>5, <2>1 DEF Account!IncrementCostUsed
<1>6. ASSUME NEW k \in Key, NEW quota \in Quota \cup {None},
             Account!Create(k, quota) \/ Account!SetCostQuota(k, quota)
      PROVE  Account!TypeOK'
  <2>1. quota \in Int \cup {None} /\ Account!Higher(top[k], quota) \in Int \cup {None}
    BY HigherFacts
  <2>2. QED
    BY <1>6, <2>1 DEF Account!Create, Account!SetCostQuota
<1>7. ASSUME NEW k \in Key, Account!DeleteKey(k) PROVE Account!TypeOK'
  BY <1>7 DEF Account!DeleteKey
<1>8. CASE UNCHANGED Account!quotaVars
  BY <1>8 DEF Account!quotaVars
<1>9. CASE Account!Crash
  BY <1>9 DEF Account!Crash
<1>10. QED
  BY <1>1, <1>2, <1>3, <1>4, <1>5, <1>6, <1>7, <1>8, <1>9, AccountCases

-----------------------------------------------------------------------------
(* The steps *)

(* Requests that end, and a change of the key that leaves what it has used.  *)
LEMMA Lighter ==
  ASSUME AccountInv, NEW k \in Key,
         key'[k].used = key[k].used, key'[k].at = "free" => key[k].at = "free",
         top'[k] = top[k], peak'[k] = peak[k], WithinTop(k)',
         Account!UnderWay(k)' \subseteq Account!UnderWay(k)
  PROVE  Bounded(k)'
<1> USE DEF AccountInv, Account!TypeOK, Bounded
<1>1. Load(k) \in Nat /\ Load(k)' \in Nat /\ Load(k)' <= Load(k)
  <2>1. Account!UnderWay(k) \in SUBSET Relayed /\ Account!UnderWay(k)' \in SUBSET Account!UnderWay(k)
    BY UnderWayType
  <2>2. QED
    BY <2>1, Counted DEF Load
<1>2. MaxCost * Load(k)' \in Nat /\ MaxCost * Load(k) \in Nat /\ MaxCost * peak[k] \in Nat
      /\ MaxCost * Load(k)' <= MaxCost * Load(k)
  BY <1>1, Multiples
<1>3. ASSUME top[k] # None, Account!UnderWay(k)' # {} \/ key'[k].used > 0 PROVE Covered(k)'
  <2>1. Covered(k)
    BY <1>3
  <2>2. key[k].used + MaxCost * Load(k)' < top[k] + MaxCost * peak[k]
    BY <1>2, <1>3, <2>1 DEF Covered
  <2>3. QED
    BY <2>2 DEF Covered
<1>4. QED
  BY <1>1, <1>3

(* A request let in while something is left: its like are counted by peak.   *)
LEMMA LetIn ==
  ASSUME AccountInv, NEW r \in Relayed, NEW k \in Key, Account!Authenticate(r, k)
  PROVE  Bounded(k)'
<1> USE DEF AccountInv, Account!TypeOK, Bounded
<1>1. Account!UnderWay(k)' = Account!UnderWay(k) \cup {r} /\ r \notin Account!UnderWay(k)
  BY DEF Account!Authenticate, Account!Move, Account!UnderWay
<1>2. Load(k) \in Nat /\ Load(k)' = Load(k) + 1
  <2>1. Account!UnderWay(k) \in SUBSET Relayed
    BY UnderWayType
  <2>2. QED
    BY <1>1, <2>1, Counted DEF Load
<1>3. /\ key' = key /\ top' = top /\ key[k].at = "row" /\ ~Account!QuotaExhausted(k)
      /\ peak'[k] \in Nat /\ peak'[k] >= Load(k) + 1
  BY <1>2 DEF Account!Authenticate, Load, Account!Cardinality, Cardinality
<1>4. ASSUME top[k] # None PROVE Covered(k)'
  <2>1. key[k].used < top[k]
    BY <1>3, <1>4, AccountAssumption
    DEF Account!QuotaAssumption, WithinTop, Account!QuotaExhausted
  <2>2. MaxCost * (Load(k) + 1) \in Nat /\ MaxCost * (Load(k) + 1) <= MaxCost * peak'[k]
        /\ MaxCost * peak'[k] \in Nat
    BY <1>2, <1>3, Multiples
  <2>3. key[k].used + MaxCost * (Load(k) + 1) < top[k] + MaxCost * peak'[k]
    BY <1>4, <2>1, <2>2
  <2>4. QED
    BY <1>2, <1>3, <2>3 DEF Covered
<1>5. WithinTop(k)' /\ key'[k].at # "free" /\ Load(k)' <= peak'[k]
  BY <1>2, <1>3 DEF WithinTop
<1>6. QED
  BY <1>3, <1>4, <1>5

(* A charge takes the place of the request it is for.                        *)
LEMMA Charged ==
  ASSUME AccountInv, NEW r \in Relayed, NEW k \in Key, Account!IncrementCostUsed(r), apiKey[r] = k
  PROVE  Bounded(k)'
<1> USE DEF AccountInv, Account!TypeOK, Bounded
<1>1. r \in Account!UnderWay(k) /\ Account!UnderWay(k)' = Account!UnderWay(k) \ {r}
  BY DEF Account!IncrementCostUsed, Account!Move, Account!UnderWay
<1>2. Load(k) \in Nat /\ Load(k)' \in Nat /\ Load(k) = Load(k)' + 1
  <2>1. Account!UnderWay(k) \in SUBSET Relayed /\ Account!UnderWay(k)' \in SUBSET Relayed
    BY <1>1, UnderWayType
  <2>2. QED
    BY <1>1, <2>1, Counted DEF Load
<1>3. /\ top' = top /\ peak' = peak /\ key'[k].at = key[k].at /\ key'[k].quota = key[k].quota
      /\ key'[k].used \in Nat /\ key'[k].used <= key[k].used + MaxCost
  <2>1. due[r] \in Nat /\ due[r] <= MaxCost
    BY AccountAssumption DEF Account!QuotaAssumption
  <2>2. CASE key' = key
    BY <2>2, AccountAssumption DEF Account!QuotaAssumption, Account!IncrementCostUsed
  <2>3. CASE key' = [key EXCEPT ![k].used = IF key[k].at = "row" THEN @ + due[r] ELSE @]
    BY <2>1, <2>3, AccountAssumption
    DEF Account!QuotaAssumption, Account!IncrementCostUsed
  <2>4. QED
    BY <2>2, <2>3 DEF Account!IncrementCostUsed
<1>4. key[k].at # "free" /\ WithinTop(k)' /\ Load(k)' <= peak'[k]
  BY <1>1, <1>2, <1>3 DEF WithinTop
<1>5. ASSUME top[k] # None PROVE Covered(k)'
  <2>1. Covered(k)
    BY <1>1, <1>5
  <2>2. MaxCost * Load(k) = MaxCost * Load(k)' + MaxCost /\ MaxCost * Load(k)' \in Nat
        /\ MaxCost * peak[k] \in Nat
    BY <1>2, Multiples
  <2>3. key'[k].used + MaxCost * Load(k)' < top[k] + MaxCost * peak[k]
    BY <1>3, <1>5, <2>1, <2>2, AccountAssumption DEF Account!QuotaAssumption, Covered
  <2>4. QED
    BY <1>3, <2>3 DEF Covered
<1>6. QED
  BY <1>3, <1>4, <1>5

(* A quota changes: the record of the highest one goes with it.              *)
LEMMA Changed ==
  ASSUME AccountInv, NEW k \in Key, NEW quota \in Quota \cup {None},
         Account!Create(k, quota) \/ Account!SetCostQuota(k, quota)
  PROVE  Bounded(k)'
<1> USE AccountAssumption DEF Account!QuotaAssumption, AccountInv, Account!TypeOK, Bounded
<1>1. Account!UnderWay(k)' = Account!UnderWay(k) /\ Load(k)' = Load(k) /\ peak' = peak
  BY DEF Account!Create, Account!SetCostQuota, Account!UnderWay, Load
<1>2. CASE Account!Create(k, quota)
  <2>1. key'[k] = [at |-> "row", quota |-> quota, used |-> 0] /\ top'[k] = quota
        /\ key[k].at = "free"
    BY <1>2 DEF Account!Create
  <2>2. Account!UnderWay(k)' = {} /\ WithinTop(k)'
    BY <1>1, <2>1 DEF WithinTop
  <2>3. QED
    BY <1>1, <2>1, <2>2
<1>3. CASE Account!SetCostQuota(k, quota) /\ key[k].at = "row"
  <2>1. key'[k].at = "row" /\ key'[k].quota = quota /\ key'[k].used = key[k].used
        /\ top'[k] = Account!Higher(top[k], quota)
    BY <1>3 DEF Account!SetCostQuota
  <2>2. top'[k] # None => /\ top[k] # None /\ quota # None
                          /\ top'[k] \in Int /\ top'[k] >= top[k] /\ top'[k] >= quota
    <3>1. top[k] \in Int \cup {None} /\ quota \in Int \cup {None}
      OBVIOUS
    <3>2. Account!Higher(top[k], quota) # None =>
            /\ top[k] # None /\ quota # None
            /\ Account!Higher(top[k], quota) >= top[k] /\ Account!Higher(top[k], quota) >= quota
      BY <3>1, HigherFacts
    <3>3. Account!Higher(top[k], quota) \in Int \cup {None}
      BY <3>1, HigherFacts
    <3>4. QED
      BY <2>1, <3>2, <3>3
  <2>3. WithinTop(k)'
    BY <2>1, <2>2 DEF WithinTop
  <2>4. MaxCost * Load(k) \in Nat /\ MaxCost * peak[k] \in Nat
    BY UnderWayType, Multiples
  <2>5. ASSUME top'[k] # None, Account!UnderWay(k) # {} \/ key[k].used > 0 PROVE Covered(k)'
    <3>1. Covered(k)
      BY <2>2, <2>5
    <3>2. key[k].used + MaxCost * Load(k) < top'[k] + MaxCost * peak[k]
      BY <2>2, <2>4, <2>5, <3>1 DEF Covered
    <3>3. QED
      BY <1>1, <2>1, <3>2 DEF Covered
  <2>6. QED
    BY <1>1, <2>1, <2>3, <2>5
<1>4. CASE Account!SetCostQuota(k, quota) /\ key[k].at # "row"
  <2>1. key' = key /\ top' = top
    BY <1>4 DEF Account!SetCostQuota
  <2>2. QED
    BY <1>1, <2>1, Lighter DEF WithinTop
<1>5. QED
  BY <1>2, <1>3, <1>4

LEMMA UnknownStep ==
  AccountInv /\ [Account!Next]_Account!vars => Unknown'
<1> SUFFICES ASSUME AccountInv, [Account!Next]_Account!vars PROVE Unknown'
  OBVIOUS
<1> USE DEF AccountInv, Account!TypeOK, Unknown, Account!Move
<1>1. ASSUME NEW r \in Relayed, NEW k \in Key, Account!Authenticate(r, k) PROVE Unknown'
  BY <1>1 DEF Account!Authenticate
<1>2. ASSUME NEW r \in Relayed,
             \/ Account!AuthenticateAdmin(r) \/ Account!Refuse(r)
             \/ Account!EndUnrelayed(r) \/ Account!Relay(r)
      PROVE  Unknown'
  BY <1>2
  DEF Account!AuthenticateAdmin, Account!Refuse, Account!EndUnrelayed, Account!Relay,
      Account!quotaVars
<1>3. ASSUME NEW r \in Relayed,
             \/ Account!EndUncharged(r) \/ Account!ChargeQuota(r)
             \/ Account!IncrementCostUsed(r)
      PROVE  Unknown'
  BY <1>3 DEF Account!EndUncharged, Account!ChargeQuota, Account!IncrementCostUsed
<1>4. ASSUME NEW k \in Key,
             (\E quota \in Quota \cup {None} : Account!Create(k, quota) \/ Account!SetCostQuota(k, quota))
               \/ Account!DeleteKey(k)
      PROVE  Unknown'
  BY <1>4 DEF Account!Create, Account!SetCostQuota, Account!DeleteKey
<1>5. CASE UNCHANGED Account!quotaVars
  BY <1>5 DEF Account!quotaVars
<1>6. CASE Account!Crash
  BY <1>6 DEF Account!Crash
<1>7. QED
  BY <1>1, <1>2, <1>3, <1>4, <1>5, <1>6, AccountCases

LEMMA HandledStep ==
  AccountInv /\ [Account!Next]_Account!vars => Handled'
<1> SUFFICES ASSUME AccountInv, [Account!Next]_Account!vars PROVE Handled'
  OBVIOUS
<1> USE DEF AccountInv, Account!TypeOK, Account!LogTypeOK, Handled, Account!Move, Account!logVars
<1>1. ASSUME NEW r \in Relayed, NEW k \in Key, Account!Authenticate(r, k) PROVE Handled'
  BY <1>1 DEF Account!Authenticate
<1>2. ASSUME NEW r \in Relayed,
             \/ Account!AuthenticateAdmin(r) \/ Account!Refuse(r)
             \/ Account!EndUnrelayed(r)
      PROVE  Handled'
  BY <1>2 DEF Account!AuthenticateAdmin, Account!Refuse, Account!EndUnrelayed
<1>3. ASSUME NEW r \in Relayed, Account!Relay(r) PROVE Handled'
  BY <1>3 DEF Account!Relay, Account!RecordRequest, Account!quotaVars
<1>4. ASSUME NEW r \in Relayed, Account!EndUncharged(r) PROVE Handled'
  <2>1. CASE Account!RecordResponse(r)
    BY <1>4, <2>1 DEF Account!EndUncharged, Account!RecordResponse
  <2>2. CASE Account!GiveUp(r)
    BY <1>4, <2>2 DEF Account!EndUncharged, Account!GiveUp
  <2>3. QED
    BY <1>4, <2>1, <2>2 DEF Account!EndUncharged
<1>5. ASSUME NEW r \in Relayed, Account!ChargeQuota(r) PROVE Handled'
  BY <1>5 DEF Account!ChargeQuota, Account!SaveResponse
<1>6. ASSUME NEW r \in Relayed, Account!IncrementCostUsed(r) PROVE Handled'
  BY <1>6 DEF Account!IncrementCostUsed
<1>7. ASSUME NEW k \in Key,
             (\E quota \in Quota \cup {None} : Account!Create(k, quota) \/ Account!SetCostQuota(k, quota))
               \/ Account!DeleteKey(k)
      PROVE  Handled'
  BY <1>7 DEF Account!Create, Account!SetCostQuota, Account!DeleteKey
<1>8. ASSUME NEW r \in Relayed,
             Account!SaveRequest(r) \/ Account!Observe(r) \/ Account!WaitForRequest(r) \/ Account!ObserveDone(r),
             UNCHANGED Account!quotaVars
      PROVE  Handled'
  BY <1>8
  DEF Account!SaveRequest, Account!Observe, Account!WaitForRequest, Account!ObserveDone,
      Account!quotaVars
<1>9. ASSUME Account!Cleanup \/ Account!Clock, UNCHANGED Account!quotaVars PROVE Handled'
  BY <1>9
  DEF Account!Cleanup, Account!Count, Account!FindCutoff, Account!Delete,
      Account!CleanupFails, Account!Clock, Account!quotaVars
<1>10. CASE Account!Crash
  BY <1>10 DEF Account!Crash, Account!Restart
<1>11. CASE UNCHANGED Account!vars
  BY <1>11 DEF Account!vars, Account!quotaVars
<1>12. QED
  BY <1>1, <1>2, <1>3, <1>4, <1>5, <1>6, <1>7, <1>8, <1>9, <1>10, <1>11 DEF Account!Next

LEMMA BoundedStep ==
  AccountInv /\ [Account!Next]_Account!vars => \A k \in Key : Bounded(k)'
<1> SUFFICES ASSUME AccountInv, [Account!Next]_Account!vars, NEW k \in Key PROVE Bounded(k)'
  OBVIOUS
<1> DEFINE Same == key'[k] = key[k] /\ top'[k] = top[k] /\ peak'[k] = peak[k]
<1>1. ASSUME Same, Account!UnderWay(k)' \subseteq Account!UnderWay(k) PROVE Bounded(k)'
  <2>1. WithinTop(k)'
    BY <1>1 DEF AccountInv, Bounded, WithinTop
  <2>2. QED
    BY <1>1, <2>1, Lighter
<1> USE DEF AccountInv, Account!TypeOK, Account!Move
<1>2. ASSUME NEW r \in Relayed, NEW j \in Key, Account!Authenticate(r, j) PROVE Bounded(k)'
  <2>1. CASE j # k
    <3>1. Same /\ Account!UnderWay(k)' \subseteq Account!UnderWay(k)
      BY <1>2, <2>1 DEF Account!Authenticate, Account!UnderWay
    <3>2. QED
      BY <1>1, <3>1
  <2>2. QED
    BY <1>2, <2>1, LetIn
<1>3. ASSUME NEW r \in Relayed,
             \/ Account!AuthenticateAdmin(r) \/ Account!Refuse(r)
             \/ Account!EndUnrelayed(r) \/ Account!Relay(r)
      PROVE  Bounded(k)'
  <2>1. Same
    BY <1>3
    DEF Account!AuthenticateAdmin, Account!Refuse, Account!EndUnrelayed, Account!Relay,
        Account!quotaVars
  <2>2. Account!UnderWay(k)' \subseteq Account!UnderWay(k)
    BY <1>3, AccountAssumption
    DEF Account!QuotaAssumption, Unknown, Account!AuthenticateAdmin, Account!Refuse,
        Account!EndUnrelayed, Account!Relay, Account!quotaVars, Account!UnderWay
  <2>3. QED
    BY <1>1, <2>1, <2>2
<1>4. ASSUME NEW r \in Relayed,
             Account!EndUncharged(r) \/ Account!ChargeQuota(r) PROVE Bounded(k)'
  <2>1. Same /\ Account!UnderWay(k)' \subseteq Account!UnderWay(k)
    <3>1. CASE Account!EndUncharged(r)
      BY <1>4, <3>1 DEF Account!EndUncharged, Account!UnderWay
    <3>2. CASE Account!ChargeQuota(r)
      <4>1. stage[r] = "admitted"
        BY <3>2 DEF Account!ChargeQuota, Account!SaveResponse, Handled
      <4>2. QED
        BY <3>2, <4>1 DEF Account!ChargeQuota, Account!UnderWay
    <3>3. QED
      BY <1>4, <3>1, <3>2
  <2>2. QED
    BY <1>1, <2>1
<1>5. ASSUME NEW r \in Relayed, Account!IncrementCostUsed(r) PROVE Bounded(k)'
  <2>1. CASE apiKey[r] # k
    <3>1. Same /\ Account!UnderWay(k)' \subseteq Account!UnderWay(k)
      BY <1>5, <2>1 DEF Account!IncrementCostUsed, Account!UnderWay
    <3>2. QED
      BY <1>1, <3>1
  <2>2. QED
    BY <1>5, <2>1, Charged
<1>6. ASSUME NEW j \in Key, NEW quota \in Quota \cup {None},
             Account!Create(j, quota) \/ Account!SetCostQuota(j, quota)
      PROVE  Bounded(k)'
  <2>1. CASE j # k
    <3>1. Same /\ Account!UnderWay(k)' \subseteq Account!UnderWay(k)
      BY <1>6, <2>1 DEF Account!Create, Account!SetCostQuota, Account!UnderWay
    <3>2. QED
      BY <1>1, <3>1
  <2>2. QED
    BY <1>6, <2>1, Changed
<1>7. ASSUME NEW j \in Key, Account!DeleteKey(j) PROVE Bounded(k)'
  <2>1. /\ key'[k].used = key[k].used /\ key'[k].quota = key[k].quota
        /\ key'[k].at = key[k].at \/ key'[k].at = "gone"
        /\ UNCHANGED <<top, peak>> /\ Account!UnderWay(k)' = Account!UnderWay(k)
    BY <1>7 DEF Account!DeleteKey, Account!UnderWay
  <2>2. WithinTop(k)'
    BY <2>1 DEF Bounded, WithinTop
  <2>3. QED
    BY <2>1, <2>2, Lighter
<1>8. CASE UNCHANGED Account!quotaVars
  <2>1. Same /\ Account!UnderWay(k)' \subseteq Account!UnderWay(k)
    BY <1>8 DEF Account!quotaVars, Account!UnderWay
  <2>2. QED
    BY <1>1, <2>1
<1>9. CASE Account!Crash
  <2>1. Same /\ Account!UnderWay(k)' \subseteq Account!UnderWay(k)
    BY <1>9 DEF Account!Crash, Account!UnderWay
  <2>2. QED
    BY <1>1, <2>1
<1>10. QED
  BY <1>2, <1>3, <1>4, <1>5, <1>6, <1>7, <1>8, <1>9, AccountCases

LEMMA AccountInitially ==
  Account!Init => AccountInv
<1> SUFFICES ASSUME Account!Init PROVE AccountInv
  OBVIOUS
<1>1. Account!TypeOK
  BY AccountAssumption
  DEF Account!QuotaAssumption, Account!Init, Account!LogInit, Account!TypeOK,
      Account!LogTypeOK, Account!Time, Account!NoRow
<1>2. ASSUME NEW k \in Key PROVE Bounded(k)
  <2>1. Account!UnderWay(k) = {} /\ Load(k) = 0
    BY FS_EmptySet DEF Account!Init, Account!UnderWay, Load
  <2>2. QED
    BY <2>1 DEF Account!Init, Account!NoRow, Bounded, WithinTop
<1>3. Unknown /\ Handled
  BY DEF Account!Init, Account!LogInit, Unknown, Handled
<1>4. QED
  BY <1>1, <1>2, <1>3 DEF AccountInv

-----------------------------------------------------------------------------
(* The theorems *)

(* A step of the gateway is one of the keys' requests, or they rest.         *)
LEMMA AccountHolds == GatewaySpec => []AccountInv
<1>1. AccountInv /\ [Account!Next]_Account!vars => AccountInv'
  BY AccountTypeStep, UnknownStep, HandledStep, BoundedStep DEF AccountInv
<1>2. GatewayInit => AccountInv
  BY AccountInitially DEF GatewayInit
<1>3. [GatewayNext]_<<part, vars, account>> => [Account!Next]_Account!vars
  BY DEF GatewayNext, account, Account!vars, Account!logVars, Account!quotaVars
<1> QED
  BY <1>1, <1>2, <1>3, PTL DEF GatewaySpec

(* Every reachable state of the keys and their requests is well typed.       *)
THEOREM AccountTyped == GatewaySpec => []Account!TypeOK
<1>1. AccountInv => Account!TypeOK
  BY DEF AccountInv
<1> QED
  BY <1>1, AccountHolds, PTL

(* For any number of keys, requests and restarts and whatever the console    *)
(* changes, a key is charged less than its highest quota and what the        *)
(* requests that were under way at one time may cost (auth.go:91,            *)
(* handler.go:634-659).                                                      *)
THEOREM QuotaKept == GatewaySpec => []OverspendBounded
<1>1. AccountInv => OverspendBounded
  <2> SUFFICES ASSUME AccountInv, NEW k \in Key, key[k].used > 0, top[k] # None
               PROVE  key[k].used < top[k] + MaxCost * peak[k]
    BY DEF OverspendBounded, Account!OverspendBounded
  <2>1. Covered(k)
    BY DEF AccountInv, Bounded
  <2>2. MaxCost * Load(k) \in Nat /\ MaxCost * peak[k] \in Nat
    BY UnderWayType, Multiples DEF AccountInv, Account!TypeOK
  <2> QED
    BY <2>1, <2>2 DEF Covered, AccountInv, Account!TypeOK
<1> QED
  BY <1>1, AccountHolds, PTL
=============================================================================
