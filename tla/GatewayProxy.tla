---------------------------- MODULE GatewayProxy ----------------------------
(***************************************************************************)
(* One inbound request through the gateway (internal/gateway/handler.go):  *)
(* admission, the candidate list, the retry/failover loop of handleProxy   *)
(* and one forwardOnce per upstream call, with the first-byte timer and    *)
(* the client's disconnection running beside the handler's goroutine.      *)
(*                                                                         *)
(* The relaying of a body is one step here; ResponseRelay opens it up.     *)
(***************************************************************************)
EXTENDS Integers, FiniteSets, SequencesExt

CONSTANTS
  Route,          \* candidates, identified by channel:model:targetURL
  Request,        \* the inbound requests considered
  Policy,         \* the failover policies the settings row may hold
  Status,         \* the status codes an upstream answers with
  ResponsesMode,  \* each route's handling of POSTs to the Responses endpoint
  BadURL          \* routes whose target http.NewRequest rejects

RequestRecord ==
  [stream: BOOLEAN,       \* body says "stream": true
   responses: BOOLEAN,    \* POST to an OpenAI Responses path
   convertible: BOOLEAN,  \* its body converts to a Chat Completions one
   explicit: BOOLEAN,     \* the path named the channel
   timed: BOOLEAN,        \* the selected first-byte timeout is positive
   initial: Seq(Route), custom: Seq(Route), anyModel: Seq(Route)]

PolicyRecord ==
  [enabled: BOOLEAN, retryAttempts: Int, maxFallbackAttempts: Int,
   fallbackMode: {"disabled", "same_model", "any_model"},
   retryOnTimeout: BOOLEAN, retryOnNetworkError: BOOLEAN,
   retryOnStatus: SUBSET Int]

ASSUME ProxyAssumption ==
  /\ Request \subseteq RequestRecord
  /\ Policy \subseteq PolicyRecord
  /\ Status \subseteq 100..599
  /\ ResponsesMode \in [Route -> {"native", "disabled", "chat_compat"}]
  /\ BadURL \subseteq Route
  /\ \A q \in Request : q.explicit => Len(q.initial) = 1  \* handler.go:193-194

VARIABLES
  req, policy,    \* the request and the policy read for it
  candidates,     \* the routes handleProxy will try, in order
  pc,             \* where the handler stands
  idx, try,       \* position in the candidates, attempts on that candidate
  attempted,      \* keys the loop has started
  wroteResponse,  \* the loop's belief that a response was written
  timer,          \* first-byte timer of the current attempt
  ctx,            \* upstream context of the current attempt
  client,         \* is the client still connected
  upstream,       \* status of the headers Do returned, 0 before
  written,        \* responses started on the ResponseWriter, in order
  sent,           \* history: routes the request was sent to, in order
  refused,        \* history: some attempt was given up for its status
  outcome         \* how the relayed body ended

vars == <<req, policy, candidates, pc, idx, try, attempted, wroteResponse,
          timer, ctx, client, upstream, written, sent, refused, outcome>>

asked   == <<req, policy, candidates>>
loop    == <<idx, try, attempted, wroteResponse>>
attempt == <<timer, ctx, upstream>>
history == <<sent, refused>>

-----------------------------------------------------------------------------
(* Candidates *)

DedupeCandidates(routes) ==
  FoldLeft(LAMBDA out, r : IF Contains(out, r) THEN out ELSE Append(out, r),
           <<>>, routes)

FallbackRoutes(q, p) ==
  q.custom \o CASE p.fallbackMode = "any_model"  -> q.anyModel
                [] p.fallbackMode = "same_model" -> q.initial
                [] OTHER                         -> <<>>

BuildFailoverCandidates(q, p) ==
  IF q.explicit \/ ~p.enabled \/ p.maxFallbackAttempts <= 0
  THEN q.initial
  ELSE DedupeCandidates(q.initial \o FallbackRoutes(q, p))

(* True of all constants: a fold over routes yields routes, which the proof  *)
(* system has no induction to establish.  TLC evaluates it on every run.     *)
ASSUME CandidateAssumption ==
  \A q \in Request, p \in Policy : BuildFailoverCandidates(q, p) \in Seq(Route)

Current == candidates[idx]

MaxTriesForAll == policy.retryAttempts + 1
MaxTries       == IF req.explicit THEN 1 ELSE policy.retryAttempts + 1

TriesLeftOffByOne == try <= MaxTries
TriesLeft         == try < MaxTries

-----------------------------------------------------------------------------
(* Policy *)

ShouldTriggerFailover(kind) ==
  /\ policy.enabled
  /\ CASE kind = "timeout"       -> policy.retryOnTimeout
       [] kind = "network_error" -> policy.retryOnNetworkError

StatusFailover(status) ==
  /\ ~req.stream /\ status >= 400
  /\ policy.enabled /\ status \in policy.retryOnStatus

Converts == req.responses /\ ResponsesMode[Current] = "chat_compat"
RefusedLocally ==
  \/ req.responses /\ ResponsesMode[Current] = "disabled"
  \/ Converts /\ ~req.convertible

-----------------------------------------------------------------------------
Init ==
  /\ req \in Request /\ policy \in Policy
  /\ candidates = BuildFailoverCandidates(req, policy)
  /\ pc = "arrived" /\ idx = 1 /\ try = 0
  /\ attempted = {} /\ wroteResponse = FALSE
  /\ timer = "none" /\ ctx = "none" /\ upstream = 0
  /\ client = "connected" /\ written = <<>>
  /\ sent = <<>> /\ refused = FALSE /\ outcome = "none"

Write(by, status) == written' = Append(written, [by |-> by, status |-> status])

(* 503 config unavailable; 400/413 body; 400 no route; 401, 403, 429 or 503  *)
(* from authentication, the key's quota and its model list.                  *)
Reject ==
  /\ pc = "arrived"
  /\ \E s \in (IF req.initial = <<>> THEN {503, 400, 413}
                                     ELSE {503, 400, 413, 401, 403, 429}) :
       Write("gateway", s)
  /\ pc' = "done"
  /\ UNCHANGED <<asked, loop, attempt, client, history, outcome>>

Admit ==
  /\ pc = "arrived" /\ req.initial # <<>>
  /\ pc' = "pick"
  /\ UNCHANGED <<asked, loop, attempt, client, written, history, outcome>>

(* Head of the candidate loop: a key already started is skipped. *)
PickCandidate ==
  /\ pc = "pick" /\ idx <= Len(candidates)
  /\ IF Current \in attempted /\ idx > 1
     THEN idx' = idx + 1 /\ UNCHANGED <<pc, try, attempted>>
     ELSE /\ attempted' = attempted \cup {Current}
          /\ try' = 0 /\ pc' = "try" /\ UNCHANGED idx
  /\ UNCHANGED <<asked, wroteResponse, attempt, client, written, history, outcome>>

NextTry ==
  /\ pc = "try"
  /\ IF TriesLeft THEN pc' = "forward" /\ UNCHANGED idx
                       ELSE pc' = "pick" /\ idx' = idx + 1
  /\ UNCHANGED <<asked, try, attempted, wroteResponse, attempt, client, written,
                 history, outcome>>

(* After the loop: 502 unless the loop believes something was written. *)
Exhausted ==
  /\ pc = "pick" /\ idx > Len(candidates)
  /\ IF wroteResponse THEN UNCHANGED written ELSE Write("gateway", 502)
  /\ pc' = "done"
  /\ UNCHANGED <<asked, loop, attempt, client, history, outcome>>

-----------------------------------------------------------------------------
(* forwardOnce *)

BelievesAnswered(status) == TRUE
Believes(status)         == wroteResponse \/ status # 0

(* It returned (status, true): the loop's bookkeeping of handleProxy. *)
Retried(status) ==
  /\ wroteResponse' = Believes(status)
  /\ try' = try + 1
  /\ pc' = IF try + 1 >= MaxTries /\ idx = Len(candidates) /\ wroteResponse'
           THEN "done" ELSE "try"
  /\ timer' = "none" /\ ctx' = "none"
  /\ UNCHANGED <<idx, attempted, written>>

TerminalNotReturned(status) ==
  /\ Write("gateway", status) /\ pc' = "try" /\ try' = try + 1
  /\ timer' = "none" /\ ctx' = "none"
  /\ UNCHANGED <<idx, attempted, wroteResponse>>

(* It wrote an error and returned (status, false). *)
Terminal(status) ==
  /\ Write("gateway", status) /\ pc' = "done"
  /\ timer' = "none" /\ ctx' = "none"
  /\ UNCHANGED loop

RefuseLocally ==
  /\ pc = "forward" /\ RefusedLocally
  /\ Terminal(400)
  /\ UNCHANGED <<asked, client, upstream, history, outcome>>

RejectURL ==
  /\ pc = "forward" /\ ~RefusedLocally /\ Current \in BadURL
  /\ Terminal(502)
  /\ UNCHANGED <<asked, client, upstream, history, outcome>>

SendUpstream ==
  /\ pc = "forward" /\ ~RefusedLocally /\ Current \notin BadURL
  /\ timer' = IF req.timed THEN "armed" ELSE "none"
  /\ ctx' = IF client = "gone" THEN "cancelled" ELSE "live"
  /\ upstream' = 0
  /\ sent' = Append(sent, Current)
  /\ pc' = "wait"
  /\ UNCHANGED <<asked, loop, client, written, refused, outcome>>

(* httpClient.Do returned an error; Stop() is false once the timer expired. *)
DoFails ==
  LET kind == IF timer \in {"expired", "fired"} THEN "timeout" ELSE "network_error"
  IN  /\ IF ShouldTriggerFailover(kind)
         THEN Retried(0)
         ELSE Terminal(IF kind = "timeout" THEN 504 ELSE 502)
      /\ UNCHANGED <<asked, client, upstream, history, outcome>>

DoCancelled    == pc = "wait" /\ ctx = "cancelled" /\ DoFails
DoNetworkError == pc = "wait" /\ DoFails

DoReturnsHeaders ==
  /\ pc = "wait" /\ ctx = "live"
  /\ upstream' \in Status
  /\ pc' = "headers"
  /\ UNCHANGED <<asked, loop, timer, ctx, client, written, history, outcome>>

(* The status is read; Stop()'s result is not. *)
StatusRetry ==
  /\ pc = "headers" /\ StatusFailover(upstream)
  /\ refused' = TRUE
  /\ Retried(upstream)
  /\ UNCHANGED <<asked, client, upstream, sent, outcome>>

StopTimer       == timer' = IF timer = "armed" THEN "stopped" ELSE timer

(* TransformResponse reads a 2xx body that is no event stream to its end,    *)
(* before anything is written to the client.                                 *)
ConvertBody ==
  /\ pc = "headers" /\ ~StatusFailover(upstream)
  /\ Converts /\ upstream \in 200..299
  /\ StopTimer
  /\ pc' = "convert"
  /\ UNCHANGED <<asked, loop, ctx, upstream, client, written, history, outcome>>

StartRelay ==
  /\ \/ pc = "headers" /\ ~StatusFailover(upstream) /\ StopTimer
     \/ pc = "convert" /\ UNCHANGED timer
  /\ Write("upstream", upstream)
  /\ pc' = "relay"
  /\ UNCHANGED <<asked, loop, ctx, upstream, client, history, outcome>>

RelayEnds(how) ==
  /\ pc = "relay"
  /\ CASE how = "complete" -> ctx = "live"
       [] how = "client"   -> client = "gone"
       [] how = "timer"    -> ctx = "cancelled" /\ client = "connected"
       [] how = "upstream" -> TRUE
  /\ outcome' = how
  /\ pc' = "done" /\ timer' = "none" /\ ctx' = "none"
  /\ UNCHANGED <<asked, loop, upstream, client, written, history>>

-----------------------------------------------------------------------------
(* Beside the handler *)

TimerExpires ==
  /\ timer = "armed"
  /\ timer' = "expired"
  /\ UNCHANGED <<asked, pc, loop, ctx, upstream, client, written, history, outcome>>

TimerCancelsNothing ==
  /\ timer = "expired"
  /\ timer' = "fired"
  /\ UNCHANGED <<asked, pc, loop, ctx, upstream, client, written, history, outcome>>

(* The AfterFunc goroutine runs reqCancel. *)
TimerCancels ==
  /\ timer = "expired"
  /\ timer' = "fired" /\ ctx' = "cancelled"
  /\ UNCHANGED <<asked, pc, loop, upstream, client, written, history, outcome>>

ClientDisconnects ==
  /\ client = "connected" /\ pc # "done"
  /\ client' = "gone"
  /\ ctx' = IF ctx = "live" THEN "cancelled" ELSE ctx
  /\ UNCHANGED <<asked, pc, loop, timer, upstream, written, history, outcome>>

Handler ==
  \/ Reject \/ Admit \/ PickCandidate \/ NextTry \/ Exhausted
  \/ RefuseLocally \/ RejectURL \/ SendUpstream
  \/ DoCancelled \/ StatusRetry \/ ConvertBody
  \/ StartRelay /\ (pc = "headers" \/ ctx = "cancelled")

Environment ==
  \/ DoNetworkError \/ DoReturnsHeaders
  \/ StartRelay
  \/ \E how \in {"complete", "client", "timer", "upstream"} : RelayEnds(how)
  \/ ClientDisconnects

Done == pc = "done" /\ UNCHANGED vars

Next == Handler \/ TimerExpires \/ TimerCancels \/ Environment \/ Done

Spec == Init /\ [][Next]_vars

(* The handler's goroutine and the runtime's timers make progress; nothing   *)
(* is assumed of upstreams, of clients or of a body that is being read.      *)
HandlerFairness ==
  WF_vars(Handler) /\ WF_vars(TimerExpires) /\ WF_vars(TimerCancels)

FairSpec == Spec /\ HandlerFairness

-----------------------------------------------------------------------------
(* Properties *)

PC == {"arrived", "pick", "try", "forward", "wait", "headers", "convert",
       "relay", "done"}

TypeOK ==
  /\ req \in Request /\ policy \in Policy /\ candidates \in Seq(Route)
  /\ pc \in PC /\ idx \in Nat \ {0} /\ try \in Nat
  /\ wroteResponse \in BOOLEAN /\ refused \in BOOLEAN
  /\ timer \in {"none", "armed", "expired", "fired", "stopped"}
  /\ ctx \in {"none", "live", "cancelled"}
  /\ client \in {"connected", "gone"}
  /\ upstream \in Status \cup {0}
  /\ written \in Seq([by: {"gateway", "upstream"}, status: Int])
  /\ sent \in Seq(Route)
  /\ outcome \in {"none", "complete", "client", "timer", "upstream"}

(* The client is sent at most one response, and none of it before the loop   *)
(* has stopped moving between candidates (handler.go:317-319).               *)
OneAnswer ==
  /\ Len(written) <= 1
  /\ pc \notin {"relay", "done"} => written = <<>>
  /\ pc = "relay" => Len(written) = 1

(* A request can end without a response only when some upstream's status     *)
(* made forwardOnce give an attempt up, the request was not a streaming one  *)
(* and the last candidate was reached: network errors and timeouts alone     *)
(* always end in a response (handler.go:263-274).                            *)
SilentOnlyAfterRefusal ==
  pc = "done" /\ written = <<>> =>
    refused /\ ~req.stream /\ policy.enabled /\ idx >= Len(candidates)

TimesSent(r) == Cardinality({i \in DOMAIN sent : sent[i] = r})
Tries        == IF MaxTries > 0 THEN MaxTries ELSE 0

(* Each candidate gets the request at most MaxTries times, however often it  *)
(* stands in the list, and only after every one before it had it exactly     *)
(* MaxTries times: retries of a route come before the next route, in the     *)
(* order of the list (handler.go:234-262).                                   *)
RoutesTriedInOrder ==
  \A j \in DOMAIN candidates :
    /\ TimesSent(candidates[j]) <= Tries
    /\ (\A i \in 1..(j - 1) : candidates[i] # candidates[j]) /\ TimesSent(candidates[j]) > 0 =>
         \A i \in 1..(j - 1) : TimesSent(candidates[i]) = Tries

(* A request for a named channel, or under a disabled policy, leaves the     *)
(* gateway at most once.  It ends without a response exactly when the status *)
(* of its one upstream made forwardOnce give the attempt up: the loop then   *)
(* returns as if something had been written, and net/http sends an empty 200 *)
(* (handler.go:251-258).  Any other end is a response.  Only an enabled      *)
(* policy gives an attempt up, and never one of a streaming request, so that *)
(* under a disabled one every request is answered.                           *)
SingleShot ==
  req.explicit \/ ~policy.enabled =>
    /\ Len(sent) <= 1
    /\ pc = "done" => (written = <<>> <=> refused)
    /\ refused => policy.enabled /\ ~req.stream

(* With a first-byte timeout the handler gets as far as an answer or the     *)
(* buffering of a converted body, even if no upstream ever says anything.    *)
TimedRequestsAnswered ==
  req.timed => <>(written # <<>> \/ pc \in {"convert", "done"})

Promise == INSTANCE ProxyPromise WITH
  phase  <- CASE pc = "done"  -> IF written = <<>> THEN "dropped" ELSE "closed"
              [] pc = "relay" -> "answering"
              [] OTHER        -> "open",
  sends  <- Len(sent),
  budget <- Tries * Len(candidates)

(* The handler implements the promise of ProxyPromise.                       *)
PromiseKept == Promise!Spec

-----------------------------------------------------------------------------
(* What comments, labels and the dashboard say, and the code does not do *)

(* handler.go:263-264: when all candidates are exhausted "the client gets a  *)
(* real error instead of empty 200".                                         *)
ExhaustionAnswered == pc = "done" => written # <<>>

(* handler.go:355-361: once headers arrived, the first-byte timer no longer  *)
(* ends the body.                                                            *)
StreamOutlivesFirstByteTimer == outcome # "timer"
=============================================================================
