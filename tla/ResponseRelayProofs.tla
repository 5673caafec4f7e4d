------------------------ MODULE ResponseRelayProofs ------------------------
(***************************************************************************)
(* Proofs about ResponseRelay for bodies, buffers and limits of any size.  *)
(*                                                                         *)
(* NothingLost counts the bytes between the upstream and the client, Teed  *)
(* those between the upstream and the observer; together they give         *)
(* LogCoversClient.  EndSeen follows the end of the body through the three *)
(* hands: whoever holds it holds the last chunk.                           *)
(***************************************************************************)
EXTENDS ResponseRelay, TLAPS

InLoop == relay.at \in {"read", "write"}

Sizes ==
  /\ reader.left <= reader.n
  /\ reader.at \in {"read", "exited"} => reader.n = 0
  /\ reader.at # "tee" /\ kind.captured => reader.left = 0
  /\ ~slot.full => slot.n = 0 /\ slot.err = "none"
  /\ relay.at # "write" => relay.n = 0
  /\ reader.at = "tee" => kind.captured

PipeOpen ==
  /\ pipe = "closed" => relay.at \in {"closing", "done"}
  /\ InLoop => how = "none" /\ pipe = "open"

(* Until the pipe closes the observer has all that the tee is done with.     *)
Teed == kind.captured /\ pipe = "open" => obs.bytes + reader.left = produced

EndSeen ==
  /\ reader.err = "eof" => produced = body
  /\ slot.err # "none" => reader.at = "exited"
  /\ slot.err = "eof" => produced = body
  /\ relay.at = "write" /\ relay.err # "none" => reader.at = "exited" /\ ~slot.full
  /\ relay.at = "write" /\ relay.err = "eof" => produced = body
  /\ how = "eof" => reader.at = "exited"

IInv ==
  /\ TypeOK
  /\ Sizes /\ PipeOpen /\ Teed /\ EndSeen /\ CaptureExact
  /\ NothingLost /\ LogCoversClient /\ CompleteMeansComplete

Safe == Sizes /\ PipeOpen /\ Teed /\ EndSeen /\ NothingLost /\ LogCoversClient /\ CompleteMeansComplete

USE RelayAssumption

LEMMA InitInv == Init => IInv
<1> SUFFICES ASSUME Init PROVE IInv
  OBVIOUS
<1>1. TypeOK
  <2>1. obs \in [at: {"read", "done"}, bytes: Nat, kept: Nat, copy: {"whole", "truncated"}]
    BY DEF Init
  <2>2. body \in Nat /\ produced \in 0..body /\ got \in Nat
    BY DEF Init
  <2>4. kind \in [captured: BOOLEAN, timed: BOOLEAN] /\ closed \in BOOLEAN
    BY DEF Init
  <2>3. /\ reader \in [at: {"read", "tee", "send", "exited"}, n: 0..ReadSize,
                       left: 0..ReadSize, err: Ends]
        /\ slot \in [full: BOOLEAN, n: 0..ReadSize, err: Ends]
        /\ relay \in [at: {"read", "write", "close", "closing", "done"}, n: 0..ReadSize, err: Ends]
    BY DEF Init, Empty, Ends
  <2> QED BY <2>1, <2>2, <2>3, <2>4 DEF Init, TypeOK, Ends
<1>2. obs.bytes = 0 /\ obs.kept = 0 /\ obs.copy = "whole"
  BY DEF Init
<1>3. CaptureExact
  BY <1>2 DEF CaptureExact, Least
<1>4. Safe
  BY <1>2 DEF Init, Safe, Sizes, PipeOpen, Teed, EndSeen, NothingLost, LogCoversClient,
              CompleteMeansComplete, InLoop, Empty
<1> QED BY <1>1, <1>3, <1>4 DEF IInv, Safe

LEMMA SourceStep ==
  ASSUME IInv, NEW n \in 0..ReadSize, NEW err \in {"none", "eof", "error"}, ReadSource(n, err)
  PROVE  IInv'
<1> USE DEF IInv, ReadSource, given, delivery
<1>1. TypeOK'
  BY DEF TypeOK, Ends, Least
<1>2. CaptureExact'
  BY DEF CaptureExact
<1>3. Safe'
  BY DEF Safe, TypeOK, Sizes, PipeOpen, Teed, EndSeen, NothingLost, LogCoversClient, CompleteMeansComplete,
         InLoop
<1> QED BY <1>1, <1>2, <1>3 DEF Safe

LEMMA TeeBrokenStep == IInv /\ TeeBroken => IInv'
<1> SUFFICES ASSUME IInv, TeeBroken PROVE IInv'
  OBVIOUS
<1> USE DEF IInv, TeeBroken, given, delivery
<1>1. TypeOK'
  <2>1. reader.n - reader.left \in 0..ReadSize
    BY DEF TypeOK, Sizes
  <2> QED BY <2>1 DEF TypeOK, Ends
<1>2. CaptureExact'
  BY DEF CaptureExact
<1>3. Safe'
  BY DEF Safe, TypeOK, Sizes, PipeOpen, Teed, EndSeen, NothingLost, LogCoversClient, CompleteMeansComplete,
         InLoop
<1> QED BY <1>1, <1>2, <1>3 DEF Safe

LEMMA SendStep == IInv /\ Send => IInv'
<1> SUFFICES ASSUME IInv, Send PROVE IInv'
  OBVIOUS
<1> USE DEF IInv, Send, given, delivery
<1>1. TypeOK'
  BY DEF TypeOK, Ends
<1>2. CaptureExact'
  BY DEF CaptureExact
<1>3. Safe'
  BY DEF Safe, TypeOK, Sizes, PipeOpen, Teed, EndSeen, NothingLost, LogCoversClient, CompleteMeansComplete,
         InLoop
<1> QED BY <1>1, <1>2, <1>3 DEF Safe

LEMMA ObserveStep == IInv /\ Observe => IInv'
<1> SUFFICES ASSUME IInv, Observe PROVE IInv'
  OBVIOUS
<1> DEFINE k == Takes
<1>1. /\ k \in 0..reader.left /\ k \in Nat
      /\ obs.bytes \in Nat /\ obs.kept \in Nat
      /\ Keep(k) \in Nat
  BY DEF IInv, TypeOK, Takes, Least, Keep
<1>2. /\ reader' = [at |-> IF reader.left = k THEN "send" ELSE "tee",
                    n |-> reader.n, left |-> reader.left - k, err |-> reader.err]
      /\ obs' = [at |-> "read", bytes |-> obs.bytes + k, kept |-> obs.kept + Keep(k),
                 copy |-> IF Overflows(k) THEN "truncated" ELSE obs.copy]
      /\ UNCHANGED <<kind, body, produced, slot, relay, got, how, client, pipe, closed>>
      /\ reader.at = "tee"
  BY DEF Observe, Count, given, delivery
<1> HIDE DEF k
<1>3. TypeOK'
  <2>1. obs' \in [at: {"read", "done"}, bytes: Nat, kept: Nat, copy: {"whole", "truncated"}]
    BY <1>1, <1>2 DEF IInv, TypeOK
  <2> QED BY <1>1, <1>2, <2>1 DEF IInv, TypeOK
<1>4. CaptureExact'
  <2>1. /\ obs'.bytes = obs.bytes + k /\ obs'.kept = obs.kept + Keep(k)
        /\ obs'.copy = IF Overflows(k) THEN "truncated" ELSE obs.copy
    BY <1>2 DEF IInv, TypeOK
  <2>2. /\ obs.kept = Least(obs.bytes, CaptureLimit)
        /\ obs.copy = "truncated" => obs.bytes > CaptureLimit
        /\ obs.copy \in {"whole", "truncated"}
    BY DEF IInv, TypeOK, CaptureExact
  <2>3. obs'.kept = Least(obs'.bytes, CaptureLimit)
    BY <1>1, <2>1, <2>2 DEF Keep, Least
  <2>4. Overflows(k) => obs'.bytes > CaptureLimit
    BY <1>1, <2>1, <2>2 DEF Overflows, Least
  <2> QED BY <1>1, <2>1, <2>2, <2>3, <2>4 DEF CaptureExact
<1>5. Safe'
  <2>1. /\ obs'.bytes = obs.bytes + k /\ reader'.left = reader.left - k
        /\ reader'.n = reader.n /\ reader'.err = reader.err
        /\ reader'.at = IF reader.left = k THEN "send" ELSE "tee"
    BY <1>2 DEF IInv, TypeOK
  <2> QED BY <1>1, <1>2, <2>1
          DEF IInv, TypeOK, Safe, Sizes, PipeOpen, Teed, EndSeen, NothingLost, LogCoversClient,
              CompleteMeansComplete, InLoop
<1> QED BY <1>3, <1>4, <1>5 DEF IInv, Safe

LEMMA ObserveEndStep == IInv /\ ObserveEnd => IInv'
<1> SUFFICES ASSUME IInv, ObserveEnd PROVE IInv'
  OBVIOUS
<1>1. /\ obs' = [obs EXCEPT !.at = "done"]
      /\ UNCHANGED <<kind, body, produced, reader, slot, relay, got, how, client, pipe, closed>>
  BY DEF ObserveEnd, given, delivery
<1>2. TypeOK'
  BY <1>1 DEF IInv, TypeOK
<1>3. CaptureExact' /\ Safe'
  BY <1>1 DEF IInv, TypeOK, CaptureExact, Safe, Sizes, PipeOpen, Teed, EndSeen, NothingLost,
              LogCoversClient, CompleteMeansComplete, InLoop
<1> QED BY <1>2, <1>3 DEF IInv, Safe

(* The handler's steps leave the observer and the limits alone.              *)
LEMMA HandlerStep == IInv /\ (Handler \/ IdleTimeout) => IInv'
<1> SUFFICES ASSUME IInv, Handler \/ IdleTimeout PROVE IInv'
  OBVIOUS
<1> USE DEF IInv, Leave, given, delivery
<1>1. CASE Receive
  <2>1. TypeOK'
    BY <1>1 DEF Receive, TypeOK, Ends, Empty
  <2>2. CaptureExact'
    BY <1>1 DEF Receive, CaptureExact
  <2>3. Safe'
    BY <1>1 DEF Receive, Empty, Safe, TypeOK, Sizes, PipeOpen, Teed, EndSeen, NothingLost, LogCoversClient,
                CompleteMeansComplete, InLoop
  <2> QED BY <2>1, <2>2, <2>3 DEF Safe
<1>2. CASE WriteClient
  <2>1. TypeOK'
    BY <1>2 DEF WriteClient, TypeOK, Ends
  <2>2. CaptureExact'
    BY <1>2 DEF WriteClient, CaptureExact
  <2>3. Safe'
    BY <1>2 DEF WriteClient, Safe, TypeOK, Sizes, PipeOpen, Teed, EndSeen, NothingLost, LogCoversClient,
                CompleteMeansComplete, InLoop
  <2> QED BY <2>1, <2>2, <2>3 DEF Safe
<1>3. CASE WriteFails \/ IdleTimeout
  <2>1. TypeOK'
    BY <1>3 DEF WriteFails, IdleTimeout, TypeOK, Ends
  <2>2. CaptureExact'
    BY <1>3 DEF WriteFails, IdleTimeout, CaptureExact
  <2>3. Safe'
    BY <1>3 DEF WriteFails, IdleTimeout, Safe, TypeOK, Sizes, PipeOpen, Teed, EndSeen, NothingLost,
                LogCoversClient, CompleteMeansComplete, InLoop
  <2> QED BY <2>1, <2>2, <2>3 DEF Safe
<1>4. CASE CloseCapturer \/ CloseBody
  <2>1. TypeOK'
    BY <1>4 DEF CloseCapturer, CloseBody, TypeOK, Ends
  <2>2. CaptureExact'
    BY <1>4 DEF CloseCapturer, CloseBody, CaptureExact
  <2>3. Safe'
    BY <1>4 DEF CloseCapturer, CloseBody, Safe, TypeOK, Sizes, PipeOpen, Teed, EndSeen, NothingLost,
                LogCoversClient, CompleteMeansComplete, InLoop
  <2> QED BY <2>1, <2>2, <2>3 DEF Safe
<1> QED BY <1>1, <1>2, <1>3, <1>4 DEF Handler

LEMMA NextInv == IInv /\ [Next]_vars => IInv'
<1> SUFFICES ASSUME IInv, [Next]_vars PROVE IInv'
  OBVIOUS
<1>1. CASE ClientLeaves
  BY <1>1 DEF ClientLeaves, given, delivery, IInv, TypeOK, Sizes, PipeOpen, Teed, EndSeen,
              CaptureExact, NothingLost, LogCoversClient, CompleteMeansComplete, InLoop
<1>2. CASE UNCHANGED vars
  BY <1>2 DEF vars, IInv, TypeOK, Sizes, PipeOpen, Teed, EndSeen,
              CaptureExact, NothingLost, LogCoversClient, CompleteMeansComplete, InLoop
<1> QED BY <1>1, <1>2, SourceStep, TeeBrokenStep, SendStep, ObserveStep, ObserveEndStep, HandlerStep
        DEF Next, Source, Done

THEOREM Inductive == Spec => []IInv
BY InitInv, NextInv, PTL DEF Spec

(* Every reachable state is well typed.                                      *)
THEOREM TypeCorrect == Spec => []TypeOK
<1>1. IInv => TypeOK
  BY DEF IInv
<1> QED BY <1>1, Inductive, PTL

(* The client gets the body without a gap, through all three goroutines.     *)
THEOREM NoGap == Spec => []NothingLost
<1>1. IInv => NothingLost
  BY DEF IInv
<1> QED BY <1>1, Inductive, PTL

(* What the client was sent, the log has seen.                               *)
THEOREM LogNeverBehind == Spec => []LogCoversClient
<1>1. IInv => LogCoversClient
  BY DEF IInv
<1> QED BY <1>1, Inductive, PTL

(* A response that ended normally is complete, with the client and in the    *)
(* record.                                                                   *)
THEOREM EndIsComplete == Spec => []CompleteMeansComplete
<1>1. IInv => CompleteMeansComplete
  BY DEF IInv
<1> QED BY <1>1, Inductive, PTL

(* The record keeps exactly the first CaptureLimit bytes and never claims a  *)
(* truncation that did not happen.                                           *)
THEOREM CaptureIsExact == Spec => []CaptureExact
<1>1. IInv => CaptureExact
  BY DEF IInv
<1> QED BY <1>1, Inductive, PTL
=============================================================================
