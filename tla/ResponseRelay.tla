--------------------------- MODULE ResponseRelay ---------------------------
(***************************************************************************)
(* One upstream body on its way to the client (streamResponse and          *)
(* idleReader in internal/gateway/handler.go, Capturer in                  *)
(* internal/observer/observer.go): the handler's goroutine, the idle       *)
(* reader's, and the observer's, joined by a channel of capacity one and   *)
(* by a pipe into which a TeeReader copies what the idle reader reads.     *)
(*                                                                         *)
(* A stream of bytes is represented by how many of its bytes have passed.  *)
(***************************************************************************)
EXTENDS Integers

CONSTANTS
  MaxBody,       \* bound: bytes of the longest body considered
  ReadSize,      \* 8192: the idle reader's buffer
  ObserveSize,   \* 4096: the observer's buffer
  CaptureLimit   \* MaxCaptureBytes, a multiple of ObserveSize

ASSUME RelayAssumption ==
  /\ MaxBody \in Nat /\ CaptureLimit \in Nat
  /\ ReadSize \in Nat \ {0} /\ ObserveSize \in Nat \ {0}

VARIABLES
  kind,      \* is the body captured, and is there an idle timeout
  body,      \* bytes the upstream has to give
  produced,  \* bytes read from it
  reader,    \* the idle reader's goroutine and the chunk in its hands
  slot,      \* the result channel
  relay,     \* the handler's goroutine and the chunk in its hands
  client,    \* "open" or "broken"
  got,       \* bytes written to the client
  pipe,      \* "open" or "closed", at its write end
  obs,       \* the observer
  closed,    \* resp.Body.Close was called
  how        \* why the handler left its loop

vars == <<kind, body, produced, reader, slot, relay, client, got, pipe, obs,
          closed, how>>

Least(a, b) == IF a <= b THEN a ELSE b

Empty == [full |-> FALSE, n |-> 0, err |-> "none"]

Init ==
  /\ kind \in [captured: BOOLEAN, timed: BOOLEAN]
  /\ body \in 0..MaxBody /\ produced = 0
  /\ reader = [at |-> "read", n |-> 0, left |-> 0, err |-> "none"]
  /\ slot = Empty
  /\ relay = [at |-> "read", n |-> 0, err |-> "none"]
  /\ client = "open" /\ got = 0 /\ pipe = "open"
  /\ obs = [at |-> IF kind.captured THEN "read" ELSE "done",
            bytes |-> 0, kept |-> 0, copy |-> "whole"]
  /\ closed = FALSE /\ how = "none"

given    == <<kind, body>>
delivery == <<relay, got, how>>

-----------------------------------------------------------------------------
(* The idle reader's goroutine *)

(* The upstream gives n bytes, which may come with the end of the body or    *)
(* with an error; after Body.Close a Read returns an error.                  *)
ReadSource(n, err) ==
  /\ reader.at = "read"
  /\ err = "eof" => produced + n = body
  /\ n = 0 => err # "none"
  /\ n <= Least(ReadSize, body - produced)
  /\ closed => n = 0 /\ err = "error"
  /\ produced' = produced + n
  /\ reader' = [at |-> IF kind.captured /\ n > 0 THEN "tee" ELSE "send",
                n |-> n, left |-> n, err |-> err]
  /\ UNCHANGED <<given, slot, delivery, client, pipe, obs, closed>>

(* TeeReader returns what the pipe took of the chunk, with its error.        *)
TeeBroken ==
  /\ reader.at = "tee" /\ pipe = "closed"
  /\ reader' = [at |-> "send", n |-> reader.n - reader.left, left |-> 0, err |-> "closed"]
  /\ UNCHANGED <<given, produced, slot, delivery, client, pipe, obs, closed>>

SendOverwrites ==
  /\ reader.at = "send"
  /\ slot' = [full |-> TRUE, n |-> reader.n, err |-> reader.err]
  /\ reader' = [at |-> IF reader.err = "none" THEN "read" ELSE "exited",
                n |-> 0, left |-> 0, err |-> "none"]
  /\ UNCHANGED <<given, produced, delivery, client, pipe, obs, closed>>

Send ==
  /\ reader.at = "send" /\ ~slot.full
  /\ slot' = [full |-> TRUE, n |-> reader.n, err |-> reader.err]
  /\ reader' = [at |-> IF reader.err = "none" THEN "read" ELSE "exited",
                n |-> 0, left |-> 0, err |-> "none"]
  /\ UNCHANGED <<given, produced, delivery, client, pipe, obs, closed>>

-----------------------------------------------------------------------------
(* The observer's goroutine *)

(* Bytes it keeps of a read of k.  Its copy is truncated, and captureFull    *)
(* false, from the first read that does not fit.                             *)
KeepAll(k) == k
Keep(k)    == IF obs.copy = "whole" /\ obs.kept < CaptureLimit
              THEN Least(k, CaptureLimit - obs.kept) ELSE 0

Overflows(k) == /\ obs.copy = "whole" /\ obs.kept < CaptureLimit
                /\ k > CaptureLimit - obs.kept

CountKept(k) == Keep(k)
Count(k)     == k

Takes           == Least(reader.left, ObserveSize)

(* One read of the pipe, which meets the write the tee is blocked in.        *)
Observe ==
  /\ obs.at = "read" /\ reader.at = "tee"
  /\ LET k == Takes
     IN  /\ obs' = [at |-> "read", bytes |-> obs.bytes + Count(k),
                    kept |-> obs.kept + Keep(k),
                    copy |-> IF Overflows(k) THEN "truncated" ELSE obs.copy]
         /\ reader' = [at |-> IF reader.left = k THEN "send" ELSE "tee",
                       n |-> reader.n, left |-> reader.left - k, err |-> reader.err]
  /\ UNCHANGED <<given, produced, slot, delivery, client, pipe, closed>>

ObserveEnd ==
  /\ obs.at = "read" /\ pipe = "closed"
  /\ obs' = [obs EXCEPT !.at = "done"]
  /\ UNCHANGED <<given, produced, reader, slot, delivery, client, pipe, closed>>

-----------------------------------------------------------------------------
(* The handler's goroutine *)

Leave(why) == relay' = [at |-> "close", n |-> 0, err |-> "none"] /\ how' = why

ReceiveErrorFirst ==
  /\ relay.at = "read" /\ slot.full
  /\ slot' = Empty
  /\ IF slot.err # "none"
     THEN Leave(slot.err)
     ELSE relay' = [at |-> "write", n |-> slot.n, err |-> slot.err] /\ UNCHANGED how
  /\ UNCHANGED <<given, produced, reader, client, got, pipe, obs, closed>>

Receive ==
  /\ relay.at = "read" /\ slot.full
  /\ slot' = Empty
  /\ IF slot.n > 0
     THEN relay' = [at |-> "write", n |-> slot.n, err |-> slot.err] /\ UNCHANGED how
     ELSE Leave(slot.err)
  /\ UNCHANGED <<given, produced, reader, client, got, pipe, obs, closed>>

IdleTimeoutAfterFirstByte ==
  /\ relay.at = "read" /\ kind.timed /\ got > 0
  /\ Leave("idle")
  /\ UNCHANGED <<given, produced, reader, slot, client, got, pipe, obs, closed>>

(* select takes the timer, even when a result has arrived as well.           *)
IdleTimeout ==
  /\ relay.at = "read" /\ kind.timed
  /\ Leave("idle")
  /\ UNCHANGED <<given, produced, reader, slot, client, got, pipe, obs, closed>>

WriteClient ==
  /\ relay.at = "write" /\ client = "open"
  /\ got' = got + relay.n
  /\ IF relay.err = "none"
     THEN relay' = [at |-> "read", n |-> 0, err |-> "none"] /\ UNCHANGED how
     ELSE Leave(relay.err)
  /\ UNCHANGED <<given, produced, reader, slot, client, pipe, obs, closed>>

WriteFails ==
  /\ relay.at = "write" /\ client = "broken"
  /\ Leave("client")
  /\ UNCHANGED <<given, produced, reader, slot, client, got, pipe, obs, closed>>

CloseCapturer ==
  /\ relay.at = "close"
  /\ pipe' = IF kind.captured THEN "closed" ELSE pipe
  /\ relay' = [relay EXCEPT !.at = "closing"]
  /\ UNCHANGED <<given, produced, reader, slot, client, got, obs, closed, how>>

CloseBody ==
  /\ relay.at = "closing"
  /\ closed' = TRUE
  /\ relay' = [relay EXCEPT !.at = "done"]
  /\ UNCHANGED <<given, produced, reader, slot, client, got, pipe, obs, how>>

ClientLeaves ==
  /\ client = "open" /\ relay.at # "done"
  /\ client' = "broken"
  /\ UNCHANGED <<given, produced, reader, slot, delivery, pipe, obs, closed>>

-----------------------------------------------------------------------------
Source == \E n \in 0..ReadSize, err \in {"none", "eof", "error"} : ReadSource(n, err)

Handler == Receive \/ WriteClient \/ WriteFails \/ CloseCapturer \/ CloseBody

(* The idle reader's goroutine may be left in "send" for good: see           *)
(* SendNeverBlocks.                                                          *)
Done == relay.at = "done" /\ obs.at = "done" /\ UNCHANGED vars

Next ==
  \/ Source \/ TeeBroken \/ Send
  \/ Observe \/ ObserveEnd
  \/ Handler \/ IdleTimeout
  \/ ClientLeaves
  \/ Done

Spec == Init /\ [][Next]_vars

(* The gateway's goroutines run and its timer fires; the upstream need never *)
(* produce a byte, and the client need never leave.  A read that is pending  *)
(* when the body is closed returns.                                          *)
RelayFairness ==
  /\ WF_vars(Handler) /\ WF_vars(IdleTimeout)
  /\ WF_vars(TeeBroken \/ Send \/ (closed /\ Source))
  /\ WF_vars(Observe \/ ObserveEnd)

FairSpec == Spec /\ RelayFairness

-----------------------------------------------------------------------------
(* Properties *)

Ends == {"none", "eof", "error", "closed"}

TypeOK ==
  /\ kind \in [captured: BOOLEAN, timed: BOOLEAN]
  /\ body \in Nat /\ produced \in 0..body /\ got \in Nat
  /\ reader \in [at: {"read", "tee", "send", "exited"}, n: 0..ReadSize,
                 left: 0..ReadSize, err: Ends]
  /\ slot \in [full: BOOLEAN, n: 0..ReadSize, err: Ends]
  /\ relay \in [at: {"read", "write", "close", "closing", "done"},
                n: 0..ReadSize, err: Ends]
  /\ client \in {"open", "broken"} /\ pipe \in {"open", "closed"}
  /\ obs \in [at: {"read", "done"}, bytes: Nat, kept: Nat,
              copy: {"whole", "truncated"}]
  /\ closed \in BOOLEAN /\ how \in Ends \cup {"idle", "client"}

(* While the handler is in its loop, every byte read is with the client or   *)
(* in one of the three hands, so the client gets the body without a gap.     *)
NothingLost ==
  relay.at \in {"read", "write"} => got + relay.n + slot.n + reader.n = produced

(* The log's copy is never behind the client: what the client was sent has   *)
(* been observed (observer.go:86-89).                                        *)
LogCoversClient == kind.captured => got <= obs.bytes

(* If the handler saw the end of the body, the client has all of it, and so  *)
(* has the record once the observer delivers it.                             *)
CompleteMeansComplete ==
  how = "eof" => got = body /\ (kind.captured => obs.bytes = body)

(* The record keeps exactly the first CaptureLimit bytes, and is marked as   *)
(* truncated only if bytes are missing from it.                              *)
CaptureExact ==
  /\ obs.kept = Least(obs.bytes, CaptureLimit)
  /\ obs.copy = "truncated" => obs.bytes > CaptureLimit

(* Nobody is kept waiting: with an idle timeout the handler never waits for  *)
(* ever for an upstream that has gone silent (handler.go:494-496), and once  *)
(* the handler is done the observer delivers its result, however the body    *)
(* ended, so recordResponse is not left to its timeout.                      *)
NobodyHeld ==
  /\ kind.timed => (relay.at = "read" ~> relay.at # "read")
  /\ relay.at = "done" ~> obs.at = "done"

-----------------------------------------------------------------------------
(* What comments say and the code does not do *)

(* handler.go:795-796: "buffered=1 so the send never blocks".                *)
SendNeverBlocks == relay.at = "done" => ~(reader.at = "send" /\ slot.full)

(* observer.go:30-32: bodies longer than the limit have their truncation     *)
(* recorded.                                                                 *)
TruncationRecorded == obs.bytes > CaptureLimit => obs.copy = "truncated"
=============================================================================
