-------------------------- MODULE MCResponseRelay --------------------------
(* What happens to an upstream's body, in two parts of which a behaviour     *)
(* shows one while the other rests: the relay with its observer, and the     *)
(* conversion of a stream that is read in place of the body.                 *)
(*                                                                           *)
(* Sizes keep the proportions of the code: a read of the idle reader fills   *)
(* the observer's buffer twice, and the capture limit is a whole number of   *)
(* observer reads.  A text is made of the tags, of what they begin with, and *)
(* of a letter.                                                              *)
EXTENDS ResponseRelay, SequencesExt

CONSTANTS None, MaxPieces

VARIABLES part, answer, sent, source, st, pipeRead, told

MCOpenTag  == <<"<", ">">>
MCCloseTag == <<"<", "/", ">">>

Piece == {<<"a">>, <<"<">>, <<"<", "/">>, MCOpenTag, MCCloseTag}

Written(n) == {FlattenSeq(s) : s \in BoundedSeq(Piece, n)}

Reply(content, reasoning, finish) ==
  [content |-> content, reasoning |-> reasoning, calls |-> <<>>, indexed |-> TRUE, finish |-> finish]

TwoCalls(i, j) == <<[id |-> i, name |-> <<"f">>, arguments |-> <<"1", "2">>],
                    [id |-> j, name |-> <<"g">>, arguments |-> <<"3">>]>>

MCAnswer ==
  {Reply(c, <<>>, "stop") : c \in Written(MaxPieces)}
  \cup {Reply(<<>>, r, f) : f \in {"length", "content_filter"}, r \in Written(MaxPieces - 1)}
  \cup {Reply(c, r, "stop") : c, r \in Written(2)}
  \cup {[Reply(c, <<>>, "tool_calls") EXCEPT !.calls = TwoCalls(i, j), !.indexed = x] :
           c \in Written(1), x \in BOOLEAN, i \in {None, <<"x">>}, j \in {None, <<"y">>}}

Conv == INSTANCE StreamConvert WITH
  OpenTag <- MCOpenTag, CloseTag <- MCCloseTag, Answer <- MCAnswer,
  given <- sent, reader <- pipeRead

conversion == <<answer, sent, source, st, pipeRead, told>>

RelayRests ==
  /\ kind = [captured |-> FALSE, timed |-> FALSE] /\ body = 0 /\ produced = 0
  /\ reader = [at |-> "exited", n |-> 0, left |-> 0, err |-> "none"]
  /\ slot = Empty /\ relay = [at |-> "done", n |-> 0, err |-> "none"]
  /\ client = "open" /\ got = 0 /\ pipe = "open" /\ closed = TRUE /\ how = "eof"
  /\ obs = [at |-> "done", bytes |-> 0, kept |-> 0, copy |-> "whole"]

MCInit ==
  \/ part = "relay" /\ Init /\ Conv!Init /\ answer = Reply(<<>>, <<>>, "stop")
  \/ part = "conversion" /\ RelayRests /\ Conv!Init

MCNext ==
  \/ part = "relay" /\ Next /\ UNCHANGED <<part, conversion>>
  \/ part = "conversion" /\ Conv!Next /\ UNCHANGED <<part, vars>>

MCSpec == MCInit /\ [][MCNext]_<<part, vars, conversion>>

(* The fairness of the relay; the conversion is checked for safety only. *)
MCFairSpec == MCSpec /\ RelayFairness

(* Whatever comes of a stream and wherever it ends, the client gets events   *)
(* that fit together, and they say what was sent, as an answer in one go     *)
(* would (responsesconv/stream.go, thinktag.go).                             *)
ConversionFaithful ==
  /\ Conv!TypeOK /\ Conv!FramesFit
  /\ Conv!SplitAsAWhole /\ Conv!SameAsInOneGo
=============================================================================
