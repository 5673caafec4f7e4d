---------------------------- MODULE UsageParsing ----------------------------
(***************************************************************************)
(* The usage of a response, read out of its recorded body                  *)
(* (internal/providers/usage.go): one message, or the events of a stream.  *)
(* Left out: the model, the stop reason, and the tokens spent on reasoning *)
(* or kept for an hour, which nothing prices.                              *)
(***************************************************************************)
EXTENDS Integers, Sequences, SequencesExt

CONSTANTS
  None,
  Input, Output, Cache,     \* counts of tokens that upstreams report
  MaxEvents                 \* bound

Type == {"anthropic", "openai"}
EmptyUsage == [f \in {"input", "output", "total", "create", "read", "cached"} |-> 0]

(***************************************************************************)
(* What an upstream sends: events of a stream, or one message; with None   *)
(* for what an event does not tell.                                        *)
(***************************************************************************)
Told(kind, input, output, create, read, cached, both) ==
  [kind |-> kind, input |-> input, output |-> output, create |-> create, read |-> read,
   cached |-> cached, total |-> both]

Starts   == {Told("start", i, None, c, r, None, None) : i \in Input, c \in Cache, r \in Cache}
Deltas   == {Told("delta", None, o, c, r, None, None) :
               o \in Output \cup {None}, c \in Cache \cup {None}, r \in Cache \cup {None}}
Messages == {Told("message", i, o, c, r, None, None) :
               i \in Input, o \in Output, c \in Cache, r \in Cache}

Payloads == {Told("payload", i, o, None, None, c, t) :
               i \in Input \cup {None}, o \in Output \cup {None}, c \in Cache \cup {None},
               t \in {None} \cup {x + y : x \in Input, y \in Output}}

(* A total that is given is that of the parts given with it, and what was    *)
(* cached comes with the prompt it was cached of.                            *)
Honest(e) ==
  /\ e.total # None => e.input # None /\ e.output # None /\ e.total = e.input + e.output
  /\ e.cached # None => e.input # None

Bodies(type) ==
  IF type = "openai"
  THEN UNION {[1..n -> {e \in Payloads : Honest(e)}] : n \in 1..MaxEvents}
  ELSE {<<e>> : e \in Messages} \cup
       {<<s>> \o d : s \in Starts, d \in UNION {[1..n -> Deltas] : n \in 0..(MaxEvents - 1)}}

(***************************************************************************)
(* The usage of a body.                                                    *)
(***************************************************************************)
Kept(v, old) == IF v = None THEN old ELSE v

FinalizeUsageTotalsAnthropic(u) ==
  [u EXCEPT !.total = u.input + u.output + u.create + u.read]

AnthropicEvent(u, e) ==
  FinalizeUsageTotalsAnthropic(
    CASE e.kind = "message" ->
           [u EXCEPT !.input = e.input, !.output = e.output, !.create = e.create, !.read = e.read]
      [] e.kind = "start" -> [u EXCEPT !.input = e.input, !.create = e.create, !.read = e.read]
      [] e.kind = "delta" -> [u EXCEPT !.output = Kept(e.output, @), !.create = Kept(e.create, @),
                                       !.read = Kept(e.read, @)])

ApplyOpenAIPayload(u, e) ==
  LET v == [u EXCEPT !.input = Kept(e.input, @), !.output = Kept(e.output, @),
                     !.total = Kept(e.total, @), !.cached = Kept(e.cached, @)]
  IN [v EXCEPT !.total = IF @ = 0 THEN v.input + v.output ELSE @]

ParseUsage(type, body) ==
  IF type = "openai" THEN FoldLeft(ApplyOpenAIPayload, EmptyUsage, body)
                     ELSE FoldLeft(AnthropicEvent, EmptyUsage, body)

(***************************************************************************)
(* What is left of the first n events of a body, those recorded, and what  *)
(* the upstream said.                                                      *)
(***************************************************************************)
Said(body, f) ==
  LET told == SelectSeq(body, LAMBDA e : e[f] # None)
  IN IF told = <<>> THEN 0 ELSE Last(told)[f]

(* None where there is a doubt: a part is missing, or a total that is not    *)
(* given would have to be worked out of parts that came one by one.          *)
SaidIn(body, n) ==
  LET untold == \E e \in ToSet(body) : e.kind = "payload" /\ e.total = None
  IN IF n < Len(body) \/ (Len(body) > 1 /\ untold)
     THEN None
     ELSE [f \in {"input", "output", "create", "read", "cached"} |-> Said(body, f)]

Recorded(type, body, n) ==
  [type |-> type, usage |-> ParseUsage(type, SubSeq(body, 1, n)), said |-> SaidIn(body, n)]

Answers == UNION {UNION {{Recorded(type, body, n) : n \in 0..Len(body)} : body \in Bodies(type)} :
                  type \in Type}
=============================================================================
