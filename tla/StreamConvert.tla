--------------------------- MODULE StreamConvert ---------------------------
(***************************************************************************)
(* A stream of Chat Completions turned into one of the Responses API       *)
(* (ConvertStream in internal/responsesconv/stream.go), with text between  *)
(* think tags told as reasoning (thinktag.go), however the upstream cuts   *)
(* its text, and whether it ends as it should or not.  The other end of    *)
(* the pipe is streamResponse, and beyond it a client that builds the      *)
(* response from the frames.  An answer that is not streamed is converted  *)
(* in one go (response.go) and should come to the same.                    *)
(*                                                                         *)
(* A text is a sequence of symbols, a tag one of a few of them.            *)
(***************************************************************************)
EXTENDS Integers, Sequences, SequencesExt

CONSTANTS
  None,
  OpenTag, CloseTag,   \* <think> and </think>
  Answer               \* [content, reasoning, calls, indexed, finish] of an upstream

VARIABLES
  answer,
  given,    \* how much of it was sent: [text, calls, finish, usage, done]
  source,   \* the upstream's body, "open" or "ended"
  st,       \* streamState, with the frames emitted for a block
  reader,   \* is the pipe still read?
  told      \* what the client has made of the frames

vars == <<answer, given, source, st, reader, told>>

(***************************************************************************)
(* The two forms of the splitter.                                          *)
(***************************************************************************)
Tag(inThink)  == IF inThink THEN CloseTag ELSE OpenTag
Kind(inThink) == IF inThink THEN "reasoning" ELSE "message"

PushThinkSegment(segments, kind, text) ==
  CASE text = <<>> -> segments
    [] text # <<>> /\ segments # <<>> /\ Last(segments).type = kind ->
         [segments EXCEPT ![Len(segments)].text = @ \o text]
    [] OTHER -> Append(segments, [type |-> kind, text |-> text])

IndexOf(tag, text) ==
  LET found == {i \in 1..(Len(text) - Len(tag) + 1) : SubSeq(text, i, i + Len(tag) - 1) = tag}
  IN IF found = {} THEN 0 ELSE Min(found)

After(i, text) == SubSeq(text, i + 1, Len(text))

RECURSIVE Split(_, _, _)
Split(segments, text, inThink) ==
  LET idx == IndexOf(Tag(inThink), text)
  IN IF idx = 0 THEN PushThinkSegment(segments, Kind(inThink), text)
     ELSE Split(PushThinkSegment(segments, Kind(inThink), SubSeq(text, 1, idx - 1)),
                After(idx + Len(Tag(inThink)) - 1, text), ~inThink)

SplitThinkTaggedText(text) == Split(<<>>, text, FALSE)

(* Mutant: only the first symbol of a tag is held back. *)
OneSymbolHeld(value, tag) == IF value # <<>> /\ Last(value) = tag[1] THEN 1 ELSE 0

LongestTagSuffixPrefix(value, tag) ==
  Max({0} \cup {n \in 1..(Len(tag) - 1) : n <= Len(value) /\ IsSuffix(SubSeq(tag, 1, n), value)})

RECURSIVE Consume(_, _, _)
Consume(segments, buffer, inThink) ==
  LET idx  == IndexOf(Tag(inThink), buffer)
      safe == Len(buffer) - LongestTagSuffixPrefix(buffer, Tag(inThink))
  IN IF idx # 0
     THEN Consume(PushThinkSegment(segments, Kind(inThink), SubSeq(buffer, 1, idx - 1)),
                  After(idx + Len(Tag(inThink)) - 1, buffer), ~inThink)
     ELSE [segments |-> PushThinkSegment(segments, Kind(inThink), SubSeq(buffer, 1, safe)),
           buffer |-> After(safe, buffer), inThink |-> inThink]

(***************************************************************************)
(* The converter.  An item's index stands for its id.                      *)
(***************************************************************************)
Frames(s, frames) == [s EXCEPT !.frames = @ \o frames]

EnsureStreamCreated(s) ==
  IF s.created THEN s ELSE Frames([s EXCEPT !.created = TRUE], <<[event |-> "created"]>>)

FinalizeActiveStreamItem(s) ==
  LET item == Last(s.items)
  IN IF ~s.active THEN s
     ELSE Frames([s EXCEPT !.active = FALSE],
            <<[event |-> "text.done", index |-> item.index, text |-> item.text],
              [event |-> "part.done", index |-> item.index, text |-> item.text],
              [event |-> "item.done", item |-> item]>>)

(* Mutant: an item is begun while one of the other kind is open. *)
StartedBeside(s, kind) ==
  LET created == EnsureStreamCreated(s)
      item    == [type |-> kind, index |-> Len(s.items), text |-> <<>>]
  IN IF s.active /\ Last(s.items).type = kind THEN created
     ELSE Frames([created EXCEPT !.items = Append(@, item), !.active = TRUE],
            <<[event |-> "item.added", item |-> item], [event |-> "part.added", index |-> item.index]>>)

EnsureStreamItemStarted(s, kind) ==
  LET created == EnsureStreamCreated(s)
      closed  == FinalizeActiveStreamItem(created)
      item    == [type |-> kind, index |-> Len(s.items), text |-> <<>>]
  IN IF s.active /\ Last(s.items).type = kind THEN created
     ELSE Frames([closed EXCEPT !.items = Append(@, item), !.active = TRUE],
            <<[event |-> "item.added", item |-> item], [event |-> "part.added", index |-> item.index]>>)

AppendStreamTextDelta(s, segment) ==
  LET started == EnsureStreamItemStarted(s, segment.type)
      item    == Last(started.items)
  IN IF segment.text = <<>> THEN s
     ELSE Frames([started EXCEPT !.items[item.index + 1].text = @ \o segment.text],
            <<[event |-> "delta", index |-> item.index, type |-> segment.type, text |-> segment.text]>>)

(* A fragment without an index is a call of its own. *)
AppendToolCallDelta(s, fragment) ==
  LET index == IF fragment.index = None THEN Len(s.calls) ELSE fragment.index
      known == SelectInSeq(s.calls, LAMBDA call : call.index = index)
      call  == IF known = 0 THEN [index |-> index, id |-> None, name |-> <<>>, arguments |-> <<>>]
               ELSE s.calls[known]
      grown == [call EXCEPT !.id = IF fragment.id = None THEN @ ELSE fragment.id,
                            !.name = @ \o fragment.name, !.arguments = @ \o fragment.arguments]
  IN [s EXCEPT !.calls = IF known = 0 THEN Append(@, grown) ELSE [@ EXCEPT ![known] = grown]]

ProcessChatCompletionChunk(s, chunk) ==
  LET created  == EnsureStreamCreated(s)
      noted    == [created EXCEPT !.usage = @ \/ chunk.usage,
                                  !.finish = IF chunk.finish = None THEN @ ELSE chunk.finish]
      called   == FoldLeft(AppendToolCallDelta, noted, chunk.calls)
      text     == IF chunk.content # <<>> THEN chunk.content ELSE chunk.reasoning
      consumed == Consume(<<>>, called.buffer \o text, called.inThink)
  IN IF text = <<>> THEN called
     ELSE FoldLeft(AppendStreamTextDelta,
                   [called EXCEPT !.buffer = consumed.buffer, !.inThink = consumed.inThink],
                   consumed.segments)

StatusFromFinishReason(finish) ==
  IF finish \in {"length", "content_filter"} THEN "incomplete" ELSE "completed"

FunctionCallItems(calls, startIndex) ==
  [i \in DOMAIN calls |->
     [type |-> "function_call", index |-> startIndex + i - 1,
      id |-> IF calls[i].id = None THEN <<"call", calls[i].index>> ELSE calls[i].id,
      name |-> calls[i].name, arguments |-> calls[i].arguments]]

FinalizeStream(s) ==
  LET created == EnsureStreamCreated([s EXCEPT !.finalized = TRUE, !.buffer = <<>>])
      flushed == AppendStreamTextDelta(created, [type |-> Kind(s.inThink), text |-> s.buffer])
      closed  == FinalizeActiveStreamItem(flushed)
      calls   == FunctionCallItems(closed.calls, Len(closed.items))
  IN IF s.finalized THEN s
     ELSE Frames(closed,
            FlattenSeq([i \in DOMAIN calls |-> <<[event |-> "item.added", item |-> calls[i]],
                                                 [event |-> "item.done", item |-> calls[i]]>>]) \o
            <<[event |-> "completed", status |-> StatusFromFinishReason(s.finish),
               usage |-> s.usage, output |-> closed.items \o calls],
              [event |-> "[DONE]"]>>)

(***************************************************************************)
(* The client: one response, its items one after the other, each begun,    *)
(* told piece by piece and ended, then the whole once more, then the end.  *)
(***************************************************************************)
NothingTold == [fits |-> TRUE, created |-> FALSE, items |-> <<>>, at |-> "between",
                response |-> None, ended |-> FALSE]

Fits(t, f) ==
  /\ f.event = "created" <=> ~t.created
  /\ f.event = "[DONE]" <=> t.response # None
  /\ CASE f.event = "created"    -> TRUE
       [] f.event = "item.added" -> t.at = "between" /\ f.item.index = Len(t.items)
       [] f.event = "part.added" -> t.at = "added" /\ f.index = Len(t.items) - 1
       [] f.event = "delta"      -> /\ t.at = "part" /\ f.index = Len(t.items) - 1
                                    /\ f.type = Last(t.items).type /\ f.text # <<>>
       [] f.event = "text.done"  -> t.at = "part" /\ f.text = Last(t.items).text
       [] f.event = "part.done"  -> t.at = "text" /\ f.text = Last(t.items).text
       [] f.event = "item.done"  -> /\ f.item = Last(t.items)
                                    /\ t.at = IF f.item.type = "function_call" THEN "added" ELSE "done"
       [] f.event = "completed"  -> t.at = "between" /\ f.output = t.items
       [] f.event = "[DONE]"     -> ~t.ended

Heard(t, f) ==
  CASE f.event = "created"    -> [t EXCEPT !.created = TRUE]
    [] f.event = "item.added" -> [t EXCEPT !.items = Append(@, f.item), !.at = "added"]
    [] f.event = "part.added" -> [t EXCEPT !.at = "part"]
    [] f.event = "delta"      -> [t EXCEPT !.items[f.index + 1].text = @ \o f.text]
    [] f.event = "text.done"  -> [t EXCEPT !.at = "text"]
    [] f.event = "part.done"  -> [t EXCEPT !.at = "done"]
    [] f.event = "item.done"  -> [t EXCEPT !.at = "between"]
    [] f.event = "completed"  -> [t EXCEPT !.response = [status |-> f.status, usage |-> f.usage]]
    [] f.event = "[DONE]"     -> [t EXCEPT !.ended = TRUE]

Hear(t, f) == IF t.fits /\ Fits(t, f) THEN Heard(t, f) ELSE [t EXCEPT !.fits = FALSE]

(***************************************************************************)
(* The upstream sends its answer in chunks, the reasoning first.           *)
(***************************************************************************)
Text == answer.reasoning \o answer.content
Silence == [content |-> <<>>, reasoning |-> <<>>, calls |-> <<>>, finish |-> None, usage |-> FALSE]

Init ==
  /\ answer \in Answer /\ source = "open" /\ reader = TRUE /\ told = NothingTold
  /\ given = [text |-> 0, calls |-> [i \in DOMAIN answer.calls |-> 0],
              finish |-> FALSE, usage |-> FALSE, done |-> FALSE]
  /\ st = [created |-> FALSE, finalized |-> FALSE, finish |-> None, usage |-> FALSE,
           calls |-> <<>>, items |-> <<>>, active |-> FALSE,
           buffer |-> <<>>, inThink |-> FALSE, frames |-> <<>>]

(* The frames of a block are written, or lost if nobody reads the pipe.      *)
Emit(s) ==
  /\ st' = [s EXCEPT !.frames = <<>>]
  /\ told' = IF reader THEN FoldLeft(Hear, told, s.frames) ELSE told
  /\ UNCHANGED <<answer, reader>>

Sends(chunk) ==
  /\ source = "open" /\ ~given.done
  /\ Emit(ProcessChatCompletionChunk(st, chunk)) /\ UNCHANGED source

(* A first chunk may have no text. *)
SendText(n) ==
  LET thinking == given.text < Len(answer.reasoning)
      limit    == IF thinking THEN Len(answer.reasoning) ELSE Len(Text)
      piece    == SubSeq(Text, given.text + 1, given.text + n)
  IN /\ given.text + n <= limit /\ ~given.finish
     /\ Sends(IF thinking THEN [Silence EXCEPT !.reasoning = piece]
              ELSE [Silence EXCEPT !.content = piece])
     /\ given' = [given EXCEPT !.text = @ + n]

(* A call comes at once, without an index, or in fragments, the name with    *)
(* the first.                                                                *)
SendCall(i) ==
  LET call == answer.calls[i]
      k    == given.calls[i]
      piece == [index     |-> IF answer.indexed THEN i - 1 ELSE None,
                id        |-> IF k = 0 THEN call.id ELSE None,
                name      |-> IF k = 0 THEN call.name ELSE <<>>,
                arguments |-> IF ~answer.indexed THEN call.arguments
                              ELSE IF k = 0 THEN <<>> ELSE <<call.arguments[k]>>]
      last == IF answer.indexed THEN Len(call.arguments) ELSE 0
  IN /\ ~given.finish /\ k <= last /\ (i > 1 => given.calls[i - 1] > 0)
     /\ Sends([Silence EXCEPT !.calls = <<piece>>])
     /\ given' = [given EXCEPT !.calls[i] = @ + 1]

SaidAll ==
  /\ given.text = Len(Text)
  /\ \A i \in DOMAIN answer.calls :
       given.calls[i] = IF answer.indexed THEN 1 + Len(answer.calls[i].arguments) ELSE 1

(* The reason it stops, perhaps with the usage, or that in a chunk of its    *)
(* own.                                                                      *)
SendFinish(usage) ==
  /\ SaidAll /\ ~given.finish
  /\ Sends([Silence EXCEPT !.finish = answer.finish, !.usage = usage])
  /\ given' = [given EXCEPT !.finish = TRUE, !.usage = usage]

SendUsage ==
  /\ given.finish /\ ~given.usage
  /\ Sends([Silence EXCEPT !.usage = TRUE])
  /\ given' = [given EXCEPT !.usage = TRUE]

SendDone ==
  /\ given.finish /\ ~given.done /\ source = "open"
  /\ given' = [given EXCEPT !.done = TRUE]
  /\ Emit(FinalizeStream(st)) /\ UNCHANGED source

(* A block that is no JSON is passed on as it is, which no client minds.     *)
SendGarbled == source = "open" /\ ~given.done /\ UNCHANGED vars

(* The body ends, breaks off, has a line that is too long, or is cancelled   *)
(* with the request.                                                         *)
SourceEnds ==
  /\ source = "open" /\ source' = "ended"
  /\ Emit(FinalizeStream(st)) /\ UNCHANGED given

(* streamResponse is done with it.  The converter goes on to the end. *)
CloseReader ==
  /\ source = "open" /\ reader /\ reader' = FALSE
  /\ UNCHANGED <<answer, given, source, st, told>>

Ended == source = "ended" /\ UNCHANGED vars

Next ==
  \/ \E n \in 0..Len(Text) : SendText(n)
  \/ \E i \in DOMAIN answer.calls : SendCall(i)
  \/ \E usage \in BOOLEAN : SendFinish(usage)
  \/ SendUsage \/ SendDone \/ SendGarbled \/ SourceEnds \/ CloseReader \/ Ended

Spec == Init /\ [][Next]_vars

(***************************************************************************)
(* The answer converted in one go.                                         *)
(***************************************************************************)
ConvertChatMessage(message) ==
  LET segments == SplitThinkTaggedText(IF message.content # <<>> THEN message.content
                                       ELSE message.reasoning)
  IN [i \in DOMAIN segments |->
        [type |-> segments[i].type, index |-> i - 1, text |-> segments[i].text]]

ConvertChatToolCalls(calls, startIndex) ==
  FunctionCallItems([i \in DOMAIN calls |-> calls[i] @@ [index |-> startIndex + i - 1]], startIndex)

ConvertChatCompletion(message) ==
  LET items == ConvertChatMessage(message)
  IN items \o ConvertChatToolCalls(message.calls, Len(items))

(***************************************************************************)
(* Properties.                                                             *)
(***************************************************************************)
Texts == SelectSeq(told.items, LAMBDA item : item.type # "function_call")
Calls == SelectSeq(told.items, LAMBDA item : item.type = "function_call")
Segments(items) == [i \in DOMAIN items |-> [type |-> items[i].type, text |-> items[i].text]]

TypeOK ==
  /\ given.text \in 0..Len(Text) /\ source \in {"open", "ended"}
  /\ st.active => st.items # <<>>
  /\ st.frames = <<>> /\ told.at \in {"between", "added", "part", "text", "done"}

(* Whatever the upstream sends, and wherever its stream ends, each frame is  *)
(* one the client waits for: one item open at a time, its text the pieces    *)
(* told, the response the items told; and a stream that ended was told to be *)
(* at its end (stream.go:11-18, 482-483).                                    *)
FramesFit ==
  /\ told.fits
  /\ source = "ended" /\ reader => told.ended
  /\ told.ended => Len(told.items) = Len(Texts) + Len(st.calls)

(* At any time the client has the text sent so far, told apart as the        *)
(* splitter for whole texts does it, but for what may become a tag, and when *)
(* the stream ended it has that too; so no cut of the upstream's shows, and  *)
(* no tag is told as text (README.md:123-127).                               *)
SplitAsAWhole ==
  LET sent == SubSeq(Text, 1, given.text)
      safe == SubSeq(sent, 1, Len(sent) - Len(st.buffer))
  IN /\ reader => Segments(Texts) = SplitThinkTaggedText(safe)
     /\ st.finalized => st.buffer = <<>>
     /\ Len(st.buffer) < Len(Tag(st.inThink)) /\ IsPrefix(st.buffer, Tag(st.inThink))

(* The items are those of the answer converted in one go, but for the ids    *)
(* given to calls without one.                                               *)
AsInOneGo ==
  LET Own(item) == IF item.type = "function_call" /\ item.id[1] = "call"
                   THEN [item EXCEPT !.id = None] ELSE item
      plain     == ConvertChatCompletion(answer)
  IN [i \in DOMAIN told.items |-> Own(told.items[i])] = [i \in DOMAIN plain |-> Own(plain[i])]

(* An answer that was streamed to its end becomes the response it had become *)
(* in one go, whether its calls came whole or in pieces, and no two of its   *)
(* calls have one id.  Not so if it has both a reasoning and a content:      *)
(* streamed, the reasoning is told as text.                                  *)
SameAsInOneGo ==
  told.ended /\ given.finish =>
    /\ answer.reasoning = <<>> \/ answer.content = <<>> => AsInOneGo
    /\ told.response = [status |-> StatusFromFinishReason(answer.finish), usage |-> given.usage]
    /\ \A i, j \in DOMAIN Calls : Calls[i].id = Calls[j].id => i = j

(* Reasoning sent apart and before the content is left out, as in one go;    *)
(* TLC finds this violated.                                                  *)
SameWithReasoning == told.ended /\ given.finish => AsInOneGo
=============================================================================
