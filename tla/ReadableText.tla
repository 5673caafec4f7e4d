---------------------------- MODULE ReadableText ----------------------------
(***************************************************************************)
(* The text that the detail page reads out of a recorded event stream      *)
(* (extractReadableSseText in utils.ts).  Any of three upstream formats    *)
(* may be recorded, from the start to wherever the capture stopped.  An    *)
(* upstream writes events here and what it says in them is kept; the page  *)
(* reads the record after every event.  A text is a sequence of pieces.    *)
(***************************************************************************)
EXTENDS Integers, Sequences, SequencesExt

CONSTANTS
  Piece,
  MaxEvents  \* bound

VARIABLES
  format,   \* of the upstream
  payload,  \* response_payload, its blocks
  said      \* history: the pieces said so far

vars == <<format, payload, said>>

(***************************************************************************)
(* JSON values, as far as the page looks into them.                        *)
(***************************************************************************)
Nothing     == [is |-> "nothing"]
Text(s)     == [is |-> "string", text |-> s]
List(items) == [is |-> "array", items |-> items]
Object(has) == [is |-> "object", has |-> has]

(* Blocks that are no JSON object: [DONE], a comment, an event cut short. *)
Unreadable == {Nothing, [is |-> "cut"]}

Field(v, name) ==
  IF v.is = "object" /\ name \in DOMAIN v.has THEN v.has[name] ELSE Nothing

Named(v, name, s) == Field(v, name) = Text(s)
IsText(v) == v.is = "string"

(***************************************************************************)
(* The page.                                                               *)
(***************************************************************************)
RECURSIVE CollectTextFromUnknown(_)
CollectTextFromUnknown(v) ==
  LET all(items) == FlattenSeq([i \in DOMAIN items |-> CollectTextFromUnknown(items[i])])
  IN CASE v.is = "string" -> v.text
       [] v.is = "array"  -> all(v.items)
       [] v.is = "object" ->
            CASE IsText(Field(v, "text"))         -> Field(v, "text").text
              [] IsText(Field(v, "output_text"))  -> Field(v, "output_text").text
              [] IsText(Field(v, "content"))      -> Field(v, "content").text
              [] Field(v, "content").is = "array" -> all(Field(v, "content").items)
              [] OTHER                            -> <<>>
       [] OTHER -> <<>>

TextOrNone(v) == IF IsText(v) THEN v.text ELSE <<>>

BlockStartText(event) ==
  LET block == Field(event, "content_block")
  IN IF Named(block, "type", <<"text">>) THEN CollectTextFromUnknown(block) ELSE <<>>

BlockDeltaText(delta) ==
  IF Named(delta, "type", <<"text_delta">>) THEN TextOrNone(Field(delta, "text")) ELSE <<>>

ToolCallText(call) ==
  TextOrNone(Field(Field(call, "function"), "name"))
    \o TextOrNone(Field(Field(call, "function"), "arguments"))

ItemsOf(v) == IF v.is = "array" THEN v.items ELSE <<>>

ChoiceText(choice) ==
  LET delta == Field(choice, "delta")
      calls == ItemsOf(Field(delta, "tool_calls"))
  IN IF IsText(delta) THEN delta.text
     ELSE TextOrNone(Field(delta, "reasoning_content"))
            \o (IF Field(delta, "content").is = "object" THEN <<>>
                ELSE CollectTextFromUnknown(Field(delta, "content")))
            \o FlattenSeq([i \in DOMAIN calls |-> ToolCallText(calls[i])])

(* The first of them that holds text. *)
LooseText(event) ==
  LET from == SelectSeq(<<"output", "content", "delta">>,
                        LAMBDA name : CollectTextFromUnknown(Field(event, name)) # <<>>)
  IN IF from = <<>> THEN <<>> ELSE CollectTextFromUnknown(Field(event, Head(from)))

Segments(event) ==
  LET delta   == Field(event, "delta")
      message == Field(event, "message")
      choices == Field(event, "choices")
  IN CASE Named(event, "type", <<"content_block_start">>) -> BlockStartText(event)
       [] Named(event, "type", <<"content_block_delta">>) /\ delta.is \in {"object", "array"} ->
            BlockDeltaText(delta)
       [] Named(event, "type", <<"message_start">>) /\ message.is \in {"object", "array"} ->
            CollectTextFromUnknown(Field(message, "content"))
       [] choices.is = "array" ->
            FlattenSeq([i \in DOMAIN choices.items |-> ChoiceText(choices.items[i])])
       [] OTHER -> LooseText(event)

ExtractJsonObjectsFromSse(blocks) == SelectSeq(blocks, LAMBDA block : block.is = "object")

ExtractReadableSseText(blocks) ==
  LET events == ExtractJsonObjectsFromSse(blocks)
  IN FlattenSeq([i \in DOMAIN events |-> Segments(events[i])])

(***************************************************************************)
(* The upstreams: an event, and the pieces that it says.                   *)
(***************************************************************************)
Event(type, has, says) ==
  [block |-> Object([f \in {"type"} \cup DOMAIN has |-> IF f = "type" THEN Text(<<type>>) ELSE has[f]]),
   says |-> says]

Typed(type, text) == Object([type |-> Text(<<type>>), text |-> Text(text)])
Output(text) == List(<<Object([content |-> List(<<Typed("output_text", text)>>)])>>)

AnthropicEvents ==
  {Event("message_start", [message |-> Object([content |-> List(<<>>)])], <<>>),
   Event("content_block_start", [content_block |-> Typed("text", <<>>)], <<>>),
   Event("content_block_start", [content_block |-> Typed("thinking", <<>>)], <<>>),
   Event("message_delta", [delta |-> Object([stop_reason |-> Text(<<"end_turn">>)])], <<>>),
   Event("ping", <<>>, <<>>)}
  \cup {Event("content_block_delta", [delta |-> Typed("text_delta", <<p>>)], <<p>>) : p \in Piece}
  \cup {Event("content_block_delta",
              [delta |-> Object([type |-> Text(<<"thinking_delta">>), thinking |-> Text(<<p>>)])],
              <<>>) : p \in Piece}

Chunk(delta, says) == [block |-> Object([choices |-> List(<<Object([delta |-> delta])>>)]), says |-> says]

ChatEvents ==
  {Chunk(Object([role |-> Text(<<"assistant">>), content |-> Text(<<>>)]), <<>>),
   [block |-> Object([choices |-> List(<<>>), usage |-> Nothing]), says |-> <<>>]}
  \cup UNION {{Chunk(Object([content |-> Text(<<p>>)]), <<p>>),
               Chunk(Object([reasoning_content |-> Text(<<p>>), content |-> Nothing]), <<p>>),
               Chunk(Object([tool_calls |-> List(<<Object([function |-> Object(
                       [name |-> Text(<<p>>), arguments |-> Text(<<"args">>)])])>>)]), <<p, "args">>)}
              : p \in Piece}

(* The closing events repeat what was said. *)
ResponsesEvents(sofar) ==
  {Event("response.created", [response |-> Object([output |-> List(<<>>)])], <<>>),
   Event("response.output_text.done", [text |-> Text(sofar)], <<>>),
   Event("response.content_part.done", [part |-> Typed("output_text", sofar)], <<>>),
   Event("response.output_item.done", [item |-> Output(sofar).items[1]], <<>>),
   Event("response.completed", [response |-> Object([output |-> Output(sofar)])], <<>>)}
  \cup {Event("response.output_text.delta", [delta |-> Text(<<p>>)], <<p>>) : p \in Piece}

Events(sofar) ==
  CASE format = "anthropic" -> AnthropicEvents
    [] format = "chat"      -> ChatEvents
    [] format = "responses" -> ResponsesEvents(sofar)

Init == format \in {"anthropic", "chat", "responses"} /\ payload = <<>> /\ said = <<>>

Writes ==
  /\ Len(payload) < MaxEvents
  /\ \E e \in Events(said) : payload' = Append(payload, e.block) /\ said' = said \o e.says
  /\ UNCHANGED format

Next == Writes

Spec == Init /\ [][Next]_vars

(***************************************************************************)
(* Properties.                                                             *)
(***************************************************************************)
(* The page reads what was said, each piece once and in its order, in every  *)
(* format and wherever the record was cut.                                   *)
ReadsWhatWasSaid ==
  /\ ExtractReadableSseText(payload) = said
  /\ \A block \in Unreadable : ExtractReadableSseText(Append(payload, block)) = said
=============================================================================
