------------------------- MODULE StreamTranslation --------------------------
(***************************************************************************)
(* The four stream translators (protocol/responses.rs, anthropic.rs).      *)
(* Every translation goes through Chat chunks: a source turns an event of  *)
(* the provider into chunks, a sink turns a chunk into events of the       *)
(* client's protocol.                                                      *)
(*                                                                         *)
(* A piece stands for a fragment of text, a call for the id and the name   *)
(* of a tool call.  item.added stands for the content_part.added sent with *)
(* it, item.done for every *.done event of an item.  Response ids,         *)
(* sequence numbers and what a response repeats of its request are left    *)
(* out.                                                                    *)
(*                                                                         *)
(* A definition whose name starts with M_ is a mutant of the one after it. *)
(***************************************************************************)
EXTENDS Naturals, FiniteSets, SequencesExt, Functions

CONSTANTS
  None,  \* a field that is absent
  Null   \* "usage": null

ASSUME NullAssumption ==
  /\ None # Null /\ None \notin Nat
  /\ {None, Null} \cap [input : Nat \cup {None}, output : Nat] = {}

-----------------------------------------------------------------------------
(* The three wire formats, as their readers know them.                     *)

Blank ==
  [ type |-> "chunk", thought |-> None, text |-> None, calls |-> <<>>,
    finish |-> None, usage |-> None ]
CallPart(index, call, args) == [index |-> index, call |-> call, args |-> args]
Done == [type |-> "[DONE]"]

Created == [type |-> "response.created"]
Item(kind, n) == [kind |-> kind, n |-> n]
ItemAdded(item, index, call) ==
  [type |-> "item.added", item |-> item, index |-> index, call |-> call]
ItemDelta(item, index, piece) ==
  [type |-> "item.delta", item |-> item, index |-> index, piece |-> piece]
ItemDone(item, index, pieces) ==
  [type |-> "item.done", item |-> item, index |-> index, pieces |-> pieces]
Ended(type, usage) == [type |-> type, usage |-> usage]

MessageStart(usage) == [type |-> "message_start", usage |-> usage]
BlockStart(index, kind, call) ==
  [type |-> "block_start", index |-> index, kind |-> kind, call |-> call]
BlockDelta(index, kind, piece) ==
  [type |-> "block_delta", index |-> index, kind |-> kind, piece |-> piece]
BlockStop(index) == [type |-> "block_stop", index |-> index]
MessageDelta(stop, usage) ==
  [type |-> "message_delta", stop |-> stop, usage |-> usage]
MessageStop == [type |-> "message_stop"]

\* Usage, provider_reported included.
NoUsage == [input |-> 0, output |-> 0, reported |-> FALSE]
Tokens(input, output) == [input |-> input, output |-> output]
Reported(tokens) ==
  [input |-> tokens.input, output |-> tokens.output, reported |-> TRUE]
TokensOf(usage) == Tokens(usage.input, usage.output)

\* What a chunk says about usage, if it says anything.
UsageOf(chunk, known) ==
  IF chunk.usage \in {None, Null} THEN known ELSE Reported(chunk.usage)

\* observe_anthropic_stream_event: what is absent keeps its value.
TellsUsage(event) == event.type \in {"message_start", "message_delta"}
M_ObserveAnthropic(event, known) ==
  IF ~TellsUsage(event) THEN known
  ELSE [ input |-> IF event.usage.input = None THEN 0 ELSE event.usage.input,
         output |-> event.usage.output, reported |-> TRUE ]
ObserveAnthropic(event, known) ==
  IF ~TellsUsage(event) THEN known
  ELSE [ input |-> IF event.usage.input = None THEN known.input ELSE event.usage.input,
         output |-> event.usage.output, reported |-> TRUE ]

Send(sink, frames) == [sink EXCEPT !.out = @ \o frames]

\* A map after an insertion.
With(f, key, value) == [k \in DOMAIN f \cup {key} |-> IF k = key THEN value ELSE f[k]]

\* What each element of a sequence makes, in a row.
Each(s, F(_)) == FlattenSeq([k \in DOMAIN s |-> F(s[k])])

\* The keys of a BTreeMap in their order.
Sorted(keys) ==
  [n \in 1..Cardinality(keys) |->
     CHOOSE i \in keys : Cardinality({j \in keys : j < i}) = n - 1]

-----------------------------------------------------------------------------
(* ChatToResponsesStream.  One reasoning item, one message, one item per   *)
(* call; the output index of an item is worked out anew each time.         *)

NewResponses ==
  [ started |-> FALSE, thinking |-> FALSE, talking |-> FALSE, thought |-> <<>>,
    text |-> <<>>, calls |-> <<>>, usage |-> NoUsage, out |-> <<>> ]

TheThought == Item("reasoning", 0)
TheMessage == Item("message", 0)
TheCall(i) == Item("function_call", i)

MessageIndex(s) == IF s.thinking THEN 1 ELSE 0
M_CallIndex(s, i) == MessageIndex(s) + i
CallIndex(s, i) == MessageIndex(s) + (IF s.talking THEN 1 ELSE 0) + i

EnsureReasoning(s) ==
  IF s.thinking THEN s
  ELSE Send([s EXCEPT !.thinking = TRUE], <<ItemAdded(TheThought, 0, None)>>)

EnsureMessage(s) ==
  IF s.talking THEN s
  ELSE Send([s EXCEPT !.talking = TRUE],
            <<ItemAdded(TheMessage, MessageIndex(s), None)>>)

EnsureCall(s, part) ==
  IF part.index \in DOMAIN s.calls THEN s
  ELSE Send([s EXCEPT !.calls = With(@, part.index, [call |-> part.call, args |-> <<>>])],
            <<ItemAdded(TheCall(part.index), CallIndex(s, part.index), part.call)>>)

ThinkToResponses(s, piece) ==
  IF piece = None THEN s
  ELSE Send([EnsureReasoning(s) EXCEPT !.thought = Append(@, piece)],
            <<ItemDelta(TheThought, 0, piece)>>)

TalkToResponses(s, piece) ==
  IF piece = None THEN s
  ELSE LET t == EnsureMessage(s) IN
       Send([t EXCEPT !.text = Append(@, piece)],
            <<ItemDelta(TheMessage, MessageIndex(t), piece)>>)

CallToResponses(s, part) ==
  LET t == EnsureCall(s, part) IN
  IF part.args = None THEN t
  ELSE Send([t EXCEPT !.calls[part.index].args = Append(@, part.args)],
            <<ItemDelta(TheCall(part.index), CallIndex(t, part.index), part.args)>>)

ChatToResponses(s, chunk) ==
  LET begun == IF s.started THEN s
               ELSE Send([s EXCEPT !.started = TRUE], <<Created>>)
      counted == [begun EXCEPT !.usage = UsageOf(chunk, @)]
  IN FoldLeft(CallToResponses,
              TalkToResponses(ThinkToResponses(counted, chunk.thought), chunk.text),
              chunk.calls)

FinishResponses(s) ==
  LET thought == IF s.thinking THEN <<ItemDone(TheThought, 0, s.thought)>> ELSE <<>>
      message == IF s.talking
                 THEN <<ItemDone(TheMessage, MessageIndex(s), s.text)>> ELSE <<>>
      Closed(i) == ItemDone(TheCall(i), CallIndex(s, i), s.calls[i].args)
      calls == Sorted(DOMAIN s.calls)
  IN Send(s, thought \o message \o [k \in DOMAIN calls |-> Closed(calls[k])]
             \o <<Ended("response.completed", TokensOf(s.usage))>>)

-----------------------------------------------------------------------------
(* ChatToAnthropicStream.  The text block is stopped when a call comes,    *)
(* the blocks of calls only at the end; thoughts are not passed on.        *)

NewAnthropic ==
  [ started |-> FALSE, block |-> 0, open |-> FALSE, calls |-> <<>>,
    usage |-> NoUsage, stop |-> "end_turn", out |-> <<>> ]

StopReason(finish) ==
  CASE finish = "tool_calls" -> "tool_use"
    [] finish = "length" -> "max_tokens"
    [] OTHER -> "end_turn"

TalkToAnthropic(s, piece) ==
  IF piece = None THEN s
  ELSE Send([s EXCEPT !.open = TRUE],
            (IF s.open THEN <<>> ELSE <<BlockStart(s.block, "text", None)>>)
            \o <<BlockDelta(s.block, "text", piece)>>)

M_CloseText(s) == s
CloseText(s) ==
  IF s.open THEN Send([s EXCEPT !.open = FALSE, !.block = @ + 1], <<BlockStop(s.block)>>)
  ELSE s

CallToAnthropic(s, part) ==
  LET t == IF part.index \in DOMAIN s.calls THEN s
           ELSE Send([s EXCEPT !.calls = With(@, part.index, s.block), !.block = @ + 1],
                     <<BlockStart(s.block, "tool_use", part.call)>>)
  IN IF part.args = None THEN t
     ELSE Send(t, <<BlockDelta(t.calls[part.index], "tool_use", part.args)>>)

ChatToAnthropic(s, chunk) ==
  LET begun == IF s.started THEN s
               ELSE Send([s EXCEPT !.started = TRUE], <<MessageStart(Tokens(0, 0))>>)
      counted == [begun EXCEPT
                    !.usage = UsageOf(chunk, @),
                    !.stop = IF chunk.finish = None THEN @ ELSE StopReason(chunk.finish)]
      spoken == TalkToAnthropic(counted, chunk.text)
  IN IF chunk.calls = <<>> THEN spoken
     ELSE FoldLeft(CallToAnthropic, CloseText(spoken), chunk.calls)

FinishAnthropic(s) ==
  LET text == IF s.open THEN <<BlockStop(s.block)>> ELSE <<>>
      calls == Sorted(DOMAIN s.calls)
  IN Send(s, text \o [k \in DOMAIN calls |-> BlockStop(s.calls[calls[k]])]
             \o <<MessageDelta(s.stop, TokensOf(s.usage)), MessageStop>>)

-----------------------------------------------------------------------------
(* ResponsesToChatStream and AnthropicToChatStream: what is heard of an    *)
(* event, as the translator's new state and the chunks it makes.           *)

NewSource == [calls |-> <<>>, blocks |-> <<>>, next |-> 0, usage |-> NoUsage]

Heard(source, chunks) == [source |-> source, chunks |-> chunks]

\* The call an item belongs to; an item nobody announced counts as call 0.
M_FirstCall(source, item) == 0
CallOf(source, item) ==
  IF item \in DOMAIN source.calls THEN source.calls[item] ELSE 0

ResponsesFinish(source, type) ==
  IF type = "response.incomplete" THEN "length"
  ELSE IF source.calls = <<>> THEN "stop" ELSE "tool_calls"

ResponsesToChat(source, event) ==
  CASE event.type = "item.added" /\ event.item.kind = "function_call" ->
         LET index == Cardinality(DOMAIN source.calls) IN
         Heard([source EXCEPT !.calls = With(@, event.item, index)],
               <<[Blank EXCEPT !.calls = <<CallPart(index, event.call, None)>>]>>)
    [] event.type = "item.delta" /\ event.item.kind = "reasoning" ->
         Heard(source, <<[Blank EXCEPT !.thought = event.piece]>>)
    [] event.type = "item.delta" /\ event.item.kind = "message" ->
         Heard(source, <<[Blank EXCEPT !.text = event.piece]>>)
    [] event.type = "item.delta" /\ event.item.kind = "function_call" ->
         Heard(source, <<[Blank EXCEPT !.calls =
                            <<CallPart(CallOf(source, event.item), None, event.piece)>>]>>)
    [] event.type \in {"response.completed", "response.incomplete"} ->
         Heard(source, <<[Blank EXCEPT !.finish = ResponsesFinish(source, event.type),
                                       !.usage = event.usage]>>)
    [] OTHER -> Heard(source, <<>>)

ChatFinish(stop) ==
  CASE stop = "tool_use" -> "tool_calls"
    [] stop = "max_tokens" -> "length"
    [] OTHER -> "stop"

\* A chat call is numbered by the calls before it, not by its block.
AnthropicBlock(source, event) ==
  LET opened == [source EXCEPT !.blocks =
                   With(@, event.index, [kind |-> event.kind, call |-> source.next])]
  IN IF event.kind # "tool_use" THEN Heard(opened, <<>>)
     ELSE Heard([opened EXCEPT !.next = @ + 1],
                <<[Blank EXCEPT !.calls =
                     <<CallPart(source.next, event.call, None)>>]>>)

AnthropicDelta(source, event) ==
  LET block == source.blocks[event.index] IN
  Heard(source,
        IF event.index \notin DOMAIN source.blocks THEN <<>>
        ELSE CASE block.kind = "thinking" -> <<[Blank EXCEPT !.thought = event.piece]>>
               [] block.kind = "text" -> <<[Blank EXCEPT !.text = event.piece]>>
               [] block.kind = "tool_use" ->
                    <<[Blank EXCEPT !.calls = <<CallPart(block.call, None, event.piece)>>]>>)

AnthropicToChat(source, event) ==
  LET s == [source EXCEPT !.usage = ObserveAnthropic(event, @)] IN
  CASE event.type = "message_start" -> Heard(s, <<Blank>>)
    [] event.type = "block_start" -> AnthropicBlock(s, event)
    [] event.type = "block_delta" -> AnthropicDelta(s, event)
    [] event.type = "message_delta" ->
         Heard(s, <<[Blank EXCEPT !.finish = ChatFinish(event.stop),
                                  !.usage = TokensOf(s.usage)]>>)
    [] OTHER -> Heard(s, <<>>)

=============================================================================
