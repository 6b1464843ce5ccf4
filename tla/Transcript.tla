------------------------------ MODULE Transcript ----------------------------
(***************************************************************************)
(* The translation of a conversation and of an answer that is not streamed *)
(* between the three protocols (protocol/responses.rs, anthropic.rs).      *)
(* Both go through Chat: a request is turned into a Chat request and that  *)
(* into the provider's, an answer into a Chat completion and that into the *)
(* client's.                                                               *)
(*                                                                         *)
(* A text, an image or a thought is a part with a value; a content is a    *)
(* sequence of parts, and the text that the code concatenates the sequence *)
(* of its text parts.  What the code does not know, built-in tools and     *)
(* namespaced calls among it, is "other".  Ids the code makes up are left  *)
(* out.                                                                    *)
(*                                                                         *)
(* A definition whose name starts with M_ is a mutant of the one after it. *)
(***************************************************************************)
EXTENDS Integers, SequencesExt

CONSTANT None  \* a field that is absent

Text(v) == [type |-> "text", value |-> v]
Image(v) == [type |-> "image", value |-> v]
Thought(v) == [type |-> "thought", value |-> v]
Other == [type |-> "other"]

OfType(parts, type) == SelectSeq(parts, LAMBDA part : part.type = type)
TextOf(parts) == OfType(parts, "text")
Each(s, F(_)) == FlattenSeq([i \in DOMAIN s |-> F(s[i])])
Unless(condition, s) == IF condition THEN <<>> ELSE s

-----------------------------------------------------------------------------
(* The wire formats.                                                       *)

\* Chat: thought stands for reasoning_content, of for tool_call_id.
Message(role, content, thought, calls, of) ==
  [ role |-> role, content |-> content, thought |-> thought,
    calls |-> calls, of |-> of ]
ToolMessage(id, content) == Message("tool", content, <<>>, <<>>, id)
FunctionCall(id, arguments) == [id |-> id, arguments |-> arguments]

\* Responses.
MessageItem(role, content) == [type |-> "message", role |-> role, content |-> content]
ReasoningItem(content) == [type |-> "reasoning", content |-> content]
CallItem(call) == [type |-> "function_call", call |-> call]
OutputItem(id, output) == [type |-> "function_call_output", of |-> id, output |-> output]

\* Anthropic.
Spoken(role, content) == [role |-> role, content |-> content]
ToolUse(id, input) == [type |-> "tool_use", id |-> id, input |-> input]
ToolResult(id, content) == [type |-> "tool_result", of |-> id, content |-> content]

\* Chat and Responses hold a call's arguments as text, Anthropic as a value;
\* text that is no JSON becomes a JSON string, and stays one.
AsInput(arguments) ==
  [kind |-> IF arguments.kind = "object" THEN "object" ELSE "string", value |-> arguments.value]
AsArguments(input) ==
  [kind |-> IF input.kind = "object" THEN "object" ELSE "quoted", value |-> input.value]

IsGuide(message) == message.role \in {"system", "developer"}

-----------------------------------------------------------------------------
(* Responses to Chat and back.                                             *)

\* translate_input_items reads the items one by one and keeps the reasoning
\* for the assistant's message or call that follows.
LiftMessage(lifted, item) ==
  LET role == IF item.role = "developer" THEN "system" ELSE item.role
      thought == IF role = "assistant" THEN lifted.pending ELSE <<>>
      message == Message(role, item.content, thought, <<>>, None)
  IN [ messages |-> lifted.messages \o Unless(item.content = <<>> /\ thought = <<>>, <<message>>),
       pending |-> <<>> ]

LiftReasoning(lifted, item) ==
  [lifted EXCEPT !.pending = IF item.content = <<>> THEN <<>> ELSE @ \o item.content]

LiftCall(lifted, item) ==
  LET messages == lifted.messages
      joins == messages # <<>> /\ Last(messages).role = "assistant"
  IN [ messages |->
         IF joins
         THEN [messages EXCEPT
                 ![Len(messages)].thought = IF lifted.pending = <<>> THEN @ ELSE lifted.pending,
                 ![Len(messages)].calls = Append(@, item.call)]
         ELSE Append(messages, Message("assistant", <<>>, lifted.pending, <<item.call>>, None)),
       pending |-> <<>> ]

LiftOutput(lifted, item) ==
  [ messages |-> Append(lifted.messages, ToolMessage(item.of, TextOf(item.output))),
    pending |-> <<>> ]

M_LiftForgetsThoughts(lifted, item) ==
  CASE item.type = "message" -> LiftMessage(lifted, item)
    [] item.type = "reasoning" -> LiftReasoning(lifted, item)
    [] item.type = "function_call" -> LiftCall([lifted EXCEPT !.pending = <<>>], item)
    [] item.type = "function_call_output" -> LiftOutput(lifted, item)
    [] OTHER -> [lifted EXCEPT !.pending = <<>>]
Lift(lifted, item) ==
  CASE item.type = "message" -> LiftMessage(lifted, item)
    [] item.type = "reasoning" -> LiftReasoning(lifted, item)
    [] item.type = "function_call" -> LiftCall(lifted, item)
    [] item.type = "function_call_output" -> LiftOutput(lifted, item)
    [] OTHER -> [lifted EXCEPT !.pending = <<>>]

SystemMessage(system) ==
  Unless(system = <<>>, <<Message("system", system, <<>>, <<>>, None)>>)

\* responses::prepare_for_chat.
ResponsesToChat(body) ==
  [ system |-> <<>>,
    thread |-> FoldLeft(Lift, [messages |-> SystemMessage(body.system), pending |-> <<>>],
                        body.thread).messages ]

\* responses::prepare_from_chat; thoughts and images are not carried.
LowerToItems(message) ==
  LET text == TextOf(message.content)
      Item(call) == <<CallItem(call)>>
  IN IF IsGuide(message) THEN <<>>
     ELSE IF message.role = "tool" THEN <<OutputItem(message.of, text)>>
     ELSE Unless(text = <<>>, <<MessageItem(message.role, text)>>)
            \o Each(message.calls, Item)

Instructions(thread) ==
  Each(thread, LAMBDA message : Unless(~IsGuide(message), TextOf(message.content)))

ChatToResponses(body) ==
  [system |-> Instructions(body.thread), thread |-> Each(body.thread, LowerToItems)]

-----------------------------------------------------------------------------
(* Anthropic to Chat and back.                                             *)

\* translate_message: the results of tools come before what is said with
\* them, as messages of their own.
UsesOf(blocks) ==
  Each(blocks, LAMBDA b : Unless(b.type # "tool_use",
                                 <<FunctionCall(b.id, AsArguments(b.input))>>))
ResultsOf(blocks) ==
  Each(blocks, LAMBDA b : Unless(b.type # "tool_result",
                                 <<ToolMessage(b.of, TextOf(b.content))>>))

SaidWith(message) ==
  LET blocks == message.content
      words == SelectSeq(blocks, LAMBDA b : b.type \in {"text", "image"})
      said == Message(message.role, words, OfType(blocks, "thought"), UsesOf(blocks), None)
  IN Unless(said.content = <<>> /\ said.thought = <<>> /\ said.calls = <<>>, <<said>>)

M_LiftSpokenResultsLast(message) == SaidWith(message) \o ResultsOf(message.content)
LiftSpoken(message) == ResultsOf(message.content) \o SaidWith(message)

\* anthropic::prepare_for_chat.
AnthropicToChat(body) ==
  [ system |-> <<>>,
    thread |-> SystemMessage(body.system) \o Each(body.thread, LiftSpoken) ]

\* anthropic::prepare_from_chat; thoughts and images are not carried.
LowerToSpoken(message) ==
  LET text == TextOf(message.content)
      Use(call) == <<ToolUse(call.id, AsInput(call.arguments))>>
      content == text \o Each(message.calls, Use)
  IN IF IsGuide(message) THEN <<>>
     ELSE IF message.role = "tool"
     THEN <<Spoken("user", <<ToolResult(message.of, text)>>)>>
     ELSE Unless(content = <<>>, <<Spoken(message.role, content)>>)

ChatToAnthropic(body) ==
  [system |-> Instructions(body.thread), thread |-> Each(body.thread, LowerToSpoken)]

-----------------------------------------------------------------------------
(* Answers: Chat's message and its finish_reason, Responses' output items  *)
(* and their status, Anthropic's content and its stop_reason.              *)

Finish(incomplete, calls) ==
  IF incomplete THEN "length" ELSE IF calls # <<>> THEN "tool_calls" ELSE "stop"

Completion(content, thought, calls, finish) ==
  [message |-> Message("assistant", content, thought, calls, None), finish |-> finish]

\* response_to_chat.
ResponseToChat(response) ==
  LET Say(item) == Unless(item.type # "message", TextOf(item.content))
      Think(item) == Unless(item.type # "reasoning", item.content)
      Use(item) == Unless(item.type # "function_call", <<item.call>>)
      calls == Each(response.output, Use)
  IN Completion(Each(response.output, Say), Each(response.output, Think), calls,
                Finish(response.status = "incomplete", calls))

\* message_to_chat.
MessageToChat(message) ==
  Completion(TextOf(message.content), OfType(message.content, "thought"),
             UsesOf(message.content),
             CASE message.stop = "tool_use" -> "tool_calls"
               [] message.stop = "max_tokens" -> "length"
               [] OTHER -> "stop")

\* chat_to_response.
ChatToResponse(completion) ==
  LET message == completion.message
      Item(call) == <<CallItem(call)>>
  IN [ output |-> Unless(message.thought = <<>>, <<ReasoningItem(message.thought)>>)
                    \o Unless(message.content = <<>>,
                              <<MessageItem("assistant", message.content)>>)
                    \o Each(message.calls, Item),
       status |-> IF completion.finish = "length" THEN "incomplete" ELSE "completed" ]

\* chat_to_message; a client of Anthropic's is shown no thoughts.
ChatToMessage(completion) ==
  LET message == completion.message
      Use(call) == <<ToolUse(call.id, AsInput(call.arguments))>>
  IN [ content |-> message.content \o Each(message.calls, Use),
       stop |-> CASE completion.finish = "tool_calls" -> "tool_use"
                  [] completion.finish = "length" -> "max_tokens"
                  [] OTHER -> "end_turn" ]

=============================================================================
