----------------------------- MODULE Conversation ---------------------------
(***************************************************************************)
(* A request's body goes to the provider in the provider's protocol and    *)
(* its answer back in the client's (prepare_for_provider and               *)
(* translate_nonstream, app.rs); and what such a body says, whatever its   *)
(* protocol: who said what in which order, for the properties to compare.  *)
(***************************************************************************)
EXTENDS RequestOptions

CONSTANTS Chat, Responses, Anthropic  \* the protocols

Body(system, thread, options) ==
  [system |-> system, thread |-> thread, options |-> options]
WithOptions(said, options) == Body(said.system, said.thread, options)

AsChat(ingress, body) ==
  CASE ingress = Chat -> body
    [] ingress = Responses ->
         WithOptions(ResponsesToChat(body), OptionsFromResponses(body.options))
    [] ingress = Anthropic ->
         WithOptions(AnthropicToChat(body), OptionsFromAnthropic(body.options))

Prepare(egress, ingress, body) ==
  IF egress = ingress THEN body
  ELSE LET chat == AsChat(ingress, body)
       IN CASE egress = Chat -> chat
            [] egress = Responses ->
                 WithOptions(ChatToResponses(chat), OptionsToResponses(chat.options))
            [] egress = Anthropic ->
                 WithOptions(ChatToAnthropic(chat), OptionsToAnthropic(chat.options))

TranslateAnswer(ingress, egress, raw) ==
  IF ingress = egress THEN raw
  ELSE LET chat == CASE egress = Chat -> raw
                     [] egress = Responses -> ResponseToChat(raw)
                     [] egress = Anthropic -> MessageToChat(raw)
       IN CASE ingress = Chat -> chat
            [] ingress = Responses -> ChatToResponse(chat)
            [] ingress = Anthropic -> ChatToMessage(chat)

-----------------------------------------------------------------------------
(* What a body says: events of the guide (system and developer), the       *)
(* client and the model, in order.                                         *)

Event(side, part) == [side |-> side, part |-> part]
Called(id, value) == [type |-> "call", id |-> id, value |-> value]
Resulted(id, content) == [type |-> "result", id |-> id, content |-> content]
Events(side, parts) == [k \in DOMAIN parts |-> Event(side, parts[k])]
SideOf(role) == IF role = "assistant" THEN "model" ELSE "client"

CallsMade(calls) ==
  [k \in DOMAIN calls |-> Called(calls[k].id, calls[k].arguments.value)]

ChatEvents(message) ==
  CASE IsGuide(message) -> Events("guide", message.content)
    [] message.role = "tool" ->
         Events("client", <<Resulted(message.of, message.content)>>)
    [] OTHER ->
         Events(SideOf(message.role),
                message.thought \o message.content \o CallsMade(message.calls))

ItemEvents(item) ==
  CASE item.type = "message" ->
         Events(IF IsGuide(item) THEN "guide" ELSE SideOf(item.role), item.content)
    [] item.type = "reasoning" -> Events("model", item.content)
    [] item.type = "function_call" -> Events("model", CallsMade(<<item.call>>))
    [] item.type = "function_call_output" ->
         Events("client", <<Resulted(item.of, item.output)>>)
    [] OTHER -> Events("model", <<Other>>)

BlockPart(block) ==
  CASE block.type = "tool_use" -> Called(block.id, block.input.value)
    [] block.type = "tool_result" -> Resulted(block.of, block.content)
    [] OTHER -> block
SpokenEvents(message) ==
  Events(SideOf(message.role),
         [k \in DOMAIN message.content |-> BlockPart(message.content[k])])

Says(protocol, body) ==
  Events("guide", body.system) \o
  CASE protocol = Chat -> Each(body.thread, ChatEvents)
    [] protocol = Responses -> Each(body.thread, ItemEvents)
    [] protocol = Anthropic -> Each(body.thread, SpokenEvents)

-----------------------------------------------------------------------------
(* The events as turns: what one side says until the other does.  A turn   *)
(* opens with a thought if a thought is what its first words or calls      *)
(* follow.                                                                 *)

Turn(side, opens) ==
  [side |-> side, opens |-> opens, words |-> <<>>, calls |-> <<>>, results |-> <<>>]

Grown(turn, part) ==
  CASE part.type = "call" -> [turn EXCEPT !.calls = Append(@, part)]
    [] part.type = "result" -> [turn EXCEPT !.results = Append(@, part)]
    [] OTHER -> [turn EXCEPT !.words = Append(@, part)]

Hear(heard, event) ==
  LET part == event.part
      turns == heard.turns
      goesOn == turns # <<>> /\ Last(turns).side = event.side
      opened == Turn(event.side, heard.thinking /\ event.side = "model")
  IN CASE part.type \in {"thought", "other"} ->
            [heard EXCEPT !.thinking = part.type = "thought"]
       [] event.side = "guide" ->
            [heard EXCEPT !.notes = Append(@, part), !.thinking = FALSE]
       [] goesOn ->
            [heard EXCEPT !.turns[Len(turns)] = Grown(@, part), !.thinking = FALSE]
       [] OTHER ->
            [heard EXCEPT !.turns = Append(@, Grown(opened, part)), !.thinking = FALSE]

Heard(events) ==
  FoldLeft(Hear, [turns |-> <<>>, notes |-> <<>>, thinking |-> FALSE], events)

\* The same but for the thoughts.
Same(one, other) ==
  /\ one.notes = other.notes
  /\ Len(one.turns) = Len(other.turns)
  /\ \A k \in DOMAIN one.turns :
        [one.turns[k] EXCEPT !.opens = FALSE] = [other.turns[k] EXCEPT !.opens = FALSE]

\* Only Chat's messages hold images next to text; a tool's result is text in
\* every translation.
Carried(ingress, egress, events) ==
  LET Bare(event) ==
        IF event.part.type = "result"
        THEN Event(event.side, Resulted(event.part.id, TextOf(event.part.content)))
        ELSE event
      bare == [k \in DOMAIN events |-> Bare(events[k])]
  IN IF ingress = egress THEN events
     ELSE IF egress = Chat THEN bare
     ELSE SelectSeq(bare, LAMBDA event : event.part.type # "image")

\* The results of a message's calls are the next messages.
ResultsFollowCalls(thread) ==
  \A k \in DOMAIN thread :
     \A c \in DOMAIN thread[k].calls :
        \E r \in 1 .. Len(thread[k].calls) :
           /\ k + r \in DOMAIN thread
           /\ thread[k + r].of = thread[k].calls[c].id

-----------------------------------------------------------------------------
(* What the options ask for, whatever their protocol.                      *)

Asked(protocol, o) ==
  [ effort |-> IF o.thinking = "disabled" THEN "none" ELSE o.effort,
    format |-> IF o.format = "text" THEN None ELSE o.format,
    choice |-> CASE o.choice.type = None -> "auto"
                 [] o.choice.type \in DOMAIN ChatChoice -> ChatChoice[o.choice.type]
                 [] OTHER -> o.choice.type,
    named |-> o.choice.name,
    single |-> o.choice.single \/ o.parallel = FALSE,
    limit |-> o.limit,
    tools |-> Each(o.tools, LAMBDA tool : Unless(tool.type \notin {"function", "custom"},
                                                 <<tool.name>>)) ]

\* What of it the provider's protocol can express.
Expressible(egress, asked) ==
  IF egress # Anthropic THEN asked
  ELSE [asked EXCEPT !.effort = Known(@, Levels),
                     !.format = Known(@, {"json_schema"}),
                     !.limit = IF @ = None THEN DefaultMaxTokens ELSE @]

AskedAsMeant(ingress, egress, options, prepared) ==
  Asked(egress, prepared) =
    IF ingress = egress THEN Asked(ingress, options)
    ELSE Expressible(egress, Asked(ingress, options))

=============================================================================
