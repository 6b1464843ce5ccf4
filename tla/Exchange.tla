------------------------------ MODULE Exchange ------------------------------
(***************************************************************************)
(* From a configuration document to a conversation: the process starts     *)
(* with the document (AppState::new), a client asks, the candidates are    *)
(* put in order (route_candidates), one after the other is sent the        *)
(* conversation in its own protocol until one answers, and the client is   *)
(* handed the answer in its own (handle_nonstream, app.rs).                *)
(*                                                                         *)
(* Composes Configuration, Calendar, Pricing and RouteOrder with the       *)
(* translation of Conversation.  Why a candidate fails, retries, permits   *)
(* and leases are Gateway's; what the affinity index holds of a prompt is  *)
(* Affinity's: here a target is warm with the prompt it answered last.     *)
(*                                                                         *)
(* A scenario is a document and what is tried with it: the moments at      *)
(* which things happen, the protocols of the client, what the client says  *)
(* and how providers answer, and how often the client asks.                *)
(*                                                                         *)
(* A definition whose name starts with M_ is a mutant of the one after it. *)
(***************************************************************************)
EXTENDS RouteOrder

INSTANCE Conversation

CONSTANTS
  Scenarios,  \* the scenarios to try
  Asking      \* the public name the client asks for

ASSUME ScenariosAssumption ==
  \A s \in Scenarios : Typed(s.document) /\ s.moments \subseteq Int

VARIABLES
  scenario,   \* the scenario that is tried
  phase,      \* "down", "serving", "rejected" or "crashed"
  now,        \* the clock
  client,     \* the client's protocol, None before there is a client
  body,       \* the body of the client's latest request
  said,       \* what was said in the conversation, event by event
  asks,       \* how often the client asked
  warm,       \* [target -> the prompt it answered last, <<>> if forgotten]
  request,    \* the request in flight, or None
  bill,       \* what the last attempt that was answered costs, or None
  ended       \* how the last answer ended, and how the client was told

vars == <<scenario, phase, now, client, body, said, asks, warm, request, bill, ended>>

Document == scenario.document
Model == ResolveModel(Document, Asking, client)

Targets == UNION {Members(layer.targets) :
                    layer \in UNION {Members(m.layers) : m \in Members(Document.models)}}
BackendOf(target) == ById(Document.backends, target.backend)
ModelOf(target) == ByName(BackendOf(target).models, target.model)
Egress(target) ==
  ProtocolFor(NativeProtocols(BackendOf(target).adapter, ModelOf(target)), client)

-----------------------------------------------------------------------------
(* The process.                                                            *)

Init ==
  /\ scenario \in Scenarios
  /\ phase = "down"
  /\ now \in scenario.moments
  /\ client = None
  /\ body = None
  /\ said = <<>>
  /\ asks = 0
  /\ warm = <<>>
  /\ request = None
  /\ bill = None
  /\ ended = None

\* Config::validate, then AppState::new.
Start ==
  /\ phase = "down"
  /\ phase' = IF ~Valid(Document) THEN "rejected"
              ELSE IF Builds(Document) THEN "serving"
              ELSE "crashed"
  /\ warm' = IF phase' = "serving" THEN [t \in Targets |-> <<>>] ELSE <<>>
  /\ UNCHANGED <<scenario, now, client, body, said, asks, request, bill, ended>>

Pass(moment) ==
  /\ phase = "serving"
  /\ now' = moment
  /\ UNCHANGED <<scenario, phase, client, body, said, asks, warm, request, bill, ended>>

\* A lease runs out.
Forget(target) ==
  /\ phase = "serving"
  /\ request = None
  /\ warm[target] # <<>>
  /\ warm' = [warm EXCEPT ![target] = <<>>]
  /\ UNCHANGED <<scenario, phase, now, client, body, said, asks, request, bill, ended>>

-----------------------------------------------------------------------------
(* The client.                                                             *)

Connect(protocol, options) ==
  /\ phase = "serving"
  /\ client = None
  /\ ResolveModel(Document, Asking, protocol) # None
  /\ client' = protocol
  /\ body' = Body(<<>>, <<>>, options)
  /\ UNCHANGED <<scenario, phase, now, said, asks, warm, request, bill, ended>>

\* The calls of the last answer, which the client answers first.
OpenCalls ==
  LET turns == Heard(Says(client, body)).turns
  IN IF turns = <<>> THEN <<>> ELSE Last(turns).calls

\* The values of what the client says in one request.
Words(say, n) ==
  Unless(~say.words, <<Text(10 * n)>>)
    \o Unless(say.picture # "words", <<Image(10 * n + 1)>>)
ResultWords(say, n) ==
  <<Text(10 * n + 2)>> \o Unless(say.picture # "result", <<Image(10 * n + 3)>>)
Note(say, n) == Unless(~say.note, <<Text(10 * n + 4)>>)

\* What the client adds to the body in its protocol.
AddToChat(old, note, calls, result, words) ==
  LET Answer(call) == <<ToolMessage(call.id, result)>>
  IN [old EXCEPT !.thread = @
        \o Each(calls, Answer)
        \o Unless(note = <<>>, <<Message("developer", note, <<>>, <<>>, None)>>)
        \o Unless(words = <<>>, <<Message("user", words, <<>>, <<>>, None)>>)]

AddToResponses(old, note, calls, result, words) ==
  LET Answer(call) == <<OutputItem(call.id, result)>>
      first == old.thread = <<>>
  IN [old EXCEPT
        !.system = IF first THEN note ELSE @,
        !.thread = @
          \o Each(calls, Answer)
          \o Unless(first \/ note = <<>>, <<MessageItem("developer", note)>>)
          \o Unless(words = <<>>, <<MessageItem("user", words)>>)]

AddToAnthropic(old, note, calls, result, words, wordsFirst) ==
  LET Answer(call) == <<ToolResult(call.id, result)>>
      answers == Each(calls, Answer)
  IN [old EXCEPT
        !.system = IF old.thread = <<>> THEN note ELSE @,
        !.thread = Append(@, Spoken("user", IF wordsFirst THEN words \o answers
                                            ELSE answers \o words))]

\* The layers in their order, and the candidates of one choice of orders.
LayerOrder ==
  LET active == ActiveSchedule(Model.schedules, Instant(Model.zone, now))
  IN Selection(Names(Model.layers), Model.schedules, active)

\* canonical_prompt_bytes: the fields by name, the thread's before the others.
M_FieldsInListOrder(prompt) == <<[system |-> prompt.system]>> \o prompt.thread
Canonical(prompt) ==
  prompt.thread \o <<[system |-> prompt.system, options |-> prompt.options]>>

PromptFor(target, asked) ==
  Canonical(Prepare(Egress(target), client, asked))

MatchedIn(layer, asked) ==
  [k \in DOMAIN layer.targets |->
     Matched(Document.affinity, PromptFor(layer.targets[k], asked), warm[layer.targets[k]])]

\* route_candidates: layer by layer, in any order a layer's may come in.
Candidates(asked) ==
  LET order == LayerOrder
      Lists(rank) == LET layer == Model.layers[order[rank]]
                     IN {InLayer(layer, o) :
                           o \in LayerOrders(layer, MatchedIn(layer, asked))}
  IN {lists \in [DOMAIN order -> UNION {Lists(rank) : rank \in DOMAIN order}] :
        \A rank \in DOMAIN order : lists[rank] \in Lists(rank)}

\* The client answers the calls of the last answer and goes on, and the
\* request is routed.
Ask(say) ==
  LET n == asks + 1
      calls == OpenCalls
      note == Note(say, n)
      words == Words(say, n)
      result == ResultWords(say, n)
      asked == CASE client = Chat -> AddToChat(body, note, calls, result, words)
                 [] client = Responses -> AddToResponses(body, note, calls, result, words)
                 [] client = Anthropic ->
                      AddToAnthropic(body, note, calls, result, words, say.wordsFirst)
  IN /\ client # None
     /\ request = None
     /\ asks < scenario.asks
     /\ words # <<>> \/ calls # <<>>
     /\ note # <<>> /\ client = Anthropic => body.thread = <<>>
     /\ say.wordsFirst => client = Anthropic
     /\ asks' = n
     /\ body' = asked
     /\ said' = said
          \o Events("client", [k \in DOMAIN calls |-> Resulted(calls[k].id, result)])
          \o Events("guide", note)
          \o Events("client", words)
     /\ \E candidates \in Candidates(asked) :
           request' = [ at |-> now, order |-> LayerOrder, candidates |-> candidates,
                        rank |-> 1, place |-> 1, started |-> None, prompt |-> None ]
     /\ UNCHANGED <<scenario, phase, now, client, warm, bill, ended>>

-----------------------------------------------------------------------------
(* The attempts.                                                           *)

Current == request.candidates[request.rank][request.place]
CurrentLayer == Model.layers[request.order[request.rank]]

Attempt ==
  /\ request # None
  /\ request.started = None
  /\ request' = [request EXCEPT !.started = now,
                                !.prompt = Prepare(Egress(Current), client, body)]
  /\ UNCHANGED <<scenario, phase, now, client, body, said, asks, warm, bill, ended>>

\* The next candidate, or the client is turned away and may ask again; here
\* it leaves.
Fail ==
  /\ request # None
  /\ request.started # None
  /\ \/ /\ request.place < Len(request.candidates[request.rank])
        /\ request' = [request EXCEPT !.place = @ + 1, !.started = None, !.prompt = None]
     \/ /\ request.place = Len(request.candidates[request.rank])
        /\ request.rank < Len(request.candidates)
        /\ request' = [request EXCEPT !.rank = @ + 1, !.place = 1,
                                      !.started = None, !.prompt = None]
  /\ UNCHANGED <<scenario, phase, now, client, body, said, asks, warm, bill, ended>>

\* The parts of an answer that thinks, talks and calls in this order.
AnswerParts(answer, n) ==
  [k \in DOMAIN answer.parts |->
     LET v == 10 * n + 4 + k
     IN CASE answer.parts[k] = "thought" -> Thought(v)
          [] answer.parts[k] = "text" -> Text(v)
          [] answer.parts[k] = "call" -> Called(v, v)
          [] OTHER -> Other]

\* The provider's answer in its protocol; the model of a Chat or Responses
\* provider may write a call's arguments that are no JSON.
RawAnswer(protocol, answer, parts) ==
  LET ArgumentsOf(v) == [kind |-> answer.arguments, value |-> v]
      Call(part) == FunctionCall(part.id, ArgumentsOf(part.value))
      calls == Each(parts, LAMBDA p : Unless(p.type # "call", <<Call(p)>>))
      Item(p) == CASE p.type = "thought" -> <<ReasoningItem(<<p>>)>>
                   [] p.type = "text" -> <<MessageItem("assistant", <<p>>)>>
                   [] p.type = "call" -> <<CallItem(Call(p))>>
                   [] OTHER -> <<p>>
      Block(p) == IF p.type = "call" THEN ToolUse(p.id, [kind |-> "object", value |-> p.value])
                  ELSE p
  IN CASE protocol = Chat ->
            Completion(TextOf(parts), OfType(parts, "thought"), calls, Finish(answer.cut, calls))
       [] protocol = Responses ->
            [ output |-> Each(parts, Item),
              status |-> IF answer.cut THEN "incomplete" ELSE "completed" ]
       [] protocol = Anthropic ->
            [ content |-> [k \in DOMAIN parts |-> Block(parts[k])],
              stop |-> CASE Finish(answer.cut, calls) = "length" -> "max_tokens"
                         [] Finish(answer.cut, calls) = "tool_calls" -> "tool_use"
                         [] OTHER -> "end_turn" ]

\* What the client keeps of the answer, and whether it was cut.
Keep(answered) ==
  CASE client = Chat -> Append(body.thread, answered.message)
    [] client = Responses -> body.thread \o answered.output
    [] client = Anthropic ->
         body.thread \o Unless(answered.content = <<>>,
                               <<Spoken("assistant", answered.content)>>)
ShownCut(answered) ==
  CASE client = Chat -> answered.finish = "length"
    [] client = Responses -> answered.status = "incomplete"
    [] client = Anthropic -> answered.stop = "max_tokens"

\* The attempt is billed at the rates of the moment it started.
Billed(target) == PriceAt(ModelOf(target), request.started)

Answer(answer) ==
  LET egress == Egress(Current)
      parts == AnswerParts(answer, asks)
      answered == TranslateAnswer(client, egress, RawAnswer(egress, answer, parts))
  IN /\ request # None
     /\ request.started # None
     /\ egress \in answer.by
     /\ body' = [body EXCEPT !.thread = Keep(answered)]
     /\ said' = said \o Events("model", parts)
     /\ warm' = IF ByAffinity(CurrentLayer)
                THEN [warm EXCEPT ![Current] = Canonical(request.prompt)]
                ELSE warm
     /\ bill' = [target |-> Current, started |-> request.started, price |-> Billed(Current)]
     /\ ended' = [cut |-> answer.cut, shown |-> ShownCut(answered)]
     /\ request' = None
     /\ UNCHANGED <<scenario, phase, now, client, asks>>

Next ==
  \/ Start
  \/ \E moment \in scenario.moments : Pass(moment)
  \/ \E target \in DOMAIN warm : Forget(target)
  \/ \E protocol \in scenario.clients : \E options \in scenario.options[protocol] :
        Connect(protocol, options)
  \/ \E say \in scenario.says : Ask(say)
  \/ Attempt
  \/ Fail
  \/ \E answer \in scenario.answers : Answer(answer)

Spec == Init /\ [][Next]_vars

-----------------------------------------------------------------------------
(* Properties.                                                             *)

\* A document that passes Config::validate can be built into a runtime: no
\* lookup, no client and no calendar of AppState::new fails on it.
StartsWhatItAccepts == phase # "crashed"

\* The layers are tried in the order of the schedule that is meant to hold
\* when the request is routed, and an answered attempt costs what the price
\* windows mean it to cost when it started: however a window crosses
\* midnight or the end of the week, and however late the answer comes.
ServesTheScheduleMeant ==
  /\ request # None =>
       LET meant == MeantSchedules(Model.schedules, Instant(Model.zone, request.at))
       IN /\ \A i \in meant :
                request.order = Selection(Names(Model.layers), Model.schedules, i)
          /\ meant = {} => request.order = [k \in DOMAIN Model.layers |-> k]
  /\ bill # None => bill.price = PriceMeant(ModelOf(bill.target), bill.started)

\* How much of the thread the target answered last lies before a checkpoint
\* that a longer prompt has too: whole intervals of it, up to their limit.
Remembered(target) ==
  LET interval == Document.affinity.checkpoint_bytes
      most == interval * Document.affinity.max_checkpoints_per_path
      thread == Len(warm[target]) - 1
  IN IF thread < most THEN thread - (thread % interval) ELSE most

\* A conversation stays with the target that is warm with it.  The thread the
\* target answered last comes again at the front of what it would be sent now,
\* in whatever protocol, and matches up to the last of its checkpoints that is
\* not its own end; and if that is any of it, the target is tried before every
\* one of its layer that is cold.  A thread shorter than the interval has no
\* such checkpoint, and its target is tried in any order with the cold ones.
KeepsToTheWarmTarget ==
  request # None /\ request.started = None =>
    \A rank \in DOMAIN request.candidates :
       LET list == request.candidates[rank]
       IN ByAffinity(Model.layers[request.order[rank]]) =>
            \A j, k \in DOMAIN list :
               warm[list[j]] # <<>> /\ Remembered(list[j]) > 0 =>
                 /\ Matched(Document.affinity, PromptFor(list[j], body), warm[list[j]])
                      >= Remembered(list[j])
                 /\ warm[list[k]] = <<>> => j <= k

\* Whatever protocols it passed through, the provider is told what was said:
\* every word, call and result, by whom and in which order, and what the
\* options ask for, but for what its protocol cannot hold; a Chat provider
\* finds the results right after the calls.  So does the client's history,
\* and an answer that was cut is shown as cut.
HeardAsSaid ==
  /\ client # None => Same(Heard(Says(client, body)), Heard(said))
  /\ request # None /\ request.started # None =>
       LET egress == Egress(Current)
       IN /\ Same(Heard(Says(egress, request.prompt)),
                  Heard(Carried(client, egress, said)))
          /\ egress = Chat => ResultsFollowCalls(request.prompt.thread)
          /\ AskedAsMeant(client, egress, body.options, request.prompt.options)
  /\ ended # None => ended.shown = ended.cut

\* A Chat provider that wants its thoughts back with its calls gets them: if
\* in the client's history a turn that calls opens with a thought, so does
\* the turn the provider is sent.
ThoughtsReturn ==
  request # None /\ request.started # None =>
    LET kept == Heard(Says(client, body)).turns
        sent == Heard(Says(Egress(Current), request.prompt)).turns
    IN Egress(Current) = Chat =>
         \A k \in DOMAIN kept :
            kept[k].calls # <<>> /\ kept[k].opens => sent[k].opens

=============================================================================
