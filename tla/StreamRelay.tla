---------------------------- MODULE StreamRelay -----------------------------
(***************************************************************************)
(* The relay of one stream (app.rs, prepare_stream_attempt and the body of *)
(* handle_stream), from what a provider sends in its protocol to what a    *)
(* client receives in its own.                                             *)
(*                                                                         *)
(* The provider is an environment: it may send anything its protocol       *)
(* allows, fail at any point, or stop.  received and relayed are kept      *)
(* whole, so that the properties can compare what was said with what was   *)
(* told.  Keep-alive comments carry nothing and are left out, and so are   *)
(* the metadata, the reasoning estimate and the records but for the usage  *)
(* and the error class they are given.                                     *)
(*                                                                         *)
(* A definition whose name starts with M_ is a mutant of the one after it. *)
(***************************************************************************)
EXTENDS StreamTranslation

CONSTANTS
  Pairs,      \* the <<ingress, egress>> protocols to relay between
  MaxEvents,  \* bound on what a provider says in its protocol before the end
  MaxCalls    \* bound on its tool calls

Protocols == {"chat", "responses", "anthropic"}

ASSUME PairsAssumption ==
  /\ Pairs \subseteq Protocols \X Protocols
  /\ MaxEvents \in [Protocols -> Nat] /\ MaxCalls \in Nat

\* What is said is not absent.
ASSUME NoneAssumption ==
  /\ None \notin Nat \X {"thought", "text", "args", "piece"}
  /\ None \notin {"call"} \X Nat

VARIABLES
  ingress,   \* the client's protocol
  egress,    \* the provider's
  nulls,     \* whether a Chat provider writes "usage": null
  speech,    \* where the provider is in its answer
  received,  \* the events the relay has taken from the decoder
  source,    \* responses_source or anthropic_source
  sink,      \* response_translator or anthropic_translator
  relayed,   \* what the client has been sent
  usage,     \* the usage to be recorded
  verdict    \* stream_error, and before the commit the attempt's failure

provider == <<ingress, egress, nulls, speech>>
relay == <<received, source, sink, relayed, usage, verdict>>
vars == <<provider, relay>>

translated == ingress # egress

Verdicts == {"streaming", "completed", "broken", "refused"}

NewSink ==
  CASE ingress = "responses" -> NewResponses
    [] ingress = "anthropic" -> NewAnthropic
    [] ingress = "chat" -> [out |-> <<>>]

Init ==
  /\ \E pair \in Pairs : ingress = pair[1] /\ egress = pair[2]
  /\ nulls \in IF egress = "chat" THEN BOOLEAN ELSE {FALSE}
  /\ speech = [begun |-> FALSE, open |-> None, parts |-> 0, calls |-> 0, ended |-> FALSE]
  /\ received = <<>> /\ relayed = <<>>
  /\ source = NewSource
  /\ sink = NewSink
  /\ usage = NoUsage
  /\ verdict = "streaming"

-----------------------------------------------------------------------------
(* One turn of the loop.                                                   *)

IsStreamError(event) == event.type \in {"error", "response.failed"}

\* The event after which the provider has nothing more to say.
UpstreamTerminal(event) ==
  CASE egress = "chat" -> FALSE
    [] egress = "responses" -> event.type \in {"response.completed", "response.incomplete"}
    [] egress = "anthropic" -> event.type = "message_stop"

HearProvider(event) ==
  CASE egress = "chat" -> Heard(source, <<event>>)
    [] egress = "responses" -> ResponsesToChat(source, event)
    [] egress = "anthropic" -> AnthropicToChat(source, event)

TellClient(s, chunk) ==
  CASE ingress = "responses" -> ChatToResponses(s, chunk)
    [] ingress = "anthropic" -> ChatToAnthropic(s, chunk)
    [] ingress = "chat" -> Send(s, <<chunk>>)

\* The events that close the client's stream, after [DONE] and after the
\* terminal event of another protocol.
TailAfterDone(s) ==
  CASE ingress = "responses" -> FinishResponses(s)
    [] ingress = "anthropic" -> FinishAnthropic(s)
    [] ingress = "chat" -> s
M_TailAfterTerminal(s) == TailAfterDone(s)
TailAfterTerminal(s) ==
  IF ingress = "chat" THEN Send(s, <<Done>>) ELSE TailAfterDone(s)

\* The sink's frames go out; it keeps the rest of its state.
Yield(s) ==
  /\ relayed' = relayed \o s.out
  /\ sink' = [s EXCEPT !.out = <<>>]

\* observe_stream_usage.  The final event of a Responses stream carries its
\* usage inside "response", where from_responses does not look.
ObserveStreamUsage(event) ==
  CASE ingress = "chat" ->
         IF "usage" \notin DOMAIN event \/ event.usage = None THEN usage
         ELSE Reported(IF event.usage = Null THEN Tokens(0, 0) ELSE event.usage)
    [] ingress = "responses" -> usage
    [] ingress = "anthropic" -> ObserveAnthropic(event, usage)

Relay(event) ==
  LET heard == HearProvider(event)
      told == FoldLeft(TellClient, sink, heard.chunks)
  IN /\ source' = heard.source
     /\ usage' = FoldLeft(LAMBDA u, chunk : UsageOf(chunk, u), usage, heard.chunks)
     /\ Yield(IF UpstreamTerminal(event) THEN TailAfterTerminal(told) ELSE told)
     /\ verdict' = IF UpstreamTerminal(event) THEN "completed" ELSE verdict

Forward(event) ==
  /\ relayed' = Append(relayed, event)
  /\ usage' = ObserveStreamUsage(event)
  /\ verdict' = IF IsStreamError(event) THEN "broken"
                ELSE IF UpstreamTerminal(event) THEN "completed" ELSE verdict
  /\ UNCHANGED <<source, sink>>

\* [DONE]: a native Responses or Anthropic client is not told of it.
CloseAfterDone ==
  /\ IF translated THEN Yield(TailAfterDone(sink))
     ELSE /\ relayed' = IF ingress = "chat" THEN Append(relayed, Done) ELSE relayed
          /\ UNCHANGED sink
  /\ verdict' = "completed"
  /\ UNCHANGED <<source, usage>>

Handle(event) ==
  /\ verdict = "streaming"
  /\ received' = Append(received, event)
  /\ CASE event.type = "[DONE]" -> CloseAfterDone
       [] IsStreamError(event) /\ translated ->
            /\ verdict' = IF received = <<>> THEN "refused" ELSE "broken"
            /\ UNCHANGED <<source, sink, relayed, usage>>
       [] IsStreamError(event) /\ ~translated /\ received = <<>> ->
            /\ verdict' = "refused"
            /\ UNCHANGED <<source, sink, relayed, usage>>
       [] OTHER -> IF translated THEN Relay(event) ELSE Forward(event)

\* The decoder fails, the upstream ends early or sends what is not JSON.
Cut ==
  /\ verdict = "streaming"
  /\ verdict' = IF received = <<>> THEN "refused" ELSE "broken"
  /\ UNCHANGED <<provider, received, source, sink, relayed, usage>>

-----------------------------------------------------------------------------
(* The provider.  A piece is named after the event and the field it is in. *)

Piece(field) == <<Len(received) + 1, field>>
Name(call) == <<"call", call>>
MayGoOn == ~speech.ended /\ Len(received) < MaxEvents[egress]

Say(event, next) ==
  /\ Handle(event)
  /\ speech' = next
  /\ UNCHANGED <<ingress, egress, nulls>>

\* A delta may hold a thought, text and parts of calls at once; the first
\* part of a call names it and may already hold some of its arguments.
NewParts(n) ==
  { [k \in 1..n |-> CallPart(speech.calls + k - 1, Name(speech.calls + k - 1), args)] :
      args \in {None, Piece("args")} }
OldParts == { <<CallPart(i, None, Piece("args"))>> : i \in 0..(speech.calls - 1) }

SayChat ==
  /\ egress = "chat" /\ MayGoOn
  /\ \E thought \in {None, Piece("thought")}, text \in {None, Piece("text")},
        new \in 0..(MaxCalls - speech.calls) :
     \E calls \in IF new = 0 THEN {<<>>} \cup OldParts ELSE NewParts(new) :
       Say([Blank EXCEPT !.thought = thought, !.text = text, !.calls = calls,
                         !.usage = IF nulls THEN Null ELSE None],
           [speech EXCEPT !.calls = @ + new])

FinishChat ==
  /\ egress = "chat" /\ ~speech.ended /\ received # <<>>
  /\ \E finish \in {"stop", "length"}, tokens \in {None, Tokens(1, 1)} :
       Say([Blank EXCEPT !.finish = IF finish = "stop" /\ speech.calls > 0
                                    THEN "tool_calls" ELSE finish,
                         !.usage = IF tokens = None /\ nulls THEN Null ELSE tokens],
           [speech EXCEPT !.ended = TRUE])

CountChat ==
  /\ egress = "chat" /\ verdict = "streaming"
  /\ speech.ended /\ Last(received).finish # None
  /\ Say([Blank EXCEPT !.usage = Tokens(1, 2)], speech)

\* After an answer, or instead of one.
EndChat ==
  /\ egress = "chat" /\ (speech.ended \/ received = <<>>)
  /\ Say(Done, speech)

\* Items of a Responses stream come one after the other.
OpenItem ==
  /\ egress = "responses" /\ speech.begun /\ MayGoOn /\ speech.open = None
  /\ \E kind \in {"reasoning", "message", "function_call"} :
       /\ kind = "function_call" => speech.calls < MaxCalls
       /\ LET item == Item(kind, speech.parts) IN
          Say(ItemAdded(item, speech.parts,
                        IF kind = "function_call" THEN Name(speech.calls) ELSE None),
              [speech EXCEPT !.open = item, !.parts = @ + 1,
                             !.calls = IF kind = "function_call" THEN @ + 1 ELSE @])

\* The pieces of an item that ends are repeated in its last event.
PiecesOf(item) ==
  Each(received, LAMBDA e :
    IF e.type = "item.delta" /\ e.item = item THEN <<e.piece>> ELSE <<>>)

SayItem ==
  /\ egress = "responses" /\ MayGoOn /\ speech.open # None
  /\ \/ Say(ItemDelta(speech.open, speech.parts - 1, Piece("piece")), speech)
     \/ Say(ItemDone(speech.open, speech.parts - 1, PiecesOf(speech.open)),
            [speech EXCEPT !.open = None])

StartResponse ==
  /\ egress = "responses" /\ ~speech.begun
  /\ Say(Created, [speech EXCEPT !.begun = TRUE])

EndResponse ==
  /\ egress = "responses" /\ speech.begun
  /\ \/ /\ speech.open = None
        /\ \E type \in {"response.completed", "response.incomplete"} :
             Say(Ended(type, Tokens(1, 2)), [speech EXCEPT !.ended = TRUE])
     \/ Say(Ended("response.failed", None), [speech EXCEPT !.ended = TRUE])

\* And so do the blocks of an Anthropic message.
StartMessage ==
  /\ egress = "anthropic" /\ ~speech.begun
  /\ Say(MessageStart(Tokens(1, 1)), [speech EXCEPT !.begun = TRUE])

OpenBlock ==
  /\ egress = "anthropic" /\ speech.begun /\ MayGoOn /\ speech.open = None
  /\ \E kind \in {"thinking", "text", "tool_use"} :
       /\ kind = "tool_use" => speech.calls < MaxCalls
       /\ Say(BlockStart(speech.parts, kind,
                         IF kind = "tool_use" THEN Name(speech.calls) ELSE None),
              [speech EXCEPT !.open = kind, !.parts = @ + 1,
                             !.calls = IF kind = "tool_use" THEN @ + 1 ELSE @])

SayBlock ==
  /\ egress = "anthropic" /\ MayGoOn /\ speech.open # None
  /\ \/ Say(BlockDelta(speech.parts - 1, speech.open, Piece("piece")), speech)
     \/ Say(BlockStop(speech.parts - 1), [speech EXCEPT !.open = None])

EndMessage ==
  /\ egress = "anthropic" /\ speech.begun /\ speech.open = None
  /\ \/ /\ ~speech.ended
        /\ \E stop \in {"end_turn", "max_tokens"}, input \in {None, 2} :
             Say(MessageDelta(IF stop = "end_turn" /\ speech.calls > 0
                              THEN "tool_use" ELSE stop, Tokens(input, 2)),
                 [speech EXCEPT !.ended = TRUE])
     \/ speech.ended /\ Say(MessageStop, speech)

SayError ==
  /\ verdict = "streaming"
  /\ Say([type |-> "error"], speech)

Next ==
  \/ SayChat \/ FinishChat \/ CountChat \/ EndChat
  \/ StartResponse \/ OpenItem \/ SayItem \/ EndResponse
  \/ StartMessage \/ OpenBlock \/ SayBlock \/ EndMessage
  \/ SayError \/ Cut

Spec == Init /\ [][Next]_vars

-----------------------------------------------------------------------------
(* What a stream says, whatever its protocol: what it opens and closes and *)
(* the pieces in between, each under the key of the item, block or call it *)
(* belongs to.                                                             *)

Said(act, kind, key, what) == [act |-> act, kind |-> kind, key |-> key, what |-> what]

KindOf(kind) ==
  CASE kind \in {"reasoning", "thinking"} -> "thought"
    [] kind \in {"message", "text"} -> "text"
    [] kind \in {"function_call", "tool_use"} -> "call"

Spoken(kind, key, piece) ==
  IF piece = None THEN <<>> ELSE <<Said("piece", kind, key, piece)>>
SpokenPart(part) ==
  (IF part.call = None THEN <<>> ELSE <<Said("open", "call", part.index, part.call)>>)
  \o Spoken("call", part.index, part.args)

SaidBy(event) ==
  CASE event.type = "chunk" ->
         Spoken("thought", None, event.thought) \o Spoken("text", None, event.text)
         \o Each(event.calls, SpokenPart)
    [] event.type = "item.added" ->
         <<Said("open", KindOf(event.item.kind), event.item, event.call)>>
    [] event.type = "item.delta" ->
         <<Said("piece", KindOf(event.item.kind), event.item, event.piece)>>
    [] event.type = "item.done" ->
         <<Said("close", KindOf(event.item.kind), event.item, event.pieces)>>
    [] event.type = "block_start" ->
         <<Said("open", KindOf(event.kind), event.index, event.call)>>
    [] event.type = "block_delta" ->
         <<Said("piece", KindOf(event.kind), event.index, event.piece)>>
    [] event.type = "block_stop" -> <<Said("close", None, event.index, None)>>
    [] OTHER -> <<>>

Transcript(events) == Each(events, SaidBy)

PiecesIn(said, Test(_)) ==
  Each(said, LAMBDA u : IF u.act = "piece" /\ Test(u) THEN <<u.what>> ELSE <<>>)

\* The answer a reader of the stream puts together.
Answer(events) ==
  LET said == Transcript(events)
      calls == Each(said, LAMBDA u :
                 IF u.act = "open" /\ u.kind = "call" THEN <<u>> ELSE <<>>)
      Args(call) == PiecesIn(said, LAMBDA u : u.kind = "call" /\ u.key = call.key)
  IN [ thought |-> PiecesIn(said, LAMBDA u : u.kind = "thought"),
       text |-> PiecesIn(said, LAMBDA u : u.kind = "text"),
       calls |-> [k \in DOMAIN calls |-> <<calls[k].what, Args(calls[k])>>] ]

\* The last usage a stream reports; a report may leave the input out.
Reports(event) == "usage" \in DOMAIN event /\ event.usage \notin {None, Null}
ReportsInput(event) == Reports(event) /\ event.usage.input # None
TellUsage(events) == \E k \in DOMAIN events : Reports(events[k])
LastUsage(events) ==
  Tokens(events[SelectLastInSeq(events, ReportsInput)].usage.input,
         events[SelectLastInSeq(events, Reports)].usage.output)

Terminal(event) ==
  event.type \in {"[DONE]", "response.completed", "response.incomplete", "message_stop"}

-----------------------------------------------------------------------------
(* Type invariant.                                                         *)

\* The relay's variables stay within their types; sink.out is empty between
\* turns, and usage is a count or has a count's two numbers.
TypeOK ==
  /\ <<ingress, egress>> \in Pairs
  /\ nulls \in BOOLEAN /\ (nulls => egress = "chat")
  /\ speech.parts \in Nat /\ speech.calls \in 0..MaxCalls
  /\ sink.out = <<>>
  /\ DOMAIN source.calls \subseteq [kind : {"function_call"}, n : Nat]
  /\ DOMAIN source.blocks \subseteq Nat /\ source.next \in Nat
  /\ usage.input \in Nat /\ usage.output \in Nat /\ usage.reported \in BOOLEAN
  /\ verdict \in Verdicts

-----------------------------------------------------------------------------
(* Properties.                                                             *)

\* At every moment the client has been told what the provider has said: the
\* same text and thoughts, and the same calls with the same arguments, in the
\* same order.  Thoughts alone are kept from an Anthropic client, when its
\* protocol is not the provider's.
AnswerPreserved ==
  LET said == Answer(received) IN
  Answer(relayed) = IF translated /\ ingress = "anthropic"
                    THEN [said EXCEPT !.thought = <<>>] ELSE said

\* A translated stream is well formed for its reader: it starts with its
\* first event, unless the provider had nothing to say; items, blocks and
\* calls are opened once, spoken in only while open, and all closed when it
\* completes, and an item's last event repeats all its pieces.
Unopened(said, i) == \A j \in 1..(i - 1) : said[j].act = "open" => said[j].key # said[i].key
Unclosed(said, i) == \A j \in 1..(i - 1) : said[j].act = "close" => said[j].key # said[i].key
StartsRight ==
  relayed # <<>> /\ received[1] # Done =>
    relayed[1].type = CASE ingress = "chat" -> "chunk"
                        [] ingress = "responses" -> "response.created"
                        [] ingress = "anthropic" -> "message_start"
FramesBalanced ==
  translated =>
    LET said == Transcript(relayed) IN
    /\ StartsRight
    /\ \A i \in DOMAIN said :
         \/ said[i].act = "open" /\ Unopened(said, i)
         \/ said[i].act # "open" /\ ~Unopened(said, i) /\ Unclosed(said, i)
         \/ ingress = "chat" /\ said[i].kind # "call"
    /\ \A i \in DOMAIN said : said[i].act = "close" /\ ingress = "responses" =>
         said[i].what = PiecesIn(said, LAMBDA u : u.key = said[i].key)
    /\ verdict = "completed" /\ ingress # "chat" =>
         \A i \in DOMAIN said : said[i].act = "open" =>
           \E j \in DOMAIN said : said[j].act = "close" /\ said[j].key = said[i].key

\* As long as the provider thinks before it talks and talks before it calls,
\* a Responses client sees every item under one output index and no two
\* items under the same.
Rank(kind) == CASE kind = "thought" -> 1 [] kind = "text" -> 2 [] kind = "call" -> 3
InOrder(said) ==
  \A i, j \in DOMAIN said :
    i < j /\ "close" \notin {said[i].act, said[j].act} =>
      Rank(said[i].kind) <= Rank(said[j].kind)
OrderlyIndices ==
  translated /\ ingress = "responses" /\ InOrder(Transcript(received)) =>
    \A i, j \in DOMAIN relayed :
      "item" \in DOMAIN relayed[i] /\ "item" \in DOMAIN relayed[j] =>
        (relayed[i].item = relayed[j].item) <=> (relayed[i].index = relayed[j].index)

\* A client sees the end of its protocol exactly when the stream completed,
\* once and as its last event, so that an answer cut short never passes for
\* a whole one; and an attempt that fails before its first event shows the
\* client nothing, so that another target may still answer.
EndShown ==
  /\ {k \in DOMAIN relayed : Terminal(relayed[k])} =
       IF verdict = "completed" THEN {Len(relayed)} ELSE {}
  /\ verdict = "refused" => relayed = <<>>

\* When a stream completes, the client has been told the usage the provider
\* reported last and the same usage is recorded (except by a Responses
\* client's native stream, see UsageRecorded).
UsageKept ==
  verdict = "completed" /\ TellUsage(received) =>
    /\ LastUsage(relayed) = LastUsage(received)
    /\ translated \/ ingress # "responses" => usage = Reported(LastUsage(received))

\* README.md:363 says that prices are combined with the usage the upstream
\* reported: whatever the protocols, a completed stream whose provider
\* reported its usage is recorded with it.
UsageRecorded ==
  verdict = "completed" /\ TellUsage(received) =>
    usage = Reported(LastUsage(received))

=============================================================================
