------------------------------ MODULE MCExchange ----------------------------
(***************************************************************************)
(* Scenarios for Exchange: documents with one defect each, documents with  *)
(* calendars at every moment of a week of four-hour days, and              *)
(* conversations over three providers of three protocols.                  *)
(***************************************************************************)
EXTENDS Exchange

MCLabels == <<"default", "window-0", "window-1">>

-----------------------------------------------------------------------------
(* Parts of documents.                                                     *)

FlatRates(n) == [hit |-> 0, miss |-> n, output |-> n]
Upstream(name, protocols) ==
  [name |-> name, protocols |-> protocols, pricing |-> FlatRates(1), prices |-> None]
Key(id) == [id |-> id, key |-> "secret", pool |-> None]
Backend(id, adapter, endpoint, models) ==
  [ id |-> id, adapter |-> adapter, endpoint |-> endpoint,
    credentials |-> <<Key("k")>>, models |-> models ]
Target(backend, model) == [backend |-> backend, credential |-> "k", model |-> model]
Layer(name, strategy, targets) ==
  [name |-> name, strategy |-> strategy, targets |-> targets]

Between(name, days, start, end, order) ==
  [name |-> name, days |-> days, start |-> start, end |-> end, order |-> order]
Priced(name, days, start, end, rates) ==
  [name |-> name, days |-> days, start |-> start, end |-> end, pricing |-> rates]

\* A Chat and a Responses provider that are kept warm, an Anthropic one behind
\* them, and two official ones that are not routed to.
Base ==
  [ version |-> 4,
    server |-> [ listens |-> TRUE, bodyLimit |-> 1, timeouts |-> <<1, 1, 2, 1, 1>>, total |-> 2 ],
    affinity |-> [ checkpoint_bytes |-> 1, max_checkpoints_per_path |-> 20,
                   max_candidates_per_prefix |-> 8, max_leases |-> 20, success_ttl_ms |-> 1 ],
    pools |-> << [id |-> "pool", limit |-> 1] >>,
    backends |->
      << Backend("c", "custom-chat-completions", "url", <<Upstream("m", <<Chat>>)>>),
         Backend("r", "custom-responses", "url", <<Upstream("m", <<Responses>>)>>),
         Backend("a", "custom-anthropic", "url", <<Upstream("m", <<Anthropic>>)>>),
         Backend("k", "kimi-code", None, <<Upstream("k3", <<Anthropic, Chat>>)>>),
         Backend("g", "opencode-go", None, <<Upstream("gpt-5.6-luna", <<>>)>>) >>,
    models |->
      << [ name |-> "public", aliases |-> <<"alias">>,
           protocols |-> <<Chat, Responses, Anthropic>>,
           zone |-> 0, schedules |-> <<>>,
           layers |-> << Layer("near", "prompt-prefix-affinity",
                               <<Target("c", "m"), Target("r", "m")>>),
                         Layer("far", "random", <<Target("a", "m")>>) >> ] >> ]

-----------------------------------------------------------------------------
(* Documents with one defect.                                              *)

WithBackend(n, backend) == [Base EXCEPT !.backends[n] = backend]
WithModel(upstream) == [Base EXCEPT !.backends[1].models = <<upstream>>]
WithPrices(windows) ==
  [Base EXCEPT !.backends[1].models[1].prices = [zone |-> 0, windows |-> windows]]
WithTargets(targets) == [Base EXCEPT !.models[1].layers[2].targets = targets]
WithSchedules(schedules) == [Base EXCEPT !.models[1].schedules = schedules]
Swapped == <<"far", "near">>

Defects ==
  [ version |-> [Base EXCEPT !.version = 5],
    listen |-> [Base EXCEPT !.server.listens = FALSE],
    timeout |-> [Base EXCEPT !.server.timeouts[5] = 0],
    total |-> [Base EXCEPT !.server.total = 1],
    affinity |-> [Base EXCEPT !.affinity.max_leases = 0],
    pool |-> [Base EXCEPT !.pools[1].limit = 0],
    unknownPool |-> [Base EXCEPT !.backends[1].credentials[1].pool = "elsewhere"],
    sameBackend |-> [Base EXCEPT !.backends[2].id = "c"],
    unimplemented |-> [Base EXCEPT !.backends[1].adapter = "opencode-zen"],
    noEndpoint |-> [Base EXCEPT !.backends[1].endpoint = None],
    badEndpoint |-> [Base EXCEPT !.backends[1].endpoint = "relative"],
    noKey |-> [Base EXCEPT !.backends[1].credentials[1].key = ""],
    sameKey |-> [Base EXCEPT !.backends[1].credentials = <<Key("k"), Key("k")>>],
    noProtocols |-> WithModel(Upstream("m", <<>>)),
    wrongProtocol |-> WithModel(Upstream("m", <<Responses>>)),
    sameProtocol |-> WithModel(Upstream("m", <<Chat, Chat>>)),
    noCatalog |-> [Base EXCEPT !.backends[5].models[1].name = "gpt-2"],
    badRates |-> WithModel([Upstream("m", <<Chat>>) EXCEPT !.pricing = FlatRates(-1)]),
    noDefaultRates |->
      WithModel([Upstream("m", <<Chat>>) EXCEPT
                   !.pricing = None,
                   !.prices = [zone |-> 0,
                               windows |-> <<Priced("peak", <<1>>, 0, 1, FlatRates(2))>>]]),
    samePrices |->
      WithPrices(<<Priced("peak", <<1, 2>>, 0, 2, FlatRates(2)),
                   Priced("dawn", <<2>>, 1, 3, FlatRates(3))>>),
    alias |-> [Base EXCEPT !.models[1].aliases = <<"public">>],
    noTargets |-> WithTargets(<<>>),
    sameTarget |-> WithTargets(<<Target("a", "m"), Target("a", "m")>>),
    unknownBackend |-> WithTargets(<<Target("z", "m")>>),
    unknownModel |-> WithTargets(<<Target("a", "n")>>),
    sameLayer |-> [Base EXCEPT !.models[1].layers[2].name = "near"],
    timezone |-> [Base EXCEPT !.models[1].zone = None],
    partOrder |-> WithSchedules(<<Between("s", <<1>>, 0, 1, <<"far">>)>>),
    noTime |-> WithSchedules(<<Between("s", <<1>>, 0, 4, Swapped)>>),
    sameTime |-> WithSchedules(<<Between("s", <<1>>, 1, 1, Swapped)>>),
    noDays |-> WithSchedules(<<Between("s", <<>>, 0, 1, Swapped)>>),
    noDay |-> WithSchedules(<<Between("s", <<8>>, 0, 1, Swapped)>>),
    overlap |-> WithSchedules(<<Between("s", <<6, 7>>, 3, 2, Swapped),
                                Between("t", <<1>>, 1, 3, Swapped)>>) ]

-----------------------------------------------------------------------------
(* What clients say and providers answer.                                  *)

Plainly == [words |-> TRUE, picture |-> "no", note |-> FALSE, wordsFirst |-> FALSE]
Showing == [Plainly EXCEPT !.picture = "words"]
Handing == [Plainly EXCEPT !.words = FALSE, !.picture = "result"]
Hasty == [Plainly EXCEPT !.wordsFirst = TRUE]
Noting == [Plainly EXCEPT !.note = TRUE]

Answers(by, parts, cut) ==
  [by |-> by, parts |-> parts, cut |-> cut, arguments |-> "object"]
Talks == Answers(Protocols, <<"text">>, FALSE)
Calling ==
  { Answers(Protocols, <<"thought", "text">>, TRUE),
    Answers(Protocols, <<"thought", "call", "call">>, FALSE),
    Answers({Responses, Anthropic}, <<"thought", "call", "thought", "call">>, FALSE),
    Answers({Responses, Anthropic}, <<"thought", "other", "text", "call">>, FALSE) }
Shapes ==
  Calling \cup
  { Answers(Protocols, <<"thought">>, TRUE),
    [Answers({Chat, Responses}, <<"text", "call">>, FALSE) EXCEPT !.arguments = "broken"] }

Nothing == Options(None, None, None, NoChoice, None, None, <<>>)
Tools(type) == <<Tool(type, "f"), Tool("unknown", "g")>>
MCOptions ==
  [ p \in Protocols |->
      IF p = Anthropic
      THEN { Nothing,
             Options("max", None, "json_schema", Choice("any", None, TRUE), None, 9,
                     Tools("custom")),
             Options("low", "disabled", None, Choice("tool", "f", FALSE), None, 9,
                     Tools("custom")) }
      ELSE { Nothing,
             Options("none", None, "json_object", Choice("function", "f", FALSE), FALSE, 9,
                     Tools("function")),
             Options("high", None, "json_schema", Choice("required", None, FALSE), TRUE, None,
                     Tools("function")),
             Options(None, None, "text", NoChoice, FALSE, 9, Tools("function")) } ]

-----------------------------------------------------------------------------
(* The scenarios.                                                          *)

Scenario(document) ==
  [ document |-> document, moments |-> {0}, asks |-> 1, clients |-> {Chat},
    options |-> [p \in Protocols |-> {Nothing}], says |-> {Plainly}, answers |-> {Talks} ]

\* Layers swapped over the weekend's end, prices raised over another day's
\* midnight in another timezone.
Calendars ==
  [ Base EXCEPT
      !.models[1].schedules =
        <<Between("weekend", <<6, 7>>, 3, 2, Swapped), Between("monday", <<1>>, 2, 3, Swapped)>>,
      !.models[1].zone = 1,
      !.backends[1].models[1].prices =
        [zone |-> -1, windows |-> <<Priced("night", <<3, 7>>, 3, 1, FlatRates(2)),
                                    Priced("noon", <<1, 3>>, 1, 2, FlatRates(3))>>] ]

\* Checkpoints so far apart that a first prompt holds none but its end, and so few
\* that a longer thread has more intervals.
Tuned(interval, most) ==
  [Base EXCEPT !.affinity.checkpoint_bytes = interval,
               !.affinity.max_checkpoints_per_path = most]

Sound ==
  [ talk |-> [Scenario(Base) EXCEPT
      !.asks = 3, !.clients = Protocols, !.answers = Calling,
      !.says = {Plainly, Handing, Hasty, Noting}],
    answers |-> [Scenario(Base) EXCEPT
      !.asks = 2, !.clients = Protocols, !.answers = Shapes],
    pictures |-> [Scenario(Base) EXCEPT
      !.asks = 2, !.clients = Protocols, !.says = {Showing, Noting}],
    options |-> [Scenario(Base) EXCEPT
      !.clients = Protocols, !.options = MCOptions],
    sparse |-> [Scenario(Tuned(3, 2)) EXCEPT
      !.asks = 3, !.clients = {Chat}, !.answers = Calling, !.says = {Plainly, Noting}],
    few |-> [Scenario(Tuned(2, 1)) EXCEPT
      !.asks = 3, !.clients = {Anthropic}, !.answers = Calling, !.says = {Plainly, Noting}],
    calendars |-> [Scenario(Calendars) EXCEPT !.moments = 0 .. 7 * Day - 1] ]

MCScenarios == {Scenario(Defects[n]) : n \in DOMAIN Defects} \cup Members(Sound)

=============================================================================
