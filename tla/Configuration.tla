---------------------------- MODULE Configuration ---------------------------
(***************************************************************************)
(* What a configuration document must be to be accepted (config.rs), what  *)
(* the adapters of the providers say of themselves (provider/adapters),    *)
(* and what an accepted document is then built into: a client for every    *)
(* target of every layer (provider.rs) and a calendar for every model      *)
(* (app.rs), where a missing part is an error or a panic.                  *)
(*                                                                         *)
(* An endpoint is "url" for an absolute HTTP(S) URL and something else for *)
(* any other text; an API key and an id are names, blank ones empty.       *)
(*                                                                         *)
(* A definition whose name starts with M_ is a mutant of the one after it. *)
(***************************************************************************)
EXTENDS Pricing

Chat == "openai-chat"
Responses == "openai-responses"
Anthropic == "anthropic-messages"
Protocols == {Chat, Responses, Anthropic}

-----------------------------------------------------------------------------
(* The adapters.                                                           *)

Official ==
  { "deepseek-official", "kimi-official", "kimi-code", "opencode-go",
    "zhipu-coding-plan", "ollama-cloud" }
Custom ==
  [ a \in {"custom-chat-completions", "custom-responses", "custom-anthropic"} |->
      CASE a = "custom-chat-completions" -> Chat
        [] a = "custom-responses" -> Responses
        [] a = "custom-anthropic" -> Anthropic ]

\* "aliyun-bailian" and "opencode-zen" are recognised and not implemented.
Implemented == Official \cup DOMAIN Custom

Supports(adapter) ==
  CASE adapter \in DOMAIN Custom -> {Custom[adapter]}
    [] adapter \in {"kimi-official", "ollama-cloud"} -> {Chat}
    [] adapter = "kimi-code" -> {Chat, Anthropic}
    [] OTHER -> Protocols

\* The adapter with a catalog of its own owns the protocol of each model.
HasCatalog(adapter) == adapter = "opencode-go"
Catalog(name) ==
  CASE name \in {"grok-4.5", "gpt-5.6-luna"} -> Responses
    [] name \in { "glm-5.3-flash", "glm-5.3", "glm-5.2", "glm-5.1", "kimi-k3",
                  "kimi-k2.7-code", "kimi-k2.6", "deepseek-v4-pro",
                  "deepseek-v4-flash", "deepseek-v4.1-flash",
                  "deepseek-v4-flash-vision-exp", "mimo-v2.5",
                  "mimo-v2.5-pro", "hy3" } -> Chat
    [] name \in { "minimax-m3", "minimax-m2.7", "minimax-m2.5", "qwen3.8-max",
                  "qwen3.7-max", "qwen3.7-plus", "qwen3.6-plus" } -> Anthropic
    [] OTHER -> None

\* The protocols of a provider's model; a model out of the catalog has none.
NativeProtocols(adapter, model) ==
  IF HasCatalog(adapter)
  THEN IF Catalog(model.name) = None THEN <<>> ELSE <<Catalog(model.name)>>
  ELSE model.protocols

\* BackendClient::protocol_for.
ProtocolFor(protocols, ingress) ==
  IF ingress \in Members(protocols) THEN ingress
  ELSE IF Chat \in Members(protocols) THEN Chat
  ELSE protocols[1]

-----------------------------------------------------------------------------
(* What the types of the document see to (serde), as far as it is used.    *)

Listed(s) == Len(s) \in Nat /\ DOMAIN s = 1 .. Len(s)
ZoneTyped(zone) == zone \in Int \cup {None}

PricesTyped(model) ==
  /\ Listed(PriceWindows(model))
  /\ Len(PriceWindows(model)) < Len(Labels)
  /\ ZoneTyped(PriceZone(model))

RoutesTyped(model) ==
  /\ ZoneTyped(model.zone)
  /\ Listed(model.layers)
  /\ \A layer \in Members(model.layers) : Listed(layer.targets)
  /\ Listed(model.schedules)
  /\ \A schedule \in Members(model.schedules) : Listed(schedule.order)

Typed(document) ==
  /\ Listed(document.backends)
  /\ \A b \in Members(document.backends) :
        Listed(b.models) /\ \A m \in Members(b.models) : PricesTyped(m)
  /\ Listed(document.models)
  /\ \A m \in Members(document.models) : RoutesTyped(m)

-----------------------------------------------------------------------------
(* Looking things up: the first that has the name.                         *)

HasId(s, id) == \E i \in DOMAIN s : s[i].id = id
ById(s, id) ==
  s[CHOOSE i \in DOMAIN s : s[i].id = id /\ \A j \in 1 .. i - 1 : s[j].id # id]

HasName(s, name) == \E i \in DOMAIN s : s[i].name = name
ByName(s, name) ==
  s[CHOOSE i \in DOMAIN s :
      s[i].name = name /\ \A j \in 1 .. i - 1 : s[j].name # name]

\* Each of the things has a usable name of its own.
Untidy == {Blank, " padded "}
Usable(names) == Members(names) \cap Untidy = {}
Ids(s) == [i \in DOMAIN s |-> s[i].id]
Names(s) == [i \in DOMAIN s |-> s[i].name]
Named(names) == Usable(names) /\ Distinct(names)

-----------------------------------------------------------------------------
(* Config::validate.                                                       *)

\* The timeouts to connect, to read, to read a stream, of a heartbeat and of
\* a probe's wait; the first three fit into the total.
ServerSound(server) ==
  /\ server.listens
  /\ server.bodyLimit > 0
  /\ \A t \in Members(server.timeouts) : t > 0
  /\ \A k \in 1 .. 3 : server.total >= server.timeouts[k]
  /\ server.total > 0

AffinitySound(limits) == \A k \in DOMAIN limits : limits[k] > 0

PoolsSound(document) ==
  /\ Named(Ids(document.pools))
  /\ \A i \in DOMAIN document.pools : document.pools[i].limit > 0
  /\ \A b \in Members(document.backends) : \A c \in Members(b.credentials) :
        c.pool # None => HasId(document.pools, c.pool)

EndpointSound(backend) ==
  IF backend.adapter \in DOMAIN Custom
  THEN backend.endpoint = "url"
  ELSE backend.endpoint = None

CredentialsSound(credentials) ==
  /\ credentials # <<>>
  /\ Named(Ids(credentials))
  /\ \A c \in Members(credentials) : c.key # Blank

M_ProtocolsListed(adapter, model) ==
  /\ HasCatalog(adapter) => model.protocols = <<>>
  /\ NativeProtocols(adapter, model) # <<>>
  /\ Distinct(NativeProtocols(adapter, model))
ProtocolsSound(adapter, model) ==
  /\ HasCatalog(adapter) => model.protocols = <<>>
  /\ NativeProtocols(adapter, model) # <<>>
  /\ Distinct(NativeProtocols(adapter, model))
  /\ Members(NativeProtocols(adapter, model)) \subseteq Supports(adapter)

BackendSound(backend) ==
  /\ backend.adapter \in Implemented
  /\ EndpointSound(backend)
  /\ CredentialsSound(backend.credentials)
  /\ backend.models # <<>>
  /\ Named(Names(backend.models))
  /\ \A m \in Members(backend.models) :
        /\ ProtocolsSound(backend.adapter, m)
        /\ m.pricing # None => RatesValid(m.pricing)
        /\ TariffSound(m)

BackendsSound(backends) ==
  /\ backends # <<>>
  /\ Named(Ids(backends))
  /\ \A b \in Members(backends) : BackendSound(b)

\* The names the models are served under, aliases included.
PublicNames(models) ==
  [ at \in UNION {{i} \X (0 .. Len(models[i].aliases)) : i \in DOMAIN models} |->
      IF at[2] = 0 THEN models[at[1]].name ELSE models[at[1]].aliases[at[2]] ]

TargetKnown(document, target) ==
  /\ HasId(document.backends, target.backend)
  /\ LET backend == ById(document.backends, target.backend)
     IN /\ HasId(backend.credentials, target.credential)
        /\ HasName(backend.models, target.model)

LayerSound(document, layer) ==
  /\ layer.targets # <<>>
  /\ Distinct(layer.targets)
  /\ \A t \in Members(layer.targets) : TargetKnown(document, t)

ModelSound(document, model) ==
  /\ model.protocols # <<>>
  /\ Distinct(model.protocols)
  /\ CalendarSound(model.zone, Names(model.layers), model.schedules)
  /\ Named(Names(model.layers))
  /\ \A layer \in Members(model.layers) : LayerSound(document, layer)

Valid(document) ==
  /\ document.version \in {3, 4}
  /\ ServerSound(document.server)
  /\ AffinitySound(document.affinity)
  /\ PoolsSound(document)
  /\ BackendsSound(document.backends)
  /\ document.models # <<>>
  /\ Named(PublicNames(document.models))
  /\ \A m \in Members(document.models) : ModelSound(document, m)

-----------------------------------------------------------------------------
(* AppState::new.                                                          *)

\* BackendClient::build.
ClientBuilds(backend, model) ==
  LET protocols == NativeProtocols(backend.adapter, model)
  IN /\ backend.adapter \in Implemented
     /\ backend.adapter \in DOMAIN Custom => backend.endpoint = "url"
     /\ protocols # <<>>
     /\ Members(protocols) \subseteq Supports(backend.adapter)
     /\ TariffSound(model)

TargetBuilds(document, target) ==
  /\ HasId(document.backends, target.backend)
  /\ LET backend == ById(document.backends, target.backend)
     IN /\ HasId(backend.credentials, target.credential)
        /\ HasName(backend.models, target.model)
        /\ ClientBuilds(backend, ByName(backend.models, target.model))

Builds(document) ==
  \A m \in Members(document.models) :
     /\ \A layer \in Members(m.layers) : \A t \in Members(layer.targets) :
           TargetBuilds(document, t)
     /\ CalendarSound(m.zone, Names(m.layers), m.schedules)

=============================================================================
