# Quotamux in TLA+

Quotamux is a gateway between programs that speak one of three LLM protocols and
the providers that serve them. A request names a model; the gateway goes through
the model's layers of targets (a target is a provider account with an upstream
model) until one of them answers. Nearly all of its difficulty is in shared
state: circuit breakers that let one probe at a time through, limits on what an
account may have in flight, a configuration that is replaced while requests run,
and a ledger whose statistics must survive upgrades and crashes.

This directory models that control. Each module says at its head what it leaves
out; `PROJECT.json` maps every definition to the lines it stands for. Paths
below are relative to the repository's `src/`.

## 1. Inventory

| Component | Source | State | Operations | What makes it correct |
|---|---|---|---|---|
| Failure taxonomy | `types.rs` | none | classify a failure: may another target be tried, is the same one retried, does it count against the target | every class has one meaning everywhere |
| Circuit breaker | `circuit.rs` | a snapshot in memory (mode, reason, deadline, lease, counters, generation), its record in the store, a watch channel | load, decide, succeed, fail, abandon, wait | one live probe; one backoff per incident; the next probe is never too far away; nobody sleeps without a probe to wait for; memory and record agree |
| Local admission | `admission.rs` | pools with limits, accounts with their pool and a counter | acquire, drop, publish | counters equal leases; the published limit is the one enforced |
| Route loop | `app.rs` `handle_nonstream`, `handle_stream` | per request: candidates, attempted, evaluated and watched targets, lease, permit, wait budget | acquire, decide, send, retry once, stream, close, sleep, give up, be cancelled | leases and permits have one owner and are always returned; no target is sent to twice; the wait is bounded; whoever is turned away has seen every route |
| Runtime revisions | `app.rs` `AppState::new`, `workspace.rs` | the breakers of the active and of older revisions, their records | arrive, decide, settle, build, publish, discard | one probe per target and identity across revisions; the record belongs to the active breaker |
| Routing workspace | `workspace.rs` | configuration file, backup, active revision, saving lock | open, migrate, load, save, answer, leave | no lost update; file and memory agree; edits by hand survive; every save is answered; a backup is the original |
| Statistics ledger | `store.rs`, `bin/quotamux-stats-downgrade.rs` | ledgers, four derived tables, migration markers | record, prune, rename, reset, backfill in batches, downgrade | totals and windows count every record once, at every moment and after any crash |
| Prefix affinity | `affinity.rs` | leases with warm epochs, references by prefix, an eviction order | observe, lookup, expire | no claim is invented; only expiry and limits forget; the three maps agree |
| Calendar, pricing | `calendar.rs`, `pricing.rs` | compiled weekly windows | compile, select an order or a tariff at a moment | what holds at a moment is what the schedule means, also across midnight and the end of the week |
| Route order | `routing.rs`, `app.rs` `route_candidates` | a counter | order the layers, permute a layer's targets, sort them by warm prompt | every target once; a conversation stays where it is warm |
| Stream decoder | `sse.rs` | a buffer | next event | the events do not depend on how the stream is cut |
| Stream relay | `app.rs` `prepare_stream_attempt`, body of `handle_stream` | per stream: the two translators, the usage so far, the error | first event, next event, [DONE], terminal event, error, early end | the end is shown exactly when the answer is whole; a failure before the first event shows nothing; the usage told is the usage recorded |
| Protocol translation | `protocol/` | per stream: what is open, the numbering of calls and blocks, text and arguments so far; per request none | translate requests, answers, events | the same conversation and the same answer on both sides; in a stream everything is opened once, spoken in while open, and closed once |
| Providers | `provider.rs`, `provider/adapters/` | HTTP clients | build a client, choose its protocol and price, send, classify errors | what was accepted can be built; every error gets its class |
| Configuration | `config.rs` | none | parse, upgrade, validate, look up | what is accepted can be started with |
| Dashboard, programs | `dashboard.rs`, `frontend/`, `main.rs`, `bin/quotamux-smoke.rs` | none of the gateway's | pages, start-up | - |

How they interact. A request takes the active revision from the workspace and
keeps it. The route loop asks admission for a lease, then the target's breaker
for a permit, then sends through the provider; the result goes back to the
breaker and, if it was good, to the affinity directory and the ledger. A stream is
relayed event by event: decoded, translated through Chat chunks when the two
protocols differ, forwarded otherwise. A permit
that is dropped, because the client left or the stream was abandoned, spawns a task
that gives the probe back. A save holds one lock while it checks the upstreams,
takes leases for that, builds the next revision out of parts of the current one
and publishes it. Breakers write their record on every transition, before they
notify waiters. Everything persistent is one redb database and one
configuration file.

What is hard here: requests of several revisions meeting at one breaker; clocks
read before a lock is taken; a probe whose lease runs out while it is still
running; cancellation at any await; a crash between a rename and a swap, between
two batches, between the creation of a file and its contents; edits of a file by
others; migrations that are interrupted, undone and repeated; streams that fail
half-way, or interleave what another protocol wants in sequence. `PROJECT.json`,
"hazards", lists them line by line with the properties that watch them.

## 2. Modules

```
FailureClass <- CircuitState <- Circuit            -> BreakerContract
                             <- Gateway            -> BreakerContract (per target)
                             <- CircuitRevisions
                             <- RetryPolicy (the real tables)
             <- Classification
Admission, CircuitRevisions  <- LiveSaves
Calendar <- Pricing <- Configuration <- RouteOrder          \
                                                             <- Exchange
Transcript <- RequestOptions <- Conversation                /
StreamTranslation <- StreamRelay
Workspace     StatsLedger     Affinity     SseDecoder
```

An arrow `<-` is EXTENDS or INSTANCE, `->` a refinement that is checked. `MCx` gives
the constants of `x` their values. `xProofs` holds the theorems about `x`, and about the
modules `x` is made of: `CircuitProofs` about `CircuitState`, `RetryPolicy` and `Classification`,
`LiveSavesProofs` about `Admission` and `CircuitRevisions`, `ExchangeProofs` about `Calendar`,
`Pricing`, `Configuration` and `Workspace`, `StreamProofs` about `StreamRelay`, which
`AnswerProofs` continues, and there `SseDecoder` too.

**CircuitState** has the snapshot and the pure transitions the methods of
`circuit.rs` apply under the lock. Deadlines are kept as the time that is left,
so that a tick ages a snapshot and the clock needs no bound. A caller reads the
clock before it takes the lock; `MaxLag` is how late it may come. `opened_at_ms`
is read by no decision and left out.

**Circuit** is one breaker with its record and the requests around it. `Decide`,
`Succeed`, `Fail`, `Drop` and `Abandon` are the methods, each with the write of the
record that belongs to it, which may fail; `Wake` and `TimeOut` are the two ends of a
wait; `Crash` and `Load` end and begin a process. Every request is given
one permit, and that bounds the generations.

**BreakerContract** says what routes may rely on, without timers, generations or
records: who may probe and whose result counts. `Circuit` implements it under
the mapping at the end of `Circuit.tla`; `Gateway` implements one instance per target.

**RetryPolicy** puts the tables of `schedule_for`, in seconds, into `CircuitState` and
writes down the table of `docs/provider-failure-policy.md`. It has no run: that
the two agree after every history is proved (section 4).

**Classification** has the classifiers of the adapters: what a status, the names in an error
envelope and the phrases in its message mean, also when the status is a success. The
outcomes of `Gateway`'s runs are taken from it. Like `RetryPolicy` it is pure and proved about
together with the tables.

**Admission** has the registry of `admission.rs` with the requests and the save
that use it: requests keep the document they arrived under, the save probes
changed accounts, publishes or gives up.

**Gateway** is the route loop: a request goes through its candidates with a
local lease, a permit, at most one retry of the same target, a stream, a close, and sleeps on
probes of others within one budget; it may be dropped at every await. Its pools
hold the leases themselves, `Admission` has the counters. The variable `deployment` is
chosen at the start and says which accounts share a pool and how providers
may fail, so that one run covers several configurations.

**CircuitRevisions** follows one target through saves: which breaker a revision
gets, by the execution identity of the target, while older requests keep theirs.

**LiveSaves** puts the two together: a save is one draft that carries a document
with its capacity and a breaker, built before its accounts are tried out, and published
or forgotten whole; a request keeps both from the revision it arrived under, takes the
lease first, asks the breaker under it, and gives it back when the permit is settled.

**Calendar** compiles schedules into weekly windows (`compile`, with the split at Sunday
midnight and the check of neighbours) and looks a moment up (`Calendar::at`). `Means` says
what a schedule means, without windows: it has started on one of its days and not yet
ended. The wall clock is the clock plus the zone's offset.

**Pricing** is `Tariff`: a calendar whose layers are the labels of the price windows.

**Configuration** is `Config::validate` with what the adapters say of themselves
(`Valid`), and what `AppState::new` then needs to find and to build (`Builds`), each
translated from its own code. A document is taken as parsed: an endpoint is a URL or not, a
name is usable or not. What the types of `config.rs` see to is `Typed`.

**RouteOrder** resolves a public name and says in which orders a layer's targets may
come: any for `random`, and by the length of the matched prompt for
`prompt-prefix-affinity`. A prompt matches at checkpoints only (`Checkpoints`): where an
interval of it is full, up to the limit of a path, and at its own end. Its elements, the items of the
thread and what follows them, stand for its bytes.

**Transcript** translates the conversation and the whole answers of `responses.rs` and
`anthropic.rs`, all through Chat; **RequestOptions** translates effort, format, tools and
their choice. A text, image or thought is a part with a value and the concatenation of
texts the sequence of their parts; a call's arguments are an object or text that is no
JSON, which changes its form on the way. **Conversation** chains them as
`prepare_for_provider` and `translate_nonstream` do, and reads any body of any protocol back
as events (who said what, in which order) for the properties to compare. None of
the comparison uses the translation.

**Exchange** runs all of this: the process starts with a document or rejects it or
crashes, a client of a protocol connects and asks, candidates are ordered, one after
the other is sent the conversation in its own protocol, one answers, is billed and becomes
warm, and the client keeps the answer and asks again. Time passes and leases run out at any
moment. Why an attempt fails is `Gateway`'s subject and a choice here. A scenario
is a document and what is tried with it; the module assumes of it only that its documents
are typed.

**SseDecoder** is `next_event`: bytes arrive in chunks cut anywhere, and frames leave. The buffer is
always a stretch of the stream and kept as its ends. What a frame says is a function of its
bytes; `StreamRelay` takes it from there. It has no run of its own, for its properties are proved.

**Workspace** has the file, the start with its migration and backup, and the
editors' saves step by step: queue, lock, checks, compare, rename, swap. An
operator edits the file by hand at any time, a client may leave at any await.

**StreamTranslation** has the four translators: the sources `ResponsesToChat` and
`AnthropicToChat` turn an event into Chat chunks, the sinks `ChatToResponses` and
`ChatToAnthropic` turn a chunk into events. A piece is a fragment of text, a thought or
arguments, named after the event it came in; a call is its id and name. Response
ids, sequence numbers and the estimate of reasoning tokens are left out, and a
`*.done` event of an item stands for all of them.

**StreamRelay** is the loop that feeds them. Between equal protocols it forwards,
between different ones it translates. The provider is an environment, one per protocol,
that may say anything its protocol allows, in any order of thought, text and
calls, report usage or not, fail at any point or stop. `received` and `relayed` are
kept whole: the properties read both as a client would and compare the two answers.

**StatsLedger** has the ledgers, the rollups and hour and minute buckets, the
resumable migration, pruning, renaming and the downgrade tool. Every action is
one write transaction. A record is when it started and at which backend; a row
is its count.

**Affinity** has the prefix index. A prompt is its sequence of blocks, a
checkpoint's hash is the prefix itself, and the order of lease ids, which a
random key decides, is one of a few orders. Operations act on clock values up to
`Lag` old. Two history variables say what was observed for the leases that are
kept, and where a candidate was pushed out.

Definitions whose names begin with `M_` are plausible mistakes in the definition
that follows them. `PROJECT.json`, "mutants", pairs each checked property with one that
violates it.

## 3. Runs

| Run | Bounds | What it shows |
|---|---|---|
| `circuit` | 3 requests, one of which may be an endless stream; 3 outcomes, 3 hints; a schedule of two levels and one of one; lag 1, lease 2; 1 crash, a clock set back by up to 2 | one live probe, one backoff per incident, the ceiling on the next probe, no lost wakeup, memory and record, the contract, and that every client is admitted |
| `live_saves` | 2 requests, 2 saves, 2 accounts, 2 pools, 4 documents that share, shrink, move and retire, 3 identities | exact counters; the active limits are enforced; one probe per target and identity; the record is the active breaker's |
| `gateway` | 2 requests, one of them an endless stream; a plan that repeats a target; 2 targets, one due for a probe and one a tick later; 2 deployments, with a pool of one and without; 3 outcomes, budget 1 | leases, probes and pools have the right owner; a target is sent to once; nobody is turned away early; a waiter sleeps only on live probes and within one budget; every breaker keeps its contract; the request ends |
| `revisions_revert` | 2 identities, saves may return to one | **violated**: two probes of one target |
| `workspace` | 2 editors, 2 documents, a file of any form, 1 edit by hand, 1 crash, 4 revisions | no lost update, the file follows memory, hand edits spared, every save answered |
| `workspace_backup` | a version 3 file, 1 crash | **violated**: the backup is not the original |
| `stats_ledger` | 1 request, 2 attempts, both backends, an hour of two minutes, 2 windows, batches of 1, 1 crash, 1 downgrade | exact totals and windows, and the migration ends |
| `stats_upgrade` | the same | **violated**: tables are missing while the server runs |
| `affinity` | 3 leases of two prompts and two domains, 2 checkpoints, 2 candidates, 2 leases kept, 2 confidences, lag 1, 4 clock values | consistent maps; no invented claim; nothing forgotten but for room |
| `streams` | all 9 pairs of protocols; 3 Chat chunks or 8 events of the others before the end; 2 calls | the same answer; well-formed frames; one output index per item; the end shown exactly when the answer is whole; usage told and recorded |
| `exchange` | 7 documents, with checkpoints after every element, every third at most twice and every second at most once, and 33 with one defect each; days of four hours, a calendar at every hour of a week; up to 3 requests of a conversation, 3 protocols on both sides, 6 shapes of answers, 4 of questions, 4 sets of options | what is accepted starts; layers and prices are those meant; a conversation stays with a target that is warm with it up to a checkpoint; everybody hears what was said, and thoughts return with their calls |
| `stream_usage` | a Responses provider and a Responses client | **violated**: the usage is not recorded |

Why the bounds are enough. The breaker's interesting races need a probe, the one
that replaces it and a third request that waits or reports late: three requests.
Schedules matter by their order and by having a level above the first; a hint
must be able to exceed the ceiling; a lease must be longer than the lag, as
it is in the program (10 minutes). The route loop needs two
targets, one of them twice in the plan, and one request to hold what another
wants; as the targets become due one after the other, a request can have two
probes to wait for. In the ledger, a batch of one makes every migration longer than a batch,
two attempts put one before and one behind the cursor, and the hour of two
minutes has windows that begin inside an hour. In the directory three leases
exceed the limits on leases and, at the key they share, on candidates; the
second prompt is longer than a path may have checkpoints. A chunk may hold a
thought, text and parts of both calls, so three chunks open everything twice
over; eight events open an item, speak in it, close it and do so with a second, with
one to begin and one to end. A translator's state tells apart what has
been opened, and numbers calls: with two calls a wrong number shows. Under live saves two
requests suffice, one that keeps an older revision and one of the next, as a target's
breaker and a pool each tell apart only who holds them and under which revision; two
saves make a request two revisions old. A day of four hours has room for a window that
ends before it begins, one next to it and a free hour; the
calendars differ in zone, cross the week's end and touch, and every moment of the week is
tried. A conversation of three requests has an answer between two others, whose calls, thoughts and
results are history in the third; each shape of an answer puts thought, text, calls and things
unknown in an order some translation treats differently, and the protocols' pairs are all
reached as each of the three providers answers clients of each protocol. With checkpoints three
elements apart the first prompt of a conversation holds none but its end and the second one more;
with a single one, two elements deep, the second prompt's thread outgrows the limit. Of a
conversation whose thread is shorter than the interval `KeepsToTheWarmTarget` promises
nothing, as the code does not: its warm target matches nothing and is tried in any order with
the cold ones. One defect per
document leaves one check alone to find it.

The type invariants are not among the runs' properties, but for `Circuit`'s: those of
`Admission`, `Gateway`, `Workspace` and `StreamRelay` are theorems, those of `StatsLedger`,
`Affinity`, `SseDecoder` and, as `BreakerTypes`, `CircuitRevisions` belong to the invariants
proved in section 4.

`exchange` stops when a client has asked often enough or was turned away, and so does not
check for deadlock.

The model of time: an `Ages`, `MaxTime` or `MaxCrashes` bound appears in a guard of
the action it limits and is named in the module's constants.

Fairness. Weak fairness of the actions a runtime runs by itself: ready tasks,
timers, a start that the supervisor repeats. A response ends because the upstream
client has timeouts, except for the streams in `Endless`, of which nothing is
assumed. The saving lock is a fair mutex (tokio's is first come, first served),
hence strong fairness of `Lock`; the checks of a save end by their timeout. No fairness
is assumed of clients, operators, crashes or saves. `EveryClientAdmitted` also
uses that a request takes one permit: a breaker gives no order among waiters,
and with clients that come back for ever one of them could be passed over.

### Findings

- **revisions_revert** (`app.rs:260`). A revision reuses breakers only of the one right
  before it. When a save returns a target to an earlier identity whose breaker
  older requests still hold, a second breaker is loaded from the same record,
  and both let a half-open probe through. `docs/provider-failure-policy.md:23` promises
  one probe.
- **workspace_backup** (`workspace.rs:315`). The backup of a version 3 file is
  created and then filled. If the process dies between the two, the next start
  takes the truncated file for the backup and replaces the original.
- **stats_upgrade** (`store.rs:267`). `reset_rollups` drops the derived tables, which
  come back only when a row is written. After an upgrade of a directory without
  records the statistics pages fail.
- **stream_usage** (`app.rs:2242`). A stream of a Responses provider to a Responses client is
  forwarded, and each event is searched for a top-level "usage" (`types.rs:361`).
  The final event has it inside "response", so nothing is recorded and no price
  computed, against `README.md:363` and `docs/routing-architecture-v3.md:99-100`. The translators
  of the same events do look inside (`protocol/responses.rs:900`).

Met while modelling the conversation, and visible in the definitions, but not the
subject of a run:

- When two thoughts precede the calls of one message of a Responses client, the later
  overwrites the earlier (`LiftCall`, `protocol/responses.rs:246`); `ThoughtsReturn` asks only
  that the turn opens with a thought.
- A choice that names a tool the translation drops is passed on all the same
  (`protocol/responses.rs:422-435`).

Met while modelling the decoder and the classifiers, not the subject of a run:

- A blank line written CR LF CR LF is looked for first (`sse.rs:105`), so that when an upstream, or a proxy that
  adds comments, mixes it with LF LF, how a stream falls into frames depends on how it was cut.
- Kimi Code's words for a spent quota are read only under the statuses 403 and 429. An error in a stream that
  began with 200 is a failure of the transport then, and retried after a second
  (`adapters/kimi_code.rs:60`).
- A `response.failed` event has its error inside "response", where `extract_error_details_from_value`
  does not look (`provider.rs:443`), so no adapter recognizes it.

Met while modelling the streams, and visible in the definitions, but not the
subject of a run:

- `FinishResponses` always ends with `response.completed`, also when the provider
  stopped for length; a complete response is marked incomplete then
  (`protocol/responses.rs:526-530`).
- The output index of an item is worked out from what has been opened so far. When a
  provider talks before it thinks, or calls before it talks, two items get the
  same index; `OrderlyIndices` therefore assumes the usual order.
- A Chat stream that is nothing but `[DONE]` gives a Responses or Anthropic client an end
  without a beginning; `FramesBalanced` excepts it.
- The blocks of calls are stopped only at the end of an Anthropic message, so that they overlap.
- A native Chat chunk with `"usage": null` counts as a report of zero tokens.
- When an Anthropic provider's stream breaks before its final report, the usage it
  reported so far is recorded if the client speaks the same protocol, and lost otherwise.

## 4. Proofs

The proofs hold for every value of the constants that the named assumptions
allow: any sets of requests, targets, pools, accounts, editors or prompts, any schedule of
natural delays whose last is the largest and not below the delay after an abandonment,
any lag below the lease. What the assumptions ask for are distinct names (`None` is no
target and nothing that is said, `Null` no count), finitely many requests and accounts where something is counted or
summed, positive limits, and documents as the Rust types make them. TLC evaluates each of them on a
run's constants.

Nearly every property needs a stronger invariant, for it says what is visible and not
what keeps it so. These invariants were checked by TLC on the runs' instances before they
were proved, and each proof goes action by action and, under an action, conjunct by conjunct.

| Theorem | Says | Proved in |
|---|---|---|
| `OneProbeAtATime`, `OneBackoff`, `ProbeWithinCeiling`, `WakeupNotLost`, `MemorySurvives`, `KeepsContract` | all of `circuit`'s properties but liveness | `CircuitProofs` |
| `LeaseHeld`, `OneProbeOwner`, `SentAtMostTwice`, `TurnedAwayAfterAll`, `SleepsForProbes`, `KeepsEveryContract` | all of `gateway`'s but liveness | `GatewayProofs` |
| `CountsExact`, `DecidesByPolicy`, `AdmitsWithinLimit`; `ProbesOneAtATime`, `RestartFindsTheBreaker` | all of `live_saves`'; the last two as long as no save returns to an identity | `LiveSavesProofs` |
| `ServesWhatIsOnDisk`, `SavesReplaceTheirBase`, `SparesHandEdits` | all of `workspace`'s but liveness | `ExchangeProofs` |
| `TotalsAreExact`, `WindowsAreExact` | all of `stats_ledger`'s but liveness | `StatsLedgerProofs` |
| `MapsAgree`, `FindsWhatWasSeen`, `ForgetsForRoom` | all of `affinity`'s | `AffinityProofs` |
| `EndsWhenWhole`, `UsageIsKept` | two of `streams`' five | `StreamProofs` |
| `AnswerIsPreserved`, `FramesAreBalanced`, `IndicesAreOrderly` | the other three | `AnswerProofs` |
| `AlwaysStarts`, `AlwaysAsMeant` | two of `exchange`'s five | `ExchangeProofs` |

**CircuitProofs.** That at most one probe is live needs to know that no request holds a permit of
a generation to come, or else a late result could meet the generation it was
waiting for; that a primary permit of the current generation exists only while
the circuit is closed, or else its failure would count as the probe's; that only
probes are abandoned; and that a process that is down has no requests in flight.
With these four, `OneLiveProbe`, `NextProbeWithinCeiling`, `NoLostWakeup`,
`MemoryIsDurable` and `TypeOK` make up `IInv`. The lemmas about `CircuitState` (each
transition yields a well-formed snapshot, and raises the generation whenever it
changes who may report) come first. `OneBackoff` is the action property
`FailureCountedOnce`, and `KeepsContract` the refinement: every step, under `IInv`, is a
step of `BreakerContract` or stutters.

`RealTables`: the tables and constants of `circuit.rs`
satisfy `ScheduleAssumption` and `DelayAssumption`, so all of the above holds of the
real breaker, and not of a scaled one only. `DelayFollowsTable`: after any
well-formed snapshot, and so after any history, the n-th failure of one meaning in a row
puts the next probe off by the n-th delay of the documented row, or by the
provider's hint, capped or ignored as documented. `LoadedWithinTable`: a start never
puts a target off for longer than the last delay of its row, whatever deadline was
stored. The lemmas `EveryRow`, `RowDelay` and `RowLimit` compare code and
document one row at a time.

`VerdictsFollowPolicy` joins the classifiers to the tables: no adapter's verdict stops the routing unless
the provider's words or the status blame the request (or the status is 499), none spares a
target and goes on but for a 403 of Kimi Code, and each that counts against a target has
a row. One lemma per adapter reduces its verdict to a documented class, a refusal of the
request or the generic verdict. `HiddenErrorsCount` follows for errors in answers whose status
is a success: none is taken for the client's fault by the status.

**GatewayProofs.** The walk of one request comes first, as no other disturbs it: a request
has an outcome from its close on (`Ending`), sleeps only when no candidate is left to look at
(`SleepsLast`), has been sent to a target at most as often as its stage allows (`Sends`), and has
waited no longer than what its budget has lost (`Waits`). `SentAtMostTwice` and `TurnedAwayAfterAll`
follow. The circuits are shared, and their part of the invariant is that of `CircuitProofs` for every
target at once, `NoFuture` and `PrimaryMeansClosed`, with two things that only several targets
and abandoned probes bring: a half-open target has exactly one owner of its probe, a request or an
orphan left by one that is over (`OneOwner`, `OrphansAreOver`), and a sleeper who was not notified
watches half-open targets only (`Watches`). Every step does one of five things to the
circuits (nothing, a permit given, settled, dropped, an orphan abandoned), so that each part is shown to
survive five cases and not one per handler. `KeepsEveryContract` maps each case to a step of one target's
`BreakerContract`, and to none of the others'.

**LiveSavesProofs.** Of `Admission`, `IInv` is `TypeOK`, `CountsMatchLeases` and
`RegistryFollowsActive`. The counter of an account equals the cardinality of the set of
leases on it; adding and removing one holder changes that by one, and a
published document keeps every account that is leased. No counter underflows. A pool's usage is a fold
over its accounts. That adding one to an account adds one to the sum is shown without induction: among
the sets of accounts for which it failed there would be one that contains no other, and taking its
largest account away would give another. From there `DecidesByPolicy` and
`AdmitsWithinLimit`, an action property, follow.

Of the breakers, `BreakerInv` says that no two have one identity (`OneBreakerEach`), that each, also an old one, has its
record (`RecordsHold`), that a draft has the active identity or one that nobody else writes to
(`DraftIsKept`), and of the permits what `CircuitProofs` says (`PermitsAreDated`, `ProbesAreHalfOpen`,
`OneProber`). `OneBreakerEach` is what a return to an earlier identity breaks: the theorems assume that
no save returns to one, and `revisions_revert` shows why. `ImplementsBoth`: the composition restricts
`Admission` and `CircuitRevisions` and adds no behaviour, so that what is proved of each holds of it.

**StatsLedgerProofs.** `Exact` says what the tables count at every moment of a migration: the records
up to the progress cursor of its phase, and no others. Rows are added up over both backends, as a record
backfilled before a rename stays under the old name; buckets are spoken of only while the retention
keeps them. With `Past` (no record starts after now), `InTurn` (attempts after requests), `OwnTypes` (tables of
another schema are gone once this one is in use) and `ReadyToServe` it is inductive. `RecordCountedOnce`: `bucket_ranges` cuts
any window of whole minutes into ranges such that a record's bucket lies in exactly one of them if
the record started in the window, and in none otherwise; `WindowsAreExact` sums this over the ranges.

**AffinityProofs.** An operation takes several steps on the index (drop a dominated epoch, move a lease in the
expiry order, list it under a prefix, evict), and each is shown to keep the three maps in agreement: a lease
has some undominated evidence of its own path, each list holds leases that reach its prefix, each
once, and the order holds every lease under its expiry. For the other two theorems the history
is tied to the index: the claims that count are exactly its evidence, and a lease is listed wherever it
reaches but for where it made room (`Findable`). An expiry folds over the leases that are due; as
above, a smallest set of leases for which the fold went wrong leads to a smaller one.

**StreamProofs.** `IInv` ties what the relay has been told to what it has passed on: reports come in
an order the relay can rely on (`ReportsInOrder`: an Anthropic message begins with a count of its
input, which its last report may leave out); the source or the record knows the last report
(`Records`); and the sink, or a Chat client, has been given it (`Passes`). A turn makes one chunk or
none of an event; telling it leaves the sink's frames without an end and counts what
the chunk reports. The frames that close a stream tell that count last. A fold over the calls of a chunk is
handled as above: none of its steps ends the stream or touches the usage. Each action of a
provider is then shown to say what may follow (`Follows`), and `SayKeeps` handles whatever does.
`UsageIsKept` excepts the record of native Responses streams, as `stream_usage` refutes it.

**AnswerProofs.** That the client hears the answer that was given compares two whole streams, each
read with filters. Neither is a state of the relay; what ties them together is a third thing, what a Chat
client would have heard so far (`h`, which nothing keeps: the invariant says that there is one). It grows by
a piece at a time, and what is read of a stream that says one thing more is what was read and what is
read of that (`ReadMore`); so each piece needs one lemma for every reading.

The invariant `KInv` has two halves. `Hearer`: what the provider has said is `h`, and its source knows which
calls and blocks are in it, under which numbers. `KnowsSink`: what the sink has sent says `h`, and the sink
knows what of it is open, under which index, which pieces each item has so far, and which block comes
next. The sinks do not say all at once: a Responses sink repeats an item's pieces when it closes it and an Anthropic
sink closes its blocks in turn, so that `AnswerPreserved` and `FramesBalanced` hold of a stream that is under way for
reasons that only the sink's state tells; `OrderlyIndices` needs to know that a provider that
thinks before it talks and talks before it calls leaves every index where it was first computed. Closing a
stream says nothing new, repeats the pieces and closes what is open, from which it is `FaithfulTo` the answer; that
stays. The action of the provider, the translation by its source, the sink and the end are shown apart, and
each theorem joins three protocols on either side without a proof per pair. TLC checked `KInv` on all of
the states of `streams`.

Selections (`SelectSeq`) are opaque to the provers: `StreamRelay` writes them as concatenations of one element or
none (`Each`), about which the section "Sequences in a row" of `StreamProofs` has the lemmas.

Of the decoder: the frames so far are those the whole stream has, they join
up to where the buffer begins, and an open decoder holds no more than the limit. The
step is `FoundIsNext`: the separator that is found in the buffer is the next of the stream, as one that
begins before it would end in the buffer too. `CutsDoNotMatter` needs the stream to write its
blank lines in one way; `FramesWithinLimit` does not.

**ExchangeProofs.** `FindsTheScheduleMeant`: of every calendar that `compile` accepts,
`at` finds exactly the schedule that is meant at any instant. `NeighboursApart` compares only
windows next to each other in the order of their starts. That all windows are then
disjoint rests on there being finitely many: between two that overlap there would be a
window whose next neighbour overlaps it (`FiniteSetTheorems` gives the nearest). That the
windows of a schedule hold exactly the instants it means is arithmetic modulo the week, by
cases on whether it crosses midnight and whether that is Sunday's.

`AcceptedBuilds`: `Valid` implies `Builds`, through one lemma per lookup
(`First`, `LookupById`, `LookupByName`: the first that has a name exists and has it), the
client and the calendar. `LayersAsMeant` and `PricesAsMeant` carry `FindsTheScheduleMeant` to the
layers of a model and the labels of a tariff.

`IInv` says that a process that serves has a valid document; that a request in
flight was routed by the calendar at its moment over that model's layers, with
candidates that are targets of the document; and that a bill is the tariff's of its target
and start. The properties alone are not inductive: that the price is the one meant needs
the target to be known to the document, which is a property of the candidates that were
chosen a request earlier. `AlwaysStarts` and `AlwaysAsMeant` follow for every set of typed
documents, whatever clients and providers say.

Of the workspace: the active revision is the document of the text whose hash is known, and that text is the file,
but for a save between its rename and its swap (`ServesTheFile`, `WrittenIsOnDisk`); under
the saving lock nobody but its holder publishes, so that what he compared still holds when he swaps
(`HolderIsCurrent`); what the start has read stays the file (`OpenKnowsTheFile`); and whoever is about
to rename has looked at every edit made by hand before (`LookedBeforeRename`), for
`SparesHandEdits`, an action property. An edit after the last look is lost, and
the property says so.

Only model-checked:

- `EveryClientAdmitted`, `RequestEnds`, `EverySaveAnswered` and `MigrationEnds`: liveness and ENABLED are
  beyond the prover.
- `KeepsToTheWarmTarget`, `HeardAsSaid` and `ThoughtsReturn` of `Exchange`: they compare whole
  conversations that are translated by folds over their messages.

Induction over data is beyond the prover; a fold is proved about only where a smallest
counterexample does instead. No module that is proved about uses RECURSIVE.

## 5. Not modelled, and why

- The hash of the affinity directory: equal fingerprints are taken to mean equal
  prefixes. Token counts and versions of leases are read by no decision. In `Exchange` a checkpoint
  lies between elements of a prompt and never inside one; two elements that differ share no byte.
- The lines of a frame (`parse_frame`, `sse.rs`): a function of its bytes. The relay takes the events as choices.
- Keep-alive comments, byte counts, response ids and sequence numbers of streams; reasoning
  summaries of Responses providers, which the translator does not pass on.
- Sampling parameters, metadata and ids that the translators copy or make up, descriptions and
  schemas of tools, namespaced calls and built-in tools (all "other"), headers and pages: data
  without control.
- Timezones: a zone is an offset. Summer time moves the wall clock; the code asks a database
  for the local time of a moment, and a schedule follows it without more code.
- The random generator: every order is possible; that they are equally likely is not said.
- Providers' HTTP, headers and the text of their errors that is kept for the ledger: answers and errors are choices of
  the models that call them; what an error means is `Classification`.
- The parser of documents, the reading of version 3 and the redacted copy for the pages. In
  `Workspace` a document is valid or not as a choice, in `Admission` validity enters as an assumption
  (`Admission!Valid`); what it is, is `Configuration!Valid`.
- Dashboard, frontend and programs: pages and I/O around the components.
- Costs: floating point.
- Counter overflow: generations are u64 and the other counters saturate or are
  bounded by the life of a directory.

## 6. Plan

Done: the breaker and its contract, the retry tables, admission, the route
loop, revisions, live saves, the workspace, the ledger, the affinity directory, the stream
translators and the relay, the calendar, prices, configuration and route order, the translation
of requests and answers, the exchange that composes them, the classifiers and the stream
decoder; proofs of all safety properties of the breaker, the route loop, live saves, the
workspace, the ledger, the directory and the relay, and of those of the decoder and the
exchange named in section 4.

What would come next:

1. Proofs: `KeepsToTheWarmTarget` of `Exchange`, which needs the candidates to be a permutation
   with the warm ones first, and the prompt to be translated message by message.
2. `TerminationKept` of `StreamRelay`: that a client is told an answer is complete, and not cut
   at its length, only if the provider said so (see `FinishResponses` above).
3. `Affinity` itself under `Exchange`, which now takes a target to be warm with the last
   prompt it answered.
