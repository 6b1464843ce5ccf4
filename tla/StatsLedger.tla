----------------------------- MODULE StatsLedger ----------------------------
(***************************************************************************)
(* The statistics of the store (store.rs): the ledgers of requests and     *)
(* attempts, the rollups derived from them, and the resumable migration    *)
(* that rebuilds the rollups when the schema changes.  Everything is one   *)
(* redb database; each action below is one write transaction, and the      *)
(* process may die between any two.                                        *)
(*                                                                         *)
(* A record is reduced to when it started and at which backend; a rollup   *)
(* row to its count of records, the field every other one is added up      *)
(* like.  Served models, targets and unattributed requests split the rows  *)
(* further in the same way and are left out, and so is counter overflow.   *)
(* The memory copy of the migration's progress always equals the stored    *)
(* one: a transaction that fails ends the start.                           *)
(*                                                                         *)
(* A definition whose name starts with M_ is a mutant of the one after it. *)
(***************************************************************************)
EXTENDS Integers, FiniteSets, Functions, FiniteSetsExt

CONSTANTS
  RequestIds, AttemptIds,  \* bound: the records of a behaviour; ordered keys
  Old, New,                \* the backend name that is migrated, and its successor
  Routed,                  \* those this program still sends requests to
  Minute, Hour,            \* MINUTE_MS, HOUR_MS
  Retention,               \* ROLLUP_RETENTION_MS
  Windows,                 \* routing_window: the lengths a page may ask for
  Batch,                   \* MIGRATION_BATCH_SIZE
  Ages,                    \* bound: how long before its record a request started
  FirstTime, MaxTime,      \* bounds on the clock
  MaxStops,                \* bound on crashes
  MaxDowngrades,           \* bound on uses of quotamux-stats-downgrade
  None

ASSUME IdsAssumption ==
  /\ RequestIds \subseteq Nat \ {0} /\ AttemptIds \subseteq Nat \ {0}
  /\ IsFiniteSet(RequestIds) /\ IsFiniteSet(AttemptIds)
  /\ Old # New /\ Routed \subseteq {Old, New}
ASSUME TimeAssumption ==
  /\ Minute \in Nat \ {0} /\ Hour \in Nat \ {0} /\ Hour % Minute = 0
  /\ Retention \in Nat /\ MaxTime \in Nat /\ FirstTime \in 0..MaxTime /\ Ages \subseteq Nat
  /\ \A w \in Windows : w \in Nat /\ w % Minute = 0 /\ w + Minute <= Retention + 1
ASSUME BoundsAssumption ==
  Batch \in Nat \ {0} /\ MaxStops \in Nat /\ MaxDowngrades \in Nat

VARIABLES
  requests,    \* REQUESTS
  attempts,    \* ATTEMPTS
  tables,      \* the four derived tables
  missing,     \* those of them that do not exist
  foreign,     \* those whose stored type is an older version's
  meta,        \* STATS_META, "rollup"; None before the first batch
  bucketMeta,  \* STATS_META, "attempt_buckets"
  server,      \* "down"; "opened", Store::open done; "migrating", in ensure_stats_schema; "serving"
  now,         \* the clock
  stops, downgrades

ledgers == <<requests, attempts>>
derived == <<tables, missing, foreign, meta, bucketMeta>>
bounds  == <<stops, downgrades>>
vars == <<ledgers, derived, server, now, bounds>>

Backends == {Old, New}
Grains == {"minute", "hour"}
Unit(grain) == IF grain = "minute" THEN Minute ELSE Hour

Record == [start : Nat, backend : Backends]
Minutes == {time \in 0..MaxTime : time % Minute = 0}
BucketKeys == [grain : Grains, start : Minutes, backend : Backends]
TableNames == {"requestAll", "requestBucket", "attemptAll", "attemptBucket"}

Empty ==
  [ requestAll    |-> [b \in Backends |-> 0],
    attemptAll    |-> [b \in Backends |-> 0],
    requestBucket |-> [k \in BucketKeys |-> 0],
    attemptBucket |-> [k \in BucketKeys |-> 0] ]

\* Before version 3 and now: STATS_SCHEMA_VERSION.
Versions == {"older", "current"}
Phases == {"requests", "attempts", "ready"}
Meta ==
  [ version : Versions, phase : Phases,
    requestCursor : RequestIds \cup {0}, attemptCursor : AttemptIds \cup {0} ]
BucketMeta == [cursor : AttemptIds \cup {0}, ready : BOOLEAN]

\* StatsMeta::default, of a given version.
NewMeta(version) ==
  [version |-> version, phase |-> "requests", requestCursor |-> 0, attemptCursor |-> 0]

\* An empty data directory.
Init ==
  /\ requests = [id \in RequestIds |-> None]
  /\ attempts = [id \in AttemptIds |-> None]
  /\ tables = Empty /\ missing = TableNames /\ foreign = {}
  /\ meta = None /\ bucketMeta = None
  /\ server = "down" /\ now = FirstTime
  /\ stops = 0 /\ downgrades = 0

ASSUME NoneAssumption == None \notin Record \cup Meta \cup BucketMeta

-----------------------------------------------------------------------------
(* Buckets.                                                                *)

FloorTo(time, unit) == (time \div unit) * unit
CeilTo(time, unit) ==
  IF FloorTo(time, unit) = time THEN time ELSE FloorTo(time, unit) + unit

Earlier(a, b) == IF a <= b THEN a ELSE b
Later(a, b) == IF a <= b THEN b ELSE a

\* bucket_ranges: minutes up to the first full hour, full hours, minutes after
\* the last one.
BucketRanges(from, to) ==
  LET firstFull == CeilTo(from, Hour)
      lastFull  == FloorTo(to, Hour)
      leftEnd   == Earlier(firstFull, to)
  IN  << [grain |-> "minute", from |-> from, to |-> leftEnd],
         [grain |-> "hour", from |-> firstFull, to |-> lastFull],
         [grain |-> "minute", from |-> Later(lastFull, leftEnd), to |-> to] >>

\* add_bucket_range, and its like for attempts.
InRange(k, range) ==
  k.grain = range.grain /\ range.from <= k.start /\ k.start < range.to

RangeCount(table, range) ==
  SumFunctionOnSet(table, {k \in BucketKeys : InRange(k, range)})

\* routing_rollup and overview_rollup_window between two times.
WindowCount(table, from, to) ==
  LET ranges == BucketRanges(from, to) IN
  SumFunction([i \in DOMAIN ranges |-> RangeCount(table, ranges[i])])

\* overview_rollup, and routing_rollup without times.
AllTime(table) == SumFunction(table)

\* What a set of records adds to a table: apply_attempt_rollup, and the
\* all-time half of apply_request_rollup.
WithAll(table, added) ==
  [b \in Backends |-> table[b] + Cardinality({i \in DOMAIN added : added[i].backend = b})]

Retained(record) == record.start >= now - Retention

\* apply_attempt_buckets, and the bucket half of apply_request_rollup: a
\* record older than the retention is not put into buckets.
WithBuckets(table, added) ==
  [k \in BucketKeys |->
     table[k] + Cardinality({i \in DOMAIN added :
       /\ Retained(added[i])
       /\ added[i].backend = k.backend
       /\ FloorTo(added[i].start, Unit(k.grain)) = k.start})]

\* A table that is written to exists afterwards.
Created(name, written) == IF written THEN {name} ELSE {}
AnyRetained(added) == \E i \in DOMAIN added : Retained(added[i])

\* apply_request_rollup.
ApplyRequests(added) ==
  /\ tables' = [tables EXCEPT !.requestAll = WithAll(@, added),
                              !.requestBucket = WithBuckets(@, added)]
  /\ missing' = missing \ (Created("requestAll", DOMAIN added # {})
                           \cup Created("requestBucket", AnyRetained(added)))

\* prune_stats: buckets that begin before the cutoff are dropped.
PruneCutoff == FloorTo(now - Retention, Minute)

Pruned(table) ==
  [k \in BucketKeys |-> IF k.start >= PruneCutoff THEN table[k] ELSE 0]

PruneExpired ==
  /\ tables' = [tables EXCEPT !.requestBucket = Pruned(@), !.attemptBucket = Pruned(@)]
  /\ missing' = missing \ {"requestBucket", "attemptBucket"}


-----------------------------------------------------------------------------
(* Starting: AppState::new up to its last use of the schema.               *)

\* Store::open: every table exists afterwards, and one of a foreign type is
\* replaced by an empty one.
Open ==
  /\ server = "down"
  /\ tables' = [name \in TableNames |-> IF name \in foreign THEN Empty[name] ELSE tables[name]]
  /\ missing' = {} /\ foreign' = {}
  /\ server' = "opened"
  /\ UNCHANGED <<ledgers, meta, bucketMeta, now, bounds>>

\* rename_backend.  The rollups are not renamed.
Renamed(ledger) ==
  [id \in DOMAIN ledger |->
     IF ledger[id] # None /\ ledger[id].backend = Old
     THEN [ledger[id] EXCEPT !.backend = New] ELSE ledger[id]]

RenameBackend == requests' = Renamed(requests) /\ attempts' = Renamed(attempts)

\* The configuration has the new name and not the old one, or not.
MaybeRename == RenameBackend \/ UNCHANGED ledgers

BeginSchema ==
  /\ server = "opened"
  /\ MaybeRename
  /\ server' = "migrating"
  /\ UNCHANGED <<derived, now, bounds>>

\* stats_meta, or its default.
Progress == IF meta = None THEN NewMeta("current") ELSE meta
BucketProgress == IF bucketMeta = None THEN [cursor |-> 0, ready |-> FALSE] ELSE bucketMeta

\* reset_rollups.
M_ResetKeepsBuckets(version) ==
  /\ tables' = Empty /\ missing' = TableNames /\ foreign' = {}
  /\ meta' = NewMeta(version) /\ bucketMeta' = bucketMeta

M_ResetMarkerOnly(version) ==
  /\ UNCHANGED <<tables, missing, foreign>>
  /\ meta' = NewMeta(version) /\ bucketMeta' = None

ResetRollups(version) ==
  /\ tables' = Empty /\ missing' = TableNames /\ foreign' = {}
  /\ meta' = NewMeta(version) /\ bucketMeta' = None

Migrating(phase) ==
  /\ server = "migrating"
  /\ Progress.version = "current" /\ Progress.phase = phase

Upgrade ==
  /\ server = "migrating" /\ Progress.version = "older"
  /\ ResetRollups("current")
  /\ UNCHANGED <<ledgers, server, now, bounds>>

\* read_batch: the next records after the cursor, in the order of their keys.
After(ledger, cursor) == {id \in DOMAIN ledger : ledger[id] # None /\ id > cursor}
BatchKeys(ledger, cursor) ==
  {id \in After(ledger, cursor) : Cardinality({i \in After(ledger, cursor) : i < id}) < Batch}
ReadBatch(ledger, cursor) == Restrict(ledger, BatchKeys(ledger, cursor))

Advanced(cursor, rows) == IF DOMAIN rows = {} THEN cursor ELSE Max(DOMAIN rows)

M_ExhaustedByMore(rows) == Cardinality(DOMAIN rows) > Batch
Exhausted(rows) == Cardinality(DOMAIN rows) < Batch

\* backfill_requests_batch.
BackfillRequests ==
  LET rows == ReadBatch(requests, Progress.requestCursor) IN
  /\ Migrating("requests")
  /\ ApplyRequests(rows)
  /\ meta' = [Progress EXCEPT !.requestCursor = Advanced(@, rows),
                              !.phase = IF Exhausted(rows) THEN "attempts" ELSE @]
  /\ UNCHANGED <<ledgers, foreign, bucketMeta, server, now, bounds>>

\* backfill_attempts_batch.
BackfillAttempts ==
  LET rows == ReadBatch(attempts, Progress.attemptCursor) IN
  /\ Migrating("attempts")
  /\ tables' = [tables EXCEPT !.attemptAll = WithAll(@, rows)]
  /\ missing' = missing \ Created("attemptAll", DOMAIN rows # {})
  /\ meta' = [Progress EXCEPT !.attemptCursor = Advanced(@, rows),
                              !.phase = IF Exhausted(rows) THEN "ready" ELSE @]
  /\ UNCHANGED <<ledgers, foreign, bucketMeta, server, now, bounds>>

\* backfill_attempt_buckets_batch.
BackfillAttemptBuckets ==
  LET rows == ReadBatch(attempts, BucketProgress.cursor) IN
  /\ Migrating("ready") /\ ~BucketProgress.ready
  /\ tables' = [tables EXCEPT !.attemptBucket = WithBuckets(@, rows)]
  /\ missing' = missing \ Created("attemptBucket", AnyRetained(rows))
  /\ bucketMeta' = [cursor |-> Advanced(BucketProgress.cursor, rows), ready |-> Exhausted(rows)]
  /\ UNCHANGED <<ledgers, foreign, meta, server, now, bounds>>

\* The end of ensure_stats_schema.
BeginServing ==
  /\ Migrating("ready") /\ BucketProgress.ready
  /\ PruneExpired
  /\ server' = "serving"
  /\ UNCHANGED <<ledgers, foreign, meta, bucketMeta, now, bounds>>

Migrate ==
  \/ Open \/ BeginSchema \/ Upgrade
  \/ BackfillRequests \/ BackfillAttempts \/ BackfillAttemptBuckets
  \/ BeginServing

-----------------------------------------------------------------------------
(* Serving.                                                                *)

\* A record that is written now.
Records ==
  {[start |-> Later(now - age, 0), backend |-> backend] : age \in Ages, backend \in Routed}

\* record_request, of an id that is not there: a second one with the same
\* contents changes nothing, one with others is refused.
RecordRequest ==
  /\ server = "serving"
  /\ \E id \in RequestIds, record \in Records :
       /\ requests[id] = None
       /\ requests' = [requests EXCEPT ![id] = record]
       /\ ApplyRequests([i \in {id} |-> record])
  /\ UNCHANGED <<attempts, foreign, meta, bucketMeta, server, now, bounds>>

\* record_attempt.
RecordAttempt ==
  /\ server = "serving"
  /\ \E id \in AttemptIds, record \in Records :
       LET added == [i \in {id} |-> record] IN
       /\ attempts[id] = None
       /\ attempts' = [attempts EXCEPT ![id] = record]
       /\ tables' = [tables EXCEPT !.attemptAll = WithAll(@, added),
                                   !.attemptBucket = WithBuckets(@, added)]
       /\ missing' = missing \ ({"attemptAll"} \cup Created("attemptBucket", Retained(record)))
  /\ UNCHANGED <<requests, foreign, meta, bucketMeta, server, now, bounds>>

\* The hourly task.
Prune ==
  /\ server = "serving"
  /\ PruneExpired
  /\ UNCHANGED <<ledgers, foreign, meta, bucketMeta, server, now, bounds>>

\* A live save builds another AppState on the same store: the name may be
\* migrated now, the schema is ready, old buckets are pruned.
LiveSave ==
  /\ server = "serving"
  /\ MaybeRename
  /\ PruneExpired
  /\ UNCHANGED <<foreign, meta, bucketMeta, server, now, bounds>>

-----------------------------------------------------------------------------
(* What happens around the process.                                        *)

Crash ==
  /\ server # "down" /\ stops < MaxStops
  /\ server' = "down" /\ stops' = stops + 1
  /\ UNCHANGED <<ledgers, derived, now, downgrades>>

\* quotamux-stats-downgrade, with the process stopped.
Downgrade ==
  /\ server = "down" /\ downgrades < MaxDowngrades
  /\ ResetRollups("older")
  /\ downgrades' = downgrades + 1
  /\ UNCHANGED <<ledgers, server, now, stops>>

\* A binary of an older schema runs on the directory for a while.  It refuses
\* one of this schema; it adds to the ledgers and leaves rollups of its own,
\* of types this one knows or does not know.  The oldest kept no rollups.
RunOlder ==
  /\ server = "down"
  /\ meta # None => meta.version = "older"
  /\ LET record == [start |-> now, backend |-> Old] IN
     \/ \E id \in RequestIds :
          /\ requests[id] = None
          /\ requests' = [requests EXCEPT ![id] = record] /\ UNCHANGED attempts
     \/ \E id \in AttemptIds :
          /\ attempts[id] = None
          /\ attempts' = [attempts EXCEPT ![id] = record] /\ UNCHANGED requests
     \/ UNCHANGED ledgers
  /\ \/ meta = None /\ UNCHANGED derived
     \/ /\ meta' = [NewMeta("older") EXCEPT !.phase = "ready"]
        /\ bucketMeta' = [cursor |-> 0, ready |-> TRUE]
        /\ tables' = [Empty EXCEPT !.requestAll[Old] = 1, !.attemptAll[Old] = 1]
        /\ foreign' \in {{}, TableNames} /\ missing' = {}
  /\ UNCHANGED <<server, now, bounds>>

Tick ==
  /\ now < MaxTime /\ now' = now + 1
  /\ UNCHANGED <<ledgers, derived, server, bounds>>

Next ==
  \/ Migrate
  \/ RecordRequest \/ RecordAttempt \/ Prune \/ LiveSave
  \/ Crash \/ Downgrade \/ RunOlder \/ Tick

Spec == Init /\ [][Next]_vars

\* A process that has been started goes on, and is started again after it
\* crashed.
FairSpec == Spec /\ WF_vars(Migrate)

-----------------------------------------------------------------------------
(* Properties.                                                             *)

\* The records the current schema has counted so far.
CountedRequests ==
  {id \in RequestIds : requests[id] # None /\
     (meta.phase = "requests" => id <= meta.requestCursor)}
CountedAttempts ==
  {id \in AttemptIds : attempts[id] # None /\
     CASE meta.phase = "requests" -> FALSE
       [] meta.phase = "attempts" -> id <= meta.attemptCursor
       [] meta.phase = "ready"    -> TRUE}

\* "All-time totals are rebuilt exactly": at every moment, also between two
\* batches of an interrupted migration, the all-time rollups of this schema
\* count every record of the ledger it has come to once and no other, be
\* there what there was before it.
TotalsExact ==
  meta # None /\ meta.version = "current" =>
    /\ AllTime(tables.requestAll) = Cardinality(CountedRequests)
    /\ AllTime(tables.attemptAll) = Cardinality(CountedAttempts)

StartedIn(ledger, from, to) ==
  {id \in DOMAIN ledger :
     ledger[id] # None /\ from <= ledger[id].start /\ ledger[id].start < to}

\* Every window a page can ask for counts the records of the ledger that
\* started in it, once each: minutes and hours neither overlap nor leave a
\* gap, and what was pruned, or has come too late for its bucket, lies
\* outside.  And what require_stats_ready asks of every live write is so.
WindowsExact ==
  server = "serving" =>
    /\ meta \in Meta /\ meta.version = "current" /\ meta.phase = "ready"
    /\ bucketMeta \in BucketMeta /\ bucketMeta.ready /\ foreign = {}
    /\ \A window \in Windows :
         LET to == FloorTo(now, Minute)
             from == to - window
         IN
         /\ WindowCount(tables.requestBucket, from, to) = Cardinality(StartedIn(requests, from, to))
         /\ WindowCount(tables.attemptBucket, from, to) = Cardinality(StartedIn(attempts, from, to))

\* A start gets through the migration, however often it is interrupted.
MigrationEnds == server = "opened" ~> server = "serving"

\* "Upgraded at startup by dropping the derived rollup tables and rebuilding
\* them": while the process serves, the pages find all the tables.
TablesRebuilt == server = "serving" => missing = {}

=============================================================================
