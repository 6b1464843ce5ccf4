---------------------------- MODULE CircuitProofs ---------------------------
(***************************************************************************)
(* Proofs about one circuit, for every schedule, lease and sampling lag.   *)
(*                                                                         *)
(* Parts 1 to 3, about the transitions of its snapshot, which the proofs   *)
(* of Gateway and LiveSaves cite too.  Part 1: what they preserve.  Part   *)
(* 2: the real tables satisfy what CircuitState assumes of a schedule, and *)
(* with them the breaker waits as documented.  Part 3: what the            *)
(* classifiers make of refusals is what these tables are for.              *)
(*                                                                         *)
(* Parts 4 to 7, about Circuit, for every set of requests.  Part 4: the    *)
(* types.  Part 5: the inductive invariant.  Part 6: one backoff per       *)
(* incident.  Part 7: the contract.                                        *)
(***************************************************************************)
EXTENDS Circuit, RetryPolicy, Classification, SequenceTheorems, TLAPS

-----------------------------------------------------------------------------
(* Part 1.  The transitions of a snapshot.                                 *)

\* A snapshot the breaker can be in: typed, with the options its mode needs.
Sound == {s \in Snapshot : WellFormed(s)}

\* Part of the assumptions on the schedule, in the form the provers use.
LEMMA ScheduleFacts ==
  ASSUME NEW class \in FailureClasses
  PROVE  /\ Schedule[class] \in Seq(Nat)
         /\ Len(Schedule[class]) \in Nat \ {0}
         /\ SlowestDelay(class) \in Nat
         /\ AbandonDelay <= SlowestDelay(class)
         /\ \A i \in 1..Len(Schedule[class]) :
              Schedule[class][i] \in Nat /\ Schedule[class][i] <= SlowestDelay(class)
<1>1. Schedule[class] \in Seq(Nat) /\ Schedule[class] # <<>>
  BY ScheduleAssumption
<1>2. Len(Schedule[class]) \in Nat \ {0}
  BY <1>1, EmptySeq
<1>3. DOMAIN Schedule[class] = 1..Len(Schedule[class])
  BY <1>1
<1>4. \A i \in 1..Len(Schedule[class]) : Schedule[class][i] \in Nat
  BY <1>1
<1> QED
  BY <1>1, <1>2, <1>3, <1>4, ScheduleAssumption DEF SlowestDelay

\* Whatever hint the provider sends, the delay is a natural number no larger
\* than the slowest delay of the class (retry_delay, maximum_retry_delay).
LEMMA RetryDelayBounded ==
  ASSUME NEW class \in FailureClasses, NEW level \in Nat,
         NEW hint \in Nat \cup {None}
  PROVE  /\ RetryDelay(class, level, hint) \in Nat
         /\ RetryDelay(class, level, hint) <= SlowestDelay(class)
<1>1. CASE HonoursHint(class) /\ hint # None
  BY <1>1, ScheduleFacts DEF RetryDelay, Lesser
<1>2. CASE ~(HonoursHint(class) /\ hint # None)
  <2>1. Lesser(level + 1, Len(Schedule[class])) \in 1..Len(Schedule[class])
    BY ScheduleFacts DEF Lesser
  <2> QED
    BY <1>2, <2>1, ScheduleFacts DEF RetryDelay, ScheduledDelay
<1> QED
  BY <1>1, <1>2

LEMMA FreshSound ==
  ASSUME NEW g \in Nat
  PROVE  Fresh(g) \in Sound
BY NoneAssumption DEF Fresh, Sound, Snapshot, WellFormed, Modes, Timer

LEMMA UnavailableModes ==
  ASSUME NEW reason
  PROVE  UnavailableMode(reason) \in {"Open", "Suspended"}
BY DEF UnavailableMode

\* What a sound snapshot holds when it is not closed.
LEMMA SoundFields ==
  ASSUME NEW s \in Sound
  PROVE  /\ s \in Snapshot /\ WellFormed(s)
         /\ s.generation \in Nat /\ s.failures \in Nat /\ s.backoff \in Nat
         /\ s.mode # "Closed" => s.reason \in FailureClasses /\ s.next \in Int
         /\ s.mode = "HalfOpen" => s.lease \in Int
BY DEF Sound, Snapshot, WellFormed, Timer

LEMMA ReleasedSound ==
  ASSUME NEW s \in Sound, s.mode # "Closed", NEW wait \in Int
  PROVE  /\ Released(s, wait) \in Sound
         /\ Released(s, wait).mode = UnavailableMode(s.reason)
         /\ Released(s, wait).reason = s.reason
         /\ Released(s, wait).next = wait
         /\ Released(s, wait).failures = s.failures
         /\ Released(s, wait).generation = s.generation + 1
<1> DEFINE g == s.generation + 1
           m == UnavailableMode(s.reason)
           t == [s EXCEPT !.mode = m, !.next = wait, !.probing = FALSE,
                          !.lease = None, !.generation = g]
<1>1. s \in Snapshot /\ WellFormed(s) /\ g \in Nat
  BY SoundFields
<1>2. m \in {"Open", "Suspended"}
  BY UnavailableModes
<1>3. Released(s, wait) = t
  BY DEF Released
<1> HIDE DEF g, m
<1>4. t \in Snapshot
  BY <1>1, <1>2 DEF Snapshot, Modes, Timer
<1>5. /\ t.mode = m /\ t.reason = s.reason /\ t.next = wait
      /\ t.probing = FALSE /\ t.lease = None
      /\ t.failures = s.failures /\ t.generation = g
  BY <1>1 DEF Snapshot
<1>6. WellFormed(t)
  BY <1>1, <1>2, <1>5, NoneAssumption DEF WellFormed, m
<1> QED
  BY <1>3, <1>4, <1>5, <1>6 DEF Sound, g, m

LEMMA HalfOpenedSound ==
  ASSUME NEW s \in Sound, s.mode # "Closed", NEW lag \in 0..MaxLag
  PROVE  /\ HalfOpened(s, lag) \in Sound
         /\ HalfOpened(s, lag).mode = "HalfOpen"
         /\ HalfOpened(s, lag).failures = s.failures
         /\ HalfOpened(s, lag).generation = s.generation
<1> DEFINE l == ProbeLease - lag
           t == [s EXCEPT !.mode = "HalfOpen", !.probing = TRUE, !.lease = l]
<1>1. s \in Snapshot /\ WellFormed(s) /\ l \in Int
  BY DelayAssumption, SoundFields
<1>2. HalfOpened(s, lag) = t
  BY DEF HalfOpened
<1> HIDE DEF l
<1>3. t \in Snapshot
  BY <1>1 DEF Snapshot, Modes, Timer
<1>4. /\ t.mode = "HalfOpen" /\ t.reason = s.reason /\ t.next = s.next
      /\ t.probing = TRUE /\ t.lease = l
      /\ t.failures = s.failures /\ t.generation = s.generation
  BY <1>1 DEF Snapshot
<1>5. WellFormed(t)
  BY <1>1, <1>4, NoneAssumption DEF WellFormed
<1> QED
  BY <1>2, <1>3, <1>4, <1>5 DEF Sound

LEMMA TrippedSound ==
  ASSUME NEW s \in Sound, NEW class \in FailureClasses,
         NEW hint \in Nat \cup {None}
  PROVE  /\ Tripped(s, class, hint) \in Sound
         /\ Tripped(s, class, hint).mode = UnavailableMode(class)
         /\ Tripped(s, class, hint).reason = class
         /\ Tripped(s, class, hint).next <= SlowestDelay(class)
         /\ Tripped(s, class, hint).failures = s.failures + 1
         /\ Tripped(s, class, hint).backoff <= s.backoff + 1
         /\ Tripped(s, class, hint).generation = s.generation + 1
<1> DEFINE level == IF s.reason = class THEN s.backoff ELSE 0
           m == UnavailableMode(class)
           delay == RetryDelay(class, level, hint)
           f == s.failures + 1
           b == level + 1
           g == s.generation + 1
           t == [ mode |-> m, reason |-> class, next |-> delay,
                  failures |-> f, backoff |-> b, probing |-> FALSE,
                  lease |-> None, generation |-> g ]
<1>1. /\ s \in Snapshot /\ level \in Nat /\ f \in Nat /\ g \in Nat
      /\ b \in Nat /\ b <= s.backoff + 1
  BY SoundFields
<1>2. m \in {"Open", "Suspended"}
  BY UnavailableModes
<1>3. Tripped(s, class, hint) = t
  BY DEF Tripped
<1> HIDE DEF level, m, f, b, g
<1>4. delay \in Nat /\ delay <= SlowestDelay(class)
  BY <1>1, RetryDelayBounded
<1> HIDE DEF delay
<1>5. t \in Snapshot
  BY <1>1, <1>2, <1>4 DEF Snapshot, Modes, Timer
<1>6. /\ t.mode = m /\ t.reason = class /\ t.next = delay
      /\ t.probing = FALSE /\ t.lease = None
      /\ t.failures = f /\ t.backoff = b /\ t.generation = g
  OBVIOUS
<1>7. WellFormed(t)
  BY <1>2, <1>4, <1>6, NoneAssumption DEF WellFormed, m
<1> QED
  BY <1>1, <1>3, <1>4, <1>5, <1>6, <1>7 DEF Sound, m, f, g

LEMMA AgedSound ==
  ASSUME NEW s \in Sound, NEW time \in Int
  PROVE  /\ Aged(s, time) \in Sound
         /\ Aged(s, time).mode = s.mode
         /\ Aged(s, time).reason = s.reason
         /\ Aged(s, time).next = AgedTimer(s.next, time)
         /\ Aged(s, time).failures = s.failures
         /\ Aged(s, time).generation = s.generation
<1> DEFINE n == AgedTimer(s.next, time)
           l == AgedTimer(s.lease, time)
           t == [s EXCEPT !.next = n, !.lease = l]
<1>1. /\ \A left \in Int : AgedTimer(left, time) \in Int
      /\ AgedTimer(None, time) = None
  BY NoneAssumption, DelayAssumption DEF AgedTimer, Greater
<1>2. /\ s \in Snapshot /\ WellFormed(s) /\ s.next \in Timer /\ s.lease \in Timer
      /\ n \in Timer /\ l \in Timer
      /\ n = None <=> s.next = None
      /\ l = None <=> s.lease = None
  BY <1>1, NoneAssumption DEF Sound, Snapshot, Timer
<1>3. Aged(s, time) = t
  BY DEF Aged
<1> HIDE DEF n, l
<1>4. t \in Snapshot
  BY <1>2 DEF Snapshot
<1>5. /\ t.mode = s.mode /\ t.reason = s.reason /\ t.next = n
      /\ t.failures = s.failures /\ t.backoff = s.backoff
      /\ t.probing = s.probing /\ t.lease = l /\ t.generation = s.generation
  BY <1>2 DEF Snapshot
<1>6. ASSUME s.mode = "Closed"
      PROVE  t = Fresh(t.generation)
  <2>1. s = Fresh(s.generation)
    BY <1>2, <1>6 DEF WellFormed
  <2>2. n = None /\ l = None
    BY <1>2, <2>1 DEF Fresh
  <2>3. t = s
    BY <1>2, <2>1, <2>2 DEF Snapshot, Fresh
  <2> QED
    BY <2>1, <2>3
<1>7. WellFormed(t)
  BY <1>2, <1>5, <1>6 DEF WellFormed
<1> QED
  BY <1>3, <1>4, <1>5, <1>7 DEF Sound, n

LEMMA LoadedSound ==
  ASSUME NEW s \in Sound
  PROVE  /\ Loaded(s) \in Sound
         /\ Loaded(s).mode # "HalfOpen"
         /\ Loaded(s).mode # "Closed" =>
              Loaded(s).next <= SlowestDelay(Loaded(s).reason)
<1>1. CASE s.mode = "HalfOpen"
  <2>1. Loaded(s) = Released(s, 0)
    BY <1>1 DEF Loaded
  <2>2. s.reason \in FailureClasses
    BY <1>1, SoundFields
  <2> QED
    BY <1>1, <2>1, <2>2, ReleasedSound, UnavailableModes, ScheduleFacts
<1>2. CASE s.mode \in {"Open", "Suspended"}
  <2> DEFINE n == Lesser(s.next, SlowestDelay(s.reason))
             t == [s EXCEPT !.next = n]
  <2>1. /\ s \in Snapshot /\ WellFormed(s)
        /\ s.reason \in FailureClasses /\ s.next \in Int
    BY <1>2, SoundFields
  <2>2. Loaded(s) = t
    BY <1>2, <2>1, NoneAssumption DEF Loaded, Clamped, ClampClass
  <2>3. n \in Int /\ n <= SlowestDelay(s.reason)
    BY <2>1, ScheduleFacts DEF Lesser
  <2> HIDE DEF n
  <2>4. t \in Snapshot
    BY <2>1, <2>3 DEF Snapshot, Timer
  <2>5. /\ t.mode = s.mode /\ t.reason = s.reason /\ t.next = n
        /\ t.probing = s.probing /\ t.lease = s.lease
    BY <2>1 DEF Snapshot
  <2>6. WellFormed(t)
    BY <1>2, <2>1, <2>3, <2>5, NoneAssumption DEF WellFormed
  <2> QED
    BY <1>2, <2>2, <2>3, <2>4, <2>5, <2>6 DEF Sound
<1>3. CASE s.mode = "Closed"
  BY <1>3 DEF Loaded
<1> QED
  BY <1>1, <1>2, <1>3 DEF Sound, Snapshot, Modes

\* Reclaiming an expired lease keeps the snapshot sound; what decide does
\* next is decided on the result.
LEMMA ReclaimedSound ==
  ASSUME NEW s \in Sound, NEW lag \in 0..MaxLag
  PROVE  /\ Reclaimed(s, lag) \in Sound
         /\ Reclaimed(s, lag).failures = s.failures
         /\ \/ Reclaimed(s, lag) = s
            \/ /\ s.mode = "HalfOpen"
               /\ Reclaimed(s, lag).generation = s.generation + 1
               /\ Reclaimed(s, lag).mode \in {"Open", "Suspended"}
<1>1. CASE s.mode = "HalfOpen" /\ Due(s.lease, lag)
  <2>1. Reclaimed(s, lag) = Released(s, -lag) /\ -lag \in Int
    BY <1>1, DelayAssumption DEF Reclaimed
  <2> QED
    BY <1>1, <2>1, ReleasedSound, UnavailableModes
<1>2. CASE ~(s.mode = "HalfOpen" /\ Due(s.lease, lag))
  BY <1>2 DEF Reclaimed
<1> QED
  BY <1>1, <1>2

\* What a completion does to a snapshot: nothing, because the permit is from
\* an older generation or the circuit has moved on, or it ends the generation
\* and leaves the circuit closed or unavailable, never half-open.
Moved(s, t) ==
  /\ t.generation = s.generation + 1
  /\ t.mode # "HalfOpen"
  /\ t.mode # "Closed" => t.next <= SlowestDelay(t.reason)

LEMMA AbandonedFacts ==
  ASSUME NEW s \in Sound, NEW p \in Permits
  PROVE  /\ Abandoned(s, p) \in Sound
         /\ TakesAbandonment(s, p) => Moved(s, Abandoned(s, p))
         /\ ~TakesAbandonment(s, p) => Abandoned(s, p) = s
         /\ Abandoned(s, p).failures = s.failures
<1>1. CASE TakesAbandonment(s, p)
  <2>1. s.mode = "HalfOpen" /\ Abandoned(s, p) = Released(s, AbandonDelay)
    BY <1>1 DEF Abandoned, TakesAbandonment
  <2>2. s.reason \in FailureClasses /\ AbandonDelay \in Int
    BY <2>1, SoundFields, DelayAssumption
  <2> QED
    BY <1>1, <2>1, <2>2, ReleasedSound, UnavailableModes, ScheduleFacts DEF Moved
<1>2. CASE ~TakesAbandonment(s, p)
  BY <1>2 DEF Abandoned
<1> QED
  BY <1>1, <1>2

LEMMA SucceededFacts ==
  ASSUME NEW s \in Sound, NEW p \in Permits
  PROVE  /\ Succeeded(s, p) \in Sound
         /\ TakesSuccess(s, p) => Moved(s, Succeeded(s, p))
         /\ ~TakesSuccess(s, p) => Succeeded(s, p) = s
         /\ Succeeded(s, p).failures <= s.failures
<1>1. Fresh(s.generation + 1) \in Sound /\ s.failures \in Nat
  BY SoundFields, FreshSound
<1> QED
  BY <1>1 DEF Succeeded, Moved, Fresh

LEMMA FailedFacts ==
  ASSUME NEW s \in Sound, NEW p \in Permits, NEW class \in FailureClasses,
         NEW hint \in Nat \cup {None}
  PROVE  /\ Failed(s, p, class, hint) \in Sound
         /\ \/ Failed(s, p, class, hint) = s
            \/ Moved(s, Failed(s, p, class, hint))
         /\ TakesAbandonment(s, p) => Moved(s, Failed(s, p, class, hint))
         /\ Failed(s, p, class, hint).failures # s.failures =>
              /\ TakesFailure(s, p)
              /\ Failed(s, p, class, hint).failures = s.failures + 1
              /\ Failed(s, p, class, hint).backoff <= s.backoff + 1
         /\ \/ Failed(s, p, class, hint) = s
            \/ TakesAbandonment(s, p)
            \/ /\ TakesFailure(s, p)
               /\ Failed(s, p, class, hint).mode \in {"Open", "Suspended"}
<1>1. CASE ~AffectsCircuit(class)
  BY <1>1, AbandonedFacts DEF Failed
<1>2. CASE AffectsCircuit(class) /\ TakesFailure(s, p)
  BY <1>2, TrippedSound, UnavailableModes DEF Failed, Moved
<1>3. CASE AffectsCircuit(class) /\ ~TakesFailure(s, p)
  BY <1>3 DEF Failed, TakesFailure, TakesAbandonment
<1> QED
  BY <1>1, <1>2, <1>3

-----------------------------------------------------------------------------
(* Part 2.  The tables of circuit.rs.                                      *)

\* Every table is a sequence of delays whose last is the largest.
LEMMA EveryRow ==
  ASSUME NEW class \in FailureClasses
  PROVE  LET longest == ScheduleFor[class][Len(ScheduleFor[class])] IN
         /\ ScheduleFor[class] \in Seq(Nat) \ {<<>>}
         /\ \A i \in DOMAIN ScheduleFor[class] : ScheduleFor[class][i] <= longest
         /\ AbandonedProbeRetry <= longest
<1>1. ScheduleFor[class] \in {Transient, Capacity, Slow, Quota, Billing}
  BY DEF ScheduleFor
<1>2. CASE ScheduleFor[class] = Transient
  BY <1>2 DEF Transient, AbandonedProbeRetry
<1>3. CASE ScheduleFor[class] = Capacity
  BY <1>3 DEF Capacity, AbandonedProbeRetry
<1>4. CASE ScheduleFor[class] = Slow
  BY <1>4 DEF Slow, AbandonedProbeRetry
<1>5. CASE ScheduleFor[class] = Quota
  BY <1>5 DEF Quota, AbandonedProbeRetry
<1>6. CASE ScheduleFor[class] = Billing
  BY <1>6 DEF Billing, AbandonedProbeRetry
<1> QED
  BY <1>1, <1>2, <1>3, <1>4, <1>5, <1>6

\* The assumptions of CircuitState about delays, for the constants of
\* circuit.rs: no backoff level is slower than the last of its table, which
\* is also the ceiling of a hint, and an abandoned probe is never put off
\* further than that (schedule_for, maximum_retry_delay, the two constants).
THEOREM RealTables ==
  /\ ScheduleFor \in [FailureClasses -> Seq(Nat) \ {<<>>}]
  /\ \A class \in FailureClasses :
       LET longest == ScheduleFor[class][Len(ScheduleFor[class])] IN
       /\ AbandonedProbeRetry <= longest
       /\ \A i \in DOMAIN ScheduleFor[class] : ScheduleFor[class][i] <= longest
  /\ AbandonedProbeRetry \in Nat /\ TheProbeLease \in Nat /\ 0 < TheProbeLease
<1>1. \A class \in FailureClasses : ScheduleFor[class] \in Seq(Nat) \ {<<>>}
  BY EveryRow
<1>2. ScheduleFor \in [FailureClasses -> Seq(Nat) \ {<<>>}]
  BY <1>1 DEF ScheduleFor
<1>3. \A class \in FailureClasses :
        LET longest == ScheduleFor[class][Len(ScheduleFor[class])] IN
        /\ AbandonedProbeRetry <= longest
        /\ \A i \in DOMAIN ScheduleFor[class] : ScheduleFor[class][i] <= longest
  BY EveryRow
<1> QED
  BY <1>2, <1>3 DEF AbandonedProbeRetry, TheProbeLease

\* A level past the end of a table is served its last delay.
LEMMA RowDelay ==
  ASSUME Schedule = ScheduleFor,
         NEW class \in DocumentedClasses, NEW n \in Nat \ {0}
  PROVE  ScheduledDelay(class, n - 1) = Row(class, n)
<1> USE DEF Transients, Setups, DocumentedClasses, FailureClasses
<1>1. CASE class \in Transients
  <2>1. ScheduleFor[class] = Transient
    BY <1>1 DEF ScheduleFor
  <2>2. ScheduledDelay(class, n - 1) = IF n <= 7 THEN Transient[n] ELSE Transient[7]
    BY <2>1 DEF ScheduledDelay, Lesser, Transient
  <2>3. Row(class, n) = IF n <= 7 THEN Transient[n] ELSE Transient[7]
    BY <1>1 DEF Row, Minutes, Transient
  <2> QED
    BY <2>2, <2>3
<1>2. CASE class = "ProviderCapacity"
  <2>1. ScheduleFor[class] = Capacity
    BY <1>2 DEF ScheduleFor
  <2>2. ScheduledDelay(class, n - 1) = IF n <= 3 THEN Capacity[n] ELSE Capacity[3]
    BY <2>1 DEF ScheduledDelay, Lesser, Capacity
  <2>3. Row(class, n) = IF n <= 3 THEN Capacity[n] ELSE Capacity[3]
    BY <1>2 DEF Row, Minutes, Capacity
  <2> QED
    BY <2>2, <2>3
<1>3. CASE class = "ProviderQuota"
  <2>1. ScheduleFor[class] = Quota
    BY <1>3 DEF ScheduleFor
  <2>2. ScheduledDelay(class, n - 1) = IF n <= 3 THEN Quota[n] ELSE Quota[3]
    BY <2>1 DEF ScheduledDelay, Lesser, Quota
  <2>3. Row(class, n) = IF n <= 3 THEN Quota[n] ELSE Quota[3]
    BY <1>3 DEF Row, Minutes, Quota
  <2> QED
    BY <2>2, <2>3
<1>4. CASE class \in Setups
  <2>1. ScheduleFor[class] = Slow
    BY <1>4 DEF ScheduleFor
  <2>2. ScheduledDelay(class, n - 1) = IF n <= 3 THEN Slow[n] ELSE Slow[3]
    BY <2>1 DEF ScheduledDelay, Lesser, Slow
  <2>3. Row(class, n) = IF n <= 3 THEN Slow[n] ELSE Slow[3]
    BY <1>4 DEF Row, Minutes, Slow
  <2> QED
    BY <2>2, <2>3
<1>5. CASE class = "ProviderBilling"
  <2>1. ScheduleFor[class] = Billing
    BY <1>5 DEF ScheduleFor
  <2>2. ScheduledDelay(class, n - 1) = IF n <= 1 THEN Billing[n] ELSE Billing[1]
    BY <2>1 DEF ScheduledDelay, Lesser, Billing
  <2>3. Row(class, n) = IF n <= 1 THEN Billing[n] ELSE Billing[1]
    BY <1>5 DEF Row, Minutes, Billing
  <2> QED
    BY <2>2, <2>3
<1> QED
  BY <1>1, <1>2, <1>3, <1>4, <1>5

\* The ceiling of a hint is the last delay of its row.
LEMMA RowLimit ==
  ASSUME Schedule = ScheduleFor,
         NEW class \in DocumentedClasses
  PROVE  /\ HonoursHint(class) <=> ~HintIgnored(class)
         /\ HonoursHint(class) => SlowestDelay(class) = HintLimit(class)
         /\ SlowestDelay(class) = Row(class, 7)
BY DEF HonoursHint, HintIgnored, HintLimit, SlowestDelay, ScheduleFor, Transients, Setups,
       DocumentedClasses, Row, Minutes, FailureClasses, Transient, Capacity, Quota, Slow, Billing

\* The n-th failure of one meaning in a row, whatever the circuit went
\* through in between, keeps its target away for the n-th delay of the
\* documented row, or for the hint if the row accepts one, capped
\* (complete_failure, retry_delay, docs/provider-failure-policy.md).
THEOREM DelayFollowsTable ==
  ASSUME Schedule = ScheduleFor,
         NEW s \in Snapshot, NEW class \in DocumentedClasses, NEW hint \in Nat \cup {None}
  PROVE  LET n == IF s.reason = class THEN s.backoff + 1 ELSE 1 IN
         Tripped(s, class, hint).next = DocumentedDelay(class, n, hint)
<1> DEFINE level == IF s.reason = class THEN s.backoff ELSE 0
<1>1. level \in Nat
  BY DEF Snapshot
<1>2. ScheduledDelay(class, level) = Row(class, level + 1)
  <2>1. level + 1 \in Nat \ {0} /\ (level + 1) - 1 = level
    BY <1>1
  <2> QED
    BY <2>1, RowDelay
<1>3. Tripped(s, class, hint).next = RetryDelay(class, level, hint)
  BY DEF Tripped
<1>4. RetryDelay(class, level, hint) = DocumentedDelay(class, level + 1, hint)
  BY <1>2, RowLimit DEF RetryDelay, DocumentedDelay
<1>5. level + 1 = IF s.reason = class THEN s.backoff + 1 ELSE 1
  OBVIOUS
<1> QED
  BY <1>3, <1>4, <1>5

\* "Loading an older open or suspended circuit also clamps any previously
\* persisted deadline": whatever deadline the record of an older version
\* holds, after a start its target is away no longer than the last delay of
\* its row (CircuitBreaker::load).
THEOREM LoadedWithinTable ==
  ASSUME Schedule = ScheduleFor,
         NEW s \in Snapshot, s.mode \in {"Open", "Suspended"},
         s.reason \in DocumentedClasses, s.reason # None, s.next \in Int, s.next # None
  PROVE  Loaded(s).next <= Row(s.reason, 7)
<1>1. SlowestDelay(s.reason) = Row(s.reason, 7)
  BY RowLimit
<1>2. Loaded(s).next = Lesser(s.next, SlowestDelay(s.reason))
  BY DEF Loaded, Clamped, ClampClass, Snapshot
<1>3. SlowestDelay(s.reason) \in Int
  BY DEF SlowestDelay, ScheduleFor, Transients, Setups, DocumentedClasses, FailureClasses,
         Transient, Capacity, Quota, Slow, Billing
<1> QED
  BY <1>1, <1>2, <1>3 DEF Lesser

-----------------------------------------------------------------------------
(* Part 3.  The verdicts.                                                  *)

\* What a class must be when an adapter reports it for this refusal.
FollowsPolicy(class, adapter, status, d) ==
  /\ class \in FailureClasses
  /\ ~AllowsFallback(class) =>
       status \in RequestSpecific \cup {499} \/ RequestRefused(adapter, d)
  /\ AllowsFallback(class) /\ ~AffectsCircuit(class) =>
       adapter = "kimi-code" /\ status = 403
  /\ AffectsCircuit(class) => class \in DocumentedClasses

\* A class that reports the provider's own failure follows from any refusal.
LEMMA OwnFollows ==
  ASSUME NEW adapter, NEW status, NEW d, NEW class \in DocumentedClasses
  PROVE  FollowsPolicy(class, adapter, status, d)
<1>1. class \in FailureClasses /\ AllowsFallback(class) /\ AffectsCircuit(class)
  BY DEF DocumentedClasses, Transients, Setups, FailureClasses, AllowsFallback, AffectsCircuit
<1> QED BY <1>1 DEF FollowsPolicy

\* A refusal of the request follows if the provider's words or the status say so.
LEMMA RefusalFollows ==
  ASSUME NEW adapter, NEW status, NEW d,
         status \in RequestSpecific \/ RequestRefused(adapter, d)
  PROVE  FollowsPolicy("ClientRequest", adapter, status, d)
<1>1. /\ "ClientRequest" \in FailureClasses
      /\ ~AllowsFallback("ClientRequest") /\ ~AffectsCircuit("ClientRequest")
  BY DEF FailureClasses, AllowsFallback, AffectsCircuit
<1> QED BY <1>1 DEF FollowsPolicy

LEMMA StatusFollows ==
  ASSUME NEW adapter, NEW status, NEW d
  PROVE  FollowsPolicy(ClassifyStatus(status), adapter, status, d)
<1>1. \/ ClassifyStatus(status) = "ClientRequest" /\ status \in RequestSpecific
      \/ ClassifyStatus(status) = "ClientCancelled" /\ status = 499
      \/ ClassifyStatus(status) \in DocumentedClasses
  BY DEF ClassifyStatus, RequestSpecific, DocumentedClasses, Transients, Setups
<1>2. status = 499 => FollowsPolicy("ClientCancelled", adapter, status, d)
  BY DEF FollowsPolicy, FailureClasses, AllowsFallback, AffectsCircuit
<1> QED BY <1>1, <1>2, OwnFollows, RefusalFollows

LEMMA OpenCodeGoFollows ==
  ASSUME NEW status, NEW d
  PROVE  FollowsPolicy(OpenCodeGo(status, d), "opencode-go", status, d)
<1>1. \/ OpenCodeGo(status, d) \in DocumentedClasses
      \/ OpenCodeGo(status, d) = ClassifyStatus(status)
  BY DEF OpenCodeGo, DocumentedClasses, Setups
<1> QED BY <1>1, OwnFollows, StatusFollows

LEMMA KimiCodeFollows ==
  ASSUME NEW status, NEW d
  PROVE  FollowsPolicy(KimiCode(status, d), "kimi-code", status, d)
<1>1. KimiForbidden(d) \in DocumentedClasses \cup {"ClientRequest", "ProviderAmbiguousRejection"}
  BY DEF KimiForbidden, DocumentedClasses, Setups
<1>2. KimiForbidden(d) = "ClientRequest" => Says(d, {"security risk", "invalid_url"})
  BY DEF KimiForbidden
<1>3. \/ KimiCode(status, d) = "ClientRequest" /\ MalformedBot(d)
      \/ KimiCode(status, d) \in DocumentedClasses
      \/ KimiCode(status, d) = KimiForbidden(d) /\ status = 403
      \/ KimiCode(status, d) = ClassifyStatus(status)
  <2>1. "ProviderConfiguration" \in DocumentedClasses
    BY DEF DocumentedClasses, Transients, Setups
  <2>2. \/ KimiByStatus(status, d) \in DocumentedClasses
        \/ KimiByStatus(status, d) = KimiForbidden(d) /\ status = 403
        \/ KimiByStatus(status, d) = ClassifyStatus(status)
    BY DEF KimiByStatus, DocumentedClasses, Transients, Setups
  <2> QED BY <2>1, <2>2 DEF KimiCode
<1>4. status = 403 => FollowsPolicy("ProviderAmbiguousRejection", "kimi-code", status, d)
  BY DEF FollowsPolicy, FailureClasses, AllowsFallback, AffectsCircuit
<1>5. MalformedBot(d) \/ Says(d, {"security risk", "invalid_url"}) =>
        RequestRefused("kimi-code", d)
  BY DEF RequestRefused
<1> QED BY <1>1, <1>2, <1>3, <1>4, <1>5, OwnFollows, RefusalFollows, StatusFollows

LEMMA KimiOfficialFollows ==
  ASSUME NEW status, NEW d
  PROVE  FollowsPolicy(KimiOfficial(status, d), "kimi-official", status, d)
<1>1. \/ /\ KimiOfficial(status, d) = "ClientRequest"
         /\ Discriminator(d) \in {"content_filter", "invalid_request_error"}
      \/ KimiOfficial(status, d) \in DocumentedClasses
      \/ KimiOfficial(status, d) = ClassifyStatus(status)
  BY DEF KimiOfficial, DocumentedClasses, Transients, Setups
<1>2. Discriminator(d) \in {"content_filter", "invalid_request_error"} =>
        RequestRefused("kimi-official", d)
  BY DEF RequestRefused
<1> QED BY <1>1, <1>2, OwnFollows, RefusalFollows, StatusFollows

LEMMA ZhipuFollows ==
  ASSUME NEW status, NEW d
  PROVE  FollowsPolicy(ZhipuCodingPlan(status, d), "zhipu-coding-plan", status, d)
<1>1. \/ /\ ZhipuCodingPlan(status, d) = "ClientRequest"
         /\ Discriminator(d) \in {"1210", "1213", "1214", "1215", "1261", "1301"}
      \/ ZhipuCodingPlan(status, d) \in DocumentedClasses
      \/ ZhipuCodingPlan(status, d) = ClassifyStatus(status)
  BY DEF ZhipuCodingPlan, DocumentedClasses, Transients, Setups
<1>2. Discriminator(d) \in {"1210", "1213", "1214", "1215", "1261", "1301"} =>
        RequestRefused("zhipu-coding-plan", d)
  BY DEF RequestRefused
<1> QED BY <1>1, <1>2, OwnFollows, RefusalFollows, StatusFollows

\* Whatever a provider answers, its adapter's verdict (classify_error) is one
\* routing knows; it stops the routing only if the provider's words or the
\* status say that the request is at fault, or with 499; it spares a target
\* and goes on only for a 403 of Kimi Code; and if it counts against the
\* target, the retry table has a row for it.
THEOREM VerdictsFollowPolicy ==
  ASSUME NEW adapter \in Adapters, NEW status \in Nat, NEW d
  PROVE  FollowsPolicy(Classify(adapter, status, d), adapter, status, d)
<1>1. CASE adapter \in {"opencode-go", "kimi-code", "kimi-official", "zhipu-coding-plan"}
  BY <1>1, OpenCodeGoFollows, KimiCodeFollows, KimiOfficialFollows, ZhipuFollows DEF Classify
<1>2. CASE adapter \notin {"opencode-go", "kimi-code", "kimi-official", "zhipu-coding-plan"}
  BY <1>2, StatusFollows DEF Classify
<1> QED BY <1>1, <1>2

\* An error that comes with a status of success (classify_semantic_error) and
\* does not refuse the request in the provider's words is never swallowed:
\* routing goes on, and the target is put off by a row of the retry table.
THEOREM HiddenErrorsCount ==
  ASSUME NEW adapter \in Adapters, NEW status \in 200..299, NEW e,
         IsError(e), ~RequestRefused(adapter, DetailsOf(e))
  PROVE  LET class == ClassifySemantic(adapter, status, e)
         IN ProvidersOwn(class) /\ class \in DocumentedClasses
<1>1. status \in Nat /\ status # 403 /\ status \notin RequestSpecific \cup {499}
  BY DEF RequestSpecific
<1>2. ClassifySemantic(adapter, status, e) = Classify(adapter, status, DetailsOf(e))
  BY DEF ClassifySemantic
<1>3. FollowsPolicy(Classify(adapter, status, DetailsOf(e)), adapter, status, DetailsOf(e))
  BY <1>1, VerdictsFollowPolicy
<1> QED BY <1>1, <1>2, <1>3 DEF FollowsPolicy, ProvidersOwn

-----------------------------------------------------------------------------
(* Part 4.  Types.                                                         *)

LEMMA SoundType == TypeOK <=>
  /\ mem \in Sound /\ disk \in Sound
  /\ up \in BOOLEAN /\ unsaved \in BOOLEAN
  /\ pc \in [Requests -> Stages] /\ permit \in [Requests -> Permits]
  /\ woken \subseteq Requests /\ crashes \in Nat
BY DEF TypeOK, Sound

\* A completion: `t` is what the snapshot becomes, `taken` says whether the
\* result counted.
LEMMA PersistAndPublishType ==
  ASSUME TypeOK, NEW t \in Sound, PersistAndPublish(t)
  PROVE  /\ mem' = t /\ mem' \in Sound /\ disk' \in Sound
         /\ unsaved' \in BOOLEAN /\ woken' \subseteq Requests
BY SoundType DEF PersistAndPublish, Persist, Waiters

\* TypeOK is inductive on its own.
LEMMA TypeStep == TypeOK /\ [Next]_vars => TypeOK'
<1> SUFFICES ASSUME TypeOK, [Next]_vars
             PROVE  TypeOK'
  OBVIOUS
<1>0. mem \in Sound /\ disk \in Sound /\ mem.generation \in Nat
  BY SoundType, SoundFields
<1>1. ASSUME NEW r \in Requests, GrantPrimary(r)
      PROVE  TypeOK'
  BY <1>0, <1>1
  DEF GrantPrimary, Give, Goto, machine, process, Permits, Stages, TypeOK
<1>2. ASSUME NEW r \in Requests, GrantProbe(r)
      PROVE  TypeOK'
  <2>1. PICK lag \in 0..MaxLag :
          /\ MayProbe(Reclaimed(mem, lag), lag)
          /\ mem' = HalfOpened(Reclaimed(mem, lag), lag)
          /\ Persist(mem')
          /\ Give(r, TRUE, Reclaimed(mem, lag).generation)
    BY <1>2 DEF GrantProbe
  <2>2. Reclaimed(mem, lag) \in Sound /\ Reclaimed(mem, lag).mode # "Closed"
    BY <1>0, <2>1, ReclaimedSound DEF MayProbe
  <2>3. mem' \in Sound /\ Reclaimed(mem, lag).generation \in Nat
    BY <2>1, <2>2, HalfOpenedSound, SoundFields
  <2> QED
    BY <1>2, <2>1, <2>3
    DEF GrantProbe, Persist, Give, Goto, process, Permits, Stages, TypeOK, Sound
<1>3. ASSUME NEW r \in Requests, Await(r) \/ Wake(r) \/ TimeOut(r)
      PROVE  TypeOK'
  BY <1>3
  DEF Await, Wake, TimeOut, Goto, machine, process, Stages, TypeOK
<1>4. ASSUME NEW r \in Requests, Succeed(r)
      PROVE  TypeOK'
  <2>1. Succeeded(mem, permit[r]) \in Sound
    BY <1>0, SucceededFacts DEF TypeOK
  <2> QED
    BY <1>4, <2>1, PersistAndPublishType
    DEF Succeed, Goto, process, Stages, TypeOK, Sound
<1>5. ASSUME NEW r \in Requests, Fail(r)
      PROVE  TypeOK'
  <2>1. PICK class \in Outcomes, hint \in Hints :
          PersistAndPublish(Failed(mem, permit[r], class, hint))
    BY <1>5 DEF Fail
  <2>2. Failed(mem, permit[r], class, hint) \in Sound
    BY <1>0, FailedFacts, EnvironmentAssumption DEF TypeOK
  <2> QED
    BY <1>5, <2>1, <2>2, PersistAndPublishType
    DEF Fail, Goto, process, Stages, TypeOK, Sound
<1>6. ASSUME NEW r \in Requests, Drop(r)
      PROVE  TypeOK'
  BY <1>6 DEF Drop, Goto, machine, process, Stages, TypeOK
<1>7. ASSUME NEW r \in Requests, Abandon(r)
      PROVE  TypeOK'
  <2>1. Abandoned(mem, permit[r]) \in Sound
    BY <1>0, AbandonedFacts DEF TypeOK
  <2> QED
    BY <1>7, <2>1, PersistAndPublishType
    DEF Abandon, Goto, process, Stages, TypeOK, Sound
<1>8. CASE Tick
  <2>1. Aged(mem, 1) \in Sound /\ Aged(disk, 1) \in Sound
    BY <1>0, AgedSound
  <2>2. mem' \in Sound /\ disk' \in Sound
    BY <1>8, <2>1 DEF Tick
  <2>3. UNCHANGED <<unsaved, pc, permit, woken, up, crashes>>
    BY <1>8 DEF Tick, clients, process
  <2>4. mem' \in Snapshot /\ WellFormed(mem)' /\ disk' \in Snapshot /\ WellFormed(disk)'
    BY <2>2 DEF Sound
  <2> QED
    BY <2>3, <2>4 DEF TypeOK
<1>9. CASE Crash
  <2>1. pc' \in [Requests -> Stages]
    BY <1>9 DEF Crash, At, Stages, TypeOK
  <2>2. up' = FALSE /\ crashes' = crashes + 1 /\ woken' = {}
    BY <1>9 DEF Crash
  <2>3. UNCHANGED <<mem, disk, unsaved, permit>>
    BY <1>9 DEF Crash, machine
  <2>4. mem' \in Snapshot /\ WellFormed(mem)' /\ disk' \in Snapshot /\ WellFormed(disk)'
    BY <2>3 DEF TypeOK
  <2>5. crashes' \in Nat
    BY <2>2 DEF TypeOK
  <2> QED
    BY <2>1, <2>2, <2>3, <2>4, <2>5 DEF TypeOK
<1>10. CASE Load
  <2>1. PICK step \in 0..MaxClockStep :
          mem' = Loaded(Aged(disk, -step)) /\ disk' = mem'
    BY <1>10 DEF Load
  <2>2. -step \in Int
    BY EnvironmentAssumption
  <2>3. mem' \in Sound
    BY <1>0, <2>1, <2>2, AgedSound, LoadedSound
  <2> QED
    BY <1>10, <2>1, <2>3 DEF Load, clients, TypeOK, Sound
<1>11. CASE UNCHANGED vars
  BY <1>11 DEF vars, TypeOK
<1> QED
  BY <1>1, <1>2, <1>3, <1>4, <1>5, <1>6, <1>7, <1>8, <1>9, <1>10, <1>11
  DEF Next, Decide, Settle

LEMMA TypeInit == Init => TypeOK
<1>1. Fresh(0) \in Sound
  BY FreshSound
<1> SUFFICES ASSUME Init
             PROVE  TypeOK
  OBVIOUS
<1>2. mem \in Sound /\ disk \in Sound
  BY <1>1 DEF Init
<1>3. NoPermit \in Permits
  BY DEF NoPermit, Permits
<1> QED
  BY <1>2, <1>3, SoundType DEF Init, Stages

\* The snapshot in memory and its record always have the options their mode
\* needs: after any results, lost writes, crashes and restarts an unavailable
\* target has a deadline for its next probe and a half-open one a lease.
THEOREM TypeCorrect == Spec => []TypeOK
BY TypeInit, TypeStep, PTL DEF Spec

-----------------------------------------------------------------------------
(* Part 5.  The invariant.                                                 *)

\* A permit of r has been given out and its result may still arrive.
Outstanding(r) == At(r, "holding") \/ At(r, "dropped")

\* Only a probe that is dropped leaves a task behind.
OnlyProbesAreAbandoned ==
  \A r \in Requests : At(r, "dropped") => permit[r].probe = TRUE

\* Nothing is in flight while the process is down.
DownMeansIdle ==
  ~up => \A r \in Requests : ~Outstanding(r) /\ ~At(r, "waiting")

\* Generations only grow: no permit is from a generation still to come.
NoFuturePermit ==
  up => \A r \in Requests :
          Outstanding(r) => permit[r].generation <= mem.generation

\* A permit that is not a probe is current only while the circuit is closed:
\* leaving Closed ends the generation.
CurrentPrimaryMeansClosed ==
  up => \A r \in Requests :
          /\ Outstanding(r) /\ permit[r].probe = FALSE
          /\ permit[r].generation = mem.generation
          => mem.mode = "Closed"

\* The inductive invariant.  The generations are what keeps a probe that lost
\* its lease from being taken for its successor.
IInv ==
  /\ TypeOK
  /\ OnlyProbesAreAbandoned
  /\ DownMeansIdle
  /\ NoFuturePermit
  /\ CurrentPrimaryMeansClosed
  /\ OneLiveProbe
  /\ NextProbeWithinCeiling
  /\ NoLostWakeup
  /\ MemoryIsDurable

LEMMA InitInv == Init => IInv
<1> SUFFICES ASSUME Init
             PROVE  IInv
  OBVIOUS
<1>1. TypeOK
  BY TypeInit
<1>2. \A r \in Requests : At(r, "asking")
  BY DEF Init, At
<1>3. \A r \in Requests : ~Outstanding(r) /\ ~At(r, "waiting")
  BY <1>2 DEF Outstanding, At
<1>4. mem.mode = "Closed" /\ mem = disk
  BY DEF Init, Fresh
<1>5. LiveProbes = {}
  BY <1>3 DEF LiveProbes, Outstanding
<1> QED
  BY <1>1, <1>3, <1>4, <1>5
  DEF IInv, OnlyProbesAreAbandoned, DownMeansIdle, NoFuturePermit,
      CurrentPrimaryMeansClosed, OneLiveProbe, NextProbeWithinCeiling, NoLostWakeup, MemoryIsDurable, Outstanding

\* A result, or the giving up of a dropped probe: `t` is what the snapshot
\* becomes.  A live probe always moves it.
Settled(r, t) ==
  /\ up /\ Outstanding(r)
  /\ PersistAndPublish(t)
  /\ Goto(r, "over")
  /\ UNCHANGED <<process, permit>>
  /\ t \in Sound
  /\ t = mem \/ Moved(mem, t)
  /\ r \in LiveProbes => Moved(mem, t)
  /\ r \notin LiveProbes =>
       t = mem \/ (mem.mode = "Closed" /\ t.mode \in {"Open", "Suspended"})

LEMMA SettledKinds ==
  ASSUME IInv, NEW r \in Requests, Succeed(r) \/ Fail(r) \/ Abandon(r)
  PROVE  \E t : Settled(r, t)
<1>0. /\ mem \in Sound /\ permit[r] \in Permits /\ permit[r].probe \in BOOLEAN
      /\ OneLiveProbe /\ OnlyProbesAreAbandoned /\ CurrentPrimaryMeansClosed
      /\ up /\ Outstanding(r)
  BY SoundType DEF IInv, Permits, Succeed, Fail, Abandon, Outstanding
<1>1. ASSUME r \in LiveProbes
      PROVE  TakesSuccess(mem, permit[r]) /\ TakesAbandonment(mem, permit[r])
  BY <1>0, <1>1
  DEF OneLiveProbe, LiveProbes, TakesSuccess, TakesAbandonment
<1>2. ASSUME r \notin LiveProbes
      PROVE  /\ ~TakesAbandonment(mem, permit[r])
             /\ ~TakesSuccess(mem, permit[r])
             /\ TakesFailure(mem, permit[r]) => mem.mode = "Closed"
  <2>1. ~(permit[r].probe = TRUE /\ permit[r].generation = mem.generation)
    BY <1>0, <1>2 DEF LiveProbes, Outstanding
  <2> QED
    BY <1>0, <2>1
    DEF TakesAbandonment, TakesSuccess, TakesFailure, CurrentPrimaryMeansClosed
<1>3. CASE Succeed(r)
  <2> DEFINE t == Succeeded(mem, permit[r])
  <2>1. /\ t \in Sound /\ (t = mem \/ Moved(mem, t))
        /\ r \in LiveProbes => Moved(mem, t)
        /\ r \notin LiveProbes =>
             t = mem \/ (mem.mode = "Closed" /\ t.mode \in {"Open", "Suspended"})
    <3>1. /\ t \in Sound
          /\ TakesSuccess(mem, permit[r]) => Moved(mem, t)
          /\ ~TakesSuccess(mem, permit[r]) => t = mem
      BY <1>0, SucceededFacts
    <3> HIDE DEF t
    <3>2. CASE r \in LiveProbes
      BY <1>1, <3>1, <3>2
    <3>3. CASE r \notin LiveProbes
      BY <1>2, <3>1, <3>3
    <3> QED
      BY <3>2, <3>3
  <2>2. PersistAndPublish(t) /\ Goto(r, "over") /\ UNCHANGED <<process, permit>>
    BY <1>3 DEF Succeed
  <2> HIDE DEF t
  <2>3. Settled(r, t)
    BY <1>0, <2>1, <2>2 DEF Settled
  <2> QED
    BY <2>3
<1>4. CASE Fail(r)
  <2>1. PICK class \in Outcomes, hint \in Hints :
          PersistAndPublish(Failed(mem, permit[r], class, hint))
    BY <1>4 DEF Fail
  <2> DEFINE t == Failed(mem, permit[r], class, hint)
  <2>2. class \in FailureClasses /\ hint \in Nat \cup {None}
    BY EnvironmentAssumption
  <2>3. /\ t \in Sound /\ (t = mem \/ Moved(mem, t))
        /\ r \in LiveProbes => Moved(mem, t)
        /\ r \notin LiveProbes =>
             t = mem \/ (mem.mode = "Closed" /\ t.mode \in {"Open", "Suspended"})
    <3>1. /\ t \in Sound /\ (t = mem \/ Moved(mem, t))
          /\ TakesAbandonment(mem, permit[r]) => Moved(mem, t)
      BY <1>0, <2>2, FailedFacts
    <3>2. \/ t = mem
          \/ TakesAbandonment(mem, permit[r])
          \/ TakesFailure(mem, permit[r]) /\ t.mode \in {"Open", "Suspended"}
      BY <1>0, <2>2, FailedFacts
    <3> HIDE DEF t
    <3>3. CASE r \in LiveProbes
      BY <1>1, <3>1, <3>3
    <3>4. CASE r \notin LiveProbes
      BY <1>2, <3>1, <3>2, <3>4
    <3> QED
      BY <3>3, <3>4
  <2>4. PersistAndPublish(t) /\ Goto(r, "over") /\ UNCHANGED <<process, permit>>
    BY <1>4, <2>1 DEF Fail
  <2> HIDE DEF t
  <2>5. Settled(r, t)
    BY <1>0, <2>3, <2>4 DEF Settled
  <2> QED
    BY <2>5
<1>5. CASE Abandon(r)
  <2> DEFINE t == Abandoned(mem, permit[r])
  <2>1. /\ t \in Sound /\ (t = mem \/ Moved(mem, t))
        /\ r \in LiveProbes => Moved(mem, t)
        /\ r \notin LiveProbes =>
             t = mem \/ (mem.mode = "Closed" /\ t.mode \in {"Open", "Suspended"})
    <3>1. /\ t \in Sound
          /\ TakesAbandonment(mem, permit[r]) => Moved(mem, t)
          /\ ~TakesAbandonment(mem, permit[r]) => t = mem
      BY <1>0, AbandonedFacts
    <3> HIDE DEF t
    <3>2. CASE r \in LiveProbes
      BY <1>1, <3>1, <3>2
    <3>3. CASE r \notin LiveProbes
      BY <1>2, <3>1, <3>3
    <3> QED
      BY <3>2, <3>3
  <2>2. PersistAndPublish(t) /\ Goto(r, "over") /\ UNCHANGED <<process, permit>>
    BY <1>5 DEF Abandon
  <2> HIDE DEF t
  <2>3. Settled(r, t)
    BY <1>0, <2>1, <2>2 DEF Settled
  <2> QED
    BY <2>3
<1> QED
  BY <1>3, <1>4, <1>5

LEMMA SettledInv ==
  ASSUME IInv, TypeOK', NEW r \in Requests, NEW t, Settled(r, t)
  PROVE  IInv'
<1>1. /\ up /\ up' = up /\ permit' = permit
      /\ pc' = [pc EXCEPT ![r] = "over"] /\ pc \in [Requests -> Stages]
  BY DEF Settled, process, Goto, IInv, TypeOK
<1>2. \A q \in Requests : At(q, "over")' <=> q = r \/ At(q, "over")
  BY <1>1 DEF At
<1>3. \A q \in Requests, stage \in Stages \ {"over"} :
        At(q, stage)' <=> q # r /\ At(q, stage)
  BY <1>1 DEF At, Stages
<1>4. \A q \in Requests : /\ Outstanding(q)' <=> q # r /\ Outstanding(q)
                          /\ At(q, "dropped")' => At(q, "dropped")
                          /\ At(q, "waiting")' => At(q, "waiting")
  BY <1>3 DEF Outstanding, Stages
<1>5. mem \in Sound /\ mem.generation \in Nat /\ \A q \in Requests : permit[q].generation \in Nat
  BY SoundType, SoundFields DEF IInv, Permits
<1>6. CASE t = mem /\ UNCHANGED <<mem, disk, unsaved, woken>> /\ r \notin LiveProbes
  <2>1. LiveProbes' = LiveProbes
    BY <1>1, <1>4, <1>6 DEF LiveProbes, Outstanding
  <2> QED
    BY <1>1, <1>4, <1>6, <2>1
    DEF IInv, OnlyProbesAreAbandoned, DownMeansIdle, NoFuturePermit,
        CurrentPrimaryMeansClosed, OneLiveProbe, NextProbeWithinCeiling, NoLostWakeup, MemoryIsDurable
<1>7. CASE Moved(mem, t) /\ mem' = t /\ Persist(t) /\ woken' = woken \cup Waiters
  <2>1. mem'.generation = mem.generation + 1 /\ mem'.mode # "HalfOpen"
    BY <1>7 DEF Moved
  <2>2. LiveProbes' = {}
    BY <1>1, <1>4, <1>5, <2>1
    DEF IInv, NoFuturePermit, CurrentPrimaryMeansClosed, LiveProbes, Outstanding
  <2>3. OneLiveProbe'
    BY <2>1, <2>2 DEF OneLiveProbe
  <2>4. NoFuturePermit' /\ CurrentPrimaryMeansClosed'
    BY <1>1, <1>4, <1>5, <2>1 DEF IInv, NoFuturePermit, CurrentPrimaryMeansClosed
  <2>5. NextProbeWithinCeiling'
    BY <1>7 DEF NextProbeWithinCeiling, Moved
  <2>6. NoLostWakeup'
    BY <1>4, <1>7 DEF NoLostWakeup, Waiters
  <2>7. MemoryIsDurable'
    BY <1>7 DEF MemoryIsDurable, Persist
  <2> QED
    BY <1>1, <1>4, <2>3, <2>4, <2>5, <2>6, <2>7
    DEF IInv, OnlyProbesAreAbandoned, DownMeansIdle
<1>8. Moved(mem, t) => t # mem
  BY <1>5 DEF Moved
<1> QED
  BY <1>6, <1>7, <1>8 DEF Settled, PersistAndPublish

\* Every step preserves the invariant.
LEMMA StepInv == IInv /\ [Next]_vars => IInv'
<1> SUFFICES ASSUME IInv, [Next]_vars
             PROVE  IInv'
  OBVIOUS
<1>0. /\ TypeOK /\ TypeOK' /\ mem \in Sound /\ disk \in Sound
      /\ mem.generation \in Nat /\ pc \in [Requests -> Stages]
      /\ permit \in [Requests -> Permits]
      /\ \A r \in Requests : permit[r].generation \in Nat
  BY TypeStep, SoundType, SoundFields DEF IInv, TypeOK, Permits
<1>1. ASSUME NEW r \in Requests, GrantPrimary(r)
      PROVE  IInv'
  <2>1. /\ up /\ At(r, "asking") /\ mem.mode = "Closed"
        /\ permit' = [permit EXCEPT ![r] = [generation |-> mem.generation, probe |-> FALSE]]
        /\ pc' = [pc EXCEPT ![r] = "holding"]
        /\ UNCHANGED <<mem, disk, unsaved, up, woken>>
    BY <1>1 DEF GrantPrimary, Give, Goto, machine, process
  <2>2. /\ permit'[r].probe = FALSE /\ permit'[r].generation = mem.generation
        /\ \A q \in Requests \ {r} : permit'[q] = permit[q] /\ pc'[q] = pc[q]
        /\ pc'[r] = "holding" /\ pc[r] = "asking"
    BY <1>0, <2>1 DEF At
  <2>3. LiveProbes' = LiveProbes
    BY <2>1, <2>2 DEF LiveProbes, At
  <2>4. OneLiveProbe'
    BY <2>1, <2>3 DEF IInv, OneLiveProbe
  <2>5. NoFuturePermit' /\ CurrentPrimaryMeansClosed' /\ OnlyProbesAreAbandoned'
    BY <1>0, <2>1, <2>2
    DEF IInv, NoFuturePermit, CurrentPrimaryMeansClosed, OnlyProbesAreAbandoned, Outstanding, At
  <2>6. DownMeansIdle' /\ NextProbeWithinCeiling' /\ MemoryIsDurable'
    BY <2>1 DEF IInv, DownMeansIdle, NextProbeWithinCeiling, MemoryIsDurable
  <2>7. NoLostWakeup'
    BY <2>1, <2>2 DEF IInv, NoLostWakeup, At
  <2> QED
    BY <1>0, <2>4, <2>5, <2>6, <2>7 DEF IInv
<1>2. ASSUME NEW r \in Requests, GrantProbe(r)
      PROVE  IInv'
  <2>1. PICK lag \in 0..MaxLag :
          /\ MayProbe(Reclaimed(mem, lag), lag)
          /\ mem' = HalfOpened(Reclaimed(mem, lag), lag)
          /\ Persist(mem')
          /\ Give(r, TRUE, Reclaimed(mem, lag).generation)
    BY <1>2 DEF GrantProbe
  <2> DEFINE s == Reclaimed(mem, lag)
             g == s.generation
  <2>2. /\ up /\ At(r, "asking") /\ UNCHANGED <<up, woken>>
        /\ permit' = [permit EXCEPT ![r] = [generation |-> g, probe |-> TRUE]]
        /\ pc' = [pc EXCEPT ![r] = "holding"]
    BY <1>2, <2>1 DEF GrantProbe, Give, Goto, process
  <2>3. /\ s \in Sound /\ s.mode \in {"Open", "Suspended"} /\ g \in Nat
        /\ s = mem \/ (mem.mode = "HalfOpen" /\ g = mem.generation + 1)
    BY <1>0, <2>1, ReclaimedSound, SoundFields DEF MayProbe
  <2>4. mem' = HalfOpened(s, lag) /\ Persist(mem')
    BY <2>1
  <2> HIDE DEF s
  <2>5. mem'.mode = "HalfOpen" /\ mem'.generation = g
    BY <2>3, <2>4, HalfOpenedSound DEF g
  <2> HIDE DEF g
  <2>6. /\ permit'[r].probe = TRUE /\ permit'[r].generation = g
        /\ \A q \in Requests \ {r} : permit'[q] = permit[q] /\ pc'[q] = pc[q]
        /\ pc'[r] = "holding" /\ pc[r] = "asking"
    BY <1>0, <2>2 DEF At
  <2>7. \A q \in Requests \ {r} :
          ~(Outstanding(q) /\ permit[q].probe /\ permit[q].generation = g)
    <3>1. CASE s = mem
      <4>1. LiveProbes = {} /\ g = mem.generation
        BY <2>2, <2>3, <3>1 DEF IInv, OneLiveProbe, g
      <4> QED
        BY <4>1 DEF LiveProbes, Outstanding
    <3>2. CASE g = mem.generation + 1
      BY <1>0, <2>2, <3>2 DEF IInv, NoFuturePermit
    <3> QED
      BY <2>3, <3>1, <3>2
  <2>8. LiveProbes' = {r}
    BY <2>5, <2>6, <2>7 DEF LiveProbes, Outstanding, At
  <2>9. OneLiveProbe'
    BY <2>5, <2>8 DEF OneLiveProbe
  <2>10. g >= mem.generation
    BY <1>0, <2>3 DEF g
  <2>11. NoFuturePermit'
    BY <1>0, <2>2, <2>3, <2>5, <2>6, <2>10
    DEF IInv, NoFuturePermit, CurrentPrimaryMeansClosed, Outstanding, At
  <2>12. CurrentPrimaryMeansClosed'
    <3> SUFFICES ASSUME NEW q \in Requests, Outstanding(q)', permit'[q].probe = FALSE,
                        permit'[q].generation = g
                 PROVE  FALSE
      BY <2>5 DEF CurrentPrimaryMeansClosed
    <3>1. q # r /\ Outstanding(q) /\ permit[q].probe = FALSE /\ permit[q].generation = g
      BY <2>6 DEF Outstanding, At
    <3>2. g # mem.generation
      BY <1>0, <2>2, <2>3, <3>1 DEF IInv, CurrentPrimaryMeansClosed
    <3>3. g = mem.generation + 1
      BY <2>3, <3>2 DEF g
    <3> QED
      BY <1>0, <2>2, <3>1, <3>3 DEF IInv, NoFuturePermit
  <2>13. OnlyProbesAreAbandoned'
    BY <2>6 DEF IInv, OnlyProbesAreAbandoned, At
  <2>14. DownMeansIdle' /\ NextProbeWithinCeiling' /\ NoLostWakeup'
    BY <2>2, <2>5 DEF DownMeansIdle, NextProbeWithinCeiling, NoLostWakeup
  <2>15. MemoryIsDurable'
    BY <2>4 DEF MemoryIsDurable, Persist
  <2> QED
    BY <1>0, <2>9, <2>11, <2>12, <2>13, <2>14, <2>15 DEF IInv
<1>3. ASSUME NEW r \in Requests, Await(r)
      PROVE  IInv'
  <2>1. PICK lag \in 0..MaxLag : Reclaimed(mem, lag).mode = "HalfOpen"
    BY <1>3 DEF Await
  <2>2. mem.mode = "HalfOpen"
    BY <1>0, <2>1, ReclaimedSound
  <2>3. /\ UNCHANGED <<mem, disk, unsaved, up, permit>> /\ woken' = woken \ {r}
        /\ pc' = [pc EXCEPT ![r] = "waiting"] /\ At(r, "asking") /\ up
    BY <1>3 DEF Await, Goto, machine, process
  <2>4. /\ \A q \in Requests \ {r} : pc'[q] = pc[q]
        /\ pc'[r] = "waiting" /\ pc[r] = "asking"
    BY <1>0, <2>3 DEF At
  <2>5. /\ LiveProbes' = LiveProbes
        /\ \A q \in Requests : Outstanding(q)' <=> Outstanding(q)
    BY <2>3, <2>4 DEF LiveProbes, Outstanding, At
  <2>6. OneLiveProbe' /\ NoLostWakeup'
    BY <2>2, <2>3, <2>5 DEF IInv, OneLiveProbe, NoLostWakeup
  <2>7. NoFuturePermit' /\ CurrentPrimaryMeansClosed' /\ OnlyProbesAreAbandoned'
    BY <2>3, <2>4, <2>5 DEF IInv, NoFuturePermit, CurrentPrimaryMeansClosed, OnlyProbesAreAbandoned, At
  <2>8. DownMeansIdle' /\ NextProbeWithinCeiling' /\ MemoryIsDurable'
    BY <2>3 DEF IInv, DownMeansIdle, NextProbeWithinCeiling, MemoryIsDurable
  <2> QED
    BY <1>0, <2>6, <2>7, <2>8 DEF IInv
<1>4. ASSUME NEW r \in Requests, Wake(r) \/ TimeOut(r)
      PROVE  IInv'
  <2>1. /\ UNCHANGED <<mem, disk, unsaved, up, permit, woken>>
        /\ pc' = [pc EXCEPT ![r] = "asking"] /\ At(r, "waiting") /\ up
    BY <1>4 DEF Wake, TimeOut, Goto, machine, process
  <2>2. /\ \A q \in Requests \ {r} : pc'[q] = pc[q]
        /\ pc'[r] = "asking" /\ pc[r] = "waiting"
    BY <1>0, <2>1 DEF At
  <2>3. /\ LiveProbes' = LiveProbes
        /\ \A q \in Requests : /\ Outstanding(q)' <=> Outstanding(q)
                               /\ At(q, "waiting")' => At(q, "waiting")
                               /\ At(q, "dropped")' => At(q, "dropped")
    BY <2>1, <2>2 DEF LiveProbes, Outstanding, At
  <2> QED
    BY <1>0, <2>1, <2>3
    DEF IInv, OnlyProbesAreAbandoned, DownMeansIdle, NoFuturePermit,
        CurrentPrimaryMeansClosed, OneLiveProbe, NextProbeWithinCeiling, NoLostWakeup, MemoryIsDurable
<1>5. ASSUME NEW r \in Requests, Succeed(r) \/ Fail(r) \/ Abandon(r)
      PROVE  IInv'
  BY <1>0, <1>5, SettledKinds, SettledInv
<1>6. ASSUME NEW r \in Requests, Drop(r)
      PROVE  IInv'
  <2>1. /\ UNCHANGED <<mem, disk, unsaved, up, permit, woken>> /\ up
        /\ At(r, "holding")
        /\ pc' = [pc EXCEPT ![r] = IF permit[r].probe THEN "dropped" ELSE "over"]
    BY <1>6 DEF Drop, Goto, machine, process
  <2>2. /\ \A q \in Requests \ {r} : pc'[q] = pc[q]
        /\ pc[r] = "holding" /\ permit[r].probe \in BOOLEAN
        /\ pc'[r] = IF permit[r].probe THEN "dropped" ELSE "over"
    BY <1>0, <2>1 DEF At, Permits
  <2>3. LiveProbes' = LiveProbes
    BY <2>1, <2>2 DEF LiveProbes, At
  <2>4. \A q \in Requests : /\ Outstanding(q)' => Outstanding(q)
                            /\ At(q, "waiting")' => At(q, "waiting")
    BY <2>2 DEF Outstanding, At
  <2>5. OnlyProbesAreAbandoned'
    BY <2>1, <2>2 DEF IInv, OnlyProbesAreAbandoned, At
  <2> QED
    BY <1>0, <2>1, <2>3, <2>4, <2>5
    DEF IInv, DownMeansIdle, NoFuturePermit, CurrentPrimaryMeansClosed, OneLiveProbe,
        NextProbeWithinCeiling, NoLostWakeup, MemoryIsDurable
<1>7. CASE Tick
  <2>1. /\ mem' = Aged(mem, 1) /\ disk' = Aged(disk, 1)
        /\ UNCHANGED <<unsaved, pc, permit, woken, up>>
    BY <1>7 DEF Tick, clients, process
  <2>2. /\ mem'.mode = mem.mode /\ mem'.generation = mem.generation
        /\ mem'.reason = mem.reason /\ mem'.next = AgedTimer(mem.next, 1)
    <3>1. /\ Aged(mem, 1).mode = mem.mode /\ Aged(mem, 1).generation = mem.generation
          /\ Aged(mem, 1).reason = mem.reason /\ Aged(mem, 1).next = AgedTimer(mem.next, 1)
      BY <1>0, AgedSound
    <3> QED
      BY <2>1, <3>1
  <2>3. NextProbeWithinCeiling'
    <3> SUFFICES ASSUME up, mem.mode \in {"Open", "Suspended"}
                 PROVE  mem'.next <= SlowestDelay(mem.reason)
      BY <2>1, <2>2 DEF NextProbeWithinCeiling
    <3>1. /\ mem.next \in Int /\ SlowestDelay(mem.reason) \in Nat
          /\ mem.next <= SlowestDelay(mem.reason) /\ mem.next # None
      BY <1>0, SoundFields, ScheduleFacts, NoneAssumption DEF IInv, NextProbeWithinCeiling
    <3> QED
      BY <2>2, <3>1, DelayAssumption DEF AgedTimer, Greater
  <2>4. LiveProbes' = LiveProbes
    BY <2>1, <2>2 DEF LiveProbes, At
  <2>5. OneLiveProbe' /\ NoLostWakeup' /\ MemoryIsDurable'
    BY <2>1, <2>2, <2>4 DEF IInv, OneLiveProbe, NoLostWakeup, MemoryIsDurable, At
  <2>6. OnlyProbesAreAbandoned' /\ DownMeansIdle' /\ NoFuturePermit'
       /\ CurrentPrimaryMeansClosed'
    BY <2>1, <2>2
    DEF IInv, OnlyProbesAreAbandoned, DownMeansIdle, NoFuturePermit, CurrentPrimaryMeansClosed, Outstanding, At
  <2> QED
    BY <1>0, <2>3, <2>5, <2>6 DEF IInv
<1>8. CASE Crash
  <2>1. up' = FALSE
    BY <1>8 DEF Crash
  <2>2. \A r \in Requests : pc'[r] \in {"asking", "over"}
    BY <1>0, <1>8 DEF Crash, At, Stages
  <2>3. \A r \in Requests : ~At(r, "waiting")' /\ ~Outstanding(r)' /\ ~At(r, "dropped")'
    BY <2>2 DEF Outstanding, At
  <2> QED
    BY <1>0, <2>1, <2>3
    DEF IInv, OnlyProbesAreAbandoned, DownMeansIdle, NoFuturePermit,
        CurrentPrimaryMeansClosed, OneLiveProbe, NextProbeWithinCeiling, NoLostWakeup, MemoryIsDurable
<1>9. CASE Load
  <2>1. PICK step \in 0..MaxClockStep :
          mem' = Loaded(Aged(disk, -step)) /\ disk' = mem'
    BY <1>9 DEF Load
  <2>2. UNCHANGED <<pc, permit, woken>> /\ ~up
    BY <1>9 DEF Load, clients
  <2>3. -step \in Int
    BY EnvironmentAssumption
  <2>4. /\ mem'.mode # "HalfOpen"
        /\ mem'.mode # "Closed" => mem'.next <= SlowestDelay(mem'.reason)
    BY <1>0, <2>1, <2>3, AgedSound, LoadedSound
  <2>5. \A r \in Requests : ~At(r, "waiting")' /\ ~Outstanding(r)' /\ ~At(r, "dropped")'
    BY <2>2 DEF IInv, DownMeansIdle, Outstanding, At
  <2>6. LiveProbes' = {}
    BY <2>5 DEF LiveProbes, Outstanding
  <2> QED
    BY <1>0, <2>1, <2>4, <2>5, <2>6
    DEF IInv, OnlyProbesAreAbandoned, DownMeansIdle, NoFuturePermit,
        CurrentPrimaryMeansClosed, OneLiveProbe, NextProbeWithinCeiling, NoLostWakeup, MemoryIsDurable
<1>10. CASE UNCHANGED vars
  <2>1. UNCHANGED LiveProbes /\ UNCHANGED <<mem, disk, unsaved, pc, permit, woken, up>>
    BY <1>10 DEF vars, LiveProbes, At
  <2> QED
    BY <1>0, <2>1
    DEF IInv, OnlyProbesAreAbandoned, DownMeansIdle, NoFuturePermit, CurrentPrimaryMeansClosed, Outstanding, At,
        OneLiveProbe, NextProbeWithinCeiling, NoLostWakeup, MemoryIsDurable
<1> QED
  BY <1>1, <1>2, <1>3, <1>4, <1>5, <1>6, <1>7, <1>8, <1>9, <1>10
  DEF Next, Decide, Settle

\* The invariant holds in every reachable state, for any number of requests,
\* any schedule and any number of crashes.
THEOREM Invariant == Spec => []IInv
BY InitInv, StepInv, PTL DEF Spec

\* An unavailable target has at most one probe whose result will count, and
\* has one exactly while it is half-open (decide_at, complete_*).
THEOREM OneProbeAtATime == Spec => []OneLiveProbe
<1>1. IInv => OneLiveProbe
  BY DEF IInv
<1> QED
  BY <1>1, Invariant, PTL

\* No hint, restart or clock step puts the next probe out of reach
\* (retry_delay, CircuitBreaker::load).
THEOREM ProbeWithinCeiling == Spec => []NextProbeWithinCeiling
<1>1. IInv => NextProbeWithinCeiling
  BY DEF IInv
<1> QED
  BY <1>1, Invariant, PTL

\* A request asleep on the watch channel sleeps on a half-open circuit
\* (decide_at subscribes under the lock, persist_and_publish sends under it).
THEOREM WakeupNotLost == Spec => []NoLostWakeup
<1>1. IInv => NoLostWakeup
  BY DEF IInv
<1> QED
  BY <1>1, Invariant, PTL

\* Unless the store refused the last write, the record is the snapshot.
THEOREM MemorySurvives == Spec => []MemoryIsDurable
<1>1. IInv => MemoryIsDurable
  BY DEF IInv
<1> QED
  BY <1>1, Invariant, PTL

-----------------------------------------------------------------------------
(* Part 6.  One backoff for concurrent failures.                           *)

\* What a completion does to the failure count.
LEMMA CountOfSettled ==
  ASSUME IInv, NEW r \in Requests, Succeed(r) \/ Fail(r) \/ Abandon(r),
         mem'.failures > mem.failures
  PROVE  /\ TakesFailure(mem, permit[r])
         /\ mem'.failures = mem.failures + 1
         /\ mem'.backoff <= mem.backoff + 1
<1>1. mem \in Sound /\ permit[r] \in Permits /\ mem.failures \in Nat
  BY SoundType, SoundFields DEF IInv
<1>2. CASE Succeed(r)
  <2>1. mem' = mem \/ mem' = Succeeded(mem, permit[r])
    BY <1>2 DEF Succeed, PersistAndPublish
  <2>2. Succeeded(mem, permit[r]).failures <= mem.failures
    BY <1>1, SucceededFacts
  <2>3. Succeeded(mem, permit[r]) \in Sound
    BY <1>1, SucceededFacts
  <2>4. Succeeded(mem, permit[r]).failures \in Nat
    BY <2>3, SoundFields
  <2> QED
    BY <1>1, <2>1, <2>2, <2>4
<1>3. CASE Fail(r)
  <2>1. PICK class \in Outcomes, hint \in Hints :
          PersistAndPublish(Failed(mem, permit[r], class, hint))
    BY <1>3 DEF Fail
  <2>2. class \in FailureClasses /\ hint \in Nat \cup {None}
    BY EnvironmentAssumption
  <2>3. mem' = mem \/ mem' = Failed(mem, permit[r], class, hint)
    BY <2>1 DEF PersistAndPublish
  <2>4. mem'.failures # mem.failures
    BY <1>1
  <2> QED
    BY <1>1, <2>2, <2>3, <2>4, FailedFacts
<1>4. CASE Abandon(r)
  <2>1. mem' = mem \/ mem' = Abandoned(mem, permit[r])
    BY <1>4 DEF Abandon, PersistAndPublish
  <2> QED
    BY <1>1, <2>1, AbandonedFacts
<1> QED
  BY <1>2, <1>3, <1>4

LEMMA CountStep == IInv /\ [Next]_vars => [CountsOnce]_vars
<1> SUFFICES ASSUME IInv, Next, up, up', mem'.failures > mem.failures
             PROVE  CountsOnce
  BY DEF CountsOnce
<1>0. /\ mem \in Sound /\ mem.failures \in Nat /\ pc \in [Requests -> Stages]
      /\ permit \in [Requests -> Permits] /\ OneLiveProbe
  BY SoundType, SoundFields DEF IInv, TypeOK
<1>1. ASSUME NEW r \in Requests, Succeed(r) \/ Fail(r) \/ Abandon(r)
      PROVE  CountsOnce
  <2>1. /\ TakesFailure(mem, permit[r])
        /\ mem'.failures = mem.failures + 1
        /\ mem'.backoff <= mem.backoff + 1
    BY <1>1, CountOfSettled
  <2>2. Outstanding(r) /\ pc'[r] = "over"
    BY <1>0, <1>1 DEF Succeed, Fail, Abandon, Outstanding, Goto
  <2>3. CASE permit[r].probe
    <3>1. r \in LiveProbes
      BY <2>1, <2>2, <2>3 DEF TakesFailure, LiveProbes, Outstanding
    <3> QED
      BY <2>1, <2>2, <3>1 DEF CountsOnce
  <2>4. CASE ~permit[r].probe
    BY <2>1, <2>4 DEF TakesFailure, CountsOnce
  <2> QED
    BY <2>3, <2>4
<1>2. ASSUME NEW r \in Requests, GrantProbe(r)
      PROVE  FALSE
  <2>1. PICK lag \in 0..MaxLag :
          /\ MayProbe(Reclaimed(mem, lag), lag)
          /\ mem' = HalfOpened(Reclaimed(mem, lag), lag)
    BY <1>2 DEF GrantProbe
  <2>2. /\ Reclaimed(mem, lag) \in Sound /\ Reclaimed(mem, lag).mode # "Closed"
        /\ Reclaimed(mem, lag).failures = mem.failures
    BY <1>0, <2>1, ReclaimedSound DEF MayProbe
  <2>3. mem'.failures = mem.failures
    BY <2>1, <2>2, HalfOpenedSound
  <2> QED
    BY <1>0, <2>3
<1>3. ASSUME NEW r \in Requests,
             GrantPrimary(r) \/ Await(r) \/ Wake(r) \/ TimeOut(r) \/ Drop(r)
      PROVE  FALSE
  <2>1. mem' = mem
    BY <1>3 DEF GrantPrimary, Await, Wake, TimeOut, Drop, machine
  <2> QED
    BY <1>0, <2>1
<1>4. CASE Tick
  <2>1. mem'.failures = mem.failures
    BY <1>0, <1>4, AgedSound DEF Tick
  <2> QED
    BY <1>0, <2>1
<1>5. ~Crash /\ ~Load
  BY DEF Crash, Load
<1> QED
  BY <1>1, <1>2, <1>3, <1>4, <1>5 DEF Next, Decide, Settle

\* Requests admitted together, late results and disowned probes raise the
\* backoff once (complete_failure's generation and mode checks).
THEOREM OneBackoff == Spec => FailureCountedOnce
BY CountStep, Invariant, PTL DEF Spec, FailureCountedOnce

-----------------------------------------------------------------------------
(* Part 7.  The breaker keeps its contract.                                *)

Over == {r \in Requests : At(r, "over")}

\* While the circuit is half-open the prober is the one live probe.
LEMMA ProberIsLive ==
  ASSUME IInv
  PROVE  /\ Status = "probing" <=> up /\ mem.mode = "HalfOpen"
         /\ Status = "probing" => Prober \in Requests /\ LiveProbes = {Prober}
         /\ Status # "probing" => Prober = None
         /\ up /\ Status # "probing" => LiveProbes = {}
<1>1. Status = "probing" <=> up /\ mem.mode = "HalfOpen"
  BY DEF Status
<1>2. CASE Status = "probing"
  <2>1. PICK r \in Requests : r \in LiveProbes
    BY <1>1, <1>2 DEF IInv, OneLiveProbe, LiveProbes
  <2>2. Prober \in LiveProbes /\ Prober \in Requests
    BY <1>2, <2>1 DEF Prober
  <2>3. LiveProbes = {Prober}
    BY <1>1, <1>2, <2>2 DEF IInv, OneLiveProbe, LiveProbes
  <2> QED
    BY <1>1, <1>2, <2>2, <2>3
<1>3. CASE Status # "probing"
  <2>1. up => LiveProbes = {}
    BY <1>1, <1>3 DEF IInv, OneLiveProbe
  <2> QED
    BY <1>1, <1>3, <2>1 DEF Prober
<1> QED
  BY <1>2, <1>3

LEMMA TheProber == IInv => (Status = "probing" => LiveProbes = {Prober})
BY ProberIsLive

\* A step that leaves the mode, the live probes and the finished requests
\* alone is invisible to the contract.
LEMMA Invisible ==
  ASSUME up' = up, mem'.mode = mem.mode, LiveProbes' = LiveProbes, Over' = Over
  PROVE  UNCHANGED Contract!vars
<1>1. Status' = Status
  BY DEF Status
<1>2. Prober' = Prober
  BY <1>1 DEF Prober
<1> QED
  BY <1>1, <1>2 DEF Contract!vars, Over

LEMMA ContractInit == Init => Contract!Init
<1> SUFFICES ASSUME Init
             PROVE  Contract!Init
  OBVIOUS
<1>1. up /\ mem.mode = "Closed" /\ \A r \in Requests : pc[r] = "asking"
  BY DEF Init, Fresh
<1>2. Status = "admitting" /\ Prober = None
  BY <1>1 DEF Status, Prober
<1>3. Over = {}
  BY <1>1 DEF Over, At
<1> QED
  BY <1>2, <1>3 DEF Contract!Init, Over

LEMMA ContractStep ==
  ASSUME IInv, IInv', [Next]_vars
  PROVE  [Contract!Next]_(Contract!vars)
<1>0. /\ pc \in [Requests -> Stages] /\ permit \in [Requests -> Permits]
      /\ mem \in Sound /\ mem' \in Sound
      /\ mem.mode \in Modes /\ mem'.mode \in Modes
  <2>1. mem \in Snapshot /\ mem' \in Snapshot
    BY DEF IInv, TypeOK
  <2> QED
    BY <2>1 DEF IInv, TypeOK, Sound, Snapshot
<1>1. ASSUME NEW r \in Requests, NEW stage \in Stages, Goto(r, stage),
             ~At(r, "over"), up, up' = up
      PROVE  Over' = IF stage = "over" THEN Over \cup {r} ELSE Over
  <2>1. pc' = [pc EXCEPT ![r] = stage]
    BY <1>1 DEF Goto
  <2>2. \A q \in Requests : pc'[q] = IF q = r THEN stage ELSE pc[q]
    BY <1>0, <2>1
  <2> QED
    BY <1>1, <2>2 DEF Over, At
<1>2. ASSUME NEW r \in Requests, GrantPrimary(r) \/ Await(r) \/ Wake(r) \/ TimeOut(r)
      PROVE  UNCHANGED Contract!vars
  <2>1. PICK stage \in Stages \ {"over"} : Goto(r, stage)
    BY <1>2 DEF GrantPrimary, Give, Await, Wake, TimeOut, Stages
  <2>2. /\ up /\ up' = up /\ mem' = mem /\ (At(r, "asking") \/ At(r, "waiting"))
    BY <1>2 DEF GrantPrimary, Await, Wake, TimeOut, machine, process
  <2>3. Over' = Over
    BY <1>1, <2>1, <2>2 DEF At
  <2>4. \A q \in Requests \ {r} : pc'[q] = pc[q] /\ permit'[q] = permit[q]
    BY <1>0, <1>2, <2>1 DEF GrantPrimary, Give, Await, Wake, TimeOut, Goto
  <2>5. r \notin LiveProbes /\ r \notin LiveProbes'
    <3>1. r \notin LiveProbes
      BY <2>2 DEF LiveProbes, At
    <3>2. CASE GrantPrimary(r)
      <4>1. permit'[r].probe = FALSE
        BY <1>0, <3>2 DEF GrantPrimary, Give
      <4> QED
        BY <3>1, <4>1 DEF LiveProbes
    <3>3. CASE Await(r) \/ Wake(r) \/ TimeOut(r)
      <4>1. pc'[r] \in {"asking", "waiting"}
        BY <1>0, <3>3 DEF Await, Wake, TimeOut, Goto
      <4> QED
        BY <3>1, <4>1 DEF LiveProbes, At
    <3> QED
      BY <1>2, <3>2, <3>3
  <2>6. LiveProbes' = LiveProbes
    BY <2>2, <2>4, <2>5 DEF LiveProbes, At
  <2> QED
    BY <2>2, <2>3, <2>6, Invisible
<1>3. ASSUME NEW r \in Requests, GrantProbe(r)
      PROVE  Contract!Probe(r)
  <2>1. PICK lag \in 0..MaxLag :
          /\ MayProbe(Reclaimed(mem, lag), lag)
          /\ mem' = HalfOpened(Reclaimed(mem, lag), lag)
          /\ Give(r, TRUE, Reclaimed(mem, lag).generation)
    BY <1>3 DEF GrantProbe
  <2>2. up /\ up' = up /\ At(r, "asking") /\ Goto(r, "holding")
    BY <1>3, <2>1 DEF GrantProbe, Give, process
  <2>3. /\ Reclaimed(mem, lag) \in Sound /\ Reclaimed(mem, lag).mode # "Closed"
        /\ mem.mode # "Closed"
    BY <1>0, <2>1, ReclaimedSound DEF MayProbe
  <2>4. /\ mem'.mode = "HalfOpen"
        /\ mem'.generation = Reclaimed(mem, lag).generation
    BY <2>1, <2>3, HalfOpenedSound
  <2>5. Status \in {"blocked", "probing"} /\ Status' = "probing"
    BY <1>0, <2>2, <2>3, <2>4 DEF Status, Modes
  <2>6. r \in LiveProbes'
    BY <1>0, <2>1, <2>2, <2>4 DEF Give, Goto, LiveProbes, At
  <2>7. Prober' = r
    <3>1. (Status = "probing" => LiveProbes = {Prober})'
      BY TheProber, PTL
    <3> QED
      BY <2>5, <2>6, <3>1
  <2>8. r # Prober
    <3>1. r \notin LiveProbes
      BY <2>2 DEF LiveProbes, At
    <3> QED
      BY <3>1, ProberIsLive, EnvironmentAssumption
  <2>9. Over' = Over /\ r \notin Over
    BY <1>1, <2>2 DEF At, Stages, Over
  <2> QED
    BY <2>5, <2>7, <2>8, <2>9 DEF Contract!Probe, Over
<1>4. ASSUME NEW r \in Requests, Succeed(r) \/ Fail(r) \/ Abandon(r)
      PROVE  \/ Contract!Finish(r) \/ Contract!Trip(r) \/ Contract!Report
  <2>1. PICK t : Settled(r, t)
    BY <1>4, SettledKinds
  <2>2. /\ up /\ up' = up /\ Outstanding(r) /\ Goto(r, "over") /\ permit' = permit
        /\ mem' = t
    BY <2>1 DEF Settled, process, PersistAndPublish
  <2>3. Over' = Over \cup {r} /\ r \notin Over /\ ~At(r, "over")
    <3>1. ~At(r, "over")
      BY <2>2 DEF Outstanding, At
    <3> QED
      BY <1>1, <2>2, <3>1 DEF Stages, Over
  <2>4. \A q \in Requests : pc'[q] = IF q = r THEN "over" ELSE pc[q]
    BY <1>0, <2>2 DEF Goto
  <2>5. CASE r \in LiveProbes
    <3>1. mem'.mode # "HalfOpen"
      BY <2>1, <2>2, <2>5 DEF Settled, Moved
    <3>2. Status = "probing" /\ Prober = r
      <4>1. mem.mode = "HalfOpen"
        BY <2>2, <2>5 DEF IInv, OneLiveProbe
      <4> QED
        BY <2>2, <2>5, <4>1, ProberIsLive
    <3>3. Status' \in {"admitting", "blocked"} /\ Prober' = None
      BY <1>0, <2>2, <3>1 DEF Status, Prober, Modes
    <3> QED
      BY <2>3, <3>2, <3>3 DEF Contract!Report, Over
  <2>6. CASE r \notin LiveProbes /\ t = mem
    <3>1. LiveProbes' = LiveProbes
      BY <2>2, <2>4, <2>6 DEF LiveProbes, At
    <3>2. Status' = Status
      BY <2>2, <2>6 DEF Status
    <3>3. Prober' = Prober
      BY <3>1, <3>2 DEF Prober
    <3>4. r # Prober
      BY <2>6, ProberIsLive, EnvironmentAssumption
    <3> QED
      BY <2>3, <3>2, <3>3, <3>4 DEF Contract!Finish, Over
  <2>7. CASE r \notin LiveProbes /\ mem.mode = "Closed" /\ t.mode \in {"Open", "Suspended"}
    <3>1. Status = "admitting" /\ Status' = "blocked" /\ Prober' = None
      BY <2>2, <2>7 DEF Status, Prober
    <3> QED
      BY <2>3, <3>1 DEF Contract!Trip, Over
  <2> QED
    BY <2>1, <2>5, <2>6, <2>7 DEF Settled
<1>5. ASSUME NEW r \in Requests, Drop(r)
      PROVE  Contract!Finish(r) \/ UNCHANGED Contract!vars
  <2>1. /\ up /\ up' = up /\ At(r, "holding") /\ permit' = permit /\ mem' = mem
        /\ Goto(r, IF permit[r].probe THEN "dropped" ELSE "over")
    BY <1>5 DEF Drop, machine, process
  <2>2. \A q \in Requests : pc'[q] = IF q = r THEN IF permit[r].probe THEN "dropped" ELSE "over"
                                     ELSE pc[q]
    BY <1>0, <2>1 DEF Goto
  <2>3. LiveProbes' = LiveProbes
    BY <2>1, <2>2 DEF LiveProbes, At
  <2>4. CASE permit[r].probe
    <3>1. Over' = Over
      BY <2>1, <2>2, <2>4 DEF Over, At
    <3> QED
      BY <2>1, <2>3, <3>1, Invisible
  <2>5. CASE ~permit[r].probe
    <3>1. Over' = Over \cup {r} /\ r \notin Over
      BY <2>1, <2>2, <2>5 DEF Over, At
    <3>2. Status' = Status
      BY <2>1 DEF Status
    <3>3. Prober' = Prober
      BY <2>3, <3>2 DEF Prober
    <3>4. r # Prober
      <4>1. r \notin LiveProbes
        BY <2>5 DEF LiveProbes
      <4> QED
        BY <4>1, ProberIsLive, EnvironmentAssumption
    <3> QED
      BY <3>1, <3>2, <3>3, <3>4 DEF Contract!Finish, Over
  <2> QED
    BY <2>4, <2>5
<1>6. CASE Tick
  <2>1. /\ mem'.mode = mem.mode /\ mem'.generation = mem.generation
        /\ UNCHANGED <<up, pc, permit>>
    BY <1>0, <1>6, AgedSound DEF Tick, clients, process
  <2>2. LiveProbes' = LiveProbes /\ Over' = Over
    BY <2>1 DEF LiveProbes, Over, At
  <2> QED
    BY <2>1, <2>2, Invisible
<1>7. CASE Crash
  <2>1. up /\ up' = FALSE
    BY <1>7 DEF Crash
  <2>2. Status # "down" /\ Status' = "down" /\ Prober' = None
    BY <1>0, <2>1 DEF Status, Prober, Modes
  <2>3. \A r \in Requests : pc[r] = "over" => pc'[r] = "over"
    BY <1>0, <1>7 DEF Crash, At
  <2>4. Over \subseteq Over' /\ Over' \subseteq Requests
    BY <2>3 DEF Over, At
  <2> QED
    BY <2>2, <2>4 DEF Contract!Next, Contract!Stop, Over
<1>8. CASE Load
  <2>1. PICK step \in 0..MaxClockStep :
          mem' = Loaded(Aged(disk, -step)) /\ disk' = mem'
    BY <1>8 DEF Load
  <2>2. ~up /\ up' = TRUE /\ UNCHANGED pc
    BY <1>8 DEF Load, clients
  <2>3. disk \in Sound /\ -step \in Int
    BY SoundType, EnvironmentAssumption DEF IInv
  <2>4. mem'.mode # "HalfOpen"
    BY <2>1, <2>3, AgedSound, LoadedSound
  <2>5. /\ Status = "down" /\ Status' \in {"admitting", "blocked"}
        /\ Prober = None /\ Prober' = None
    BY <1>0, <2>2, <2>4 DEF Status, Prober, Modes
  <2>6. Over' = Over
    BY <2>2 DEF Over, At
  <2> QED
    BY <2>5, <2>6 DEF Contract!Next, Contract!Start, Over
<1>9. CASE UNCHANGED vars
  <2>1. UNCHANGED <<mem, up, pc, permit>>
    BY <1>9 DEF vars
  <2>2. LiveProbes' = LiveProbes /\ Over' = Over
    BY <2>1 DEF LiveProbes, Over, At
  <2> QED
    BY <2>1, <2>2, Invisible
<1> QED
  BY <1>2, <1>3, <1>4, <1>5, <1>6, <1>7, <1>8, <1>9
  DEF Next, Decide, Settle, Contract!Next

\* The breaker, with its timers, generations, lost writes and restarts,
\* implements the contract: only the current prober's own result ends a
\* probe, and a blocked target recovers only through one or a restart.
THEOREM KeepsContract == Spec => ContractSpec
<1>1. IInv /\ IInv' /\ [Next]_vars => [Contract!Next]_(Contract!vars)
  BY ContractStep
<1> QED
  BY <1>1, ContractInit, Invariant, PTL DEF Spec, ContractSpec, Contract!Spec

=============================================================================
