---------------------------- MODULE CircuitState ----------------------------
(***************************************************************************)
(* The snapshot a target's circuit breaker keeps (circuit.rs,              *)
(* CircuitSnapshot) and the pure transitions its methods apply to it under *)
(* the lock.  Circuit, CircuitRevisions and Gateway build on them.         *)
(*                                                                         *)
(* Time.  The code stores absolute deadlines and only ever asks            *)
(* `deadline <= now`.  A deadline is kept here as the time left until it,  *)
(* so that a tick of the clock is Aged(s, 1) and `deadline <= now` is      *)
(* Due(left, 0).  A caller samples `now` before it takes the lock          *)
(* (CircuitBreaker::decide), so its clock may be `lag` behind, at most     *)
(* MaxLag; an expired timer therefore counts on down to -MaxLag, where the *)
(* answer of every comparison is fixed.                                    *)
(*                                                                         *)
(* opened_at_ms is shown to the operator and read by no decision; it is    *)
(* left out.  Counters are naturals: u64 generations and saturating u32    *)
(* failure counts do not reach their limits in a run of the program.       *)
(*                                                                         *)
(* A definition whose name starts with M_ is a mutant: a plausible mistake *)
(* in the definition that follows it, used only to show that a property    *)
(* notices it.                                                             *)
(***************************************************************************)
EXTENDS Integers, Sequences, FailureClass

CONSTANTS
  Schedule,      \* schedule_for: the delays of each class, by backoff level
  AbandonDelay,  \* ABANDONED_PROBE_RETRY
  ProbeLease,    \* PROBE_LEASE
  MaxLag,        \* how far a sampled clock can be behind when it is used
  None           \* the absent option

ASSUME NoneAssumption == None \notin FailureClasses \cup Int
ASSUME DelayAssumption ==
  /\ AbandonDelay \in Nat /\ ProbeLease \in Nat /\ MaxLag \in Nat
  /\ MaxLag < ProbeLease
ASSUME ScheduleAssumption ==
  /\ Schedule \in [FailureClasses -> Seq(Nat) \ {<<>>}]
  /\ \A class \in FailureClasses :
       LET last == Schedule[class][Len(Schedule[class])] IN
       AbandonDelay <= last /\ \A i \in DOMAIN Schedule[class] : Schedule[class][i] <= last

Modes == {"Closed", "Open", "HalfOpen", "Suspended"}
Timer == Int \cup {None}

Snapshot ==
  [ mode       : Modes,
    reason     : FailureClasses \cup {None},
    next       : Timer,        \* next_probe_at_ms
    failures   : Nat,          \* consecutive_failures
    backoff    : Nat,          \* backoff_level
    probing    : BOOLEAN,      \* probe_in_flight
    lease      : Timer,        \* probe_deadline_at_ms
    generation : Nat ]

\* CircuitPermit, as far as the breaker reads it.
Permits == [generation : Nat, probe : BOOLEAN]

\* CircuitSnapshot::default, at the given generation.
Fresh(generation) ==
  [ mode |-> "Closed", reason |-> None, next |-> None, failures |-> 0,
    backoff |-> 0, probing |-> FALSE, lease |-> None,
    generation |-> generation ]

Lesser(a, b) == IF a <= b THEN a ELSE b
Greater(a, b) == IF a <= b THEN b ELSE a

-----------------------------------------------------------------------------
(* Retry timing.                                                           *)

SlowestDelay(class) == Schedule[class][Len(Schedule[class])]

\* The classes whose Retry-After hint is taken.
HonoursHint(class) ==
  class \in {"ProviderCapacity", "ProviderQuota", "ProviderTransient",
             "StreamFailure", "ProviderUnknown5xxOrTransport"}

ScheduledDelay(class, level) ==
  Schedule[class][Lesser(level + 1, Len(Schedule[class]))]

M_HintUncapped(class, level, hint) ==
  IF HonoursHint(class) /\ hint # None THEN hint
  ELSE ScheduledDelay(class, level)

RetryDelay(class, level, hint) ==
  IF HonoursHint(class) /\ hint # None
  THEN Lesser(hint, SlowestDelay(class))
  ELSE ScheduledDelay(class, level)

-----------------------------------------------------------------------------
(* The passage of time.                                                    *)

AgedTimer(left, time) ==
  IF left = None THEN None ELSE Greater(left - time, -MaxLag)

Aged(s, time) ==
  [s EXCEPT !.next = AgedTimer(@, time), !.lease = AgedTimer(@, time)]

Due(left, lag) == left # None /\ left <= -lag

-----------------------------------------------------------------------------
(* The transitions.                                                        *)

UnavailableMode(reason) ==
  IF reason \in {"ProviderAuth", "ProviderBilling", "ProviderConfiguration",
                 "ProviderUnknown4xx"}
  THEN "Suspended" ELSE "Open"

\* The options a snapshot holds are those its mode needs.
WellFormed(s) ==
  /\ s.mode = "Closed"   => s = Fresh(s.generation)
  /\ s.mode # "Closed"   => s.reason # None /\ s.next # None
  /\ s.mode \in {"Open", "Suspended"} => s.mode = UnavailableMode(s.reason)
  /\ s.mode = "HalfOpen" => s.probing = TRUE /\ s.lease # None
  /\ s.mode # "HalfOpen" => s.probing = FALSE /\ s.lease = None

\* A half-open snapshot gives its probe up and may be probed again in `wait`.
Released(s, wait) ==
  [s EXCEPT !.mode = UnavailableMode(s.reason), !.next = wait,
            !.probing = FALSE, !.lease = None, !.generation = @ + 1]

\* A probe that outlived its lease is disowned before the decision is taken.
M_NeverReclaimed(s, lag) == s
M_ReclaimKeepsGeneration(s, lag) ==
  IF s.mode = "HalfOpen" /\ Due(s.lease, lag)
  THEN [Released(s, -lag) EXCEPT !.generation = s.generation] ELSE s

Reclaimed(s, lag) ==
  IF s.mode = "HalfOpen" /\ Due(s.lease, lag) THEN Released(s, -lag) ELSE s

MayProbe(s, lag) == s.mode \in {"Open", "Suspended"} /\ Due(s.next, lag)

HalfOpened(s, lag) ==
  [s EXCEPT !.mode = "HalfOpen", !.probing = TRUE,
            !.lease = ProbeLease - lag]

\* complete_success.
TakesSuccess(s, permit) ==
  /\ permit.generation = s.generation
  /\ IF permit.probe THEN s.mode = "HalfOpen" ELSE s.mode # "Closed"

Succeeded(s, permit) ==
  IF TakesSuccess(s, permit) THEN Fresh(s.generation + 1) ELSE s

\* complete_abandonment.
TakesAbandonment(s, permit) ==
  permit.probe /\ permit.generation = s.generation /\ s.mode = "HalfOpen"

M_AbandonedForGood(s, permit) ==
  IF TakesAbandonment(s, permit) THEN Released(s, None) ELSE s

Abandoned(s, permit) ==
  IF TakesAbandonment(s, permit) THEN Released(s, AbandonDelay) ELSE s

\* complete_failure.
M_TakesAnyGeneration(s, permit) ==
  s.mode = (IF permit.probe THEN "HalfOpen" ELSE "Closed")
M_TakesLateFailure(s, permit) == s.mode # "HalfOpen" \/ permit.probe

TakesFailure(s, permit) ==
  /\ permit.generation = s.generation
  /\ s.mode = IF permit.probe THEN "HalfOpen" ELSE "Closed"

Tripped(s, class, hint) ==
  LET level == IF s.reason = class THEN s.backoff ELSE 0
  IN  [ mode |-> UnavailableMode(class), reason |-> class,
        next |-> RetryDelay(class, level, hint),
        failures |-> s.failures + 1, backoff |-> level + 1,
        probing |-> FALSE, lease |-> None, generation |-> s.generation + 1 ]

Failed(s, permit, class, hint) ==
  IF ~AffectsCircuit(class) THEN Abandoned(s, permit)
  ELSE IF TakesFailure(s, permit) THEN Tripped(s, class, hint) ELSE s

\* CircuitBreaker::load, on the record the store holds.
ClampClass(s) ==
  IF s.reason = None THEN "ProviderUnknown5xxOrTransport" ELSE s.reason

Clamped(s) ==
  IF s.next = None THEN s
  ELSE [s EXCEPT !.next = Lesser(@, SlowestDelay(ClampClass(s)))]

Loaded(s) ==
  CASE s.mode = "HalfOpen"            -> Released(s, 0)
    [] s.mode \in {"Open", "Suspended"} -> Clamped(s)
    [] OTHER                          -> s

=============================================================================
