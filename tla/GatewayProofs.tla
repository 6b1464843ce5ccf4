---------------------------- MODULE GatewayProofs ----------------------------
(***************************************************************************)
(* Proofs about Gateway for any targets, pools, requests, plans, stored    *)
(* records and schedules.  Part 1: the types.  Part 2: the walk of one     *)
(* request, which no other request disturbs.  Part 3: the circuits, which  *)
(* all requests share.  Part 4: the contract of every target.              *)
(***************************************************************************)
EXTENDS Gateway, FiniteSetTheorems, WellFoundedInduction, TLAPS

-----------------------------------------------------------------------------
(* The transitions of a snapshot, as CircuitProofs has them: it is taken   *)
(* without requests, crashes or hints, which they do not depend on.        *)

Lone == INSTANCE CircuitProofs
  WITH Nothing <- None, Requests <- {}, Endless <- {}, Outcomes <- {},
       Hints <- {}, MaxCrashes <- 0, MaxClockStep <- 0,
       mem <- None, disk <- None, up <- FALSE, pc <- <<>>, permit <- <<>>,
       woken <- {}, unsaved <- FALSE, crashes <- 0

Sound == {s \in Snapshot : WellFormed(s)}
Moved(s, t) ==
  /\ t.generation = s.generation + 1
  /\ t.mode # "HalfOpen"
  /\ t.mode # "Closed" => t.next <= SlowestDelay(t.reason)

\* What is assumed of a circuit holds of this one.
LEMMA LoneAssumptions ==
  /\ Lone!NoneAssumption /\ Lone!DelayAssumption /\ Lone!ScheduleAssumption
  /\ Lone!EnvironmentAssumption
BY NoneAssumption, DelayAssumption, ScheduleAssumption
DEF Lone!NoneAssumption, Lone!DelayAssumption, Lone!ScheduleAssumption,
    Lone!EnvironmentAssumption, Lone!FailureClasses, FailureClasses

LEMMA SameSets ==
  /\ Lone!Sound = Sound /\ Lone!Permits = Permits /\ Lone!FailureClasses = FailureClasses
  /\ \A s, t : Lone!Moved(s, t) <=> Moved(s, t)
BY DEF Lone!Sound, Sound, Lone!Snapshot, Snapshot, Lone!WellFormed, WellFormed,
       Lone!Modes, Modes, Lone!Timer, Timer, Lone!FailureClasses, FailureClasses,
       Lone!Fresh, Fresh, Lone!UnavailableMode, UnavailableMode, Lone!Permits, Permits,
       Lone!Moved, Moved, Lone!SlowestDelay, SlowestDelay

\* What a sound snapshot holds when it is not closed.
LEMMA SoundFields ==
  ASSUME NEW s \in Sound
  PROVE  /\ s \in Snapshot /\ WellFormed(s)
         /\ s.generation \in Nat /\ s.failures \in Nat /\ s.backoff \in Nat
         /\ s.mode # "Closed" => s.reason \in FailureClasses /\ s.next \in Int
         /\ s.mode = "HalfOpen" => s.lease \in Int
BY DEF Sound, Snapshot, WellFormed, Timer

\* Time passes, ...
LEMMA AgedSound ==
  ASSUME NEW s \in Sound, NEW time \in Int
  PROVE  /\ Aged(s, time) \in Sound
         /\ Aged(s, time).mode = s.mode
         /\ Aged(s, time).reason = s.reason
         /\ Aged(s, time).next = AgedTimer(s.next, time)
         /\ Aged(s, time).failures = s.failures
         /\ Aged(s, time).generation = s.generation
<1>1. /\ Lone!Aged(s, time) = Aged(s, time)
      /\ Lone!AgedTimer(s.next, time) = AgedTimer(s.next, time)
  BY DEF Lone!Aged, Aged, Lone!AgedTimer, AgedTimer, Lone!Greater, Greater
<1> QED
  BY <1>1, SameSets, LoneAssumptions, Lone!AgedSound

\* ... a record is loaded, ...
LEMMA LoadedSound ==
  ASSUME NEW s \in Sound
  PROVE  /\ Loaded(s) \in Sound
         /\ Loaded(s).mode # "HalfOpen"
         /\ Loaded(s).mode # "Closed" => Loaded(s).next <= SlowestDelay(Loaded(s).reason)
<1>1. /\ Lone!Loaded(s) = Loaded(s)
      /\ \A class : Lone!SlowestDelay(class) = SlowestDelay(class)
  BY DEF Lone!Loaded, Loaded, Lone!Released, Released, Lone!Clamped, Clamped,
         Lone!ClampClass, ClampClass, Lone!Lesser, Lesser, Lone!UnavailableMode,
         UnavailableMode, Lone!SlowestDelay, SlowestDelay
<1> QED
  BY <1>1, SameSets, LoneAssumptions, Lone!LoadedSound

\* ... an expired lease is reclaimed, ...
LEMMA ReclaimedSound ==
  ASSUME NEW s \in Sound, NEW lag \in 0..MaxLag
  PROVE  /\ Reclaimed(s, lag) \in Sound
         /\ Reclaimed(s, lag).failures = s.failures
         /\ \/ Reclaimed(s, lag) = s
            \/ /\ s.mode = "HalfOpen"
               /\ Reclaimed(s, lag).generation = s.generation + 1
               /\ Reclaimed(s, lag).mode \in {"Open", "Suspended"}
<1>1. Lone!Reclaimed(s, lag) = Reclaimed(s, lag)
  BY DEF Lone!Reclaimed, Reclaimed, Lone!Released, Released, Lone!UnavailableMode,
         UnavailableMode, Lone!Due, Due
<1> QED
  BY <1>1, SameSets, LoneAssumptions, Lone!ReclaimedSound

\* ... a probe begins, ...
LEMMA HalfOpenedSound ==
  ASSUME NEW s \in Sound, s.mode # "Closed", NEW lag \in 0..MaxLag
  PROVE  /\ HalfOpened(s, lag) \in Sound
         /\ HalfOpened(s, lag).mode = "HalfOpen"
         /\ HalfOpened(s, lag).failures = s.failures
         /\ HalfOpened(s, lag).generation = s.generation
<1>1. Lone!HalfOpened(s, lag) = HalfOpened(s, lag)
  BY DEF Lone!HalfOpened, HalfOpened
<1> QED
  BY <1>1, SameSets, LoneAssumptions, Lone!HalfOpenedSound

\* ... and a permit is settled in one of three ways.
LEMMA SameAbandoned ==
  ASSUME NEW s, NEW p
  PROVE  /\ Lone!Abandoned(s, p) = Abandoned(s, p)
         /\ Lone!TakesAbandonment(s, p) <=> TakesAbandonment(s, p)
BY DEF Lone!Abandoned, Abandoned, Lone!TakesAbandonment, TakesAbandonment,
       Lone!Released, Released, Lone!UnavailableMode, UnavailableMode

LEMMA AbandonedFacts ==
  ASSUME NEW s \in Sound, NEW p \in Permits
  PROVE  /\ Abandoned(s, p) \in Sound
         /\ TakesAbandonment(s, p) => Moved(s, Abandoned(s, p))
         /\ ~TakesAbandonment(s, p) => Abandoned(s, p) = s
         /\ Abandoned(s, p).failures = s.failures
BY SameSets, SameAbandoned, LoneAssumptions, Lone!AbandonedFacts

LEMMA SucceededFacts ==
  ASSUME NEW s \in Sound, NEW p \in Permits
  PROVE  /\ Succeeded(s, p) \in Sound
         /\ TakesSuccess(s, p) => Moved(s, Succeeded(s, p))
         /\ ~TakesSuccess(s, p) => Succeeded(s, p) = s
         /\ Succeeded(s, p).failures <= s.failures
<1>1. /\ Lone!Succeeded(s, p) = Succeeded(s, p)
      /\ Lone!TakesSuccess(s, p) <=> TakesSuccess(s, p)
  BY DEF Lone!Succeeded, Succeeded, Lone!TakesSuccess, TakesSuccess, Lone!Fresh, Fresh
<1> QED
  BY <1>1, SameSets, LoneAssumptions, Lone!SucceededFacts

LEMMA FailedFacts ==
  ASSUME NEW s \in Sound, NEW p \in Permits, NEW class \in FailureClasses,
         NEW hint \in Nat \cup {None}
  PROVE  /\ Failed(s, p, class, hint) \in Sound
         /\ \/ Failed(s, p, class, hint) = s
            \/ Moved(s, Failed(s, p, class, hint))
         /\ TakesAbandonment(s, p) => Moved(s, Failed(s, p, class, hint))
         /\ Failed(s, p, class, hint).failures # s.failures =>
              /\ TakesFailure(s, p)
              /\ Failed(s, p, class, hint).failures = s.failures + 1
              /\ Failed(s, p, class, hint).backoff <= s.backoff + 1
         /\ \/ Failed(s, p, class, hint) = s
            \/ TakesAbandonment(s, p)
            \/ /\ TakesFailure(s, p)
               /\ Failed(s, p, class, hint).mode \in {"Open", "Suspended"}
<1>1. Lone!Tripped(s, class, hint) = Tripped(s, class, hint)
  BY DEF Lone!Tripped, Tripped, Lone!UnavailableMode, UnavailableMode,
         Lone!RetryDelay, RetryDelay, Lone!HonoursHint, HonoursHint,
         Lone!SlowestDelay, SlowestDelay, Lone!ScheduledDelay, ScheduledDelay,
         Lone!Lesser, Lesser
<1>2. /\ Lone!Failed(s, p, class, hint) = Failed(s, p, class, hint)
      /\ Lone!TakesFailure(s, p) <=> TakesFailure(s, p)
  BY <1>1, SameAbandoned
  DEF Lone!Failed, Failed, Lone!TakesFailure, TakesFailure, Lone!AffectsCircuit,
      AffectsCircuit
<1> QED
  BY <1>2, SameSets, SameAbandoned, LoneAssumptions, Lone!FailedFacts

-----------------------------------------------------------------------------
(* Part 1.  Types.                                                         *)

Stages == {"new", "routing", "deciding", "attempting", "pausing", "streaming",
           "closing", "sleeping", "over"}
Orphan == [client : Requests, target : Targets, generation : Nat]

TypeOK ==
  /\ deployment \in Deployments
  /\ circuit \in [Targets -> Sound]
  /\ orphans \subseteq Orphan
  /\ stage \in [Requests -> Stages]
  /\ plan \in [Requests -> Seq(Targets)]
  /\ attempted \in [Requests -> SUBSET Targets]
  /\ evaluated \in [Requests -> SUBSET Targets]
  /\ watching \in [Requests -> SUBSET Targets]
  /\ woken \subseteq Requests
  /\ lease \in [Requests -> Targets \cup {None}]
  /\ permit \in [Requests -> Permits \cup {None}]
  /\ retry \in [Requests -> BOOLEAN]
  /\ failure \in [Requests -> FailureClasses \cup {None}]
  /\ budget \in [Requests -> Nat \cup {None}]
  /\ outcome \in [Requests -> Ends \cup {None}]
  /\ sent \in [Requests -> [Targets -> Nat]]
  /\ waited \in [Requests -> Nat]

LEMMA LeastElement ==
  ASSUME NEW S, S \subseteq Nat, S # {}
  PROVE  \E i \in S : \A j \in S : i <= j
<1> DEFINE Below == {pair \in Nat \X Nat : pair[1] < pair[2]}
<1>1. IsWellFoundedOn(Below, Nat)
  BY NatLessThanWellFounded DEF OpToRel
<1> HIDE DEF Below
<1>2. PICK i \in S : \A j \in S : ~(<<j, i>> \in Below)
  BY <1>1, WFMin
<1>3. \A j \in S : ~(j < i) /\ j \in Nat /\ i \in Nat
  BY <1>2 DEF Below
<1> QED
  BY <1>3

\* The next candidate is a target the request has not had a permit for.
LEMMA CandidateFacts ==
  ASSUME TypeOK, NEW r \in Requests, Remaining(r) # {}
  PROVE  Candidate(r) \in Targets \ (attempted[r] \cup evaluated[r])
<1> DEFINE S == Remaining(r)
<1>1. plan[r] \in Seq(Targets)
  BY DEF TypeOK
<1>2. S \subseteq Nat /\ S # {}
  BY <1>1 DEF Remaining
<1>3. \E i \in S : \A j \in S : i <= j
  BY <1>2, LeastElement
<1>4. (CHOOSE i \in S : \A j \in S : i <= j) \in S
  BY <1>3
<1>5. PICK i \in S : Candidate(r) = plan[r][i]
  BY <1>4 DEF Candidate
<1>6. i \in DOMAIN plan[r] /\ plan[r][i] \notin attempted[r] \cup evaluated[r]
  BY <1>5 DEF Remaining
<1> QED
  BY <1>1, <1>5, <1>6

\* What a result makes of the circuit c of a target, reported under permit p:
\* nothing, or another generation; only the probe ends a half-open one.
Reported(c, p, s) ==
  /\ s \in Sound
  /\ s = c \/ Moved(c, s)
  /\ TakesAbandonment(c, p) => Moved(c, s)
  /\ \/ s = c
     \/ TakesAbandonment(c, p)
     \/ TakesSuccess(c, p)
     \/ TakesFailure(c, p) /\ s.mode \in {"Open", "Suspended"}

LEMMA Settling ==
  ASSUME TypeOK, LeaseLastsAsLong, NEW r \in Requests, Succeed(r) \/ Fail(r) \/ Break(r)
  PROVE  /\ lease[r] \in Targets /\ permit[r] \in Permits
         /\ stage[r] \in {"attempting", "streaming"}
         /\ \E s \in Sound : Settle(r, s) /\ Reported(circuit[lease[r]], permit[r], s)
<1>1. stage[r] \in {"attempting", "streaming"}
  BY DEF Succeed, Fail, Break, At
<1>2. lease[r] \in Targets /\ permit[r] \in Permits /\ circuit[lease[r]] \in Sound
  BY <1>1 DEF TypeOK, LeaseLastsAsLong
<1> DEFINE c == circuit[lease[r]]
           p == permit[r]
<1>3. CASE Succeed(r)
  <2>1. Settle(r, Succeeded(c, p))
    BY <1>3 DEF Succeed
  <2>2. Reported(c, p, Succeeded(c, p))
    BY <1>2, SucceededFacts DEF Reported, TakesAbandonment, TakesSuccess
  <2> QED
    BY <1>1, <1>2, <2>1, <2>2 DEF Reported
<1>4. CASE Fail(r) \/ Break(r)
  <2>1. PICK class \in Outcomes, hint \in Hints \cup {None} : Settle(r, Failed(c, p, class, hint))
    BY <1>4 DEF Fail, Break
  <2>2. class \in FailureClasses /\ hint \in Nat \cup {None}
    BY <2>1, RoutesAssumption, ClientsAssumption DEF TypeOK, Outcomes
  <2>3. Reported(c, p, Failed(c, p, class, hint))
    BY <1>2, <2>2, FailedFacts DEF Reported
  <2> QED
    BY <1>1, <1>2, <2>1, <2>3 DEF Reported
<1> QED
  BY <1>3, <1>4

LEMMA PublishType ==
  ASSUME TypeOK, NEW t \in Targets, NEW s \in Sound, Publish(t, s)
  PROVE  /\ circuit' \in [Targets -> Sound] /\ woken' \subseteq Requests
         /\ \A u \in Targets : circuit'[u] = IF u = t THEN s ELSE circuit[u]
BY DEF TypeOK, Publish, SetCircuit

\* What the circuit's lock lets a request do that is given the probe.
LEMMA ProbeFacts ==
  ASSUME NEW c \in Sound, MayProbe(Reclaimed(c, 0), 0)
  PROVE  LET s == Reclaimed(c, 0) IN
         /\ HalfOpened(s, 0) \in Sound /\ HalfOpened(s, 0).mode = "HalfOpen"
         /\ HalfOpened(s, 0).generation = s.generation /\ s.generation \in Nat
         /\ \/ s.generation = c.generation /\ c.mode \in {"Open", "Suspended"}
            \/ s.generation = c.generation + 1 /\ c.mode = "HalfOpen"
<1>1. 0 \in 0..MaxLag
  BY DelayAssumption
<1>2. Reclaimed(c, 0) \in Sound /\ Reclaimed(c, 0).mode \in {"Open", "Suspended"}
  BY <1>1, ReclaimedSound DEF MayProbe
<1> QED
  BY <1>1, <1>2, ReclaimedSound, HalfOpenedSound, SoundFields

LEMMA GivenPermit ==
  ASSUME TypeOK, LeaseLastsAsLong, NEW r \in Requests, DecidePrimary(r)
  PROVE  LET t == lease[r]
             s == Reclaimed(circuit[t], 0) IN
         /\ stage[r] = "deciding" /\ t \in Targets /\ circuit[t] \in Sound
         /\ s \in Sound /\ s.generation \in Nat
         /\ \E probe \in BOOLEAN :
              /\ [generation |-> s.generation, probe |-> probe] \in Permits
              /\ permit' = [permit EXCEPT ![r] = [generation |-> s.generation, probe |-> probe]]
              /\ IF probe
                 THEN MayProbe(s, 0) /\ circuit' = [circuit EXCEPT ![t] = HalfOpened(s, 0)]
                 ELSE s.mode = "Closed" /\ circuit' = circuit
<1> DEFINE t == lease[r]
           s == Reclaimed(circuit[t], 0)
           Given(probe) == [generation |-> s.generation, probe |-> probe]
<1>1. stage[r] = "deciding" /\ t \in Targets /\ circuit[t] \in Sound
  BY DEF DecidePrimary, At, LeaseLastsAsLong, TypeOK
<1>2. s \in Sound /\ s.generation \in Nat
  <2>1. 0 \in 0..MaxLag
    BY DelayAssumption
  <2> QED
    BY <1>1, <2>1, ReclaimedSound, SoundFields
<1>3. Given(TRUE) \in Permits /\ Given(FALSE) \in Permits
  BY <1>2 DEF Permits
<1>4. \/ /\ s.mode = "Closed" /\ circuit' = circuit
         /\ permit' = [permit EXCEPT ![r] = Given(FALSE)]
      \/ /\ MayProbe(s, 0) /\ circuit' = [circuit EXCEPT ![t] = HalfOpened(s, 0)]
         /\ permit' = [permit EXCEPT ![r] = Given(TRUE)]
  BY Zenon DEF DecidePrimary, SetCircuit
<1> QED
  BY <1>1, <1>2, <1>3, <1>4

LEMMA TypeInit == Init => TypeOK
<1> SUFFICES ASSUME Init
             PROVE  TypeOK
  OBVIOUS
<1>1. PICK stored \in Stored : circuit = [t \in Targets |-> Loaded(stored[t])]
  BY DEF Init
<1>2. \A t \in Targets : stored[t] \in Sound
  BY RoutesAssumption DEF Sound
<1>3. circuit \in [Targets -> Sound]
  BY <1>1, <1>2, LoadedSound
<1> QED
  BY <1>3 DEF Init, TypeOK, Stages

LEMMA TypeStep ==
  ASSUME TypeOK, LeaseLastsAsLong, [Next]_vars
  PROVE  TypeOK'
<1> USE DEF breakers, pass, holding, ending, history
<1>1. ASSUME NEW r \in Requests, UNCHANGED deployment, Arrive(r)
      PROVE  TypeOK'
  BY <1>1, RoutesAssumption DEF Arrive, Goto, Stages, TypeOK
<1>2. ASSUME NEW r \in Requests, UNCHANGED deployment, Acquire(r) \/ SkipFull(r)
      PROVE  TypeOK'
  <2>1. Candidate(r) \in Targets
    BY <1>2, CandidateFacts DEF Acquire, SkipFull, Looking
  <2>2. evaluated' \in [Requests -> SUBSET Targets]
    <3>1. Evaluate(r, Candidate(r))
      BY <1>2 DEF Acquire, SkipFull
    <3> QED
      BY <2>1, <3>1 DEF Evaluate, TypeOK
  <2>3. CASE Acquire(r)
    BY <1>2, <2>1, <2>2, <2>3 DEF Acquire, Goto, Stages, TypeOK
  <2>4. CASE SkipFull(r)
    BY <1>2, <2>2, <2>4 DEF SkipFull, TypeOK
  <2> QED
    BY <1>2, <2>3, <2>4
<1>3. ASSUME NEW r \in Requests, UNCHANGED deployment, DecidePrimary(r)
      PROVE  TypeOK'
  <2> DEFINE t == lease[r]
             s == Reclaimed(circuit[t], 0)
  <2>1. stage[r] = "deciding" /\ t \in Targets /\ circuit[t] \in Sound
    BY <1>3, GivenPermit
  <2>2. \/ circuit' = circuit
        \/ MayProbe(s, 0) /\ circuit' = [circuit EXCEPT ![t] = HalfOpened(s, 0)]
    BY <1>3, GivenPermit
  <2>3. circuit' \in [Targets -> Sound]
    BY <2>1, <2>2, ProbeFacts DEF TypeOK
  <2>4. PICK p \in Permits : permit' = [permit EXCEPT ![r] = p]
    BY <1>3, GivenPermit
  <2>5. permit' \in [Requests -> Permits \cup {None}]
    BY <2>4 DEF TypeOK
  <2>6. sent' \in [Requests -> [Targets -> Nat]]
    BY <1>3, <2>1 DEF DecidePrimary, TypeOK
  <2>7. attempted' \in [Requests -> SUBSET Targets] /\ retry' \in [Requests -> BOOLEAN]
        /\ stage' \in [Requests -> Stages]
    BY <1>3, <2>1 DEF DecidePrimary, Goto, Stages, TypeOK
  <2> QED
    BY <1>3, <2>3, <2>5, <2>6, <2>7 DEF DecidePrimary, TypeOK
<1>4. ASSUME NEW r \in Requests, UNCHANGED deployment, DecideFallback(r)
      PROVE  TypeOK'
  <2>1. lease[r] \in Targets
    BY <1>4 DEF DecideFallback, At, LeaseLastsAsLong, TypeOK
  <2> QED
    BY <1>4, <2>1 DEF DecideFallback, Goto, Stages, TypeOK
<1>5. ASSUME NEW r \in Requests, UNCHANGED deployment, Succeed(r) \/ Fail(r) \/ Break(r)
      PROVE  TypeOK'
  <2>1. PICK s \in Sound : Settle(r, s)
    BY <1>5, Settling
  <2>2. lease[r] \in Targets
    BY <1>5, Settling
  <2>3. /\ circuit' \in [Targets -> Sound] /\ woken' \subseteq Requests
        /\ permit' = [permit EXCEPT ![r] = None] /\ stage' = [stage EXCEPT ![r] = "closing"]
    BY <2>1, <2>2, PublishType DEF Settle, Goto
  <2>4. failure' \in [Requests -> FailureClasses \cup {None}]
    BY <1>5, RoutesAssumption DEF Succeed, Fail, Break, Outcomes, TypeOK
  <2>5. outcome' \in [Requests -> Ends \cup {None}]
    BY <1>5 DEF Succeed, Fail, Break, Ends, TypeOK
  <2>6. UNCHANGED <<orphans, plan, attempted, evaluated, watching, lease, retry, budget, sent, waited>>
    BY <1>5 DEF Succeed, Fail, Break
  <2> QED
    BY <1>5, <2>3, <2>4, <2>5, <2>6 DEF Stages, TypeOK
<1>6. ASSUME NEW r \in Requests, UNCHANGED deployment, StartStream(r) \/ Pause(r) \/ Close(r)
      PROVE  TypeOK'
  BY <1>6 DEF StartStream, Pause, Close, Goto, Stages, TypeOK
<1>7. ASSUME NEW r \in Requests, UNCHANGED deployment, Resend(r)
      PROVE  TypeOK'
  <2>1. lease[r] \in Targets
    BY <1>7 DEF Resend, At, LeaseLastsAsLong, TypeOK
  <2>2. sent' \in [Requests -> [Targets -> Nat]]
    BY <1>7, <2>1 DEF Resend, TypeOK
  <2> QED
    BY <1>7, <2>2 DEF Resend, Goto, Stages, TypeOK
<1>8. ASSUME NEW r \in Requests, UNCHANGED deployment, GiveUp(r) \/ Wake(r) \/ Expire(r)
      PROVE  TypeOK'
  BY <1>8 DEF GiveUp, Wake, Expire, Goto, Stages, Ends, TypeOK
<1>9. ASSUME NEW r \in Requests, UNCHANGED deployment, Sleep(r)
      PROVE  TypeOK'
  <2>1. BudgetLeft(r) \in Nat
    BY ClientsAssumption DEF BudgetLeft, TypeOK
  <2> QED
    BY <1>9, <2>1 DEF Sleep, Goto, Stages, TypeOK
<1>10. ASSUME NEW r \in Requests, UNCHANGED deployment, Cancel(r)
       PROVE  TypeOK'
  <2>1. orphans' \subseteq Orphan
    <3>1. CASE permit[r] # None /\ permit[r].probe
      <4>1. permit[r] \in Permits /\ lease[r] \in Targets
        BY <3>1 DEF TypeOK, LeaseLastsAsLong
      <4> QED
        BY <1>10, <3>1, <4>1 DEF Cancel, Orphan, Permits, TypeOK
    <3>2. CASE ~(permit[r] # None /\ permit[r].probe)
      BY <1>10, <3>2 DEF Cancel, TypeOK
    <3> QED
      BY <3>1, <3>2
  <2> QED
    BY <1>10, <2>1 DEF Cancel, Goto, Stages, Ends, TypeOK
<1>11. ASSUME UNCHANGED deployment, Abandon
       PROVE  TypeOK'
  <2>1. PICK o \in orphans :
          /\ Publish(o.target, Abandoned(circuit[o.target],
                                         [generation |-> o.generation, probe |-> TRUE]))
          /\ orphans' = orphans \ {o}
    BY <1>11 DEF Abandon
  <2>2. o.target \in Targets /\ [generation |-> o.generation, probe |-> TRUE] \in Permits
    BY DEF TypeOK, Orphan, Permits
  <2>3. Abandoned(circuit[o.target], [generation |-> o.generation, probe |-> TRUE]) \in Sound
    BY <2>2, AbandonedFacts DEF TypeOK
  <2>4. circuit' \in [Targets -> Sound] /\ woken' \subseteq Requests
    BY <2>1, <2>2, <2>3, PublishType
  <2> QED
    BY <1>11, <2>1, <2>4 DEF Abandon, TypeOK
<1>12. ASSUME UNCHANGED deployment, Tick
       PROVE  TypeOK'
  <2>1. circuit' \in [Targets -> Sound]
    BY <1>12, AgedSound DEF Tick, TypeOK
  <2>2. budget' \in [Requests -> Nat \cup {None}]
    BY <1>12 DEF Tick, TypeOK, Greater
  <2>3. waited' \in [Requests -> Nat]
    BY <1>12 DEF Tick, TypeOK
  <2> QED
    BY <1>12, <2>1, <2>2, <2>3 DEF Tick, TypeOK
<1>13. CASE UNCHANGED vars
  BY <1>13 DEF vars, moving, TypeOK
<1> QED
  BY <1>1, <1>2, <1>3, <1>4, <1>5, <1>6, <1>7, <1>8, <1>9, <1>10, <1>11, <1>12, <1>13
  DEF Next, Advance, Respond

-----------------------------------------------------------------------------
(* Part 2.  The walk of one request.                                       *)

Ending ==
  \A r \in Requests :
    /\ outcome[r] # None => stage[r] \in {"closing", "over"}
    /\ stage[r] = "over" => outcome[r] # None

SleepsLast == \A r \in Requests : stage[r] = "sleeping" => Remaining(r) = {}

MaySend(r, t) ==
  IF t \notin attempted[r] THEN 0
  ELSE IF lease[r] = t /\ (retry[r] \/ stage[r] = "pausing") THEN 1
  ELSE 2

SendsOf(r) ==
  /\ stage[r] = "deciding" => lease[r] \notin attempted[r]
  /\ stage[r] = "pausing" => ~retry[r]
  /\ \A t \in Targets : sent[r][t] <= MaySend(r, t)

Sends == \A r \in Requests : SendsOf(r)

Waits ==
  \A r \in Requests :
    /\ budget[r] = None => waited[r] = 0 /\ stage[r] # "sleeping"
    /\ budget[r] # None => waited[r] + budget[r] <= Budget

\* Settling a permit moves the request, and the lease and the rest of its walk
\* stay.
LEMMA SettleMoves ==
  ASSUME TypeOK, LeaseLastsAsLong, NEW r \in Requests, Succeed(r) \/ Fail(r) \/ Break(r)
  PROVE  /\ stage[r] \in {"attempting", "streaming"}
         /\ stage' = [stage EXCEPT ![r] = "closing"]
         /\ permit' = [permit EXCEPT ![r] = None]
         /\ UNCHANGED <<orphans, plan, attempted, evaluated, watching, lease, retry,
                        budget, sent, waited>>
<1>1. PICK s \in Sound : Settle(r, s)
  BY Settling
<1> QED
  BY <1>1, Settling DEF Settle, Goto, Succeed, Fail, Break, history

LEMMA LeasesStep ==
  ASSUME TypeOK, LeaseLastsAsLong, [Next]_vars
  PROVE  LeaseLastsAsLong'
<1> USE NamesAssumption DEF breakers, pass, holding, ending, history, TypeOK, Stages,
        LeaseLastsAsLong, Goto, At
<1>1. ASSUME NEW r \in Requests, Arrive(r) \/ GiveUp(r) \/ Sleep(r) \/ Wake(r) \/ Expire(r)
      PROVE  LeaseLastsAsLong'
  <2> DEFINE Idle == {"new", "routing", "sleeping", "over"}
  <2>1. PICK to \in Idle : stage' = [stage EXCEPT ![r] = to]
    BY <1>1 DEF Arrive, GiveUp, Sleep, Wake, Expire
  <2>2. stage[r] \in Idle /\ UNCHANGED <<lease, permit, attempted>>
    BY <1>1 DEF Arrive, GiveUp, Sleep, Wake, Expire, PassDone
  <2> QED
    BY <2>1, <2>2
<1>2. ASSUME NEW r \in Requests, Acquire(r)
      PROVE  LeaseLastsAsLong'
  <2>1. Candidate(r) \in Targets
    BY <1>2, CandidateFacts DEF Acquire, Looking
  <2> QED
    BY <1>2, <2>1 DEF Acquire, Looking
<1>3. ASSUME NEW r \in Requests, SkipFull(r)
      PROVE  LeaseLastsAsLong'
  BY <1>3 DEF SkipFull
<1>4. ASSUME NEW r \in Requests, DecidePrimary(r)
      PROVE  LeaseLastsAsLong'
  <2>1. /\ stage[r] = "deciding" /\ stage' = [stage EXCEPT ![r] = "attempting"]
        /\ attempted' = [attempted EXCEPT ![r] = @ \cup {lease[r]}] /\ lease' = lease
    BY <1>4 DEF DecidePrimary
  <2>2. PICK p \in Permits : permit' = [permit EXCEPT ![r] = p]
    BY <1>4, GivenPermit
  <2> QED
    BY <2>1, <2>2
<1>5. ASSUME NEW r \in Requests, DecideFallback(r)
      PROVE  LeaseLastsAsLong'
  BY <1>5 DEF DecideFallback
<1>6. ASSUME NEW r \in Requests, Succeed(r) \/ Fail(r) \/ Break(r)
      PROVE  LeaseLastsAsLong'
  <2>1. /\ stage[r] \in {"attempting", "streaming"}
        /\ stage' = [stage EXCEPT ![r] = "closing"]
        /\ permit' = [permit EXCEPT ![r] = None]
        /\ UNCHANGED <<attempted, lease>>
    BY <1>6, SettleMoves
  <2> QED
    BY <2>1
<1>7. ASSUME NEW r \in Requests, StartStream(r) \/ Pause(r) \/ Resend(r) \/ Close(r)
      PROVE  LeaseLastsAsLong'
  BY <1>7 DEF StartStream, Pause, Resend, Close
<1>8. ASSUME NEW r \in Requests, Cancel(r)
      PROVE  LeaseLastsAsLong'
  BY <1>8 DEF Cancel
<1>9. CASE Abandon \/ Tick \/ UNCHANGED vars
  BY <1>9 DEF Abandon, Tick, vars, moving
<1> QED
  BY <1>1, <1>2, <1>3, <1>4, <1>5, <1>6, <1>7, <1>8, <1>9 DEF Next, Advance, Respond

LEMMA EndingStep ==
  ASSUME TypeOK, LeaseLastsAsLong, Ending, [Next]_vars
  PROVE  Ending'
<1> USE NamesAssumption DEF breakers, pass, holding, ending, history, TypeOK, Stages,
        Ending, Goto, At, Ends
<1>1. ASSUME NEW r \in Requests,
             \/ Arrive(r) \/ Acquire(r) \/ SkipFull(r) \/ DecidePrimary(r) \/ DecideFallback(r)
             \/ StartStream(r) \/ Pause(r) \/ Resend(r) \/ Sleep(r) \/ Wake(r)
      PROVE  Ending'
  <2>1. PICK to \in Stages \ {"over"} : stage' = [stage EXCEPT ![r] = to] \/ stage' = stage
    BY <1>1 DEF Arrive, Acquire, SkipFull, DecidePrimary, DecideFallback, StartStream, Pause,
                Resend, Sleep, Wake
  <2>2. outcome' = outcome /\ stage[r] \notin {"closing", "over"}
    BY <1>1 DEF Arrive, Acquire, SkipFull, DecidePrimary, DecideFallback, StartStream, Pause,
                Resend, Sleep, Wake, Looking, PassDone
  <2> QED
    BY <2>1, <2>2
<1>2. ASSUME NEW r \in Requests, Succeed(r) \/ Fail(r) \/ Break(r)
      PROVE  Ending'
  <2>1. stage' = [stage EXCEPT ![r] = "closing"]
    BY <1>2, SettleMoves
  <2>2. PICK x : outcome' = [outcome EXCEPT ![r] = x]
    BY <1>2 DEF Succeed, Fail, Break
  <2> QED
    BY <2>1, <2>2
<1>3. ASSUME NEW r \in Requests, Close(r)
      PROVE  Ending'
  BY <1>3 DEF Close
<1>4. ASSUME NEW r \in Requests, GiveUp(r) \/ Expire(r) \/ Cancel(r)
      PROVE  Ending'
  <2>1. stage' = [stage EXCEPT ![r] = "over"]
    BY <1>4 DEF GiveUp, Expire, Cancel
  <2>2. PICK x \in Ends : outcome' = [outcome EXCEPT ![r] = x]
    BY <1>4 DEF GiveUp, Expire, Cancel
  <2> QED
    BY <2>1, <2>2
<1>5. CASE Abandon \/ Tick \/ UNCHANGED vars
  BY <1>5 DEF Abandon, Tick, vars, moving
<1> QED
  BY <1>1, <1>2, <1>3, <1>4, <1>5 DEF Next, Advance, Respond

\* Nobody else changes what is left of a request's pass.
LEMMA SleepersStep ==
  ASSUME TypeOK, LeaseLastsAsLong, SleepsLast, [Next]_vars
  PROVE  SleepsLast'
<1> USE DEF breakers, pass, holding, ending, history, TypeOK, SleepsLast, Goto, At
<1>1. ASSUME NEW r \in Requests,
             \/ Arrive(r) \/ Acquire(r) \/ SkipFull(r) \/ DecidePrimary(r) \/ DecideFallback(r)
             \/ StartStream(r) \/ Pause(r) \/ Resend(r) \/ Close(r) \/ GiveUp(r) \/ Expire(r)
             \/ Wake(r) \/ Cancel(r) \/ Succeed(r) \/ Fail(r) \/ Break(r)
      PROVE  SleepsLast'
  <2>1. PICK to \in Stages \ {"sleeping"} :
          \/ stage' = [stage EXCEPT ![r] = to]
          \/ stage' = stage /\ stage[r] = "routing"
    BY <1>1 DEF Arrive, Acquire, SkipFull, DecidePrimary, DecideFallback, StartStream, Pause,
                Resend, Close, GiveUp, Expire, Wake, Cancel, Succeed, Fail, Break, Settle, Stages,
                Looking
  <2>2. ASSUME NEW q \in Requests \ {r}
        PROVE  Remaining(q)' = Remaining(q) /\ stage'[q] = stage[q]
    <3>1. /\ plan'[q] = plan[q] /\ attempted'[q] = attempted[q]
          /\ evaluated'[q] = evaluated[q]
      BY <1>1 DEF Arrive, Acquire, SkipFull, DecidePrimary, DecideFallback, StartStream, Pause,
                  Resend, Close, GiveUp, Expire, Wake, Cancel, Succeed, Fail, Break, Evaluate
    <3> QED
      BY <2>1, <3>1 DEF Remaining
  <2>3. stage'[r] # "sleeping"
    BY <2>1
  <2> QED
    BY <2>2, <2>3
<1>2. ASSUME NEW r \in Requests, Sleep(r)
      PROVE  SleepsLast'
  BY <1>2 DEF Sleep, PassDone, Remaining
<1>3. CASE Abandon \/ Tick \/ UNCHANGED vars
  BY <1>3 DEF Abandon, Tick, vars, moving, Remaining
<1> QED
  BY <1>1, <1>2, <1>3 DEF Next, Advance, Respond

LEMMA SendsStep ==
  ASSUME TypeOK, LeaseLastsAsLong, Sends, [Next]_vars
  PROVE  Sends'
<1> USE NamesAssumption DEF breakers, pass, holding, ending, history, TypeOK, Stages,
        Sends, SendsOf, MaySend, Goto, At
<1>1. ASSUME NEW r \in Requests,
             Arrive(r) \/ SkipFull(r) \/ GiveUp(r) \/ Sleep(r) \/ Wake(r) \/ Expire(r)
             \/ StartStream(r)
      PROVE  Sends'
  <2>1. PICK to \in Stages \ {"deciding", "pausing"} :
          stage' = [stage EXCEPT ![r] = to] \/ stage' = stage
    BY <1>1 DEF Arrive, SkipFull, GiveUp, Sleep, Wake, Expire, StartStream, Looking
  <2>2. stage[r] # "pausing" /\ UNCHANGED <<lease, retry, attempted, sent>>
    BY <1>1 DEF Arrive, SkipFull, GiveUp, Sleep, Wake, Expire, StartStream, PassDone, Looking
  <2> QED
    BY <2>1, <2>2
<1>2. ASSUME NEW r \in Requests, Acquire(r)
      PROVE  Sends'
  <2>1. Candidate(r) \in Targets \ attempted[r]
    BY <1>2, CandidateFacts DEF Acquire, Looking
  <2>2. /\ stage[r] = "routing" /\ stage' = [stage EXCEPT ![r] = "deciding"]
        /\ lease' = [lease EXCEPT ![r] = Candidate(r)]
        /\ UNCHANGED <<retry, attempted, sent>>
    BY <1>2 DEF Acquire, Looking
  <2> QED
    BY <2>1, <2>2
<1>3. ASSUME NEW r \in Requests, DecidePrimary(r)
      PROVE  Sends'
  <2> DEFINE t == lease[r]
             more == sent[r][t] + 1
  <2>1. /\ stage[r] = "deciding" /\ stage' = [stage EXCEPT ![r] = "attempting"]
        /\ attempted' = [attempted EXCEPT ![r] = @ \cup {t}] /\ lease' = lease
        /\ retry' = [retry EXCEPT ![r] = TRUE]
        /\ sent' = [sent EXCEPT ![r][t] = more]
    BY <1>3 DEF DecidePrimary
  <2>2. t \in Targets /\ sent[r][t] = 0
    BY <1>3, <2>1, GivenPermit
  <2>3. more = 1
    BY <2>2
  <2> HIDE DEF more
  <2>4. ASSUME NEW q \in Requests \ {r}
        PROVE  SendsOf(q)'
    <3>1. /\ stage'[q] = stage[q] /\ attempted'[q] = attempted[q] /\ lease'[q] = lease[q]
          /\ retry'[q] = retry[q] /\ sent'[q] = sent[q]
      BY <2>1
    <3> QED
      BY <3>1
  <2>5. \A u \in Targets : sent'[r][u] = IF u = t THEN 1 ELSE sent[r][u]
    BY <2>1, <2>2, <2>3
  <2>6. /\ stage'[r] = "attempting" /\ lease'[r] = t /\ retry'[r] = TRUE
        /\ attempted'[r] = attempted[r] \cup {t}
    BY <2>1
  <2>7. SendsOf(r)'
    <3>1. ASSUME NEW u \in Targets
          PROVE  sent'[r][u] <= MaySend(r, u)'
      BY <2>1, <2>2, <2>5, <2>6
    <3> QED
      BY <2>6, <3>1
  <2> HIDE DEF SendsOf
  <2> QED
    BY <2>4, <2>7
<1>4. ASSUME NEW r \in Requests, DecideFallback(r)
      PROVE  Sends'
  BY <1>4 DEF DecideFallback
<1>5. ASSUME NEW r \in Requests, Succeed(r) \/ Fail(r) \/ Break(r)
      PROVE  Sends'
  <2>1. /\ stage[r] \in {"attempting", "streaming"}
        /\ stage' = [stage EXCEPT ![r] = "closing"]
        /\ UNCHANGED <<attempted, lease, retry, sent>>
    BY <1>5, SettleMoves
  <2> QED
    BY <2>1
<1>6. ASSUME NEW r \in Requests, Pause(r) \/ Close(r) \/ Cancel(r)
      PROVE  Sends'
  <2>1. CASE Pause(r)
    BY <2>1 DEF Pause
  <2>2. CASE Close(r) \/ Cancel(r)
    <3>1. PICK to \in {"routing", "over"} : stage' = [stage EXCEPT ![r] = to]
      BY <2>2 DEF Close, Cancel
    <3>2. lease' = [lease EXCEPT ![r] = None] /\ UNCHANGED <<attempted, retry, sent>>
      BY <2>2 DEF Close, Cancel
    <3>3. \A t \in Targets : t # None
      OBVIOUS
    <3> QED
      BY <3>1, <3>2, <3>3
  <2> QED
    BY <1>6, <2>1, <2>2
<1>7. ASSUME NEW r \in Requests, Resend(r)
      PROVE  Sends'
  <2> DEFINE t == lease[r]
             more == sent[r][t] + 1
  <2>1. /\ stage[r] = "pausing" /\ stage' = [stage EXCEPT ![r] = "attempting"]
        /\ sent' = [sent EXCEPT ![r][t] = more]
        /\ UNCHANGED <<attempted, lease, retry>>
    BY <1>7 DEF Resend
  <2>2. t \in Targets /\ t \in attempted[r] /\ ~retry[r] /\ more <= 2
    BY <2>1 DEF LeaseLastsAsLong
  <2> HIDE DEF more
  <2>3. \A u \in Targets : sent'[r][u] = IF u = t THEN more ELSE sent[r][u]
    BY <2>1, <2>2
  <2>4. \A q \in Requests \ {r} : stage'[q] = stage[q] /\ sent'[q] = sent[q]
    BY <2>1
  <2>5. stage'[r] = "attempting"
    BY <2>1
  <2> QED
    BY <2>1, <2>2, <2>3, <2>4, <2>5
<1>8. CASE Abandon \/ Tick \/ UNCHANGED vars
  <2>1. UNCHANGED <<stage, attempted, lease, retry, sent>>
    BY <1>8 DEF Abandon, Tick, vars, moving
  <2> QED
    BY <2>1
<1> HIDE DEF TypeOK, Stages, Sends, SendsOf, MaySend, LeaseLastsAsLong, Goto, At
<1> QED
  BY <1>1, <1>2, <1>3, <1>4, <1>5, <1>6, <1>7, <1>8 DEF Next, Advance, Respond

\* What a turned away request has looked at, and what ends it, is settled in
\* the step that turns it away.
LEMMA TurnedAwayStep ==
  ASSUME TypeOK, LeaseLastsAsLong, Ending, SleepsLast, TurnedAwayLast, [Next]_vars
  PROVE  TurnedAwayLast'
<1> USE NamesAssumption, NoneAssumption DEF breakers, pass, holding, ending, history, TypeOK,
        TurnedAwayLast, TurnedAway, Goto, At, Ends, Ending
<1>1. ASSUME NEW r \in Requests,
             \/ Arrive(r) \/ Acquire(r) \/ SkipFull(r) \/ DecidePrimary(r) \/ DecideFallback(r)
             \/ StartStream(r) \/ Pause(r) \/ Resend(r) \/ Sleep(r) \/ Wake(r)
      PROVE  TurnedAwayLast'
  <2>1. UNCHANGED <<outcome, failure>> /\ stage[r] \notin {"closing", "over"}
    BY <1>1 DEF Arrive, Acquire, SkipFull, DecidePrimary, DecideFallback, StartStream, Pause,
                Resend, Sleep, Wake, Looking, PassDone
  <2>2. outcome[r] = None
    BY <2>1
  <2>3. ASSUME NEW q \in Requests \ {r}
        PROVE  /\ plan'[q] = plan[q] /\ attempted'[q] = attempted[q]
               /\ evaluated'[q] = evaluated[q]
    BY <1>1 DEF Arrive, Acquire, SkipFull, DecidePrimary, DecideFallback, StartStream, Pause,
                Resend, Sleep, Wake, Evaluate
  <2> QED
    BY <2>1, <2>2, <2>3
<1>2. ASSUME NEW r \in Requests, Succeed(r) \/ Fail(r) \/ Break(r)
      PROVE  TurnedAwayLast'
  <2>1. UNCHANGED <<plan, attempted, evaluated>> /\ stage[r] \in {"attempting", "streaming"}
    BY <1>2, SettleMoves
  <2>2. outcome[r] = None
    BY <2>1
  <2>3. PICK class \in FailureClasses, x \in Ends \cup {None} :
          /\ outcome' = [outcome EXCEPT ![r] = x]
          /\ \/ failure' = [failure EXCEPT ![r] = class]
             \/ failure' = failure /\ x = "answered"
          /\ \/ x \in {"answered", "broken"}
             \/ x = None /\ AllowsFallback(class)
             \/ x = "failed" /\ ~AllowsFallback(class) /\ failure'[r] = class
    <3>1. CASE Succeed(r)
      BY <3>1 DEF Succeed, FailureClasses
    <3>2. CASE Fail(r)
      <4>1. PICK class \in Outcomes :
              /\ failure' = [failure EXCEPT ![r] = class]
              /\ outcome' = [outcome EXCEPT ![r] = IF AllowsFallback(class) THEN @ ELSE "failed"]
        BY <3>2 DEF Fail
      <4>2. class \in FailureClasses /\ failure'[r] = class
        BY <4>1, RoutesAssumption DEF Outcomes
      <4> QED
        BY <2>2, <4>1, <4>2
    <3>3. CASE Break(r)
      BY <3>3, RoutesAssumption DEF Break, Outcomes
    <3> QED
      BY <1>2, <3>1, <3>2, <3>3
  <2> QED
    BY <2>1, <2>2, <2>3
<1>3. ASSUME NEW r \in Requests, GiveUp(r) \/ Expire(r)
      PROVE  TurnedAwayLast'
  <2>1. \A i \in DOMAIN plan[r] : plan[r][i] \in attempted[r] \cup evaluated[r]
    BY <1>3 DEF GiveUp, Expire, PassDone, Remaining, SleepsLast
  <2>2. UNCHANGED <<plan, attempted, evaluated, failure>>
    BY <1>3 DEF GiveUp, Expire
  <2>3. PICK x \in Ends : outcome' = [outcome EXCEPT ![r] = x]
    BY <1>3 DEF GiveUp, Expire
  <2> QED
    BY <2>1, <2>2, <2>3
<1>4. ASSUME NEW r \in Requests, Close(r)
      PROVE  TurnedAwayLast'
  BY <1>4 DEF Close
<1>5. ASSUME NEW r \in Requests, Cancel(r)
      PROVE  TurnedAwayLast'
  BY <1>5 DEF Cancel
<1>6. CASE Abandon \/ Tick \/ UNCHANGED vars
  BY <1>6 DEF Abandon, Tick, vars, moving
<1> QED
  BY <1>1, <1>2, <1>3, <1>4, <1>5, <1>6 DEF Next, Advance, Respond

LEMMA WaitsStep ==
  ASSUME TypeOK, Waits, [Next]_vars
  PROVE  Waits'
<1> USE NamesAssumption, NoneAssumption, ClientsAssumption
    DEF breakers, pass, holding, ending, history, TypeOK, Waits, Goto, At
<1>1. ASSUME NEW r \in Requests,
             \/ Arrive(r) \/ Acquire(r) \/ SkipFull(r) \/ DecidePrimary(r) \/ DecideFallback(r)
             \/ StartStream(r) \/ Pause(r) \/ Resend(r) \/ Close(r) \/ GiveUp(r) \/ Expire(r)
             \/ Wake(r) \/ Cancel(r) \/ Succeed(r) \/ Fail(r) \/ Break(r)
      PROVE  Waits'
  <2>1. UNCHANGED <<budget, waited>>
    BY <1>1 DEF Arrive, Acquire, SkipFull, DecidePrimary, DecideFallback, StartStream, Pause,
                Resend, Close, GiveUp, Expire, Wake, Cancel, Succeed, Fail, Break
  <2>2. PICK to \in Stages \ {"sleeping"} : stage' = [stage EXCEPT ![r] = to] \/ stage' = stage
    BY <1>1 DEF Arrive, Acquire, SkipFull, DecidePrimary, DecideFallback, StartStream, Pause,
                Resend, Close, GiveUp, Expire, Wake, Cancel, Succeed, Fail, Break, Settle, Stages
  <2> QED
    BY <2>1, <2>2
<1>2. ASSUME NEW r \in Requests, Sleep(r)
      PROVE  Waits'
  <2>1. BudgetLeft(r) \in Nat /\ waited[r] + BudgetLeft(r) <= Budget
    BY DEF BudgetLeft
  <2>2. /\ budget' = [budget EXCEPT ![r] = BudgetLeft(r)] /\ waited' = waited
        /\ stage' = [stage EXCEPT ![r] = "sleeping"]
    BY <1>2 DEF Sleep
  <2> QED
    BY <2>1, <2>2
<1>3. CASE Tick
  <2>1. /\ stage' = stage
        /\ budget' = [r \in Requests |->
             IF budget[r] = None THEN None ELSE Greater(budget[r] - 1, 0)]
        /\ waited' = [r \in Requests |->
             IF stage[r] = "sleeping" /\ budget[r] > 0 THEN waited[r] + 1 ELSE waited[r]]
    BY <1>3 DEF Tick
  <2>2. ASSUME NEW r \in Requests
        PROVE  /\ budget'[r] = None => waited'[r] = 0 /\ stage'[r] # "sleeping"
               /\ budget'[r] # None => waited'[r] + budget'[r] <= Budget
    <3>1. CASE budget[r] = None
      BY <2>1, <3>1
    <3>2. CASE budget[r] # None
      <4>1. budget[r] \in Nat /\ waited[r] \in Nat /\ waited[r] + budget[r] <= Budget
        BY <3>2
      <4>2. budget'[r] = Greater(budget[r] - 1, 0) /\ budget'[r] \in Nat
        BY <2>1, <3>2, <4>1 DEF Greater
      <4>3. waited'[r] = IF stage[r] = "sleeping" /\ budget[r] > 0 THEN waited[r] + 1 ELSE waited[r]
        BY <2>1
      <4> QED
        BY <4>1, <4>2, <4>3 DEF Greater
    <3> QED
      BY <3>1, <3>2
  <2> QED
    BY <2>2
<1>4. CASE Abandon \/ UNCHANGED vars
  BY <1>4 DEF Abandon, vars, moving
<1> QED
  BY <1>1, <1>2, <1>3, <1>4 DEF Next, Advance, Respond

-----------------------------------------------------------------------------
(* Part 3.  The circuits.                                                  *)

NoFuture ==
  /\ \A r \in Requests : permit[r] # None =>
       permit[r].generation <= circuit[lease[r]].generation
  /\ \A o \in orphans : o.generation <= circuit[o.target].generation

PrimaryMeansClosed ==
  \A r \in Requests :
    permit[r] # None /\ ~permit[r].probe /\
    permit[r].generation = circuit[lease[r]].generation =>
      circuit[lease[r]].mode = "Closed"

OwnersMatch(t) ==
  IF circuit[t].mode = "HalfOpen"
  THEN \/ OrphansOf(t) = {} /\ \E r \in Requests : ProbersOf(t) = {r}
       \/ ProbersOf(t) = {} /\ \E o \in orphans : OrphansOf(t) = {o}
  ELSE ProbersOf(t) = {} /\ OrphansOf(t) = {}

OneOwner == \A t \in Targets : OwnersMatch(t)

Watching(r) ==
  r \notin woken /\ stage[r] # "over" =>
    \A t \in watching[r] : circuit[t].mode = "HalfOpen"

Watches == \A r \in Requests : Watching(r)

OrphansAreOver ==
  /\ \A o \in orphans : stage[o.client] = "over" /\ o.target \in attempted[o.client]
  /\ \A o, p \in orphans : o.client = p.client => o = p

\* Every step is, for the circuits and those who hold permits of them, one of
\* five: nothing; a permit given to a request; a permit settled; a permit
\* dropped; a dropped probe abandoned.
Alike(t) ==
  circuit'[t].mode = circuit[t].mode /\ circuit'[t].generation = circuit[t].generation

GenerationEnds(t) ==
  circuit'[t].generation = circuit[t].generation + 1 /\ circuit'[t].mode # "HalfOpen"

Quiet ==
  /\ UNCHANGED <<orphans, permit, attempted>>
  /\ \A t \in Targets : Alike(t)
  /\ \A r \in Requests : permit[r] # None => lease'[r] = lease[r]

Granted(r) ==
  LET t == lease[r] IN
  /\ stage[r] = "deciding" /\ t \in Targets /\ permit[r] = None
  /\ UNCHANGED <<orphans, lease>> /\ attempted' = [attempted EXCEPT ![r] = @ \cup {t}]
  /\ permit' \in [Requests -> Permits \cup {None}] /\ permit'[r] \in Permits
  /\ \A q \in Requests \ {r} : permit'[q] = permit[q]
  /\ \A u \in Targets \ {t} : Alike(u)
  /\ permit'[r].generation = circuit'[t].generation
  /\ IF permit'[r].probe
     THEN /\ circuit'[t].mode = "HalfOpen"
          /\ \/ /\ circuit'[t].generation = circuit[t].generation
                /\ circuit[t].mode \in {"Open", "Suspended"}
             \/ /\ circuit'[t].generation = circuit[t].generation + 1
                /\ circuit[t].mode = "HalfOpen"
     ELSE Alike(t) /\ circuit[t].mode = "Closed"

SettledBy(r) ==
  LET t == lease[r] IN
  /\ stage[r] \in {"attempting", "streaming"} /\ t \in Targets /\ permit[r] \in Permits
  /\ UNCHANGED <<orphans, lease, attempted>>
  /\ permit' = [permit EXCEPT ![r] = None]
  /\ \A u \in Targets \ {t} : Alike(u)
  /\ \/ Alike(t) /\ ~TakesAbandonment(circuit[t], permit[r])
     \/ /\ GenerationEnds(t)
        /\ \/ TakesAbandonment(circuit[t], permit[r])
           \/ TakesSuccess(circuit[t], permit[r])
           \/ TakesFailure(circuit[t], permit[r]) /\ circuit'[t].mode \in {"Open", "Suspended"}

DroppedBy(r) ==
  /\ stage[r] \notin {"new", "over"} /\ stage' = [stage EXCEPT ![r] = "over"]
  /\ UNCHANGED <<circuit, attempted>>
  /\ lease' = [lease EXCEPT ![r] = None] /\ permit' = [permit EXCEPT ![r] = None]
  /\ IF permit[r] # None /\ permit[r].probe
     THEN orphans' = orphans \cup
            {[client |-> r, target |-> lease[r], generation |-> permit[r].generation]}
     ELSE orphans' = orphans

GivenBack(o) ==
  LET t == o.target
      p == [generation |-> o.generation, probe |-> TRUE]
  IN
  /\ UNCHANGED <<lease, permit, attempted>>
  /\ orphans' = orphans \ {o}
  /\ \A u \in Targets \ {t} : Alike(u)
  /\ \/ Alike(t) /\ ~TakesAbandonment(circuit[t], p)
     \/ GenerationEnds(t) /\ TakesAbandonment(circuit[t], p)

LEMMA FiveSteps ==
  ASSUME TypeOK, LeaseLastsAsLong, [Next]_vars
  PROVE  \/ Quiet
         \/ \E r \in Requests : Granted(r) \/ SettledBy(r) \/ DroppedBy(r)
         \/ \E o \in orphans : GivenBack(o)
<1> USE DEF breakers, pass, holding, ending, history
<1>1. ASSUME NEW r \in Requests,
             \/ Arrive(r) \/ Acquire(r) \/ SkipFull(r) \/ DecideFallback(r) \/ StartStream(r)
             \/ Pause(r) \/ Resend(r) \/ Close(r) \/ GiveUp(r) \/ Sleep(r) \/ Wake(r)
             \/ Expire(r)
      PROVE  Quiet
  <2>1. UNCHANGED <<circuit, orphans, permit, attempted>>
    BY <1>1 DEF Arrive, Acquire, SkipFull, DecideFallback, StartStream, Pause, Resend, Close,
                GiveUp, Sleep, Wake, Expire
  <2>2. \/ lease' = lease
        \/ permit[r] = None /\ \E x : lease' = [lease EXCEPT ![r] = x]
    <3>1. CASE Acquire(r) \/ DecideFallback(r) \/ Close(r)
      <4>1. stage[r] \in {"routing", "deciding", "closing"}
        BY <3>1 DEF Acquire, DecideFallback, Close, Looking, At
      <4>2. permit[r] = None
        BY <4>1 DEF LeaseLastsAsLong
      <4> QED
        BY <3>1, <4>2 DEF Acquire, DecideFallback, Close
    <3>2. CASE ~(Acquire(r) \/ DecideFallback(r) \/ Close(r))
      BY <1>1, <3>2 DEF Arrive, SkipFull, StartStream, Pause, Resend, GiveUp, Sleep, Wake, Expire
    <3> QED
      BY <3>1, <3>2
  <2>3. ASSUME NEW q \in Requests, permit[q] # None
        PROVE  lease'[q] = lease[q]
    BY <2>2, <2>3 DEF TypeOK
  <2> QED
    BY <2>1, <2>3 DEF Quiet, Alike
<1>2. ASSUME NEW r \in Requests, DecidePrimary(r)
      PROVE  Granted(r)
  <2> DEFINE t == lease[r]
             s == Reclaimed(circuit[t], 0)
             Given(probe) == [generation |-> s.generation, probe |-> probe]
  <2>1. /\ stage[r] = "deciding" /\ t \in Targets /\ circuit[t] \in Sound
        /\ s \in Sound /\ s.generation \in Nat
    BY <1>2, GivenPermit
  <2>2. permit[r] = None
    BY <2>1 DEF LeaseLastsAsLong
  <2>3. UNCHANGED <<orphans, lease>> /\ attempted' = [attempted EXCEPT ![r] = @ \cup {t}]
    BY <1>2 DEF DecidePrimary
  <2>4. PICK probe \in BOOLEAN :
          /\ Given(probe) \in Permits
          /\ permit' = [permit EXCEPT ![r] = Given(probe)]
          /\ IF probe
             THEN MayProbe(s, 0) /\ circuit' = [circuit EXCEPT ![t] = HalfOpened(s, 0)]
             ELSE s.mode = "Closed" /\ circuit' = circuit
    BY <1>2, GivenPermit
  <2>5. /\ permit'[r] = Given(probe) /\ permit' \in [Requests -> Permits \cup {None}]
        /\ \A q \in Requests \ {r} : permit'[q] = permit[q]
        /\ Given(probe).generation = s.generation /\ Given(probe).probe = probe
    BY <2>4 DEF TypeOK
  <2>6. \A u \in Targets \ {t} : Alike(u)
    BY <2>1, <2>4 DEF Alike, TypeOK
  <2>7. CASE probe
    <3>1. /\ HalfOpened(s, 0).mode = "HalfOpen" /\ HalfOpened(s, 0).generation = s.generation
          /\ \/ s.generation = circuit[t].generation /\ circuit[t].mode \in {"Open", "Suspended"}
             \/ s.generation = circuit[t].generation + 1 /\ circuit[t].mode = "HalfOpen"
      BY <2>1, <2>4, <2>7, ProbeFacts
    <3>2. circuit'[t] = HalfOpened(s, 0)
      BY <2>1, <2>4, <2>7 DEF TypeOK
    <3> HIDE DEF t, s
    <3> QED
      BY <2>1, <2>2, <2>3, <2>4, <2>5, <2>6, <2>7, <3>1, <3>2 DEF Granted, t
  <2>8. CASE ~probe
    <3>1. s.mode = "Closed" /\ circuit' = circuit /\ 0 \in 0..MaxLag
      BY <2>4, <2>8, DelayAssumption
    <3>2. s = circuit[t]
      BY <2>1, <3>1, ReclaimedSound
    <3> HIDE DEF s
    <3> QED
      BY <2>1, <2>2, <2>3, <2>4, <2>5, <2>6, <2>8, <3>1, <3>2 DEF Granted, Alike
  <2> QED
    BY <2>7, <2>8
<1>3. ASSUME NEW r \in Requests, Succeed(r) \/ Fail(r) \/ Break(r)
      PROVE  SettledBy(r)
  <2> DEFINE t == lease[r]
  <2>1. /\ t \in Targets /\ permit[r] \in Permits /\ stage[r] \in {"attempting", "streaming"}
        /\ permit' = [permit EXCEPT ![r] = None] /\ UNCHANGED <<orphans, lease, attempted>>
    BY <1>3, Settling, SettleMoves
  <2>2. PICK s \in Sound : Settle(r, s) /\ Reported(circuit[t], permit[r], s)
    BY <1>3, Settling
  <2>3. \A u \in Targets : circuit'[u] = IF u = t THEN s ELSE circuit[u]
    BY <2>1, <2>2, PublishType DEF Settle
  <2>4. circuit[t].generation \in Nat
    BY <2>1, SoundFields DEF TypeOK
  <2>5. \/ s = circuit[t] /\ ~TakesAbandonment(circuit[t], permit[r])
        \/ /\ Moved(circuit[t], s)
           /\ \/ TakesAbandonment(circuit[t], permit[r])
              \/ TakesSuccess(circuit[t], permit[r])
              \/ TakesFailure(circuit[t], permit[r]) /\ s.mode \in {"Open", "Suspended"}
    <3>1. Moved(circuit[t], s) => s # circuit[t]
      BY <2>4 DEF Moved
    <3> QED
      BY <2>2, <3>1 DEF Reported
  <2> HIDE DEF t
  <2>6. \/ Alike(t) /\ ~TakesAbandonment(circuit[t], permit[r])
        \/ /\ GenerationEnds(t)
           /\ \/ TakesAbandonment(circuit[t], permit[r])
              \/ TakesSuccess(circuit[t], permit[r])
              \/ TakesFailure(circuit[t], permit[r]) /\ circuit'[t].mode \in {"Open", "Suspended"}
    BY <2>1, <2>3, <2>5 DEF Alike, GenerationEnds, Moved
  <2>7. \A u \in Targets \ {t} : Alike(u)
    BY <2>3 DEF Alike
  <2> QED
    BY <2>1, <2>6, <2>7 DEF SettledBy, t
<1>4. ASSUME NEW r \in Requests, Cancel(r)
      PROVE  DroppedBy(r)
  BY <1>4 DEF Cancel, DroppedBy, Goto
<1>5. CASE Abandon
  <2>1. PICK o \in orphans :
          /\ Publish(o.target, Abandoned(circuit[o.target],
                                         [generation |-> o.generation, probe |-> TRUE]))
          /\ orphans' = orphans \ {o}
    BY <1>5 DEF Abandon
  <2> DEFINE t == o.target
             p == [generation |-> o.generation, probe |-> TRUE]
             s == Abandoned(circuit[t], p)
  <2>2. t \in Targets /\ p \in Permits /\ circuit[t] \in Sound
    BY DEF TypeOK, Orphan, Permits
  <2>3. /\ s \in Sound
        /\ TakesAbandonment(circuit[t], p) => Moved(circuit[t], s)
        /\ ~TakesAbandonment(circuit[t], p) => s = circuit[t]
    BY <2>2, AbandonedFacts
  <2> HIDE DEF s
  <2>4. \A u \in Targets : circuit'[u] = IF u = t THEN s ELSE circuit[u]
    BY <2>1, <2>2, <2>3, PublishType DEF s
  <2>5. \/ Alike(t) /\ ~TakesAbandonment(circuit[t], p)
        \/ GenerationEnds(t) /\ TakesAbandonment(circuit[t], p)
    BY <2>2, <2>3, <2>4 DEF Alike, GenerationEnds, Moved
  <2>6. UNCHANGED <<lease, permit, attempted>>
    BY <1>5 DEF Abandon
  <2>7. \A u \in Targets \ {t} : Alike(u)
    BY <2>4 DEF Alike
  <2>8. GivenBack(o)
    BY <2>1, <2>5, <2>6, <2>7 DEF GivenBack
  <2> QED
    BY <2>8
<1>6. CASE Tick
  <2>1. \A t \in Targets : Alike(t)
    BY <1>6, AgedSound DEF Tick, Alike, TypeOK
  <2> QED
    BY <1>6, <2>1 DEF Tick, Quiet
<1>7. CASE UNCHANGED vars
  BY <1>7 DEF vars, moving, Quiet, Alike
<1> QED
  BY <1>1, <1>2, <1>3, <1>4, <1>5, <1>6, <1>7 DEF Next, Advance, Respond

\* The generations are numbers, and the targets of permits and orphans exist.
LEMMA Generations ==
  ASSUME TypeOK, LeaseLastsAsLong
  PROVE  /\ \A t \in Targets : circuit[t].generation \in Nat /\ circuit[t].mode \in Modes
         /\ \A r \in Requests : permit[r] # None =>
              /\ permit[r] \in Permits /\ permit[r].generation \in Nat
              /\ permit[r].probe \in BOOLEAN /\ lease[r] \in Targets
         /\ \A o \in orphans :
              o.client \in Requests /\ o.target \in Targets /\ o.generation \in Nat
<1>1. \A t \in Targets : circuit[t] \in Sound
  BY DEF TypeOK
<1>2. \A r \in Requests : permit[r] # None => permit[r] \in Permits /\ lease[r] \in Targets
  BY DEF TypeOK, LeaseLastsAsLong
<1>3. \A o \in orphans : o \in Orphan
  BY DEF TypeOK
<1> QED
  BY <1>1, <1>2, <1>3 DEF Sound, Snapshot, Permits, Orphan

\* Generations only grow, and within one the circuit can only half-open.
LEMMA GenerationsGrow ==
  ASSUME TypeOK, LeaseLastsAsLong, [Next]_vars, NEW t \in Targets
  PROVE  \/ Alike(t)
         \/ /\ circuit'[t].generation = circuit[t].generation
            /\ circuit[t].mode \in {"Open", "Suspended"} /\ circuit'[t].mode = "HalfOpen"
         \/ circuit'[t].generation = circuit[t].generation + 1
<1>1. CASE Quiet
  BY <1>1 DEF Quiet
<1>2. ASSUME NEW r \in Requests, Granted(r)
      PROVE  \/ Alike(t)
             \/ /\ circuit'[t].generation = circuit[t].generation
                /\ circuit[t].mode \in {"Open", "Suspended"} /\ circuit'[t].mode = "HalfOpen"
             \/ circuit'[t].generation = circuit[t].generation + 1
  BY <1>2 DEF Granted
<1>3. ASSUME NEW r \in Requests, SettledBy(r)
      PROVE  Alike(t) \/ circuit'[t].generation = circuit[t].generation + 1
  BY <1>3 DEF SettledBy, GenerationEnds
<1>4. ASSUME NEW r \in Requests, DroppedBy(r)
      PROVE  Alike(t)
  BY <1>4 DEF DroppedBy, Alike
<1>5. ASSUME NEW o \in orphans, GivenBack(o)
      PROVE  Alike(t) \/ circuit'[t].generation = circuit[t].generation + 1
  BY <1>5 DEF GivenBack, GenerationEnds
<1> QED
  BY <1>1, <1>2, <1>3, <1>4, <1>5, FiveSteps

\* A permit stays what it was, with its lease, until it is given back; an
\* orphan is one of before, or a dropped probe.
LEMMA PermitsStay ==
  ASSUME TypeOK, LeaseLastsAsLong, [Next]_vars
  PROVE  /\ \A r \in Requests : permit'[r] # None =>
              \/ permit'[r] = permit[r] /\ lease'[r] = lease[r]
              \/ Granted(r) /\ lease'[r] = lease[r]
         /\ \A o \in orphans' :
              \/ o \in orphans
              \/ \E r \in Requests :
                   /\ DroppedBy(r) /\ permit[r] # None /\ permit[r].probe
                   /\ o = [client |-> r, target |-> lease[r],
                           generation |-> permit[r].generation]
<1> DEFINE Stay == \A r \in Requests : permit'[r] # None =>
                     \/ permit'[r] = permit[r] /\ lease'[r] = lease[r]
                     \/ Granted(r) /\ lease'[r] = lease[r]
<1>1. CASE Quiet
  BY <1>1 DEF Quiet
<1>2. ASSUME NEW q \in Requests, Granted(q)
      PROVE  Stay /\ orphans' = orphans
  BY <1>2 DEF Granted
<1>3. ASSUME NEW q \in Requests, SettledBy(q)
      PROVE  Stay /\ orphans' = orphans
  BY <1>3 DEF SettledBy, TypeOK
<1>4. ASSUME NEW q \in Requests, DroppedBy(q)
      PROVE  /\ Stay
             /\ \A o \in orphans' :
                  \/ o \in orphans
                  \/ /\ permit[q] # None /\ permit[q].probe
                     /\ o = [client |-> q, target |-> lease[q],
                             generation |-> permit[q].generation]
  BY <1>4 DEF DroppedBy, TypeOK
<1>5. ASSUME NEW o \in orphans, GivenBack(o)
      PROVE  Stay /\ orphans' \subseteq orphans
  BY <1>5 DEF GivenBack
<1> HIDE DEF Stay
<1>6. Stay
  BY <1>1, <1>2, <1>3, <1>4, <1>5, FiveSteps DEF Quiet, Stay
<1>7. \A o \in orphans' :
        \/ o \in orphans
        \/ \E r \in Requests :
             /\ DroppedBy(r) /\ permit[r] # None /\ permit[r].probe
             /\ o = [client |-> r, target |-> lease[r],
                     generation |-> permit[r].generation]
  <2>1. ASSUME NEW q \in Requests, DroppedBy(q), NEW o \in orphans', o \notin orphans
        PROVE  \E r \in Requests :
                 /\ DroppedBy(r) /\ permit[r] # None /\ permit[r].probe
                 /\ o = [client |-> r, target |-> lease[r],
                         generation |-> permit[r].generation]
    BY <1>4, <2>1
  <2> QED
    BY <1>1, <1>2, <1>3, <1>5, <2>1, FiveSteps DEF Quiet
<1> QED
  BY <1>6, <1>7 DEF Stay

LEMMA NoFutureStep ==
  ASSUME TypeOK, LeaseLastsAsLong, NoFuture, [Next]_vars
  PROVE  NoFuture'
<1>1. \A t \in Targets : circuit[t].generation <= circuit'[t].generation /\ circuit'[t].generation \in Nat
  <2>1. TAKE t \in Targets
  <2> QED
    BY GenerationsGrow, Generations DEF Alike
<1>2. ASSUME NEW r \in Requests, permit'[r] # None
      PROVE  permit'[r].generation <= circuit'[lease'[r]].generation
  <2>1. CASE permit'[r] = permit[r] /\ lease'[r] = lease[r]
    BY <1>1, <1>2, <2>1, Generations DEF NoFuture
  <2>2. CASE Granted(r) /\ lease'[r] = lease[r]
    BY <1>1, <2>2 DEF Granted
  <2> QED
    BY <1>2, <2>1, <2>2, PermitsStay
<1>3. ASSUME NEW o \in orphans'
      PROVE  o.generation <= circuit'[o.target].generation
  <2>1. CASE o \in orphans
    BY <1>1, <2>1, Generations DEF NoFuture
  <2>2. ASSUME NEW r \in Requests, permit[r] # None,
               o = [client |-> r, target |-> lease[r], generation |-> permit[r].generation]
        PROVE  o.generation <= circuit'[o.target].generation
    BY <1>1, <2>2, Generations DEF NoFuture
  <2> QED
    BY <1>3, <2>1, <2>2, PermitsStay
<1> QED
  BY <1>2, <1>3 DEF NoFuture

LEMMA PrimaryStep ==
  ASSUME TypeOK, LeaseLastsAsLong, NoFuture, PrimaryMeansClosed, [Next]_vars
  PROVE  PrimaryMeansClosed'
<1> SUFFICES ASSUME NEW r \in Requests, permit'[r] # None, ~permit'[r].probe,
                    permit'[r].generation = circuit'[lease'[r]].generation
             PROVE  circuit'[lease'[r]].mode = "Closed"
  BY DEF PrimaryMeansClosed
<1>1. CASE permit'[r] = permit[r] /\ lease'[r] = lease[r]
  <2> DEFINE t == lease[r]
  <2>1. /\ t \in Targets /\ circuit[t].generation \in Nat /\ permit[r].generation \in Nat
        /\ permit[r].generation <= circuit[t].generation
    BY <1>1, Generations DEF NoFuture
  <2>2. \/ Alike(t)
        \/ /\ circuit'[t].generation = circuit[t].generation
           /\ circuit[t].mode \in {"Open", "Suspended"}
        \/ circuit'[t].generation = circuit[t].generation + 1
    BY <2>1, GenerationsGrow
  <2>3. circuit[t].mode = "Closed" /\ Alike(t)
    BY <1>1, <2>1, <2>2 DEF PrimaryMeansClosed, Alike
  <2> QED
    BY <1>1, <2>3 DEF Alike
<1>2. CASE Granted(r) /\ lease'[r] = lease[r]
  BY <1>2 DEF Granted, Alike
<1> QED
  BY <1>1, <1>2, PermitsStay

\* A circuit nobody touches keeps its owners.
LEMMA SameOwners ==
  ASSUME NEW t \in Targets, OwnersMatch(t), Alike(t),
         ProbersOf(t)' = ProbersOf(t), OrphansOf(t)' = OrphansOf(t)
  PROVE  OwnersMatch(t)'
<1>1. OrphansOf(t) \subseteq orphans /\ OrphansOf(t)' \subseteq orphans'
  BY DEF OrphansOf
<1>2. \A o : OrphansOf(t)' = {o} => o \in orphans'
  BY <1>1
<1> QED
  BY <1>2 DEF OwnersMatch, Alike

\* A circuit whose generation has ended has no owner: nobody holds a permit of
\* the next one.
LEMMA NoOwners ==
  ASSUME TypeOK, LeaseLastsAsLong, NoFuture, NEW t \in Targets, GenerationEnds(t),
         \A r \in Requests : permit'[r] # None =>
           permit'[r] = permit[r] /\ lease'[r] = lease[r],
         orphans' \subseteq orphans
  PROVE  OwnersMatch(t)'
<1>1. circuit[t].generation \in Nat /\ circuit'[t].generation = circuit[t].generation + 1
  BY Generations DEF GenerationEnds
<1>2. ASSUME NEW r \in Requests, permit'[r] # None, lease'[r] = t
      PROVE  permit'[r].generation # circuit'[t].generation
  BY <1>1, <1>2, Generations DEF NoFuture
<1>3. ASSUME NEW o \in orphans', o.target = t
      PROVE  o.generation # circuit'[t].generation
  BY <1>1, <1>3, Generations DEF NoFuture
<1>4. ProbersOf(t)' = {}
  BY <1>2 DEF ProbersOf
<1>5. OrphansOf(t)' = {}
  BY <1>3 DEF OrphansOf
<1> QED
  BY <1>4, <1>5 DEF OwnersMatch, GenerationEnds

LEMMA OwnersStep ==
  ASSUME TypeOK, LeaseLastsAsLong, NoFuture, OneOwner, [Next]_vars
  PROVE  OneOwner'
<1> SUFFICES ASSUME NEW t \in Targets
             PROVE  OwnersMatch(t)'
  BY DEF OneOwner
<1>1. OwnersMatch(t)
  BY DEF OneOwner
<1>2. CASE Quiet
  <2>1. Alike(t)
    BY <1>2 DEF Quiet
  <2>2. ProbersOf(t)' = ProbersOf(t)
    BY <1>2, <2>1 DEF Quiet, Alike, ProbersOf
  <2>3. OrphansOf(t)' = OrphansOf(t)
    BY <1>2, <2>1 DEF Quiet, Alike, OrphansOf
  <2> QED
    BY <1>1, <2>1, <2>2, <2>3, SameOwners
<1>3. ASSUME NEW r \in Requests, Granted(r)
      PROVE  OwnersMatch(t)'
  <2>1. /\ UNCHANGED <<orphans, lease>> /\ permit[r] = None
        /\ \A q \in Requests \ {r} : permit'[q] = permit[q]
        /\ permit'[r] # None /\ permit'[r].generation = circuit'[lease[r]].generation
    BY <1>3, NamesAssumption DEF Granted
  <2>2. CASE t # lease[r] \/ ~permit'[r].probe
    <3>1. Alike(t)
      BY <1>3, <2>2 DEF Granted
    <3>2. ProbersOf(t)' = ProbersOf(t)
      BY <2>1, <2>2, <3>1 DEF Alike, ProbersOf
    <3>3. OrphansOf(t)' = OrphansOf(t)
      BY <2>1, <3>1 DEF Alike, OrphansOf
    <3> QED
      BY <1>1, <3>1, <3>2, <3>3, SameOwners
  <2>3. CASE t = lease[r] /\ permit'[r].probe
    <3>1. /\ circuit'[t].mode = "HalfOpen"
          /\ \/ /\ circuit'[t].generation = circuit[t].generation
                /\ circuit[t].mode \in {"Open", "Suspended"}
             \/ circuit'[t].generation = circuit[t].generation + 1
      BY <1>3, <2>3 DEF Granted
    <3>2. ASSUME NEW q \in Requests \ {r}
          PROVE  q \notin ProbersOf(t)'
      <4>1. permit'[q] = permit[q] /\ lease'[q] = lease[q]
        BY <2>1
      <4>2. CASE circuit'[t].generation = circuit[t].generation /\ circuit[t].mode # "HalfOpen"
        BY <1>1, <4>1, <4>2 DEF OwnersMatch, ProbersOf
      <4>3. CASE circuit'[t].generation = circuit[t].generation + 1
        BY <4>1, <4>3, Generations DEF NoFuture, ProbersOf
      <4> QED
        BY <3>1, <4>2, <4>3
    <3>3. ASSUME NEW o \in orphans
          PROVE  o \notin OrphansOf(t)'
      <4>1. CASE circuit'[t].generation = circuit[t].generation /\ circuit[t].mode # "HalfOpen"
        BY <1>1, <4>1 DEF OwnersMatch, OrphansOf
      <4>2. CASE circuit'[t].generation = circuit[t].generation + 1
        BY <4>2, Generations DEF NoFuture, OrphansOf
      <4> QED
        BY <3>1, <4>1, <4>2
    <3>4. r \in ProbersOf(t)'
      BY <2>1, <2>3 DEF ProbersOf
    <3>5. ProbersOf(t)' = {r}
      BY <3>2, <3>4 DEF ProbersOf
    <3>6. OrphansOf(t)' = {}
      BY <2>1, <3>3 DEF OrphansOf
    <3> QED
      BY <3>1, <3>5, <3>6 DEF OwnersMatch
  <2> QED
    BY <2>2, <2>3
<1>4. ASSUME NEW r \in Requests, SettledBy(r)
      PROVE  OwnersMatch(t)'
  <2>1. /\ UNCHANGED <<orphans, lease>> /\ permit'[r] = None /\ permit[r] # None
        /\ \A q \in Requests \ {r} : permit'[q] = permit[q]
        /\ \A q \in Requests : permit'[q] # None =>
             permit'[q] = permit[q] /\ lease'[q] = lease[q]
    BY <1>4, NamesAssumption DEF SettledBy, TypeOK
  <2>2. CASE GenerationEnds(t)
    BY <2>1, <2>2, NoOwners
  <2>3. CASE Alike(t) /\ (t = lease[r] => ~TakesAbandonment(circuit[t], permit[r]))
    <3>1. r \notin ProbersOf(t)
      BY <1>1, <2>3 DEF OwnersMatch, ProbersOf, TakesAbandonment
    <3>2. ProbersOf(t)' = ProbersOf(t)
      BY <2>1, <2>3, <3>1 DEF Alike, ProbersOf
    <3>3. OrphansOf(t)' = OrphansOf(t)
      BY <2>1, <2>3 DEF Alike, OrphansOf
    <3> QED
      BY <1>1, <2>3, <3>2, <3>3, SameOwners
  <2> QED
    BY <1>4, <2>2, <2>3 DEF SettledBy
<1>5. ASSUME NEW r \in Requests, DroppedBy(r)
      PROVE  OwnersMatch(t)'
  <2> DEFINE new == [client |-> r, target |-> lease[r], generation |-> permit[r].generation]
  <2>1. /\ circuit' = circuit /\ permit'[r] = None
        /\ \A q \in Requests \ {r} : permit'[q] = permit[q] /\ lease'[q] = lease[q]
    BY <1>5 DEF DroppedBy, TypeOK
  <2>2. ProbersOf(t)' = ProbersOf(t) \ {r}
    BY <2>1 DEF ProbersOf
  <2>3. CASE r \in ProbersOf(t)
    <3>1. /\ circuit[t].mode = "HalfOpen" /\ OrphansOf(t) = {} /\ ProbersOf(t) = {r}
          /\ lease[r] = t /\ permit[r] # None /\ permit[r].probe
          /\ permit[r].generation = circuit[t].generation
      BY <1>1, <2>3 DEF OwnersMatch, ProbersOf
    <3>2. orphans' = orphans \cup {new}
      BY <1>5, <3>1 DEF DroppedBy
    <3>3. new.target = t /\ new.generation = circuit'[t].generation
      BY <2>1, <3>1
    <3> HIDE DEF new
    <3>4. OrphansOf(t)' = {new}
      BY <2>1, <3>1, <3>2, <3>3 DEF OrphansOf
    <3>5. ProbersOf(t)' = {}
      BY <2>2, <3>1
    <3> QED
      BY <2>1, <3>1, <3>2, <3>4, <3>5 DEF OwnersMatch
  <2>4. CASE r \notin ProbersOf(t)
    <3>1. orphans' = orphans \/
            /\ orphans' = orphans \cup {new} /\ permit[r] # None /\ permit[r].probe
      BY <1>5 DEF DroppedBy
    <3>2. new.target = lease[r] /\ new.generation = permit[r].generation
      OBVIOUS
    <3> HIDE DEF new
    <3>3. OrphansOf(t)' = OrphansOf(t)
      BY <2>1, <2>4, <3>1, <3>2 DEF OrphansOf, ProbersOf
    <3>4. ProbersOf(t)' = ProbersOf(t)
      BY <2>2, <2>4
    <3> QED
      BY <1>1, <2>1, <3>3, <3>4, SameOwners DEF Alike
  <2> QED
    BY <2>3, <2>4
<1>6. ASSUME NEW o \in orphans, GivenBack(o)
      PROVE  OwnersMatch(t)'
  <2>1. UNCHANGED <<lease, permit>> /\ orphans' = orphans \ {o}
    BY <1>6 DEF GivenBack
  <2>2. CASE GenerationEnds(t)
    BY <2>1, <2>2, NoOwners
  <2>3. CASE /\ Alike(t)
             /\ t = o.target => ~TakesAbandonment(circuit[t],
                                  [generation |-> o.generation, probe |-> TRUE])
    <3>1. o \notin OrphansOf(t)
      BY <1>1, <2>3 DEF OwnersMatch, OrphansOf, TakesAbandonment
    <3>2. OrphansOf(t)' = OrphansOf(t)
      BY <2>1, <2>3, <3>1 DEF Alike, OrphansOf
    <3>3. ProbersOf(t)' = ProbersOf(t)
      BY <2>1, <2>3 DEF Alike, ProbersOf
    <3> QED
      BY <1>1, <2>3, <3>2, <3>3, SameOwners
  <2> QED
    BY <1>6, <2>2, <2>3 DEF GivenBack
<1> QED
  BY <1>2, <1>3, <1>4, <1>5, <1>6, FiveSteps

\* A probe that ends tells its watchers.
LEMMA Told ==
  ASSUME TypeOK, Watches, NEW t \in Targets, NEW s \in Sound, Publish(t, s),
         watching' = watching,
         \A q \in Requests : stage'[q] # "over" => stage[q] # "over"
  PROVE  Watches'
<1> SUFFICES ASSUME NEW r \in Requests, r \notin woken', stage'[r] # "over",
                    NEW u \in watching[r]
             PROVE  circuit'[u].mode = "HalfOpen"
  BY DEF Watches, Watching
<1>1. r \notin woken /\ u \in Targets
  BY DEF Publish, TypeOK
<1>2. circuit[u].mode = "HalfOpen"
  BY <1>1 DEF Watches, Watching
<1>3. CASE u = t
  <2>1. s = circuit[t]
    BY <1>3 DEF Publish
  <2> QED
    BY <1>1, <1>2, <1>3, <2>1, PublishType
<1>4. CASE u # t
  BY <1>1, <1>2, <1>4, PublishType
<1> QED
  BY <1>3, <1>4

LEMMA WatchesStep ==
  ASSUME TypeOK, LeaseLastsAsLong, Watches, [Next]_vars
  PROVE  Watches'
<1> USE DEF breakers, pass, holding, ending, history, Goto, At
<1>1. ASSUME NEW r \in Requests,
             \/ Arrive(r) \/ Acquire(r) \/ SkipFull(r) \/ StartStream(r) \/ Pause(r) \/ Resend(r)
             \/ Close(r) \/ GiveUp(r) \/ Sleep(r) \/ Expire(r) \/ Cancel(r)
      PROVE  Watches'
  <2>1. UNCHANGED <<circuit, watching, woken>>
    BY <1>1 DEF Arrive, Acquire, SkipFull, StartStream, Pause, Resend, Close, GiveUp, Sleep,
                Expire, Cancel
  <2>2. stage[r] # "over"
    BY <1>1 DEF Arrive, Acquire, SkipFull, StartStream, Pause, Resend, Close, GiveUp, Sleep,
                Expire, Cancel, Looking, PassDone
  <2>3. stage' = stage \/ \E to : stage' = [stage EXCEPT ![r] = to]
    BY <1>1 DEF Arrive, Acquire, SkipFull, StartStream, Pause, Resend, Close, GiveUp, Sleep,
                Expire, Cancel
  <2>4. \A q \in Requests : stage'[q] # "over" => stage[q] # "over"
    BY <2>2, <2>3 DEF TypeOK
  <2> QED
    BY <2>1, <2>4 DEF Watches, Watching
<1>2. ASSUME NEW r \in Requests, Wake(r)
      PROVE  Watches'
  <2>1. /\ circuit' = circuit /\ watching' = [watching EXCEPT ![r] = {}]
        /\ woken' = woken \ {r} /\ stage' = [stage EXCEPT ![r] = "routing"]
    BY <1>2 DEF Wake
  <2>2. ASSUME NEW q \in Requests
        PROVE  Watching(q)'
    <3>1. CASE q = r
      BY <2>1, <3>1 DEF Watching, TypeOK
    <3>2. CASE q # r
      <4>1. watching'[q] = watching[q] /\ stage'[q] = stage[q] /\ (q \in woken' <=> q \in woken)
        BY <2>1, <3>2 DEF TypeOK
      <4>2. Watching(q)
        BY DEF Watches
      <4> QED
        BY <2>1, <4>1, <4>2 DEF Watching
    <3> QED
      BY <3>1, <3>2
  <2> QED
    BY <2>2 DEF Watches
<1>3. ASSUME NEW r \in Requests, DecidePrimary(r)
      PROVE  Watches'
  <2>1. UNCHANGED <<watching, woken>> /\ stage[r] = "deciding"
        /\ stage' = [stage EXCEPT ![r] = "attempting"]
    BY <1>3 DEF DecidePrimary
  <2> DEFINE t == lease[r]
             c == Reclaimed(circuit[t], 0)
  <2>2. \/ circuit' = circuit
        \/ MayProbe(c, 0) /\ circuit' = [circuit EXCEPT ![t] = HalfOpened(c, 0)]
    BY <1>3, GivenPermit
  <2>3. t \in Targets /\ circuit[t] \in Sound
    BY <1>3, GivenPermit
  <2>4. ASSUME NEW u \in Targets, circuit[u].mode = "HalfOpen"
        PROVE  circuit'[u].mode = "HalfOpen"
    <3>1. MayProbe(c, 0) => HalfOpened(c, 0).mode = "HalfOpen"
      BY <2>3, ProbeFacts
    <3> HIDE DEF c
    <3> QED
      BY <2>2, <2>3, <2>4, <3>1 DEF TypeOK
  <2>5. ASSUME NEW q \in Requests
        PROVE  Watching(q)'
    <3>1. Watching(q) /\ watching[q] \subseteq Targets
      BY DEF Watches, TypeOK
    <3>2. stage'[q] # "over" => stage[q] # "over"
      BY <2>1 DEF TypeOK
    <3> QED
      BY <2>1, <2>4, <3>1, <3>2 DEF Watching
  <2> QED
    BY <2>5 DEF Watches
<1>4. ASSUME NEW r \in Requests, DecideFallback(r)
      PROVE  Watches'
  <2> DEFINE t == lease[r]
             s == Reclaimed(circuit[t], 0)
  <2>1. /\ stage[r] = "deciding" /\ stage' = [stage EXCEPT ![r] = "routing"]
        /\ UNCHANGED <<circuit, woken>>
        /\ watching' = [watching EXCEPT ![r] = IF s.probing THEN @ \cup {t} ELSE @]
    BY <1>4 DEF DecideFallback
  <2>2. t \in Targets /\ circuit[t] \in Sound /\ 0 \in 0..MaxLag
    BY <2>1, DelayAssumption DEF LeaseLastsAsLong, TypeOK
  <2>3. ASSUME s.probing
        PROVE  circuit[t].mode = "HalfOpen"
    <3>1. s \in Sound
      BY <2>2, ReclaimedSound
    <3>2. s.mode = "HalfOpen"
      BY <2>3, <3>1 DEF Sound, WellFormed
    <3>3. s = circuit[t]
      BY <2>2, <3>2, ReclaimedSound
    <3> QED
      BY <3>2, <3>3
  <2> HIDE DEF s
  <2>4. ASSUME NEW q \in Requests
        PROVE  Watching(q)'
    <3>1. Watching(q) /\ (stage'[q] # "over" => stage[q] # "over")
      BY <2>1 DEF Watches, TypeOK
    <3>2. \A u \in watching'[q] : u \in watching[q] \/ (q = r /\ s.probing /\ u = t)
      BY <2>1 DEF TypeOK
    <3> QED
      BY <2>1, <2>2, <2>3, <3>1, <3>2 DEF Watching
  <2> QED
    BY <2>4 DEF Watches
<1>5. ASSUME NEW r \in Requests, Succeed(r) \/ Fail(r) \/ Break(r)
      PROVE  Watches'
  <2>1. PICK s \in Sound : Settle(r, s)
    BY <1>5, Settling
  <2>2. /\ lease[r] \in Targets /\ watching' = watching /\ stage[r] # "over"
        /\ stage' = [stage EXCEPT ![r] = "closing"]
    BY <1>5, Settling, SettleMoves
  <2>3. \A q \in Requests : stage'[q] # "over" => stage[q] # "over"
    BY <2>2 DEF TypeOK
  <2> QED
    BY <2>1, <2>2, <2>3, Told DEF Settle
<1>6. CASE Abandon
  <2>1. PICK o \in orphans : Publish(o.target, Abandoned(circuit[o.target],
                                                [generation |-> o.generation, probe |-> TRUE]))
    BY <1>6 DEF Abandon
  <2>2. o.target \in Targets /\ [generation |-> o.generation, probe |-> TRUE] \in Permits
    BY DEF TypeOK, Orphan, Permits
  <2>3. Abandoned(circuit[o.target], [generation |-> o.generation, probe |-> TRUE]) \in Sound
    BY <2>2, AbandonedFacts DEF TypeOK
  <2>4. UNCHANGED <<stage, watching>>
    BY <1>6 DEF Abandon
  <2> QED
    BY <2>1, <2>2, <2>3, <2>4, Told
<1>7. CASE Tick
  <2>1. \A t \in Targets : circuit'[t].mode = circuit[t].mode
    BY <1>7, AgedSound DEF Tick, TypeOK
  <2>2. UNCHANGED <<stage, watching, woken>> /\ \A r \in Requests : watching[r] \subseteq Targets
    BY <1>7 DEF Tick, TypeOK
  <2> QED
    BY <2>1, <2>2 DEF Watches, Watching
<1>8. CASE UNCHANGED vars
  BY <1>8 DEF vars, moving, Watches, Watching
<1> QED
  BY <1>1, <1>2, <1>3, <1>4, <1>5, <1>6, <1>7, <1>8 DEF Next, Advance, Respond

\* Nobody comes back from "over", nor forgets a permit he has had.
LEMMA OverIsOver ==
  ASSUME TypeOK, LeaseLastsAsLong, [Next]_vars, NEW q \in Requests
  PROVE  /\ stage[q] = "over" => stage'[q] = "over"
         /\ attempted[q] \subseteq attempted'[q]
<1> USE DEF breakers, pass, holding, ending, history, Goto, At
<1>1. ASSUME NEW r \in Requests,
             \/ Arrive(r) \/ Acquire(r) \/ SkipFull(r) \/ DecideFallback(r) \/ StartStream(r)
             \/ Pause(r) \/ Resend(r) \/ Close(r) \/ GiveUp(r) \/ Sleep(r) \/ Wake(r)
             \/ Expire(r) \/ Cancel(r) \/ DecidePrimary(r)
      PROVE  /\ stage[q] = "over" => stage'[q] = "over"
             /\ attempted[q] \subseteq attempted'[q]
  <2>1. /\ stage[r] # "over"
        /\ stage' = stage \/ \E to : stage' = [stage EXCEPT ![r] = to]
    BY <1>1 DEF Arrive, Acquire, SkipFull, DecideFallback, StartStream, Pause, Resend, Close,
                GiveUp, Sleep, Wake, Expire, Cancel, DecidePrimary, Looking, PassDone
  <2>2. \/ attempted' = attempted
        \/ attempted' = [attempted EXCEPT ![r] = @ \cup {lease[r]}]
    BY <1>1 DEF Arrive, Acquire, SkipFull, DecideFallback, StartStream, Pause, Resend, Close,
                GiveUp, Sleep, Wake, Expire, Cancel, DecidePrimary
  <2>3. stage[q] = "over" => stage'[q] = "over"
    BY <2>1 DEF TypeOK
  <2>4. attempted[q] \subseteq attempted'[q]
    BY <2>2 DEF TypeOK
  <2> QED
    BY <2>3, <2>4
<1>2. ASSUME NEW r \in Requests, Succeed(r) \/ Fail(r) \/ Break(r)
      PROVE  /\ stage[q] = "over" => stage'[q] = "over"
             /\ attempted[q] \subseteq attempted'[q]
  BY <1>2, SettleMoves DEF TypeOK
<1>3. CASE Abandon \/ Tick \/ UNCHANGED vars
  BY <1>3 DEF Abandon, Tick, vars, moving
<1> QED
  BY <1>1, <1>2, <1>3 DEF Next, Advance, Respond

LEMMA OrphansStep ==
  ASSUME TypeOK, LeaseLastsAsLong, OrphansAreOver, [Next]_vars
  PROVE  OrphansAreOver'
<1>1. \A o \in orphans :
        /\ stage[o.client] = "over" /\ stage'[o.client] = "over"
        /\ o.target \in attempted'[o.client]
  BY Generations, OverIsOver DEF OrphansAreOver
<1>2. ASSUME NEW r \in Requests, DroppedBy(r), permit[r] # None
      PROVE  /\ stage[r] # "over" /\ stage'[r] = "over" /\ lease[r] \in attempted'[r]
  <2>1. lease[r] \in attempted[r] /\ attempted[r] \subseteq attempted'[r]
    BY <1>2, OverIsOver DEF LeaseLastsAsLong
  <2> QED
    BY <1>2, <2>1 DEF DroppedBy, TypeOK
<1> DEFINE Left(o, r) ==
             /\ DroppedBy(r) /\ permit[r] # None
             /\ o = [client |-> r, target |-> lease[r], generation |-> permit[r].generation]
<1>3. \A o \in orphans' : o \in orphans \/ \E r \in Requests : Left(o, r)
  BY PermitsStay
<1>4. \A o : \A r \in Requests : Left(o, r) =>
        /\ o.client = r /\ stage[r] # "over" /\ stage'[r] = "over"
        /\ o.target \in attempted'[r]
        /\ \A p : Left(p, r) => o = p
  BY <1>2
<1> HIDE DEF Left
<1>5. \A o \in orphans' : stage'[o.client] = "over" /\ o.target \in attempted'[o.client]
  BY <1>1, <1>3, <1>4
<1>6. ASSUME NEW o \in orphans', NEW p \in orphans', o.client = p.client
      PROVE  o = p
  <2>1. CASE o \in orphans /\ p \in orphans
    BY <1>6, <2>1 DEF OrphansAreOver
  <2>2. ASSUME NEW r \in Requests, Left(o, r)
        PROVE  o = p
    BY <1>1, <1>3, <1>4, <1>6, <2>2
  <2>3. ASSUME NEW r \in Requests, Left(p, r)
        PROVE  o = p
    BY <1>1, <1>3, <1>4, <1>6, <2>3
  <2> QED
    BY <1>3, <2>1, <2>2, <2>3
<1> QED
  BY <1>5, <1>6 DEF OrphansAreOver

IInv ==
  /\ TypeOK /\ LeaseLastsAsLong /\ Ending /\ SleepsLast /\ Sends /\ TurnedAwayLast /\ Waits
  /\ NoFuture /\ PrimaryMeansClosed /\ OneOwner /\ Watches /\ OrphansAreOver

LEMMA InvInit == Init => IInv
<1> SUFFICES ASSUME Init
             PROVE  IInv
  OBVIOUS
<1>1. TypeOK
  BY TypeInit
<1>2. LeaseLastsAsLong /\ Ending /\ SleepsLast /\ Waits
  BY NamesAssumption DEF Init, LeaseLastsAsLong, Ending, SleepsLast, Waits
<1>3. Sends
  BY DEF Init, Sends, SendsOf, MaySend
<1>4. TurnedAwayLast
  BY NamesAssumption DEF Init, TurnedAwayLast, TurnedAway, Ends
<1>5. NoFuture /\ PrimaryMeansClosed /\ Watches /\ OrphansAreOver
  BY DEF Init, NoFuture, PrimaryMeansClosed, Watches, Watching, OrphansAreOver
<1>6. OneOwner
  <2>1. ASSUME NEW t \in Targets
        PROVE  circuit[t].mode # "HalfOpen"
    BY RoutesAssumption, LoadedSound DEF Init, Sound
  <2>2. ASSUME NEW t \in Targets
        PROVE  ProbersOf(t) = {} /\ OrphansOf(t) = {}
    BY DEF Init, ProbersOf, OrphansOf
  <2> QED
    BY <2>1, <2>2 DEF OneOwner, OwnersMatch
<1> QED
  BY <1>1, <1>2, <1>3, <1>4, <1>5, <1>6 DEF IInv

LEMMA InvStep == IInv /\ [Next]_vars => IInv'
BY TypeStep, LeasesStep, EndingStep, SleepersStep, SendsStep, TurnedAwayStep, WaitsStep,
   NoFutureStep, PrimaryStep, OwnersStep, WatchesStep, OrphansStep
DEF IInv

\* The invariant is inductive: it holds at the start, and each step of a
\* request, of the clock and of a notification keeps every part of it.
LEMMA AlwaysInv == Spec => []IInv
BY InvInit, InvStep, PTL DEF Spec

\* The types of the route loop's state, through every interleaving.
THEOREM TypeCorrect == Spec => []TypeOK
<1>1. IInv => TypeOK
  BY DEF IInv
<1> QED
  BY <1>1, AlwaysInv, PTL

\* A request holds the lease of the target it may touch, for as long as it
\* may, and no longer (LocalCapacityLease).
THEOREM LeaseHeld == Spec => []LeaseLastsAsLong
<1>1. IInv => LeaseLastsAsLong
  BY DEF IInv
<1> QED
  BY <1>1, AlwaysInv, PTL

\* However requests, retries, streams, cancellations and expired leases
\* interleave, a half-open target has one owner of its probe and any other
\* target none (decide, complete_*, ProbeOwnership).
THEOREM OneProbeOwner == Spec => []ProbeHasOneOwner
<1>1. ASSUME OneOwner, NEW t \in Targets
      PROVE  Cardinality(ProbersOf(t)) + Cardinality(OrphansOf(t)) =
               IF circuit[t].mode = "HalfOpen" THEN 1 ELSE 0
  <2>1. OwnersMatch(t)
    BY <1>1 DEF OneOwner
  <2>2. Cardinality({}) = 0 /\ \A x : Cardinality({x}) = 1
    BY FS_EmptySet, FS_Singleton
  <2>3. \/ /\ circuit[t].mode = "HalfOpen"
           /\ \/ Cardinality(ProbersOf(t)) = 1 /\ Cardinality(OrphansOf(t)) = 0
              \/ Cardinality(ProbersOf(t)) = 0 /\ Cardinality(OrphansOf(t)) = 1
        \/ /\ circuit[t].mode # "HalfOpen"
           /\ Cardinality(ProbersOf(t)) = 0 /\ Cardinality(OrphansOf(t)) = 0
    BY <2>1, <2>2, Zenon DEF OwnersMatch
  <2> QED
    BY <2>3
<1>2. IInv => ProbeHasOneOwner
  BY <1>1 DEF IInv, ProbeHasOneOwner
<1> QED
  BY <1>2, AlwaysInv, PTL

\* No plan, however it repeats a target, sends a request to one target more
\* than once, but for the retry of an ambiguous rejection.
THEOREM SentAtMostTwice == Spec => []SentOnceOrRetried
<1>1. ASSUME TypeOK, LeaseLastsAsLong, Sends, NEW r \in Requests, NEW t \in Targets
      PROVE  sent[r][t] <= IF lease[r] = t /\ retry[r] THEN 1 ELSE 2
  <2>1. sent[r][t] <= MaySend(r, t) /\ sent[r][t] \in Nat
    BY <1>1 DEF Sends, SendsOf, TypeOK
  <2> QED
    BY <2>1 DEF MaySend
<1>2. IInv => SentOnceOrRetried
  BY <1>1 DEF IInv, SentOnceOrRetried
<1> QED
  BY <1>2, AlwaysInv, PTL

\* Nobody is turned away with a route he has not looked at.
THEOREM TurnedAwayAfterAll == Spec => []TurnedAwayLast
<1>1. IInv => TurnedAwayLast
  BY DEF IInv
<1> QED
  BY <1>1, AlwaysInv, PTL

\* A sleeper that has not been notified sleeps on probes still in flight, and
\* never longer than the budget (wait_for_probe_change).
THEOREM SleepsForProbes == Spec => []SleepsOnlyOnProbes
<1>1. ASSUME TypeOK, Waits, Watches, NEW r \in Requests
      PROVE  /\ r \notin woken /\ ~At(r, "over") =>
                  \A t \in watching[r] : circuit[t].mode = "HalfOpen"
             /\ waited[r] <= Budget
  <2>1. waited[r] \in Nat /\ budget[r] \in Nat \cup {None} /\ Budget \in Nat \ {0}
    BY <1>1, ClientsAssumption DEF TypeOK
  <2>2. waited[r] <= Budget
    <3>1. CASE budget[r] = None
      BY <1>1, <2>1, <3>1 DEF Waits
    <3>2. CASE budget[r] # None
      BY <1>1, <2>1, <3>2 DEF Waits
    <3> QED
      BY <3>1, <3>2
  <2> QED
    BY <1>1, <2>2 DEF Watches, Watching, At
<1>2. IInv => SleepsOnlyOnProbes
  BY <1>1 DEF IInv, SleepsOnlyOnProbes
<1> QED
  BY <1>2, AlwaysInv, PTL

-----------------------------------------------------------------------------
(* Part 4.  The contract of every target.                                  *)

\* The abstract prober is the owner of the probe.
Owned(t) ==
  IF circuit[t].mode = "HalfOpen"
  THEN /\ Status(t) = "probing" /\ Prober(t) \in Requests
       /\ OwnersOf(t) = {Prober(t)}
  ELSE Status(t) \in {"admitting", "blocked"} /\ Prober(t) = None /\ OwnersOf(t) = {}

LEMMA ProberOwns == IInv => \A t \in Targets : Owned(t)
<1> SUFFICES ASSUME IInv, NEW t \in Targets
             PROVE  Owned(t)
  OBVIOUS
<1>1. OwnersMatch(t) /\ circuit[t].mode \in Modes
  BY Generations DEF IInv, OneOwner
<1>2. CASE circuit[t].mode = "HalfOpen"
  <2>1. PICK q \in Requests : OwnersOf(t) = {q}
    <3>1. CASE OrphansOf(t) = {} /\ \E r \in Requests : ProbersOf(t) = {r}
      BY <3>1 DEF OwnersOf
    <3>2. CASE ProbersOf(t) = {} /\ \E o \in orphans : OrphansOf(t) = {o}
      <4>1. PICK o \in orphans : OrphansOf(t) = {o}
        BY <3>2
      <4>2. o.client \in Requests
        BY Generations DEF IInv
      <4> QED
        BY <3>2, <4>1, <4>2 DEF OwnersOf
    <3> QED
      BY <1>1, <1>2, <3>1, <3>2 DEF OwnersMatch
  <2>2. Status(t) = "probing"
    BY <1>2 DEF Status
  <2>3. Prober(t) = q
    BY <2>1, <2>2 DEF Prober
  <2> QED
    BY <1>2, <2>1, <2>2, <2>3 DEF Owned
<1>3. CASE circuit[t].mode # "HalfOpen"
  BY <1>1, <1>3 DEF Owned, OwnersMatch, OwnersOf, Status, Prober, Modes
<1> QED
  BY <1>2, <1>3

\* Who is over for a target: he has had its permit and neither he nor an
\* orphan has it now.
Has(r, t) == lease[r] = t /\ permit[r] # None
Orphaned(r, t) == \E o \in orphans : o.client = r /\ o.target = t

LEMMA OverOf ==
  /\ \A t : Over(t) = {r \in Requests : t \in attempted[r] /\ ~Has(r, t) /\ ~Orphaned(r, t)}
  /\ \A t : (Over(t) = {r \in Requests : t \in attempted[r] /\ ~Has(r, t) /\ ~Orphaned(r, t)})'
BY DEF Over, Has, Orphaned

LEMMA OwnersOfBoth ==
  ASSUME NEW t, ProbersOf(t)' = ProbersOf(t), OrphansOf(t)' = OrphansOf(t)
  PROVE  OwnersOf(t)' = OwnersOf(t)
BY DEF OwnersOf

\* Where neither status nor owners nor those who are over change, the contract
\* sees nothing.
LEMMA Unseen ==
  ASSUME NEW t \in Targets, Owned(t), Owned(t)', Alike(t), OwnersOf(t)' = OwnersOf(t)
  PROVE  Status(t)' = Status(t) /\ Prober(t)' = Prober(t)
<1>1. Status(t)' = Status(t)
  BY DEF Status, Alike
<1>2. Prober(t)' = Prober(t)
  BY DEF Owned, Alike
<1> QED
  BY <1>1, <1>2

LEMMA ContractQuiet ==
  ASSUME IInv, NEW t \in Targets, Owned(t), Owned(t)', Quiet
  PROVE  UNCHANGED Contract(t)!vars
<1>1. Alike(t) /\ UNCHANGED <<orphans, permit, attempted>>
      /\ \A r \in Requests : permit[r] # None => lease'[r] = lease[r]
  BY DEF Quiet
<1>2. ProbersOf(t)' = ProbersOf(t) /\ OrphansOf(t)' = OrphansOf(t)
  BY <1>1 DEF ProbersOf, OrphansOf, Alike
<1>3. Status(t)' = Status(t) /\ Prober(t)' = Prober(t)
  BY <1>1, <1>2, OwnersOfBoth, Unseen
<1>4. Over(t)' = Over(t)
  BY <1>1, OverOf DEF Has, Orphaned
<1> QED
  BY <1>3, <1>4 DEF Contract!vars

LEMMA ContractGranted ==
  ASSUME IInv, NEW t \in Targets, Owned(t), Owned(t)', NEW r \in Requests, Granted(r)
  PROVE  Contract(t)!Probe(r) \/ UNCHANGED Contract(t)!vars
<1>1. /\ UNCHANGED <<orphans, lease>> /\ permit[r] = None /\ stage[r] = "deciding"
      /\ attempted' = [attempted EXCEPT ![r] = @ \cup {lease[r]}]
      /\ \A q \in Requests \ {r} : permit'[q] = permit[q]
      /\ permit'[r] # None /\ permit'[r].generation = circuit'[lease[r]].generation
  BY NamesAssumption DEF Granted
<1>2. ~Orphaned(r, t)
  BY <1>1 DEF Orphaned, IInv, OrphansAreOver
<1>3. t = lease[r] => t \notin attempted[r]
  BY <1>1 DEF IInv, Sends, SendsOf
<1>4. Over(t)' = Over(t)
  <2>1. \A q \in Requests \ {r} : attempted'[q] = attempted[q]
    BY <1>1 DEF IInv, TypeOK
  <2>2. attempted'[r] = attempted[r] \cup {lease[r]}
    BY <1>1 DEF IInv, TypeOK
  <2>3. \A q \in Requests \ {r} : q \in Over(t)' <=> q \in Over(t)
    BY <1>1, <2>1, OverOf DEF Has, Orphaned
  <2>4. r \in Over(t)' <=> r \in Over(t)
    BY <1>1, <1>3, <2>2, OverOf DEF Has, Orphaned
  <2> QED
    BY <2>3, <2>4, OverOf
<1>5. CASE t # lease[r] \/ ~permit'[r].probe
  <2>1. Alike(t)
    BY <1>5 DEF Granted
  <2>2. ProbersOf(t)' = ProbersOf(t) /\ OrphansOf(t)' = OrphansOf(t)
    BY <1>1, <1>5, <2>1 DEF Alike, ProbersOf, OrphansOf
  <2>3. Status(t)' = Status(t) /\ Prober(t)' = Prober(t)
    BY <2>1, <2>2, OwnersOfBoth, Unseen
  <2> QED
    BY <1>4, <2>3 DEF Contract!vars
<1>6. CASE t = lease[r] /\ permit'[r].probe
  <2>1. circuit'[t].mode = "HalfOpen" /\ circuit[t].mode \in {"Open", "Suspended", "HalfOpen"}
    BY <1>6 DEF Granted
  <2>2. Status(t) \in {"blocked", "probing"}
    BY <2>1 DEF Status
  <2>3. r \notin OwnersOf(t) /\ r \notin Over(t)
    BY <1>1, <1>2, <1>3, <1>6, OverOf DEF OwnersOf, ProbersOf, OrphansOf, Orphaned
  <2>4. r # Prober(t)
    BY <2>3, NamesAssumption DEF Owned
  <2>5. r \in ProbersOf(t)'
    BY <1>1, <1>6 DEF ProbersOf
  <2>6. Prober(t)' = r /\ Status(t)' = "probing"
    BY <2>1, <2>5 DEF Owned, OwnersOf
  <2> QED
    BY <1>4, <2>2, <2>3, <2>4, <2>6 DEF Contract!Probe
<1> QED
  BY <1>5, <1>6

LEMMA ContractSettled ==
  ASSUME IInv, NEW t \in Targets, Owned(t), Owned(t)', NEW r \in Requests, SettledBy(r)
  PROVE  \/ Contract(t)!Finish(r) \/ Contract(t)!Trip(r) \/ Contract(t)!Report
         \/ UNCHANGED Contract(t)!vars
<1>1. /\ UNCHANGED <<orphans, lease, attempted>>
      /\ permit'[r] = None /\ permit[r] \in Permits /\ permit[r] # None
      /\ stage[r] # "over"
      /\ \A q \in Requests \ {r} : permit'[q] = permit[q]
  BY NamesAssumption DEF SettledBy, IInv, TypeOK
<1>2. ~Orphaned(r, t)
  BY <1>1 DEF Orphaned, IInv, OrphansAreOver
<1>3. CASE t # lease[r]
  <2>1. Alike(t)
    BY <1>3 DEF SettledBy
  <2>2. ProbersOf(t)' = ProbersOf(t) /\ OrphansOf(t)' = OrphansOf(t)
    BY <1>1, <1>3, <2>1 DEF Alike, ProbersOf, OrphansOf
  <2>3. Status(t)' = Status(t) /\ Prober(t)' = Prober(t)
    BY <2>1, <2>2, OwnersOfBoth, Unseen
  <2>4. Over(t)' = Over(t)
    BY <1>1, <1>3, OverOf DEF Has, Orphaned
  <2> QED
    BY <2>3, <2>4 DEF Contract!vars
<1>4. CASE t = lease[r]
  <2>1. t \in attempted[r] /\ Has(r, t)
    BY <1>1, <1>4 DEF IInv, LeaseLastsAsLong, Has
  <2>2. r \notin Over(t) /\ Over(t)' = Over(t) \cup {r}
    BY <1>1, <1>2, <2>1, OverOf DEF Has, Orphaned
  <2>3. CASE Alike(t) /\ ~TakesAbandonment(circuit[t], permit[r])
    <3>1. r \notin ProbersOf(t)
      BY <2>3 DEF Owned, OwnersOf, ProbersOf, TakesAbandonment
    <3>2. ProbersOf(t)' = ProbersOf(t) /\ OrphansOf(t)' = OrphansOf(t)
      BY <1>1, <2>3, <3>1 DEF Alike, ProbersOf, OrphansOf
    <3>3. Status(t)' = Status(t) /\ Prober(t)' = Prober(t)
      BY <2>3, <3>2, OwnersOfBoth, Unseen
    <3>4. r # Prober(t)
      BY <1>2, <3>1, NamesAssumption DEF Owned, OwnersOf, OrphansOf, Orphaned
    <3> QED
      BY <2>2, <3>3, <3>4 DEF Contract!Finish
  <2>4. CASE GenerationEnds(t) /\ permit[r].probe
               /\ (\/ TakesAbandonment(circuit[t], permit[r]) \/ TakesSuccess(circuit[t], permit[r])
                   \/ TakesFailure(circuit[t], permit[r]))
    <3>1. circuit[t].mode = "HalfOpen" /\ permit[r].generation = circuit[t].generation
      BY <2>4 DEF TakesAbandonment, TakesSuccess, TakesFailure
    <3>2. r \in ProbersOf(t)
      BY <1>1, <1>4, <2>4, <3>1 DEF ProbersOf
    <3>3. Prober(t) = r /\ Status(t) = "probing"
      BY <3>1, <3>2 DEF Owned, OwnersOf
    <3>4. Status(t)' \in {"admitting", "blocked"} /\ Prober(t)' = None
      BY <2>4 DEF GenerationEnds, Owned
    <3> QED
      BY <2>2, <3>3, <3>4 DEF Contract!Report
  <2>5. CASE GenerationEnds(t) /\ ~permit[r].probe
               /\ (\/ TakesAbandonment(circuit[t], permit[r]) \/ TakesSuccess(circuit[t], permit[r])
                   \/ TakesFailure(circuit[t], permit[r]) /\ circuit'[t].mode \in {"Open", "Suspended"})
    <3>1. permit[r].generation = circuit[t].generation
      BY <2>5 DEF TakesAbandonment, TakesSuccess, TakesFailure
    <3>2. circuit[t].mode = "Closed"
      BY <1>1, <1>4, <2>5, <3>1 DEF IInv, PrimaryMeansClosed
    <3>3. circuit'[t].mode \in {"Open", "Suspended"}
      BY <2>5, <3>2 DEF TakesAbandonment, TakesSuccess
    <3>4. Status(t) = "admitting" /\ Status(t)' = "blocked" /\ Prober(t)' = None
      BY <3>2, <3>3 DEF Status, Owned
    <3> QED
      BY <2>2, <3>4 DEF Contract!Trip
  <2> QED
    BY <1>4, <2>3, <2>4, <2>5 DEF SettledBy
<1> QED
  BY <1>3, <1>4

LEMMA ContractDropped ==
  ASSUME IInv, NEW t \in Targets, Owned(t), Owned(t)', NEW r \in Requests, DroppedBy(r)
  PROVE  Contract(t)!Finish(r) \/ UNCHANGED Contract(t)!vars
<1> DEFINE new == [client |-> r, target |-> lease[r], generation |-> permit[r].generation]
<1>1. /\ UNCHANGED <<circuit, attempted>> /\ permit'[r] = None /\ stage[r] # "over"
      /\ \A q \in Requests \ {r} : permit'[q] = permit[q] /\ lease'[q] = lease[q]
  BY DEF DroppedBy, IInv, TypeOK
<1>2. ~Orphaned(r, t) /\ Alike(t)
  BY <1>1 DEF Orphaned, IInv, OrphansAreOver, Alike
<1>3. new.client = r /\ new.target = lease[r] /\ new.generation = permit[r].generation
  OBVIOUS
<1> HIDE DEF new
<1>4. IF permit[r] # None /\ permit[r].probe THEN orphans' = orphans \cup {new}
      ELSE orphans' = orphans
  BY DEF DroppedBy, new
<1>5. ProbersOf(t)' = ProbersOf(t) \ {r}
  BY <1>1 DEF ProbersOf
<1>6. OwnersOf(t)' = OwnersOf(t)
  <2>1. CASE r \in ProbersOf(t)
    <3>1. OrphansOf(t)' = OrphansOf(t) \cup {new}
      BY <1>1, <1>3, <1>4, <2>1 DEF ProbersOf, OrphansOf
    <3> QED
      BY <1>3, <1>5, <2>1, <3>1 DEF OwnersOf
  <2>2. CASE r \notin ProbersOf(t)
    <3>1. OrphansOf(t)' = OrphansOf(t)
      BY <1>1, <1>3, <1>4, <2>2 DEF ProbersOf, OrphansOf
    <3> QED
      BY <1>5, <2>2, <3>1 DEF OwnersOf
  <2> QED
    BY <2>1, <2>2
<1>7. Status(t)' = Status(t) /\ Prober(t)' = Prober(t)
  BY <1>2, <1>6, Unseen
<1>8. \A q \in Requests \ {r} : q \in Over(t)' <=> q \in Over(t)
  BY <1>1, <1>3, <1>4, OverOf DEF Has, Orphaned
<1>9. CASE lease[r] = t /\ permit[r] # None /\ ~permit[r].probe
  <2>1. t \in attempted[r]
    BY <1>9 DEF IInv, LeaseLastsAsLong
  <2>2. r \notin Over(t) /\ r \in Over(t)'
    BY <1>1, <1>2, <1>4, <1>9, <2>1, OverOf DEF Has, Orphaned
  <2>3. Over(t)' = Over(t) \cup {r}
    BY <1>8, <2>2, OverOf
  <2>4. r # Prober(t)
    BY <1>2, <1>9, NamesAssumption DEF Owned, OwnersOf, ProbersOf, OrphansOf, Orphaned
  <2> QED
    BY <1>7, <2>2, <2>3, <2>4 DEF Contract!Finish
<1>10. CASE ~(lease[r] = t /\ permit[r] # None /\ ~permit[r].probe)
  <2>1. ASSUME lease[r] = t, permit[r] # None
        PROVE  r \notin Over(t) /\ r \notin Over(t)'
    <3>1. r \notin Over(t)
      BY <2>1, OverOf DEF Has
    <3>2. new \in orphans'
      BY <1>4, <1>10, <2>1
    <3>3. r \notin Over(t)'
      BY <1>3, <2>1, <3>2, OverOf DEF Orphaned
    <3> QED
      BY <3>1, <3>3
  <2>2. ASSUME ~(lease[r] = t /\ permit[r] # None)
        PROVE  r \in Over(t)' <=> r \in Over(t)
    BY <1>1, <1>3, <1>4, <2>2, OverOf DEF Has, Orphaned
  <2>3. r \in Over(t)' <=> r \in Over(t)
    BY <2>1, <2>2
  <2>4. Over(t)' = Over(t)
    BY <1>8, <2>3, OverOf
  <2> QED
    BY <1>7, <2>4 DEF Contract!vars
<1> QED
  BY <1>9, <1>10

LEMMA ContractGivenBack ==
  ASSUME IInv, NEW t \in Targets, Owned(t), Owned(t)', NEW o \in orphans, GivenBack(o)
  PROVE  \/ Contract(t)!Finish(o.client) \/ Contract(t)!Report
         \/ UNCHANGED Contract(t)!vars
<1> DEFINE q == o.client
<1>1. UNCHANGED <<lease, permit, attempted>> /\ orphans' = orphans \ {o}
  BY DEF GivenBack
<1>2. /\ q \in Requests /\ permit[q] = None /\ o.target \in attempted[q]
      /\ \A p \in orphans : p.client = q => p = o
  BY Generations DEF IInv, OrphansAreOver, LeaseLastsAsLong
<1> HIDE DEF q
<1>3. \A r \in Requests \ {q} : r \in Over(t)' <=> r \in Over(t)
  BY <1>1, OverOf DEF Has, Orphaned, q
<1>4. CASE t # o.target
  <2>1. Alike(t)
    BY <1>4 DEF GivenBack
  <2>2. ProbersOf(t)' = ProbersOf(t) /\ OrphansOf(t)' = OrphansOf(t)
    BY <1>1, <1>4, <2>1 DEF Alike, ProbersOf, OrphansOf
  <2>3. Status(t)' = Status(t) /\ Prober(t)' = Prober(t)
    BY <2>1, <2>2, OwnersOfBoth, Unseen
  <2>4. Over(t)' = Over(t)
    BY <1>1, <1>4, OverOf DEF Has, Orphaned
  <2> QED
    BY <2>3, <2>4 DEF Contract!vars
<1>5. CASE t = o.target
  <2>1. q \notin Over(t)
    BY <1>5, OverOf DEF Orphaned, q
  <2>2. q \in Over(t)'
    BY <1>1, <1>2, <1>5, OverOf DEF Has, Orphaned
  <2>3. Over(t)' = Over(t) \cup {q}
    BY <1>2, <1>3, <2>2, OverOf
  <2>4. CASE Alike(t) /\ o \notin OrphansOf(t)
    <3>1. ProbersOf(t)' = ProbersOf(t) /\ OrphansOf(t)' = OrphansOf(t)
      BY <1>1, <2>4 DEF Alike, ProbersOf, OrphansOf
    <3>2. Status(t)' = Status(t) /\ Prober(t)' = Prober(t)
      BY <2>4, <3>1, OwnersOfBoth, Unseen
    <3>3. q \notin OwnersOf(t)
      BY <1>2, <2>4 DEF OwnersOf, ProbersOf, OrphansOf
    <3>4. q # Prober(t)
      BY <1>2, <3>3, NamesAssumption DEF Owned
    <3> QED
      BY <2>1, <2>3, <3>2, <3>4 DEF Contract!Finish, q
  <2>5. CASE GenerationEnds(t) /\ o \in OrphansOf(t)
    <3>1. q \in OwnersOf(t)
      BY <2>5 DEF OwnersOf, q
    <3>2. Prober(t) = q /\ Status(t) = "probing"
      BY <3>1 DEF Owned
    <3>3. Status(t)' \in {"admitting", "blocked"} /\ Prober(t)' = None
      BY <2>5 DEF GenerationEnds, Owned
    <3> QED
      BY <2>1, <2>3, <3>2, <3>3 DEF Contract!Report
  <2>6. TakesAbandonment(circuit[t], [generation |-> o.generation, probe |-> TRUE])
          <=> o \in OrphansOf(t)
    <3>1. o \in OrphansOf(t) => circuit[t].mode = "HalfOpen"
      BY DEF Owned, OwnersOf
    <3> QED
      BY <1>5, <3>1 DEF TakesAbandonment, OrphansOf
  <2> QED
    BY <1>5, <2>4, <2>5, <2>6 DEF GivenBack
<1> QED
  BY <1>4, <1>5

\* The breaker of every target keeps its contract with all the requests that
\* come and go: each step of the gateway is, for each target, one step of
\* BreakerContract or none.
THEOREM KeepsEveryContract == Spec => ContractOfEveryTarget
<1>1. Init => \A t \in Targets : Contract(t)!Init
  <2> SUFFICES ASSUME Init, NEW t \in Targets
               PROVE  Contract(t)!Init
    OBVIOUS
  <2>1. Owned(t) /\ circuit[t].mode # "HalfOpen"
    <3>1. IInv
      BY InvInit
    <3>2. circuit[t].mode # "HalfOpen"
      BY RoutesAssumption, LoadedSound DEF Init, Sound
    <3> QED
      BY <3>1, <3>2, ProberOwns
  <2>2. Over(t) = {}
    BY DEF Init, Over
  <2> QED
    BY <2>1, <2>2 DEF Contract!Init, Owned
<1>2. ASSUME IInv, [Next]_vars, NEW t \in Targets, Owned(t), Owned(t)'
      PROVE  [Contract(t)!Next]_(Contract(t)!vars)
  <2>1. \/ Quiet
        \/ \E r \in Requests : Granted(r) \/ SettledBy(r) \/ DroppedBy(r)
        \/ \E o \in orphans : GivenBack(o)
    BY <1>2, FiveSteps DEF IInv
  <2>2. \A o \in orphans : o.client \in Requests
    BY <1>2, Generations DEF IInv
  <2> QED
    BY <1>2, <2>1, <2>2, ContractQuiet, ContractGranted, ContractSettled, ContractDropped,
       ContractGivenBack
    DEF Contract!Next
<1>3. IInv /\ IInv' /\ [Next]_vars =>
        [\A t \in Targets : [Contract(t)!Next]_(Contract(t)!vars)]_vars
  <2>1. (IInv => \A t \in Targets : Owned(t))'
    BY ProberOwns, PTL
  <2> QED
    BY <1>2, <2>1, ProberOwns
<1> QED
  BY <1>1, <1>3, AlwaysInv, PTL DEF Spec, ContractOfEveryTarget

=============================================================================
