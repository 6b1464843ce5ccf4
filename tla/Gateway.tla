------------------------------ MODULE Gateway -------------------------------
(***************************************************************************)
(* The route loop (app.rs, handle_nonstream and handle_stream) over the    *)
(* circuits of its targets and the pools of their accounts.                *)
(*                                                                         *)
(* A request goes through its candidates in order.  For each it takes a    *)
(* local lease, asks the circuit, and sends; a failure lets it go on to    *)
(* the next.  When the candidates are used up and one of them was busy     *)
(* with somebody's probe, it sleeps until that changes, within one budget, *)
(* and goes through those it has not tried yet.  It can be dropped at      *)
(* every await.                                                            *)
(*                                                                         *)
(* Requests are independent of each other otherwise.  The registry of      *)
(* leases is Admission's subject: here a pool holds the leases its         *)
(* requests own, and the configuration does not change.  The recorded      *)
(* fallback reason, headers and statistics are left out.                   *)
(*                                                                         *)
(* A definition whose name starts with M_ is a mutant of the one after it. *)
(***************************************************************************)
EXTENDS CircuitState, FiniteSets

CONSTANTS
  Targets,
  Pools,
  Deployments, \* the configurations and providers to choose from
  Limit,      \* max_in_flight
  Stored,     \* what the store may hold for the targets at startup
  Requests,
  Plans,      \* the candidate orders route_candidates may come up with
  Streaming,  \* the requests that ask for a stream
  Endless,    \* those whose stream need never end
  Hints,      \* its Retry-After values
  Budget      \* route_probe_wait_ms

\* How a request ends.
Ends == {"answered", "failed", "broken", "unavailable", "cancelled"}

ASSUME NamesAssumption == None \notin Targets \cup Pools \cup Requests \cup Permits \cup Ends
ASSUME RoutesAssumption ==
  /\ Deployments \subseteq [ pool : [Targets -> Pools \cup {None}],
                            outcomes : SUBSET FailureClasses ]
  /\ Limit \in [Pools -> Nat \ {0}]
  /\ Plans \subseteq Seq(Targets) \ {<<>>}
  /\ Stored \subseteq [Targets -> Snapshot]
  /\ \A stored \in Stored, t \in Targets : WellFormed(stored[t])
ASSUME ClientsAssumption ==
  /\ IsFiniteSet(Requests)
  /\ Streaming \subseteq Requests /\ Endless \subseteq Streaming
  /\ Hints \subseteq Nat \cup {None}
  /\ Budget \in Nat \ {0}

VARIABLES
  deployment, \* what is deployed; does not change
  circuit,    \* each target's snapshot
  orphans,    \* dropped probes whose abandonment has been spawned, not run
  stage,      \* where each request stands in the loop
  plan,       \* candidates
  attempted,  \* the targets it has been given a permit for
  evaluated,  \* the targets it has looked at in this pass
  watching,   \* the targets whose probe it has subscribed to in this pass
  woken,      \* requests one of whose subscriptions has fired
  lease,      \* the target it holds a local lease for
  permit,     \* its CircuitPermit for that target
  retry,      \* same_target_retry_available
  failure,    \* last_failure
  budget,     \* what is left of the wait budget; None before the first wait
  outcome,    \* how it ended
  sent,       \* history: how often it was sent to each target
  waited      \* history: how long it has slept

breakers == <<circuit, orphans>>
pass     == <<plan, attempted, evaluated, watching, woken>>
holding  == <<lease, permit, retry>>
ending   == <<failure, budget, outcome>>
history  == <<sent, waited>>
moving == <<breakers, stage, pass, holding, ending, history>>
vars == <<deployment, moving>>

PoolOf == deployment.pool        \* the pool of a target's account, or None
Outcomes == deployment.outcomes  \* the failure classes a provider may answer with

(* The stages of a request: "new"; "routing", between two candidates;       *)
(* "deciding", it has its lease and waits for the circuit's lock;           *)
(* "attempting", an attempt is in flight; "pausing" before the same-target  *)
(* retry; "streaming", the answer is being relayed; "closing", the permit   *)
(* is settled and the lease not yet dropped; "sleeping" in                  *)
(* wait_for_probe_change; "over".                                           *)

\* A gateway that has just started, with what its store held.
Init ==
  /\ deployment \in Deployments
  /\ circuit \in {[t \in Targets |-> Loaded(stored[t])] : stored \in Stored}
  /\ orphans = {}
  /\ stage = [r \in Requests |-> "new"]
  /\ plan = [r \in Requests |-> <<>>]
  /\ attempted = [r \in Requests |-> {}]
  /\ evaluated = [r \in Requests |-> {}]
  /\ watching = [r \in Requests |-> {}]
  /\ woken = {}
  /\ lease = [r \in Requests |-> None]
  /\ permit = [r \in Requests |-> None]
  /\ retry = [r \in Requests |-> FALSE]
  /\ failure = [r \in Requests |-> None]
  /\ budget = [r \in Requests |-> None]
  /\ outcome = [r \in Requests |-> None]
  /\ sent = [r \in Requests |-> [t \in Targets |-> 0]]
  /\ waited = [r \in Requests |-> 0]

At(r, s) == stage[r] = s
Goto(r, s) == stage' = [stage EXCEPT ![r] = s]

-----------------------------------------------------------------------------
(* Walking through the candidates.                                         *)

\* A request captures its candidates when it is admitted.
Arrive(r) ==
  /\ At(r, "new")
  /\ \E p \in Plans : plan' = [plan EXCEPT ![r] = p]
  /\ Goto(r, "routing")
  /\ UNCHANGED <<breakers, attempted, evaluated, watching, woken, holding, ending, history>>

\* What is left of this pass, as positions in the plan.  A target listed
\* twice is looked at once.
M_AttemptedAgain(r) == {i \in DOMAIN plan[r] : plan[r][i] \notin evaluated[r]}

Remaining(r) ==
  {i \in DOMAIN plan[r] : plan[r][i] \notin attempted[r] \cup evaluated[r]}

Candidate(r) == plan[r][CHOOSE i \in Remaining(r) : \A j \in Remaining(r) : i <= j]

Evaluate(r, t) == evaluated' = [evaluated EXCEPT ![r] = @ \cup {t}]

LeasesIn(p) == {r \in Requests : lease[r] # None /\ PoolOf[lease[r]] = p}

HasRoom(t) ==
  PoolOf[t] # None => Cardinality(LeasesIn(PoolOf[t])) < Limit[PoolOf[t]]

Looking(r) == At(r, "routing") /\ Remaining(r) # {}

Acquire(r) ==
  /\ Looking(r) /\ HasRoom(Candidate(r))
  /\ Evaluate(r, Candidate(r))
  /\ lease' = [lease EXCEPT ![r] = Candidate(r)]
  /\ Goto(r, "deciding")
  /\ UNCHANGED <<breakers, plan, attempted, watching, woken, permit, retry, ending, history>>

\* A full pool ends the search.
M_FullEndsSearch(r) ==
  /\ Looking(r) /\ ~HasRoom(Candidate(r))
  /\ outcome' = [outcome EXCEPT ![r] = "unavailable"]
  /\ Goto(r, "over")
  /\ UNCHANGED <<breakers, pass, holding, failure, budget, history>>

\* A full pool: go on to the next candidate at once.
SkipFull(r) ==
  /\ Looking(r) /\ ~HasRoom(Candidate(r))
  /\ Evaluate(r, Candidate(r))
  /\ UNCHANGED <<breakers, stage, plan, attempted, watching, woken, holding, ending, history>>

-----------------------------------------------------------------------------
(* The circuit.                                                            *)

SetCircuit(t, s) == circuit' = [circuit EXCEPT ![t] = s]

\* A completion tells whoever has subscribed to the target, if it is taken.
M_TellsNobody(t, s) ==
  /\ SetCircuit(t, s)
  /\ woken' = woken

Publish(t, s) ==
  /\ SetCircuit(t, s)
  /\ woken' = IF s = circuit[t] THEN woken
              ELSE woken \cup {r \in Requests : t \in watching[r]}

\* RouteDecision::Primary: closed, or due and this request is the probe.
DecidePrimary(r) ==
  LET t == lease[r]
      s == Reclaimed(circuit[t], 0)
      given(probe) == [generation |-> s.generation, probe |-> probe]
  IN
  /\ At(r, "deciding")
  /\ \/ s.mode = "Closed"
        /\ permit' = [permit EXCEPT ![r] = given(FALSE)]
        /\ UNCHANGED circuit
     \/ MayProbe(s, 0)
        /\ permit' = [permit EXCEPT ![r] = given(TRUE)]
        /\ SetCircuit(t, HalfOpened(s, 0))
  /\ attempted' = [attempted EXCEPT ![r] = @ \cup {t}]
  /\ retry' = [retry EXCEPT ![r] = TRUE]
  /\ sent' = [sent EXCEPT ![r][t] = @ + 1]
  /\ Goto(r, "attempting")
  /\ UNCHANGED <<orphans, plan, evaluated, watching, woken, lease, ending, waited>>

\* RouteDecision::Fallback: drop the lease and go on; subscribe to a probe in
\* flight.
M_FallbackKeepsLease(r) ==
  LET t == lease[r]
      s == Reclaimed(circuit[t], 0)
  IN
  /\ At(r, "deciding")
  /\ s.mode # "Closed" /\ ~MayProbe(s, 0)
  /\ watching' = [watching EXCEPT ![r] = IF s.probing THEN @ \cup {t} ELSE @]
  /\ Goto(r, "routing")
  /\ UNCHANGED <<breakers, plan, attempted, evaluated, woken, holding, ending, history>>

DecideFallback(r) ==
  LET t == lease[r]
      s == Reclaimed(circuit[t], 0)
  IN
  /\ At(r, "deciding")
  /\ s.mode # "Closed" /\ ~MayProbe(s, 0)
  /\ watching' = [watching EXCEPT ![r] = IF s.probing THEN @ \cup {t} ELSE @]
  /\ lease' = [lease EXCEPT ![r] = None]
  /\ Goto(r, "routing")
  /\ UNCHANGED <<breakers, plan, attempted, evaluated, woken, permit, retry, ending, history>>

\* The permit is settled: the circuit becomes s and the lease is next.
Settle(r, s) ==
  /\ Publish(lease[r], s)
  /\ permit' = [permit EXCEPT ![r] = None]
  /\ Goto(r, "closing")

-----------------------------------------------------------------------------
(* The attempt.                                                            *)

\* A complete answer, or a stream that has run to its end.
Succeed(r) ==
  /\ \/ At(r, "attempting") /\ r \notin Streaming
     \/ At(r, "streaming")
  /\ Settle(r, Succeeded(circuit[lease[r]], permit[r]))
  /\ outcome' = [outcome EXCEPT ![r] = "answered"]
  /\ UNCHANGED <<orphans, plan, attempted, evaluated, watching, lease, retry,
                 failure, budget, history>>

\* The first event of a stream commits the request to this target.
StartStream(r) ==
  /\ At(r, "attempting") /\ r \in Streaming
  /\ Goto(r, "streaming")
  /\ UNCHANGED <<breakers, pass, holding, ending, history>>

\* An ambiguous rejection: the same target gets a second attempt, once.
Pause(r) ==
  /\ At(r, "attempting") /\ retry[r]
  /\ \E class \in Outcomes : RetriesSameTargetOnce(class)
  /\ retry' = [retry EXCEPT ![r] = FALSE]
  /\ Goto(r, "pausing")
  /\ UNCHANGED <<breakers, pass, lease, permit, ending, history>>

Resend(r) ==
  /\ At(r, "pausing")
  /\ sent' = [sent EXCEPT ![r][lease[r]] = @ + 1]
  /\ Goto(r, "attempting")
  /\ UNCHANGED <<breakers, pass, holding, ending, waited>>

\* Every other failure settles the permit, and ends the request if its class
\* allows no fallback.
Fail(r) ==
  /\ At(r, "attempting")
  /\ \E class \in Outcomes, hint \in Hints :
       /\ ~(retry[r] /\ RetriesSameTargetOnce(class))
       /\ Settle(r, Failed(circuit[lease[r]], permit[r], class, hint))
       /\ failure' = [failure EXCEPT ![r] = class]
       /\ outcome' = [outcome EXCEPT ![r] = IF AllowsFallback(class) THEN @ ELSE "failed"]
  /\ UNCHANGED <<orphans, plan, attempted, evaluated, watching, lease, retry, budget, history>>

\* A stream that breaks is past falling back.
Break(r) ==
  /\ At(r, "streaming")
  /\ \E class \in Outcomes :
       /\ Settle(r, Failed(circuit[lease[r]], permit[r], class, None))
       /\ failure' = [failure EXCEPT ![r] = class]
  /\ outcome' = [outcome EXCEPT ![r] = "broken"]
  /\ UNCHANGED <<orphans, plan, attempted, evaluated, watching, lease, retry, budget, history>>

\* The alert is recorded and the lease goes out of scope.
Close(r) ==
  /\ At(r, "closing")
  /\ lease' = [lease EXCEPT ![r] = None]
  /\ Goto(r, IF outcome[r] = None THEN "routing" ELSE "over")
  /\ UNCHANGED <<breakers, pass, permit, retry, ending, history>>

-----------------------------------------------------------------------------
(* The end of a pass.                                                      *)

PassDone(r) == At(r, "routing") /\ Remaining(r) = {}

\* Nothing to wait for: the last failure is the answer, or a 503.
GiveUp(r) ==
  /\ PassDone(r) /\ watching[r] = {}
  /\ outcome' = [outcome EXCEPT ![r] = IF failure[r] = None THEN "unavailable" ELSE "failed"]
  /\ Goto(r, "over")
  /\ UNCHANGED <<breakers, pass, holding, failure, budget, history>>

\* The budget runs from the first wait on.
BudgetLeft(r) == IF budget[r] = None THEN Budget ELSE budget[r]

Sleep(r) ==
  /\ PassDone(r) /\ watching[r] # {} /\ BudgetLeft(r) > 0
  /\ budget' = [budget EXCEPT ![r] = BudgetLeft(r)]
  /\ Goto(r, "sleeping")
  /\ UNCHANGED <<breakers, pass, holding, failure, outcome, history>>

\* One of the probes has ended: another pass.
Wake(r) ==
  /\ At(r, "sleeping") /\ r \in woken
  /\ evaluated' = [evaluated EXCEPT ![r] = {}]
  /\ watching' = [watching EXCEPT ![r] = {}]
  /\ woken' = woken \ {r}
  /\ Goto(r, "routing")
  /\ UNCHANGED <<breakers, plan, attempted, holding, ending, history>>

\* A waiter that is asleep is left alone.
M_ExpiresAwake(r) ==
  /\ budget[r] = 0
  /\ PassDone(r) /\ watching[r] # {}
  /\ outcome' = [outcome EXCEPT ![r] = "unavailable"]
  /\ Goto(r, "over")
  /\ UNCHANGED <<breakers, pass, holding, failure, budget, history>>

\* The budget is spent, asleep or before it could sleep again.  A waiter that
\* has been notified by then is served as notified.
Expire(r) ==
  /\ budget[r] = 0
  /\ \/ At(r, "sleeping") /\ r \notin woken
     \/ PassDone(r) /\ watching[r] # {}
  /\ outcome' = [outcome EXCEPT ![r] = "unavailable"]
  /\ Goto(r, "over")
  /\ UNCHANGED <<breakers, pass, holding, failure, budget, history>>

-----------------------------------------------------------------------------
(* Cancellation and time.                                                  *)

\* The client goes away and the future or the stream is dropped, with the
\* lease and the permit in it.  A probe permit spawns its abandonment.
M_CancelForgetsProbe(r) ==
  /\ stage[r] \notin {"new", "over"}
  /\ orphans' = orphans
  /\ lease' = [lease EXCEPT ![r] = None]
  /\ permit' = [permit EXCEPT ![r] = None]
  /\ outcome' = [outcome EXCEPT ![r] = "cancelled"]
  /\ Goto(r, "over")
  /\ UNCHANGED <<circuit, pass, retry, failure, budget, history>>

Cancel(r) ==
  /\ stage[r] \notin {"new", "over"}
  /\ orphans' =
       IF permit[r] # None /\ permit[r].probe
       THEN orphans \cup
              {[client |-> r, target |-> lease[r], generation |-> permit[r].generation]}
       ELSE orphans
  /\ lease' = [lease EXCEPT ![r] = None]
  /\ permit' = [permit EXCEPT ![r] = None]
  /\ outcome' = [outcome EXCEPT ![r] = "cancelled"]
  /\ Goto(r, "over")
  /\ UNCHANGED <<circuit, pass, retry, failure, budget, history>>

\* The spawned task.
Abandon ==
  \E o \in orphans :
    /\ Publish(o.target,
         Abandoned(circuit[o.target], [generation |-> o.generation, probe |-> TRUE]))
    /\ orphans' = orphans \ {o}
    /\ UNCHANGED <<stage, plan, attempted, evaluated, watching, holding, ending, history>>

Tick ==
  /\ circuit' = [t \in Targets |-> Aged(circuit[t], 1)]
  /\ budget' = [r \in Requests |->
       IF budget[r] = None THEN None ELSE Greater(budget[r] - 1, 0)]
  /\ waited' = [r \in Requests |->
       IF At(r, "sleeping") /\ budget[r] > 0 THEN waited[r] + 1 ELSE waited[r]]
  /\ UNCHANGED <<orphans, stage, pass, holding, failure, outcome, sent>>

\* What the runtime does for a request without anybody else's doing.
Advance(r) ==
  \/ Acquire(r) \/ SkipFull(r) \/ DecidePrimary(r) \/ DecideFallback(r)
  \/ Resend(r) \/ Close(r) \/ GiveUp(r) \/ Sleep(r) \/ Wake(r) \/ Expire(r)

\* What the provider does.
Respond(r) == Succeed(r) \/ StartStream(r) \/ Pause(r) \/ Fail(r) \/ Break(r)

Next ==
  /\ UNCHANGED deployment
  /\ \/ \E r \in Requests : Arrive(r) \/ Advance(r) \/ Respond(r) \/ Cancel(r)
     \/ Abandon \/ Tick

Spec == Init /\ [][Next]_vars

\* The runtime runs ready tasks and the clock runs; an attempt ends, by its
\* timeouts, unless it is one of the endless streams.
Fairness ==
  /\ WF_moving(Tick) /\ WF_moving(Abandon)
  /\ \A r \in Requests : WF_moving(Advance(r))
  /\ \A r \in Requests : WF_moving(At(r, "attempting") /\ Respond(r))
  /\ \A r \in Requests \ Endless : WF_moving(Respond(r))

FairSpec == Spec /\ Fairness

-----------------------------------------------------------------------------
(* Properties.                                                             *)

\* "The lease lasts through same-target retries and the complete upstream
\* stream, and is released on cancellation, failure or completion": whoever
\* may still touch the upstream has the lease of that very target, and nobody
\* else, above all nobody asleep or gone, occupies a pool.
LeaseLastsAsLong ==
  \A r \in Requests :
    /\ lease[r] # None <=>
         stage[r] \in {"deciding", "attempting", "pausing", "streaming", "closing"}
    /\ permit[r] # None => lease[r] \in attempted[r]
    /\ permit[r] # None <=> stage[r] \in {"attempting", "pausing", "streaming"}

\* Who will give back the probe of target t.
ProbersOf(t) ==
  {r \in Requests : /\ lease[r] = t /\ permit[r] # None /\ permit[r].probe
                    /\ permit[r].generation = circuit[t].generation}
OrphansOf(t) ==
  {o \in orphans : o.target = t /\ o.generation = circuit[t].generation}

OwnersOf(t) == ProbersOf(t) \cup {o.client : o \in OrphansOf(t)}

\* A half-open target has exactly one owner of its probe, an attempt, a
\* retry, a stream or a spawned abandonment; any other target has none.
\* Hence no way through the loop loses a probe or lets a second one out.
ProbeHasOneOwner ==
  \A t \in Targets :
    Cardinality(ProbersOf(t)) + Cardinality(OrphansOf(t)) =
      IF circuit[t].mode = "HalfOpen" THEN 1 ELSE 0

\* What the breaker of each target promises, BreakerContract.
Status(t) ==
  CASE circuit[t].mode = "Closed"   -> "admitting"
    [] circuit[t].mode = "HalfOpen" -> "probing"
    [] OTHER                        -> "blocked"

Prober(t) ==
  IF Status(t) = "probing" THEN CHOOSE r \in Requests : r \in OwnersOf(t) ELSE None

\* Those that have been given a permit for the target and have given it back.
Over(t) ==
  {r \in Requests : /\ t \in attempted[r]
                    /\ ~(lease[r] = t /\ permit[r] # None)
                    /\ \A o \in orphans : ~(o.client = r /\ o.target = t)}

Contract(t) ==
  INSTANCE BreakerContract
  WITH status <- Status(t), prober <- Prober(t), over <- Over(t)

\* The route loop uses every breaker as its contract says, with requests that
\* move between targets, retry, stream, sleep and vanish: a target opens and
\* recovers only by the result of a request admitted to it, only its one
\* prober's result ends a probe, and each request counts once.
ContractOfEveryTarget ==
  /\ \A t \in Targets : Contract(t)!Init
  /\ [][\A t \in Targets : [Contract(t)!Next]_(Contract(t)!vars)]_vars

\* A request that sleeps, or is about to, and has not been notified, sleeps
\* because every probe it watches is still in flight; and it sleeps for "one
\* total route_probe_wait_ms budget", however often it is woken.
SleepsOnlyOnProbes ==
  \A r \in Requests :
    /\ r \notin woken /\ ~At(r, "over") =>
         \A t \in watching[r] : circuit[t].mode = "HalfOpen"
    /\ waited[r] <= Budget

\* "A concrete target is selected from the route graph at most once even if
\* configuration repeats it across layers", through every pass; only an
\* ambiguous rejection makes it two attempts.
SentOnceOrRetried ==
  \A r \in Requests, t \in Targets :
    sent[r][t] <= IF lease[r] = t /\ retry[r] THEN 1 ELSE 2

\* Nobody is turned away, at once or after waiting, with a route he has not
\* looked at; and nobody goes on after a failure that no other target could
\* answer better.
TurnedAway(r) ==
  outcome[r] = "unavailable" \/ (outcome[r] = "failed" /\ AllowsFallback(failure[r]))

TurnedAwayLast ==
  \A r \in Requests :
    /\ TurnedAway(r) =>
         \A i \in DOMAIN plan[r] : plan[r][i] \in attempted[r] \cup evaluated[r]
    /\ failure[r] # None => AllowsFallback(failure[r]) \/ outcome[r] # None

\* Every request but an endless stream ends, although the probe it waits for
\* may be one.
RequestEnds ==
  \A r \in Requests \ Endless : At(r, "routing") ~> At(r, "over")

=============================================================================
