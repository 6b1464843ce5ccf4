------------------------------ MODULE Circuit -------------------------------
(***************************************************************************)
(* One target's circuit breaker (circuit.rs): the snapshot in memory, its  *)
(* record in the store, and the requests that ask it for a permit, wait    *)
(* for a probe, report a result, or are dropped half way.                  *)
(*                                                                         *)
(* A request stands for a client that keeps trying until it has been given *)
(* one permit; after that permit is settled the request is over, so the    *)
(* number of requests bounds the generations a behaviour goes through.     *)
(***************************************************************************)
EXTENDS CircuitState

CONSTANTS
  Requests,      \* the requests that may ask for this target
  Endless,       \* those whose upstream response need never end
  Outcomes,      \* the failure classes a provider may answer with
  Hints,         \* the Retry-After values it may send along
  MaxCrashes,    \* bound on process crashes
  MaxClockStep   \* bound on how far the clock is set back at a restart

ASSUME EnvironmentAssumption ==
  /\ Endless \subseteq Requests
  /\ None \notin Requests
  /\ Outcomes \subseteq FailureClasses
  /\ Hints \subseteq Nat \cup {None}
  /\ MaxCrashes \in Nat
  /\ MaxClockStep \in Nat

VARIABLES
  mem,      \* CircuitBreaker.state
  disk,     \* the record under store_key; absent reads as the default
  up,       \* the process runs
  pc,       \* where each request stands
  permit,   \* the CircuitPermit a request was given
  woken,    \* waiters the watch channel has notified
  unsaved,  \* the last put_state failed
  crashes

machine == <<mem, disk, unsaved>>
clients == <<pc, permit, woken>>
process == <<up, crashes>>
vars    == <<mem, disk, unsaved, pc, permit, woken, up, crashes>>

NoPermit == [generation |-> 0, probe |-> FALSE]

\* "asking": about to call decide.  "holding": owns an unsettled permit.
\* "waiting": on the watch channel.  "dropped": the permit was dropped and
\* the task that abandons the probe has been spawned.
Stages == {"asking", "holding", "waiting", "dropped", "over"}

At(r, stage) == pc[r] = stage
Goto(r, stage) == pc' = [pc EXCEPT ![r] = stage]

\* Every variable has its type, and both snapshots hold the options their
\* mode needs and no others: an open circuit without a deadline would never
\* be probed again, and a half-open one without a lease never be reclaimed.
TypeOK ==
  /\ mem \in Snapshot /\ WellFormed(mem)
  /\ disk \in Snapshot /\ WellFormed(disk)
  /\ up \in BOOLEAN /\ unsaved \in BOOLEAN
  /\ pc \in [Requests -> Stages]
  /\ permit \in [Requests -> Permits]
  /\ woken \subseteq Requests
  /\ crashes \in Nat

Init ==
  /\ mem = Fresh(0) /\ disk = Fresh(0)
  /\ up = TRUE /\ unsaved = FALSE
  /\ pc = [r \in Requests |-> "asking"]
  /\ permit = [r \in Requests |-> NoPermit]
  /\ woken = {}
  /\ crashes = 0

-----------------------------------------------------------------------------
(* Saving and publishing.                                                  *)

\* persist: a store error is logged and the record stays as it was.
Persist(s) ==
  \/ disk' = s /\ unsaved' = FALSE
  \/ disk' = disk /\ unsaved' = TRUE

Waiters == {r \in Requests : At(r, "waiting")}

\* Persists the snapshot without telling the watch channel.
M_SavesQuietly(s) ==
  \/ s = mem /\ UNCHANGED <<mem, disk, unsaved, woken>>
  \/ s # mem /\ mem' = s /\ Persist(s) /\ UNCHANGED woken

M_PublishesOnly(s) ==
  \/ s = mem /\ UNCHANGED <<mem, disk, unsaved, woken>>
  \/ s # mem /\ mem' = s /\ woken' = woken \cup Waiters /\ UNCHANGED <<disk, unsaved>>

\* A completion that is not taken returns early; one that is taken is saved
\* and sent to every receiver of the watch channel.
PersistAndPublish(s) ==
  \/ s = mem /\ UNCHANGED <<mem, disk, unsaved, woken>>
  \/ s # mem /\ mem' = s /\ Persist(s) /\ woken' = woken \cup Waiters

-----------------------------------------------------------------------------
(* decide_at.                                                              *)

Give(r, probe, generation) ==
  /\ permit' = [permit EXCEPT ![r] = [generation |-> generation, probe |-> probe]]
  /\ Goto(r, "holding")

\* A closed circuit lets every request through.
GrantPrimary(r) ==
  /\ up /\ At(r, "asking")
  /\ mem.mode = "Closed"
  /\ Give(r, FALSE, mem.generation)
  /\ UNCHANGED <<machine, process, woken>>

\* A due open or suspended circuit, or one whose probe outlived its lease,
\* turns half-open and gives this request the probe.
GrantProbe(r) ==
  /\ up /\ At(r, "asking")
  /\ \E lag \in 0..MaxLag :
       LET s == Reclaimed(mem, lag) IN
       /\ MayProbe(s, lag)
       /\ mem' = HalfOpened(s, lag)
       /\ Persist(mem')
       /\ Give(r, TRUE, s.generation)
  /\ UNCHANGED <<process, woken>>

\* Someone else's probe is in flight: subscribe, under the same lock.  (A
\* circuit that is neither closed, due nor probing answers Fallback and
\* nothing changes.)
Await(r) ==
  /\ up /\ At(r, "asking")
  /\ \E lag \in 0..MaxLag :
       LET s == Reclaimed(mem, lag) IN
       s.mode = "HalfOpen" /\ s.probing
  /\ Goto(r, "waiting")
  /\ woken' = woken \ {r}
  /\ UNCHANGED <<machine, process, permit>>

Decide(r) == GrantPrimary(r) \/ GrantProbe(r) \/ Await(r)

\* The watch channel changed: the route loop asks again.
Wake(r) ==
  /\ up /\ At(r, "waiting") /\ r \in woken
  /\ Goto(r, "asking")
  /\ UNCHANGED <<machine, process, permit, woken>>

\* The probe wait budget ran out; the client gets a 503 and tries again.
TimeOut(r) ==
  /\ up /\ At(r, "waiting")
  /\ Goto(r, "asking")
  /\ UNCHANGED <<machine, process, permit, woken>>

-----------------------------------------------------------------------------
(* Settling a permit.                                                      *)

\* CircuitPermit::success.
Succeed(r) ==
  /\ up /\ At(r, "holding")
  /\ PersistAndPublish(Succeeded(mem, permit[r]))
  /\ Goto(r, "over")
  /\ UNCHANGED <<process, permit>>

\* CircuitPermit::failure.
Fail(r) ==
  /\ up /\ At(r, "holding")
  /\ \E class \in Outcomes, hint \in Hints :
       PersistAndPublish(Failed(mem, permit[r], class, hint))
  /\ Goto(r, "over")
  /\ UNCHANGED <<process, permit>>

\* The future or the stream that owns the permit is dropped; only a probe
\* spawns the task that gives it up.
Drop(r) ==
  /\ up /\ At(r, "holding")
  /\ Goto(r, IF permit[r].probe THEN "dropped" ELSE "over")
  /\ UNCHANGED <<machine, process, permit, woken>>

\* The spawned task runs complete_abandonment.
Abandon(r) ==
  /\ up /\ At(r, "dropped")
  /\ PersistAndPublish(Abandoned(mem, permit[r]))
  /\ Goto(r, "over")
  /\ UNCHANGED <<process, permit>>

-----------------------------------------------------------------------------
(* The clock and the process.                                              *)

Tick ==
  /\ mem' = Aged(mem, 1) /\ disk' = Aged(disk, 1)
  /\ UNCHANGED <<unsaved, clients, process>>

\* Memory, permits and receivers go with the process.
Crash ==
  /\ up /\ crashes < MaxCrashes
  /\ up' = FALSE /\ crashes' = crashes + 1
  /\ pc' = [r \in Requests |->
              IF At(r, "holding") \/ At(r, "dropped") THEN "over"
              ELSE IF At(r, "waiting") THEN "asking" ELSE pc[r]]
  /\ woken' = {}
  /\ UNCHANGED <<machine, permit>>

\* CircuitBreaker::load.  The clock may have been set back meanwhile.  When
\* the corrected record cannot be written the start fails and is repeated.
Load ==
  /\ ~up
  /\ \E step \in 0..MaxClockStep :
       LET stored == Aged(disk, -step) IN
       mem' = Loaded(stored) /\ disk' = mem'
  /\ up' = TRUE /\ unsaved' = FALSE
  /\ UNCHANGED <<crashes, clients>>

Settle(r) == Succeed(r) \/ Fail(r) \/ Drop(r)

Next ==
  \/ \E r \in Requests :
       \/ Decide(r) \/ Wake(r) \/ TimeOut(r)
       \/ Settle(r) \/ Abandon(r)
  \/ Tick \/ Crash \/ Load

Spec == Init /\ [][Next]_vars

\* The runtime runs ready tasks, the clock runs, a failed start is repeated,
\* and an attempt that is not an endless stream ends: its timeouts see to it.
Fairness ==
  /\ WF_vars(Tick) /\ WF_vars(Load)
  /\ \A r \in Requests :
       WF_vars(Decide(r)) /\ WF_vars(TimeOut(r)) /\ WF_vars(Abandon(r))
  /\ \A r \in Requests \ Endless : WF_vars(Settle(r))

FairSpec == Spec /\ Fairness

-----------------------------------------------------------------------------
(* Properties.                                                             *)

\* The requests whose result the half-open circuit still waits for.
LiveProbes ==
  {r \in Requests :
     /\ At(r, "holding") \/ At(r, "dropped")
     /\ permit[r].probe /\ permit[r].generation = mem.generation}

\* "An open or suspended target admits one half-open probe": a half-open
\* circuit has exactly one request whose permit it will accept, however many
\* probes have outlived their lease, and any other circuit has none.
OneLiveProbe ==
  up => /\ mem.mode = "HalfOpen" <=> LiveProbes # {}
        /\ \A r, q \in LiveProbes : r = q

\* A next probe is never further away than the slowest delay of the failure
\* that opened the circuit, whatever hint the provider sent and however the
\* clock moved while the process was down.
NextProbeWithinCeiling ==
  up /\ mem.mode \in {"Open", "Suspended"} =>
    mem.next <= SlowestDelay(mem.reason)

\* The failure count moves in this step as the documents promise.
CountsOnce ==
  up /\ up' /\ mem'.failures > mem.failures =>
    /\ mem'.failures = mem.failures + 1 /\ mem'.backoff <= mem.backoff + 1
    /\ mem.mode = "Closed" \/ \E r \in LiveProbes : pc'[r] = "over"

\* "Concurrent failures cause one backoff transition": a failure is counted,
\* and the backoff raised, only when it opens the closed circuit or when it
\* is the result of the probe in flight; never a second time by requests
\* admitted together, nor by a probe that lost its lease.
FailureCountedOnce == [][CountsOnce]_vars

\* A request asleep on the watch channel sleeps because a probe is in flight
\* now: no way out of half-open leaves a subscriber behind.
NoLostWakeup ==
  \A r \in Requests :
    At(r, "waiting") /\ r \notin woken => mem.mode = "HalfOpen"

\* Unless the last write failed, a crash at this moment loses nothing: the
\* record is the snapshot in memory.
MemoryIsDurable == up /\ ~unsaved => disk = mem

\* What the breaker promises to the routes: BreakerContract.
Status ==
  IF ~up THEN "down"
  ELSE CASE mem.mode = "Closed"   -> "admitting"
         [] mem.mode = "HalfOpen" -> "probing"
         [] OTHER                 -> "blocked"

Prober ==
  IF Status = "probing" THEN CHOOSE r \in Requests : r \in LiveProbes
  ELSE None

Contract ==
  INSTANCE BreakerContract
  WITH status <- Status, prober <- Prober,
       over   <- {r \in Requests : At(r, "over")}

\* Every step of the breaker is a step its contract allows: only the current
\* prober's own result ends a probe, a target recovers only through a probe
\* or a restart, and the result of any other request changes nothing once
\* the circuit is open.
ContractSpec == Contract!Spec

\* A client that keeps asking is let through in the end, although a stream
\* that never ends may be sitting on the probe.
EveryClientAdmitted ==
  \A r \in Requests : At(r, "asking") ~> At(r, "holding")

=============================================================================
