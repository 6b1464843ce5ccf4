--------------------------- MODULE BreakerContract --------------------------
(***************************************************************************)
(* What a circuit breaker promises about a target, without its timers,     *)
(* generations and records: who may probe, and whose result counts.        *)
(***************************************************************************)
CONSTANTS Requests, None

VARIABLES
  status,   \* "admitting", "blocked", "probing", or "down" with the process
  prober,   \* the one request whose result decides, while probing
  over      \* the requests that have given their permit back

vars == <<status, prober, over>>

\* As the store left it.
Init == status \in {"admitting", "blocked"} /\ prober = None /\ over = {}

\* A request admitted while the target was healthy reports a failure.
Trip(r) ==
  /\ status = "admitting" /\ r \notin over
  /\ status' = "blocked" /\ prober' = None /\ over' = over \cup {r}

\* A result that decides nothing: one that comes too late, a success of a
\* healthy target, a failure that is no evidence against it.
Finish(r) ==
  /\ r # prober /\ r \notin over
  /\ over' = over \cup {r}
  /\ UNCHANGED <<status, prober>>

\* The one probe of a blocked target, or its replacement when it takes too
\* long.
Probe(r) ==
  /\ status \in {"blocked", "probing"} /\ r # prober /\ r \notin over
  /\ status' = "probing" /\ prober' = r
  /\ UNCHANGED over

\* The prober, and nobody else, ends the probe.
Report ==
  /\ status = "probing" /\ prober \notin over
  /\ status' \in {"admitting", "blocked"}
  /\ over' = over \cup {prober} /\ prober' = None

\* The process dies with the requests in flight, and comes back without a
\* probe.
Stop ==
  /\ status # "down"
  /\ status' = "down" /\ prober' = None
  /\ over \subseteq over' /\ over' \subseteq Requests

Start ==
  /\ status = "down"
  /\ status' \in {"admitting", "blocked"}
  /\ UNCHANGED <<prober, over>>

Next ==
  \/ \E r \in Requests : Trip(r) \/ Finish(r) \/ Probe(r)
  \/ Report \/ Stop \/ Start

Spec == Init /\ [][Next]_vars

=============================================================================
