----------------------------- MODULE MCGateway ------------------------------
(***************************************************************************)
(* Two targets, two requests.  The targets become due for a probe one      *)
(* after the other, so that a request can wait for two probes.  Either the *)
(* first target's account has a pool with room for one and the provider is *)
(* Kimi Code, which may reject ambiguously, or nothing is limited and the  *)
(* provider may reject the request.                                        *)
(***************************************************************************)
EXTENDS Gateway, TLC

CONSTANTS t1, t2, p1, r1, r2

TwoTargets == {t1, t2}
OnePool == {p1}
LimitOne == p1 :> 1

\* A plan may repeat a target in a later layer.
Repeating == {<<t1, t2, t1>>}

DueRecord ==
  [ mode |-> "Open", reason |-> "ProviderTransient", next |-> 0,
    failures |-> 1, backoff |-> 1, probing |-> FALSE, lease |-> None,
    generation |-> 1 ]
OneAfterTheOther == {(t1 :> DueRecord) @@ (t2 :> [DueRecord EXCEPT !.next = 1])}

\* What a refusal with this status means that says nothing known.
Refusals == INSTANCE Classification WITH Nothing <- None
Bare(adapter, status) == Refusals!Classify(adapter, status, Refusals!Unrecognized)

PooledFirst ==
  [ pool |-> (t1 :> p1) @@ (t2 :> None),
    outcomes |-> {Bare("kimi-code", 503), Bare("kimi-code", 403)} ]
Unlimited ==
  [ pool |-> (t1 :> None) @@ (t2 :> None),
    outcomes |-> {Bare("custom-responses", 503), Bare("custom-responses", 400)} ]
BothDeployments == {PooledFirst, Unlimited}

NoHints == {None}

ScaledSchedule == [class \in FailureClasses |-> <<1>>]

=============================================================================
