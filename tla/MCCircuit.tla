------------------------------ MODULE MCCircuit -----------------------------
(***************************************************************************)
(* Small instances of Circuit.  Delays are scaled down: what matters is    *)
(* their order, that a schedule has more than one level, that a hint can   *)
(* exceed the ceiling and that a lease is longer than the sampling lag.    *)
(***************************************************************************)
EXTENDS Circuit

CONSTANTS r1, r2, r3

ThreeRequests == {r1, r2, r3}

\* A failure that opens, one that suspends, and one that is no evidence.
SomeOutcomes == {"ProviderTransient", "ProviderAuth", "ClientRequest"}
SomeHints == {None, 0, 4}

ScaledSchedule ==
  [class \in FailureClasses |->
     CASE class = "ProviderAuth" -> <<2>> [] OTHER -> <<1, 2>>]

=============================================================================
