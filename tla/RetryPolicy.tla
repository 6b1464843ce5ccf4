---------------------------- MODULE RetryPolicy -----------------------------
(***************************************************************************)
(* The real retry tables of circuit.rs, in seconds, which stand behind the *)
(* constants of CircuitState, and the table of                             *)
(* docs/provider-failure-policy.md they are to follow.                     *)
(***************************************************************************)
EXTENDS CircuitState

\* schedule_for.
Transient == <<1, 2, 4, 8, 16, 32, 60>>
Capacity  == <<5, 30, 300>>
Slow      == <<300, 1800, 3600>>
Quota     == <<60, 300, 900>>
Billing   == <<3600>>

ScheduleFor ==
  [ class \in FailureClasses |->
      CASE class = "ProviderCapacity" -> Capacity
        [] class = "ProviderQuota" -> Quota
        [] class = "ProviderBilling" -> Billing
        [] class \in {"ProviderAuth", "ProviderConfiguration",
                      "ProviderUnknown4xx"} -> Slow
        [] OTHER -> Transient ]

\* The retry of an abandoned probe and the probe lease.
AbandonedProbeRetry == 1
TheProbeLease == 10 * 60

-----------------------------------------------------------------------------
(* The documented table, one row per failure meaning: the delay after the  *)
(* n-th failure of that meaning in a row, and what becomes of a hint.      *)

Minutes(n) == 60 * n

Transients == {"ProviderTransient", "StreamFailure", "ProviderUnknown5xxOrTransport"}
Setups == {"ProviderAuth", "ProviderConfiguration", "ProviderUnknown4xx"}
DocumentedClasses == Transients \cup Setups
                     \cup {"ProviderCapacity", "ProviderQuota", "ProviderBilling"}

Row(class, n) ==
  CASE class \in Transients ->
         CASE n = 1 -> 1 [] n = 2 -> 2 [] n = 3 -> 4 [] n = 4 -> 8
           [] n = 5 -> 16 [] n = 6 -> 32 [] OTHER -> 60
    [] class = "ProviderCapacity" -> CASE n = 1 -> 5 [] n = 2 -> 30 [] OTHER -> 300
    [] class = "ProviderQuota" -> CASE n = 1 -> 60 [] n = 2 -> 300 [] OTHER -> 900
    [] class \in Setups ->
         CASE n = 1 -> Minutes(5) [] n = 2 -> Minutes(30) [] OTHER -> Minutes(60)
    [] class = "ProviderBilling" -> Minutes(60)

HintIgnored(class) == class \in Setups \cup {"ProviderBilling"}
HintLimit(class) ==
  CASE class \in Transients -> 60
    [] class = "ProviderCapacity" -> 300
    [] class = "ProviderQuota" -> 900

DocumentedDelay(class, n, hint) ==
  IF hint = None \/ HintIgnored(class) THEN Row(class, n) ELSE Lesser(hint, HintLimit(class))

=============================================================================
