---------------------------- MODULE FailureClass ----------------------------
(***************************************************************************)
(* The meanings a failure can have (types.rs) and what routing does with   *)
(* each.  Every other module takes its failures from here.                 *)
(***************************************************************************)

\* enum FailureClass.
FailureClasses ==
  { "ClientRequest", "ProviderAmbiguousRejection", "ProviderAuth",
    "ProviderBilling", "ProviderConfiguration", "ProviderCapacity",
    "ProviderQuota", "ProviderTransient", "StreamFailure",
    "ProviderUnknown4xx", "ProviderUnknown5xxOrTransport",
    "ClientCancelled", "FallbackUnavailable", "LocalCapacity" }

\* allows_fallback: routing may go on to another target after this failure.
AllowsFallback(class) == class \notin {"ClientRequest", "ClientCancelled"}

\* retries_same_target_once: the same target gets a second attempt.
RetriesSameTargetOnce(class) == class = "ProviderAmbiguousRejection"

\* affects_circuit: the failure is evidence against the target.
AffectsCircuit(class) ==
  class \notin {"ClientRequest", "ClientCancelled",
                "ProviderAmbiguousRejection", "LocalCapacity"}

=============================================================================
