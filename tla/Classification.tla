--------------------------- MODULE Classification ---------------------------
(***************************************************************************)
(* What a provider's refusal means: the status and the error envelope of   *)
(* an answer, read by the adapter it came through (provider.rs and its     *)
(* adapters).  They are the outcomes of Gateway.                           *)
(*                                                                         *)
(* The names an envelope uses (error.type, error.code) are lower-case, as  *)
(* they are compared without case or are numbers; a message is the set of  *)
(* the known phrases in it.                                                *)
(***************************************************************************)
EXTENDS Integers, FailureClass

CONSTANT Nothing  \* an absent name, message or envelope

\* enum AdapterKind, those adapter_for registers.
Adapters ==
  { "deepseek-official", "kimi-official", "kimi-code", "opencode-go",
    "zhipu-coding-plan", "custom-chat-completions", "custom-responses",
    "custom-anthropic", "ollama-cloud" }

\* ErrorDetails: what is read of an envelope, and what tells errors apart.
Details(type, code, says) == [type |-> type, code |-> code, says |-> says]
Unrecognized == Details(Nothing, Nothing, {})
Discriminator(d) == IF d.type = Nothing THEN d.code ELSE d.type

\* contains_any.
Says(d, phrases) == d.says \cap phrases # {}

\* classify_status, for adapters that know no better.
ClassifyStatus(status) ==
  CASE status \in {400, 409, 413, 414, 422, 431} -> "ClientRequest"
    [] status \in {401, 403} -> "ProviderAuth"
    [] status = 402 -> "ProviderBilling"
    [] status \in {404, 405, 415} -> "ProviderConfiguration"
    [] status \in {408, 425} \cup 500..599 -> "ProviderTransient"
    [] status = 429 -> "ProviderCapacity"
    [] status = 499 -> "ClientCancelled"
    [] OTHER -> IF status \in 400..499 THEN "ProviderUnknown4xx"
                ELSE "ProviderUnknown5xxOrTransport"

\* classify_transport: no answer came at all.
ClassifyTransport(failed) ==
  IF failed \in {"timeout", "connect", "request", "body"}
  THEN "ProviderTransient" ELSE "ProviderUnknown5xxOrTransport"

-----------------------------------------------------------------------------
(* classify_error of the adapters that do.  Each looks in this order.      *)

OpenCodeGo(status, d) ==
  IF Discriminator(d) = "gousagelimiterror" \/ Says(d, {"subscription quota exceeded"})
  THEN "ProviderQuota"
  ELSE IF Says(d, {"does not have access", "model is not available",
                   "model not found", "unsupported model"})
  THEN "ProviderConfiguration"
  ELSE ClassifyStatus(status)

KimiForbidden(d) ==
  IF Says(d, {"usage limit", "quota", "billing cycle"}) THEN "ProviderQuota"
  ELSE IF Says(d, {"security risk", "invalid_url"}) THEN "ClientRequest"
  ELSE IF Says(d, {"access terminated"}) THEN "ProviderConfiguration"
  ELSE "ProviderAmbiguousRejection"

MalformedBot(d) == Says(d, {"bot_id"}) /\ Says(d, {"does not match id_kinds"})
AccountGone == {"no such account", "account disabled", "account suspended", "account muted"}

NotEntitled(d) == Says(d, {"does not have access", "supports only", "model id does not exist"})
PeriodSpent(d) ==
  Says(d, {"usage limit for this period", "monthly usage limit", "quota will be refreshed"})

KimiByStatus(status, d) ==
  CASE status = 401 -> IF NotEntitled(d) THEN "ProviderConfiguration" ELSE ClassifyStatus(status)
    [] status = 402 -> "ProviderTransient"
    [] status = 403 -> KimiForbidden(d)
    [] status = 429 -> IF PeriodSpent(d) THEN "ProviderQuota" ELSE "ProviderCapacity"
    [] OTHER -> ClassifyStatus(status)

\* The accounts' phrases are Chinese in the code.
KimiCode(status, d) ==
  IF MalformedBot(d) THEN "ClientRequest"
  ELSE IF Says(d, AccountGone) THEN "ProviderConfiguration"
  ELSE KimiByStatus(status, d)

KimiOfficial(status, d) ==
  LET name == Discriminator(d)
  IN CASE name \in {"engine_overloaded_error", "rate_limit_reached_error"} -> "ProviderCapacity"
       [] name = "exceeded_current_quota_error" -> "ProviderBilling"
       [] name \in {"invalid_authentication_error", "incorrect_api_key_error"} -> "ProviderAuth"
       [] name \in {"permission_denied_error", "resource_not_found_error"} ->
            "ProviderConfiguration"
       [] name \in {"content_filter", "invalid_request_error"} -> "ClientRequest"
       [] name \in {"server_error", "unexpected_output", "server_unavailable"} ->
            "ProviderTransient"
       [] OTHER -> ClassifyStatus(status)

ZhipuCodingPlan(status, d) ==
  LET code == Discriminator(d)
  IN CASE code \in {"1000", "1001", "1002", "1003", "1004", "1005"} -> "ProviderAuth"
       [] code \in {"1113", "1309", "1314"} -> "ProviderBilling"
       [] code \in {"1110", "1111", "1112", "1121", "1211", "1212", "1220", "1221", "1222",
                    "1311", "1315"} -> "ProviderConfiguration"
       [] code \in {"1120", "1200", "1230", "1234"} -> "ProviderTransient"
       [] code \in {"1210", "1213", "1214", "1215", "1261", "1301"} -> "ClientRequest"
       [] code \in {"1302", "1305"} -> "ProviderCapacity"
       [] code \in {"1304", "1308", "1310", "1313", "1316", "1317", "1318", "1319", "1320",
                    "1321"} -> "ProviderQuota"
       [] OTHER -> ClassifyStatus(status)

\* ProviderAdapter::classify_error.
Classify(adapter, status, d) ==
  CASE adapter = "opencode-go" -> OpenCodeGo(status, d)
    [] adapter = "kimi-code" -> KimiCode(status, d)
    [] adapter = "kimi-official" -> KimiOfficial(status, d)
    [] adapter = "zhipu-coding-plan" -> ZhipuCodingPlan(status, d)
    [] OTHER -> ClassifyStatus(status)

-----------------------------------------------------------------------------
(* Answers that are errors although their status is a success.  An envelope *)
(* has names and a message of its own, and what is at its key "error": in   *)
(* "form" nothing ("absent"), null ("null"), a "text" or an "object".       *)

Envelope(type, code, says, error) ==
  [type |-> type, code |-> code, says |-> says, error |-> error]

IsError(e) ==
  e.error.form \in {"text", "object"} \/ e.type \in {"error", "response.failed"}

\* extract_error_details_from_value, Unrecognized if it finds no message.
DetailsOf(e) ==
  CASE e.error.form = "absent" /\ e.says # Nothing -> Details(e.type, e.code, e.says)
    [] e.error.form = "text" -> Details(e.type, e.code, e.error.says)
    [] e.error.form = "object" /\ e.error.says # Nothing ->
         Details(e.error.type, e.error.code, e.error.says)
    [] OTHER -> Unrecognized

\* classify_semantic_error: Nothing if the envelope is no error.
ClassifySemantic(adapter, status, e) ==
  IF IsError(e) THEN Classify(adapter, status, DetailsOf(e)) ELSE Nothing

-----------------------------------------------------------------------------
(* What docs/provider-failure-policy.md says of refusals.                  *)

\* The statuses that speak of the request, from whatever provider.
RequestSpecific == {400, 409, 413, 414, 422, 431}

\* The request itself was refused, in the words of the provider.
RequestRefused(adapter, d) ==
  \/ adapter = "kimi-code" /\ (MalformedBot(d) \/ Says(d, {"security risk", "invalid_url"}))
  \/ adapter = "kimi-official" /\ Discriminator(d) \in {"content_filter", "invalid_request_error"}
  \/ adapter = "zhipu-coding-plan"
       /\ Discriminator(d) \in {"1210", "1213", "1214", "1215", "1261", "1301"}

\* A provider's refusal that is neither about the request nor ambiguous.
ProvidersOwn(class) ==
  AllowsFallback(class) /\ AffectsCircuit(class)

=============================================================================
