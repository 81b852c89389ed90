----------------------------- MODULE RiskPolicy -----------------------------
(***************************************************************************)
(* domain/risk.py and domain/policy.py: the two pure functions that decide *)
(* how an intent is treated.  A band is its order, 0 (LOW) to 3            *)
(* (CRITICAL).  A rule of a bundle is a partial record of the keys it has, *)
(* with an overlay per environment; None stands for a rule that is missing *)
(* or not a mapping, and a TTL that is not an integer is 0.                *)
(***************************************************************************)
EXTENDS PolicyDecision, Integers

Low == 0
Medium == 1
High == 2
Critical == 3
Bands == Low..Critical

Tools == {"inspect_service", "restart_service", "scale_service",
          "provision_resource", "delete_resource"}

ToolMinimumBand ==
  [inspect_service |-> Low, restart_service |-> High, scale_service |-> Medium,
   provision_resource |-> High, delete_resource |-> Critical]

MutatingTools == {"restart_service", "scale_service", "provision_resource"}
MaxPolicyFlags == 5

-----------------------------------------------------------------------------
(* evaluate_risk *)

\* Mutant: the band wraps around instead of stopping at CRITICAL.
RaiseBandWrapping(band, target) == target % 4

\* Never down, and never past CRITICAL.
RaiseBand(band, target) ==
  IF target <= band THEN band ELSE IF target > Critical THEN Critical ELSE target

\* One flag after the other, at most MaxPolicyFlags of them.
RaiseForFlags(band, flags) ==
  LET raised[n \in 0..MaxPolicyFlags] ==
        IF n = 0 THEN band ELSE RaiseBand(raised[n - 1], raised[n - 1] + 1)
  IN  raised[IF flags < MaxPolicyFlags THEN flags ELSE MaxPolicyFlags]

EnvironmentBand(intent) ==
  IF intent.environment = "production" /\ intent.tool \in MutatingTools
  THEN RaiseBand(ToolMinimumBand[intent.tool], High)
  ELSE ToolMinimumBand[intent.tool]

EvaluateRisk(intent, context) ==
  LET b1 == EnvironmentBand(intent)
      b2 == IF intent.cost = "high" THEN RaiseBand(b1, b1 + 1) ELSE b1
      b3 == IF context.degraded THEN RaiseBand(b2, b2 + 1) ELSE b2
  IN  RaiseForFlags(b3, context.flags)

-----------------------------------------------------------------------------
(* evaluate_policy *)

MaxApprovalTtl == 3600
CriticalRoles == <<"critical_approver_l1", "critical_approver_l2">>
SingleApprovalRoles == <<"approver">>

DefaultScopes(tool) == IF tool = "inspect_service" THEN {"ops:read"} ELSE {"ops:write"}

Lookup(fields, key, default) == IF key \in DOMAIN fields THEN fields[key] ELSE default

\* _tool_rule: the overlay of the environment wins key by key.
ToolRule(rule, environment) ==
  LET overlay == rule.overlays[environment] IN
  IF overlay = None THEN rule.base
  ELSE [key \in DOMAIN rule.base \cup DOMAIN overlay |->
          IF key \in DOMAIN overlay THEN overlay[key] ELSE rule.base[key]]

Blocked == [disposition |-> "BLOCK", route |-> "NONE", roles |-> << >>,
            scopes |-> {}, obligations |-> {}, ttl |-> None]

\* Mutant: an ALLOW rule stands whatever the band.
TreatmentUncoerced(band, raw) ==
  IF raw \in Dispositions THEN raw ELSE "UNKNOWN"

\* The disposition a rule leads to at a band: from HIGH on everything but BLOCK
\* becomes an approval, below that an unknown word is refused.
Treatment(band, raw) ==
  CASE raw = "BLOCK" -> "BLOCK"
    [] raw # "BLOCK" /\ band >= High -> "REQUIRE_APPROVAL"
    [] raw \in {"ALLOW", "REQUIRE_APPROVAL"} /\ band < High -> raw
    [] OTHER -> "UNKNOWN"

RouteFor(band, disposition) ==
  IF disposition # "REQUIRE_APPROVAL" THEN "NONE"
  ELSE IF band = Critical THEN "CRITICAL_TWO_STEP" ELSE "SINGLE"

\* Mutant: roles are only supplied from HIGH on.
RolesForHigh(band, disposition, named) ==
  IF named # << >> \/ band < High THEN named
  ELSE IF band = Critical THEN CriticalRoles ELSE SingleApprovalRoles

\* The roles the rule names, or the band's own.
RolesFor(band, disposition, named) ==
  CASE named # << >> -> named
    [] named = << >> /\ band = Critical -> CriticalRoles
    [] named = << >> /\ band # Critical
         /\ (band = High \/ disposition = "REQUIRE_APPROVAL") -> SingleApprovalRoles
    [] OTHER -> << >>

EvaluatePolicy(tool, band, environment, rule, bundleTtl) ==
  IF rule = None THEN Blocked ELSE
  LET fields      == ToolRule(rule, environment)
      ttl         == Lookup(fields, "ttl", bundleTtl)
      disposition == Treatment(band, Lookup(fields, "disposition", "REQUIRE_APPROVAL"))
  IN  IF ttl < 1 \/ ttl > MaxApprovalTtl \/ disposition = "UNKNOWN" THEN Blocked
      ELSE [disposition |-> disposition,
            route       |-> RouteFor(band, disposition),
            roles       |-> RolesFor(band, disposition, Lookup(fields, "roles", << >>)),
            scopes      |-> Lookup(fields, "scopes", DefaultScopes(tool)),
            obligations |-> Lookup(fields, "obligations", {}),
            ttl         |-> IF disposition = "REQUIRE_APPROVAL" THEN ttl ELSE None]

-----------------------------------------------------------------------------
(* The seed bundle *)

NoOverlays == [staging |-> None, production |-> None]
Plain(fields) == [base |-> fields, overlays |-> NoOverlays]
Nothing == [key \in {} |-> None]

SeedTtl == 900

SeedRules ==
  [inspect_service    |-> Plain([disposition |-> "ALLOW"]),
   restart_service    |-> Plain([disposition |-> "REQUIRE_APPROVAL",
                                 roles |-> <<"approver">>,
                                 obligations |-> {"announce_in_incident_channel"}]),
   scale_service      |-> [base |-> Nothing,
                           overlays |-> [staging    |-> [disposition |-> "ALLOW"],
                                         production |-> [disposition |-> "REQUIRE_APPROVAL",
                                                         roles |-> <<"approver">>]]],
   provision_resource |-> Plain([disposition |-> "REQUIRE_APPROVAL",
                                 roles |-> <<"approver">>]),
   delete_resource    |-> Plain([disposition |-> "REQUIRE_APPROVAL",
                                 roles |-> CriticalRoles,
                                 obligations |-> {"require_change_ticket"}])]
=============================================================================
