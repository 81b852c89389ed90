---------------------------- MODULE PolicyReview ----------------------------
(***************************************************************************)
(* The two evaluations of one intent, with the real engines: at creation   *)
(* (create_intent_from_proposal) and again in gate 3 of the revalidation.  *)
(* In between administrators activate other bundles.  Module Approvals and *)
(* Execution take the results as a constant set of policies; here they are *)
(* computed from the intent's parameters and the rule of the bundle.       *)
(***************************************************************************)
EXTENDS RiskPolicy, Revalidation

CONSTANTS
  Rules,      \* what the bundles say of the intent's tool; None is no rule
  BundleTtl   \* approval_ttl_seconds of every bundle

Environments == {"staging", "production"}

\* What evaluate_policy's conversions guarantee of a rule that is a mapping.
IsRule(rule) ==
  \A environment \in Environments :
    LET fields == ToolRule(rule, environment) IN
    /\ Lookup(fields, "ttl", BundleTtl) \in Int
    /\ IsRoles(Lookup(fields, "roles", << >>))

ASSUME RulesAssumption == \A rule \in Rules : rule = None \/ IsRule(rule)

\* What the engines and the docs tell apart of the parameters that
\* parse_tool_parameters admits: a cost class for provision_resource, and for
\* scale_service whether the replicas (0 to 1000) are within the documented
\* bounds (1 to 10, changed by at most 3).  evaluate_risk reads no replicas.
Intents ==
  {i \in [tool: Tools, environment: Environments,
          cost: {None, "low", "high"}, replicas: {None, "within", "outside"}] :
     /\ (i.cost # None) <=> (i.tool = "provision_resource")
     /\ (i.replicas # None) <=> (i.tool = "scale_service")}

VARIABLES
  intent,   \* the action_intents row: its tool and canonical parameters
  rule,     \* the active bundle's rule for the tool
  policy,   \* the policy_evaluations row, None before creation
  verdict   \* gate 3: pending, or its result with the policy it computed

vars == <<intent, rule, policy, verdict>>

\* RiskContext(): both callers evaluate without context.
NoContext == [degraded |-> FALSE, flags |-> 0]

Band(i) == EvaluateRisk(i, NoContext)

Evaluate(i, r) == EvaluatePolicy(i.tool, Band(i), i.environment, r, BundleTtl)

Pending == [result |-> "pending", current |-> None]

Init ==
  /\ intent \in Intents
  /\ rule \in Rules
  /\ policy = None
  /\ verdict = Pending

\* The evaluation at creation.
CreateIntent ==
  /\ policy = None
  /\ policy' = Evaluate(intent, rule)
  /\ UNCHANGED <<intent, rule, verdict>>

ActivatePolicyBundle(r) ==
  /\ r # rule
  /\ rule' = r
  /\ UNCHANGED <<intent, policy, verdict>>

\* Gate 3, once, and only for an intent that was not blocked.
Revalidate ==
  /\ policy # None
  /\ policy.disposition # "BLOCK"
  /\ verdict = Pending
  /\ LET current == Evaluate(intent, rule) IN
     verdict' = [result  |-> IF PolicyHolds(current, policy) THEN "passed" ELSE "stale",
                 current |-> current]
  /\ UNCHANGED <<intent, rule, policy>>

Next ==
  \/ CreateIntent
  \/ \E r \in Rules : ActivatePolicyBundle(r)
  \/ Revalidate

Spec == Init /\ [][Next]_vars

-----------------------------------------------------------------------------

\* Type invariant: whatever the bundle holds, the stored evaluation has the shape that every
\* later handler relies on: an approval has a route, a role and a TTL.
TypeOK ==
  /\ intent \in Intents
  /\ rule \in Rules
  /\ policy = None \/ IsPolicy(policy)
  /\ \/ verdict = Pending
     \/ verdict.result \in {"passed", "stale"} /\ IsPolicy(verdict.current)

\* The treatment per tool that both engines keep: deletion runs only with two
\* approvals, and a restart, a provisioning or a change in production never
\* without one, whatever an administrator's bundle says.  The docs also ask for
\* an approval of a scaling out of bounds outside production
\* (risk-policy-model.md:42); the code does not, so that row is not part of it.
MeetsMinimum(p) ==
  /\ intent.tool = "delete_resource" => p.route = "CRITICAL_TWO_STEP" \/ p.disposition = "BLOCK"
  /\ \/ intent.tool \in {"restart_service", "provision_resource"}
     \/ intent.tool = "scale_service" /\ intent.environment = "production"
     => p.disposition # "ALLOW"

\* Both the stored evaluation and the one gate 3 passes on meet it.
MinimumTreatment ==
  /\ policy # None => MeetsMinimum(policy)
  /\ verdict # Pending => MeetsMinimum(verdict.current)

\* What passes gate 3 runs with no less human control than the policy in force
\* demands: an automatic approval stands only while the bundle still allows.
RouteStillEnough ==
  verdict.result = "passed" =>
    RouteRank[verdict.current.route] <= RouteRank[policy.route]

\* The one row of the docs' table that evaluate_risk leaves out: scaling beyond
\* the bounds is at least HIGH outside production too.
ScalesOutOfBounds(i) ==
  i.tool = "scale_service" /\ i.environment # "production" /\ i.replicas = "outside"

\* A factor adds one band and no more, production lifts a mutation to HIGH, and
\* CRITICAL is the end: the closed form of evaluate_risk in every context, for
\* every intent on which the code and the docs' table of bands agree.
BandIsReference ==
  ~ScalesOutOfBounds(intent) =>
  \A degraded \in BOOLEAN, flags \in 0..MaxPolicyFlags + 1 :
    LET lifted == intent.tool \in MutatingTools /\ intent.environment = "production"
        least  == IF lifted /\ ToolMinimumBand[intent.tool] < High
                  THEN High ELSE ToolMinimumBand[intent.tool]
        count  == (IF intent.cost = "high" THEN 1 ELSE 0)
                  + (IF degraded THEN 1 ELSE 0)
                  + (IF flags > MaxPolicyFlags THEN MaxPolicyFlags ELSE flags)
    IN  EvaluateRisk(intent, [degraded |-> degraded, flags |-> flags])
          = IF least + count > Critical THEN Critical ELSE least + count
=============================================================================
