------------------------- MODULE PolicyReviewProofs -------------------------
(***************************************************************************)
(* What the two engines guarantee for every set of rules, whatever words,  *)
(* roles and TTLs an administrator's bundle holds.                         *)
(***************************************************************************)
EXTENDS PolicyReview, TLAPS

-----------------------------------------------------------------------------
(* Risk *)

\* _raise_band returns a band that is not below the one it is given.
LEMMA RaiseBandBounds ==
  ASSUME NEW band \in Bands, NEW target \in Int
  PROVE  RaiseBand(band, target) \in Bands /\ RaiseBand(band, target) >= band
BY DEF RaiseBand, Bands, Low, Critical

\* A band raised by n, where CRITICAL is the end.
Raise(band, n) == IF band + n > Critical THEN Critical ELSE band + n

LEMMA RaiseOnce ==
  ASSUME NEW band \in Bands, NEW n \in Nat
  PROVE  /\ RaiseBand(band, band + 1) = Raise(band, 1)
         /\ Raise(band, n) \in Bands /\ Raise(band, n) >= band
         /\ Raise(Raise(band, n), 1) = Raise(band, n + 1)
BY DEF RaiseBand, Raise, Bands, Low, Critical

\* The loop over the policy flags raises by their number: its recursion over at
\* most five flags has a solution, and each round adds one band.
LEMMA RaiseForFlagsIs ==
  ASSUME NEW band \in Bands, NEW flags \in Nat
  PROVE  RaiseForFlags(band, flags) =
           Raise(band, IF flags < MaxPolicyFlags THEN flags ELSE MaxPolicyFlags)
<1> DEFINE Up(b) == RaiseBand(b, b + 1)
           Round(f, n) == IF n = 0 THEN band ELSE RaiseBand(f[n - 1], f[n - 1] + 1)
           Raised == CHOOSE f : f = [n \in 0..MaxPolicyFlags |-> Round(f, n)]
           solution == [n \in 0..5 |->
             IF n = 0 THEN band ELSE IF n = 1 THEN Up(band)
             ELSE IF n = 2 THEN Up(Up(band)) ELSE IF n = 3 THEN Up(Up(Up(band)))
             ELSE IF n = 4 THEN Up(Up(Up(Up(band)))) ELSE Up(Up(Up(Up(Up(band)))))]
<1>1. solution = [n \in 0..MaxPolicyFlags |-> Round(solution, n)]
  <2>1. ASSUME NEW n \in 0..5 PROVE solution[n] = Round(solution, n)
    <3>1. n = 0 \/ n = 1 \/ n = 2 \/ n = 3 \/ n = 4 \/ n = 5
      OBVIOUS
    <3> HIDE DEF Up
    <3>2. /\ solution[0] = band /\ solution[1] = Up(solution[0])
          /\ solution[2] = Up(solution[1]) /\ solution[3] = Up(solution[2])
          /\ solution[4] = Up(solution[3]) /\ solution[5] = Up(solution[4])
      OBVIOUS
    <3> HIDE DEF solution
    <3> QED BY <3>1, <3>2 DEF Up
  <2>2. MaxPolicyFlags = 5
    BY DEF MaxPolicyFlags
  <2>3. solution = [n \in 0..5 |-> solution[n]]
    OBVIOUS
  <2> HIDE DEF solution, Round
  <2> QED BY <2>1, <2>2, <2>3
<1>2. Raised = [n \in 0..MaxPolicyFlags |-> Round(Raised, n)]
  <2> HIDE DEF Round, solution
  <2> QED BY <1>1
<1>3. /\ Raised[0] = band
      /\ \A n \in 1..5 : Raised[n] = RaiseBand(Raised[n - 1], Raised[n - 1] + 1)
  <2> HIDE DEF Raised
  <2> QED BY <1>2 DEF MaxPolicyFlags
<1> HIDE DEF Raised
<1>4. ASSUME NEW n \in 0..4, Raised[n] = Raise(band, n)
      PROVE  Raised[n + 1] = Raise(band, n + 1)
  <2>1. Raised[n + 1] = RaiseBand(Raised[n], Raised[n] + 1)
    <3>1. n + 1 \in 1..5 /\ (n + 1) - 1 = n
      OBVIOUS
    <3> QED BY <1>3, <3>1
  <2>2. Raised[n] \in Bands
    BY <1>4, RaiseOnce
  <2>3. Raised[n + 1] = Raise(Raised[n], 1)
    BY <2>1, <2>2, RaiseOnce
  <2>4. Raise(Raise(band, n), 1) = Raise(band, n + 1)
    BY RaiseOnce
  <2> QED BY <1>4, <2>3, <2>4
<1>5. Raised[0] = Raise(band, 0)
  BY <1>3 DEF Raise, Bands, Low, Critical
<1>6. Raised[1] = Raise(band, 1)
  BY <1>4, <1>5
<1>7. Raised[2] = Raise(band, 2)
  BY <1>4, <1>6
<1>8. Raised[3] = Raise(band, 3)
  BY <1>4, <1>7
<1>9. Raised[4] = Raise(band, 4)
  BY <1>4, <1>8
<1>10. Raised[5] = Raise(band, 5)
  BY <1>4, <1>9
<1>11. \A n \in 0..5 : Raised[n] = Raise(band, n)
  BY <1>5, <1>6, <1>7, <1>8, <1>9, <1>10
<1>12. RaiseForFlags(band, flags) = Raised[IF flags < MaxPolicyFlags THEN flags ELSE MaxPolicyFlags]
  BY DEF RaiseForFlags, Raised
<1>13. (IF flags < MaxPolicyFlags THEN flags ELSE MaxPolicyFlags) \in 0..5
  BY DEF MaxPolicyFlags
<1> QED BY <1>11, <1>12, <1>13

LEMMA RaiseForFlagsBounds ==
  ASSUME NEW band \in Bands, NEW flags \in Nat
  PROVE  RaiseForFlags(band, flags) \in Bands /\ RaiseForFlags(band, flags) >= band
<1>1. (IF flags < MaxPolicyFlags THEN flags ELSE MaxPolicyFlags) \in Nat
  BY DEF MaxPolicyFlags
<1> QED BY <1>1, RaiseForFlagsIs, RaiseOnce

\* Whatever the context, evaluate_risk returns a band that is not below the
\* tool's minimum, nor below HIGH for a mutation in production.
THEOREM RiskNeverBelowMinimum ==
  ASSUME NEW i \in Intents, NEW context, context.flags \in Nat
  PROVE  /\ EvaluateRisk(i, context) \in Bands
         /\ EvaluateRisk(i, context) >= ToolMinimumBand[i.tool]
         /\ i.environment = "production" /\ i.tool \in MutatingTools
              => EvaluateRisk(i, context) >= High
<1> DEFINE least == ToolMinimumBand[i.tool]
           b1 == EnvironmentBand(i)
           b2 == IF i.cost = "high" THEN RaiseBand(b1, b1 + 1) ELSE b1
           b3 == IF context.degraded THEN RaiseBand(b2, b2 + 1) ELSE b2
<1>1. i.tool \in Tools
  BY DEF Intents
<1>2. least \in Bands
  BY <1>1 DEF Tools, ToolMinimumBand, Bands, Low, Medium, High, Critical
<1>3. /\ b1 \in Bands /\ b1 >= least
      /\ i.environment = "production" /\ i.tool \in MutatingTools => b1 >= High
  BY <1>2 DEF EnvironmentBand, RaiseBand, Bands, Low, High, Critical
<1> HIDE DEF b1
<1>4. b2 \in Bands /\ b2 >= b1
  <2>1. b1 + 1 \in Int /\ b1 >= b1
    BY <1>3 DEF Bands, Low, Critical
  <2> QED BY <1>3, <2>1, RaiseBandBounds
<1> HIDE DEF b2
<1>5. b3 \in Bands /\ b3 >= b2
  <2>1. b2 + 1 \in Int /\ b2 >= b2
    BY <1>4 DEF Bands, Low, Critical
  <2> QED BY <1>4, <2>1, RaiseBandBounds
<1>6. EvaluateRisk(i, context) = RaiseForFlags(b3, context.flags)
  BY DEF EvaluateRisk, b1, b2
<1> HIDE DEF b3
<1>7. RaiseForFlags(b3, context.flags) \in Bands /\ RaiseForFlags(b3, context.flags) >= b3
  BY <1>5, RaiseForFlagsBounds
<1> QED BY <1>2, <1>3, <1>4, <1>5, <1>6, <1>7 DEF Bands, Low, High, Critical

\* evaluate_risk in closed form, for every intent and every context: one band
\* for each factor on top of the least band, up to CRITICAL.
LEMMA RiskIsReference ==
  ASSUME NEW i \in Intents, NEW degraded \in BOOLEAN, NEW flags \in Nat
  PROVE  LET least == IF /\ i.tool \in MutatingTools /\ i.environment = "production"
                         /\ ToolMinimumBand[i.tool] < High
                      THEN High ELSE ToolMinimumBand[i.tool]
             count == (IF i.cost = "high" THEN 1 ELSE 0)
                      + (IF degraded THEN 1 ELSE 0)
                      + (IF flags > MaxPolicyFlags THEN MaxPolicyFlags ELSE flags)
         IN  EvaluateRisk(i, [degraded |-> degraded, flags |-> flags]) = Raise(least, count)
<1> DEFINE least == IF /\ i.tool \in MutatingTools /\ i.environment = "production"
                       /\ ToolMinimumBand[i.tool] < High
                    THEN High ELSE ToolMinimumBand[i.tool]
           cost == IF i.cost = "high" THEN 1 ELSE 0
           health == IF degraded THEN 1 ELSE 0
           extra == IF flags > MaxPolicyFlags THEN MaxPolicyFlags ELSE flags
           b1 == EnvironmentBand(i)
           b2 == IF i.cost = "high" THEN RaiseBand(b1, b1 + 1) ELSE b1
           b3 == IF degraded THEN RaiseBand(b2, b2 + 1) ELSE b2
<1>1. ToolMinimumBand[i.tool] \in Bands
  BY DEF Intents, Tools, ToolMinimumBand, Bands, Low, Medium, High, Critical
<1>2. b1 = least /\ least \in Bands
  BY <1>1 DEF EnvironmentBand, RaiseBand, Bands, Low, High, Critical
<1>3. cost \in 0..1 /\ health \in 0..1 /\ extra \in 0..5
  BY DEF MaxPolicyFlags
<1> HIDE DEF b1, least
<1>4. b2 = Raise(b1, cost) /\ b2 \in Bands
  BY <1>2 DEF RaiseBand, Raise, Bands, Low, Critical
<1> HIDE DEF b2
<1>5. b3 = Raise(b2, health) /\ b3 \in Bands
  BY <1>4 DEF RaiseBand, Raise, Bands, Low, Critical
<1>6. EvaluateRisk(i, [degraded |-> degraded, flags |-> flags]) = RaiseForFlags(b3, flags)
  BY DEF EvaluateRisk, b1, b2
<1> HIDE DEF b3
<1>7. RaiseForFlags(b3, flags) = Raise(b3, extra)
  <2>1. (IF flags < MaxPolicyFlags THEN flags ELSE MaxPolicyFlags) = extra
    BY DEF MaxPolicyFlags
  <2> QED BY <1>5, <2>1, RaiseForFlagsIs
<1> HIDE DEF cost, health, extra
<1>8. Raise(b3, extra) = Raise(least, cost + health + extra)
  BY <1>2, <1>3, <1>4, <1>5 DEF Raise, Bands, Low, Critical
<1>9. EvaluateRisk(i, [degraded |-> degraded, flags |-> flags])
        = Raise(least, cost + health + extra)
  BY <1>6, <1>7, <1>8
<1> QED BY <1>9 DEF least, cost, health, extra

-----------------------------------------------------------------------------
(* Policy *)

\* Both evaluations of an intent have a band and meet the tool's minimum.
LEMMA BandOfIntent ==
  ASSUME NEW i \in Intents
  PROVE  /\ Band(i) \in Bands
         /\ i.tool = "delete_resource" => Band(i) = Critical
         /\ \/ i.tool \in {"restart_service", "provision_resource"}
            \/ i.tool = "scale_service" /\ i.environment = "production"
            => Band(i) >= High
<1>1. /\ Band(i) \in Bands /\ Band(i) >= ToolMinimumBand[i.tool]
      /\ i.environment = "production" /\ i.tool \in MutatingTools => Band(i) >= High
  <2>1. NoContext.flags \in Nat
    BY DEF NoContext
  <2> QED BY <2>1, RiskNeverBelowMinimum DEF Band
<1> QED BY <1>1 DEF ToolMinimumBand, MutatingTools, Bands, Low, Medium, High, Critical

\* The roles of an evaluation are a tuple, and an approval has at least one.
LEMMA RolesForRule ==
  ASSUME NEW band, NEW disposition, NEW named, IsRoles(named)
  PROVE  /\ IsRoles(RolesFor(band, disposition, named))
         /\ disposition = "REQUIRE_APPROVAL" => Len(RolesFor(band, disposition, named)) > 0
<1>1. IsRoles(CriticalRoles) /\ Len(CriticalRoles) > 0
  BY DEF CriticalRoles, IsRoles
<1>2. IsRoles(SingleApprovalRoles) /\ Len(SingleApprovalRoles) > 0
  BY DEF SingleApprovalRoles, IsRoles
<1>3. CASE named # << >>
  BY <1>3 DEF RolesFor, IsRoles
<1>4. CASE named = << >> /\ band = Critical
  BY <1>1, <1>4 DEF RolesFor
<1>5. CASE named = << >> /\ band # Critical
  BY <1>2, <1>5 DEF RolesFor
<1> QED BY <1>3, <1>4, <1>5

\* evaluate_policy returns the shape every handler relies on, for any rule and
\* any band.
LEMMA EvaluationShape ==
  ASSUME NEW i \in Intents, NEW r \in Rules
  PROVE  IsPolicy(Evaluate(i, r))
<1> DEFINE fields == ToolRule(r, i.environment)
           ttl == Lookup(fields, "ttl", BundleTtl)
           named == Lookup(fields, "roles", << >>)
           d == Treatment(Band(i), Lookup(fields, "disposition", "REQUIRE_APPROVAL"))
<1>0. Band(i) \in Bands
  BY BandOfIntent
<1>1. IsPolicy(Blocked)
  BY DEF IsPolicy, IsRoles, Blocked, Dispositions, Routes
<1>2. CASE r = None
  BY <1>1, <1>2 DEF Evaluate, EvaluatePolicy
<1>3. CASE r # None
  <2>1. ttl \in Int /\ IsRoles(named)
    <3>1. i.environment \in Environments
      BY DEF Intents
    <3> QED BY <1>3, <3>1, RulesAssumption DEF IsRule
  <2>2. CASE ttl < 1 \/ ttl > MaxApprovalTtl \/ d = "UNKNOWN"
    BY <1>1, <1>3, <2>2 DEF Evaluate, EvaluatePolicy
  <2>3. CASE ~(ttl < 1 \/ ttl > MaxApprovalTtl \/ d = "UNKNOWN")
    <3>1. d \in Dispositions
      BY <2>3, Zenon DEF Treatment, Dispositions
    <3>2. ttl \in Nat \ {0}
      BY <2>1, <2>3
    <3>3. /\ IsRoles(RolesFor(Band(i), d, named))
          /\ d = "REQUIRE_APPROVAL" => Len(RolesFor(Band(i), d, named)) > 0
      BY <2>1, RolesForRule
    <3> DEFINE p == Evaluate(i, r)
    <3>5. /\ p.disposition = d
          /\ p.route = RouteFor(Band(i), d)
          /\ p.roles = RolesFor(Band(i), d, named)
          /\ p.ttl = IF d = "REQUIRE_APPROVAL" THEN ttl ELSE None
      BY <1>3, <2>3 DEF Evaluate, EvaluatePolicy
    <3> HIDE DEF p, d, ttl, named
    <3>6. IsPolicy(p)
      BY <3>1, <3>2, <3>3, <3>5 DEF IsPolicy, RouteFor, Routes
    <3> QED BY <3>6 DEF p
  <2> QED BY <2>2, <2>3
<1> QED BY <1>2, <1>3

\* Deletion runs only with two approvals, and what is HIGH never without one.
LEMMA EvaluationMinimum ==
  ASSUME NEW i \in Intents, NEW r \in Rules
  PROVE  /\ i.tool = "delete_resource" =>
               \/ Evaluate(i, r).route = "CRITICAL_TWO_STEP"
               \/ Evaluate(i, r).disposition = "BLOCK"
         /\ \/ i.tool \in {"restart_service", "provision_resource"}
            \/ i.tool = "scale_service" /\ i.environment = "production"
            => Evaluate(i, r).disposition # "ALLOW"
<1> DEFINE p == Evaluate(i, r)
           raw == Lookup(ToolRule(r, i.environment), "disposition", "REQUIRE_APPROVAL")
           d == Treatment(Band(i), raw)
<1>1. \/ p.disposition = "BLOCK"
      \/ p.disposition = d /\ p.route = RouteFor(Band(i), d) /\ d # "UNKNOWN"
  BY DEF Evaluate, EvaluatePolicy, Blocked
<1>2. Band(i) \in Bands /\ Band(i) >= High => d \in {"BLOCK", "REQUIRE_APPROVAL"}
  BY DEF Treatment, Bands, Low, High, Critical
<1>3. Band(i) = Critical /\ d = "REQUIRE_APPROVAL" => RouteFor(Band(i), d) = "CRITICAL_TWO_STEP"
  BY DEF RouteFor
<1> HIDE DEF p, d
<1>4. /\ i.tool = "delete_resource" => p.route = "CRITICAL_TWO_STEP" \/ p.disposition = "BLOCK"
      /\ \/ i.tool \in {"restart_service", "provision_resource"}
         \/ i.tool = "scale_service" /\ i.environment = "production"
         => p.disposition # "ALLOW"
  <2>1. Critical >= High
    BY DEF Critical, High
  <2> QED BY <1>1, <1>2, <1>3, <2>1, BandOfIntent
<1> QED BY <1>4 DEF p

-----------------------------------------------------------------------------
(* The specification *)

\* What gate 3 computed is an evaluation of the intent under some rule.
Computed == verdict # Pending => \E r \in Rules : verdict.current = Evaluate(intent, r)

\* The inductive invariant: the stored policy and the one gate 3 judged are
\* evaluations of this intent, so the lemmas above speak of them.
IInv ==
  /\ intent \in Intents
  /\ rule \in Rules
  /\ policy # None => \E r \in Rules : policy = Evaluate(intent, r)
  /\ Computed
  /\ verdict # Pending => verdict.result \in {"passed", "stale"}
  /\ verdict.result = "passed" => policy # None /\ PolicyHolds(verdict.current, policy)

\* The inductive invariant holds of every behaviour of the two evaluations.
THEOREM InductiveInvariant == Spec => []IInv
<1>1. Init => IInv
  BY DEF Init, IInv, Computed, Pending
<1>2. IInv /\ [Next]_vars => IInv'
  <2> SUFFICES ASSUME IInv, [Next]_vars PROVE IInv'
    OBVIOUS
  <2>1. CASE CreateIntent
    BY <2>1 DEF CreateIntent, IInv, Computed
  <2>2. ASSUME NEW r \in Rules, ActivatePolicyBundle(r) PROVE IInv'
    BY <2>2 DEF ActivatePolicyBundle, IInv, Computed
  <2>3. CASE Revalidate
    <3> DEFINE current == Evaluate(intent, rule)
    <3>1. /\ verdict'.current = current /\ verdict'.result \in {"passed", "stale"}
          /\ verdict'.result = "passed" => policy # None /\ PolicyHolds(current, policy)
      <4> HIDE DEF current
      <4> QED BY <2>3 DEF Revalidate, current
    <3>2. UNCHANGED <<intent, rule, policy>>
      BY <2>3 DEF Revalidate
    <3> QED BY <3>1, <3>2 DEF IInv, Computed
  <2>4. CASE UNCHANGED vars
    BY <2>4 DEF vars, IInv, Computed
  <2> QED BY <2>1, <2>2, <2>3, <2>4 DEF Next
<1> QED BY <1>1, <1>2, PTL DEF Spec

\* The type invariant, for every set of rules.
THEOREM TypeCorrect == Spec => []TypeOK
<1>1. IInv => TypeOK
  BY EvaluationShape DEF IInv, Computed, TypeOK
<1> QED BY <1>1, InductiveInvariant, PTL

\* No bundle can lower the treatment of a tool, at creation or at gate 3.
THEOREM MinimumHolds == Spec => []MinimumTreatment
<1>1. IInv => MinimumTreatment
  BY EvaluationMinimum DEF IInv, Computed, MinimumTreatment, MeetsMinimum
<1> QED BY <1>1, InductiveInvariant, PTL

\* Gate 3 lets through no stricter route than the one that was satisfied,
\* although a policy that became stricter may still pass when it allows.
LEMMA NoStricterRoute ==
  ASSUME NEW current, NEW original, IsPolicy(current), IsPolicy(original),
         PolicyHolds(current, original)
  PROVE  RouteRank[current.route] <= RouteRank[original.route]
<1>1. current.route \in Routes /\ original.route \in Routes
  BY DEF IsPolicy
<1>2. RouteRank[current.route] \in 0..2 /\ RouteRank[original.route] \in 0..2
  BY <1>1 DEF Routes, RouteRank
<1>3. CASE current.disposition = "ALLOW"
  <2>1. current.route = "NONE"
    BY <1>3 DEF IsPolicy
  <2> QED BY <1>2, <2>1 DEF RouteRank
<1>4. CASE current.disposition # "ALLOW"
  <2>1. ~(RouteRank[current.route] > RouteRank[original.route])
    BY <1>4 DEF PolicyHolds, PolicyStricter
  <2> QED BY <1>2, <2>1
<1> QED BY <1>3, <1>4

\* What passes gate 3 has at least the human control the bundle demands now.
THEOREM RouteIsEnough == Spec => []RouteStillEnough
<1>1. IInv => RouteStillEnough
  <2> SUFFICES ASSUME IInv, verdict.result = "passed"
               PROVE  RouteRank[verdict.current.route] <= RouteRank[policy.route]
    BY DEF RouteStillEnough
  <2>1. verdict # Pending
    BY DEF Pending
  <2>2. IsPolicy(verdict.current) /\ IsPolicy(policy) /\ PolicyHolds(verdict.current, policy)
    BY <2>1, EvaluationShape DEF IInv, Computed
  <2> QED BY <2>2, NoStricterRoute
<1> QED BY <1>1, InductiveInvariant, PTL

\* evaluate_risk never differs from its closed form where the docs agree.
THEOREM BandsAreReference == Spec => []BandIsReference
<1>1. intent \in Intents => BandIsReference
  <2> SUFFICES ASSUME intent \in Intents,
                      NEW degraded \in BOOLEAN, NEW flags \in 0..MaxPolicyFlags + 1
               PROVE  LET lifted == intent.tool \in MutatingTools
                                    /\ intent.environment = "production"
                          least == IF lifted /\ ToolMinimumBand[intent.tool] < High
                                   THEN High ELSE ToolMinimumBand[intent.tool]
                          count == (IF intent.cost = "high" THEN 1 ELSE 0)
                                   + (IF degraded THEN 1 ELSE 0)
                                   + (IF flags > MaxPolicyFlags THEN MaxPolicyFlags ELSE flags)
                      IN  EvaluateRisk(intent, [degraded |-> degraded, flags |-> flags])
                            = IF least + count > Critical THEN Critical ELSE least + count
    BY DEF BandIsReference
  <2>1. flags \in Nat
    BY DEF MaxPolicyFlags
  <2> QED BY <2>1, RiskIsReference DEF Raise
<1>2. IInv => BandIsReference
  BY <1>1 DEF IInv
<1> QED BY <1>2, InductiveInvariant, PTL
=============================================================================
