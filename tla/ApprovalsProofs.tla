--------------------------- MODULE ApprovalsProofs ---------------------------
(***************************************************************************)
(* Proofs about module Approvals, for any set of people, policies and      *)
(* grants and any clock bound.  The argument is one inductive invariant,   *)
(* ApprovalsInv: its parts support one another, and the properties of the  *)
(* runs are conjuncts of it.                                               *)
(***************************************************************************)
EXTENDS Approvals, FiniteSetTheorems, TLAPS

TransitionRows == [from: IntentState \cup {None}, to: IntentState]
OutboxRows     == [topic: Topics, to: IntentState \cup {None}]

------------------------------------------------------------------------------
(* Types *)

LEMMA MessageType ==
    ASSUME NEW topic \in Topics, NEW to \in IntentState \cup {None}
    PROVE  Message(topic, to) \in OutboxRows
  BY DEF Message, OutboxRows

\* The two ways a handler records transitions keep the four columns they
\* write well typed.
LEMMA RecordTransitionType ==
    ASSUME ApprovalsTypeOK,
           NEW target \in IntentState, NEW topic \in Topics,
           RecordTransition(target, topic)
    PROVE  /\ state' \in IntentState \cup {None}
           /\ version' \in Nat
           /\ transitions' \in Seq(TransitionRows)
           /\ outbox' \in Seq(OutboxRows)
<1>1. TransitionRow(state, target) \in TransitionRows
  BY DEF ApprovalsTypeOK, TransitionRow, TransitionRows
<1>2. Message(topic, target) \in OutboxRows
  BY DEF Message, OutboxRows
<1>3. transitions \in Seq(TransitionRows) /\ outbox \in Seq(OutboxRows)
  BY DEF ApprovalsTypeOK, TransitionRows, OutboxRows
<1> QED
  BY <1>1, <1>2, <1>3 DEF RecordTransition, ApprovalsTypeOK

LEMMA RecordTwoTransitionsType ==
    ASSUME ApprovalsTypeOK,
           NEW middle \in IntentState, NEW target \in IntentState, NEW topic \in Topics,
           RecordTwoTransitions(middle, target, topic)
    PROVE  /\ state' \in IntentState \cup {None}
           /\ version' \in Nat
           /\ transitions' \in Seq(TransitionRows)
           /\ outbox' \in Seq(OutboxRows)
<1>1. TransitionRow(state, middle) \in TransitionRows
      /\ TransitionRow(middle, target) \in TransitionRows
  BY DEF ApprovalsTypeOK, TransitionRow, TransitionRows
<1>2. Message(topic, middle) \in OutboxRows /\ Message(topic, target) \in OutboxRows
  BY DEF Message, OutboxRows
<1>3. transitions \in Seq(TransitionRows) /\ outbox \in Seq(OutboxRows)
  BY DEF ApprovalsTypeOK, TransitionRows, OutboxRows
<1> QED
  BY <1>1, <1>2, <1>3 DEF RecordTwoTransitions, ApprovalsTypeOK

\* RouteState only yields states of the lifecycle.
LEMMA RouteStateType ==
    ASSUME NEW p \in Policies
    PROVE  /\ IsPolicy(p) /\ p # None
           /\ RouteState(p) \in {"AUTO_APPROVED", "PENDING_APPROVAL_1", "BLOCKED"}
  BY PoliciesAssumption DEF RouteState, IsPolicy, Dispositions

LEMMA CreateIntentType ==
    ASSUME ApprovalsTypeOK, NEW actor \in Actors, CreateIntent(actor)
    PROVE  ApprovalsTypeOK'
<1> DEFINE p == activePolicy
           r == RouteState(activePolicy)
<1>1. p \in Policies
  BY DEF ApprovalsTypeOK
<1>2. IsPolicy(p) /\ r \in IntentState
  BY <1>1, RouteStateType DEF IntentState
<1>3. expiresAt' \in Nat \cup {None}
  BY <1>2 DEF CreateIntent, IsPolicy, ApprovalsTypeOK
<1>4. transitions' \in Seq([from: IntentState \cup {None}, to: IntentState])
  <2> DEFINE T == [from: IntentState \cup {None}, to: IntentState]
  <2>1. /\ TransitionRow(None, "REQUESTED") \in T
        /\ TransitionRow("REQUESTED", "RISK_EVALUATED") \in T
        /\ TransitionRow("RISK_EVALUATED", "POLICY_EVALUATED") \in T
        /\ TransitionRow("POLICY_EVALUATED", r) \in T
    BY <1>2 DEF TransitionRow, IntentState
  <2>2. transitions' = <<TransitionRow(None, "REQUESTED"),
                         TransitionRow("REQUESTED", "RISK_EVALUATED"),
                         TransitionRow("RISK_EVALUATED", "POLICY_EVALUATED"),
                         TransitionRow("POLICY_EVALUATED", r)>>
    BY DEF CreateIntent, CreationTransitions
  <2> HIDE DEF T
  <2>3. transitions' \in Seq(T)
    BY <2>1, <2>2
  <2> QED
    BY <2>3 DEF T
<1>5. outbox' \in Seq([topic: Topics, to: IntentState \cup {None}])
  <2>1. /\ Message("intent.created", "REQUESTED") \in OutboxRows
        /\ Message("risk.evaluated", None) \in OutboxRows
        /\ Message("policy.evaluated", None) \in OutboxRows
        /\ Message("intent.transitioned", "RISK_EVALUATED") \in OutboxRows
        /\ Message("intent.transitioned", "POLICY_EVALUATED") \in OutboxRows
        /\ Message("intent.transitioned", r) \in OutboxRows
    <3>1. {"REQUESTED", "RISK_EVALUATED", "POLICY_EVALUATED", r, None}
              \subseteq IntentState \cup {None}
      BY <1>2 DEF IntentState
    <3>2. {"intent.created", "risk.evaluated", "policy.evaluated", "intent.transitioned"}
              \subseteq Topics
      BY DEF Topics
    <3> HIDE DEF r
    <3> QED
      BY <3>1, <3>2, MessageType, Zenon
  <2>2. outbox' = <<Message("intent.created", "REQUESTED"),
                    Message("risk.evaluated", None),
                    Message("policy.evaluated", None),
                    Message("intent.transitioned", "RISK_EVALUATED"),
                    Message("intent.transitioned", "POLICY_EVALUATED"),
                    Message("intent.transitioned", r)>>
    BY DEF CreateIntent, CreationMessages
  <2>3. outbox' \in Seq(OutboxRows)
    BY <2>1, <2>2
  <2> QED
    BY <2>3 DEF OutboxRows
<1>6. /\ state' \in IntentState \cup {None}
      /\ version' \in Nat
      /\ requester' \in Actors \cup {None}
      /\ policy' \in Policies \cup {None}
  BY <1>1, <1>2 DEF CreateIntent
<1>7. UNCHANGED <<decisions, assignments, activePolicy, now>>
  BY DEF CreateIntent, adminVars
<1> QED
  BY <1>3, <1>4, <1>5, <1>6, <1>7 DEF ApprovalsTypeOK

\* Every operation keeps the rows well typed.
LEMMA TypeStep ==
    ASSUME ApprovalsTypeOK, [ApprovalsNext]_approvalVars
    PROVE  ApprovalsTypeOK'
<1>0. "intent.transitioned" \in Topics
  BY DEF Topics
<1>1. ASSUME NEW actor \in Actors, CreateIntent(actor)
      PROVE  ApprovalsTypeOK'
  BY <1>1, CreateIntentType
<1>2. ASSUME state # None, NEW cmd \in DecisionCommands, Decide(cmd)
      PROVE  ApprovalsTypeOK'
  <2>1. /\ state' \in IntentState \cup {None}
        /\ version' \in Nat
        /\ transitions' \in Seq(TransitionRows)
        /\ outbox' \in Seq(OutboxRows)
    <3>1. {"REJECTED", "APPROVED", "APPROVED_BY_LEVEL_1", "PENDING_APPROVAL_2"}
              \subseteq IntentState
      BY DEF IntentState
    <3>2. \/ RecordTransition("REJECTED", "intent.transitioned")
          \/ RecordTransition("APPROVED", "intent.transitioned")
          \/ RecordTwoTransitions("APPROVED_BY_LEVEL_1", "PENDING_APPROVAL_2",
                                  "intent.transitioned")
      BY <1>2 DEF Decide, ResolveTarget
    <3>3. CASE RecordTransition("REJECTED", "intent.transitioned")
      BY <1>0, <3>1, <3>3, RecordTransitionType, Zenon
    <3>4. CASE RecordTransition("APPROVED", "intent.transitioned")
      BY <1>0, <3>1, <3>4, RecordTransitionType, Zenon
    <3>5. CASE RecordTwoTransitions("APPROVED_BY_LEVEL_1", "PENDING_APPROVAL_2",
                                    "intent.transitioned")
      BY <1>0, <3>1, <3>5, RecordTwoTransitionsType, Zenon
    <3> QED
      BY <3>2, <3>3, <3>4, <3>5
  <2>2. DecisionRow(cmd) \in DecisionRows
    BY <1>2 DEF DecisionRow, DecisionRows, DecisionCommands, ApprovalsTypeOK
  <2>3. decisions' = decisions \cup {DecisionRow(cmd)}
        /\ UNCHANGED <<requester, expiresAt, policy, assignments, activePolicy, now>>
    BY <1>2 DEF Decide, adminVars
  <2> QED
    BY <2>1, <2>2, <2>3 DEF ApprovalsTypeOK, TransitionRows, OutboxRows
<1>3. ASSUME NEW cmd \in DecisionCommands, DecideExpired(cmd)
      PROVE  ApprovalsTypeOK'
  <2>1. RecordTransition("EXPIRED", "intent.transitioned") /\ "EXPIRED" \in IntentState
    BY <1>3 DEF DecideExpired, IntentState
  <2>2. UNCHANGED <<requester, expiresAt, policy, decisions, assignments,
                    activePolicy, now>>
    BY <1>3 DEF DecideExpired, adminVars
  <2>3. /\ state' \in IntentState \cup {None}
        /\ version' \in Nat
        /\ transitions' \in Seq(TransitionRows)
        /\ outbox' \in Seq(OutboxRows)
    BY <1>0, <2>1, RecordTransitionType, Zenon
  <2> QED
    BY <2>2, <2>3 DEF ApprovalsTypeOK, TransitionRows, OutboxRows
<1>4. ASSUME NEW actor \in Actors, NEW expected \in 1..version, Cancel(actor, expected)
      PROVE  ApprovalsTypeOK'
  <2>1. RecordTransition("CANCELLED", "intent.transitioned") /\ "CANCELLED" \in IntentState
    BY <1>4 DEF Cancel, IntentState
  <2>2. UNCHANGED <<requester, expiresAt, policy, decisions, assignments,
                    activePolicy, now>>
    BY <1>4 DEF Cancel, adminVars
  <2>3. /\ state' \in IntentState \cup {None}
        /\ version' \in Nat
        /\ transitions' \in Seq(TransitionRows)
        /\ outbox' \in Seq(OutboxRows)
    BY <1>0, <2>1, RecordTransitionType, Zenon
  <2> QED
    BY <2>2, <2>3 DEF ApprovalsTypeOK, TransitionRows, OutboxRows
<1>5. ASSUME Administer
      PROVE  ApprovalsTypeOK'
  <2>1. UNCHANGED intentVars /\ now' = now
    BY <1>5 DEF Administer, GrantRole, RevokeRole, ActivatePolicyBundle
  <2>2. assignments' \subseteq Assignable /\ activePolicy' \in Policies
    BY <1>5 DEF Administer, GrantRole, RevokeRole, ActivatePolicyBundle, Assignable,
                ApprovalsTypeOK
  <2> QED
    BY <2>1, <2>2 DEF intentVars, ApprovalsTypeOK
<1>6. ASSUME Tick
      PROVE  ApprovalsTypeOK'
  BY <1>6 DEF Tick, intentVars, adminVars, ApprovalsTypeOK
<1>7. ASSUME UNCHANGED approvalVars
      PROVE  ApprovalsTypeOK'
  BY <1>7 DEF approvalVars, intentVars, adminVars, ApprovalsTypeOK
<1> QED
  BY <1>1, <1>2, <1>3, <1>4, <1>5, <1>6, <1>7 DEF ApprovalsNext, Command

LEMMA TypeInit ==
    ASSUME ApprovalsInit
    PROVE  ApprovalsTypeOK
  BY DEF ApprovalsInit, ApprovalsTypeOK, Assignable

\* The rows of a revision keep their types whatever the API and the
\* administrators do: every state written is one of the enum's.
THEOREM TypeCorrect == ApprovalsSpec => []ApprovalsTypeOK
<1>1. ApprovalsInit => ApprovalsTypeOK
  BY TypeInit
<1>2. ApprovalsTypeOK /\ [ApprovalsNext]_approvalVars => ApprovalsTypeOK'
  BY TypeStep
<1> QED
  BY <1>1, <1>2, PTL DEF ApprovalsSpec

------------------------------------------------------------------------------
(* The inductive invariant *)

\* A recorded transition extends the walk by one legal edge.
LEMMA WalkOneStep ==
    ASSUME ApprovalsTypeOK, LegalWalk, state # None,
           NEW target \in IntentState, NEW topic \in Topics,
           RecordTransition(target, topic)
    PROVE  LegalWalk'
<1>1. /\ transitions \in Seq(TransitionRows)
      /\ version = Len(transitions) /\ version \in Nat /\ version > 0
      /\ transitions' = Append(transitions, TransitionRow(state, target))
      /\ version' = version + 1
      /\ state' = target
      /\ IsLegal(state, target)
  BY DEF ApprovalsTypeOK, LegalWalk, RecordTransition, TransitionRows
<1>2. /\ Len(transitions') = version + 1
      /\ \A i \in 1..version : transitions'[i] = transitions[i]
      /\ transitions'[version + 1] = TransitionRow(state, target)
  BY <1>1
<1>3. transitions[version].to = state /\ transitions[1] = TransitionRow(None, "REQUESTED")
  BY DEF LegalWalk
<1>4. ASSUME NEW i \in 2..(version + 1)
      PROVE  /\ transitions'[i].from = transitions'[i - 1].to
             /\ IsLegal(transitions'[i].from, transitions'[i].to)
  <2>1. CASE i = version + 1
    <3>1. transitions'[i].from = state /\ transitions'[i].to = target
      BY <1>2, <2>1 DEF TransitionRow
    <3>2. i - 1 = version /\ transitions'[version] = transitions[version]
      BY <1>1, <1>2, <2>1
    <3> QED
      BY <1>1, <1>3, <3>1, <3>2
  <2>2. CASE i # version + 1
    <3>1. i \in 2..version /\ i \in 1..version /\ i - 1 \in 1..version
      BY <1>1, <2>2
    <3> QED
      BY <1>2, <3>1 DEF LegalWalk
  <2> QED
    BY <2>1, <2>2
<1>5. transitions'[1] = TransitionRow(None, "REQUESTED")
  BY <1>1, <1>2, <1>3
<1>6. transitions'[version'].to = state'
  BY <1>1, <1>2 DEF TransitionRow
<1> QED
  BY <1>1, <1>2, <1>4, <1>5, <1>6 DEF LegalWalk

\* Two recorded transitions extend it by two.
LEMMA WalkTwoSteps ==
    ASSUME ApprovalsTypeOK, LegalWalk, state # None,
           NEW middle \in IntentState, NEW target \in IntentState, NEW topic \in Topics,
           RecordTwoTransitions(middle, target, topic)
    PROVE  LegalWalk'
<1> DEFINE one == TransitionRow(state, middle)
           two == TransitionRow(middle, target)
<1>1. /\ transitions \in Seq(TransitionRows)
      /\ version = Len(transitions) /\ version \in Nat /\ version > 0
      /\ transitions' = Append(Append(transitions, one), two)
      /\ version' = version + 2
      /\ state' = target
      /\ IsLegal(state, middle) /\ IsLegal(middle, target)
  BY DEF ApprovalsTypeOK, LegalWalk, RecordTwoTransitions, TransitionRows
<1>2. /\ Len(transitions') = version + 2
      /\ \A i \in 1..version : transitions'[i] = transitions[i]
      /\ transitions'[version + 1] = one
      /\ transitions'[version + 2] = two
  <2> HIDE DEF one, two
  <2> QED
    BY <1>1
<1>3. transitions[version].to = state /\ transitions[1] = TransitionRow(None, "REQUESTED")
  BY DEF LegalWalk
<1>4. one.from = state /\ one.to = middle /\ two.from = middle /\ two.to = target
  BY DEF TransitionRow
<1> HIDE DEF one, two
<1>5. ASSUME NEW i \in 2..(version + 2)
      PROVE  /\ transitions'[i].from = transitions'[i - 1].to
             /\ IsLegal(transitions'[i].from, transitions'[i].to)
  <2>1. CASE i = version + 2
    <3>1. i - 1 = version + 1
      BY <1>1, <2>1
    <3> QED
      BY <1>1, <1>2, <1>4, <2>1, <3>1
  <2>2. CASE i = version + 1
    <3>1. i - 1 = version /\ transitions'[version] = transitions[version]
      BY <1>1, <1>2, <2>2
    <3> QED
      BY <1>1, <1>2, <1>3, <1>4, <2>2, <3>1
  <2>3. CASE i \in 2..version
    <3>1. i \in 1..version /\ i - 1 \in 1..version
      BY <1>1, <2>3
    <3> QED
      BY <1>2, <2>3, <3>1 DEF LegalWalk
  <2> QED
    BY <1>1, <2>1, <2>2, <2>3
<1>6. transitions'[1] = TransitionRow(None, "REQUESTED")
  BY <1>1, <1>2, <1>3
<1>7. transitions'[version'].to = state'
  BY <1>1, <1>2, <1>4
<1> QED
  BY <1>1, <1>2, <1>5, <1>6, <1>7 DEF LegalWalk

\* Nothing in the invariant but the types looks beyond the revision's rows.
LEMMA InvFrame ==
    ASSUME ApprovalsInv, ApprovalsTypeOK', UNCHANGED intentVars
    PROVE  ApprovalsInv'
  BY DEF ApprovalsInv, RowsWrittenTogether, NoOwnApproval, WaitingStates,
         NeverCommitted, LegalWalk, DecisionsInWindow, ApprovalEvidence,
         EarnedByRoute, Endorsed, ApproversOf, intentVars

\* A transition to a closed state with no new decision (expiry, cancellation)
\* keeps the invariant.
LEMMA InvClose ==
    ASSUME ApprovalsInv, ApprovalsTypeOK', state # None,
           NEW target \in {"EXPIRED", "CANCELLED"},
           RecordTransition(target, "intent.transitioned"),
           UNCHANGED <<requester, expiresAt, policy, decisions>>
    PROVE  ApprovalsInv'
<1>1. ApprovalsTypeOK /\ LegalWalk
  BY DEF ApprovalsInv
<1>2. target \in IntentState /\ "intent.transitioned" \in Topics
  BY DEF IntentState, Topics
<1>3. LegalWalk'
  BY <1>1, <1>2, WalkOneStep
<1>4. state' \in {"EXPIRED", "CANCELLED"} /\ state' # None
  BY StatesAssumption, <1>2 DEF RecordTransition
<1>5. RowsWrittenTogether' /\ NoOwnApproval' /\ WaitingStates' /\ NeverCommitted'
  BY <1>4 DEF ApprovalsInv, RowsWrittenTogether, NoOwnApproval, WaitingStates, NeverCommitted
<1>6. DecisionsInWindow' /\ ApprovalEvidence'
  BY <1>4 DEF ApprovalsInv, DecisionsInWindow, ApprovalEvidence, AuthorizedStates
<1> QED
  BY <1>3, <1>5, <1>6 DEF ApprovalsInv

LEMMA InvCreate ==
    ASSUME ApprovalsInv, ApprovalsTypeOK', NEW actor \in Actors, CreateIntent(actor)
    PROVE  ApprovalsInv'
<1> DEFINE p == activePolicy
           r == RouteState(activePolicy)
<1>1. p \in Policies
  BY DEF ApprovalsInv, ApprovalsTypeOK
<1>2. IsPolicy(p) /\ r \in {"AUTO_APPROVED", "PENDING_APPROVAL_1", "BLOCKED"}
  BY <1>1, RouteStateType
<1>3. decisions' = {}
  BY DEF ApprovalsInv, RowsWrittenTogether, CreateIntent
<1>4. /\ state' = r /\ policy' = p /\ requester' = actor /\ version' = 4
      /\ expiresAt' = IF p.ttl = None THEN None ELSE now + p.ttl
      /\ transitions' = <<TransitionRow(None, "REQUESTED"),
                          TransitionRow("REQUESTED", "RISK_EVALUATED"),
                          TransitionRow("RISK_EVALUATED", "POLICY_EVALUATED"),
                          TransitionRow("POLICY_EVALUATED", r)>>
  BY DEF CreateIntent, CreationTransitions
<1>5. state' # None
  BY StatesAssumption, <1>2, <1>4 DEF IntentState
<1>6. RowsWrittenTogether' /\ NoOwnApproval' /\ DecisionsInWindow'
  BY <1>1, <1>3, <1>4, <1>5 DEF RowsWrittenTogether, NoOwnApproval, DecisionsInWindow
<1>7. NeverCommitted'
  BY <1>2, <1>4 DEF NeverCommitted
<1>8. WaitingStates'
  <2>1. ASSUME r = "PENDING_APPROVAL_1"
        PROVE  p.disposition = "REQUIRE_APPROVAL" /\ expiresAt' \in Nat
    <3>1. p.disposition = "REQUIRE_APPROVAL"
      BY <1>2, <2>1 DEF RouteState, IsPolicy, Dispositions
    <3>2. p.ttl \in Nat /\ now \in Nat /\ p.ttl # None
      BY <1>2, <3>1, NoneAssumption DEF IsPolicy, ApprovalsInv, ApprovalsTypeOK
    <3> QED
      BY <1>4, <3>1, <3>2
  <2> QED
    BY <1>2, <1>3, <1>4, <2>1 DEF WaitingStates
<1>9. LegalWalk'
  <2>1. /\ Len(transitions') = 4
        /\ transitions'[1] = TransitionRow(None, "REQUESTED")
        /\ transitions'[2] = TransitionRow("REQUESTED", "RISK_EVALUATED")
        /\ transitions'[3] = TransitionRow("RISK_EVALUATED", "POLICY_EVALUATED")
        /\ transitions'[4] = TransitionRow("POLICY_EVALUATED", r)
    BY <1>4
  <2>2. /\ IsLegal("REQUESTED", "RISK_EVALUATED")
        /\ IsLegal("RISK_EVALUATED", "POLICY_EVALUATED")
        /\ IsLegal("POLICY_EVALUATED", r)
    BY <1>2 DEF IsLegal, LegalTransitions
  <2> HIDE DEF r
  <2>3. ASSUME NEW i \in 2..4
        PROVE  /\ transitions'[i].from = transitions'[i - 1].to
               /\ IsLegal(transitions'[i].from, transitions'[i].to)
    BY <2>1, <2>2 DEF TransitionRow
  <2> QED
    BY <1>4, <2>1, <2>3 DEF LegalWalk, TransitionRow
<1>10. ApprovalEvidence'
  <2>1. r \in AuthorizedStates => p.disposition = "ALLOW"
    BY <1>2 DEF AuthorizedStates, RouteState, IsPolicy, Dispositions
  <2>2. p.disposition = "ALLOW" => p.route = "NONE"
    BY <1>2 DEF IsPolicy
  <2> QED
    BY <1>4, <2>1, <2>2 DEF ApprovalEvidence, EarnedByRoute
<1> QED
  BY <1>6, <1>7, <1>8, <1>9, <1>10 DEF ApprovalsInv

\* Decisions are only added, so endorsements only grow.
LEMMA EndorsedGrows ==
    ASSUME NEW level, decisions \subseteq decisions'
    PROVE  Endorsed(level) \subseteq Endorsed(level)'
  BY DEF Endorsed, ApproversOf

\* The heart of the argument: a decision is recorded only while the revision
\* waits, by someone other than the requester, and authorizes it only when
\* the route's approvals are complete.
LEMMA InvDecide ==
    ASSUME ApprovalsInv, ApprovalsTypeOK', state # None,
           NEW cmd \in DecisionCommands, Decide(cmd)
    PROVE  ApprovalsInv'
<1> DEFINE row == DecisionRow(cmd)
<1>1. /\ ApprovalsTypeOK /\ RowsWrittenTogether /\ NoOwnApproval /\ WaitingStates
      /\ NeverCommitted /\ LegalWalk /\ DecisionsInWindow /\ ApprovalEvidence
  BY DEF ApprovalsInv
<1>2. /\ decisions' = decisions \cup {row}
      /\ requester' = requester /\ expiresAt' = expiresAt /\ policy' = policy
      /\ ~Expired /\ MayDecide(cmd)
  BY DEF Decide
<1>3. /\ row.level = cmd.level /\ row.decision = cmd.decision
      /\ row.actor = cmd.actor /\ row.at = now
  BY DEF DecisionRow
<1>4. cmd.decision = "APPROVE" => cmd.actor # requester
  BY <1>2 DEF MayDecide
<1> HIDE DEF row
<1>5. policy \in Policies /\ IsPolicy(policy) /\ requester \in Actors
  BY <1>1, RouteStateType DEF RowsWrittenTogether
<1>6. {"REJECTED", "APPROVED", "APPROVED_BY_LEVEL_1", "PENDING_APPROVAL_2"}
          \subseteq IntentState
      /\ "intent.transitioned" \in Topics
  BY DEF IntentState, Topics
<1>7. /\ state \in {"PENDING_APPROVAL_1", "PENDING_APPROVAL_2"}
      /\ state' \in {"REJECTED", "APPROVED", "PENDING_APPROVAL_2"}
  <2>1. CASE RecordTransition("REJECTED", "intent.transitioned")
    BY <1>1, <2>1 DEF RecordTransition, IsLegal, LegalTransitions, NeverCommitted
  <2>2. CASE ~RecordTransition("REJECTED", "intent.transitioned")
    BY <2>2 DEF Decide, ResolveTarget, RecordTransition, RecordTwoTransitions
  <2> QED
    BY <2>1, <2>2
<1>8. LegalWalk'
  <2>1. \/ RecordTransition("REJECTED", "intent.transitioned")
        \/ RecordTransition("APPROVED", "intent.transitioned")
        \/ RecordTwoTransitions("APPROVED_BY_LEVEL_1", "PENDING_APPROVAL_2",
                                "intent.transitioned")
    BY DEF Decide, ResolveTarget
  <2>2. CASE RecordTransition("REJECTED", "intent.transitioned")
    BY <1>1, <1>6, <2>2, WalkOneStep, Zenon
  <2>3. CASE RecordTransition("APPROVED", "intent.transitioned")
    BY <1>1, <1>6, <2>3, WalkOneStep, Zenon
  <2>4. CASE RecordTwoTransitions("APPROVED_BY_LEVEL_1", "PENDING_APPROVAL_2",
                                  "intent.transitioned")
    BY <1>1, <1>6, <2>4, WalkTwoSteps, Zenon
  <2> QED
    BY <2>1, <2>2, <2>3, <2>4
<1>9. state' # None
  BY <1>6, <1>7, StatesAssumption
<1>10. RowsWrittenTogether' /\ NeverCommitted'
  BY <1>2, <1>5, <1>7, <1>9 DEF RowsWrittenTogether, NeverCommitted
<1>11. NoOwnApproval'
  BY <1>1, <1>2, <1>3, <1>4 DEF NoOwnApproval
<1>12. DecisionsInWindow'
  <2>1. expiresAt \in Nat /\ now \in Nat /\ expiresAt # None
    BY <1>1, <1>7, NoneAssumption DEF WaitingStates, ApprovalsTypeOK
  <2>2. now < expiresAt
    BY <1>2, <1>7, <2>1 DEF Expired, ExpirableStates
  <2> QED
    BY <1>1, <1>2, <1>3, <2>1, <2>2 DEF DecisionsInWindow
<1>13. WaitingStates'
  <2>1. state' # "PENDING_APPROVAL_1"
    BY <1>7
  <2>2. ASSUME state' = "PENDING_APPROVAL_2"
        PROVE  /\ policy.disposition = "REQUIRE_APPROVAL" /\ expiresAt \in Nat
               /\ policy.route = "CRITICAL_TWO_STEP" /\ Endorsed(1)' # {}
               /\ \A d \in decisions' : d.decision = "APPROVE" => d.level = 1
    <3>1. /\ cmd.decision = "APPROVE" /\ cmd.level = 1
          /\ policy.route = "CRITICAL_TWO_STEP" /\ state = "PENDING_APPROVAL_1"
      BY <2>2 DEF Decide, ResolveTarget, RecordTransition
    <3>2. cmd.actor \in Endorsed(1)'
      BY <1>2, <1>3, <3>1 DEF Endorsed, ApproversOf
    <3>3. \A d \in decisions' : d.decision = "APPROVE" => d.level = 1
      BY <1>1, <1>2, <1>3, <3>1 DEF WaitingStates
    <3> QED
      BY <1>1, <1>7, <3>1, <3>2, <3>3 DEF WaitingStates
  <2> QED
    BY <1>2, <2>1, <2>2 DEF WaitingStates
<1>14. ApprovalEvidence'
  <2>1. ASSUME state' \in AuthorizedStates
        PROVE  EarnedByRoute'
    <3>1. state' = "APPROVED"
      BY <1>7, <2>1 DEF AuthorizedStates
    <3>2. policy.disposition = "REQUIRE_APPROVAL" /\ policy.route # "NONE"
      BY <1>1, <1>5, <1>7 DEF WaitingStates, IsPolicy
    <3>3. CASE policy.route # "CRITICAL_TWO_STEP"
      <4>1. cmd.decision = "APPROVE" /\ cmd.level = 1
        BY <3>1, <3>3 DEF Decide, ResolveTarget, RecordTransition
      <4>2. cmd.actor \in Endorsed(1)' /\ cmd.actor # requester'
        BY <1>2, <1>3, <1>4, <4>1 DEF Endorsed, ApproversOf
      <4>3. policy'.route = "SINGLE"
        BY <1>2, <1>5, <3>2, <3>3 DEF IsPolicy, Routes
      <4> QED
        BY <4>2, <4>3 DEF EarnedByRoute
    <3>4. CASE policy.route = "CRITICAL_TWO_STEP"
      <4>1. /\ cmd.decision = "APPROVE" /\ cmd.level = 2
            /\ state = "PENDING_APPROVAL_2" /\ DistinctFromL1(cmd.actor)
        BY <3>1, <3>4 DEF Decide, ResolveTarget, RecordTransition, RecordTwoTransitions
      <4>2. PICK a \in Endorsed(1) : TRUE
        BY <1>1, <4>1 DEF WaitingStates
      <4>3. a # cmd.actor /\ a # requester
        BY <1>1, <4>1, <4>2 DEF Endorsed, ApproversOf, DistinctFromL1, NoOwnApproval
      <4>4. a \in Endorsed(1)'
        BY <1>2, <4>2, EndorsedGrows
      <4>5. cmd.actor \in Endorsed(2)' /\ cmd.actor # requester
        BY <1>2, <1>3, <1>4, <4>1 DEF Endorsed, ApproversOf
      <4> QED
        BY <1>2, <3>4, <4>3, <4>4, <4>5 DEF EarnedByRoute
    <3> QED
      BY <3>3, <3>4
  <2> QED
    BY <2>1 DEF ApprovalEvidence
<1> QED
  BY <1>8, <1>10, <1>11, <1>12, <1>13, <1>14 DEF ApprovalsInv

LEMMA InvStep ==
    ASSUME ApprovalsInv, [ApprovalsNext]_approvalVars
    PROVE  ApprovalsInv'
<1>1. ApprovalsTypeOK'
  BY TypeStep DEF ApprovalsInv
<1>2. ASSUME NEW actor \in Actors, CreateIntent(actor)
      PROVE  ApprovalsInv'
  BY <1>1, <1>2, InvCreate
<1>3. ASSUME state # None, NEW cmd \in DecisionCommands, Decide(cmd)
      PROVE  ApprovalsInv'
  BY <1>1, <1>3, InvDecide
<1>4. ASSUME state # None, NEW cmd \in DecisionCommands, DecideExpired(cmd)
      PROVE  ApprovalsInv'
  BY <1>1, <1>4, InvClose DEF DecideExpired
<1>5. ASSUME state # None, NEW actor \in Actors, NEW expected \in 1..version,
             Cancel(actor, expected)
      PROVE  ApprovalsInv'
  BY <1>1, <1>5, InvClose DEF Cancel
<1>6. ASSUME Administer
      PROVE  ApprovalsInv'
  <2>1. UNCHANGED intentVars
    BY <1>6 DEF Administer, GrantRole, RevokeRole, ActivatePolicyBundle
  <2> QED
    BY <1>1, <2>1, InvFrame
<1>7. ASSUME Tick
      PROVE  ApprovalsInv'
  BY <1>1, <1>7, InvFrame DEF Tick
<1>8. ASSUME UNCHANGED approvalVars
      PROVE  ApprovalsInv'
  BY <1>1, <1>8, InvFrame DEF approvalVars
<1> QED
  BY <1>2, <1>3, <1>4, <1>5, <1>6, <1>7, <1>8 DEF ApprovalsNext, Command

LEMMA InvInit ==
    ASSUME ApprovalsInit
    PROVE  ApprovalsInv
<1>1. ApprovalsTypeOK
  BY TypeInit
<1>2. state = None /\ decisions = {} /\ transitions = <<>>
  BY DEF ApprovalsInit
<1>3. state \notin IntentState
  BY <1>2, StatesAssumption
<1>4. WaitingStates /\ NeverCommitted /\ ApprovalEvidence
  BY <1>3 DEF WaitingStates, NeverCommitted, ApprovalEvidence, AuthorizedStates, IntentState
<1> QED
  BY <1>1, <1>2, <1>4 DEF ApprovalsInv, RowsWrittenTogether, NoOwnApproval, LegalWalk,
                          DecisionsInWindow

THEOREM InductiveInvariant == ApprovalsSpec => []ApprovalsInv
<1>1. ApprovalsInit => ApprovalsInv
  BY InvInit
<1>2. ApprovalsInv /\ [ApprovalsNext]_approvalVars => ApprovalsInv'
  BY InvStep
<1> QED
  BY <1>1, <1>2, PTL DEF ApprovalsSpec

\* No executable state without the approvals the stored route demands, for
\* any policy, people and order of commands.
THEOREM EvidenceHolds == ApprovalsSpec => []ApprovalEvidence
<1>1. ApprovalsInv => ApprovalEvidence
  BY DEF ApprovalsInv
<1> QED
  BY <1>1, InductiveInvariant, PTL

\* The transition rows are always a legal walk that state_version counts.
THEOREM WalkHolds == ApprovalsSpec => []LegalWalk
<1>1. ApprovalsInv => LegalWalk
  BY DEF ApprovalsInv
<1> QED
  BY <1>1, InductiveInvariant, PTL

\* No decision at or after the deadline, whatever the TTLs of the policies.
THEOREM WindowHolds == ApprovalsSpec => []DecisionsInWindow
<1>1. ApprovalsInv => DecisionsInWindow
  BY DEF ApprovalsInv
<1> QED
  BY <1>1, InductiveInvariant, PTL

------------------------------------------------------------------------------
(* Announcements *)

\* A prefix of the outbox is finite, so its announcements can be counted.
LEMMA AnnouncedType ==
    ASSUME NEW messages, NEW i \in Nat
    PROVE  /\ IsFiniteSet({j \in 1..i : messages[j].to # None})
           /\ AnnouncedUpTo(messages, i) \in Nat
<1>1. IsFiniteSet(1..i)
  BY FS_Interval
<1>2. IsFiniteSet({j \in 1..i : messages[j].to # None})
  BY <1>1, FS_Subset
<1> QED
  BY <1>2, FS_CardinalityType DEF AnnouncedUpTo

\* Counting is by prefix: a later message changes no earlier count.
LEMMA AnnouncedPrefix ==
    ASSUME NEW messages \in Seq(OutboxRows), NEW m \in OutboxRows,
           NEW i \in 0..Len(messages)
    PROVE  AnnouncedUpTo(Append(messages, m), i) = AnnouncedUpTo(messages, i)
<1>1. \A j \in 1..i : Append(messages, m)[j] = messages[j]
  OBVIOUS
<1>2. {j \in 1..i : Append(messages, m)[j].to # None} = {j \in 1..i : messages[j].to # None}
  BY <1>1
<1> QED
  BY <1>2 DEF AnnouncedUpTo

\* A new message counts exactly when it announces a transition.
LEMMA AnnouncedAppend ==
    ASSUME NEW messages \in Seq(OutboxRows), NEW m \in OutboxRows
    PROVE  AnnouncedUpTo(Append(messages, m), Len(messages) + 1) =
               AnnouncedUpTo(messages, Len(messages)) + (IF m.to # None THEN 1 ELSE 0)
<1> DEFINE n   == Len(messages)
           old == {j \in 1..n : messages[j].to # None}
           all == Append(messages, m)
           new == {j \in 1..(n + 1) : all[j].to # None}
<1>1. n \in Nat /\ all[n + 1] = m /\ \A j \in 1..n : all[j] = messages[j]
  OBVIOUS
<1>2. IsFiniteSet(old) /\ Cardinality(old) \in Nat
  BY <1>1, AnnouncedType, FS_CardinalityType
<1>3. CASE m.to # None
  <2> HIDE DEF all
  <2>1. new = old \cup {n + 1} /\ n + 1 \notin old
    BY <1>1, <1>3
  <2>2. Cardinality(new) = Cardinality(old) + 1
    <3> HIDE DEF old, new
    <3> QED
      BY <1>2, <2>1, FS_AddElement
  <2> QED
    BY <1>3, <2>2 DEF AnnouncedUpTo, all
<1>4. CASE m.to = None
  <2> HIDE DEF all
  <2>1. new = old
    BY <1>1, <1>4
  <2>2. AnnouncedUpTo(all, n + 1) = Cardinality(old)
    BY <2>1 DEF AnnouncedUpTo
  <2>3. AnnouncedUpTo(messages, n) = Cardinality(old)
    BY DEF AnnouncedUpTo
  <2>4. AnnouncedUpTo(all, n + 1) = AnnouncedUpTo(messages, n) + 0
    <3> HIDE DEF old, n
    <3> QED
      BY <1>2, <2>2, <2>3
  <2> QED
    BY <1>4, <2>4 DEF all
<1> QED
  BY <1>3, <1>4

\* A row and the message that announces it, written together.
LEMMA AnnounceOne ==
    ASSUME NEW messages \in Seq(OutboxRows), NEW rows \in Seq(TransitionRows),
           Announces(messages, rows),
           NEW m \in OutboxRows, NEW row \in TransitionRows, m.to # None, m.to = row.to
    PROVE  Announces(Append(messages, m), Append(rows, row))
<1> DEFINE n    == Len(messages)
           all  == Append(messages, m)
           rows2 == Append(rows, row)
<1>1. /\ n \in Nat /\ Len(rows) \in Nat
      /\ Len(all) = n + 1 /\ all[n + 1] = m /\ \A j \in 1..n : all[j] = messages[j]
      /\ Len(rows2) = Len(rows) + 1 /\ rows2[Len(rows) + 1] = row
      /\ \A j \in 1..Len(rows) : rows2[j] = rows[j]
  OBVIOUS
<1>2. AnnouncedUpTo(messages, n) = Len(rows)
  BY DEF Announces
<1>3. AnnouncedUpTo(all, n + 1) = Len(rows) + 1
  BY <1>1, <1>2, AnnouncedAppend
<1>4. ASSUME NEW i \in 1..(n + 1), all[i].to # None
      PROVE  all[i].to = rows2[AnnouncedUpTo(all, i)].to
  <2>1. CASE i = n + 1
    BY <1>1, <1>3, <2>1
  <2>2. CASE i \in 1..n
    <3>1. AnnouncedUpTo(all, i) = AnnouncedUpTo(messages, i)
      BY <2>2, AnnouncedPrefix
    <3>2. AnnouncedUpTo(messages, i) \in 1..Len(rows)
      <4> DEFINE some == {j \in 1..i : messages[j].to # None}
                 every == {j \in 1..n : messages[j].to # None}
      <4>1. IsFiniteSet(some) /\ IsFiniteSet(every) /\ i \in some /\ some \subseteq every
        <5>1. IsFiniteSet(some)
          <6>1. i \in Nat
            BY <2>2
          <6> QED
            BY <6>1, AnnouncedType
        <5>2. IsFiniteSet(every)
          BY <1>1, AnnouncedType
        <5>3. messages[i].to # None
          BY <1>1, <1>4, <2>2
        <5>4. i \in some /\ some \subseteq every
          BY <1>1, <2>2, <5>3
        <5> QED
          BY <5>1, <5>2, <5>4
      <4>2. /\ Cardinality(some) = AnnouncedUpTo(messages, i)
            /\ Cardinality(every) = Len(rows)
        BY <1>2 DEF AnnouncedUpTo
      <4> HIDE DEF some, every
      <4>3. Cardinality(some) <= Cardinality(every)
        BY <4>1, FS_Subset
      <4>4. Cardinality(some) \in Nat /\ Cardinality(some) # 0
        BY <4>1, FS_CardinalityType, FS_EmptySet
      <4> QED
        BY <1>1, <4>2, <4>3, <4>4
    <3>3. messages[i].to = rows[AnnouncedUpTo(messages, i)].to
      BY <1>1, <1>4, <2>2 DEF Announces
    <3>4. all[i] = messages[i]
      BY <1>1, <2>2
    <3>5. rows2[AnnouncedUpTo(messages, i)] = rows[AnnouncedUpTo(messages, i)]
      BY <1>1, <3>2
    <3> HIDE DEF all, rows2
    <3> QED
      BY <3>1, <3>3, <3>4, <3>5
  <2>3. i = n + 1 \/ i \in 1..n
    BY <1>1
  <2> QED
    BY <2>1, <2>2, <2>3
<1> HIDE DEF all, rows2
<1>5. Announces(all, rows2)
  BY <1>1, <1>3, <1>4 DEF Announces
<1> QED
  BY <1>5 DEF all, rows2

\* A message that announces nothing.
LEMMA AnnounceNone ==
    ASSUME NEW messages \in Seq(OutboxRows), NEW rows \in Seq(TransitionRows),
           Announces(messages, rows), NEW m \in OutboxRows, m.to = None
    PROVE  Announces(Append(messages, m), rows)
<1> DEFINE n   == Len(messages)
           all == Append(messages, m)
<1>1. /\ n \in Nat /\ Len(all) = n + 1
      /\ all[n + 1] = m /\ \A j \in 1..n : all[j] = messages[j]
  OBVIOUS
<1>2. AnnouncedUpTo(all, n + 1) = Len(rows)
  <2>1. AnnouncedUpTo(messages, n) = Len(rows) /\ Len(rows) \in Nat
    BY DEF Announces
  <2> QED
    BY <2>1, AnnouncedAppend
<1>3. ASSUME NEW i \in 1..(n + 1), all[i].to # None
      PROVE  all[i].to = rows[AnnouncedUpTo(all, i)].to
  <2>1. i \in 1..n
    BY <1>1, <1>3
  <2>2. AnnouncedUpTo(all, i) = AnnouncedUpTo(messages, i)
    BY <2>1, AnnouncedPrefix
  <2> QED
    BY <1>1, <1>3, <2>1, <2>2 DEF Announces
<1> HIDE DEF all
<1>4. Announces(all, rows)
  BY <1>1, <1>2, <1>3 DEF Announces
<1> QED
  BY <1>4 DEF all

\* The call of _record_transition keeps the announcements complete, alone or
\* twice in a transaction.
LEMMA AnnounceTransition ==
    ASSUME ApprovalsTypeOK, EveryTransitionAnnounced,
           NEW target \in IntentState, NEW topic \in Topics,
           RecordTransition(target, topic)
    PROVE  EveryTransitionAnnounced'
<1> DEFINE m   == Message(topic, target)
           row == TransitionRow(state, target)
<1>1. transitions \in Seq(TransitionRows) /\ outbox \in Seq(OutboxRows)
  BY DEF ApprovalsTypeOK, TransitionRows, OutboxRows
<1>2. m \in OutboxRows /\ m.to = target
  BY MessageType DEF Message
<1>3. row \in TransitionRows /\ row.to = target
  BY DEF ApprovalsTypeOK, TransitionRow, TransitionRows
<1>4. target # None
  BY StatesAssumption
<1>5. transitions' = Append(transitions, row) /\ outbox' = Append(outbox, m)
  BY DEF RecordTransition
<1> HIDE DEF m, row
<1>6. Announces(Append(outbox, m), Append(transitions, row))
  BY <1>1, <1>2, <1>3, <1>4, AnnounceOne DEF EveryTransitionAnnounced
<1> QED
  BY <1>5, <1>6 DEF EveryTransitionAnnounced

LEMMA AnnounceTwoTransitions ==
    ASSUME ApprovalsTypeOK, EveryTransitionAnnounced,
           NEW middle \in IntentState, NEW target \in IntentState, NEW topic \in Topics,
           RecordTwoTransitions(middle, target, topic)
    PROVE  EveryTransitionAnnounced'
<1> DEFINE m1 == Message(topic, middle)
           m2 == Message(topic, target)
           r1 == TransitionRow(state, middle)
           r2 == TransitionRow(middle, target)
           outbox1 == Append(outbox, m1)
           rows1   == Append(transitions, r1)
<1>1. transitions \in Seq(TransitionRows) /\ outbox \in Seq(OutboxRows)
  BY DEF ApprovalsTypeOK, TransitionRows, OutboxRows
<1>2. /\ m1 \in OutboxRows /\ m1.to = middle
      /\ m2 \in OutboxRows /\ m2.to = target
  BY MessageType DEF Message
<1>3. /\ r1 \in TransitionRows /\ r1.to = middle
      /\ r2 \in TransitionRows /\ r2.to = target
  BY DEF ApprovalsTypeOK, TransitionRow, TransitionRows
<1>4. middle # None /\ target # None
  BY StatesAssumption
<1>5. transitions' = Append(rows1, r2) /\ outbox' = Append(outbox1, m2)
  BY DEF RecordTwoTransitions
<1> HIDE DEF m1, m2, r1, r2
<1>6. Announces(outbox1, rows1)
  BY <1>1, <1>2, <1>3, <1>4, AnnounceOne DEF EveryTransitionAnnounced
<1>7. outbox1 \in Seq(OutboxRows) /\ rows1 \in Seq(TransitionRows)
  BY <1>1, <1>2, <1>3
<1> HIDE DEF outbox1, rows1
<1>8. Announces(Append(outbox1, m2), Append(rows1, r2))
  BY <1>2, <1>3, <1>4, <1>6, <1>7, AnnounceOne
<1> QED
  BY <1>5, <1>8 DEF EveryTransitionAnnounced

\* Before creation there is neither a row nor a message.
LEMMA AnnounceNothing == Announces(<<>>, <<>>)
<1>1. {j \in 1..0 : <<>>[j].to # None} = {}
  OBVIOUS
<1>2. AnnouncedUpTo(<<>>, 0) = 0
  BY <1>1, FS_EmptySet DEF AnnouncedUpTo
<1> QED
  BY <1>2 DEF Announces

\* Creation writes its four rows and six messages by itself; two of the
\* messages announce evaluations and no transition.
LEMMA AnnounceCreation ==
    ASSUME NEW r \in IntentState
    PROVE  Announces(CreationMessages(r), CreationTransitions(r))
<1> DEFINE m    == CreationMessages(r)
           rows == CreationTransitions(r)
<1>1. /\ "REQUESTED" # None /\ "RISK_EVALUATED" # None /\ "POLICY_EVALUATED" # None
      /\ r # None
  BY StatesAssumption DEF IntentState
<1>2. Len(m) = 6 /\ Len(rows) = 4
  BY DEF CreationMessages, CreationTransitions
<1>3. /\ m[1].to = "REQUESTED" /\ m[2].to = None /\ m[3].to = None
      /\ m[4].to = "RISK_EVALUATED" /\ m[5].to = "POLICY_EVALUATED" /\ m[6].to = r
  BY DEF CreationMessages, Message
<1>4. /\ rows[1].to = "REQUESTED" /\ rows[2].to = "RISK_EVALUATED"
      /\ rows[3].to = "POLICY_EVALUATED" /\ rows[4].to = r
  BY DEF CreationTransitions, TransitionRow
<1> HIDE DEF m, rows
<1>5. /\ {j \in 1..1 : m[j].to # None} = {1}
      /\ {j \in 1..4 : m[j].to # None} = {1} \cup {4}
      /\ {j \in 1..5 : m[j].to # None} = ({1} \cup {4}) \cup {5}
      /\ {j \in 1..6 : m[j].to # None} = (({1} \cup {4}) \cup {5}) \cup {6}
  BY <1>1, <1>3
<1>6. IsFiniteSet({1}) /\ Cardinality({1}) = 1
  BY FS_Singleton
<1>7. IsFiniteSet({1} \cup {4}) /\ Cardinality({1} \cup {4}) = 2
  BY <1>6, FS_AddElement
<1>8. IsFiniteSet(({1} \cup {4}) \cup {5}) /\ Cardinality(({1} \cup {4}) \cup {5}) = 3
  BY <1>7, FS_AddElement
<1>9. Cardinality((({1} \cup {4}) \cup {5}) \cup {6}) = 4
  BY <1>8, FS_AddElement
<1>10. /\ AnnouncedUpTo(m, 1) = 1 /\ AnnouncedUpTo(m, 4) = 2
       /\ AnnouncedUpTo(m, 5) = 3 /\ AnnouncedUpTo(m, 6) = 4
  BY <1>5, <1>6, <1>7, <1>8, <1>9 DEF AnnouncedUpTo
<1>11. ASSUME NEW i \in 1..Len(m), m[i].to # None
       PROVE  m[i].to = rows[AnnouncedUpTo(m, i)].to
  <2>1. i \in {1, 4, 5, 6}
    BY <1>2, <1>3, <1>11
  <2> QED
    BY <1>3, <1>4, <1>10, <2>1
<1>12. Announces(m, rows)
  BY <1>2, <1>10, <1>11 DEF Announces
<1> QED
  BY <1>12 DEF m, rows

------------------------------------------------------------------------------
(* What a decision was about *)

\* Rows are only added, so an earlier decision keeps the row it stands for.
LEMMA BindingKept ==
    ASSUME DecisionsBindWhatWasSeen, SeenIsPast, transitions \in Seq(TransitionRows),
           Len(transitions') \in Nat, Len(transitions') >= Len(transitions),
           \A i \in 1..Len(transitions) : transitions'[i] = transitions[i],
           decisions' = decisions
    PROVE  DecisionsBindWhatWasSeen' /\ SeenIsPast'
<1>1. Len(transitions) \in Nat
  OBVIOUS
<1>2. ASSUME NEW d \in decisions
      PROVE  /\ d.seen \in 1..(Len(transitions') - 1)
             /\ transitions'[d.seen + 1] = transitions[d.seen + 1]
  BY <1>1 DEF SeenIsPast
<1>3. \A d \in decisions' : DecisionIsRow(d, transitions'[d.seen + 1])
  BY <1>2 DEF DecisionsBindWhatWasSeen
<1> QED
  BY <1>2, <1>3 DEF DecisionsBindWhatWasSeen, SeenIsPast

\* What either way of recording transitions does to the rows.
LEMMA RowsGrow ==
    ASSUME ApprovalsTypeOK, NEW target \in IntentState, NEW topic,
           RecordTransition(target, topic)
    PROVE  /\ transitions \in Seq(TransitionRows)
           /\ Len(transitions) \in Nat
           /\ Len(transitions') \in Nat /\ Len(transitions') > Len(transitions)
           /\ \A i \in 1..Len(transitions) : transitions'[i] = transitions[i]
           /\ transitions'[Len(transitions) + 1] = TransitionRow(state, target)
<1>1. transitions \in Seq(TransitionRows)
  BY DEF ApprovalsTypeOK, TransitionRows
<1>2. TransitionRow(state, target) \in TransitionRows
  BY DEF ApprovalsTypeOK, TransitionRow, TransitionRows
<1> QED
  BY <1>1, <1>2 DEF RecordTransition

LEMMA RowsGrowByTwo ==
    ASSUME ApprovalsTypeOK, NEW middle \in IntentState, NEW target \in IntentState, NEW topic,
           RecordTwoTransitions(middle, target, topic)
    PROVE  /\ transitions \in Seq(TransitionRows)
           /\ Len(transitions) \in Nat
           /\ Len(transitions') \in Nat /\ Len(transitions') > Len(transitions)
           /\ \A i \in 1..Len(transitions) : transitions'[i] = transitions[i]
           /\ transitions'[Len(transitions) + 1] = TransitionRow(state, middle)
<1> DEFINE one == TransitionRow(state, middle)
           two == TransitionRow(middle, target)
           rows == Append(transitions, one)
<1>1. transitions \in Seq(TransitionRows)
  BY DEF ApprovalsTypeOK, TransitionRows
<1>2. one \in TransitionRows /\ two \in TransitionRows
  BY DEF ApprovalsTypeOK, TransitionRow, TransitionRows
<1>3. transitions' = Append(rows, two)
  BY DEF RecordTwoTransitions
<1> HIDE DEF one, two
<1>4. /\ rows \in Seq(TransitionRows) /\ Len(rows) = Len(transitions) + 1
      /\ rows[Len(transitions) + 1] = one
      /\ \A i \in 1..Len(transitions) : rows[i] = transitions[i]
  BY <1>1, <1>2
<1> HIDE DEF rows
<1>5. transitions'[Len(transitions) + 1] = one
  BY <1>1, <1>2, <1>3, <1>4
<1> QED
  BY <1>1, <1>2, <1>3, <1>4, <1>5 DEF one

\* The new decision stands for the row that follows the version its author
\* had read, because that version is the current one.
LEMMA BindingDecide ==
    ASSUME ApprovalsInv, DecisionsBindWhatWasSeen, SeenIsPast, state # None,
           NEW cmd \in DecisionCommands, Decide(cmd)
    PROVE  DecisionsBindWhatWasSeen' /\ SeenIsPast'
<1> DEFINE new == DecisionRow(cmd)
<1>1. /\ ApprovalsTypeOK /\ NeverCommitted
      /\ version = Len(transitions) /\ version > 0
  BY DEF ApprovalsInv, LegalWalk
<1>2. /\ decisions' = decisions \cup {new} /\ ResolveTarget(cmd)
      /\ new.seen = version
      /\ new.decision = cmd.decision /\ new.level = cmd.level
      /\ cmd.decision \in {"APPROVE", "REJECT"} /\ cmd.level \in {1, 2}
  BY DEF Decide, DecisionRow, Admissible, DecisionCommands
<1> HIDE DEF new
<1>3. /\ "REJECTED" \in IntentState /\ "APPROVED" \in IntentState
      /\ "APPROVED_BY_LEVEL_1" \in IntentState /\ "PENDING_APPROVAL_2" \in IntentState
  BY DEF IntentState
<1>4. /\ transitions \in Seq(TransitionRows) /\ Len(transitions) \in Nat
      /\ Len(transitions') \in Nat /\ Len(transitions') > Len(transitions)
      /\ \A i \in 1..Len(transitions) : transitions'[i] = transitions[i]
      /\ DecisionIsRow(new, transitions'[Len(transitions) + 1])
  <2>1. CASE cmd.decision = "REJECT"
    <3>1. RecordTransition("REJECTED", "intent.transitioned")
      BY <1>2, <2>1 DEF ResolveTarget
    <3>2. state \in {"PENDING_APPROVAL_1", "PENDING_APPROVAL_2"}
      BY <1>1, <3>1 DEF RecordTransition, IsLegal, LegalTransitions, NeverCommitted
    <3>3. DecisionIsRow(new, TransitionRow(state, "REJECTED"))
      BY <1>2, <2>1, <3>2 DEF DecisionIsRow, TransitionRow
    <3> QED
      BY <1>1, <1>3, <3>1, <3>3, RowsGrow, Zenon
  <2>2. CASE cmd.decision = "APPROVE" /\ RecordTransition("APPROVED", "intent.transitioned")
    <3>1. \/ cmd.level = 1 /\ state = "PENDING_APPROVAL_1"
          \/ cmd.level = 2 /\ state = "PENDING_APPROVAL_2"
      BY <1>2, <2>2 DEF ResolveTarget
    <3>2. DecisionIsRow(new, TransitionRow(state, "APPROVED"))
      <4>1. CASE cmd.level = 1 /\ state = "PENDING_APPROVAL_1"
        BY <1>2, <2>2, <4>1 DEF DecisionIsRow, TransitionRow
      <4>2. CASE cmd.level = 2 /\ state = "PENDING_APPROVAL_2"
        BY <1>2, <2>2, <4>2 DEF DecisionIsRow
      <4> QED
        BY <3>1, <4>1, <4>2
    <3> QED
      BY <1>1, <1>3, <2>2, <3>2, RowsGrow, Zenon
  <2>3. CASE /\ cmd.decision = "APPROVE"
             /\ ~RecordTransition("APPROVED", "intent.transitioned")
    <3>1. /\ RecordTwoTransitions("APPROVED_BY_LEVEL_1", "PENDING_APPROVAL_2",
                                  "intent.transitioned")
          /\ cmd.level = 1 /\ state = "PENDING_APPROVAL_1"
      BY <1>2, <2>3 DEF ResolveTarget
    <3>2. DecisionIsRow(new, TransitionRow(state, "APPROVED_BY_LEVEL_1"))
      BY <1>2, <2>3, <3>1 DEF DecisionIsRow, TransitionRow
    <3> QED
      BY <1>1, <1>3, <3>1, <3>2, RowsGrowByTwo, Zenon
  <2> QED
    BY <1>2, <2>1, <2>2, <2>3
<1>5. ASSUME NEW d \in decisions
      PROVE  /\ d.seen \in 1..(Len(transitions) - 1)
             /\ d.seen # new.seen
             /\ transitions'[d.seen + 1] = transitions[d.seen + 1]
  BY <1>1, <1>2, <1>4 DEF SeenIsPast
<1>6. \A d \in decisions' : DecisionIsRow(d, transitions'[d.seen + 1])
  BY <1>1, <1>2, <1>4, <1>5 DEF DecisionsBindWhatWasSeen
<1>7. \A d, e \in decisions' : d.seen = e.seen => d = e
  BY <1>2, <1>5 DEF DecisionsBindWhatWasSeen
<1>8. SeenIsPast'
  BY <1>1, <1>2, <1>4, <1>5 DEF SeenIsPast
<1> QED
  BY <1>6, <1>7, <1>8 DEF DecisionsBindWhatWasSeen

------------------------------------------------------------------------------
(* The evidence beside the row *)

LEMMA EvidenceFrame ==
    ASSUME EvidenceInv, UNCHANGED <<transitions, outbox, decisions>>
    PROVE  EvidenceInv'
  BY DEF EvidenceInv, EveryTransitionAnnounced, DecisionsBindWhatWasSeen, SeenIsPast

\* A transition that is no decision: expiry, cancellation, a worker's step.
LEMMA EvidenceTransition ==
    ASSUME ApprovalsTypeOK, EvidenceInv,
           NEW target \in IntentState, NEW topic \in Topics,
           RecordTransition(target, topic), decisions' = decisions
    PROVE  EvidenceInv'
<1>1. EveryTransitionAnnounced'
  BY AnnounceTransition DEF EvidenceInv
<1>2. /\ transitions \in Seq(TransitionRows)
      /\ Len(transitions) \in Nat
      /\ Len(transitions') \in Nat /\ Len(transitions') > Len(transitions)
      /\ \A i \in 1..Len(transitions) : transitions'[i] = transitions[i]
  BY RowsGrow
<1>3. DecisionsBindWhatWasSeen' /\ SeenIsPast'
  <2>1. Len(transitions') >= Len(transitions)
    BY <1>2
  <2> QED
    BY <1>2, <2>1, BindingKept DEF EvidenceInv
<1> QED
  BY <1>1, <1>3 DEF EvidenceInv

LEMMA EvidenceCreate ==
    ASSUME ApprovalsInv, NEW actor \in Actors, CreateIntent(actor)
    PROVE  EvidenceInv'
<1>1. /\ activePolicy \in Policies /\ decisions = {} /\ decisions' = decisions
      /\ transitions' = CreationTransitions(RouteState(activePolicy))
      /\ outbox' = CreationMessages(RouteState(activePolicy))
  BY DEF CreateIntent, ApprovalsInv, ApprovalsTypeOK, RowsWrittenTogether
<1>2. RouteState(activePolicy) \in IntentState
  BY <1>1, RouteStateType DEF IntentState
<1>3. EveryTransitionAnnounced'
  BY <1>1, <1>2, AnnounceCreation DEF EveryTransitionAnnounced
<1> QED
  BY <1>1, <1>3 DEF EvidenceInv, DecisionsBindWhatWasSeen, SeenIsPast

\* A decision is announced like any other transition; the opening of level 2
\* makes it two.
LEMMA EvidenceDecide ==
    ASSUME ApprovalsInv, EvidenceInv, state # None, NEW cmd \in DecisionCommands, Decide(cmd)
    PROVE  EvidenceInv'
<1>1. /\ "REJECTED" \in IntentState /\ "APPROVED" \in IntentState
      /\ "APPROVED_BY_LEVEL_1" \in IntentState /\ "PENDING_APPROVAL_2" \in IntentState
      /\ "intent.transitioned" \in Topics
      /\ ApprovalsTypeOK /\ EveryTransitionAnnounced
  BY DEF IntentState, Topics, ApprovalsInv, EvidenceInv
<1>2. \/ RecordTransition("REJECTED", "intent.transitioned")
      \/ RecordTransition("APPROVED", "intent.transitioned")
      \/ RecordTwoTransitions("APPROVED_BY_LEVEL_1", "PENDING_APPROVAL_2",
                              "intent.transitioned")
  BY DEF Decide, ResolveTarget
<1>3. EveryTransitionAnnounced'
  BY <1>1, <1>2, AnnounceTransition, AnnounceTwoTransitions, Zenon
<1> QED
  BY <1>3, BindingDecide DEF EvidenceInv

LEMMA EvidenceCommand ==
    ASSUME ApprovalsInv, EvidenceInv, Command
    PROVE  EvidenceInv'
<1>1. ApprovalsTypeOK /\ state # None
  BY DEF ApprovalsInv, Command
<1>2. "EXPIRED" \in IntentState /\ "CANCELLED" \in IntentState
      /\ "intent.transitioned" \in Topics
  BY DEF IntentState, Topics
<1>3. ASSUME NEW cmd \in DecisionCommands, Decide(cmd)
      PROVE  EvidenceInv'
  BY <1>1, <1>3, EvidenceDecide
<1>4. ASSUME NEW cmd \in DecisionCommands, DecideExpired(cmd)
      PROVE  EvidenceInv'
  <2>1. RecordTransition("EXPIRED", "intent.transitioned") /\ decisions' = decisions
    BY <1>4 DEF DecideExpired
  <2> QED
    BY <1>1, <1>2, <2>1, EvidenceTransition, Zenon
<1>5. ASSUME NEW actor \in Actors, NEW expected \in 1..version, Cancel(actor, expected)
      PROVE  EvidenceInv'
  <2>1. RecordTransition("CANCELLED", "intent.transitioned") /\ decisions' = decisions
    BY <1>5 DEF Cancel
  <2> QED
    BY <1>1, <1>2, <2>1, EvidenceTransition, Zenon
<1> QED
  BY <1>3, <1>4, <1>5 DEF Command

LEMMA EvidenceInit ==
    ASSUME ApprovalsInit
    PROVE  EvidenceInv
<1>1. outbox = <<>> /\ transitions = <<>> /\ decisions = {}
  BY DEF ApprovalsInit
<1> QED
  BY <1>1, AnnounceNothing DEF EvidenceInv, EveryTransitionAnnounced,
                               DecisionsBindWhatWasSeen, SeenIsPast

LEMMA EvidenceStep ==
    ASSUME ApprovalsInv, EvidenceInv, [ApprovalsNext]_approvalVars
    PROVE  EvidenceInv'
<1>1. ASSUME NEW actor \in Actors, CreateIntent(actor)
      PROVE  EvidenceInv'
  BY <1>1, EvidenceCreate
<1>2. CASE Command
  BY <1>2, EvidenceCommand
<1>3. CASE Administer \/ Tick \/ UNCHANGED approvalVars
  <2>1. UNCHANGED <<transitions, outbox, decisions>>
    BY <1>3 DEF Administer, GrantRole, RevokeRole, ActivatePolicyBundle, Tick,
                approvalVars, intentVars
  <2> QED
    BY <2>1, EvidenceFrame
<1> QED
  BY <1>1, <1>2, <1>3 DEF ApprovalsNext

\* The evidence is complete and bound to its versions in every behaviour.
THEOREM EvidenceInvariant == ApprovalsSpec => []EvidenceInv
<1>1. ApprovalsInit => EvidenceInv
  BY EvidenceInit
<1>2. ApprovalsInv /\ EvidenceInv /\ [ApprovalsNext]_approvalVars => EvidenceInv'
  BY EvidenceStep
<1> QED
  BY <1>1, <1>2, InductiveInvariant, PTL DEF ApprovalsSpec

\* Every transition row is announced by exactly one outbox message, in order,
\* however the handlers write rows: singly, in pairs or four at creation.
THEOREM TransitionsAnnounced == ApprovalsSpec => []EveryTransitionAnnounced
<1>1. EvidenceInv => EveryTransitionAnnounced
  BY DEF EvidenceInv
<1> QED
  BY <1>1, EvidenceInvariant, PTL

\* No decision is ever applied to a version other than the one its author
\* had read, and no version carries two decisions.
THEOREM DecisionsAreBound == ApprovalsSpec => []DecisionsBindWhatWasSeen
<1>1. EvidenceInv => DecisionsBindWhatWasSeen
  BY DEF EvidenceInv
<1> QED
  BY <1>1, EvidenceInvariant, PTL

------------------------------------------------------------------------------
(* Refinement *)

LEMMA GateInit ==
    ASSUME ApprovalsInit
    PROVE  Gate!Init
<1>1. Phase = "absent"
  BY StatesAssumption DEF ApprovalsInit, Phase, IntentState
<1>2. Needed = 0 /\ Endorsers = {} /\ requester = None
  BY DEF ApprovalsInit, Needed, Endorsers
<1> QED
  BY <1>1, <1>2 DEF Gate!Init

\* What the refinement mapping sees of a step that leaves the rows alone.
LEMMA GateStutter ==
    ASSUME UNCHANGED intentVars
    PROVE  UNCHANGED Gate!vars
  BY DEF intentVars, Gate!vars, Phase, Needed, Endorsers

\* Rejection, expiry and cancellation close the operation.
LEMMA GateClose ==
    ASSUME ApprovalsInv, state # None,
           NEW target \in {"REJECTED", "EXPIRED", "CANCELLED"},
           RecordTransition(target, "intent.transitioned"),
           UNCHANGED <<requester, policy>>, Endorsers' = Endorsers
    PROVE  Gate!Close
<1>1. state' = target /\ target \in LegalTransitions(state)
  BY DEF RecordTransition, IsLegal
<1>2. state \in {"PENDING_APPROVAL_1", "PENDING_APPROVAL_2", "AUTO_APPROVED", "APPROVED",
                 "REVALIDATING", "EXECUTING"}
  BY <1>1 DEF LegalTransitions, ApprovalsInv, NeverCommitted
<1>3. target # None
  BY StatesAssumption DEF IntentState
<1>4. Phase \in {"waiting", "authorized", "claimed"} /\ Phase' = "closed"
  BY <1>1, <1>2, <1>3 DEF Phase
<1>5. Needed' = Needed
  BY DEF Needed
<1> QED
  BY <1>4, <1>5 DEF Gate!Close

LEMMA GateOpen ==
    ASSUME ApprovalsInv, NEW actor \in Actors, CreateIntent(actor)
    PROVE  Gate!Open
<1>1. /\ activePolicy \in Policies
      /\ state = None /\ decisions = {} /\ decisions' = decisions
      /\ state' = RouteState(activePolicy) /\ policy' = activePolicy /\ requester' = actor
  BY DEF ApprovalsInv, ApprovalsTypeOK, RowsWrittenTogether, CreateIntent
<1>2. IsPolicy(policy') /\ policy' # None
      /\ state' \in {"AUTO_APPROVED", "PENDING_APPROVAL_1", "BLOCKED"}
  BY <1>1, RouteStateType
<1>3. state' # None
  BY <1>2, StatesAssumption DEF IntentState
<1>4. Phase = "absent"
  BY <1>1, StatesAssumption DEF Phase, IntentState
<1>5. state' = "PENDING_APPROVAL_1" <=> policy'.disposition = "REQUIRE_APPROVAL"
  BY <1>1, <1>2 DEF RouteState, IsPolicy, Dispositions
<1>6. Needed' = IF policy'.route = "NONE" THEN 0 ELSE IF policy'.route = "SINGLE" THEN 1 ELSE 2
  BY <1>2 DEF Needed
<1>7. Phase' = CASE state' = "PENDING_APPROVAL_1" -> "waiting"
                 [] state' = "AUTO_APPROVED"      -> "authorized"
                 [] OTHER                         -> "closed"
  BY <1>2, <1>3 DEF Phase
<1>8. Needed' \in 0..2 /\ Phase' \in (IF Needed' = 0 THEN {"authorized", "closed"} ELSE {"waiting"})
  BY <1>2, <1>5, <1>6, <1>7 DEF IsPolicy
<1>9. Endorsers' = Endorsers
  BY <1>1 DEF Endorsers
<1> QED
  BY <1>1, <1>4, <1>8, <1>9 DEF Gate!Open

\* An approval is an endorsement by a new person, and authorizes exactly when
\* it completes the route.
LEMMA GateEndorse ==
    ASSUME ApprovalsInv, state # None,
           NEW cmd \in DecisionCommands, Decide(cmd), cmd.decision = "APPROVE"
    PROVE  Gate!Endorse(cmd.actor)
<1>1. /\ decisions' = decisions \cup {DecisionRow(cmd)}
      /\ requester' = requester /\ policy' = policy
      /\ cmd.actor # requester
  BY DEF Decide, MayDecide
<1>2. /\ DecisionRow(cmd).decision = "APPROVE"
      /\ DecisionRow(cmd).actor = cmd.actor
  BY DEF DecisionRow
<1>3. Endorsers' = Endorsers \cup {cmd.actor}
  BY <1>1, <1>2 DEF Endorsers
<1>4. Needed' = Needed
  BY <1>1 DEF Needed
<1>5. policy \in Policies /\ IsPolicy(policy) /\ policy # None
  BY RouteStateType DEF ApprovalsInv, RowsWrittenTogether
<1>6. {"PENDING_APPROVAL_1", "PENDING_APPROVAL_2", "APPROVED"} \subseteq IntentState
  BY DEF IntentState
<1>7. CASE state = "PENDING_APPROVAL_1"
  <2>1. Endorsers = {} /\ policy.route # "NONE" /\ policy.route \in Routes
    BY <1>5, <1>7 DEF ApprovalsInv, WaitingStates, Endorsers, IsPolicy
  <2>2. state' = IF policy.route = "CRITICAL_TWO_STEP"
                 THEN "PENDING_APPROVAL_2" ELSE "APPROVED"
    BY <1>7 DEF Decide, ResolveTarget, RecordTransition, RecordTwoTransitions
  <2>3. Needed = IF policy.route = "CRITICAL_TWO_STEP" THEN 2 ELSE 1
    BY <1>5, <2>1 DEF Needed, Routes
  <2>4. Phase = "waiting"
    BY <1>6, <1>7, StatesAssumption DEF Phase
  <2>5. Phase' = IF policy.route = "CRITICAL_TWO_STEP" THEN "waiting" ELSE "authorized"
    BY <1>6, <2>2, StatesAssumption DEF Phase
  <2>6. Gate!Enough(Endorsers') <=> policy.route # "CRITICAL_TWO_STEP"
    BY <1>3, <2>1, <2>3 DEF Gate!Enough
  <2> QED
    BY <1>1, <1>3, <1>4, <2>1, <2>3, <2>4, <2>5, <2>6 DEF Gate!Endorse, Gate!Enough
<1>8. CASE state = "PENDING_APPROVAL_2"
  <2>1. /\ policy.route = "CRITICAL_TWO_STEP" /\ Endorsed(1) # {}
        /\ \A d \in decisions : d.decision = "APPROVE" => d.level = 1
    BY <1>8 DEF ApprovalsInv, WaitingStates
  <2>2. state' = "APPROVED" /\ DistinctFromL1(cmd.actor)
    BY <1>8 DEF Decide, ResolveTarget, RecordTransition
  <2>3. cmd.actor \notin Endorsers /\ Endorsers # {}
    BY <2>1, <2>2 DEF DistinctFromL1, Endorsers, Endorsed, ApproversOf
  <2>4. Needed = 2
    BY <1>5, <2>1 DEF Needed
  <2>5. Phase = "waiting" /\ Phase' = "authorized"
    BY <1>6, <1>8, <2>2, StatesAssumption DEF Phase
  <2>6. \E a, b \in Endorsers' : a # b
    BY <1>3, <2>3
  <2> QED
    BY <1>1, <1>3, <1>4, <2>3, <2>4, <2>5, <2>6 DEF Gate!Endorse, Gate!Enough
<1> QED
  BY <1>7, <1>8 DEF Decide, ResolveTarget

\* Creation, decisions, expiry, cancellation, administration and time
\* implement the abstract gate, for every policy and every set of people.
THEOREM GateRefined == ApprovalsSpec => ImplementsGate
<1>1. ApprovalsInit => Gate!Init
  BY GateInit
<1>2. ApprovalsInv /\ [ApprovalsNext]_approvalVars => [Gate!Next]_(Gate!vars)
  <2> SUFFICES ASSUME ApprovalsInv, [ApprovalsNext]_approvalVars
               PROVE  Gate!Next \/ UNCHANGED Gate!vars
    OBVIOUS
  <2>1. ASSUME NEW actor \in Actors, CreateIntent(actor)
        PROVE  Gate!Next
    BY <2>1, GateOpen DEF Gate!Next
  <2>2. ASSUME state # None, NEW cmd \in DecisionCommands, Decide(cmd)
        PROVE  Gate!Next
    <3>1. CASE cmd.decision = "APPROVE"
      <4>1. Gate!Endorse(cmd.actor) /\ cmd.actor \in Actors
        BY <2>2, <3>1, GateEndorse DEF DecisionCommands
      <4> QED
        BY <4>1 DEF Gate!Next
    <3>2. CASE cmd.decision # "APPROVE"
      <4>1. RecordTransition("REJECTED", "intent.transitioned")
        BY <2>2, <3>2 DEF Decide, ResolveTarget
      <4>2. decisions' = decisions \cup {DecisionRow(cmd)}
            /\ DecisionRow(cmd).decision # "APPROVE" /\ UNCHANGED <<requester, policy>>
        BY <2>2, <3>2 DEF Decide, DecisionRow
      <4>3. Endorsers' = Endorsers
        BY <4>2 DEF Endorsers
      <4> QED
        BY <2>2, <4>1, <4>2, <4>3, GateClose DEF Gate!Next
    <3> QED
      BY <3>1, <3>2
  <2>3. ASSUME state # None, NEW cmd \in DecisionCommands, DecideExpired(cmd)
        PROVE  Gate!Next
    <3>1. Endorsers' = Endorsers
      BY <2>3 DEF DecideExpired, Endorsers
    <3> QED
      BY <2>3, <3>1, GateClose DEF DecideExpired, Gate!Next
  <2>4. ASSUME state # None, NEW actor \in Actors, NEW expected \in 1..version,
               Cancel(actor, expected)
        PROVE  Gate!Next
    <3>1. Endorsers' = Endorsers
      BY <2>4 DEF Cancel, Endorsers
    <3> QED
      BY <2>4, <3>1, GateClose DEF Cancel, Gate!Next
  <2>5. ASSUME Administer \/ Tick \/ UNCHANGED approvalVars
        PROVE  UNCHANGED Gate!vars
    <3>1. UNCHANGED intentVars
      BY <2>5 DEF Administer, GrantRole, RevokeRole, ActivatePolicyBundle, Tick, approvalVars
    <3> QED
      BY <3>1, GateStutter
  <2> QED
    BY <2>1, <2>2, <2>3, <2>4, <2>5 DEF ApprovalsNext, Command
<1> QED
  BY <1>1, <1>2, InductiveInvariant, PTL DEF ApprovalsSpec, ImplementsGate, Gate!Spec
==============================================================================
