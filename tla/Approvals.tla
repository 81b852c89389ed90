------------------------------ MODULE Approvals ------------------------------
(***************************************************************************)
(* The human side of one intent revision: creation with risk and policy    *)
(* evaluation (api/intents.py, infrastructure/repositories.py), approval   *)
(* decisions and cancellation (application/commands.py), and the           *)
(* administration commands whose effects those handlers read               *)
(* (application/administration.py).                                        *)
(*                                                                         *)
(* Each handler runs in one database transaction that locks the revision's *)
(* row first, so it is one action here; module Execution adds the lock and *)
(* the workers.  A request the code answers with an error changes nothing  *)
(* and is no step, except the expiry answer, which commits.                *)
(***************************************************************************)
EXTENDS StateMachine, PolicyDecision, FiniteSets

CONSTANTS
    Actors,              \* authenticated people of one tenant
    Policies,            \* what evaluate_policy can return for this intent
    Environment,         \* the intent's "environment" parameter, or None
    InitialAssignments,  \* the role assignments the bootstrap inserts
    Grants,              \* the assignments administrators may add
    MaxTime              \* bound on the clock

VARIABLES
    state, version, requester, expiresAt,  \* the action_intents row
    policy,        \* its policy_evaluations row, generation 1
    transitions,   \* its state_transitions rows, by sequence number
    outbox,        \* its outbox_messages rows, in insertion order
    decisions,     \* its approval_decisions rows
    assignments,   \* unrevoked role_assignments rows
    activePolicy,  \* what the tenant's active bundle says of this intent
    now            \* the database clock

intentVars == <<state, version, requester, expiresAt, policy, transitions,
                outbox, decisions>>
adminVars  == <<assignments, activePolicy>>
approvalVars == <<intentVars, adminVars, now>>

ASSUME PoliciesAssumption == None \notin Policies /\ \A p \in Policies : IsPolicy(p)
ASSUME ActorsAssumption   == None \notin Actors
ASSUME TimeAssumption     == MaxTime \in Nat
ASSUME StatesAssumption   == None \notin IntentState

TransitionRow(from, to) == [from |-> from, to |-> to]
Message(topic, to)      == [topic |-> topic, to |-> to]

------------------------------------------------------------------------------
(* Recording a transition *)

\* Mutant: the outbox row is forgotten.
RecordTransitionUnannounced(target, topic) ==
    /\ IsLegal(state, target)
    /\ transitions' = Append(transitions, TransitionRow(state, target))
    /\ state'       = target
    /\ version'     = version + 1
    /\ UNCHANGED outbox

\* _record_transition: ask the table, insert the transition row and its
\* outbox row, then move the intent row and bump its version.
RecordTransition(target, topic) ==
    /\ IsLegal(state, target)
    /\ transitions' = Append(transitions, TransitionRow(state, target))
    /\ outbox'      = Append(outbox, Message(topic, target))
    /\ state'       = target
    /\ version'     = version + 1

\* Two calls of it in one transaction, the second from where the first led.
RecordTwoTransitions(middle, target, topic) ==
    /\ IsLegal(state, middle) /\ IsLegal(middle, target)
    /\ transitions' = Append(Append(transitions, TransitionRow(state, middle)),
                             TransitionRow(middle, target))
    /\ outbox'      = Append(Append(outbox, Message(topic, middle)),
                             Message(topic, target))
    /\ state'       = target
    /\ version'     = version + 2

------------------------------------------------------------------------------
(* Creation *)

\* Mutant: the disposition is stored where the state belongs.
RouteStateUnmapped(p) == p.disposition

RouteState(p) == CASE p.disposition = "ALLOW"            -> "AUTO_APPROVED"
                   [] p.disposition = "REQUIRE_APPROVAL" -> "PENDING_APPROVAL_1"
                   [] p.disposition = "BLOCK"            -> "BLOCKED"

\* The rows and messages IntentRepository.create and
\* EvaluationRepository.record write, without asking the transition table.
CreationTransitions(r) ==
    <<TransitionRow(None, "REQUESTED"),
      TransitionRow("REQUESTED", "RISK_EVALUATED"),
      TransitionRow("RISK_EVALUATED", "POLICY_EVALUATED"),
      TransitionRow("POLICY_EVALUATED", r)>>

CreationMessages(r) ==
    <<Message("intent.created", "REQUESTED"),
      Message("risk.evaluated", None),
      Message("policy.evaluated", None),
      Message("intent.transitioned", "RISK_EVALUATED"),
      Message("intent.transitioned", "POLICY_EVALUATED"),
      Message("intent.transitioned", r)>>

\* create_intent_from_proposal: one transaction creates the row, evaluates
\* risk and policy against the active bundle and routes it; record() sets
\* version 4 itself.
CreateIntent(actor) ==
    LET p == activePolicy
        r == RouteState(p)
    IN  /\ state = None
        /\ state' = r
        /\ version' = 4
        /\ requester' = actor
        /\ policy' = p
        /\ expiresAt' = IF p.ttl = None THEN None ELSE now + p.ttl
        /\ transitions' = CreationTransitions(r)
        /\ outbox' = CreationMessages(r)
        /\ UNCHANGED <<decisions, adminVars, now>>

------------------------------------------------------------------------------
(* Decisions *)

\* ApprovalDecisionCommand with the caller's token.  `expected' is the state
\* version the client last read: any version the row ever had.
DecisionCommands ==
    [actor: Actors, level: {1, 2}, decision: {"APPROVE", "REJECT"},
     expected: 1..version, digestMatches: BOOLEAN,
     tokenScopes: {{}, policy.scopes}, acknowledged: {{}, policy.obligations}]

\* _required_role_for_level.
RequiredRoleForLevel(p, level) ==
    IF p.route = "CRITICAL_TWO_STEP"
    THEN IF level <= Len(p.roles) THEN p.roles[level] ELSE None
    ELSE IF level = 1 /\ p.roles # <<>> THEN p.roles[1] ELSE None

\* Mutant: no optimistic lock.
AdmissibleAtAnyVersion(cmd) ==
    /\ state # None
    /\ cmd.digestMatches

\* The checks of decide up to the TTL: expected version, then digest.
Admissible(cmd) ==
    /\ state # None
    /\ cmd.expected = version
    /\ cmd.digestMatches

\* Mutant: the deadline itself still counts as in time.
ExpiredAfterDeadline ==
    /\ state \in ExpirableStates
    /\ expiresAt # None
    /\ expiresAt < now

Expired ==
    /\ state \in ExpirableStates
    /\ expiresAt # None
    /\ expiresAt <= now

\* Mutant: the requester may approve.
MayDecideOnOwn(cmd) ==
    LET roles == CurrentRoles(assignments, cmd.actor, now, Environment)
        role  == RequiredRoleForLevel(policy, cmd.level)
    IN  /\ policy.roles # <<>> => role # None /\ role \in roles
        /\ cmd.decision = "APPROVE" =>
              /\ policy.scopes \subseteq cmd.tokenScopes
              /\ policy.scopes \subseteq
                     CurrentScopes(assignments, cmd.actor, now, Environment)
              /\ policy.obligations \subseteq cmd.acknowledged

\* A REJECT needs the role of the level it names; an APPROVE also needs the
\* scopes (in the token and in the current assignments), the obligations
\* acknowledged, and an actor other than the requester.
MayDecide(cmd) ==
    LET roles == CurrentRoles(assignments, cmd.actor, now, Environment)
        role  == RequiredRoleForLevel(policy, cmd.level)
    IN  /\ policy.roles # <<>> => role # None /\ role \in roles
        /\ cmd.decision = "APPROVE" =>
              /\ policy.scopes \subseteq cmd.tokenScopes
              /\ policy.scopes \subseteq
                     CurrentScopes(assignments, cmd.actor, now, Environment)
              /\ policy.obligations \subseteq cmd.acknowledged
              /\ cmd.actor # requester

\* Mutant: one person may approve both levels.
NotDistinctFromL1(actor) == TRUE

\* _enforce_distinct_l1.
DistinctFromL1(actor) ==
    \A d \in decisions : d.level = 1 /\ d.decision = "APPROVE" => d.actor # actor

\* The rows decide adds to approval_decisions.  `seen' is no column: it keeps
\* the version the decider had read, for the properties.
DecisionRow(cmd) ==
    [level |-> cmd.level, decision |-> cmd.decision, actor |-> cmd.actor,
     at |-> now, seen |-> cmd.expected]

\* uq_approval_decisions_approving_actor.
NoDuplicateApproval(cmd) ==
    cmd.decision = "APPROVE" =>
        ~ \E d \in decisions : /\ d.decision = "APPROVE"
                               /\ d.level = cmd.level
                               /\ d.actor = cmd.actor

\* _resolve_target and the transitions decide records for it.  A REJECT does
\* not compare its level with the state; approving level 1 of a critical
\* route opens level 2 in the same transaction.
ResolveTarget(cmd) ==
    \/ /\ cmd.decision = "REJECT"
       /\ RecordTransition("REJECTED", "intent.transitioned")
    \/ /\ cmd.decision = "APPROVE"
       /\ state = "PENDING_APPROVAL_1"
       /\ cmd.level = 1
       /\ policy.route # "CRITICAL_TWO_STEP"
       /\ RecordTransition("APPROVED", "intent.transitioned")
    \/ /\ cmd.decision = "APPROVE"
       /\ state = "PENDING_APPROVAL_1"
       /\ cmd.level = 1
       /\ policy.route = "CRITICAL_TWO_STEP"
       /\ RecordTwoTransitions("APPROVED_BY_LEVEL_1", "PENDING_APPROVAL_2",
                               "intent.transitioned")
    \/ /\ cmd.decision = "APPROVE"
       /\ state = "PENDING_APPROVAL_2"
       /\ cmd.level = 2
       /\ policy.route = "CRITICAL_TWO_STEP"
       /\ DistinctFromL1(cmd.actor)
       /\ RecordTransition("APPROVED", "intent.transitioned")

Decide(cmd) ==
    /\ Admissible(cmd)
    /\ ~Expired
    /\ MayDecide(cmd)
    /\ NoDuplicateApproval(cmd)
    /\ ResolveTarget(cmd)
    /\ decisions' = decisions \cup {DecisionRow(cmd)}
    /\ UNCHANGED <<requester, expiresAt, policy, adminVars, now>>

\* The expiry answer of decide: the caller gets an error, the transaction
\* commits (ApprovalExpiredError.persist_state in get_session).
DecideExpired(cmd) ==
    /\ Admissible(cmd)
    /\ Expired
    /\ RecordTransition("EXPIRED", "intent.transitioned")
    /\ UNCHANGED <<requester, expiresAt, policy, decisions, adminVars, now>>

\* cancel.  There is no digest and no TTL check here.
Cancel(actor, expected) ==
    /\ state # None
    /\ expected = version
    /\ state \in CancellableStates
    /\ actor = requester \/ IsAdministrator(assignments, actor, now)
    /\ RecordTransition("CANCELLED", "intent.transitioned")
    /\ UNCHANGED <<requester, expiresAt, policy, decisions, adminVars, now>>

------------------------------------------------------------------------------
(* Administration *)

\* grant_role.  An unrevoked row of the same principal, role and environments
\* is returned as it stands, even when its window has passed.
GrantRole(admin, g) ==
    /\ IsAdministrator(assignments, admin, now)
    /\ ~ \E a \in assignments :
            a.actor = g.actor /\ a.role = g.role /\ a.envs = g.envs
    /\ assignments' = assignments \cup {g}
    /\ UNCHANGED <<intentVars, activePolicy, now>>

RevokeRole(admin, a) ==
    /\ IsAdministrator(assignments, admin, now)
    /\ a \in assignments
    /\ assignments' = assignments \ {a}
    /\ UNCHANGED <<intentVars, activePolicy, now>>

\* activate_policy_bundle: the active bundle is replaced in one transaction.
ActivatePolicyBundle(admin, p) ==
    /\ IsAdministrator(assignments, admin, now)
    /\ p # activePolicy
    /\ activePolicy' = p
    /\ UNCHANGED <<intentVars, assignments, now>>

Tick ==
    /\ now < MaxTime
    /\ now' = now + 1
    /\ UNCHANGED <<intentVars, adminVars>>

------------------------------------------------------------------------------
ApprovalsInit ==
    /\ state = None /\ version = 0 /\ requester = None /\ expiresAt = None
    /\ policy = None
    /\ transitions = <<>> /\ outbox = <<>>
    /\ decisions = {}
    /\ assignments = InitialAssignments
    /\ activePolicy \in Policies
    /\ now = 0

\* The API commands on an existing revision.
Command ==
    /\ state # None
    /\ \/ \E cmd \in DecisionCommands : Decide(cmd)
       \/ \E cmd \in DecisionCommands : DecideExpired(cmd)
       \/ \E actor \in Actors, expected \in 1..version : Cancel(actor, expected)

\* The administration commands, which touch no intent row.
Administer ==
    \E admin \in Actors :
        \/ \E g \in Grants : GrantRole(admin, g)
        \/ \E a \in assignments : RevokeRole(admin, a)
        \/ \E p \in Policies : ActivatePolicyBundle(admin, p)

ApprovalsNext ==
    \/ \E actor \in Actors : CreateIntent(actor)
    \/ Command
    \/ Administer
    \/ Tick

ApprovalsSpec == ApprovalsInit /\ [][ApprovalsNext]_approvalVars
------------------------------------------------------------------------------
(* Properties *)

Topics == {"intent.created", "risk.evaluated", "policy.evaluated",
           "intent.transitioned", "execution.succeeded", "execution.failed",
           "execution.execution_unknown", "execution.reconciled",
           "execution.reconciliation_exhausted"}

DecisionRows == [level: {1, 2}, decision: {"APPROVE", "REJECT"},
                 actor: Actors, at: Nat, seen: Nat]

\* Every row role_assignments can hold.
Assignable == InitialAssignments \cup Grants

ApprovalsTypeOK ==
    /\ state \in IntentState \cup {None}
    /\ version \in Nat
    /\ requester \in Actors \cup {None}
    /\ expiresAt \in Nat \cup {None}
    /\ policy \in Policies \cup {None}
    /\ transitions \in Seq([from: IntentState \cup {None}, to: IntentState])
    /\ outbox \in Seq([topic: Topics, to: IntentState \cup {None}])
    /\ decisions \subseteq DecisionRows
    /\ assignments \subseteq Assignable
    /\ activePolicy \in Policies
    /\ now \in Nat

Endorsed(level) == ApproversOf(decisions, level)

\* What a route asks for before the revision may run: nothing, one approver
\* who is not the requester, or two different ones for its two levels.
EarnedByRoute ==
    CASE policy.route = "NONE"   -> policy.disposition = "ALLOW"
      [] policy.route = "SINGLE" -> Endorsed(1) \ {requester} # {}
      [] policy.route = "CRITICAL_TWO_STEP" ->
            \E a \in Endorsed(1) \ {requester}, b \in Endorsed(2) \ {requester} : a # b

AuthorizedStates == {"AUTO_APPROVED", "APPROVED", "REVALIDATING", "EXECUTING",
                     "EXECUTION_UNKNOWN", "SUCCEEDED", "FAILED", "STALE"}

\* No executable state, and no state after one, without the approvals the
\* stored route demands: decide() never lets a requester approve, binds each
\* level to its state and keeps the two critical approvers distinct.
ApprovalEvidence == state \in AuthorizedStates => EarnedByRoute

\* The state_transitions rows are a legal walk from creation to the current
\* state, and state_version counts them, although seven places in the
\* code write rows, some without asking the table and some two at a time.
LegalWalk ==
    state # None =>
        /\ version = Len(transitions) /\ version > 0
        /\ transitions[1] = TransitionRow(None, "REQUESTED")
        /\ transitions[version].to = state
        /\ \A i \in 2..version :
              /\ transitions[i].from = transitions[i - 1].to
              /\ IsLegal(transitions[i].from, transitions[i].to)

\* How many of the first i messages announce a transition.
AnnouncedUpTo(messages, i) == Cardinality({j \in 1..i : messages[j].to # None})

\* The announcing messages, in their order, name the targets of the rows.
Announces(messages, rows) ==
    /\ AnnouncedUpTo(messages, Len(messages)) = Len(rows)
    /\ \A i \in 1..Len(messages) :
          messages[i].to # None =>
              messages[i].to = rows[AnnouncedUpTo(messages, i)].to

\* Every transition row has exactly one outbox message announcing it, in the
\* order of the rows: what the audit chain is built from is complete.
EveryTransitionAnnounced == Announces(outbox, transitions)

\* The transition a decision stands for.
DecisionIsRow(d, row) ==
    CASE d.decision = "REJECT" ->
           /\ row.from \in {"PENDING_APPROVAL_1", "PENDING_APPROVAL_2"}
           /\ row.to = "REJECTED"
      [] d.decision = "APPROVE" /\ d.level = 1 ->
           /\ row.from = "PENDING_APPROVAL_1"
           /\ row.to \in {"APPROVED", "APPROVED_BY_LEVEL_1"}
      [] d.decision = "APPROVE" /\ d.level = 2 ->
           row = TransitionRow("PENDING_APPROVAL_2", "APPROVED")

\* The optimistic lock of decide(): a decision is only ever applied to the
\* state its author had read, it is the transition that follows that version,
\* and no version serves two decisions, whatever else committed in between.
DecisionsBindWhatWasSeen ==
    /\ \A d \in decisions : DecisionIsRow(d, transitions[d.seen + 1])
    /\ \A d, e \in decisions : d.seen = e.seen => d = e

\* No approval or rejection is recorded at or after the deadline that was
\* fixed when the revision was evaluated.
DecisionsInWindow ==
    \A d \in decisions : expiresAt # None /\ d.at < expiresAt

\* A revision that waits for a level waits for a role somebody can hold: the
\* route's roles cover its levels.
LevelsHaveRoles ==
    /\ state = "PENDING_APPROVAL_1" => RequiredRoleForLevel(policy, 1) # None
    /\ state = "PENDING_APPROVAL_2" => RequiredRoleForLevel(policy, 2) # None

------------------------------------------------------------------------------
(* The inductive invariant *)

\* The rows written together by creation: no state without a policy and a
\* requester, and nothing else before there is a state.
RowsWrittenTogether ==
    /\ state = None => decisions = {} /\ transitions = <<>>
    /\ state # None => policy \in Policies /\ requester \in Actors

\* decide() never records an approval by the requester.
NoOwnApproval ==
    \A d \in decisions : d.decision = "APPROVE" => d.actor # requester

\* While a revision waits it has a route and a deadline; it only waits for
\* level 2 on a critical route that has its level-1 approval and no other.
WaitingStates ==
    /\ state \in {"PENDING_APPROVAL_1", "PENDING_APPROVAL_2"} =>
          policy.disposition = "REQUIRE_APPROVAL" /\ expiresAt \in Nat
    /\ state = "PENDING_APPROVAL_2" =>
          /\ policy.route = "CRITICAL_TWO_STEP"
          /\ Endorsed(1) # {}
          /\ \A d \in decisions : d.decision = "APPROVE" => d.level = 1
    /\ state = "PENDING_APPROVAL_1" =>
          \A d \in decisions : d.decision # "APPROVE"

\* States a transaction passes through but never commits.
NeverCommitted ==
    state \notin {"REQUESTED", "RISK_EVALUATED", "POLICY_EVALUATED",
                  "APPROVED_BY_LEVEL_1"}

ApprovalsInv ==
    /\ ApprovalsTypeOK
    /\ RowsWrittenTogether
    /\ NoOwnApproval
    /\ WaitingStates
    /\ NeverCommitted
    /\ LegalWalk
    /\ DecisionsInWindow
    /\ ApprovalEvidence

\* A decision is about a version that has been followed by another one.
SeenIsPast == \A d \in decisions : d.seen \in 1..(Len(transitions) - 1)

\* The evidence kept beside the row: what was announced and what was decided.
EvidenceInv ==
    /\ EveryTransitionAnnounced
    /\ DecisionsBindWhatWasSeen
    /\ SeenIsPast

------------------------------------------------------------------------------
(* The abstract specification *)

Phase ==
    CASE state = None                                           -> "absent"
      [] state \in {"PENDING_APPROVAL_1", "PENDING_APPROVAL_2"} -> "waiting"
      [] state \in {"AUTO_APPROVED", "APPROVED"}                -> "authorized"
      [] state \in {"REVALIDATING", "EXECUTING"}                -> "claimed"
      [] state = "EXECUTION_UNKNOWN"                            -> "unknown"
      [] state = "SUCCEEDED"                                    -> "succeeded"
      [] state = "FAILED"                                       -> "failed"
      [] OTHER                                                  -> "closed"

Needed == CASE policy = None                      -> 0
            [] OTHER -> CASE policy.route = "NONE"   -> 0
                          [] policy.route = "SINGLE" -> 1
                          [] OTHER                   -> 2

Endorsers == {d.actor : d \in {e \in decisions : e.decision = "APPROVE"}}

Gate == INSTANCE GatedOperation WITH
            People <- Actors, phase <- Phase, owner <- requester,
            needed <- Needed, endorsers <- Endorsers,
            sent <- FALSE, effect <- "none"

\* The approval commands implement the abstract gate: an operation opens, is
\* endorsed by enough people other than its owner, and only then authorized.
ImplementsGate == Gate!Spec
==============================================================================
