# h-i-t-l: a TLA+ model of the approval and execution lifecycle

The repository is a human-in-the-loop gateway for infrastructure operations. An
agent or a person proposes an operation (an *intent*); risk and policy decide
whether it runs at once, needs one or two approvals, or is blocked; people decide
through an HTTP API; worker processes claim what may run, revalidate it, call a
provider, and reconcile what they could not observe. PostgreSQL rows and row locks
are the only coordination between the processes.

Paths below are relative to the repository (`src/hitl_ops/...`); in `PROJECT.json`
they carry the prefix `src/` of the checkout.

## 1. Inventory

| Component | State | Operations | Module | Status |
|---|---|---|---|---|
| Lifecycle table (`domain/state_machine.py`) | none | `is_legal`, `require_transition`, `is_terminal` | `StateMachine` | modelled |
| Current authority (`infrastructure/identity.py`, `authorization.py`) | `role_assignments` | `current_roles`, `current_scopes`, `require_administrator` | `Authorization` | token checks left out |
| Risk and policy functions (`domain/risk.py`, `domain/policy.py`) | none | `evaluate_risk`, `evaluate_policy` | `RiskPolicy`, `PolicyReview` | modelled |
| Creation and evaluation (`api/intents.py`, `infrastructure/repositories.py`) | `action_intents`, `policy_evaluations`, `state_transitions`, `outbox_messages` | `create_intent_from_proposal` | `Approvals`, `PolicyReview` | modelled |
| Approval commands (`application/commands.py`, `api/approvals.py`) | `approval_decisions`, the intent row | `decide`, `cancel` | `Approvals` | modelled |
| Idempotency (`IdempotencyService`, `api/dependencies.py`) | `idempotency_records` | `begin`, `complete`, `get_session` | `Idempotency` | modelled |
| Administration (`application/administration.py`, `bootstrap.py`) | `role_assignments`, `policy_bundles` | grant, revoke, register, activate, bootstrap | `RoleAdministration`, `PolicyBundles`, `Approvals` | modelled |
| Claim and revalidation (`application/revalidation.py`) | `executions`, the intent row | three phases, fetch failure | `Revalidation`, `Execution` | modelled |
| Execution (`application/execution.py`) | the same | `execute_permit` | `Execution` | modelled |
| Reconciliation (`application/reconciliation.py`) | the same | `reconcile` | `Execution` | modelled |
| Worker (`worker.py`, `worker_main.py`) | local variables of a tick | `run_worker_tick`, `_recover_stale_executing`, `supervise` | `Execution`, `Outbox` | one revision |
| Outbox publisher (`infrastructure/outbox.py`, `notification.py`) | leases, retries, `published_at` | `publish_pending` | `Outbox` | modelled |
| Audit chain (`infrastructure/audit.py`) | `audit_events` | `append`, `verify_aggregate_chain` | `AuditChain` | modelled |
| Request limits (`api/body_limit.py`, `rate_limit.py`, `app.py`) | the buffered body, `_hits` | middleware, `allow`, `get_actor` | - | not modelled |
| Agent (`agent/`) | none | `propose`, `parse_tool_parameters` | `Idempotency`, `PolicyReview` | partly |
| Provider (`adapters/`) | operations and target versions | `fetch`, `execute`, `lookup_status` | `Execution` | external, from its use |
| Canonicalisation, error envelope, configuration, observability | none | - | - | not modelled |

How they interact: API commands lock the intent row with NOWAIT, check, write rows and
commit at the end of the request (`api/dependencies.py`). Workers find work by plain
selects, so everything they saw may have changed when they lock. The claim commits
before the target is fetched without a lock; the gates and the fetch-failure handler
lock again with NOWAIT; `execute_permit` and `reconcile` wait for the lock and hold it
across the provider call; recovery uses NOWAIT again. Administration never touches the
intent row.

Every mutation reserves its idempotency key, runs and stores its answer in the one
transaction of the request, which `get_session` ends. Commands only insert outbox rows;
the publisher of each worker process claims them in batches, appends them to the hash
chain of their aggregate under an advisory lock, notifies approvers outside any
transaction, and marks them published.

What is hard here, and what would be wrong:

- decisions, cancellations, claims and recovery race on one row (stale versions,
  double claims, a cancelled revision that runs);
- roles, policies and targets change between the approval and the call;
- a worker dies, or is merely late, at any point, also after the provider was called;
- answers are lost or late, and guessing an outcome would be wrong either way;
- deadlines, leases, backoff and the attempt budget have exact boundaries;
- several hand-written copies of the transition recording must agree;
- duplicates of a request run at the same time, and either may fail;
- publishers outlive their leases, and a delivery is repeated after a crash at any point;
- administrators work at the same time on rows that nothing locks;
- bundles are data that administrators write, and two copies of the treatment per risk
  band must keep the minimum whatever they say.

`PROJECT.json` lists the hazards at their lines with the properties that cover them.

## 2. Modules

- **StateMachine** - the 18 states and the legal edges. A handler that asks for an edge
  that is not there raises and rolls back, hence `IsLegal` as a guard.
- **Authorization** - current roles and scopes from assignment rows.
- **GatedOperation** - the abstract promise about one revision: opened, endorsed by
  enough people other than its owner, claimed, sent at most once, never once closed,
  and reported as what the provider did.
- **Approvals** - one revision seen from the API. Every handler is one action, because
  it is one transaction that takes the row lock first. `Decide` has all the guards of
  `decide` in its order of effect; `DecideExpired` is its error answer that commits;
  approving level 1 of a critical route writes two transitions in one step. Requests
  that are refused change nothing and are no steps. Each version a client may have read
  is tried as the expected version, each level, scope and acknowledgement set as input.
- **Revalidation** - the gate predicates as pure operators.
- **Execution** - extends Approvals with workers, the row lock, the provider, crashes
  and the clock. A worker's work is cut where others can interleave with an effect;
  `worker[w]` holds what it carries in local variables across those points (the bundle,
  the snapshot, the reply, the attempt count it read, how far the gates are). Phase 3 is
  several steps: `LockForGates` takes the row lock, `CheckApprover` reads the roles of
  one approver, which the row lock does not cover, and `RevalidateGates` decides and
  commits. `gate.moments` is a history of what `role_assignments` held in the meantime.
  `BeginCommand`/`EndCommand` bracket an API transaction so that NOWAIT lockers can meet
  it.
- **PolicyDecision** - the result of `evaluate_policy` as the other modules read it.
- **RiskPolicy** - `evaluate_risk` and `evaluate_policy` as operators, and the seed bundle.
- **PolicyReview** - composes RiskPolicy and Revalidation: an intent is evaluated at
  creation and again at gate 3, with bundles activated in between. It justifies the
  assumption on `Policies` in Approvals (`IsPolicy`).
- **Idempotency** - the mutation routes around `begin` and `complete`. An action per
  await that others can see: the lookup, the insert (which waits for a duplicate's open
  transaction), the model call, the command, the answer, the commit. What a command does
  is reduced to a serial number, so that two executions are told apart.
- **AuditChain** - hash, link, append and verification as operators.
- **Outbox** - publishers step by step over the rows, their leases and the chain.
- **PolicyBundles** - registration and activation statement by statement, with
  PostgreSQL's READ COMMITTED rules for the bulk update and for the unique index.
- **RoleAdministration** - grant, revoke, bootstrap, restart and the clock. A command
  reads in one step and writes in another.
- **MC...** - constants for TLC, one module per specification. Each specification states
  its types (`TypeOK`); the runs list those of Approvals, Execution and PolicyReview, the
  ones whose rows are written in many places.
- **ApprovalsProofs**, **ExecutionProofs**, **IdempotencyProofs**, **OutboxProofs**,
  **PolicyBundlesProofs**, **PolicyReviewProofs**, **RoleAdministrationProofs** - theorems,
  each about the module it is named after. ExecutionProofs extends ApprovalsProofs, since
  Execution takes the approval commands over as they are.

Definitions marked `Mutant` are faulty variants of the definition that follows them;
each property has one that breaks it.

### Correspondence of the state

| Variable | Rows or values |
|---|---|
| `state`, `version`, `requester`, `expiresAt` | `action_intents.state`, `state_version`, `requester_id`, `approval_expires_at` |
| `policy` | the generation-1 `policy_evaluations` row |
| `transitions`, `outbox`, `decisions` | the revision's rows in those tables (`seen` in a decision is a history value) |
| `assignments` | unrevoked `role_assignments` rows |
| `activePolicy` | what `evaluate_policy` says of this intent under the active bundle |
| `execution` | the `executions` row |
| `lock` | who holds `FOR UPDATE` on the intent row |
| `targetVersion`, `effect` | the provider's resource version and its record under the operation key |
| `sends`, `appliedTo` | history, for the properties |
| `records`, `applied`, `answers` (Idempotency) | `idempotency_records`; commands whose rows are committed; what clients were told |
| `handler[h]`, `tx[t]`, `publisher[p]` | the local variables and uncommitted writes of one request, transaction or publisher |
| `outbox`, `audit`, `chainLock` (Outbox) | `outbox_messages` by sequence, `audit_events` per aggregate, advisory locks |
| `holder`, `notified`, `collided` | history, for the properties |
| `registered`, `active`, `announced` (PolicyBundles) | `policy_bundles`, the `administration.policy_changed` rows |
| `rows`, `announced` (RoleAdministration) | `role_assignments`, `administration.role_changed` rows |
| `rule`, `verdict` (PolicyReview) | the active bundle's rule for the tool, the result of gate 3 |

### Abstractions

- One revision. Each handler names its revision and touches only that revision's rows
  (and assignments and bundles, which are modelled), so revisions do not interact
  except through the worker's choice of which to serve.
- The digest is a flag of the command; gate 1 always passes, since nothing updates the
  columns it covers. Tools and parameters appear only through the policy and the
  environment.
- One clock for the database and the workers. `Cap` makes timers that would run past the
  bound fire at the bound, which stands for all later times.
- Grants are valid from the grant on; revoked rows are removed, as every reader skips
  them. Outbox rows of administration commands are left out.
- The session keeps its copy of a row after a commit (`expire_on_commit=False`), so the
  REVALIDATING test of phase 3 is vacuous and the action has no such guard.
- The provider remembers its outcomes, may refuse, fail, lose or delay a request, and a
  status lookup may always come back empty.
- Every fetch yields a version. The only adapter always returns a `resource_version`
  (`adapters/demo.py:76-90`), so the arm of `execute` for a permit without one
  (`demo.py:109`) is not reached.
- `decide` reads the roles and scopes of its one actor in the step that commits, while
  a revocation may fall between the two in the code. The properties of decisions are about
  who decided, on what and when, and about the roles only at the gates, where each read
  is a step of its own.
- Recovery is one step: its unlocked reads are repeated by the test of the locked row.
- Hashes are injective: an event hash is the term of the fields it covers, and request
  hashes are equal exactly when the bodies are.
- Idempotency fixes tenant and actor. `AnswersBeforeCommit` is a constant, because the
  order of the response and of `get_session`'s commit is the framework's: the version in
  `uv.lock` (0.141.1) answers first. A response recorded in `answers` may also have been
  lost on its way; the properties hold of what a client may have seen.
- Outbox reduces time to its effects (a lease expires, a backoff elapses). The short
  transactions of `_finalize` and `_reschedule` are one step each: they only write the
  columns they changed, so that two of them interleaved have the effect of one order.
  `attempts` is left out, as nothing reads it. Every topic in use is an audit topic.
- PolicyBundles and RoleAdministration fix the tenant. Registration events are left out
  of `announced`, which is about activations; the sequence number of an activation may
  be drawn before or after the wait for the index, as the unit of work orders it.
- The bootstrap's backfill of scopes on existing demo rows (`bootstrap.py:56-59`) is left
  out: rows have no scopes in RoleAdministration, and no property there reads them.
- A rule in RiskPolicy is what the conversions of `evaluate_policy` make of the JSON. The
  risk context is always the default in both callers; `BandIsReference` varies it. The
  replica count of an intent is reduced to whether it is within the documented bounds;
  `evaluate_risk` does not read it.
- A chain without rows does not verify, as in the code.
- A batch in Outbox is a set of sequence numbers, of which the least comes next.

## 3. Runs

| Run | Checks | Result |
|---|---|---|
| `approvals` | `ApprovalsTypeOK`, `ApprovalEvidence`, `DecisionsBindWhatWasSeen`, `DecisionsInWindow`, `ImplementsGate` | hold; 267,264 states |
| `execution` | `TypeOK`, `LegalWalk`, `EveryTransitionAnnounced`, `AtMostOneSend`, `ClosedNeverSent`, `OutcomeIsEvidence`, `EffectOnCheckedTarget`, `RowsAgree`, `ClaimIsExclusive`, `UnknownNotAbandoned`, `PassesOnCurrentAuthority`, `SettledForGood`, `ImplementsOperation` | hold; 608,464 states |
| `liveness` | `ExecutingResolves`, `UnknownSettles` under `FairSpec` | hold; 52,488 states |
| `idempotency` | `AppliedOnce`, `AnswersBelong`, `NoPendingLeft`, `ErrorsAreDurable`, `EveryRequestServed` | hold; 433,639 states |
| `outbox` | `AuditedOnce`, `ChainVerifies`, `NeverCollides`, `PublishedMeansDelivered`, `EventuallyPublished` | hold; 315,765 states |
| `policy_bundles` | `OneActive`, `LastAnnouncedIsActive` | hold; 9,350 states |
| `role_administration` | `TrailExplainsRows`, `RegrantFollowsRevocation` | hold; 187,734 states |
| `policy_review` | `TypeOK`, `MinimumTreatment`, `RouteStillEnough`, `BandIsReference` | hold; 14,924 states |
| `claim_stranded` | `ClaimResolves` under `FairSpec` | violated |
| `stale_policy` | `GatesUseCurrentPolicy` | violated |
| `seed_bundle` | `LevelsHaveRoles` with the seed rule | violated |
| `audit_order` | `AuditFollowsSequence` | violated |

**Bounds.** `approvals`: three people (two who can come to hold both critical roles, an
administrator), one policy per disposition and route, grants that end, lack scopes or
are for another environment, and a clock of three instants: before, at and after a
deadline. `execution`: an approver whose role may be revoked and granted again at any
point, also while the gates look him up, an administrator who may approve level 2, and
somebody without a role; a single and a critical policy; two workers (symmetric), one crash, two API transactions, two
target versions, two reconcile attempts, and leases of one tick, so that a late worker,
a recovery and a reconciliation fit in one behaviour. Two workers suffice for every
two-sided race on the row; a third would only repeat one of the roles. `liveness`: one
worker process, two crashes, three attempts, a clock of five instants with a backoff
that reaches its ceiling, and one policy that allows, since approvals play no part after
the claim. Deadlock is not checked in these: a settled revision legitimately stops.

`idempotency`: every kind of route (with the model call, with the expiry, with nothing
special), two handlers, three requests, two bodies and one fault, so that a duplicate
waits for an insert that commits or rolls back and a third request retries; the answer
leaves before the commit. `outbox`: two publishers, two rows of one aggregate that both
notify, the first of which the sink always refuses, and two faults of any kind, enough
for an outlived lease followed by a failure of either holder. `policy_bundles`: three
transactions and three versions, so that an activation can find a row that neither was
in its snapshot nor is its target. `role_administration`: four rows, so that a role can
be revoked, granted and revoked again around a restart. `policy_review`: every intent the
schemas admit up to the fields risk reads, the five seed rules and others (tightened,
loosened, invalid TTL, overlay), and no rule, each before and after. Where deadlock is
checked (Idempotency, Outbox, PolicyBundles, RoleAdministration), a final `Quiet` or
`Drained` step, or the restart, marks the states in which nothing is left to do.

**Fairness.** Time passes; a transaction that was begun ends; and every worker that can
take a step takes one, because `supervise` loops for ever and backs off after any
exception. Nothing is assumed of clients, the provider, the target or crashes, which are
bounded. A lock is never kept: commands are bounded and workers release theirs. In
Idempotency and RoleAdministration the event loop continues every request that can
continue, and PostgreSQL wakes a waiting insert; in Outbox `supervise` gives every
publisher another tick, and leases and backoffs end with the wall clock.

**What the violations show.**

- *claim_stranded*: phase 3 and the fetch-failure handler lock with NOWAIT. If a command
  (a cancellation that will be refused, say) holds the row at that moment, the worker
  gives up and the committed claim stays in REVALIDATING, which no pass selects.
  `application/revalidation.py:538` says "the intent never stays in REVALIDATING". The
  branch that retakes an expired claim does not help (`revalidation.py:382`, "Expired
  lease: retake the same claim row; still at most one permit"): it is behind the test that
  the intent is AUTO_APPROVED or APPROVED, while phase 1 commits the claim together with
  REVALIDATING, from which no edge leads back. `tests/failure/test_worker_crash.py:237-263`
  and `tests/integration/test_concurrent_claim.py:173-214` reach the branch, with
  `attempt == 2`, by inserting a CLAIMED row beside an APPROVED intent, which no run of
  the program commits. `Claim` therefore has no retake, and no property speaks of `attempt`.
- *stale_policy*: gate 3 uses the bundle read before the claim; a stricter one activated
  during the target fetch is missed. `docs/architecture/approval-state-machine.md:112`
  says "A policy change is re-evaluated. A stricter result stales the revision".
- *seed_bundle*: the seed rule for `provision_resource` names one role; with
  `cost_class` high the route is critical and level 2 has no role.
  `application/commands.py:123` says such routes require a role for each level.
- *audit_order*: a failed delivery is retried after its successors.
  `infrastructure/orm.py:133` says the audit sequence "must follow causal order".

Other things met while modelling, which the models reproduce and no run is about:

- With two workers both may poll the provider in one due window, since `reconcile` reads
  the execution row before it waits for the lock, and both may announce the exhausted
  budget. `worker.py:60` says "at most one status call per due window".
- With the framework version in `uv.lock` the answer leaves before `get_session` commits
  (`AnswersBeforeCommit`): a process that dies in between has told a client of a command
  that a retry runs again. Nothing is applied twice (`AppliedOnce`).
- An error after the model call rolls the reservation back, so a retry calls the model
  again.
- The lease does not fence a late publisher, as all have the same `worker_id`, and a
  repeated delivery adds a second `notification.delivered` row. `causation_id` keeps the
  audit trail right all the same (`AuditedOnce`).
- A concurrent second revocation overwrites `revoked_at`.
- `docs/architecture/risk-policy-model.md:41-42` demands at least HIGH for a
  `scale_service` outside 1 to 10 replicas or by more than 3, also outside production.
  `evaluate_risk` never reads `replicas`, which `agent/schemas.py:87` admits from 0 to
  1000, so in staging the band is MEDIUM (the architecture review names the gap,
  `docs/architecture/architecture-review.md:170`). `BandIsReference` excludes exactly these
  intents (`ScalesOutOfBounds`), since there the code and its document disagree, and
  `MinimumTreatment` promises nothing about them.
- The role reads of gate 2 are separate statements at READ COMMITTED and only the intent
  row is locked, so a revocation that commits after the read and before the gates commit
  does not stop the execution. `revalidation.py:150` says that "a revocation of either
  blocks execution". `PassesOnCurrentAuthority` says what is true: each approver who counts
  had the authority at some moment since the gates took the lock.
- A demo role that was revoked and granted again has two rows, and the next start of the
  bootstrap fails (`Ambiguous`); `bootstrap.py:3` calls it idempotent.

## 4. Proofs

`ApprovalsProofs` proves about `ApprovalsSpec`, for all constants that satisfy the named
assumptions (policies have the shape `evaluate_policy` guarantees, `None` is not a
state, a person or a number):

| Theorem | Statement |
|---|---|
| `TypeCorrect` | `[]ApprovalsTypeOK` |
| `InductiveInvariant` | `[]ApprovalsInv` |
| `EvidenceHolds` | `[]ApprovalEvidence` |
| `WalkHolds` | `[]LegalWalk` |
| `WindowHolds` | `[]DecisionsInWindow` |
| `EvidenceInvariant` | `[]EvidenceInv` |
| `TransitionsAnnounced` | `[]EveryTransitionAnnounced` |
| `DecisionsAreBound` | `[]DecisionsBindWhatWasSeen` |
| `GateRefined` | `ImplementsGate` |

`ApprovalEvidence` is not inductive: that level 2 completes a route is only true because
a revision that waits for level 2 has a level-1 approval (`WaitingStates`), because no
approval was ever the requester's (`NoOwnApproval`), because a waiting revision's policy
has a route and a deadline, and because the intermediate states are never committed
(`NeverCommitted`). `ApprovalsInv` is the conjunction of these with the three invariants
to be proved; TLC confirms it on the `approvals` instance. The step proof has a case
per action: creation starts the walk and has no decisions; expiry and cancellation only
close; `Decide` is the real case; administration and time leave the rows alone. The
refinement maps states to phases and decisions to endorsers, and shows each action to be
a step of the gate or a stutter under the invariant.

The evidence beside the row has an invariant of its own, `EvidenceInv`. Its first part is
stated by counting instead of filtering: the i-th message that announces a transition
names the target of the row with the number of announcements so far. Appending a row with
its message adds one to both counts (`AnnouncedUpTo` is a cardinality, so no induction
over the sequence is needed); a message without a transition changes neither. That a
decision is about what its author saw needs `SeenIsPast`: the version seen is that of an
earlier row, so the rows appended later never change what it refers to.

`ExecutionProofs` proves about `Spec` of `Execution`, commands, workers, recovery,
reconciliation and provider together, for any number of workers, any leases and attempt
budget and any bound on commands, crashes and changes of the target:

| Theorem | Statement |
|---|---|
| `ExecutionInvariant` | `[]ExecutionInv` |
| `TypesHold` | `[]TypeOK` |
| `SentAtMostOnce` | `[]AtMostOneSend` |
| `ClosedWasNeverSent` | `[]ClosedNeverSent` |
| `OutcomesAreTrue` | `[]OutcomeIsEvidence` |
| `CheckedTarget` | `[]EffectOnCheckedTarget` |
| `RowsAlwaysAgree` | `[]RowsAgree` |
| `ClaimsExclude` | `[]ClaimIsExclusive` |
| `UnknownIsEscalated` | `[]UnknownNotAbandoned` |
| `ApprovalsStillHold` | `[](LegalWalk /\ ApprovalEvidence /\ DecisionsInWindow)` |
| `EvidenceStillHolds` | `[](EveryTransitionAnnounced /\ DecisionsBindWhatWasSeen)` |
| `Settled` | `SettledForGood` |
| `AuthorityIsCurrent` | `PassesOnCurrentAuthority` |
| `OperationRefined` | `ImplementsOperation` |

None of these is inductive alone. `AtMostOneSend` rests on what a worker with a permit may
rely on: nothing was sent yet, although the row may have become EXECUTION_UNKNOWN behind
its back, in which case `execute_permit` finds the row changed and sends nothing. `WorkerKnows`
says this for every point of a worker's program. `LockDiscipline` says that a worker
holds the row lock exactly while it decides the gates or talks to the provider, so two
workers are never both there, and `SendHistory` that what was sent passed the gates and that the provider knows of
nothing else. `RowsAgree` and `ClaimIsExclusive` keep the two rows and the claim in step;
`ApprovalsInv` is carried along, because the workers write the same rows as the commands.
TLC confirms `ExecutionInv` and `EvidenceInv` on the `execution` instance. The step proof
has a lemma per action; most of the work is the frame, what an action of one worker
leaves true for the others. The assumptions are those of Approvals, that lease lengths, bounds
and backoffs are numbers and the attempt budget is not zero (`BoundsAssumption`), and that
workers, `None`, the API and execution rows are told apart (`WorkersAssumption`,
`ExecutionAssumption`).

`PassesOnCurrentAuthority` rests on `GateKnows`, the part of `WorkerKnows` about a worker
between the lock and the commit of phase 3: the approvals it has still to look up and those
it counted are approvals of this revision, and whoever it counted had the demanded role
and scopes in one of the contents the table has had since the lock was taken
(`gate.moments`). Each lookup reads the table of its own moment, so two approvers need
not have held their roles at the same time; that is all the code guarantees, and
a revocation after a lookup leaves the fact true of the earlier content. Rows granted after
the transaction began may or may not be valid at its `now()`; since roles only grow with
rows, the fact holds for the whole content if it holds for a part. `OneLevelRoutes` is
needed beside it: a single route only has approvals of level 1. On such a route gate 2
accepts any of the route's roles, not the first one only, and the property says so.

The refinement maps every state to a phase of `GatedOperation` and the decisions to
endorsers. Commands map to Open, Endorse, Close or a stutter; a worker's steps to Claim,
Send, Report, Lose or a stutter; the provider's to Land; reconciliation to the late report.

`PolicyReviewProofs` proves about `PolicyReview`, for every set of rules in which a TTL is
an integer and roles form a tuple (what the conversions of `evaluate_policy` guarantee):

| Theorem | Statement |
|---|---|
| `RiskNeverBelowMinimum` | for every intent and context `evaluate_risk` returns a band, and none below the tool's minimum |
| `InductiveInvariant` | `[]IInv` |
| `TypeCorrect` | `[]TypeOK`: every evaluation satisfies `IsPolicy` |
| `MinimumHolds` | `[]MinimumTreatment` |
| `RouteIsEnough` | `[]RouteStillEnough` |
| `BandsAreReference` | `[]BandIsReference` |

`TypeOK` and `MinimumTreatment` say something of each policy in the state, and neither is
inductive, since gate 3 stores what it computes from the active rule: `IInv` says that the
stored policy and the one gate 3 judged are evaluations of this intent under some rule,
and that what passed was compared with the stored policy and found no stricter.
The lemmas then do the work: `RaiseBandBounds`, `RaiseForFlagsIs` (the recursion over the
flags has at most five rounds, so the proof gives its solution explicitly),
`RiskIsReference` (the closed form of the accumulation), `BandOfIntent`, `RolesForRule`,
`EvaluationShape`, `EvaluationMinimum` and `NoStricterRoute`.
`TypeCorrect` also discharges what ApprovalsProofs assumes of `Policies`. Roles are tuples
of any values (`IsRoles`), since the set of all strings is out of the provers' reach.

`IdempotencyProofs` proves about `Idempotency`, for any number of handlers, requests, keys,
bodies and faults and for both orders of answer and commit:

| Theorem | Statement |
|---|---|
| `InductiveInvariant` | `[]IInv` |
| `ExactlyOnce` | `[]AppliedOnce` |
| `NoForeignAnswer` | `[]AnswersBelong` |
| `NothingPending` | `[]NoPendingLeft` |
| `ExpiryDurable` | `[]ErrorsAreDurable` |

None of the four is inductive: that a commit adds the only execution of its slot is true
because a slot has at most one uncommitted reservation (`Exclusive`), which exists only
while there is no record (`Unrecorded`), because everything committed has its record
(`AppliedRecorded`), and because requests, records and answers carry serials drawn for
exactly their slot and body (`InFlight`, `RecordsComplete`, `AnswersSound`).

`OutboxProofs` proves about `Outbox`, for any number of publishers, rows, aggregates, batch
sizes and faults:

| Theorem | Statement |
|---|---|
| `InductiveInvariant` | `[]IInv` |
| `OneEventPerRow` | `[]AuditedOnce` |
| `EvidenceVerifies` | `[]ChainVerifies` |
| `NoCollision` | `[]NeverCollides` |
| `PublishedJustlyAlways` | `[]PublishedMeansDelivered` |

The heart is `InStep`, what a publisher has established at each step: while it is about to
insert it holds the lock, the link it read is still the last one and the cause is still
missing; past the audit transaction the event is there; before it finalizes, the
notification is accepted and recorded. `AppendSound` shows that appending after the last
link keeps a chain linked with one event per cause. `verify_aggregate_chain` refuses a chain
without events, so `ChainVerifies` speaks of aggregates that have one or of which a row was
published; for the latter it needs that a published row was audited
(`PublishedMeansDelivered`). `UndisturbedStays` is the frame: the
steps of others add rows and evidence and leave a locked chain alone. Leases occur nowhere
in the invariant: these promises do not rest on them, only the retries do.

`PolicyBundlesProofs` proves about `PolicyBundles`, for any number of administrators,
versions and commands:

| Theorem | Statement |
|---|---|
| `InductiveInvariant` | `[]IInv` |
| `OneActiveAlways` | `[]OneActive` |
| `LastAnnouncedHolds` | `[]LastAnnouncedIsActive` |

`InOrder` says that a transaction that has deactivated the active row holds its lock since
before it drew its sequence number, so its number is above all committed ones, and that one
which passed the unique index without deactivating anything only confirms the active row.
A transaction about to commit thus holds the active row's lock, and is the only one.

`RoleAdministrationProofs` proves about `RoleAdministration`, for any number of
administrators, principals, rows and environments and any finite set of demo roles (the
bootstrap inserts them one after the other):

| Theorem | Statement |
|---|---|
| `TypeCorrect` | `[]TypeOK` |
| `TrailHolds` | `[]TrailExplainsRows` |
| `RegrantsFollow` | `[]RegrantFollowsRevocation` |

A revocation tests a row in one step and writes it by key in another, so `TypeOK` also says
that a request in between names a row that exists; rows are never removed, and so it still
does at the write. With it the trail is inductive: a new row has an index no event
mentions (`EventsBounds`), an event adds its own position only (`EventsAppend`), and a
second revocation adds a second event, which the property allows. `BootstrapAdds` says what
a start appends, in any order: one row each for roles without any row, revoked ones included.

`RegrantFollowsRevocation` takes the trail with it. A start adds rows for pairs that had
none, and different ones, so it creates no second row; a grant passes the unique index at
its insert only if every earlier row of the same kind is revoked by then, though it read
the table before; by `TrailExplainsRows` that revocation has its event, and the grant's
own event comes after all there are. Events are never taken back, so the order stays.

Every safety and action property of a passing run is thus also a theorem. Only
model-checked are the four liveness properties, `ExecutingResolves`, `UnknownSettles`,
`EveryRequestServed` and `EventuallyPublished`, since fairness is out of the prover's reach.

## 5. Not modelled

- Canonicalisation and digest: an encoding of strings; a wrong digest is an input.
- The body limit and the rate limiters in front of the routes, and the read endpoints
  (`get_intent`, `get_events`, the inbox): they change no row of the lifecycle.
- Token validation, error texts, health routes, logging, metrics, settings: no state that
  the lifecycle reads.
- What the demo provider does to its resources, beyond versions and outcomes.
- The worker's choice among several revisions (five at a time, in no order): one revision
  is modelled, and the query promises no order on which fairness could rest.
- `tools/e2e_check.py` and the migrations, other than the indexes, the sequence and the
  seed bundle.

## 6. Plan

1. *(done)* StateMachine, Authorization, Approvals, GatedOperation, their run and proofs;
   Revalidation and Execution with their runs.
2. *(done)* Idempotency; Outbox and AuditChain; PolicyBundles and RoleAdministration;
   RiskPolicy and PolicyReview; proofs about all of these but RoleAdministration.
3. *(done)* `ExecutionProofs`, with the refinement of GatedOperation;
   `RoleAdministrationProofs`; the evidence in ApprovalsProofs; the route and the band in
   PolicyReviewProofs.
4. Theorems about GatedOperation itself, so that what the refinement transfers is stated on
   the abstract level too; common lemmas of ApprovalsProofs and ExecutionProofs made shorter.
