------------------------------ MODULE Execution ------------------------------
(***************************************************************************)
(* The worker side of one intent revision, composed with the commands of   *)
(* module Approvals: claiming and revalidation                             *)
(* (application/revalidation.py), the provider call                        *)
(* (application/execution.py), reconciliation                              *)
(* (application/reconciliation.py), and the tick that drives them and      *)
(* recovers dead executions (worker.py).                                   *)
(*                                                                         *)
(* A worker's transaction is split where another process can run: at the   *)
(* commit after the claim, around the unlocked target fetch, at every read *)
(* of role assignments the gates make (the row lock does not cover that    *)
(* table), between the permit and the lock that execute_permit waits for,  *)
(* around provider calls (which run under the row lock), and between       *)
(* reading an execution row and locking its intent.  The row lock is       *)
(* explicit, because some handlers wait for it and others (NOWAIT) give up.*)
(***************************************************************************)
EXTENDS Approvals, Revalidation

CONSTANTS
    Workers,
    ClaimLease,        \* DEFAULT_CLAIM_LEASE_SECONDS
    RecoveryLease,     \* RECOVERY_LEASE_SECONDS
    MaxReconcile,      \* MAX_RECONCILE_ATTEMPTS
    BackoffBase,       \* RECONCILE_BACKOFF_BASE_SECONDS
    BackoffCeiling,    \* RECONCILE_BACKOFF_CEILING_SECONDS
    MaxCommands,       \* bound on API transactions on the row
    MaxCrashes,        \* bound on worker crashes
    MaxTargetVersion   \* bound on changes of the live target

VARIABLES
    execution,      \* the executions row, None before the claim
    worker,         \* what each worker process is doing
    lock,           \* who holds the row lock: None, "api" or a worker
    commands,       \* API transactions begun so far (bounded)
    crashes,        \* worker crashes so far (bounded)
    targetVersion,  \* the live target's resource version
    effect,         \* the provider's record under the operation key
    sends,          \* provider calls made (history)
    appliedTo       \* the target version the effect was applied to (history)

workerVars   == <<execution, worker, lock, crashes>>
providerVars == <<targetVersion, effect, sends, appliedTo>>
vars == <<approvalVars, workerVars, providerVars, commands>>

ASSUME BoundsAssumption ==
    /\ ClaimLease \in Nat /\ RecoveryLease \in Nat
    /\ MaxReconcile \in Nat \ {0}
    /\ BackoffBase \in Nat /\ BackoffCeiling \in Nat
    /\ MaxCommands \in Nat /\ MaxCrashes \in Nat /\ MaxTargetVersion \in Nat
ASSUME WorkersAssumption == None \notin Workers /\ "api" \notin Workers

Idle == [pc |-> "idle", bundle |-> None, snapshot |-> None, gate |-> None,
         reply |-> None, tries |-> 0]

Become(w, r) == worker' = [worker EXCEPT ![w] = r]

\* The end of the bounded clock stands for every later time, so a timer that
\* would run past it fires there.
Cap(t) == IF t > MaxTime THEN MaxTime ELSE t

------------------------------------------------------------------------------
(* Claim and revalidation *)

\* revalidation.py has its own _record_transition and _outbox.
RecordClaimTransition(target) == RecordTransition(target, "intent.transitioned")

\* Mutant: a claim without a lease.
NewExecutionWithoutLease ==
    [status |-> "CLAIMED", attempt |-> 1, claimExpiresAt |-> None,
     resourceVersion |-> None, reconcileAttempts |-> 0, nextReconcileAt |-> None]

NewExecution ==
    [status |-> "CLAIMED", attempt |-> 1, claimExpiresAt |-> Cap(now + ClaimLease),
     resourceVersion |-> None, reconcileAttempts |-> 0, nextReconcileAt |-> None]

\* Mutant: the claim row is written, the intent is not moved.
ClaimWithoutTransition(w) ==
    /\ worker[w].pc = "idle"
    /\ lock = None
    /\ state \in {"AUTO_APPROVED", "APPROVED"}
    /\ execution = None
    /\ execution' = NewExecution
    /\ Become(w, [Idle EXCEPT !.pc = "fetch", !.bundle = activePolicy])
    /\ UNCHANGED <<approvalVars, lock, crashes, commands, providerVars>>

\* Phase 1 of claim_and_revalidate, with the bundle worker._claim read just
\* before it.  The branch that retakes an expired claim is kept as written.
Claim(w) ==
    /\ worker[w].pc = "idle"
    /\ lock = None
    /\ state \in {"AUTO_APPROVED", "APPROVED"}
    /\ IF execution = None
       THEN execution' = NewExecution
       ELSE /\ ~(execution.status = "CLAIMED" /\ execution.claimExpiresAt > now)
            /\ execution' = [execution EXCEPT !.attempt = @ + 1, !.status = "CLAIMED",
                                              !.claimExpiresAt = Cap(now + ClaimLease)]
    /\ RecordClaimTransition("REVALIDATING")
    /\ Become(w, [Idle EXCEPT !.pc = "fetch", !.bundle = activePolicy])
    /\ UNCHANGED <<requester, expiresAt, policy, decisions, adminVars, now,
                   lock, crashes, commands, providerVars>>

\* Phase 2, no lock held: the live target is read, or both attempts fail.
FetchTarget(w) ==
    /\ worker[w].pc = "fetch"
    /\ \/ \E passes \in BOOLEAN :
             Become(w, [worker[w] EXCEPT !.pc = "gates",
                            !.snapshot = [passes |-> passes, version |-> targetVersion]])
       \/ Become(w, [worker[w] EXCEPT !.pc = "fetch_failed"])
    /\ UNCHANGED <<approvalVars, execution, lock, crashes, commands, providerVars>>

\* Phase 3 takes the lock with NOWAIT, and db_now is the start of its
\* transaction.  Its test for REVALIDATING is no guard: the session still holds
\* the row as phase 1 left it (sessions do not expire on commit), so the select
\* returns that copy and the test always passes.  ClaimIsExclusive says why
\* that is harmless.  Past the deadline no approval is looked up.
\* gate.moments is a history: every content the table of role assignments has
\* had since the lock was taken.
LockForGates(w) ==
    /\ worker[w].pc = "gates"
    /\ lock = None
    /\ lock' = w
    /\ \E todo \in IF expiresAt # None /\ expiresAt <= now THEN {{}}
                   ELSE Lookups(policy, decisions) :
          Become(w, [worker[w] EXCEPT !.pc = "authority",
                         !.gate = [at |-> now, moments |-> {assignments},
                                   todo |-> todo, held |-> {}]])
    /\ UNCHANGED <<approvalVars, execution, crashes, commands, providerVars>>

\* _approver_failure_reason for one approval, level 1 before level 2.  The row
\* lock does not cover role_assignments, so each lookup sees the table as it
\* is by then; a row granted since the transaction began counts or not,
\* depending on whether its valid_from lies before db_now.
CheckApprover(w) ==
    LET gate         == worker[w].gate
        grantedSince == {a \in assignments : \E rows \in gate.moments : a \notin rows}
    IN  /\ worker[w].pc = "authority"
        /\ \E d \in gate.todo, young \in SUBSET grantedSince :
              /\ \A e \in gate.todo : d.level <= e.level
              /\ LET holds == StillAuthorized(assignments \ young, d.actor,
                                              DemandedRoles(policy, d), policy.scopes,
                                              gate.at, Environment)
                 IN  Become(w, [worker[w] EXCEPT
                        !.gate.todo = IF holds THEN @ \ {d} ELSE AfterRefusal(policy, @, d),
                        !.gate.held = IF holds THEN @ \cup {d} ELSE @])
        /\ UNCHANGED <<approvalVars, execution, lock, crashes, commands, providerVars>>

\* _revalidate_gates: the state the claim moves to.
GateVerdict(w) ==
    IF expiresAt # None /\ expiresAt <= worker[w].gate.at
    THEN "EXPIRED"
    ELSE IF /\ Confirmed(policy, worker[w].gate.held)
            /\ PolicyHolds(worker[w].bundle, policy)
            /\ worker[w].snapshot.passes
         THEN "EXECUTING"
         ELSE "STALE"

\* The rest of phase 3, up to its commit.
RevalidateGates(w) ==
    /\ worker[w].pc = "authority"
    /\ worker[w].gate.todo = {}
    /\ LET verdict == GateVerdict(w)
       IN  /\ RecordClaimTransition(verdict)
           /\ IF verdict = "EXECUTING"
              THEN /\ execution' = [execution EXCEPT !.status = "EXECUTING",
                                        !.resourceVersion = worker[w].snapshot.version]
                   /\ Become(w, [Idle EXCEPT !.pc = "permit"])
              ELSE /\ execution' = [execution EXCEPT !.status = "FAILED"]
                   /\ Become(w, Idle)
    /\ lock' = None
    /\ UNCHANGED <<requester, expiresAt, policy, decisions, adminVars, now,
                   crashes, commands, providerVars>>

\* Mutant: the execution row is left CLAIMED.
FailLeavingClaim(w) ==
    /\ worker[w].pc = "fetch_failed"
    /\ lock = None
    /\ RecordClaimTransition("STALE")
    /\ Become(w, Idle)
    /\ UNCHANGED <<requester, expiresAt, policy, decisions, adminVars, now,
                   execution, lock, crashes, commands, providerVars>>

\* _fail_after_fetch_failure, also NOWAIT and on the session's copy.
FailAfterFetchFailure(w) ==
    /\ worker[w].pc = "fetch_failed"
    /\ lock = None
    /\ RecordClaimTransition("STALE")
    /\ execution' = [execution EXCEPT !.status = "FAILED"]
    /\ Become(w, Idle)
    /\ UNCHANGED <<requester, expiresAt, policy, decisions, adminVars, now,
                   lock, crashes, commands, providerVars>>

\* Either of them finds the row locked: StateConflictError, and worker._claim
\* goes on to the next intent.
ClaimConflict(w) ==
    /\ worker[w].pc \in {"gates", "fetch_failed"}
    /\ lock # None
    /\ Become(w, Idle)
    /\ UNCHANGED <<approvalVars, execution, lock, crashes, commands, providerVars>>

------------------------------------------------------------------------------
(* The provider call *)

\* Mutant: a late permit is not checked against the row.
LockForExecuteUnchecked(w) ==
    /\ worker[w].pc = "permit"
    /\ lock = None
    /\ lock' = w
    /\ Become(w, [Idle EXCEPT !.pc = "send"])
    /\ UNCHANGED <<approvalVars, execution, crashes, commands, providerVars>>

\* execute_permit waits for the row lock, then insists on EXECUTING.
LockForExecute(w) ==
    /\ worker[w].pc = "permit"
    /\ lock = None
    /\ IF state = "EXECUTING"
       THEN lock' = w /\ Become(w, [Idle EXCEPT !.pc = "send"])
       ELSE lock' = lock /\ Become(w, Idle)
    /\ UNCHANGED <<approvalVars, execution, crashes, commands, providerVars>>

\* What the provider can make of a request, and what the adapter tells of it:
\* refused before it was sent, answered, or an error or timeout after which
\* it may or may not have arrived.
ProviderAnswers ==
    {[reply |-> "SUCCEEDED", effect |-> "SUCCEEDED"],
     [reply |-> "FAILED",    effect |-> "FAILED"],
     [reply |-> "FAILED",    effect |-> "none"],
     [reply |-> "UNKNOWN",   effect |-> "none"],
     [reply |-> "UNKNOWN",   effect |-> "inflight"]}

\* Mutant: no compare-and-mutate.
AnswersUnconditionally == ProviderAnswers

\* The provider compares the version the permit carries with its own before
\* it changes anything (AdapterPreSendError, no side effect).
Answers ==
    IF execution.resourceVersion # targetVersion
    THEN {[reply |-> "FAILED", effect |-> "none"]}
    ELSE ProviderAnswers

\* The adapter call of execute_permit, under the lock, and classify_outcome.
SendToProvider(w) ==
    /\ worker[w].pc = "send"
    /\ \E answer \in Answers :
          /\ Become(w, [Idle EXCEPT !.pc = "sent", !.reply = answer.reply])
          /\ effect' = answer.effect
          /\ appliedTo' = IF answer.effect = "SUCCEEDED" THEN targetVersion ELSE appliedTo
    /\ sends' = sends + 1
    /\ UNCHANGED <<approvalVars, execution, lock, crashes, commands, targetVersion>>

\* Mutant: no answer is taken for a failure.
OutcomeGuessed(outcome) ==
    IF outcome = "UNKNOWN" THEN "FAILED" ELSE outcome

OutcomeState(outcome) ==
    IF outcome = "UNKNOWN" THEN "EXECUTION_UNKNOWN" ELSE outcome

OutcomeTopic == [SUCCEEDED |-> "execution.succeeded", FAILED |-> "execution.failed",
                 EXECUTION_UNKNOWN |-> "execution.execution_unknown"]

\* Mutants: the version is not bumped; an unknown outcome is tried again.
RecordOutcomeUnversioned(w) ==
    /\ worker[w].pc = "sent"
    /\ LET outcome == worker[w].reply
           target  == OutcomeState(outcome)
       IN  /\ IsLegal(state, target)
           /\ transitions' = Append(transitions, TransitionRow(state, target))
           /\ outbox' = Append(outbox, Message(OutcomeTopic[target], target))
           /\ state' = target
           /\ execution' = [execution EXCEPT !.status = outcome]
    /\ lock' = None
    /\ Become(w, Idle)
    /\ UNCHANGED <<version, requester, expiresAt, policy, decisions, adminVars, now,
                   crashes, commands, providerVars>>

RecordOutcomeOrRetry(w) ==
    /\ worker[w].pc = "sent"
    /\ IF worker[w].reply = "UNKNOWN"
       THEN /\ Become(w, [Idle EXCEPT !.pc = "permit"])
            /\ UNCHANGED <<state, version, transitions, outbox, execution>>
       ELSE /\ RecordTransition(worker[w].reply, OutcomeTopic[worker[w].reply])
            /\ execution' = [execution EXCEPT !.status = worker[w].reply]
            /\ Become(w, Idle)
    /\ lock' = None
    /\ UNCHANGED <<requester, expiresAt, policy, decisions, adminVars, now,
                   crashes, commands, providerVars>>

\* The rest of execute_permit: outcome, evidence and commit.
RecordOutcome(w) ==
    /\ worker[w].pc = "sent"
    /\ LET outcome == worker[w].reply
           target  == OutcomeState(outcome)
       IN  /\ RecordTransition(target, OutcomeTopic[target])
           /\ execution' = [execution EXCEPT !.status = outcome]
    /\ lock' = None
    /\ Become(w, Idle)
    /\ UNCHANGED <<requester, expiresAt, policy, decisions, adminVars, now,
                   crashes, commands, providerVars>>

------------------------------------------------------------------------------
(* Recovery and reconciliation *)

\* Mutants: a dead execution is closed instead of reconciled; only claims
\* that never reached EXECUTING are looked for.
RecoverAs(w, status, target) ==
    /\ worker[w].pc = "idle"
    /\ execution # None
    /\ execution.status = status
    /\ Cap(execution.claimExpiresAt + RecoveryLease) <= now
    /\ lock = None
    /\ state = "EXECUTING"
    /\ RecordTransition(target, "execution.execution_unknown")
    /\ execution' = [execution EXCEPT !.status = "FAILED"]
    /\ UNCHANGED <<requester, expiresAt, policy, decisions, adminVars, now,
                   worker, lock, crashes, commands, providerVars>>

RecoverAsStale(w)     == RecoverAs(w, "EXECUTING", "STALE")
RecoverClaimedOnly(w) == RecoverAs(w, "CLAIMED", "EXECUTION_UNKNOWN")

\* _recover_stale_executing: the lease and another RECOVERY_LEASE must have
\* passed; NOWAIT, and nothing is sent again.
RecoverStaleExecuting(w) ==
    /\ worker[w].pc = "idle"
    /\ execution # None
    /\ execution.status = "EXECUTING"
    /\ Cap(execution.claimExpiresAt + RecoveryLease) <= now
    /\ lock = None
    /\ state = "EXECUTING"
    /\ RecordTransition("EXECUTION_UNKNOWN", "execution.execution_unknown")
    /\ execution' = [execution EXCEPT !.status = "UNKNOWN", !.nextReconcileAt = now]
    /\ UNCHANGED <<requester, expiresAt, policy, decisions, adminVars, now,
                   worker, lock, crashes, commands, providerVars>>

Due ==
    /\ execution.status = "UNKNOWN"
    /\ execution.reconcileAttempts < MaxReconcile
    /\ execution.nextReconcileAt # None => execution.nextReconcileAt <= now

\* run_worker_tick takes a snapshot of the due executions ...
SnapshotDue(w) ==
    /\ worker[w].pc = "idle"
    /\ execution # None
    /\ Due
    /\ Become(w, [Idle EXCEPT !.pc = "due"])
    /\ UNCHANGED <<approvalVars, execution, lock, crashes, commands, providerVars>>

\* ... and later calls reconcile, which reads the execution row first ...
ReadExecution(w) ==
    /\ worker[w].pc = "due"
    /\ Become(w, [Idle EXCEPT !.pc = "read", !.tries = execution.reconcileAttempts])
    /\ UNCHANGED <<approvalVars, execution, lock, crashes, commands, providerVars>>

\* Mutant: the intent's state is not looked at again.
LockForReconcileUnchecked(w) ==
    /\ worker[w].pc = "read"
    /\ lock = None
    /\ lock' = w
    /\ Become(w, [worker[w] EXCEPT !.pc = "poll"])
    /\ UNCHANGED <<approvalVars, execution, crashes, commands, providerVars>>

\* ... and only then waits for the lock on the intent row.
LockForReconcile(w) ==
    /\ worker[w].pc = "read"
    /\ lock = None
    /\ IF state = "EXECUTION_UNKNOWN"
       THEN lock' = w /\ Become(w, [worker[w] EXCEPT !.pc = "poll"])
       ELSE lock' = lock /\ Become(w, Idle)
    /\ UNCHANGED <<approvalVars, execution, crashes, commands, providerVars>>

\* lookup_status, under the lock: the provider's record if there is one and
\* it can be reached, UNKNOWN otherwise.
LookupStatus(w) ==
    /\ worker[w].pc = "poll"
    /\ \E evidence \in {"UNKNOWN"} \cup ({effect} \cap {"SUCCEEDED", "FAILED"}) :
          Become(w, [worker[w] EXCEPT !.pc = "polled", !.reply = evidence])
    /\ UNCHANGED <<approvalVars, execution, lock, crashes, commands, providerVars>>

\* reconcile_backoff_seconds.
ReconcileBackoff(attempts) ==
    LET backoff == BackoffBase * 2 ^ (attempts - 1)
    IN  IF attempts < 1 THEN BackoffBase
        ELSE IF backoff <= BackoffCeiling THEN backoff ELSE BackoffCeiling

\* Mutants: the attempt is not counted; the budget is checked one too late.
KeepUnknownUncounted(w) ==
    /\ worker[w].reply = "UNKNOWN"
    /\ execution' = [execution EXCEPT !.nextReconcileAt = Cap(now + BackoffBase)]
    /\ UNCHANGED <<state, version, transitions, outbox>>

KeepUnknownOffByOne(w) ==
    LET attempts  == worker[w].tries + 1
        exhausted == attempts > MaxReconcile
    IN  /\ worker[w].reply = "UNKNOWN"
        /\ execution' = [execution EXCEPT
              !.reconcileAttempts = attempts,
              !.nextReconcileAt = IF exhausted THEN None
                                  ELSE Cap(now + ReconcileBackoff(attempts))]
        /\ outbox' = IF exhausted
                     THEN Append(outbox, Message("execution.reconciliation_exhausted", None))
                     ELSE outbox
        /\ UNCHANGED <<state, version, transitions>>

\* No evidence: one more attempt is counted on the row as it was read, and
\* the next one scheduled unless the budget is spent.
KeepUnknown(w) ==
    LET attempts  == worker[w].tries + 1
        exhausted == attempts >= MaxReconcile
    IN  /\ worker[w].reply = "UNKNOWN"
        /\ execution' = [execution EXCEPT
              !.reconcileAttempts = attempts,
              !.nextReconcileAt = IF exhausted THEN None
                                  ELSE Cap(now + ReconcileBackoff(attempts))]
        /\ outbox' = IF exhausted
                     THEN Append(outbox, Message("execution.reconciliation_exhausted", None))
                     ELSE outbox
        /\ UNCHANGED <<state, version, transitions>>

ResolveUnknown(w) ==
    /\ worker[w].reply # "UNKNOWN"
    /\ RecordTransition(worker[w].reply, "execution.reconciled")
    /\ execution' = [execution EXCEPT !.status = worker[w].reply, !.nextReconcileAt = None]

RecordReconciliation(w) ==
    /\ worker[w].pc = "polled"
    /\ KeepUnknown(w) \/ ResolveUnknown(w)
    /\ lock' = None
    /\ Become(w, Idle)
    /\ UNCHANGED <<requester, expiresAt, policy, decisions, adminVars, now,
                   crashes, commands, providerVars>>

------------------------------------------------------------------------------
(* Environment *)

\* A worker dies, or its database connection does: its open transaction is
\* rolled back and its locks are released; the next tick starts afresh.
Crash(w) ==
    /\ worker[w].pc # "idle"
    /\ crashes < MaxCrashes
    /\ crashes' = crashes + 1
    /\ lock' = IF lock = w THEN None ELSE lock
    /\ Become(w, Idle)
    /\ UNCHANGED <<approvalVars, execution, commands, providerVars>>

\* A request that was under way when its caller gave up arrives after all.
ProviderLands ==
    /\ effect = "inflight"
    /\ effect' \in IF execution.resourceVersion = targetVersion
                   THEN {"SUCCEEDED", "FAILED"} ELSE {"none"}
    /\ appliedTo' = IF effect' = "SUCCEEDED" THEN targetVersion ELSE appliedTo
    /\ UNCHANGED <<approvalVars, workerVars, commands, targetVersion, sends>>

TargetChanges ==
    /\ targetVersion < MaxTargetVersion
    /\ targetVersion' = targetVersion + 1
    /\ UNCHANGED <<approvalVars, workerVars, commands, effect, sends, appliedTo>>

\* An API command locks the row (NOWAIT) before it checks anything ...
BeginCommand ==
    /\ state # None
    /\ lock = None
    /\ commands < MaxCommands
    /\ commands' = commands + 1
    /\ lock' = "api"
    /\ UNCHANGED <<approvalVars, execution, worker, crashes, providerVars>>

\* ... and ends its transaction with its effect, or without one.
EndCommand ==
    /\ lock = "api"
    /\ lock' = None
    /\ Command \/ UNCHANGED approvalVars
    /\ UNCHANGED <<execution, worker, crashes, commands, providerVars>>

\* The history of gates under way takes in the table as it is now.
Witness ==
    worker' = [w \in Workers |->
                  IF worker[w].pc # "authority" THEN worker[w]
                  ELSE [worker[w] EXCEPT !.gate.moments = @ \cup {assignments'}]]

\* Creation inserts its row and administration touches other tables, so
\* neither takes part in the locking.
OtherCommands ==
    /\ (\E actor \in Actors : CreateIntent(actor)) \/ Administer
    /\ Witness
    /\ UNCHANGED <<execution, lock, crashes, commands, providerVars>>

TimePasses ==
    /\ Tick
    /\ UNCHANGED <<workerVars, commands, providerVars>>

------------------------------------------------------------------------------
Init ==
    /\ ApprovalsInit
    /\ execution = None
    /\ worker = [w \in Workers |-> Idle]
    /\ lock = None
    /\ commands = 0 /\ crashes = 0
    /\ targetVersion = 1
    /\ effect = "none" /\ sends = 0 /\ appliedTo = None

Work(w) ==
    \/ Claim(w) \/ FetchTarget(w)
    \/ LockForGates(w) \/ CheckApprover(w) \/ RevalidateGates(w)
    \/ FailAfterFetchFailure(w) \/ ClaimConflict(w)
    \/ LockForExecute(w) \/ SendToProvider(w) \/ RecordOutcome(w)
    \/ RecoverStaleExecuting(w)
    \/ SnapshotDue(w) \/ ReadExecution(w) \/ LockForReconcile(w)
    \/ LookupStatus(w) \/ RecordReconciliation(w)

Next ==
    \/ \E w \in Workers : Work(w) \/ Crash(w)
    \/ BeginCommand \/ EndCommand
    \/ ProviderLands \/ TargetChanges
    \/ OtherCommands \/ TimePasses

Spec == Init /\ [][Next]_vars

\* Time passes, a transaction that was begun ends, and a worker that can take
\* a step takes one: the supervisor in worker_main keeps ticking through every
\* failure.  Nothing is assumed of the provider, of clients or of crashes.
Fairness ==
    /\ WF_vars(TimePasses)
    /\ WF_vars(EndCommand)
    /\ \A w \in Workers : WF_vars(Work(w))

FairSpec == Spec /\ Fairness

------------------------------------------------------------------------------
(* Properties *)

Statuses == {"CLAIMED", "EXECUTING", "SUCCEEDED", "FAILED", "UNKNOWN"}
Effects  == {"none", "inflight", "SUCCEEDED", "FAILED"}
Pcs      == {"idle", "fetch", "gates", "authority", "fetch_failed", "permit", "send",
             "sent", "due", "read", "poll", "polled"}

ExecutionType ==
    [status: Statuses, attempt: Nat, claimExpiresAt: Nat,
     resourceVersion: Nat \cup {None}, reconcileAttempts: Nat,
     nextReconcileAt: Nat \cup {None}]

\* NULL is not a row.
ASSUME ExecutionAssumption == None \notin ExecutionType

Snapshots == [passes: BOOLEAN, version: Nat]

GateType ==
    [at: Nat, moments: SUBSET SUBSET Assignable,
     todo: SUBSET DecisionRows, held: SUBSET DecisionRows]

WorkerType ==
    [pc: Pcs, bundle: Policies \cup {None}, snapshot: Snapshots \cup {None},
     gate: GateType \cup {None}, reply: {"SUCCEEDED", "FAILED", "UNKNOWN", None}, tries: Nat]

TypeOK ==
    /\ ApprovalsTypeOK
    /\ execution \in ExecutionType \cup {None}
    /\ worker \in [Workers -> WorkerType]
    /\ lock \in Workers \cup {"api", None}
    /\ commands \in Nat /\ crashes \in Nat /\ targetVersion \in Nat
    /\ effect \in Effects /\ sends \in Nat /\ appliedTo \in Nat \cup {None}

\* A revision reaches the provider at most once, whatever crashes, recovers
\* or times out: the claim, the permit and the recovery never send again.
AtMostOneSend == sends <= 1

\* What was cancelled, rejected, blocked, expired or found stale was never
\* sent: claim and cancellation exclude each other through the row.
ClosedNeverSent ==
    state \in {"CANCELLED", "REJECTED", "BLOCKED", "EXPIRED", "STALE"} => sends = 0

\* A reported outcome is what the provider did and stays true: no success is
\* guessed, and nothing reported as failed can still take effect.
OutcomeIsEvidence ==
    /\ state = "SUCCEEDED" => effect = "SUCCEEDED"
    /\ state = "FAILED"    => effect \in {"none", "FAILED"}

\* The effect is applied to the very target version the gates passed on, even
\* though the target is read without a lock and the call comes later.
EffectOnCheckedTarget ==
    effect = "SUCCEEDED" => appliedTo = execution.resourceVersion

\* The intent row and the execution row tell the same story after every
\* commit: a claim, its verdict, its outcome and its recovery each write both
\* rows or neither, wherever the worker dies.
RowsAgree ==
    IF execution = None
    THEN state \notin {"REVALIDATING", "EXECUTING", "EXECUTION_UNKNOWN",
                       "SUCCEEDED", "FAILED", "STALE"}
    ELSE state \in CASE execution.status = "CLAIMED"   -> {"REVALIDATING"}
                     [] execution.status = "EXECUTING" -> {"EXECUTING"}
                     [] execution.status = "UNKNOWN"   -> {"EXECUTION_UNKNOWN"}
                     [] execution.status = "SUCCEEDED" -> {"SUCCEEDED"}
                     [] execution.status = "FAILED"    -> {"FAILED", "STALE", "EXPIRED"}

\* The points of a worker's program between its claim and the gates' verdict.
InGates == {"fetch", "gates", "authority", "fetch_failed"}

\* From its claim to the recorded outcome a worker has the revision to
\* itself: no second worker is anywhere in that stretch, and until the gates
\* are decided the row is still the one it claimed, although the gates look
\* at a copy taken before the lock was given up.
ClaimIsExclusive ==
    \A v, w \in Workers :
        /\ worker[w].pc \in InGates => state = "REVALIDATING"
        /\ {worker[v].pc, worker[w].pc} \subseteq
               InGates \cup {"permit", "send", "sent"} => v = w

\* An unknown outcome is never abandoned silently: it has attempts left, or an
\* operator was told that the budget is spent, also when a second worker counts
\* on a row it read before the first one committed.
UnknownNotAbandoned ==
    execution # None /\ execution.status = "UNKNOWN" =>
        \/ execution.reconcileAttempts < MaxReconcile
        \/ \E i \in 1..Len(outbox) : outbox[i].topic = "execution.reconciliation_exhausted"

\* One of the roles and all of the route's scopes, in one reading of the table
\* of role assignments since the gates took the lock.
HadAuthority(gate, a, roles) ==
    \E rows \in gate.moments :
        /\ roles \cap CurrentRoles(rows, a, gate.at, Environment) # {}
        /\ policy.scopes \subseteq CurrentScopes(rows, a, gate.at, Environment)

\* The approval was in its window and rests on people other than the requester
\* who had the route's authority: one of them for a single approval, a
\* different one for each level of a critical route.
ApprovalStood(gate) ==
    /\ gate.at < expiresAt
    /\ IF policy.route = "SINGLE"
       THEN \E a \in Endorsed(1) \ {requester} : HadAuthority(gate, a, Range(policy.roles))
       ELSE \E a \in Endorsed(1) \ {requester}, b \in Endorsed(2) \ {requester} :
               /\ a # b
               /\ HadAuthority(gate, a, {policy.roles[1]})
               /\ HadAuthority(gate, b, {policy.roles[2]})

\* When the gates pass, the approval stood inside their own transaction,
\* however long ago the decisions were made and whatever was revoked before
\* the transaction began.  No more than that is true: a revocation that commits
\* between the lookup of an approver and the commit of the gates is not seen.
PassesOnCurrentAuthority ==
    [][state = "REVALIDATING" /\ state' = "EXECUTING" /\ policy.route # "NONE"
          => ApprovalStood(worker[lock].gate)]_vars

\* The policy in force when the gates pass is not stricter than the one the
\* approvals were given under.
GatesUseCurrentPolicy ==
    [][state = "REVALIDATING" /\ state' = "EXECUTING"
          => PolicyHolds(activePolicy, policy)]_vars

\* A terminal revision is settled for good, its execution row included.
SettledForGood ==
    [][(state \in IntentState /\ IsTerminal(state))
          => /\ intentVars' = intentVars
             /\ execution' = execution]_vars

\* A claim is always resolved: the intent never stays in REVALIDATING.
ClaimResolves == state = "REVALIDATING" ~> state # "REVALIDATING"

\* An execution whose worker died or lost its permit does not stay EXECUTING:
\* lease expiry hands it to reconciliation.
ExecutingResolves == state = "EXECUTING" ~> state # "EXECUTING"

\* An unknown outcome is settled, or its attempt budget is spent and it is
\* left to an operator.
UnknownSettles ==
    state = "EXECUTION_UNKNOWN" ~>
        (state # "EXECUTION_UNKNOWN" \/ execution.reconcileAttempts >= MaxReconcile)

------------------------------------------------------------------------------
(* The inductive invariant *)

UnderLock == {"authority", "send", "sent", "poll", "polled"}

\* A worker holds the row lock exactly while it decides the gates or talks to
\* the provider.
LockDiscipline ==
    \A w \in Workers : lock = w <=> worker[w].pc \in UnderLock

\* What the gates have established so far: they look up approvals of this
\* revision, and whoever they counted had the authority when it was read.
GateKnows(w) ==
    LET gate == worker[w].gate
    IN  /\ gate \in GateType
        /\ assignments \in gate.moments
        /\ gate.todo \cup gate.held \subseteq ApproveRows(decisions)
        /\ \A d \in gate.held :
              \E rows \in gate.moments :
                  StillAuthorized(rows, d.actor, DemandedRoles(policy, d), policy.scopes,
                                  gate.at, Environment)

\* What a worker may rely on at each point of its program, although it locked
\* the row only for a part of the way.  A permit may outlive EXECUTING, but
\* then nothing was sent and nothing will be.
WorkerKnows(w) ==
    LET pc    == worker[w].pc
        reply == worker[w].reply
    IN  /\ pc # "idle" => execution # None
        /\ pc \in InGates => state = "REVALIDATING" /\ worker[w].bundle \in Policies
        /\ pc \in {"gates", "authority"} => worker[w].snapshot \in Snapshots
        /\ pc = "authority" => GateKnows(w)
        /\ pc = "permit" => state \in {"EXECUTING", "EXECUTION_UNKNOWN"} /\ sends = 0
        /\ pc = "send" => state = "EXECUTING" /\ sends = 0
        /\ pc = "sent" => /\ state = "EXECUTING" /\ sends # 0
                          /\ reply \in {"SUCCEEDED", "FAILED", "UNKNOWN"}
                          /\ reply = "SUCCEEDED" => effect = "SUCCEEDED"
                          /\ reply = "FAILED"    => effect \in {"none", "FAILED"}
        /\ pc \in {"poll", "polled"} => state = "EXECUTION_UNKNOWN"
        /\ pc = "polled" => reply = "UNKNOWN" \/ reply \in {"SUCCEEDED", "FAILED"} \cap {effect}

\* The provider only knows of what was sent, and what was sent passed the
\* gates; the attempts are counted from the first unknown outcome on.
SendHistory ==
    /\ sends = 0 => effect = "none"
    /\ sends # 0 => state \in {"EXECUTING", "EXECUTION_UNKNOWN", "SUCCEEDED", "FAILED"}
    /\ execution # None /\ execution.status \in {"CLAIMED", "EXECUTING"} =>
          execution.reconcileAttempts = 0

\* A single route only ever collects approvals of its one level.
OneLevelRoutes ==
    policy # None /\ policy.route = "SINGLE" =>
        \A d \in decisions : d.decision = "APPROVE" => d.level = 1

ExecutionInv ==
    /\ TypeOK
    /\ ApprovalsInv
    /\ OneLevelRoutes
    /\ RowsAgree
    /\ LockDiscipline
    /\ \A w \in Workers : WorkerKnows(w)
    /\ ClaimIsExclusive
    /\ SendHistory
    /\ AtMostOneSend
    /\ OutcomeIsEvidence
    /\ EffectOnCheckedTarget
    /\ UnknownNotAbandoned

------------------------------------------------------------------------------
(* The abstract specification *)

Operation == INSTANCE GatedOperation WITH
                 People <- Actors, phase <- Phase, owner <- requester,
                 needed <- Needed, endorsers <- Endorsers,
                 sent <- sends > 0, effect <- effect

\* Approvals, workers, recovery and reconciliation together implement the
\* abstract gate.
ImplementsOperation == Operation!Spec
==============================================================================
