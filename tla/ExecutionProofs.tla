--------------------------- MODULE ExecutionProofs ---------------------------
(***************************************************************************)
(* Proofs about module Execution, for any number of workers, any people,   *)
(* policies, leases and attempt budget, and any bound on commands, crashes *)
(* and changes of the target.  One inductive invariant, ExecutionInv, joins *)
(* what the approval commands keep (ApprovalsInv) to what each worker may   *)
(* rely on at each point of its program (WorkerKnows).                     *)
(***************************************************************************)
EXTENDS Execution, ApprovalsProofs

\* The points between a claim and the recorded outcome.
Stretch == InGates \cup {"permit", "send", "sent"}

------------------------------------------------------------------------------
(* Operators *)

\* 2 ^ n counts the subsets of a set of n elements, so it is a natural number.
LEMMA PowerOfTwo ==
    ASSUME NEW n \in Nat
    PROVE  2 ^ n \in Nat
<1>1. IsFiniteSet(1..n) /\ Cardinality(1..n) = n
  BY FS_Interval
<1>2. IsFiniteSet(SUBSET (1..n)) /\ Cardinality(SUBSET (1..n)) = 2 ^ n
  BY <1>1, FS_SUBSET
<1>3. Cardinality(SUBSET (1..n)) \in Nat
  BY <1>2, FS_CardinalityType
<1> QED
  BY <1>2, <1>3

\* reconcile_backoff_seconds never exceeds the ceiling nor goes below zero.
LEMMA BackoffType ==
    ASSUME NEW attempts \in Nat, attempts >= 1
    PROVE  ReconcileBackoff(attempts) \in 0..BackoffCeiling
<1> DEFINE n == attempts - 1
<1>1. n \in Nat
  OBVIOUS
<1>2. 2 ^ n \in Nat
  BY <1>1, PowerOfTwo
<1>3. BackoffBase * 2 ^ n \in Nat
  BY <1>2, BoundsAssumption
<1> QED
  BY <1>3, BoundsAssumption DEF ReconcileBackoff

LEMMA CapType ==
    ASSUME NEW t \in Nat
    PROVE  Cap(t) \in Nat
  BY TimeAssumption DEF Cap

\* What a worker's step does to the workers' program counters.
LEMMA BecomeOne ==
    ASSUME worker \in [Workers -> WorkerType], NEW w \in Workers, NEW r, Become(w, r)
    PROVE  /\ worker'[w] = r
           /\ \A v \in Workers : v # w => worker'[v] = worker[v]
           /\ r \in WorkerType => worker' \in [Workers -> WorkerType]
  BY DEF Become

\* The records a worker's steps leave behind.
LEMMA IdleType ==
    /\ Idle \in WorkerType
    /\ Idle.pc = "idle" /\ Idle.reply = None /\ Idle.bundle = None /\ Idle.snapshot = None
  BY DEF Idle, WorkerType, Pcs

LEMMA IdleAt ==
    ASSUME NEW pc \in Pcs
    PROVE  /\ [Idle EXCEPT !.pc = pc] \in WorkerType
           /\ [Idle EXCEPT !.pc = pc].pc = pc
  BY DEF Idle, WorkerType

------------------------------------------------------------------------------
(* Steps that leave the rows alone *)

\* A step that writes no row and sends nothing disturbs only what is said of
\* the workers and of the lock.
LEMMA RowsFrame ==
    ASSUME ExecutionInv, ApprovalsInv',
           UNCHANGED <<intentVars, execution, effect, sends, appliedTo>>,
           TypeOK', LockDiscipline', \A w \in Workers : WorkerKnows(w)', ClaimIsExclusive'
    PROVE  ExecutionInv'
<1>1. UNCHANGED <<state, policy, decisions, outbox>>
  BY DEF intentVars
<1>2. OneLevelRoutes' /\ RowsAgree' /\ SendHistory' /\ AtMostOneSend'
  BY <1>1 DEF ExecutionInv, OneLevelRoutes, RowsAgree, SendHistory, AtMostOneSend
<1>3. OutcomeIsEvidence' /\ EffectOnCheckedTarget' /\ UnknownNotAbandoned'
  BY <1>1 DEF ExecutionInv, OutcomeIsEvidence, EffectOnCheckedTarget, UnknownNotAbandoned
<1> QED
  BY <1>2, <1>3 DEF ExecutionInv

\* What a worker knows only depends on its own record and on the rows.
LEMMA KnowsFrame ==
    ASSUME NEW v \in Workers, WorkerKnows(v), worker'[v] = worker[v],
           UNCHANGED <<state, execution, effect, sends, policy, decisions, assignments>>
    PROVE  WorkerKnows(v)'
<1>1. GateKnows(v) => GateKnows(v)'
  BY DEF GateKnows
<1> QED
  BY <1>1 DEF WorkerKnows

\* One worker moves on, to a record r, and may take or give back the lock.
LEMMA WorkerMoves ==
    ASSUME ExecutionInv, NEW w \in Workers, NEW r \in WorkerType, Become(w, r),
           UNCHANGED <<approvalVars, execution, targetVersion, effect, sends, appliedTo>>,
           commands' \in Nat, crashes' \in Nat,
           \/ lock' = lock
           \/ lock = None /\ lock' = w
           \/ lock = w /\ lock' = None,
           lock' = w <=> r.pc \in UnderLock,
           r.pc \in Stretch => worker[w].pc \in Stretch,
           WorkerKnows(w)'
    PROVE  ExecutionInv'
<1>1. /\ TypeOK /\ LockDiscipline /\ ClaimIsExclusive
      /\ \A v \in Workers : WorkerKnows(v)
  BY DEF ExecutionInv
<1>2. /\ worker'[w] = r
      /\ \A v \in Workers : v # w => worker'[v] = worker[v]
      /\ worker' \in [Workers -> WorkerType]
  BY <1>1, BecomeOne DEF TypeOK
<1>3. UNCHANGED <<state, execution, effect, sends, policy, decisions, assignments>>
  BY DEF approvalVars, intentVars, adminVars
<1>4. \A v \in Workers : WorkerKnows(v)'
  BY <1>1, <1>2, <1>3, KnowsFrame
<1>5. LockDiscipline'
  BY <1>1, <1>2, WorkersAssumption DEF LockDiscipline
<1>6. ClaimIsExclusive'
  <2>1. ASSUME NEW v \in Workers
        PROVE  worker'[v].pc \in InGates => state' = "REVALIDATING"
    BY <1>4 DEF WorkerKnows
  <2>2. ASSUME NEW u \in Workers, NEW v \in Workers,
               worker'[u].pc \in Stretch, worker'[v].pc \in Stretch
        PROVE  u = v
    <3>1. worker[u].pc \in Stretch /\ worker[v].pc \in Stretch
      BY <1>2, <2>2
    <3>2. {worker[u].pc, worker[v].pc} \subseteq Stretch
      BY <3>1
    <3> QED
      BY <1>1, <3>2 DEF ClaimIsExclusive, Stretch
  <2> QED
    BY <2>1, <2>2 DEF ClaimIsExclusive, Stretch
<1>7. ApprovalsInv' /\ ApprovalsTypeOK' /\ UNCHANGED intentVars
  <2>1. UNCHANGED approvalVars
    OBVIOUS
  <2> QED
    BY <2>1, InvStep DEF ExecutionInv, ApprovalsInv, approvalVars
<1>8. TypeOK'
  BY <1>1, <1>2, <1>7 DEF TypeOK
<1> QED
  BY <1>4, <1>5, <1>6, <1>7, <1>8, RowsFrame

\* Facts every action uses.
LEMMA InvTypes ==
    ASSUME ExecutionInv, NEW w \in Workers
    PROVE  /\ TypeOK /\ ApprovalsTypeOK
           /\ worker[w] \in WorkerType
           /\ WorkerKnows(w)
           /\ lock = w <=> worker[w].pc \in UnderLock
           /\ None \notin Workers /\ "api" \notin Workers
           /\ commands \in Nat /\ crashes \in Nat
  BY WorkersAssumption DEF ExecutionInv, TypeOK, LockDiscipline

LEMMA FetchTargetKeeps ==
    ASSUME ExecutionInv, NEW w \in Workers, FetchTarget(w)
    PROVE  ExecutionInv'
<1> USE InvTypes
<1>1. worker[w].pc = "fetch"
  BY DEF FetchTarget
<1>2. UNCHANGED <<approvalVars, execution, targetVersion, effect, sends, appliedTo, lock,
                  state, commands, crashes>>
  BY DEF FetchTarget, providerVars, approvalVars, intentVars
<1>3. lock # w
  BY <1>1 DEF UnderLock
<1>4. ASSUME NEW r \in WorkerType, Become(w, r), r.pc \in {"gates", "fetch_failed"},
             r.bundle = worker[w].bundle, r.pc = "gates" => r.snapshot \in Snapshots
      PROVE  ExecutionInv'
  <2>1. worker'[w] = r
    BY <1>4, BecomeOne DEF TypeOK
  <2>2. WorkerKnows(w)'
    BY <1>1, <1>2, <1>4, <2>1 DEF WorkerKnows, InGates
  <2>3. r.pc \notin UnderLock /\ r.pc \in Stretch /\ worker[w].pc \in Stretch
    BY <1>1, <1>4 DEF UnderLock, Stretch, InGates
  <2> QED
    BY <1>2, <1>3, <1>4, <2>2, <2>3, WorkerMoves
<1>5. ASSUME NEW passes \in BOOLEAN,
             Become(w, [worker[w] EXCEPT !.pc = "gates",
                            !.snapshot = [passes |-> passes, version |-> targetVersion]])
      PROVE  ExecutionInv'
  <2> DEFINE s == [passes |-> passes, version |-> targetVersion]
             r == [worker[w] EXCEPT !.pc = "gates", !.snapshot = s]
  <2>1. s \in Snapshots
    BY DEF TypeOK, Snapshots
  <2> HIDE DEF s
  <2>2. /\ r \in WorkerType /\ r.pc = "gates"
        /\ r.bundle = worker[w].bundle /\ r.snapshot = s
    BY <2>1 DEF WorkerType, Pcs
  <2>3. Become(w, r)
    BY <1>5 DEF s
  <2> QED
    BY <1>4, <2>1, <2>2, <2>3
<1>6. ASSUME Become(w, [worker[w] EXCEPT !.pc = "fetch_failed"])
      PROVE  ExecutionInv'
  <2> DEFINE r == [worker[w] EXCEPT !.pc = "fetch_failed"]
  <2>1. r \in WorkerType /\ r.pc = "fetch_failed" /\ r.bundle = worker[w].bundle
    BY DEF WorkerType, Pcs
  <2> QED
    BY <1>4, <1>6, <2>1
<1> QED
  BY <1>5, <1>6 DEF FetchTarget

\* The rows gate 2 looks up are approvals of the revision.
LEMMA LookupsType ==
    ASSUME NEW p, NEW rows, NEW todo \in Lookups(p, rows),
           p.route \in {"NONE", "SINGLE", "CRITICAL_TWO_STEP"}
    PROVE  todo \subseteq ApproveRows(rows)
  BY DEF Lookups, ApproveRows

\* A worker inside the gates stays there, with what it knew and a new gate.
LEMMA GateMoves ==
    ASSUME ExecutionInv, NEW w \in Workers, worker[w].pc \in {"gates", "authority"},
           NEW g \in GateType,
           Become(w, [worker[w] EXCEPT !.pc = "authority", !.gate = g]),
           UNCHANGED <<approvalVars, execution, targetVersion, effect, sends, appliedTo,
                       commands, crashes>>,
           lock \in {None, w}, lock' = w,
           assignments \in g.moments,
           g.todo \cup g.held \subseteq ApproveRows(decisions),
           \A d \in g.held : \E rows \in g.moments :
               StillAuthorized(rows, d.actor, DemandedRoles(policy, d), policy.scopes,
                               g.at, Environment)
    PROVE  ExecutionInv'
<1> DEFINE r == [worker[w] EXCEPT !.pc = "authority", !.gate = g]
<1>1. /\ r \in WorkerType /\ r.pc = "authority" /\ r.gate = g
      /\ r.bundle = worker[w].bundle /\ r.snapshot = worker[w].snapshot
  BY InvTypes DEF WorkerType, Pcs
<1>2. Become(w, r)
  OBVIOUS
<1> HIDE DEF r
<1>3. worker'[w] = r
  BY <1>1, <1>2, InvTypes, BecomeOne DEF TypeOK
<1>4. UNCHANGED <<state, execution, effect, sends, policy, decisions, assignments>>
  BY DEF approvalVars, intentVars, adminVars
<1>5. GateKnows(w)'
  BY <1>1, <1>3, <1>4 DEF GateKnows
<1>6. WorkerKnows(w)'
  BY <1>1, <1>3, <1>4, <1>5, InvTypes DEF WorkerKnows, InGates
<1>7. r.pc \in UnderLock /\ worker[w].pc \in Stretch
  BY <1>1 DEF UnderLock, Stretch, InGates
<1> QED
  BY <1>1, <1>2, <1>6, <1>7, InvTypes, WorkerMoves

LEMMA LockForGatesKeeps ==
    ASSUME ExecutionInv, NEW w \in Workers, LockForGates(w)
    PROVE  ExecutionInv'
<1>1. /\ worker[w].pc = "gates" /\ lock = None /\ lock' = w
      /\ UNCHANGED <<approvalVars, execution, targetVersion, effect, sends, appliedTo,
                     commands, crashes>>
  BY DEF LockForGates, providerVars
<1>2. policy.route \in {"NONE", "SINGLE", "CRITICAL_TWO_STEP"}
  <2>1. state = "REVALIDATING"
    BY <1>1, InvTypes DEF WorkerKnows, InGates
  <2>2. policy \in Policies
    BY <2>1, StatesAssumption DEF ExecutionInv, ApprovalsInv, RowsWrittenTogether, IntentState
  <2> QED
    BY <2>2, RouteStateType DEF IsPolicy, Routes
<1>3. PICK todo \in IF expiresAt # None /\ expiresAt <= now THEN {{}}
                    ELSE Lookups(policy, decisions) :
          Become(w, [worker[w] EXCEPT !.pc = "authority",
                         !.gate = [at |-> now, moments |-> {assignments},
                                   todo |-> todo, held |-> {}]])
  BY DEF LockForGates
<1>4. todo \subseteq ApproveRows(decisions)
  BY <1>2, <1>3, LookupsType
<1> DEFINE g == [at |-> now, moments |-> {assignments}, todo |-> todo, held |-> {}]
<1>5. g \in GateType
  BY <1>4, InvTypes DEF ApprovalsTypeOK, GateType, ApproveRows
<1>6. /\ assignments \in g.moments /\ g.held = {}
      /\ g.todo \cup g.held \subseteq ApproveRows(decisions)
  BY <1>4
<1>7. Become(w, [worker[w] EXCEPT !.pc = "authority", !.gate = g])
  BY <1>3
<1> HIDE DEF g
<1> QED
  BY <1>1, <1>5, <1>6, <1>7, GateMoves

\* Rows that do not count yet take no authority away from those that do.
LEMMA FewerRows ==
    ASSUME NEW rows, NEW young, NEW a, NEW roles, NEW scopes, NEW at, NEW env,
           StillAuthorized(rows \ young, a, roles, scopes, at, env)
    PROVE  StillAuthorized(rows, a, roles, scopes, at, env)
<1>1. CurrentAssignments(rows \ young, a, at, env) \subseteq CurrentAssignments(rows, a, at, env)
  BY DEF CurrentAssignments
<1>2. CurrentRoles(rows \ young, a, at, env) \subseteq CurrentRoles(rows, a, at, env)
  BY <1>1 DEF CurrentRoles
<1>3. CurrentScopes(rows \ young, a, at, env) \subseteq CurrentScopes(rows, a, at, env)
  BY <1>1 DEF CurrentScopes
<1> QED
  BY <1>2, <1>3 DEF StillAuthorized

\* An approver is counted on what the table says at that very lookup.
LEMMA CheckApproverKeeps ==
    ASSUME ExecutionInv, NEW w \in Workers, CheckApprover(w)
    PROVE  ExecutionInv'
<1> DEFINE gate == worker[w].gate
<1>1. /\ worker[w].pc = "authority"
      /\ UNCHANGED <<approvalVars, execution, targetVersion, effect, sends, appliedTo,
                     commands, crashes, lock>>
  BY DEF CheckApprover, providerVars
<1>2. lock = w /\ GateKnows(w)
  BY <1>1, InvTypes DEF WorkerKnows, UnderLock
<1>3. /\ gate \in GateType /\ assignments \in gate.moments
      /\ gate.todo \cup gate.held \subseteq ApproveRows(decisions)
      /\ \A d \in gate.held : \E rows \in gate.moments :
             StillAuthorized(rows, d.actor, DemandedRoles(policy, d), policy.scopes,
                             gate.at, Environment)
  BY <1>2 DEF GateKnows
<1> DEFINE Holds(d, young) ==
               StillAuthorized(assignments \ young, d.actor, DemandedRoles(policy, d),
                               policy.scopes, gate.at, Environment)
           Todo(d, young) == IF Holds(d, young) THEN gate.todo \ {d}
                             ELSE AfterRefusal(policy, gate.todo, d)
           Held(d, young) == IF Holds(d, young) THEN gate.held \cup {d} ELSE gate.held
<1>4. PICK d \in gate.todo, young \in SUBSET assignments :
          Become(w, [worker[w] EXCEPT !.gate.todo = Todo(d, young),
                                      !.gate.held = Held(d, young)])
  BY DEF CheckApprover
<1> DEFINE g == [gate EXCEPT !.todo = Todo(d, young), !.held = Held(d, young)]
<1>5. [worker[w] EXCEPT !.gate.todo = Todo(d, young), !.gate.held = Held(d, young)]
        = [worker[w] EXCEPT !.pc = "authority", !.gate = g]
  BY <1>1, <1>3, InvTypes DEF WorkerType, GateType
<1>6. Todo(d, young) \subseteq gate.todo /\ Held(d, young) \subseteq gate.held \cup {d}
  BY DEF AfterRefusal
<1>7. ASSUME NEW e \in Held(d, young)
      PROVE  \E rows \in gate.moments :
                 StillAuthorized(rows, e.actor, DemandedRoles(policy, e), policy.scopes,
                                 gate.at, Environment)
  <2>1. CASE e \in gate.held
    BY <1>3, <2>1
  <2>2. CASE e \notin gate.held
    <3>1. e = d /\ Holds(d, young)
      BY <1>7, <2>2
    <3>2. StillAuthorized(assignments, d.actor, DemandedRoles(policy, d), policy.scopes,
                          gate.at, Environment)
      BY <3>1, FewerRows
    <3> QED
      BY <1>3, <3>1, <3>2
  <2> QED
    BY <2>1, <2>2
<1> HIDE DEF Todo, Held
<1>8. /\ g.at = gate.at /\ g.moments = gate.moments
      /\ g.todo = Todo(d, young) /\ g.held = Held(d, young)
  BY <1>3 DEF GateType
<1>9. g \in GateType
  <2>1. Todo(d, young) \in SUBSET DecisionRows /\ Held(d, young) \in SUBSET DecisionRows
    BY <1>3, <1>4, <1>6 DEF GateType
  <2> QED
    BY <1>3, <2>1 DEF GateType
<1>10. /\ assignments \in g.moments
       /\ g.todo \cup g.held \subseteq ApproveRows(decisions)
       /\ \A e \in g.held : \E rows \in g.moments :
              StillAuthorized(rows, e.actor, DemandedRoles(policy, e), policy.scopes,
                              g.at, Environment)
  BY <1>3, <1>4, <1>6, <1>7, <1>8
<1>11. Become(w, [worker[w] EXCEPT !.pc = "authority", !.gate = g])
  BY <1>4, <1>5
<1> HIDE DEF g
<1> QED
  BY <1>1, <1>2, <1>9, <1>10, <1>11, GateMoves

\* A worker that gives up, is refused or dies knows nothing any more.
LEMMA BackToIdle ==
    ASSUME ExecutionInv, NEW w \in Workers, Become(w, Idle),
           UNCHANGED <<approvalVars, execution, targetVersion, effect, sends, appliedTo>>,
           commands' \in Nat, crashes' \in Nat,
           lock' = IF lock = w THEN None ELSE lock
    PROVE  ExecutionInv'
<1>1. worker'[w] = Idle /\ Idle \in WorkerType /\ Idle.pc = "idle"
  BY InvTypes, BecomeOne, IdleType DEF TypeOK
<1>2. WorkerKnows(w)'
  BY <1>1 DEF WorkerKnows, InGates
<1>3. Idle.pc \notin UnderLock /\ Idle.pc \notin Stretch
  BY <1>1 DEF UnderLock, Stretch, InGates
<1> QED
  BY <1>1, <1>2, <1>3, InvTypes, WorkerMoves

LEMMA ClaimConflictKeeps ==
    ASSUME ExecutionInv, NEW w \in Workers, ClaimConflict(w)
    PROVE  ExecutionInv'
<1>1. lock # w
  BY InvTypes DEF ClaimConflict, UnderLock
<1> QED
  BY <1>1, InvTypes, BackToIdle DEF ClaimConflict, providerVars

LEMMA CrashKeeps ==
    ASSUME ExecutionInv, NEW w \in Workers, Crash(w)
    PROVE  ExecutionInv'
<1>1. crashes' \in Nat /\ commands' \in Nat
  BY InvTypes DEF Crash
<1> QED
  BY <1>1, BackToIdle DEF Crash, providerVars

LEMMA LockForExecuteKeeps ==
    ASSUME ExecutionInv, NEW w \in Workers, LockForExecute(w)
    PROVE  ExecutionInv'
<1> DEFINE r == [Idle EXCEPT !.pc = "send"]
<1>1. worker[w].pc = "permit" /\ lock = None
  BY DEF LockForExecute
<1>2. UNCHANGED <<approvalVars, execution, targetVersion, effect, sends, appliedTo,
                  state, commands, crashes>>
  BY DEF LockForExecute, providerVars, approvalVars, intentVars
<1>3. CASE state = "EXECUTING"
  <2>1. Become(w, r) /\ lock' = w
    BY <1>3 DEF LockForExecute
  <2>2. r \in WorkerType /\ r.pc = "send"
    BY IdleAt DEF Pcs
  <2> HIDE DEF r
  <2>3. worker'[w] = r
    BY <2>1, InvTypes, BecomeOne DEF TypeOK
  <2>4. WorkerKnows(w)'
    BY <1>1, <1>2, <1>3, <2>2, <2>3, InvTypes DEF WorkerKnows, InGates
  <2>5. r.pc \in UnderLock /\ r.pc \in Stretch /\ worker[w].pc \in Stretch
    BY <1>1, <2>2 DEF UnderLock, Stretch
  <2> QED
    BY <1>1, <1>2, <2>1, <2>2, <2>4, <2>5, InvTypes, WorkerMoves
<1>4. CASE state # "EXECUTING"
  <2>1. Become(w, Idle) /\ lock' = lock /\ lock # w
    BY <1>1, <1>4, InvTypes DEF LockForExecute
  <2> QED
    BY <1>2, <2>1, InvTypes, BackToIdle
<1> QED
  BY <1>3, <1>4

LEMMA SnapshotDueKeeps ==
    ASSUME ExecutionInv, NEW w \in Workers, SnapshotDue(w)
    PROVE  ExecutionInv'
<1> DEFINE r == [Idle EXCEPT !.pc = "due"]
<1>1. worker[w].pc = "idle" /\ execution # None /\ Become(w, r)
  BY DEF SnapshotDue
<1>2. UNCHANGED <<approvalVars, execution, targetVersion, effect, sends, appliedTo, lock,
                  state, commands, crashes>>
  BY DEF SnapshotDue, providerVars, approvalVars, intentVars
<1>3. r \in WorkerType /\ r.pc = "due"
  BY IdleAt DEF Pcs
<1> HIDE DEF r
<1>4. worker'[w] = r
  BY <1>1, InvTypes, BecomeOne DEF TypeOK
<1>5. WorkerKnows(w)'
  BY <1>1, <1>2, <1>3, <1>4 DEF WorkerKnows, InGates
<1>6. r.pc \notin UnderLock /\ r.pc \notin Stretch /\ lock # w
  BY <1>1, <1>3, InvTypes DEF UnderLock, Stretch, InGates
<1> QED
  BY <1>1, <1>2, <1>3, <1>5, <1>6, InvTypes, WorkerMoves

LEMMA ReadExecutionKeeps ==
    ASSUME ExecutionInv, NEW w \in Workers, ReadExecution(w)
    PROVE  ExecutionInv'
<1> DEFINE r == [Idle EXCEPT !.pc = "read", !.tries = execution.reconcileAttempts]
<1>1. worker[w].pc = "due" /\ Become(w, r)
  BY DEF ReadExecution
<1>2. UNCHANGED <<approvalVars, execution, targetVersion, effect, sends, appliedTo, lock,
                  state, commands, crashes>>
  BY DEF ReadExecution, providerVars, approvalVars, intentVars
<1>3. execution # None
  BY <1>1, InvTypes DEF WorkerKnows
<1>4. execution.reconcileAttempts \in Nat
  BY <1>3, InvTypes DEF TypeOK, ExecutionType
<1>5. r \in WorkerType /\ r.pc = "read"
  BY <1>4 DEF Idle, WorkerType, Pcs
<1> HIDE DEF r
<1>6. worker'[w] = r
  BY <1>1, InvTypes, BecomeOne DEF TypeOK
<1>7. WorkerKnows(w)'
  BY <1>2, <1>3, <1>5, <1>6 DEF WorkerKnows, InGates
<1>8. r.pc \notin UnderLock /\ r.pc \notin Stretch /\ lock # w
  BY <1>1, <1>5, InvTypes DEF UnderLock, Stretch, InGates
<1> QED
  BY <1>1, <1>2, <1>5, <1>7, <1>8, InvTypes, WorkerMoves

LEMMA LockForReconcileKeeps ==
    ASSUME ExecutionInv, NEW w \in Workers, LockForReconcile(w)
    PROVE  ExecutionInv'
<1> DEFINE r == [worker[w] EXCEPT !.pc = "poll"]
<1>1. worker[w].pc = "read" /\ lock = None
  BY DEF LockForReconcile
<1>2. UNCHANGED <<approvalVars, execution, targetVersion, effect, sends, appliedTo,
                  state, commands, crashes>>
  BY DEF LockForReconcile, providerVars, approvalVars, intentVars
<1>3. CASE state = "EXECUTION_UNKNOWN"
  <2>1. Become(w, r) /\ lock' = w
    BY <1>3 DEF LockForReconcile
  <2>2. r \in WorkerType /\ r.pc = "poll"
    BY InvTypes DEF WorkerType, Pcs
  <2> HIDE DEF r
  <2>3. worker'[w] = r
    BY <2>1, InvTypes, BecomeOne DEF TypeOK
  <2>4. WorkerKnows(w)'
    BY <1>1, <1>2, <1>3, <2>2, <2>3, InvTypes DEF WorkerKnows, InGates
  <2>5. r.pc \in UnderLock /\ r.pc \notin Stretch
    BY <2>2 DEF UnderLock, Stretch, InGates
  <2> QED
    BY <1>1, <1>2, <2>1, <2>2, <2>4, <2>5, InvTypes, WorkerMoves
<1>4. CASE state # "EXECUTION_UNKNOWN"
  <2>1. Become(w, Idle) /\ lock' = lock /\ lock # w
    BY <1>1, <1>4, InvTypes DEF LockForReconcile
  <2> QED
    BY <1>2, <2>1, InvTypes, BackToIdle
<1> QED
  BY <1>3, <1>4

LEMMA LookupStatusKeeps ==
    ASSUME ExecutionInv, NEW w \in Workers, LookupStatus(w)
    PROVE  ExecutionInv'
<1>1. worker[w].pc = "poll"
  BY DEF LookupStatus
<1>2. UNCHANGED <<approvalVars, execution, targetVersion, effect, sends, appliedTo, lock,
                  state, commands, crashes>>
  BY DEF LookupStatus, providerVars, approvalVars, intentVars
<1>3. PICK evidence \in {"UNKNOWN"} \cup ({effect} \cap {"SUCCEEDED", "FAILED"}) :
          Become(w, [worker[w] EXCEPT !.pc = "polled", !.reply = evidence])
  BY DEF LookupStatus
<1> DEFINE r == [worker[w] EXCEPT !.pc = "polled", !.reply = evidence]
<1>4. r \in WorkerType /\ r.pc = "polled" /\ r.reply = evidence
  BY InvTypes DEF WorkerType, Pcs
<1>5. Become(w, r)
  BY <1>3
<1> HIDE DEF r
<1>6. worker'[w] = r
  BY <1>5, InvTypes, BecomeOne DEF TypeOK
<1>7. evidence = "UNKNOWN" \/ evidence \in {"SUCCEEDED", "FAILED"} \cap {effect}
  OBVIOUS
<1>8. WorkerKnows(w)'
  BY <1>1, <1>2, <1>4, <1>6, <1>7, InvTypes DEF WorkerKnows, InGates
<1>9. r.pc \in UnderLock /\ r.pc \notin Stretch /\ lock = w
  BY <1>1, <1>4, InvTypes DEF UnderLock, Stretch, InGates
<1> QED
  BY <1>2, <1>4, <1>5, <1>8, <1>9, InvTypes, WorkerMoves

\* The API's hold on the row is nobody else's.
LEMMA BeginCommandKeeps ==
    ASSUME ExecutionInv, BeginCommand
    PROVE  ExecutionInv'
<1>1. UNCHANGED <<approvalVars, execution, worker, targetVersion, effect, sends, appliedTo,
                  state, policy, decisions, assignments, crashes>>
      /\ lock = None /\ lock' = "api"
  BY DEF BeginCommand, providerVars, approvalVars, intentVars, adminVars
<1>2. TypeOK /\ LockDiscipline /\ ClaimIsExclusive /\ \A w \in Workers : WorkerKnows(w)
  BY DEF ExecutionInv
<1>3. ApprovalsInv' /\ ApprovalsTypeOK' /\ UNCHANGED intentVars
  BY <1>1, InvStep DEF ExecutionInv, ApprovalsInv, approvalVars
<1>4. TypeOK'
  BY <1>1, <1>2, <1>3 DEF TypeOK, BeginCommand
<1>5. LockDiscipline'
  BY <1>1, <1>2, WorkersAssumption DEF LockDiscipline
<1>6. ClaimIsExclusive'
  BY <1>1, <1>2 DEF ClaimIsExclusive
<1>7. \A w \in Workers : WorkerKnows(w)'
  BY <1>1, <1>2, KnowsFrame
<1> QED
  BY <1>1, <1>3, <1>4, <1>5, <1>6, <1>7, RowsFrame

------------------------------------------------------------------------------
(* Steps of a worker that move the revision *)

WorkerStates == {"REVALIDATING", "EXECUTING", "EXECUTION_UNKNOWN", "SUCCEEDED", "FAILED",
                 "STALE", "EXPIRED"}

\* Once a revision is authorized, whatever a worker records about it keeps
\* what the approval commands established.
LEMMA WorkerTransition ==
    ASSUME ExecutionInv, state \in AuthorizedStates,
           NEW target \in WorkerStates, NEW topic \in Topics,
           RecordTransition(target, topic),
           UNCHANGED <<requester, expiresAt, policy, decisions, assignments, activePolicy, now>>
    PROVE  /\ ApprovalsInv' /\ ApprovalsTypeOK' /\ OneLevelRoutes'
           /\ state' = target /\ state' # None
<1>1. ApprovalsInv /\ ApprovalsTypeOK /\ LegalWalk /\ OneLevelRoutes
  BY DEF ExecutionInv, ApprovalsInv
<1>2. target \in IntentState /\ state # None
  BY StatesAssumption DEF WorkerStates, IntentState, AuthorizedStates
<1>3. /\ state' \in IntentState \cup {None}
      /\ version' \in Nat
      /\ transitions' \in Seq(TransitionRows)
      /\ outbox' \in Seq(OutboxRows)
  BY <1>1, <1>2, RecordTransitionType
<1>4. ApprovalsTypeOK'
  BY <1>1, <1>3 DEF ApprovalsTypeOK, TransitionRows, OutboxRows
<1>5. LegalWalk'
  BY <1>1, <1>2, WalkOneStep
<1>6. state' = target /\ state' # None
  BY <1>2, StatesAssumption DEF RecordTransition
<1>7. RowsWrittenTogether' /\ NoOwnApproval' /\ WaitingStates' /\ NeverCommitted'
  BY <1>1, <1>2, <1>6 DEF ApprovalsInv, RowsWrittenTogether, NoOwnApproval, WaitingStates,
                          NeverCommitted, WorkerStates
<1>8. DecisionsInWindow'
  BY <1>1 DEF ApprovalsInv, DecisionsInWindow
<1>9. ApprovalEvidence'
  <2>1. EarnedByRoute
    BY <1>1 DEF ApprovalsInv, ApprovalEvidence
  <2> QED
    BY <2>1 DEF ApprovalEvidence, EarnedByRoute, Endorsed, ApproversOf
<1>10. OneLevelRoutes'
  BY <1>1 DEF OneLevelRoutes
<1> QED
  BY <1>4, <1>5, <1>6, <1>7, <1>8, <1>9, <1>10 DEF ApprovalsInv

\* A revision nobody has claimed has no execution row, no worker at it, and
\* nothing was sent for it.
LEMMA Unclaimed ==
    ASSUME ExecutionInv,
           state \notin {"REVALIDATING", "EXECUTING", "EXECUTION_UNKNOWN", "SUCCEEDED",
                         "FAILED", "STALE", "EXPIRED"}
    PROVE  /\ execution = None
           /\ \A w \in Workers : worker[w].pc = "idle"
           /\ lock \notin Workers
           /\ sends = 0 /\ effect = "none"
<1>1. execution = None
  <2>1. ASSUME execution # None
        PROVE  FALSE
    BY <2>1 DEF ExecutionInv, RowsAgree, TypeOK, ExecutionType, Statuses
  <2> QED
    BY <2>1
<1>2. \A w \in Workers : worker[w].pc = "idle"
  BY <1>1 DEF ExecutionInv, WorkerKnows
<1>3. lock \notin Workers
  BY <1>2 DEF ExecutionInv, LockDiscipline, UnderLock
<1>4. sends = 0 /\ effect = "none"
  BY DEF ExecutionInv, SendHistory
<1> QED
  BY <1>1, <1>2, <1>3, <1>4

LEMMA NewExecutionType ==
    ASSUME now \in Nat
    PROVE  /\ NewExecution \in ExecutionType /\ NewExecution # None
           /\ NewExecution.status = "CLAIMED"
           /\ NewExecution.reconcileAttempts = 0
<1>1. Cap(now + ClaimLease) \in Nat
  BY CapType, BoundsAssumption
<1>2. NewExecution \in ExecutionType
  BY <1>1 DEF NewExecution, ExecutionType, Statuses
<1> QED
  BY <1>2, ExecutionAssumption DEF NewExecution

\* The claim takes an unclaimed revision: the branch that would retake an
\* expired claim never runs.
LEMMA ClaimKeeps ==
    ASSUME ExecutionInv, NEW w \in Workers, Claim(w)
    PROVE  ExecutionInv'
<1> DEFINE r == [Idle EXCEPT !.pc = "fetch", !.bundle = activePolicy]
<1>1. /\ state \in {"AUTO_APPROVED", "APPROVED"} /\ lock = None /\ Become(w, r)
      /\ RecordTransition("REVALIDATING", "intent.transitioned")
      /\ UNCHANGED <<requester, expiresAt, policy, decisions, assignments, activePolicy, now,
                     lock, crashes, commands, targetVersion, effect, sends, appliedTo>>
  BY DEF Claim, RecordClaimTransition, adminVars, providerVars
<1>2. /\ execution = None
      /\ \A v \in Workers : worker[v].pc = "idle"
      /\ sends = 0 /\ effect = "none"
  BY <1>1, Unclaimed
<1>3. execution' = NewExecution
  BY <1>2 DEF Claim
<1>4. /\ execution' \in ExecutionType /\ execution' # None
      /\ execution'.status = "CLAIMED"
      /\ execution'.reconcileAttempts = 0
  BY <1>3, InvTypes, NewExecutionType DEF ApprovalsTypeOK
<1>5. /\ ApprovalsInv' /\ ApprovalsTypeOK' /\ OneLevelRoutes'
      /\ state' = "REVALIDATING" /\ state' # None
  <2>1. state \in AuthorizedStates /\ "REVALIDATING" \in WorkerStates
        /\ "intent.transitioned" \in Topics
    BY <1>1 DEF AuthorizedStates, WorkerStates, Topics
  <2> QED
    BY <1>1, <2>1, WorkerTransition, Zenon
<1>6. /\ r \in WorkerType /\ r.pc = "fetch" /\ r.bundle \in Policies
  BY InvTypes DEF ApprovalsTypeOK, Idle, WorkerType, Pcs
<1> HIDE DEF r
<1>7. /\ worker'[w] = r
      /\ \A v \in Workers : v # w => worker'[v].pc = "idle"
      /\ worker' \in [Workers -> WorkerType]
  BY <1>1, <1>2, <1>6, InvTypes, BecomeOne DEF TypeOK
<1>8. TypeOK'
  BY <1>1, <1>4, <1>5, <1>7, InvTypes DEF TypeOK
<1>9. RowsAgree'
  BY <1>4, <1>5 DEF RowsAgree
<1>10. LockDiscipline'
  BY <1>1, <1>6, <1>7, InvTypes DEF LockDiscipline, UnderLock
<1>11. \A v \in Workers : WorkerKnows(v)'
  BY <1>4, <1>5, <1>6, <1>7 DEF WorkerKnows, InGates
<1>12. ClaimIsExclusive'
  BY <1>5, <1>7 DEF ClaimIsExclusive, InGates
<1>13. SendHistory' /\ AtMostOneSend' /\ OutcomeIsEvidence' /\ EffectOnCheckedTarget'
  BY <1>1, <1>2, <1>4, <1>5 DEF SendHistory, AtMostOneSend, OutcomeIsEvidence,
                                EffectOnCheckedTarget
<1>14. UnknownNotAbandoned'
  BY <1>4 DEF UnknownNotAbandoned
<1> QED
  BY <1>5, <1>8, <1>9, <1>10, <1>11, <1>12, <1>13, <1>14 DEF ExecutionInv

\* Inside the gates a worker is alone: every other one is idle or far behind.
LEMMA AloneInGates ==
    ASSUME ExecutionInv, NEW w \in Workers, worker[w].pc \in InGates
    PROVE  /\ state = "REVALIDATING" /\ execution # None /\ execution.status = "CLAIMED"
           /\ execution \in ExecutionType
           /\ execution.reconcileAttempts = 0
           /\ sends = 0 /\ effect = "none"
           /\ \A v \in Workers : v # w => worker[v].pc \in {"idle", "due", "read"}
<1>1. state = "REVALIDATING" /\ execution # None
  BY InvTypes DEF WorkerKnows, InGates
<1>2. /\ execution.status = "CLAIMED" /\ execution \in ExecutionType
      /\ execution.reconcileAttempts = 0
  <2>1. execution \in ExecutionType /\ execution.status \in Statuses
    BY <1>1 DEF ExecutionInv, TypeOK, ExecutionType
  <2>2. execution.status = "CLAIMED"
    BY <1>1, <2>1 DEF ExecutionInv, RowsAgree, Statuses
  <2> QED
    BY <1>1, <2>1, <2>2 DEF ExecutionInv, SendHistory
<1>3. sends = 0 /\ effect = "none"
  BY <1>1 DEF ExecutionInv, SendHistory
<1>4. ASSUME NEW v \in Workers, v # w
      PROVE  worker[v].pc \in {"idle", "due", "read"}
  <2>1. worker[v].pc \in Pcs
    BY InvTypes DEF WorkerType
  <2>2. worker[v].pc \notin {"send", "sent", "poll", "polled", "permit"}
    BY <1>1, InvTypes DEF WorkerKnows
  <2>3. worker[v].pc \notin InGates
    BY <1>4 DEF ExecutionInv, ClaimIsExclusive
  <2> QED
    BY <2>1, <2>2, <2>3 DEF Pcs, InGates
<1> QED
  BY <1>1, <1>2, <1>3, <1>4

\* The claim is settled, as a permit or as a failure, and the rows agree.
LEMMA LeaveGates ==
    ASSUME ExecutionInv, NEW w \in Workers, worker[w].pc \in InGates, lock' = None,
           NEW verdict \in {"EXECUTING", "STALE", "EXPIRED"},
           RecordTransition(verdict, "intent.transitioned"),
           NEW r \in WorkerType, Become(w, r),
           r.pc = IF verdict = "EXECUTING" THEN "permit" ELSE "idle",
           execution' \in ExecutionType,
           execution'.reconcileAttempts = execution.reconcileAttempts,
           execution'.status = IF verdict = "EXECUTING" THEN "EXECUTING" ELSE "FAILED",
           UNCHANGED <<requester, expiresAt, policy, decisions, assignments, activePolicy, now,
                       crashes, commands, targetVersion, effect, sends, appliedTo>>
    PROVE  ExecutionInv'
<1>1. /\ state = "REVALIDATING" /\ execution.reconcileAttempts = 0
      /\ sends = 0 /\ effect = "none"
      /\ \A v \in Workers : v # w => worker[v].pc \in {"idle", "due", "read"}
  BY AloneInGates
<1>2. /\ ApprovalsInv' /\ ApprovalsTypeOK' /\ OneLevelRoutes'
      /\ state' = verdict /\ state' # None
  <2>1. state \in AuthorizedStates /\ verdict \in WorkerStates
        /\ "intent.transitioned" \in Topics
    BY <1>1 DEF AuthorizedStates, WorkerStates, Topics
  <2> QED
    BY <2>1, WorkerTransition, Zenon
<1>3. /\ worker'[w] = r
      /\ \A v \in Workers : v # w => worker'[v].pc \in {"idle", "due", "read"}
      /\ worker' \in [Workers -> WorkerType]
  BY <1>1, InvTypes, BecomeOne DEF TypeOK
<1>4. execution' # None
  BY ExecutionAssumption
<1>5. TypeOK'
  BY <1>2, <1>3, InvTypes DEF TypeOK
<1>6. RowsAgree'
  BY <1>1, <1>2, <1>4 DEF RowsAgree
<1>7. LockDiscipline'
  BY <1>3, InvTypes DEF LockDiscipline, UnderLock
<1>8. \A v \in Workers : WorkerKnows(v)'
  BY <1>1, <1>2, <1>3, <1>4 DEF WorkerKnows, InGates
<1>9. ClaimIsExclusive'
  BY <1>3 DEF ClaimIsExclusive, InGates
<1>10. SendHistory' /\ AtMostOneSend' /\ OutcomeIsEvidence' /\ EffectOnCheckedTarget'
  BY <1>1, <1>2 DEF SendHistory, AtMostOneSend, OutcomeIsEvidence, EffectOnCheckedTarget
<1>11. UnknownNotAbandoned'
  BY DEF UnknownNotAbandoned
<1> QED
  BY <1>2, <1>5, <1>6, <1>7, <1>8, <1>9, <1>10, <1>11 DEF ExecutionInv

LEMMA RevalidateGatesKeeps ==
    ASSUME ExecutionInv, NEW w \in Workers, RevalidateGates(w)
    PROVE  ExecutionInv'
<1> DEFINE verdict == GateVerdict(w)
<1>1. /\ worker[w].pc = "authority" /\ lock' = None /\ worker[w].pc \in InGates
      /\ UNCHANGED <<requester, expiresAt, policy, decisions, assignments, activePolicy, now,
                     crashes, commands, targetVersion, effect, sends, appliedTo>>
  BY DEF RevalidateGates, adminVars, providerVars, InGates
<1>2. verdict \in {"EXECUTING", "STALE", "EXPIRED"}
  BY DEF GateVerdict
<1>3. execution \in ExecutionType
  BY <1>1, AloneInGates
<1>4. RecordTransition(verdict, "intent.transitioned")
  BY DEF RevalidateGates, RecordClaimTransition
<1>5. /\ verdict = "EXECUTING" =>
           /\ execution' = [execution EXCEPT !.status = "EXECUTING",
                                !.resourceVersion = worker[w].snapshot.version]
           /\ Become(w, [Idle EXCEPT !.pc = "permit"])
      /\ verdict # "EXECUTING" =>
           /\ execution' = [execution EXCEPT !.status = "FAILED"]
           /\ Become(w, Idle)
  BY DEF RevalidateGates
<1> HIDE DEF verdict
<1>6. CASE verdict = "EXECUTING"
  <2> DEFINE r == [Idle EXCEPT !.pc = "permit"]
  <2>1. worker[w].snapshot.version \in Nat
    BY <1>1, InvTypes DEF WorkerKnows, Snapshots
  <2>2. /\ execution' \in ExecutionType
        /\ execution'.reconcileAttempts = execution.reconcileAttempts
        /\ execution'.status = "EXECUTING"
    BY <1>3, <1>5, <1>6, <2>1 DEF ExecutionType, Statuses
  <2>3. r \in WorkerType /\ r.pc = "permit" /\ Become(w, r)
    BY <1>5, <1>6, IdleAt DEF Pcs
  <2> HIDE DEF r
  <2> QED
    BY <1>1, <1>2, <1>4, <1>6, <2>2, <2>3, LeaveGates
<1>7. CASE verdict # "EXECUTING"
  <2>1. /\ execution' \in ExecutionType
        /\ execution'.reconcileAttempts = execution.reconcileAttempts
        /\ execution'.status = "FAILED"
    BY <1>3, <1>5, <1>7 DEF ExecutionType, Statuses
  <2>2. Idle \in WorkerType /\ Idle.pc = "idle" /\ Become(w, Idle)
    BY <1>5, <1>7, IdleType
  <2> QED
    BY <1>1, <1>2, <1>4, <1>7, <2>1, <2>2, LeaveGates
<1> QED
  BY <1>6, <1>7

LEMMA FailAfterFetchFailureKeeps ==
    ASSUME ExecutionInv, NEW w \in Workers, FailAfterFetchFailure(w)
    PROVE  ExecutionInv'
<1>1. /\ worker[w].pc \in InGates /\ lock' = None
      /\ RecordTransition("STALE", "intent.transitioned")
      /\ execution' = [execution EXCEPT !.status = "FAILED"]
      /\ Become(w, Idle)
      /\ UNCHANGED <<requester, expiresAt, policy, decisions, assignments, activePolicy, now,
                     crashes, commands, targetVersion, effect, sends, appliedTo>>
  BY DEF FailAfterFetchFailure, RecordClaimTransition, adminVars, providerVars, InGates
<1>2. execution \in ExecutionType
  BY <1>1, AloneInGates
<1>3. /\ execution' \in ExecutionType
      /\ execution'.reconcileAttempts = execution.reconcileAttempts
      /\ execution'.status = "FAILED"
  BY <1>1, <1>2 DEF ExecutionType, Statuses
<1>4. Idle \in WorkerType /\ Idle.pc = "idle"
  BY IdleType
<1> DEFINE verdict == "STALE"
<1>5. /\ verdict \in {"EXECUTING", "STALE", "EXPIRED"}
      /\ RecordTransition(verdict, "intent.transitioned")
      /\ execution'.status = IF verdict = "EXECUTING" THEN "EXECUTING" ELSE "FAILED"
      /\ Idle.pc = IF verdict = "EXECUTING" THEN "permit" ELSE "idle"
  BY <1>1, <1>3, <1>4
<1> HIDE DEF verdict
<1> QED
  BY <1>1, <1>3, <1>4, <1>5, LeaveGates

------------------------------------------------------------------------------
(* The provider call *)

\* Under the row lock with a permit or an answer in hand, a worker is alone.
LEMMA AloneAtProvider ==
    ASSUME ExecutionInv, NEW w \in Workers, worker[w].pc \in {"send", "sent"}
    PROVE  /\ state = "EXECUTING" /\ execution # None /\ execution.status = "EXECUTING"
           /\ execution \in ExecutionType
           /\ execution.reconcileAttempts = 0
           /\ lock = w
           /\ \A v \in Workers : v # w => worker[v].pc \in {"idle", "due", "read"}
<1>1. state = "EXECUTING" /\ execution # None /\ lock = w
  BY InvTypes DEF WorkerKnows, UnderLock
<1>2. /\ execution.status = "EXECUTING" /\ execution \in ExecutionType
      /\ execution.reconcileAttempts = 0
  <2>1. execution \in ExecutionType /\ execution.status \in Statuses
    BY <1>1 DEF ExecutionInv, TypeOK, ExecutionType
  <2>2. execution.status = "EXECUTING"
    BY <1>1, <2>1 DEF ExecutionInv, RowsAgree, Statuses
  <2> QED
    BY <1>1, <2>1, <2>2 DEF ExecutionInv, SendHistory
<1>3. ASSUME NEW v \in Workers, v # w
      PROVE  worker[v].pc \in {"idle", "due", "read"}
  <2>1. worker[v].pc \in Pcs
    BY InvTypes DEF WorkerType
  <2>2. worker[v].pc \notin UnderLock
    BY <1>1, <1>3, InvTypes
  <2>3. worker[v].pc \notin InGates \cup {"permit", "send", "sent"}
    BY <1>3 DEF ExecutionInv, ClaimIsExclusive
  <2> QED
    BY <2>1, <2>2, <2>3 DEF Pcs, InGates, UnderLock
<1> QED
  BY <1>1, <1>2, <1>3

\* The one provider call: nothing was sent before it, and a success is only
\* answered for the version the permit carries.
LEMMA SendToProviderKeeps ==
    ASSUME ExecutionInv, NEW w \in Workers, SendToProvider(w)
    PROVE  ExecutionInv'
<1>1. /\ worker[w].pc = "send"
      /\ sends' = sends + 1
      /\ UNCHANGED <<approvalVars, execution, lock, crashes, commands, targetVersion>>
  BY DEF SendToProvider
<1>2. UNCHANGED <<state, policy, decisions, outbox>>
  BY <1>1 DEF approvalVars, intentVars
<1>3. /\ state = "EXECUTING" /\ execution # None /\ execution.status = "EXECUTING"
      /\ lock = w
      /\ \A v \in Workers : v # w => worker[v].pc \in {"idle", "due", "read"}
  BY <1>1, AloneAtProvider
<1>4. sends = 0 /\ sends' = 1
  BY <1>1, InvTypes DEF WorkerKnows
<1>5. PICK answer \in Answers :
          /\ Become(w, [Idle EXCEPT !.pc = "sent", !.reply = answer.reply])
          /\ effect' = answer.effect
          /\ appliedTo' = IF answer.effect = "SUCCEEDED" THEN targetVersion ELSE appliedTo
  BY DEF SendToProvider
<1>6. /\ answer.reply \in {"SUCCEEDED", "FAILED", "UNKNOWN"}
      /\ answer.effect \in Effects
      /\ answer.reply = "SUCCEEDED" => answer.effect = "SUCCEEDED"
      /\ answer.reply = "FAILED" => answer.effect \in {"none", "FAILED"}
      /\ answer.effect = "SUCCEEDED" => execution.resourceVersion = targetVersion
  BY DEF Answers, ProviderAnswers, Effects
<1> DEFINE r == [Idle EXCEPT !.pc = "sent", !.reply = answer.reply]
<1>7. r \in WorkerType /\ r.pc = "sent" /\ r.reply = answer.reply
  BY <1>6 DEF Idle, WorkerType, Pcs
<1>8. Become(w, r)
  BY <1>5
<1>9. r.reply \in {"SUCCEEDED", "FAILED", "UNKNOWN"}
  BY <1>6, <1>7
<1> HIDE DEF r
<1>10. /\ worker'[w] = r
       /\ \A v \in Workers : v # w => worker'[v].pc \in {"idle", "due", "read"}
       /\ \A v \in Workers : v # w => worker'[v] = worker[v]
       /\ worker' \in [Workers -> WorkerType]
  BY <1>3, <1>7, <1>8, InvTypes, BecomeOne DEF TypeOK
<1>11. ApprovalsInv' /\ ApprovalsTypeOK'
  BY <1>1, InvStep DEF ExecutionInv, ApprovalsInv
<1>12. TypeOK'
  BY <1>1, <1>4, <1>5, <1>6, <1>10, <1>11, InvTypes DEF TypeOK
<1>13. OneLevelRoutes' /\ RowsAgree'
  BY <1>1, <1>2 DEF ExecutionInv, OneLevelRoutes, RowsAgree
<1>14. LockDiscipline'
  BY <1>1, <1>3, <1>7, <1>10, InvTypes DEF LockDiscipline, UnderLock
<1>15. \A v \in Workers : WorkerKnows(v)'
  <2>1. WorkerKnows(w)'
    BY <1>1, <1>2, <1>3, <1>4, <1>5, <1>6, <1>7, <1>9, <1>10 DEF WorkerKnows, InGates
  <2>2. ASSUME NEW v \in Workers, v # w
        PROVE  WorkerKnows(v)'
    BY <1>1, <1>3, <1>10, <2>2 DEF WorkerKnows, InGates
  <2> QED
    BY <2>1, <2>2
<1>16. ClaimIsExclusive'
  BY <1>7, <1>10 DEF ClaimIsExclusive, InGates
<1>17. SendHistory' /\ AtMostOneSend'
  BY <1>1, <1>2, <1>3, <1>4 DEF ExecutionInv, SendHistory, AtMostOneSend
<1>18. OutcomeIsEvidence' /\ EffectOnCheckedTarget'
  BY <1>1, <1>2, <1>3, <1>5, <1>6 DEF OutcomeIsEvidence, EffectOnCheckedTarget
<1>19. UnknownNotAbandoned'
  BY <1>1, <1>3 DEF UnknownNotAbandoned
<1> QED
  BY <1>11, <1>12, <1>13, <1>14, <1>15, <1>16, <1>17, <1>18, <1>19 DEF ExecutionInv

\* A worker under the lock records what it was told, and its outcome is what
\* the provider did.
LEMMA RecordOutcomeKeeps ==
    ASSUME ExecutionInv, NEW w \in Workers, RecordOutcome(w)
    PROVE  ExecutionInv'
<1> DEFINE outcome == worker[w].reply
           target  == OutcomeState(outcome)
<1>1. /\ worker[w].pc = "sent"
      /\ RecordTransition(target, OutcomeTopic[target])
      /\ execution' = [execution EXCEPT !.status = outcome]
      /\ lock' = None /\ Become(w, Idle)
      /\ UNCHANGED <<requester, expiresAt, policy, decisions, assignments, activePolicy, now,
                     crashes, commands, targetVersion, effect, sends, appliedTo>>
  BY DEF RecordOutcome, adminVars, providerVars
<1>2. /\ outcome \in {"SUCCEEDED", "FAILED", "UNKNOWN"}
      /\ outcome = "SUCCEEDED" => effect = "SUCCEEDED"
      /\ outcome = "FAILED" => effect \in {"none", "FAILED"}
  BY <1>1, InvTypes DEF WorkerKnows
<1>3. /\ state = "EXECUTING" /\ execution # None
      /\ execution \in ExecutionType
      /\ execution.reconcileAttempts = 0
      /\ \A v \in Workers : v # w => worker[v].pc \in {"idle", "due", "read"}
  BY <1>1, AloneAtProvider
<1> HIDE DEF outcome
<1>4. /\ target = IF outcome = "UNKNOWN" THEN "EXECUTION_UNKNOWN" ELSE outcome
      /\ target \in WorkerStates /\ OutcomeTopic[target] \in Topics
  BY <1>2 DEF OutcomeState, WorkerStates, OutcomeTopic, Topics
<1> HIDE DEF target
<1>5. /\ ApprovalsInv' /\ ApprovalsTypeOK' /\ OneLevelRoutes'
      /\ state' = target /\ state' # None
  <2>1. state \in AuthorizedStates
    BY <1>3 DEF AuthorizedStates
  <2> QED
    BY <1>1, <1>4, <2>1, WorkerTransition, Zenon
<1>6. /\ execution' \in ExecutionType /\ execution' # None /\ execution'.status = outcome
      /\ execution'.reconcileAttempts = 0
      /\ execution'.resourceVersion = execution.resourceVersion
  BY <1>1, <1>2, <1>3, ExecutionAssumption DEF ExecutionType, Statuses
<1>7. /\ worker'[w] = Idle /\ Idle.pc = "idle"
      /\ \A v \in Workers : v # w => worker'[v].pc \in {"idle", "due", "read"}
      /\ worker' \in [Workers -> WorkerType]
  BY <1>1, <1>3, InvTypes, BecomeOne, IdleType DEF TypeOK
<1>8. TypeOK'
  BY <1>1, <1>5, <1>6, <1>7, InvTypes DEF TypeOK
<1>9. RowsAgree'
  BY <1>2, <1>4, <1>5, <1>6 DEF RowsAgree
<1>10. LockDiscipline'
  BY <1>1, <1>7, InvTypes DEF LockDiscipline, UnderLock
<1>11. \A v \in Workers : WorkerKnows(v)'
  BY <1>6, <1>7 DEF WorkerKnows, InGates
<1>12. ClaimIsExclusive'
  BY <1>7 DEF ClaimIsExclusive, InGates
<1>13. SendHistory' /\ AtMostOneSend'
  BY <1>1, <1>2, <1>4, <1>5, <1>6 DEF ExecutionInv, SendHistory, AtMostOneSend
<1>14. OutcomeIsEvidence' /\ EffectOnCheckedTarget'
  BY <1>1, <1>2, <1>4, <1>5, <1>6 DEF ExecutionInv, OutcomeIsEvidence, EffectOnCheckedTarget
<1>15. UnknownNotAbandoned'
  BY <1>6, BoundsAssumption DEF UnknownNotAbandoned
<1> QED
  BY <1>5, <1>8, <1>9, <1>10, <1>11, <1>12, <1>13, <1>14, <1>15 DEF ExecutionInv

------------------------------------------------------------------------------
(* Recovery and reconciliation *)

\* A dead execution becomes an unknown outcome; a late permit is left without
\* the state it needs.
LEMMA RecoverKeeps ==
    ASSUME ExecutionInv, NEW w \in Workers, RecoverStaleExecuting(w)
    PROVE  ExecutionInv'
<1>1. /\ execution # None /\ execution.status = "EXECUTING" /\ lock = None
      /\ state = "EXECUTING"
      /\ RecordTransition("EXECUTION_UNKNOWN", "execution.execution_unknown")
      /\ execution' = [execution EXCEPT !.status = "UNKNOWN", !.nextReconcileAt = now]
      /\ UNCHANGED <<requester, expiresAt, policy, decisions, assignments, activePolicy, now,
                     worker, lock, crashes, commands, targetVersion, effect, sends, appliedTo>>
  BY DEF RecoverStaleExecuting, adminVars, providerVars
<1>2. execution \in ExecutionType /\ execution.reconcileAttempts = 0
  BY <1>1 DEF ExecutionInv, TypeOK, RowsAgree, SendHistory
<1>3. /\ ApprovalsInv' /\ ApprovalsTypeOK' /\ OneLevelRoutes'
      /\ state' = "EXECUTION_UNKNOWN" /\ state' # None
  <2>1. state \in AuthorizedStates /\ "EXECUTION_UNKNOWN" \in WorkerStates
        /\ "execution.execution_unknown" \in Topics
    BY <1>1 DEF AuthorizedStates, WorkerStates, Topics
  <2> QED
    BY <1>1, <2>1, WorkerTransition, Zenon
<1>4. now \in Nat
  BY InvTypes DEF ApprovalsTypeOK
<1>5. /\ execution' \in ExecutionType /\ execution' # None /\ execution'.status = "UNKNOWN"
      /\ execution'.reconcileAttempts = 0
      /\ execution'.resourceVersion = execution.resourceVersion
  BY <1>1, <1>2, <1>4, ExecutionAssumption DEF ExecutionType, Statuses
<1>6. TypeOK'
  BY <1>1, <1>3, <1>5, InvTypes DEF TypeOK
<1>7. RowsAgree'
  BY <1>3, <1>5 DEF RowsAgree
<1>8. LockDiscipline'
  BY <1>1 DEF ExecutionInv, LockDiscipline
<1>9. ASSUME NEW v \in Workers
      PROVE  WorkerKnows(v)'
  <2>1. worker[v].pc \notin UnderLock
    BY <1>1, InvTypes
  <2>2. worker[v].pc \notin InGates
    BY <1>1, InvTypes DEF WorkerKnows
  <2> QED
    BY <1>1, <1>3, <1>5, <2>1, <2>2, InvTypes DEF WorkerKnows, UnderLock
<1>10. ClaimIsExclusive'
  <2>1. \A v \in Workers : worker'[v].pc \in InGates => state' = "REVALIDATING"
    BY <1>9 DEF WorkerKnows
  <2> QED
    BY <1>1, <2>1 DEF ExecutionInv, ClaimIsExclusive
<1>11. SendHistory' /\ AtMostOneSend' /\ OutcomeIsEvidence' /\ EffectOnCheckedTarget'
  BY <1>1, <1>3, <1>5 DEF ExecutionInv, SendHistory, AtMostOneSend, OutcomeIsEvidence,
                          EffectOnCheckedTarget
<1>12. UnknownNotAbandoned'
  BY <1>5, BoundsAssumption DEF UnknownNotAbandoned
<1> QED
  BY <1>3, <1>6, <1>7, <1>8, <1>9, <1>10, <1>11, <1>12 DEF ExecutionInv

\* While a worker polls, the row is UNKNOWN and no one else holds it; a permit
\* that is still out was never used.
LEMMA AloneAtPoll ==
    ASSUME ExecutionInv, NEW w \in Workers, worker[w].pc \in {"poll", "polled"}
    PROVE  /\ state = "EXECUTION_UNKNOWN" /\ execution # None /\ execution.status = "UNKNOWN"
           /\ execution \in ExecutionType
           /\ lock = w
           /\ \A v \in Workers : v # w => worker[v].pc \in {"idle", "due", "read", "permit"}
           /\ \A v \in Workers : worker[v].pc = "permit" => effect = "none"
<1>1. state = "EXECUTION_UNKNOWN" /\ execution # None /\ lock = w
  BY InvTypes DEF WorkerKnows, UnderLock
<1>2. execution.status = "UNKNOWN" /\ execution \in ExecutionType
  <2>1. execution \in ExecutionType /\ execution.status \in Statuses
    BY <1>1 DEF ExecutionInv, TypeOK, ExecutionType
  <2> QED
    BY <1>1, <2>1 DEF ExecutionInv, RowsAgree, Statuses
<1>3. ASSUME NEW v \in Workers, v # w
      PROVE  worker[v].pc \in {"idle", "due", "read", "permit"}
  <2>1. worker[v].pc \in Pcs /\ worker[v].pc \notin UnderLock
    BY <1>1, <1>3, InvTypes DEF WorkerType
  <2>2. worker[v].pc \notin InGates
    BY <1>1, InvTypes DEF WorkerKnows
  <2> QED
    BY <2>1, <2>2 DEF Pcs, InGates, UnderLock
<1>4. ASSUME NEW v \in Workers, worker[v].pc = "permit"
      PROVE  effect = "none"
  BY <1>4, InvTypes DEF ExecutionInv, SendHistory, WorkerKnows
<1> QED
  BY <1>1, <1>2, <1>3, <1>4

\* An outbox message that announces no transition disturbs no approval row.
LEMMA OutboxFrame ==
    ASSUME ApprovalsInv, outbox' \in Seq(OutboxRows),
           UNCHANGED <<state, version, requester, expiresAt, policy, transitions, decisions,
                       assignments, activePolicy, now>>
    PROVE  ApprovalsInv' /\ ApprovalsTypeOK'
<1>1. ApprovalsTypeOK'
  BY DEF ApprovalsInv, ApprovalsTypeOK, OutboxRows
<1> QED
  BY <1>1 DEF ApprovalsInv, RowsWrittenTogether, NoOwnApproval, WaitingStates,
              NeverCommitted, LegalWalk, DecisionsInWindow, ApprovalEvidence,
              EarnedByRoute, Endorsed, ApproversOf

\* No evidence: the attempt is counted, and at the end of the budget the
\* operator is told in the same transaction.
LEMMA KeepUnknownKeeps ==
    ASSUME ExecutionInv, NEW w \in Workers, RecordReconciliation(w), KeepUnknown(w)
    PROVE  ExecutionInv'
<1> DEFINE attempts  == worker[w].tries + 1
           exhausted == attempts >= MaxReconcile
           message   == Message("execution.reconciliation_exhausted", None)
           next      == IF exhausted THEN None ELSE Cap(now + ReconcileBackoff(attempts))
<1>1. /\ worker[w].pc = "polled" /\ lock' = None /\ Become(w, Idle)
      /\ UNCHANGED <<requester, expiresAt, policy, decisions, assignments, activePolicy, now,
                     crashes, commands, targetVersion, effect, sends, appliedTo>>
  BY DEF RecordReconciliation, adminVars, providerVars
<1>2. /\ UNCHANGED <<state, version, transitions>>
      /\ outbox' = IF exhausted THEN Append(outbox, message) ELSE outbox
      /\ execution' = [execution EXCEPT !.reconcileAttempts = attempts,
                                        !.nextReconcileAt = next]
  BY DEF KeepUnknown
<1>3. /\ state = "EXECUTION_UNKNOWN" /\ execution # None /\ execution.status = "UNKNOWN"
      /\ execution \in ExecutionType
      /\ \A v \in Workers : v # w => worker[v].pc \in {"idle", "due", "read", "permit"}
  BY <1>1, AloneAtPoll
<1>4. attempts \in Nat /\ attempts >= 1
  BY InvTypes DEF WorkerType
<1>5. outbox \in Seq(OutboxRows) /\ message \in OutboxRows /\ now \in Nat
  BY InvTypes DEF ApprovalsTypeOK, OutboxRows, Message, Topics
<1> HIDE DEF attempts
<1>6. next \in Nat \cup {None}
  <2>1. ReconcileBackoff(attempts) \in Nat
    BY <1>4, BackoffType, BoundsAssumption
  <2>2. Cap(now + ReconcileBackoff(attempts)) \in Nat
    BY <1>5, <2>1, CapType
  <2> QED
    BY <2>2
<1>7. message.topic = "execution.reconciliation_exhausted"
  BY DEF Message
<1> HIDE DEF next, message
<1>8. /\ execution' \in ExecutionType /\ execution' # None /\ execution'.status = "UNKNOWN"
      /\ execution'.reconcileAttempts = attempts
      /\ execution'.resourceVersion = execution.resourceVersion
  BY <1>2, <1>3, <1>4, <1>6, ExecutionAssumption DEF ExecutionType
<1>9. ApprovalsInv' /\ ApprovalsTypeOK'
  <2>1. outbox' \in Seq(OutboxRows)
    BY <1>2, <1>5
  <2> QED
    BY <1>1, <1>2, <2>1, OutboxFrame DEF ExecutionInv
<1>10. /\ worker'[w] = Idle /\ Idle.pc = "idle"
       /\ \A v \in Workers : v # w => worker'[v] = worker[v]
       /\ worker' \in [Workers -> WorkerType]
  BY <1>1, InvTypes, BecomeOne, IdleType DEF TypeOK
<1>11. TypeOK'
  BY <1>1, <1>8, <1>9, <1>10, InvTypes DEF TypeOK
<1>12. OneLevelRoutes' /\ RowsAgree'
  BY <1>1, <1>2, <1>3, <1>8 DEF ExecutionInv, OneLevelRoutes, RowsAgree
<1>13. LockDiscipline'
  BY <1>1, <1>3, <1>10, InvTypes DEF LockDiscipline, UnderLock
<1>14. \A v \in Workers : WorkerKnows(v)'
  <2>1. WorkerKnows(w)'
    BY <1>10 DEF WorkerKnows, InGates
  <2>2. ASSUME NEW v \in Workers, v # w
        PROVE  WorkerKnows(v)'
    BY <1>1, <1>2, <1>3, <1>8, <1>10, <2>2, InvTypes DEF WorkerKnows, InGates
  <2> QED
    BY <2>1, <2>2
<1>15. ClaimIsExclusive'
  <2>1. \A v \in Workers : worker'[v].pc \in InGates => state' = "REVALIDATING"
    BY <1>14 DEF WorkerKnows
  <2>2. \A v \in Workers : worker'[v].pc \in Stretch => worker[v].pc \in Stretch
    BY <1>10 DEF Stretch, InGates
  <2> QED
    BY <2>1, <2>2 DEF ExecutionInv, ClaimIsExclusive, Stretch
<1>16. SendHistory' /\ AtMostOneSend' /\ OutcomeIsEvidence' /\ EffectOnCheckedTarget'
  BY <1>1, <1>2, <1>8 DEF ExecutionInv, SendHistory, AtMostOneSend, OutcomeIsEvidence,
                          EffectOnCheckedTarget
<1>17. UnknownNotAbandoned'
  <2>1. CASE exhausted
    <3>1. Len(outbox') \in 1..Len(outbox') /\ outbox'[Len(outbox')] = message
      BY <1>2, <1>5, <2>1
    <3> QED
      BY <1>7, <3>1 DEF UnknownNotAbandoned
  <2>2. CASE ~exhausted
    BY <1>4, <1>8, <2>2, BoundsAssumption DEF UnknownNotAbandoned
  <2> QED
    BY <2>1, <2>2
<1> QED
  BY <1>9, <1>11, <1>12, <1>13, <1>14, <1>15, <1>16, <1>17 DEF ExecutionInv

\* Evidence: the outcome is the provider's own record, which only something
\* that was sent can have.
LEMMA ResolveUnknownKeeps ==
    ASSUME ExecutionInv, NEW w \in Workers, RecordReconciliation(w), ResolveUnknown(w)
    PROVE  ExecutionInv'
<1> DEFINE outcome == worker[w].reply
<1>1. /\ worker[w].pc = "polled" /\ lock' = None /\ Become(w, Idle)
      /\ UNCHANGED <<requester, expiresAt, policy, decisions, assignments, activePolicy, now,
                     crashes, commands, targetVersion, effect, sends, appliedTo>>
  BY DEF RecordReconciliation, adminVars, providerVars
<1>2. /\ outcome # "UNKNOWN"
      /\ RecordTransition(outcome, "execution.reconciled")
      /\ execution' = [execution EXCEPT !.status = outcome, !.nextReconcileAt = None]
  BY DEF ResolveUnknown
<1>3. outcome \in {"SUCCEEDED", "FAILED"} /\ outcome = effect
  BY <1>1, <1>2, InvTypes DEF WorkerKnows
<1>4. /\ state = "EXECUTION_UNKNOWN" /\ execution # None
      /\ execution \in ExecutionType
      /\ \A v \in Workers : v # w => worker[v].pc \in {"idle", "due", "read"}
  BY <1>1, <1>3, AloneAtPoll
<1> HIDE DEF outcome
<1>5. /\ ApprovalsInv' /\ ApprovalsTypeOK' /\ OneLevelRoutes'
      /\ state' = outcome /\ state' # None
  <2>1. state \in AuthorizedStates /\ outcome \in WorkerStates
        /\ "execution.reconciled" \in Topics
    BY <1>3, <1>4 DEF AuthorizedStates, WorkerStates, Topics
  <2> QED
    BY <1>1, <1>2, <2>1, WorkerTransition, Zenon
<1>6. /\ execution' \in ExecutionType /\ execution' # None /\ execution'.status = outcome
      /\ execution'.resourceVersion = execution.resourceVersion
  BY <1>2, <1>3, <1>4, ExecutionAssumption DEF ExecutionType, Statuses
<1>7. /\ worker'[w] = Idle /\ Idle.pc = "idle"
      /\ \A v \in Workers : v # w => worker'[v].pc \in {"idle", "due", "read"}
      /\ worker' \in [Workers -> WorkerType]
  BY <1>1, <1>4, InvTypes, BecomeOne, IdleType DEF TypeOK
<1>8. TypeOK'
  BY <1>1, <1>5, <1>6, <1>7, InvTypes DEF TypeOK
<1>9. RowsAgree'
  BY <1>3, <1>5, <1>6 DEF RowsAgree
<1>10. LockDiscipline'
  BY <1>1, <1>7, InvTypes DEF LockDiscipline, UnderLock
<1>11. \A v \in Workers : WorkerKnows(v)'
  BY <1>6, <1>7 DEF WorkerKnows, InGates
<1>12. ClaimIsExclusive'
  BY <1>7 DEF ClaimIsExclusive, InGates
<1>13. SendHistory' /\ AtMostOneSend'
  BY <1>1, <1>3, <1>5, <1>6 DEF ExecutionInv, SendHistory, AtMostOneSend
<1>14. OutcomeIsEvidence' /\ EffectOnCheckedTarget'
  BY <1>1, <1>3, <1>5, <1>6 DEF ExecutionInv, OutcomeIsEvidence, EffectOnCheckedTarget
<1>15. UnknownNotAbandoned'
  BY <1>3, <1>6 DEF UnknownNotAbandoned
<1> QED
  BY <1>5, <1>8, <1>9, <1>10, <1>11, <1>12, <1>13, <1>14, <1>15 DEF ExecutionInv

------------------------------------------------------------------------------
(* The environment and the commands *)

\* A request under way was sent for this revision, whose outcome is open.
LEMMA ProviderLandsKeeps ==
    ASSUME ExecutionInv, ProviderLands
    PROVE  ExecutionInv'
<1>1. /\ effect = "inflight"
      /\ effect' \in {"none", "SUCCEEDED", "FAILED"}
      /\ effect' = "SUCCEEDED" => execution.resourceVersion = targetVersion
      /\ appliedTo' = IF effect' = "SUCCEEDED" THEN targetVersion ELSE appliedTo
      /\ UNCHANGED <<approvalVars, execution, worker, lock, crashes, commands,
                     targetVersion, sends>>
  BY DEF ProviderLands, workerVars
<1>2. UNCHANGED <<state, policy, decisions, outbox>>
  BY <1>1 DEF approvalVars, intentVars
<1>3. ApprovalsInv' /\ ApprovalsTypeOK'
  BY <1>1, InvStep DEF ExecutionInv, ApprovalsInv
<1>4. TypeOK'
  BY <1>1, <1>3 DEF ExecutionInv, TypeOK, Effects
<1>5. OneLevelRoutes' /\ RowsAgree' /\ LockDiscipline' /\ ClaimIsExclusive'
  BY <1>1, <1>2 DEF ExecutionInv, OneLevelRoutes, RowsAgree, LockDiscipline, ClaimIsExclusive
<1>6. sends # 0 /\ state \notin {"SUCCEEDED", "FAILED", "REVALIDATING"}
  BY <1>1 DEF ExecutionInv, SendHistory, OutcomeIsEvidence
<1>7. ASSUME NEW v \in Workers
      PROVE  WorkerKnows(v)'
  BY <1>1, <1>2, <1>6, InvTypes DEF WorkerKnows, InGates
<1>8. SendHistory' /\ AtMostOneSend' /\ UnknownNotAbandoned'
  BY <1>1, <1>2, <1>6 DEF ExecutionInv, SendHistory, AtMostOneSend, UnknownNotAbandoned
<1>9. OutcomeIsEvidence' /\ EffectOnCheckedTarget'
  BY <1>1, <1>2, <1>6 DEF OutcomeIsEvidence, EffectOnCheckedTarget
<1> QED
  BY <1>3, <1>4, <1>5, <1>7, <1>8, <1>9 DEF ExecutionInv

\* The target, the clock and the active bundle are free to change.
LEMMA SurroundingsKeep ==
    ASSUME ExecutionInv, UNCHANGED <<intentVars, assignments>>, ApprovalsInv',
           UNCHANGED <<workerVars, commands, effect, sends, appliedTo>>, targetVersion' \in Nat
    PROVE  ExecutionInv'
<1>1. UNCHANGED <<execution, worker, lock, crashes, commands, state, policy, decisions>>
  BY DEF workerVars, intentVars
<1>2. TypeOK'
  BY <1>1 DEF ExecutionInv, TypeOK, ApprovalsInv
<1>3. LockDiscipline' /\ ClaimIsExclusive'
  BY <1>1 DEF ExecutionInv, LockDiscipline, ClaimIsExclusive
<1>4. ASSUME NEW v \in Workers
      PROVE  WorkerKnows(v)'
  BY <1>1, InvTypes, KnowsFrame
<1> QED
  BY <1>1, <1>2, <1>3, <1>4, RowsFrame

\* The record of a worker after a change of the role assignments: only the
\* history of gates under way takes it in.
LEMMA WitnessType ==
    ASSUME ExecutionInv, Witness, assignments' \subseteq Assignable, NEW v \in Workers
    PROVE  /\ worker'[v].pc = worker[v].pc
           /\ worker[v].pc # "authority" => worker'[v] = worker[v]
           /\ worker[v].pc = "authority" =>
                 /\ worker'[v].gate = [worker[v].gate EXCEPT
                                          !.moments = @ \cup {assignments'}]
                 /\ worker'[v].gate \in GateType
                 /\ worker'[v].bundle = worker[v].bundle
                 /\ worker'[v].snapshot = worker[v].snapshot
           /\ worker'[v] \in WorkerType
<1>1. worker[v] \in WorkerType /\ WorkerKnows(v)
  BY InvTypes
<1>2. CASE worker[v].pc # "authority"
  BY <1>1, <1>2 DEF Witness
<1>3. CASE worker[v].pc = "authority"
  <2> DEFINE g == [worker[v].gate EXCEPT !.moments = @ \cup {assignments'}]
  <2>1. worker[v].gate \in GateType
    BY <1>1, <1>3 DEF WorkerKnows, GateKnows
  <2>2. g \in GateType
    BY <2>1 DEF GateType
  <2>3. worker'[v] = [worker[v] EXCEPT !.gate = g]
    BY <1>1, <1>3, <2>1 DEF Witness, WorkerType, GateType
  <2> HIDE DEF g
  <2>4. /\ worker'[v].pc = worker[v].pc /\ worker'[v].gate = g
        /\ worker'[v].bundle = worker[v].bundle /\ worker'[v].snapshot = worker[v].snapshot
        /\ worker'[v] \in WorkerType
    BY <1>1, <2>2, <2>3 DEF WorkerType
  <2> QED
    BY <1>3, <2>2, <2>4 DEF g
<1> QED
  BY <1>2, <1>3

\* Grants, revocations and activations run beside the gates, which keep what
\* they have established: their history only grows.
LEMMA AdministerKeeps ==
    ASSUME ExecutionInv, Administer, Witness,
           UNCHANGED <<execution, lock, crashes, commands, providerVars>>
    PROVE  ExecutionInv'
<1>1. UNCHANGED intentVars
  BY DEF Administer, GrantRole, RevokeRole, ActivatePolicyBundle
<1>2. /\ UNCHANGED <<state, policy, decisions>>
      /\ UNCHANGED <<targetVersion, effect, sends, appliedTo>>
  BY <1>1 DEF intentVars, providerVars
<1>3. ApprovalsInv'
  BY InvStep DEF ExecutionInv, ApprovalsNext
<1>4. ApprovalsTypeOK' /\ assignments' \subseteq Assignable
  BY <1>3 DEF ApprovalsInv, ApprovalsTypeOK
<1>5. \A v \in Workers : worker'[v] \in WorkerType /\ worker'[v].pc = worker[v].pc
  BY <1>4, WitnessType
<1>6. worker' \in [Workers -> WorkerType]
  <2>1. worker' = [v \in Workers |-> worker'[v]]
    BY DEF Witness
  <2> QED
    BY <1>5, <2>1
<1>7. TypeOK'
  BY <1>2, <1>4, <1>6 DEF ExecutionInv, TypeOK
<1>8. LockDiscipline' /\ ClaimIsExclusive'
  BY <1>2, <1>5 DEF ExecutionInv, LockDiscipline, ClaimIsExclusive
<1>9. ASSUME NEW v \in Workers
      PROVE  WorkerKnows(v)'
  <2>1. WorkerKnows(v) /\ worker'[v].pc = worker[v].pc
    BY <1>5, InvTypes
  <2>2. CASE worker[v].pc # "authority"
    <3>1. worker'[v] = worker[v]
      BY <1>4, <2>2, WitnessType
    <3> QED
      BY <1>2, <2>1, <2>2, <3>1 DEF WorkerKnows
  <2>3. CASE worker[v].pc = "authority"
    <3>1. GateKnows(v)
      BY <2>1, <2>3 DEF WorkerKnows
    <3>2. /\ worker'[v].gate = [worker[v].gate EXCEPT !.moments = @ \cup {assignments'}]
          /\ worker'[v].gate \in GateType /\ worker[v].gate \in GateType
          /\ worker'[v].bundle = worker[v].bundle /\ worker'[v].snapshot = worker[v].snapshot
      BY <1>4, <2>3, <3>1, WitnessType DEF GateKnows
    <3>3. /\ worker'[v].gate.moments = worker[v].gate.moments \cup {assignments'}
          /\ worker'[v].gate.todo = worker[v].gate.todo
          /\ worker'[v].gate.held = worker[v].gate.held
          /\ worker'[v].gate.at = worker[v].gate.at
      BY <3>2 DEF GateType
    <3>4. GateKnows(v)'
      BY <1>2, <3>1, <3>2, <3>3 DEF GateKnows
    <3> QED
      BY <1>2, <2>1, <2>3, <3>2, <3>4 DEF WorkerKnows, InGates
  <2> QED
    BY <2>2, <2>3
<1> QED
  BY <1>1, <1>2, <1>3, <1>7, <1>8, <1>9, RowsFrame

\* An unclaimed revision may be moved between unclaimed states: no worker and
\* no execution row depends on it.
LEMMA UnclaimedMove ==
    ASSUME ExecutionInv, ApprovalsInv', OneLevelRoutes',
           execution = None, \A w \in Workers : worker[w].pc = "idle",
           lock \notin Workers, sends = 0, effect = "none",
           lock' \in {None, "api"},
           state' \notin {"REVALIDATING", "EXECUTING", "EXECUTION_UNKNOWN", "SUCCEEDED",
                          "FAILED", "STALE"},
           UNCHANGED <<execution, worker, crashes, commands, targetVersion, effect, sends,
                       appliedTo>>
    PROVE  ExecutionInv'
<1>1. TypeOK'
  BY DEF ExecutionInv, TypeOK, ApprovalsInv
<1>2. RowsAgree' /\ SendHistory' /\ AtMostOneSend' /\ OutcomeIsEvidence'
      /\ EffectOnCheckedTarget' /\ UnknownNotAbandoned'
  BY DEF RowsAgree, SendHistory, AtMostOneSend, OutcomeIsEvidence, EffectOnCheckedTarget,
         UnknownNotAbandoned
<1>3. LockDiscipline' /\ ClaimIsExclusive'
  BY WorkersAssumption DEF LockDiscipline, ClaimIsExclusive, UnderLock, InGates
<1>4. \A v \in Workers : WorkerKnows(v)'
  BY DEF WorkerKnows, InGates
<1> QED
  BY <1>1, <1>2, <1>3, <1>4 DEF ExecutionInv

\* Decisions, expiry and cancellation only move a revision nobody claimed,
\* and never to a state that a worker could be at.
LEMMA CommandMoves ==
    ASSUME ApprovalsInv, Command
    PROVE  /\ state \in {"AUTO_APPROVED", "PENDING_APPROVAL_1", "PENDING_APPROVAL_2", "APPROVED"}
           /\ state' \in {"REJECTED", "APPROVED", "PENDING_APPROVAL_2", "EXPIRED", "CANCELLED"}
           /\ UNCHANGED <<requester, policy, expiresAt, assignments, activePolicy, now>>
<1>1. NeverCommitted
  BY DEF ApprovalsInv
<1>2. ASSUME NEW cmd \in DecisionCommands, Decide(cmd)
      PROVE  /\ state \in {"PENDING_APPROVAL_1", "PENDING_APPROVAL_2"}
             /\ state' \in {"REJECTED", "APPROVED", "PENDING_APPROVAL_2"}
             /\ UNCHANGED <<requester, policy, expiresAt, assignments, activePolicy, now>>
  <2>1. UNCHANGED <<requester, policy, expiresAt, assignments, activePolicy, now>>
    BY <1>2 DEF Decide, adminVars
  <2>2. CASE RecordTransition("REJECTED", "intent.transitioned")
    BY <1>1, <2>1, <2>2 DEF RecordTransition, IsLegal, LegalTransitions, NeverCommitted
  <2>3. CASE ~RecordTransition("REJECTED", "intent.transitioned")
    BY <1>2, <2>1, <2>3 DEF Decide, ResolveTarget, RecordTransition, RecordTwoTransitions
  <2> QED
    BY <2>2, <2>3
<1>3. ASSUME NEW cmd \in DecisionCommands, DecideExpired(cmd)
      PROVE  /\ state \in {"PENDING_APPROVAL_1", "PENDING_APPROVAL_2", "APPROVED"}
             /\ state' = "EXPIRED"
             /\ UNCHANGED <<requester, policy, expiresAt, assignments, activePolicy, now>>
  BY <1>1, <1>3 DEF DecideExpired, Expired, ExpirableStates, NeverCommitted, RecordTransition,
                    adminVars
<1>4. ASSUME NEW actor \in Actors, NEW expected \in 1..version, Cancel(actor, expected)
      PROVE  /\ state \in {"AUTO_APPROVED", "PENDING_APPROVAL_1", "PENDING_APPROVAL_2",
                           "APPROVED"}
             /\ state' = "CANCELLED"
             /\ UNCHANGED <<requester, policy, expiresAt, assignments, activePolicy, now>>
  BY <1>1, <1>4 DEF Cancel, CancellableStates, NeverCommitted, RecordTransition, adminVars
<1> QED
  BY <1>2, <1>3, <1>4 DEF Command

LEMMA CommandOneLevel ==
    ASSUME ExecutionInv, Command
    PROVE  OneLevelRoutes'
<1>1. policy' = policy
  BY CommandMoves DEF ExecutionInv
<1>2. ASSUME NEW cmd \in DecisionCommands, Decide(cmd)
      PROVE  OneLevelRoutes'
  <2>1. /\ decisions' = decisions \cup {DecisionRow(cmd)}
        /\ DecisionRow(cmd).decision = cmd.decision /\ DecisionRow(cmd).level = cmd.level
    BY <1>2 DEF Decide, DecisionRow
  <2>2. cmd.decision = "APPROVE" /\ policy.route = "SINGLE" => cmd.level = 1
    BY <1>2 DEF Decide, ResolveTarget
  <2> QED
    BY <1>1, <2>1, <2>2 DEF ExecutionInv, OneLevelRoutes
<1>3. ASSUME decisions' = decisions
      PROVE  OneLevelRoutes'
  BY <1>1, <1>3 DEF ExecutionInv, OneLevelRoutes
<1> QED
  BY <1>2, <1>3 DEF Command, DecideExpired, Cancel

LEMMA EndCommandKeeps ==
    ASSUME ExecutionInv, EndCommand
    PROVE  ExecutionInv'
<1>1. /\ lock = "api" /\ lock' = None
      /\ UNCHANGED <<execution, worker, crashes, commands, targetVersion, effect, sends,
                     appliedTo>>
  BY DEF EndCommand, providerVars
<1>2. CASE Command
  <2>1. ApprovalsInv'
    BY <1>2, InvStep DEF ExecutionInv, ApprovalsNext
  <2>2. /\ state \in {"AUTO_APPROVED", "PENDING_APPROVAL_1", "PENDING_APPROVAL_2", "APPROVED"}
        /\ state' \in {"REJECTED", "APPROVED", "PENDING_APPROVAL_2", "EXPIRED", "CANCELLED"}
    BY <1>2, CommandMoves DEF ExecutionInv
  <2>3. /\ execution = None /\ \A w \in Workers : worker[w].pc = "idle"
        /\ lock \notin Workers /\ sends = 0 /\ effect = "none"
    BY <2>2, Unclaimed
  <2>4. OneLevelRoutes'
    BY <1>2, CommandOneLevel
  <2> QED
    BY <1>1, <2>1, <2>2, <2>3, <2>4, UnclaimedMove
<1>3. CASE UNCHANGED approvalVars
  <2>1. /\ ApprovalsInv' /\ ApprovalsTypeOK' /\ UNCHANGED intentVars
        /\ UNCHANGED <<state, policy, decisions, assignments>>
    BY <1>3, InvStep DEF ExecutionInv, ApprovalsInv, approvalVars, intentVars, adminVars
  <2>2. TypeOK /\ LockDiscipline /\ ClaimIsExclusive /\ \A w \in Workers : WorkerKnows(w)
    BY DEF ExecutionInv
  <2>3. TypeOK'
    BY <1>1, <2>1, <2>2 DEF TypeOK
  <2>4. LockDiscipline' /\ ClaimIsExclusive'
    BY <1>1, <2>1, <2>2, WorkersAssumption DEF LockDiscipline, ClaimIsExclusive
  <2>5. \A w \in Workers : WorkerKnows(w)'
    BY <1>1, <2>1, <2>2, KnowsFrame
  <2> QED
    BY <1>1, <2>1, <2>3, <2>4, <2>5, RowsFrame
<1> QED
  BY <1>2, <1>3 DEF EndCommand

LEMMA CreateKeeps ==
    ASSUME ExecutionInv, NEW actor \in Actors, CreateIntent(actor), Witness,
           UNCHANGED <<execution, lock, crashes, commands, providerVars>>
    PROVE  ExecutionInv'
<1>1. UNCHANGED <<execution, lock, crashes, commands, targetVersion, effect, sends, appliedTo>>
  BY DEF providerVars
<1>2. ApprovalsInv'
  BY InvStep DEF ExecutionInv, ApprovalsNext
<1>3. state = None /\ activePolicy \in Policies /\ state' = RouteState(activePolicy)
  BY DEF CreateIntent, ExecutionInv, TypeOK, ApprovalsTypeOK
<1>4. state' \in {"AUTO_APPROVED", "PENDING_APPROVAL_1", "BLOCKED"}
  BY <1>3, RouteStateType
<1>5. /\ execution = None /\ \A w \in Workers : worker[w].pc = "idle"
      /\ lock \notin Workers /\ sends = 0 /\ effect = "none"
  BY <1>3, Unclaimed, StatesAssumption DEF IntentState
<1>6. decisions' = {}
  BY <1>3 DEF CreateIntent, ExecutionInv, ApprovalsInv, RowsWrittenTogether
<1>7. OneLevelRoutes'
  BY <1>6 DEF OneLevelRoutes
<1>8. lock' \in {None, "api"}
  BY <1>1, <1>5 DEF ExecutionInv, TypeOK
<1>9. worker' = worker
  BY <1>5 DEF Witness, ExecutionInv, TypeOK
<1> QED
  BY <1>1, <1>2, <1>4, <1>5, <1>7, <1>8, <1>9, UnclaimedMove

\* Every step of the system keeps the invariant.
LEMMA NextKeeps ==
    ASSUME ExecutionInv, [Next]_vars
    PROVE  ExecutionInv'
<1>1. ASSUME NEW w \in Workers, Work(w)
      PROVE  ExecutionInv'
  <2>1. CASE RecordReconciliation(w)
    BY <2>1, KeepUnknownKeeps, ResolveUnknownKeeps DEF RecordReconciliation
  <2> QED
    BY <1>1, <2>1, ClaimKeeps, FetchTargetKeeps, LockForGatesKeeps,
       CheckApproverKeeps, RevalidateGatesKeeps, FailAfterFetchFailureKeeps, ClaimConflictKeeps, LockForExecuteKeeps,
       SendToProviderKeeps, RecordOutcomeKeeps, RecoverKeeps, SnapshotDueKeeps,
       ReadExecutionKeeps, LockForReconcileKeeps, LookupStatusKeeps DEF Work
<1>2. ASSUME NEW w \in Workers, Crash(w)
      PROVE  ExecutionInv'
  BY <1>2, CrashKeeps
<1>3. ASSUME BeginCommand
      PROVE  ExecutionInv'
  BY <1>3, BeginCommandKeeps
<1>4. ASSUME EndCommand
      PROVE  ExecutionInv'
  BY <1>4, EndCommandKeeps
<1>5. ASSUME ProviderLands
      PROVE  ExecutionInv'
  BY <1>5, ProviderLandsKeeps
<1>6. ASSUME TargetChanges
      PROVE  ExecutionInv'
  <2>1. targetVersion' \in Nat
    BY <1>6 DEF TargetChanges, ExecutionInv, TypeOK
  <2>2. ApprovalsInv' /\ UNCHANGED <<intentVars, assignments>>
    BY <1>6, InvStep DEF TargetChanges, ExecutionInv, approvalVars, adminVars
  <2> QED
    BY <1>6, <2>1, <2>2, SurroundingsKeep DEF TargetChanges
<1>7. ASSUME OtherCommands
      PROVE  ExecutionInv'
  BY <1>7, CreateKeeps, AdministerKeeps DEF OtherCommands
<1>8. ASSUME Tick \/ UNCHANGED approvalVars,
             UNCHANGED <<workerVars, commands, providerVars>>
      PROVE  ExecutionInv'
  <2>1. UNCHANGED <<intentVars, assignments>>
    BY <1>8 DEF Tick, approvalVars, adminVars
  <2>2. ApprovalsInv'
    BY <1>8, InvStep DEF ExecutionInv, ApprovalsNext
  <2>3. targetVersion' \in Nat /\ UNCHANGED <<effect, sends, appliedTo>>
    BY <1>8 DEF providerVars, ExecutionInv, TypeOK
  <2> QED
    BY <1>8, <2>1, <2>2, <2>3, SurroundingsKeep
<1> QED
  BY <1>1, <1>2, <1>3, <1>4, <1>5, <1>6, <1>7, <1>8 DEF Next, TimePasses, vars

LEMMA InitHolds ==
    ASSUME Init
    PROVE  ExecutionInv
<1>1. /\ ApprovalsInit
      /\ execution = None /\ worker = [w \in Workers |-> Idle] /\ lock = None
      /\ commands = 0 /\ crashes = 0 /\ targetVersion = 1
      /\ effect = "none" /\ sends = 0 /\ appliedTo = None
  BY DEF Init
<1>2. ApprovalsInv /\ ApprovalsTypeOK
  BY <1>1, InvInit DEF ApprovalsInv
<1>3. state = None /\ policy = None /\ state \notin IntentState
  BY <1>1, StatesAssumption DEF ApprovalsInit
<1>4. TypeOK
  BY <1>1, <1>2, IdleType DEF TypeOK, Effects
<1>5. OneLevelRoutes /\ RowsAgree /\ SendHistory /\ AtMostOneSend /\ OutcomeIsEvidence
      /\ EffectOnCheckedTarget /\ UnknownNotAbandoned
  BY <1>1, <1>3 DEF OneLevelRoutes, RowsAgree, SendHistory, AtMostOneSend, OutcomeIsEvidence,
                    EffectOnCheckedTarget, UnknownNotAbandoned, IntentState
<1>6. \A w \in Workers : worker[w].pc = "idle"
  BY <1>1, IdleType
<1>7. LockDiscipline /\ ClaimIsExclusive /\ \A w \in Workers : WorkerKnows(w)
  BY <1>1, <1>6, WorkersAssumption DEF LockDiscipline, ClaimIsExclusive, WorkerKnows,
                                       UnderLock, InGates
<1> QED
  BY <1>2, <1>4, <1>5, <1>7 DEF ExecutionInv

------------------------------------------------------------------------------
(* Safety *)

\* What the approval commands, the workers, the recovery and the provider keep
\* together, for any number of workers and in every interleaving.
THEOREM ExecutionInvariant == Spec => []ExecutionInv
<1>1. Init => ExecutionInv
  BY InitHolds
<1>2. ExecutionInv /\ [Next]_vars => ExecutionInv'
  BY NextKeeps
<1> QED
  BY <1>1, <1>2, PTL DEF Spec

\* The rows, the lock and the workers keep their types.
THEOREM TypesHold == Spec => []TypeOK
<1>1. ExecutionInv => TypeOK
  BY DEF ExecutionInv
<1> QED
  BY <1>1, ExecutionInvariant, PTL

\* The provider is called at most once for a revision, whatever crashes,
\* recovers, times out or retries.
THEOREM SentAtMostOnce == Spec => []AtMostOneSend
<1>1. ExecutionInv => AtMostOneSend
  BY DEF ExecutionInv
<1> QED
  BY <1>1, ExecutionInvariant, PTL

\* Nothing that was cancelled, rejected, blocked, expired or found stale was
\* ever sent.
THEOREM ClosedWasNeverSent == Spec => []ClosedNeverSent
<1>1. ExecutionInv => ClosedNeverSent
  BY DEF ExecutionInv, SendHistory, ClosedNeverSent
<1> QED
  BY <1>1, ExecutionInvariant, PTL

\* A recorded outcome is what the provider did, and stays so.
THEOREM OutcomesAreTrue == Spec => []OutcomeIsEvidence
<1>1. ExecutionInv => OutcomeIsEvidence
  BY DEF ExecutionInv
<1> QED
  BY <1>1, ExecutionInvariant, PTL

\* The provider changes the very version of the target the gates passed on.
THEOREM CheckedTarget == Spec => []EffectOnCheckedTarget
<1>1. ExecutionInv => EffectOnCheckedTarget
  BY DEF ExecutionInv
<1> QED
  BY <1>1, ExecutionInvariant, PTL

\* The intent row and the execution row always tell the same story.
THEOREM RowsAlwaysAgree == Spec => []RowsAgree
<1>1. ExecutionInv => RowsAgree
  BY DEF ExecutionInv
<1> QED
  BY <1>1, ExecutionInvariant, PTL

\* From its claim to the recorded outcome a worker is alone with a revision.
THEOREM ClaimsExclude == Spec => []ClaimIsExclusive
<1>1. ExecutionInv => ClaimIsExclusive
  BY DEF ExecutionInv
<1> QED
  BY <1>1, ExecutionInvariant, PTL

\* An unknown outcome has attempts left, or an operator was told.
THEOREM UnknownIsEscalated == Spec => []UnknownNotAbandoned
<1>1. ExecutionInv => UnknownNotAbandoned
  BY DEF ExecutionInv
<1> QED
  BY <1>1, ExecutionInvariant, PTL

\* What the approval commands promise alone still holds when workers move the
\* same row: the walk is legal, the evidence complete, the decisions in time.
THEOREM ApprovalsStillHold == Spec => [](LegalWalk /\ ApprovalEvidence /\ DecisionsInWindow)
<1>1. ExecutionInv => LegalWalk /\ ApprovalEvidence /\ DecisionsInWindow
  BY DEF ExecutionInv, ApprovalsInv
<1> QED
  BY <1>1, ExecutionInvariant, PTL

------------------------------------------------------------------------------
(* The evidence under interleaving *)

\* A worker that finds no evidence adds at most the operator's alarm, which
\* announces no transition.
LEMMA EvidenceKeepUnknown ==
    ASSUME ExecutionInv, EvidenceInv, NEW w \in Workers, KeepUnknown(w), decisions' = decisions
    PROVE  EvidenceInv'
<1> DEFINE m == Message("execution.reconciliation_exhausted", None)
<1>1. transitions \in Seq(TransitionRows) /\ outbox \in Seq(OutboxRows)
  BY DEF ExecutionInv, ApprovalsInv, ApprovalsTypeOK, TransitionRows, OutboxRows
<1>2. m \in OutboxRows /\ m.to = None
  BY MessageType DEF Message, Topics
<1>3. transitions' = transitions /\ outbox' \in {outbox, Append(outbox, m)}
  BY DEF KeepUnknown
<1> HIDE DEF m
<1>4. Announces(outbox, transitions)
  BY DEF EvidenceInv, EveryTransitionAnnounced
<1>5. Announces(Append(outbox, m), transitions)
  BY <1>1, <1>2, <1>4, AnnounceNone
<1>6. EveryTransitionAnnounced'
  BY <1>3, <1>4, <1>5 DEF EveryTransitionAnnounced
<1> QED
  BY <1>3, <1>6 DEF EvidenceInv, DecisionsBindWhatWasSeen, SeenIsPast

LEMMA EvidenceWork ==
    ASSUME ExecutionInv, EvidenceInv, NEW w \in Workers, Work(w)
    PROVE  EvidenceInv'
<1>1. ApprovalsTypeOK /\ WorkerKnows(w)
  BY InvTypes
<1>2. ASSUME NEW target \in WorkerStates, NEW topic \in Topics,
             RecordTransition(target, topic), decisions' = decisions
      PROVE  EvidenceInv'
  <2>1. target \in IntentState
    BY DEF WorkerStates, IntentState
  <2> QED
    BY <1>1, <1>2, <2>1, EvidenceTransition
<1>3. /\ "REVALIDATING" \in WorkerStates /\ "STALE" \in WorkerStates
      /\ "EXECUTION_UNKNOWN" \in WorkerStates
      /\ "intent.transitioned" \in Topics /\ "execution.execution_unknown" \in Topics
      /\ "execution.reconciled" \in Topics
  BY DEF WorkerStates, Topics
<1>4. CASE Claim(w)
  <2>1. RecordTransition("REVALIDATING", "intent.transitioned") /\ decisions' = decisions
    BY <1>4 DEF Claim, RecordClaimTransition
  <2> QED
    BY <1>2, <1>3, <2>1, Zenon
<1>5. CASE RevalidateGates(w)
  <2>1. RecordTransition(GateVerdict(w), "intent.transitioned") /\ decisions' = decisions
    BY <1>5 DEF RevalidateGates, RecordClaimTransition
  <2>2. GateVerdict(w) \in WorkerStates
    BY DEF GateVerdict, WorkerStates
  <2> QED
    BY <1>2, <1>3, <2>1, <2>2, Zenon
<1>6. CASE FailAfterFetchFailure(w)
  <2>1. RecordTransition("STALE", "intent.transitioned") /\ decisions' = decisions
    BY <1>6 DEF FailAfterFetchFailure, RecordClaimTransition
  <2> QED
    BY <1>2, <1>3, <2>1, Zenon
<1>7. CASE RecordOutcome(w)
  <2> DEFINE target == OutcomeState(worker[w].reply)
             topic  == OutcomeTopic[target]
  <2>1. RecordTransition(target, topic) /\ decisions' = decisions
    BY <1>7 DEF RecordOutcome
  <2>2. worker[w].reply \in {"SUCCEEDED", "FAILED", "UNKNOWN"}
    BY <1>1, <1>7 DEF RecordOutcome, WorkerKnows
  <2>3. target \in WorkerStates /\ topic \in Topics
    BY <2>2 DEF OutcomeState, OutcomeTopic, WorkerStates, Topics
  <2> HIDE DEF target, topic
  <2> QED
    BY <1>2, <2>1, <2>3, Zenon
<1>8. CASE RecoverStaleExecuting(w)
  <2>1. /\ RecordTransition("EXECUTION_UNKNOWN", "execution.execution_unknown")
        /\ decisions' = decisions
    BY <1>8 DEF RecoverStaleExecuting
  <2> QED
    BY <1>2, <1>3, <2>1, Zenon
<1>9. CASE RecordReconciliation(w)
  <2>1. /\ decisions' = decisions /\ worker[w].pc = "polled"
        /\ KeepUnknown(w) \/ ResolveUnknown(w)
    BY <1>9 DEF RecordReconciliation
  <2>2. CASE KeepUnknown(w)
    BY <2>1, <2>2, EvidenceKeepUnknown
  <2>3. CASE ResolveUnknown(w)
    <3>1. RecordTransition(worker[w].reply, "execution.reconciled")
      BY <2>3 DEF ResolveUnknown
    <3>2. worker[w].reply \in WorkerStates
      BY <1>1, <2>1, <2>3 DEF ResolveUnknown, WorkerKnows, WorkerStates
    <3> QED
      BY <1>2, <1>3, <2>1, <3>1, <3>2, Zenon
  <2> QED
    BY <2>1, <2>2, <2>3
<1>10. CASE \/ FetchTarget(w) \/ LockForGates(w) \/ CheckApprover(w) \/ ClaimConflict(w)
            \/ LockForExecute(w) \/ SendToProvider(w) \/ SnapshotDue(w) \/ ReadExecution(w) \/ LockForReconcile(w) \/ LookupStatus(w)
  <2>1. UNCHANGED approvalVars
    BY <1>10 DEF FetchTarget, LockForGates, CheckApprover, ClaimConflict, LockForExecute, SendToProvider, SnapshotDue,
                 ReadExecution, LockForReconcile, LookupStatus
  <2> QED
    BY <2>1, EvidenceFrame DEF approvalVars, intentVars
<1> QED
  BY <1>4, <1>5, <1>6, <1>7, <1>8, <1>9, <1>10 DEF Work

LEMMA EvidenceNext ==
    ASSUME ExecutionInv, EvidenceInv, [Next]_vars
    PROVE  EvidenceInv'
<1>1. ApprovalsInv
  BY DEF ExecutionInv
<1>2. ASSUME ApprovalsNext \/ UNCHANGED approvalVars
      PROVE  EvidenceInv'
  BY <1>1, <1>2, EvidenceStep
<1>3. ASSUME NEW w \in Workers, Work(w)
      PROVE  EvidenceInv'
  BY <1>3, EvidenceWork
<1>4. ASSUME \E w \in Workers : Crash(w)
      PROVE  EvidenceInv'
  BY <1>2, <1>4 DEF Crash
<1>5. ASSUME BeginCommand \/ EndCommand \/ ProviderLands \/ TargetChanges
      PROVE  EvidenceInv'
  BY <1>2, <1>5 DEF BeginCommand, EndCommand, ProviderLands, TargetChanges, ApprovalsNext
<1>6. ASSUME OtherCommands \/ TimePasses \/ UNCHANGED vars
      PROVE  EvidenceInv'
  BY <1>2, <1>6 DEF OtherCommands, TimePasses, vars, ApprovalsNext
<1> QED
  BY <1>3, <1>4, <1>5, <1>6 DEF Next

\* With workers, crashes and recovery writing to the same row, every
\* transition is still announced exactly once and in order, and every
\* decision still stands for the transition after the version it was about.
THEOREM EvidenceStillHolds == Spec => [](EveryTransitionAnnounced /\ DecisionsBindWhatWasSeen)
<1>1. Init => EvidenceInv
  BY EvidenceInit DEF Init
<1>2. ExecutionInv /\ EvidenceInv /\ [Next]_vars => EvidenceInv'
  BY EvidenceNext
<1>3. EvidenceInv => EveryTransitionAnnounced /\ DecisionsBindWhatWasSeen
  BY DEF EvidenceInv
<1> QED
  BY <1>1, <1>2, <1>3, ExecutionInvariant, PTL DEF Spec

------------------------------------------------------------------------------
(* Action properties *)

\* A terminal state has no edge, so no handler that asks the table moves it,
\* and a worker that is still at the revision is in no terminal state.
LEMMA TerminalStep ==
    ASSUME ExecutionInv, Next, state \in IntentState, IsTerminal(state)
    PROVE  intentVars' = intentVars /\ execution' = execution
<1>1. ASSUME NEW target, NEW topic, RecordTransition(target, topic)
      PROVE  FALSE
  BY <1>1 DEF RecordTransition, IsLegal, IsTerminal
<1>2. ASSUME NEW middle, NEW target, NEW topic, RecordTwoTransitions(middle, target, topic)
      PROVE  FALSE
  BY <1>2 DEF RecordTwoTransitions, IsLegal, IsTerminal
<1>3. state # None
  BY StatesAssumption
<1>4. ASSUME NEW w \in Workers, Work(w)
      PROVE  intentVars' = intentVars /\ execution' = execution
  <2>1. ~Claim(w) /\ ~RevalidateGates(w) /\ ~FailAfterFetchFailure(w)
        /\ ~RecordOutcome(w) /\ ~RecoverStaleExecuting(w)
    BY <1>1 DEF Claim, RevalidateGates, FailAfterFetchFailure, RecordOutcome,
                RecoverStaleExecuting, RecordClaimTransition
  <2>2. ~RecordReconciliation(w)
    <3>1. ASSUME RecordReconciliation(w)
          PROVE  FALSE
      <4>1. state = "EXECUTION_UNKNOWN"
        BY <3>1, InvTypes DEF RecordReconciliation, WorkerKnows
      <4> QED
        BY <4>1 DEF IsTerminal, LegalTransitions
    <3> QED
      BY <3>1
  <2> QED
    BY <1>4, <2>1, <2>2 DEF Work, FetchTarget, LockForGates, CheckApprover, ClaimConflict,
         LockForExecute, SendToProvider, SnapshotDue, ReadExecution, LockForReconcile, LookupStatus, approvalVars
<1>5. ASSUME NEW w \in Workers, Crash(w)
      PROVE  intentVars' = intentVars /\ execution' = execution
  BY <1>5 DEF Crash, approvalVars
<1>6. ASSUME EndCommand
      PROVE  intentVars' = intentVars /\ execution' = execution
  <2>1. ~Command
    BY <1>1, <1>2 DEF Command, Decide, ResolveTarget, DecideExpired, Cancel
  <2> QED
    BY <1>6, <2>1 DEF EndCommand, approvalVars
<1>7. ASSUME OtherCommands
      PROVE  intentVars' = intentVars /\ execution' = execution
  BY <1>3, <1>7 DEF OtherCommands, CreateIntent, Administer, GrantRole, RevokeRole,
                    ActivatePolicyBundle, workerVars
<1>8. ASSUME BeginCommand \/ ProviderLands \/ TargetChanges \/ TimePasses
      PROVE  intentVars' = intentVars /\ execution' = execution
  BY <1>8 DEF BeginCommand, ProviderLands, TargetChanges, TimePasses, Tick, approvalVars,
              workerVars
<1> QED
  BY <1>4, <1>5, <1>6, <1>7, <1>8 DEF Next

\* A terminal revision is settled for good, its execution row included.
THEOREM Settled == Spec => SettledForGood
<1>1. ExecutionInv /\ [Next]_vars =>
          [(state \in IntentState /\ IsTerminal(state)) =>
               intentVars' = intentVars /\ execution' = execution]_vars
  BY TerminalStep
<1> QED
  BY <1>1, ExecutionInvariant, PTL DEF Spec, SettledForGood

\* Only the gates of the worker that holds the claim lead to EXECUTING.
LEMMA OnlyGatesPermit ==
    ASSUME ExecutionInv, Next, state = "REVALIDATING", state' = "EXECUTING"
    PROVE  \E w \in Workers : worker[w].pc = "authority" /\ GateVerdict(w) = "EXECUTING"
<1>1. ASSUME NEW w \in Workers, Work(w), ~RevalidateGates(w)
      PROVE  FALSE
  <2>1. ~FetchTarget(w) /\ ~LockForGates(w) /\ ~CheckApprover(w) /\ ~ClaimConflict(w)
        /\ ~LockForExecute(w) /\ ~SendToProvider(w) /\ ~SnapshotDue(w) /\ ~ReadExecution(w) /\ ~LockForReconcile(w) /\ ~LookupStatus(w)
    BY DEF FetchTarget, LockForGates, CheckApprover, ClaimConflict, LockForExecute,
           SendToProvider, SnapshotDue, ReadExecution, LockForReconcile, LookupStatus, approvalVars, intentVars
  <2>2. ~Claim(w) /\ ~RecoverStaleExecuting(w) /\ ~FailAfterFetchFailure(w)
    BY DEF Claim, RecoverStaleExecuting, FailAfterFetchFailure, RecordClaimTransition,
           RecordTransition
  <2>3. ~RecordOutcome(w)
    BY InvTypes DEF RecordOutcome, WorkerKnows
  <2>4. ~RecordReconciliation(w)
    BY InvTypes DEF RecordReconciliation, WorkerKnows
  <2> QED
    BY <1>1, <2>1, <2>2, <2>3, <2>4 DEF Work
<1>2. ASSUME NEW w \in Workers, RevalidateGates(w)
      PROVE  worker[w].pc = "authority" /\ GateVerdict(w) = "EXECUTING"
  BY <1>2 DEF RevalidateGates, RecordClaimTransition, RecordTransition
<1>3. ~EndCommand
  <2>1. ~Command
    BY CommandMoves DEF ExecutionInv
  <2> QED
    BY <2>1 DEF EndCommand, approvalVars, intentVars
<1>4. ~OtherCommands
  BY StatesAssumption DEF OtherCommands, CreateIntent, Administer, GrantRole, RevokeRole,
         ActivatePolicyBundle, intentVars, IntentState
<1>5. ~BeginCommand /\ ~ProviderLands /\ ~TargetChanges /\ ~TimePasses
  BY DEF BeginCommand, ProviderLands, TargetChanges, TimePasses, Tick, approvalVars, intentVars
<1>6. \A w \in Workers : ~Crash(w)
  BY DEF Crash, approvalVars, intentVars
<1> QED
  BY <1>1, <1>2, <1>3, <1>4, <1>5, <1>6 DEF Next

\* What a verdict of EXECUTING says of the approval.
LEMMA PermitRestsOnAuthority ==
    ASSUME ExecutionInv, state = "REVALIDATING", policy.route # "NONE",
           NEW w \in Workers, worker[w].pc = "authority", GateVerdict(w) = "EXECUTING"
    PROVE  ApprovalStood(worker[lock].gate)
<1> DEFINE gate == worker[w].gate
<1>1. state # None /\ state \in AuthorizedStates
  BY StatesAssumption DEF IntentState, AuthorizedStates
<1>2. policy \in Policies /\ IsPolicy(policy) /\ policy # None
  BY <1>1, RouteStateType DEF ExecutionInv, ApprovalsInv, RowsWrittenTogether
<1>3. policy.route \in {"SINGLE", "CRITICAL_TWO_STEP"} /\ Len(policy.roles) > 0
  BY <1>2 DEF IsPolicy, Routes
<1>4. /\ ~(expiresAt # None /\ expiresAt <= gate.at)
      /\ Confirmed(policy, gate.held)
  BY DEF GateVerdict
<1>5. /\ lock = w /\ gate.at \in Nat /\ gate.held \subseteq ApproveRows(decisions)
      /\ \A d \in gate.held : \E rows \in gate.moments :
             StillAuthorized(rows, d.actor, DemandedRoles(policy, d), policy.scopes,
                             gate.at, Environment)
  BY InvTypes DEF WorkerKnows, GateKnows, GateType, UnderLock
<1>6. gate.at < expiresAt
  <2>1. EarnedByRoute
    BY <1>1 DEF ExecutionInv, ApprovalsInv, ApprovalEvidence
  <2>2. Endorsed(1) # {}
    BY <1>3, <2>1 DEF EarnedByRoute
  <2>3. expiresAt # None
    BY <2>2 DEF Endorsed, ApproversOf, ExecutionInv, ApprovalsInv, DecisionsInWindow
  <2>4. expiresAt \in Nat
    BY <2>3 DEF ExecutionInv, TypeOK, ApprovalsTypeOK
  <2> QED
    BY <1>4, <1>5, <2>3, <2>4
<1>7. ASSUME NEW d \in gate.held, DemandedRoles(policy, d) # {}
      PROVE  HadAuthority(gate, d.actor, DemandedRoles(policy, d))
  BY <1>5, <1>7 DEF StillAuthorized, HadAuthority
<1>8. ASSUME NEW d \in gate.held
      PROVE  d.actor \in ApproversOf(decisions, d.level) \ {requester}
  <2>1. d \in decisions /\ d.decision = "APPROVE"
    BY <1>5 DEF ApproveRows
  <2>2. d.actor # requester
    BY <2>1 DEF ExecutionInv, ApprovalsInv, NoOwnApproval
  <2> QED
    BY <2>1, <2>2 DEF ApproversOf
<1>9. CASE policy.route = "SINGLE"
  <2>1. PICK d \in gate.held : TRUE
    BY <1>4, <1>9 DEF Confirmed
  <2>2. d.level = 1
    BY <1>2, <1>5, <1>9 DEF ExecutionInv, OneLevelRoutes, ApproveRows
  <2>3. d.actor \in Endorsed(1) \ {requester}
    BY <1>8, <2>2 DEF Endorsed
  <2>4. Range(policy.roles) # {}
    <3>1. 1 \in DOMAIN policy.roles
      BY <1>2, <1>3 DEF IsPolicy, IsRoles
    <3> QED
      BY <3>1 DEF Range
  <2>5. DemandedRoles(policy, d) = Range(policy.roles)
    BY <1>9 DEF DemandedRoles
  <2>6. HadAuthority(gate, d.actor, Range(policy.roles))
    BY <1>7, <2>4, <2>5
  <2> QED
    BY <1>5, <1>6, <1>9, <2>3, <2>6 DEF ApprovalStood
<1>10. CASE policy.route = "CRITICAL_TWO_STEP"
  <2>1. PICK d \in gate.held, e \in gate.held :
            d.level = 1 /\ e.level = 2 /\ d.actor # e.actor
    BY <1>4, <1>10 DEF Confirmed
  <2>2. d.actor \in Endorsed(1) \ {requester} /\ e.actor \in Endorsed(2) \ {requester}
    BY <1>8, <2>1 DEF Endorsed
  <2>3. /\ DemandedRoles(policy, d) = {policy.roles[1]}
        /\ DemandedRoles(policy, e) = {policy.roles[2]}
    BY <1>10, <2>1 DEF DemandedRoles
  <2>4. /\ HadAuthority(gate, d.actor, {policy.roles[1]})
        /\ HadAuthority(gate, e.actor, {policy.roles[2]})
    BY <1>7, <2>3
  <2> QED
    BY <1>5, <1>6, <1>10, <2>1, <2>2, <2>4 DEF ApprovalStood
<1> QED
  BY <1>3, <1>9, <1>10

\* Whatever was granted, revoked or activated since the decisions, the gates
\* only pass on authority the table gave inside their own transaction.
THEOREM AuthorityIsCurrent == Spec => PassesOnCurrentAuthority
<1>1. ASSUME ExecutionInv, Next,
             state = "REVALIDATING" /\ state' = "EXECUTING" /\ policy.route # "NONE"
      PROVE  ApprovalStood(worker[lock].gate)
  BY <1>1, OnlyGatesPermit, PermitRestsOnAuthority, Zenon
<1>2. ExecutionInv /\ [Next]_vars =>
          [state = "REVALIDATING" /\ state' = "EXECUTING" /\ policy.route # "NONE"
              => ApprovalStood(worker[lock].gate)]_vars
  BY <1>1, Zenon
<1> QED
  BY <1>2, ExecutionInvariant, PTL DEF Spec, PassesOnCurrentAuthority

------------------------------------------------------------------------------
(* Refinement *)

LEMMA OperationInit ==
    ASSUME Init
    PROVE  Operation!Init
<1>1. ApprovalsInit /\ sends = 0 /\ effect = "none"
  BY DEF Init
<1>2. Gate!Init
  BY <1>1, GateInit
<1> QED
  BY <1>1, <1>2 DEF Gate!Init, Operation!Init

\* The mapping of a step that leaves the revision's rows and the provider alone.
LEMMA OperationStutter ==
    ASSUME UNCHANGED <<intentVars, effect, sends>>
    PROVE  UNCHANGED Operation!vars
  BY DEF intentVars, Operation!vars, Phase, Needed, Endorsers

\* Until it is claimed, a revision takes the steps of the approval gate.
LEMMA GateIsOperation ==
    ASSUME sends = 0, UNCHANGED <<sends, effect>>
    PROVE  /\ Gate!Open => Operation!Open
           /\ \A p : Gate!Endorse(p) => Operation!Endorse(p)
           /\ Gate!Close => Operation!Close
  BY DEF Gate!Open, Operation!Open, Gate!Endorse, Operation!Endorse, Gate!Enough,
         Operation!Enough, Gate!Close, Operation!Close

\* The phases a worker moves a revision through.
WorkerPhase(s) == CASE s \in {"AUTO_APPROVED", "APPROVED"}  -> "authorized"
                    [] s \in {"REVALIDATING", "EXECUTING"} -> "claimed"
                    [] s = "EXECUTION_UNKNOWN"             -> "unknown"
                    [] s = "SUCCEEDED"                     -> "succeeded"
                    [] s = "FAILED"                        -> "failed"
                    [] s \in {"STALE", "EXPIRED"}          -> "closed"

LEMMA WorkerPhases ==
    ASSUME state \in AuthorizedStates, NEW target \in WorkerStates, state' = target
    PROVE  Phase = WorkerPhase(state) /\ Phase' = WorkerPhase(target)
<1>1. state # None /\ state' # None
  BY StatesAssumption DEF IntentState, AuthorizedStates, WorkerStates
<1>2. Phase = WorkerPhase(state)
  BY <1>1 DEF Phase, WorkerPhase, AuthorizedStates
<1>3. Phase' = WorkerPhase(target)
  BY <1>1 DEF Phase, WorkerPhase, WorkerStates
<1> QED
  BY <1>2, <1>3

\* A worker's transition changes neither owner, need nor endorsements.
LEMMA WorkerKeepsApproval ==
    ASSUME UNCHANGED <<requester, policy, decisions>>
    PROVE  UNCHANGED <<requester, Needed, Endorsers>>
  BY DEF Needed, Endorsers

LEMMA OperationClaim ==
    ASSUME ExecutionInv, NEW w \in Workers, Claim(w)
    PROVE  Operation!Claim
<1>1. /\ state \in {"AUTO_APPROVED", "APPROVED"} /\ state' = "REVALIDATING"
      /\ UNCHANGED <<requester, policy, decisions, sends, effect>>
  BY DEF Claim, RecordClaimTransition, RecordTransition, providerVars
<1>2. Phase = "authorized" /\ Phase' = "claimed"
  <2>1. state \in AuthorizedStates /\ state' \in WorkerStates
    BY <1>1 DEF AuthorizedStates, WorkerStates
  <2> QED
    BY <1>1, <2>1, WorkerPhases DEF WorkerPhase
<1> QED
  BY <1>1, <1>2, WorkerKeepsApproval DEF Operation!Claim

\* The gates pass unseen, or close what was never sent.
LEMMA OperationGates ==
    ASSUME ExecutionInv, NEW w \in Workers, RevalidateGates(w) \/ FailAfterFetchFailure(w)
    PROVE  Operation!Close \/ UNCHANGED Operation!vars
<1>1. /\ worker[w].pc \in InGates
      /\ UNCHANGED <<requester, policy, decisions, sends, effect>>
  BY DEF RevalidateGates, FailAfterFetchFailure, providerVars, InGates
<1>2. state = "REVALIDATING" /\ sends = 0
  BY <1>1, AloneInGates
<1>3. state' \in {"EXECUTING", "STALE", "EXPIRED"}
  BY DEF RevalidateGates, FailAfterFetchFailure, GateVerdict, RecordClaimTransition,
         RecordTransition
<1>4. Phase = "claimed" /\ Phase' = IF state' = "EXECUTING" THEN "claimed" ELSE "closed"
  <2>1. state \in AuthorizedStates /\ state' \in WorkerStates
    BY <1>2, <1>3 DEF AuthorizedStates, WorkerStates
  <2> QED
    BY <1>2, <1>3, <2>1, WorkerPhases DEF WorkerPhase
<1> QED
  BY <1>1, <1>2, <1>4, WorkerKeepsApproval DEF Operation!Close, Operation!vars

LEMMA OperationSend ==
    ASSUME ExecutionInv, NEW w \in Workers, SendToProvider(w)
    PROVE  Operation!Send
<1>1. /\ worker[w].pc = "send" /\ sends' = sends + 1
      /\ UNCHANGED <<requester, policy, decisions, state>>
  BY DEF SendToProvider, approvalVars, intentVars
<1>2. state = "EXECUTING" /\ sends = 0
  BY <1>1, InvTypes DEF WorkerKnows
<1>3. effect' \in {"none", "inflight", "SUCCEEDED", "FAILED"}
  BY DEF SendToProvider, Answers, ProviderAnswers
<1>4. Phase = "claimed" /\ Phase' = "claimed"
  <2>1. state \in AuthorizedStates /\ state' \in WorkerStates
    BY <1>1, <1>2 DEF AuthorizedStates, WorkerStates
  <2> QED
    BY <1>1, <1>2, <2>1, WorkerPhases DEF WorkerPhase
<1> QED
  BY <1>1, <1>2, <1>3, <1>4, WorkerKeepsApproval DEF Operation!Send, Operation!Outcomes

\* The answer is reported, or lost.
LEMMA OperationReport ==
    ASSUME ExecutionInv, NEW w \in Workers, RecordOutcome(w)
    PROVE  Operation!Report \/ Operation!Lose
<1>1. /\ worker[w].pc = "sent" /\ state' = OutcomeState(worker[w].reply)
      /\ UNCHANGED <<requester, policy, decisions, sends, effect>>
  BY DEF RecordOutcome, RecordTransition, providerVars
<1>2. /\ state = "EXECUTING" /\ sends # 0 /\ sends \in Nat
      /\ worker[w].reply \in {"SUCCEEDED", "FAILED", "UNKNOWN"}
      /\ worker[w].reply = "SUCCEEDED" => effect = "SUCCEEDED"
      /\ worker[w].reply = "FAILED" => effect \in {"none", "FAILED"}
  BY <1>1, InvTypes DEF WorkerKnows, TypeOK
<1>3. /\ state' \in {"SUCCEEDED", "FAILED", "EXECUTION_UNKNOWN"}
      /\ state' = "SUCCEEDED" => effect = "SUCCEEDED"
      /\ state' = "FAILED" => effect \in {"none", "FAILED"}
  BY <1>1, <1>2 DEF OutcomeState
<1>4. /\ Phase = "claimed"
      /\ state' = "SUCCEEDED" => Phase' = "succeeded"
      /\ state' = "FAILED" => Phase' = "failed"
      /\ state' = "EXECUTION_UNKNOWN" => Phase' = "unknown"
  <2>1. state \in AuthorizedStates /\ state' \in WorkerStates
    BY <1>2, <1>3 DEF AuthorizedStates, WorkerStates
  <2> QED
    BY <1>2, <1>3, <2>1, WorkerPhases DEF WorkerPhase
<1> QED
  BY <1>1, <1>2, <1>3, <1>4, WorkerKeepsApproval DEF Operation!Report, Operation!Lose

LEMMA OperationLose ==
    ASSUME ExecutionInv, NEW w \in Workers, RecoverStaleExecuting(w)
    PROVE  Operation!Lose
<1>1. /\ state = "EXECUTING" /\ state' = "EXECUTION_UNKNOWN"
      /\ UNCHANGED <<requester, policy, decisions, sends, effect>>
  BY DEF RecoverStaleExecuting, RecordTransition, providerVars
<1>2. Phase = "claimed" /\ Phase' = "unknown"
  <2>1. state \in AuthorizedStates /\ state' \in WorkerStates
    BY <1>1 DEF AuthorizedStates, WorkerStates
  <2> QED
    BY <1>1, <2>1, WorkerPhases DEF WorkerPhase
<1> QED
  BY <1>1, <1>2, WorkerKeepsApproval DEF Operation!Lose

\* An unknown outcome is settled by evidence, or nothing is seen to happen.
LEMMA OperationSettle ==
    ASSUME ExecutionInv, NEW w \in Workers, RecordReconciliation(w)
    PROVE  Operation!Settle \/ UNCHANGED Operation!vars
<1>1. /\ worker[w].pc = "polled"
      /\ UNCHANGED <<requester, policy, decisions, sends, effect>>
  BY DEF RecordReconciliation, providerVars
<1>2. CASE KeepUnknown(w)
  <2>1. state' = state
    BY <1>2 DEF KeepUnknown
  <2>2. Phase' = Phase
    BY <2>1 DEF Phase
  <2> QED
    BY <1>1, <2>2, WorkerKeepsApproval DEF Operation!vars
<1>3. CASE ResolveUnknown(w)
  <2>1. /\ state = "EXECUTION_UNKNOWN" /\ state' = worker[w].reply
        /\ worker[w].reply \in {"SUCCEEDED", "FAILED"} /\ worker[w].reply = effect
    BY <1>1, <1>3, InvTypes DEF ResolveUnknown, RecordTransition, WorkerKnows
  <2>2. state \in AuthorizedStates /\ state' \in WorkerStates
    BY <2>1 DEF AuthorizedStates, WorkerStates
  <2>3. /\ Phase = "unknown"
        /\ Phase' = IF state' = "SUCCEEDED" THEN "succeeded" ELSE "failed"
    BY <2>1, <2>2, WorkerPhases DEF WorkerPhase
  <2> QED
    BY <1>1, <2>1, <2>3, WorkerKeepsApproval DEF Operation!Settle
<1> QED
  BY <1>2, <1>3 DEF RecordReconciliation

LEMMA OperationLand ==
    ASSUME ProviderLands
    PROVE  Operation!Land
<1>1. /\ effect = "inflight" /\ effect' \in {"none", "SUCCEEDED", "FAILED"}
      /\ UNCHANGED <<requester, policy, decisions, sends, state>>
  BY DEF ProviderLands, approvalVars, intentVars
<1>2. Phase' = Phase
  BY <1>1 DEF Phase
<1> QED
  BY <1>1, <1>2, WorkerKeepsApproval DEF Operation!Land, Operation!Outcomes

\* A command on the revision is an endorsement or closes what was never sent.
LEMMA OperationCommand ==
    ASSUME ExecutionInv, Command, UNCHANGED <<sends, effect>>
    PROVE  Operation!Close \/ \E p \in Actors : Operation!Endorse(p)
<1>1. ApprovalsInv /\ state # None
  BY DEF ExecutionInv, Command
<1>2. sends = 0
  BY <1>1, CommandMoves, Unclaimed
<1>3. ASSUME NEW cmd \in DecisionCommands, Decide(cmd), cmd.decision = "APPROVE"
      PROVE  \E p \in Actors : Operation!Endorse(p)
  <2>1. Gate!Endorse(cmd.actor) /\ cmd.actor \in Actors
    BY <1>1, <1>3, GateEndorse DEF DecisionCommands
  <2> QED
    BY <1>2, <2>1, GateIsOperation
<1>4. ASSUME NEW cmd \in DecisionCommands, Decide(cmd), cmd.decision # "APPROVE"
      PROVE  Operation!Close
  <2>1. RecordTransition("REJECTED", "intent.transitioned")
    BY <1>4 DEF Decide, ResolveTarget
  <2>2. decisions' = decisions \cup {DecisionRow(cmd)}
        /\ DecisionRow(cmd).decision # "APPROVE" /\ UNCHANGED <<requester, policy>>
    BY <1>4 DEF Decide, DecisionRow
  <2>3. Endorsers' = Endorsers
    BY <2>2 DEF Endorsers
  <2>4. Gate!Close
    BY <1>1, <2>1, <2>2, <2>3, GateClose
  <2> QED
    BY <1>2, <2>4, GateIsOperation
<1>5. ASSUME NEW target \in {"EXPIRED", "CANCELLED"},
             RecordTransition(target, "intent.transitioned"),
             UNCHANGED <<requester, policy, decisions>>
      PROVE  Operation!Close
  <2>1. Endorsers' = Endorsers
    BY <1>5 DEF Endorsers
  <2>2. Gate!Close
    BY <1>1, <1>5, <2>1, GateClose
  <2> QED
    BY <1>2, <2>2, GateIsOperation
<1>6. ASSUME NEW cmd \in DecisionCommands, DecideExpired(cmd)
      PROVE  Operation!Close
  BY <1>5, <1>6 DEF DecideExpired
<1>7. ASSUME NEW actor \in Actors, NEW expected \in 1..version, Cancel(actor, expected)
      PROVE  Operation!Close
  BY <1>5, <1>7 DEF Cancel
<1> QED
  BY <1>3, <1>4, <1>6, <1>7 DEF Command

LEMMA OperationOpen ==
    ASSUME ExecutionInv, NEW actor \in Actors, CreateIntent(actor), UNCHANGED <<sends, effect>>
    PROVE  Operation!Open
<1>1. ApprovalsInv /\ state = None
  BY DEF ExecutionInv, CreateIntent
<1>2. sends = 0
  BY <1>1, Unclaimed, StatesAssumption DEF IntentState
<1>3. Gate!Open
  BY <1>1, GateOpen
<1> QED
  BY <1>2, <1>3, GateIsOperation

\* Each step of the system is a step of the gated operation, or none.
LEMMA OperationStep ==
    ASSUME ExecutionInv, [Next]_vars
    PROVE  Operation!Next \/ UNCHANGED Operation!vars
<1>1. ASSUME NEW w \in Workers, Work(w)
      PROVE  Operation!Next \/ UNCHANGED Operation!vars
  <2>1. CASE Claim(w)
    BY <2>1, OperationClaim DEF Operation!Next
  <2>2. CASE RevalidateGates(w) \/ FailAfterFetchFailure(w)
    BY <2>2, OperationGates DEF Operation!Next
  <2>3. CASE SendToProvider(w)
    BY <2>3, OperationSend DEF Operation!Next
  <2>4. CASE RecordOutcome(w)
    BY <2>4, OperationReport DEF Operation!Next
  <2>5. CASE RecoverStaleExecuting(w)
    BY <2>5, OperationLose DEF Operation!Next
  <2>6. CASE RecordReconciliation(w)
    BY <2>6, OperationSettle DEF Operation!Next
  <2>7. CASE FetchTarget(w) \/ LockForGates(w) \/ CheckApprover(w) \/ ClaimConflict(w)
             \/ LockForExecute(w) \/ SnapshotDue(w) \/ ReadExecution(w) \/ LockForReconcile(w) \/ LookupStatus(w)
    <3>1. UNCHANGED <<intentVars, effect, sends>>
      BY <2>7 DEF FetchTarget, LockForGates, CheckApprover, ClaimConflict, LockForExecute,
                  SnapshotDue, ReadExecution,
                  LockForReconcile, LookupStatus, approvalVars, providerVars
    <3> QED
      BY <3>1, OperationStutter
  <2> QED
    BY <1>1, <2>1, <2>2, <2>3, <2>4, <2>5, <2>6, <2>7 DEF Work
<1>2. ASSUME EndCommand
      PROVE  Operation!Next \/ UNCHANGED Operation!vars
  <2>1. UNCHANGED <<sends, effect>>
    BY <1>2 DEF EndCommand, providerVars
  <2>2. CASE Command
    BY <2>1, <2>2, OperationCommand DEF Operation!Next
  <2>3. CASE UNCHANGED approvalVars
    BY <2>1, <2>3, OperationStutter DEF approvalVars
  <2> QED
    BY <1>2, <2>2, <2>3 DEF EndCommand
<1>3. ASSUME OtherCommands
      PROVE  Operation!Next \/ UNCHANGED Operation!vars
  <2>1. UNCHANGED <<sends, effect>>
    BY <1>3 DEF OtherCommands, providerVars
  <2>2. ASSUME NEW actor \in Actors, CreateIntent(actor)
        PROVE  Operation!Next
    BY <2>1, <2>2, OperationOpen DEF Operation!Next
  <2>3. ASSUME Administer
        PROVE  UNCHANGED Operation!vars
    <3>1. UNCHANGED intentVars
      BY <2>3 DEF Administer, GrantRole, RevokeRole, ActivatePolicyBundle
    <3> QED
      BY <2>1, <3>1, OperationStutter
  <2> QED
    BY <1>3, <2>2, <2>3 DEF OtherCommands
<1>4. ASSUME ProviderLands
      PROVE  Operation!Next
  BY <1>4, OperationLand DEF Operation!Next
<1>5. ASSUME \/ \E w \in Workers : Crash(w)
             \/ BeginCommand \/ TargetChanges \/ TimePasses
             \/ UNCHANGED vars
      PROVE  UNCHANGED Operation!vars
  <2>1. UNCHANGED <<intentVars, effect, sends>>
    BY <1>5 DEF Crash, BeginCommand, TargetChanges, TimePasses, Tick, vars, approvalVars,
                providerVars
  <2> QED
    BY <2>1, OperationStutter
<1> QED
  BY <1>1, <1>2, <1>3, <1>4, <1>5 DEF Next

\* Commands, workers, crashes, recovery and reconciliation together implement
\* the abstract gated operation: enough endorsements before it is claimed, one
\* send at most and never after closing, and reports that are evidence.
THEOREM OperationRefined == Spec => ImplementsOperation
<1>1. Init => Operation!Init
  BY OperationInit
<1>2. ExecutionInv /\ [Next]_vars => [Operation!Next]_(Operation!vars)
  BY OperationStep
<1> QED
  BY <1>1, <1>2, ExecutionInvariant, PTL DEF Spec, ImplementsOperation, Operation!Spec
==============================================================================
