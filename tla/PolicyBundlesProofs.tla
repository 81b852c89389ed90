------------------------- MODULE PolicyBundlesProofs -------------------------
(***************************************************************************)
(* One active bundle, the one announced last, for any number of            *)
(* administrators, versions and commands.                                  *)
(***************************************************************************)
EXTENDS PolicyBundles, FiniteSetTheorems, TLAPS

TxType ==
  [step: Steps, target: Versions \cup {None}, loaded: BOOLEAN,
   seen: SUBSET Versions, off: SUBSET Versions, on: SUBSET Versions, sequence: Nat]

Types ==
  /\ registered \subseteq Versions
  /\ lock \in [Versions -> Transactions \cup {None}]
  /\ tx \in [Transactions -> TxType]
  /\ announced \subseteq [sequence: Nat, version: Versions]
  /\ sequence \in Nat

SingleActive == \E v \in Versions : active = {v}

Holds(t) == \A v \in active : lock[v] = t

\* The number a transaction has drawn is above all that are committed.
Newest(t) == tx[t].sequence # 0 => \A a \in announced : a.sequence < tx[t].sequence

\* A transaction that deactivates the active row holds its lock since before it
\* drew its number; one that deactivates nothing can only confirm the active row.
InOrder(t) ==
  /\ tx[t].step # "idle" => tx[t].target \in Versions
  /\ tx[t].sequence <= sequence
  /\ tx[t].step \in {"loaded", "waiting"} => tx[t].sequence = 0
  /\ tx[t].step = "flushing" => ~tx[t].loaded
  /\ tx[t].step \in {"flushing", "flushed"} /\ tx[t].off # {} =>
       tx[t].off = active /\ Holds(t) /\ Newest(t)
  /\ tx[t].step = "flushed" =>
       /\ tx[t].on = {tx[t].target} /\ Holds(t) /\ tx[t].sequence # 0
       /\ tx[t].off = {} => active = {tx[t].target}

\* The inductive invariant.
IInv ==
  /\ Types /\ SingleActive
  /\ \A a \in announced : a.sequence <= sequence
  /\ \A t \in Transactions : InOrder(t)
  /\ LastAnnouncedIsActive

-----------------------------------------------------------------------------

\* Until a commit, the others are in order if they keep their locks.
LEMMA OthersKeep ==
  ASSUME IInv, NEW u \in Transactions, tx'[u] = tx[u],
         UNCHANGED <<active, announced>>, sequence' \in Nat, sequence <= sequence',
         \A v \in Versions : lock[v] = u => lock'[v] = u
  PROVE  InOrder(u)'
<1>1. InOrder(u) /\ active \subseteq Versions /\ tx[u].sequence \in Nat /\ sequence \in Nat
  BY DEF IInv, Types, TxType, SingleActive
<1>2. Holds(u) => Holds(u)'
  BY <1>1 DEF Holds
<1>3. Newest(u) => Newest(u)'
  BY DEF Newest
<1> QED BY <1>1, <1>2, <1>3 DEF InOrder

\* A step before the commit keeps the invariant if its transaction is in order.
LEMMA StepKeeps ==
  ASSUME IInv, NEW t \in Transactions, Types', InOrder(t)',
         \A u \in Transactions \ {t} : tx'[u] = tx[u],
         UNCHANGED <<active, announced>>, sequence <= sequence',
         \A u \in Transactions \ {t} : \A v \in Versions : lock[v] = u => lock'[v] = u
  PROVE  IInv'
<1>1. \A u \in Transactions : InOrder(u)'
  BY OthersKeep DEF Types
<1>2. SingleActive' /\ LastAnnouncedIsActive'
  BY DEF IInv, SingleActive, LastAnnouncedIsActive
<1>3. \A a \in announced' : a.sequence <= sequence'
  BY DEF IInv, Types
<1> QED BY <1>1, <1>2, <1>3 DEF IInv

\* A step that rewrites one transaction keeps the types.
LEMMA TypesKept ==
  ASSUME IInv, NEW t \in Transactions, tx'[t] \in TxType,
         tx' = [u \in Transactions |-> IF u = t THEN tx'[t] ELSE tx[u]],
         UNCHANGED <<registered, announced>>, sequence' \in Nat,
         lock' \in [Versions -> Transactions \cup {None}]
  PROVE  Types'
BY DEF IInv, Types

\* The end of a transaction.
LEMMA EndsInOrder ==
  ASSUME IInv, NEW t \in Transactions, End(t), sequence' \in Nat
  PROVE  /\ tx'[t] = Idle
         /\ \A u \in Transactions \ {t} : tx'[u] = tx[u]
         /\ \A u \in Transactions \ {t} : \A v \in Versions : lock[v] = u => lock'[v] = u
         /\ lock' \in [Versions -> Transactions \cup {None}]
         /\ tx' \in [Transactions -> TxType]
         /\ InOrder(t)'
<1>1. Idle \in TxType
  BY DEF Idle, Steps, TxType
<1>2. tx'[t] = Idle
  BY DEF End, IInv, Types
<1>3. InOrder(t)'
  BY <1>2 DEF InOrder, Idle
<1> QED BY <1>1, <1>2, <1>3 DEF End, IInv, Types

\* A rollback changes nothing that is committed.
LEMMA RollBackKeeps ==
  ASSUME IInv, NEW t \in Transactions, RollBack(t)
  PROVE  IInv'
<1>1. End(t) /\ UNCHANGED <<registered, active, announced, sequence>>
  BY DEF RollBack
<1>2. sequence' \in Nat /\ sequence <= sequence'
  BY <1>1 DEF IInv, Types
<1>3. Types'
  BY <1>1, <1>2, EndsInOrder DEF IInv, Types
<1> QED BY <1>1, <1>2, <1>3, EndsInOrder, StepKeeps

\* The insert of a version, or its refusal.
LEMMA RegisterKeeps ==
  ASSUME IInv, NEW t \in Transactions, Register(t)
  PROVE  IInv'
<1>1. CASE RollBack(t)
  BY <1>1, RollBackKeeps
<1>2. CASE /\ registered' = registered \cup {tx[t].target}
           /\ End(t)
           /\ UNCHANGED <<active, announced, sequence, commands>>
  <2>1. tx[t].target \in Versions
    BY DEF Register, IInv, InOrder
  <2>2. sequence' \in Nat /\ sequence <= sequence'
    BY <1>2 DEF IInv, Types
  <2>3. Types'
    BY <1>2, <2>1, <2>2, EndsInOrder DEF IInv, Types
  <2> QED BY <1>2, <2>2, <2>3, EndsInOrder, StepKeeps
<1> QED BY <1>1, <1>2 DEF Register

\* The first reads of either command.
LEMMA ReadKeeps ==
  ASSUME IInv, NEW t \in Transactions, NEW v \in Versions,
         ReadVersion(t, v) \/ ReadTarget(t, v)
  PROVE  IInv'
<1>1. UNCHANGED <<registered, active, lock, announced, sequence>>
  BY DEF ReadVersion, ReadTarget
<1>2. PICK entry :
        /\ tx' = [tx EXCEPT ![t] = entry]
        /\ entry \in TxType /\ entry.step \in {"registering", "loaded"}
        /\ entry.target = v /\ entry.sequence = 0
  <2>1. CASE ReadVersion(t, v)
    <3> DEFINE entry == [Idle EXCEPT !.step = "registering", !.target = v]
    <3>1. /\ entry \in TxType /\ entry.step = "registering"
          /\ entry.target = v /\ entry.sequence = 0
      BY DEF Idle, TxType, Steps
    <3>2. tx' = [tx EXCEPT ![t] = entry]
      BY <2>1 DEF ReadVersion
    <3> HIDE DEF entry
    <3> QED BY <3>1, <3>2
  <2>2. CASE ReadTarget(t, v)
    <3> DEFINE loaded == v \in active
               entry == [Idle EXCEPT !.step = "loaded", !.target = v, !.loaded = loaded]
    <3>1. /\ entry \in TxType /\ entry.step = "loaded"
          /\ entry.target = v /\ entry.sequence = 0
      <4>1. loaded \in BOOLEAN
        OBVIOUS
      <4> HIDE DEF loaded
      <4> QED BY <4>1 DEF Idle, TxType, Steps
    <3>2. tx' = [tx EXCEPT ![t] = entry]
      BY <2>2 DEF ReadTarget
    <3> HIDE DEF entry
    <3> QED BY <3>1, <3>2
  <2> QED BY <2>1, <2>2
<1>3. Types'
  BY <1>1, <1>2 DEF IInv, Types
<1>4. InOrder(t)'
  BY <1>1, <1>2 DEF InOrder, IInv, Types
<1>5. sequence <= sequence' /\ \A u \in Transactions \ {t} : tx'[u] = tx[u]
  BY <1>1, <1>2 DEF IInv, Types
<1> QED BY <1>1, <1>3, <1>4, <1>5, StepKeeps

\* The snapshot of the bulk update.
LEMMA BeginDeactivateKeeps ==
  ASSUME IInv, NEW t \in Transactions, BeginDeactivate(t)
  PROVE  IInv'
<1>1. Types'
  <2>1. tx[t] \in TxType /\ active \subseteq Versions
    BY DEF IInv, Types, SingleActive
  <2>2. /\ tx'[t] = [tx[t] EXCEPT !.step = "waiting", !.seen = active]
        /\ tx' = [u \in Transactions |-> IF u = t THEN tx'[t] ELSE tx[u]]
    BY DEF BeginDeactivate, IInv, Types
  <2>3. tx'[t] \in TxType
    BY <2>1, <2>2 DEF TxType, Steps
  <2> QED BY <2>2, <2>3, TypesKept DEF BeginDeactivate, IInv, Types
<1>2. InOrder(t)'
  BY DEF BeginDeactivate, InOrder, IInv, Types
<1>3. sequence <= sequence' /\ \A u \in Transactions \ {t} : tx'[u] = tx[u]
  BY DEF BeginDeactivate, IInv, Types
<1> QED BY <1>1, <1>2, <1>3, StepKeeps DEF BeginDeactivate

\* The bulk update locks the active row, or finds none of its snapshot active.
LEMMA DeactivateKeeps ==
  ASSUME IInv, NEW t \in Transactions, Deactivate(t)
  PROVE  IInv'
<1> DEFINE still == tx[t].seen \cap active
<1>1. /\ lock' = [v \in Versions |-> IF v \in still THEN t ELSE lock[v]]
      /\ tx' = [tx EXCEPT ![t].step = "flushing", ![t].off = still, ![t].loaded = FALSE]
      /\ tx[t].step = "waiting"
      /\ \A v \in still : lock[v] \in {None, t}
      /\ UNCHANGED <<registered, active, announced, sequence>>
  BY DEF Deactivate, Free
<1>2. still \subseteq Versions /\ (still # {} => still = active)
  BY DEF IInv, SingleActive
<1> HIDE DEF still
<1>3. /\ tx'[t] = [tx[t] EXCEPT !.step = "flushing", !.off = still, !.loaded = FALSE]
      /\ \A u \in Transactions \ {t} : tx'[u] = tx[u]
  BY <1>1 DEF IInv, Types
<1>4. Types'
  <2>1. tx[t] \in TxType
    BY DEF IInv, Types
  <2>2. tx'[t] \in TxType
    BY <1>2, <1>3, <2>1 DEF TxType, Steps
  <2>3. tx' = [u \in Transactions |-> IF u = t THEN tx'[t] ELSE tx[u]]
    BY <1>1 DEF IInv, Types
  <2>4. lock' \in [Versions -> Transactions \cup {None}]
    BY <1>1 DEF IInv, Types
  <2> QED BY <1>1, <2>2, <2>3, <2>4, TypesKept DEF IInv, Types
<1>5. \A u \in Transactions \ {t} : \A v \in Versions : lock[v] = u => lock'[v] = u
  BY <1>1, SeedAssumption
<1>6. InOrder(t)'
  <2>1. /\ tx'[t].step = "flushing" /\ ~tx'[t].loaded /\ tx'[t].off = still
        /\ tx'[t].sequence = 0 /\ tx'[t].target \in Versions
    BY <1>1, <1>3 DEF IInv, Types, InOrder
  <2>2. still # {} => Holds(t)'
    BY <1>1, <1>2 DEF Holds
  <2>3. Newest(t)'
    BY <2>1 DEF Newest
  <2>4. 0 <= sequence'
    BY <1>1 DEF IInv, Types
  <2> QED BY <1>1, <1>2, <2>1, <2>2, <2>3, <2>4 DEF InOrder
<1>7. sequence <= sequence'
  BY <1>1 DEF IInv, Types
<1> QED BY <1>1, <1>3, <1>4, <1>5, <1>6, <1>7, StepKeeps

\* A number drawn before the wait.
LEMMA DrawSequenceKeeps ==
  ASSUME IInv, NEW t \in Transactions, DrawSequence(t)
  PROVE  IInv'
<1>1. /\ tx' = [tx EXCEPT ![t].sequence = sequence + 1]
      /\ sequence' = sequence + 1 /\ sequence \in Nat
      /\ UNCHANGED <<registered, active, lock, announced>>
  BY DEF DrawSequence, IInv, Types
<1>2. /\ tx'[t] = [tx[t] EXCEPT !.sequence = sequence + 1]
      /\ \A u \in Transactions \ {t} : tx'[u] = tx[u]
  BY <1>1 DEF IInv, Types
<1>3. Types'
  BY <1>1 DEF IInv, Types, TxType
<1>4. InOrder(t)'
  <2>1. /\ tx'[t].step = "flushing" /\ ~tx'[t].loaded /\ tx'[t].off = tx[t].off
        /\ tx'[t].sequence = sequence + 1 /\ tx'[t].target \in Versions
    BY <1>2 DEF IInv, Types, InOrder, DrawSequence
  <2>2. Newest(t)'
    <3>1. \A a \in announced : a.sequence \in Nat /\ a.sequence <= sequence
      BY DEF IInv, Types
    <3> QED BY <1>1, <2>1, <3>1 DEF Newest
  <2>3. tx[t].off # {} => tx[t].off = active /\ Holds(t)
    BY DEF IInv, InOrder, DrawSequence
  <2>4. Holds(t) => Holds(t)'
    BY <1>1 DEF Holds
  <2> QED BY <1>1, <2>1, <2>2, <2>3, <2>4 DEF InOrder
<1> QED BY <1>1, <1>2, <1>3, <1>4, StepKeeps

\* The flush passes the unique index only over its own deactivation or over the
\* target itself, and ends with the lock on the active row.
LEMMA FlushKeeps ==
  ASSUME IInv, NEW t \in Transactions, Flush(t)
  PROVE  IInv'
<1>1. CASE RollBack(t)
  BY <1>1, RollBackKeeps
<1>2. CASE ~RollBack(t)
  <2> DEFINE number == Drawn(t)
  <2>1. tx[t].step = "flushing" /\ ~tx[t].loaded /\ tx[t].target \in Versions
    BY DEF Flush, IInv, InOrder
  <2>2. /\ OtherActive(t) = {} /\ lock[tx[t].target] \in {None, t}
        /\ sequence' = IF tx[t].sequence = 0 THEN sequence + 1 ELSE sequence
        /\ lock' = [lock EXCEPT ![tx[t].target] = t]
        /\ tx' = [tx EXCEPT ![t].step = "flushed", ![t].sequence = number,
                            ![t].on = IF tx[t].loaded THEN {} ELSE {tx[t].target}]
        /\ UNCHANGED <<registered, active, announced>>
    BY <1>2, <2>1 DEF Flush, Free
  <2>3. /\ sequence \in Nat /\ tx[t].sequence \in Nat /\ tx[t].sequence <= sequence
        /\ number \in Nat /\ number # 0 /\ number <= sequence' /\ sequence' \in Nat
        /\ sequence <= sequence'
    BY <2>2 DEF Drawn, IInv, Types, TxType, InOrder
  <2> HIDE DEF number
  <2>4. /\ tx'[t].step = "flushed" /\ tx'[t].sequence = number
        /\ tx'[t].on = {tx[t].target} /\ tx'[t].off = tx[t].off
        /\ tx'[t].target = tx[t].target
        /\ \A u \in Transactions \ {t} : tx'[u] = tx[u]
    BY <2>1, <2>2 DEF IInv, Types
  <2>5. Types'
    <3>1. tx[t] \in TxType
      BY DEF IInv, Types
    <3>2. /\ tx'[t] = [tx[t] EXCEPT !.step = "flushed", !.sequence = number,
                                     !.on = {tx[t].target}]
          /\ tx' = [u \in Transactions |-> IF u = t THEN tx'[t] ELSE tx[u]]
      BY <2>1, <2>2 DEF IInv, Types
    <3>3. tx'[t] \in TxType
      <4> DEFINE on == {tx[t].target}
      <4>1. on \in SUBSET Versions /\ number \in Nat
        BY <2>1, <2>3
      <4>2. tx'[t] = [tx[t] EXCEPT !.step = "flushed", !.sequence = number, !.on = on]
        BY <3>2
      <4> HIDE DEF on
      <4> QED BY <3>1, <4>1, <4>2 DEF TxType, Steps
    <3>4. lock' \in [Versions -> Transactions \cup {None}]
      BY <2>1, <2>2 DEF IInv, Types
    <3> QED BY <2>2, <2>3, <3>2, <3>3, <3>4, TypesKept
  <2>6. \A u \in Transactions \ {t} : \A v \in Versions : lock[v] = u => lock'[v] = u
    BY <2>1, <2>2, SeedAssumption DEF IInv, Types
  <2>7. active \subseteq tx[t].off \cup {tx[t].target}
    BY <2>2 DEF OtherActive
  <2>8. tx[t].off # {} => tx[t].off = active /\ Holds(t) /\ Newest(t)
    BY <2>1 DEF IInv, InOrder
  <2>9. tx[t].off = {} => active = {tx[t].target}
    BY <2>7 DEF IInv, SingleActive
  <2>10. Holds(t)'
    BY <2>1, <2>2, <2>8, <2>9 DEF Holds, IInv, Types, SingleActive
  <2>11. tx[t].off # {} => Newest(t)'
    <3>1. \A a \in announced : a.sequence \in Nat /\ a.sequence <= sequence
      BY DEF IInv, Types
    <3>2. CASE tx[t].sequence = 0
      BY <2>2, <2>3, <2>4, <3>1, <3>2 DEF Newest, Drawn, number
    <3>3. CASE tx[t].sequence # 0
      BY <2>2, <2>4, <2>8, <3>3 DEF Newest, Drawn, number
    <3> QED BY <3>2, <3>3
  <2>12. InOrder(t)'
    BY <2>1, <2>2, <2>3, <2>4, <2>8, <2>9, <2>10, <2>11 DEF InOrder
  <2> QED BY <2>2, <2>3, <2>4, <2>5, <2>6, <2>12, StepKeeps
<1> QED BY <1>1, <1>2

\* The commit makes the target the only active row.  Whoever holds the active
\* row's lock is alone, so no other transaction is about to replace it.
LEMMA CommitKeeps ==
  ASSUME IInv, NEW t \in Transactions, Commit(t)
  PROVE  IInv'
<1> DEFINE new == [sequence |-> tx[t].sequence, version |-> tx[t].target]
<1>1. /\ active' = (active \ tx[t].off) \cup tx[t].on
      /\ announced' = announced \cup {new}
      /\ End(t) /\ UNCHANGED <<registered, sequence>>
  BY DEF Commit
<1>2. /\ tx[t].target \in Versions /\ tx[t].on = {tx[t].target} /\ Holds(t)
      /\ tx[t].off # {} => tx[t].off = active /\ Newest(t)
      /\ tx[t].off = {} => active = {tx[t].target}
      /\ tx[t].sequence \in Nat /\ tx[t].sequence # 0 /\ tx[t].sequence <= sequence
      /\ sequence \in Nat
  BY DEF Commit, IInv, InOrder, Types, TxType
<1>3. active' = {tx[t].target}
  BY <1>1, <1>2
<1>4. new \in [sequence: Nat, version: Versions]
      /\ new.sequence = tx[t].sequence /\ new.version = tx[t].target
  BY <1>2
<1> HIDE DEF new
<1>5. sequence' \in Nat
  BY <1>1, <1>2
<1>6. Types'
  BY <1>1, <1>4, <1>5, EndsInOrder DEF IInv, Types
<1>7. ASSUME NEW u \in Transactions \ {t} PROVE InOrder(u)'
  <2>1. InOrder(u) /\ tx'[u] = tx[u]
    BY <1>1, <1>5, EndsInOrder DEF IInv
  <2>2. ~Holds(u)
    BY <1>2 DEF Holds, IInv, SingleActive
  <2> QED BY <1>1, <2>1, <2>2 DEF InOrder
<1>8. InOrder(t)'
  BY <1>1, <1>5, EndsInOrder
<1>9. \A a \in announced' : a.sequence <= sequence'
  BY <1>1, <1>2, <1>4 DEF IInv
<1>10. LastAnnouncedIsActive'
  <2> SUFFICES ASSUME NEW a \in announced', \A b \in announced' : b.sequence <= a.sequence
               PROVE  active' = {a.version}
    BY DEF LastAnnouncedIsActive
  <2>1. CASE a = new
    BY <1>3, <1>4, <2>1
  <2>2. CASE a \in announced
    <3>1. active = {a.version}
      BY <1>1, <2>2 DEF IInv, LastAnnouncedIsActive
    <3>2. tx[t].off = {}
      <4>1. new.sequence <= a.sequence /\ a.sequence \in Nat
        BY <1>1, <2>2 DEF IInv, Types
      <4> QED BY <1>2, <1>4, <2>2, <4>1 DEF Newest
    <3> QED BY <1>2, <1>3, <3>1, <3>2
  <2> QED BY <1>1, <2>1, <2>2
<1>11. SingleActive'
  BY <1>2, <1>3 DEF SingleActive
<1> QED BY <1>6, <1>7, <1>8, <1>9, <1>10, <1>11 DEF IInv

-----------------------------------------------------------------------------

\* The state migration 0002 leaves.
LEMMA InitHolds == Init => IInv
<1> SUFFICES ASSUME Init PROVE IInv
  OBVIOUS
<1>1. Types
  BY SeedAssumption DEF Init, Types, TxType, Idle, Steps
<1>2. \A t \in Transactions : InOrder(t)
  BY DEF Init, InOrder, Idle
<1> QED BY <1>1, <1>2, SeedAssumption DEF Init, IInv, SingleActive, LastAnnouncedIsActive

\* Every step keeps the invariant: one case per action.
LEMMA NextKeeps == IInv /\ [Next]_vars => IInv'
<1> SUFFICES ASSUME IInv, [Next]_vars PROVE IInv'
  OBVIOUS
<1>1. ASSUME NEW t \in Transactions, Abort(t) PROVE IInv'
  BY <1>1, RollBackKeeps DEF Abort
<1>2. CASE UNCHANGED vars
  <2>1. Types' /\ SingleActive' /\ LastAnnouncedIsActive'
    BY <1>2 DEF vars, IInv, Types, SingleActive, LastAnnouncedIsActive
  <2>2. \A t \in Transactions : InOrder(t)'
    BY <1>2 DEF vars, IInv, InOrder, Holds, Newest
  <2> QED BY <1>2, <2>1, <2>2 DEF vars, IInv
<1> QED BY <1>1, <1>2, ReadKeeps, RegisterKeeps, BeginDeactivateKeeps, DeactivateKeeps,
           DrawSequenceKeeps, FlushKeeps, CommitKeeps DEF Next, Quiet

\* The invariant behind the theorems: who is about to replace the active bundle
\* holds its row lock, and drew a number above all that are committed.
THEOREM InductiveInvariant == Spec => []IInv
BY InitHolds, NextKeeps, PTL DEF Spec

\* A tenant has exactly one active bundle, however activations overlap.
THEOREM OneActiveAlways == Spec => []OneActive
<1>1. IInv => OneActive
  BY FS_Singleton DEF IInv, SingleActive, OneActive
<1> QED BY <1>1, InductiveInvariant, PTL

\* The activation event with the highest number names the active bundle.
THEOREM LastAnnouncedHolds == Spec => []LastAnnouncedIsActive
<1>1. IInv => LastAnnouncedIsActive
  BY DEF IInv
<1> QED BY <1>1, InductiveInvariant, PTL
=============================================================================
