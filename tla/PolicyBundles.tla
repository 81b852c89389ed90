---------------------------- MODULE PolicyBundles ----------------------------
(***************************************************************************)
(* policy_bundles of one tenant under concurrent administrators, one       *)
(* action per SQL statement, at READ COMMITTED: an UPDATE chooses its rows *)
(* from a snapshot, waits for their locks, and then skips a row that no    *)
(* longer satisfies its condition.                                         *)
(***************************************************************************)
EXTENDS Naturals, FiniteSets

CONSTANTS
  Transactions,   \* administrator requests at the same time
  Versions,       \* bundle versions
  Seed,           \* the version migration 0002 activates
  None,
  MaxCommands     \* bound: commands begun

ASSUME SeedAssumption == Seed \in Versions /\ None \notin Versions \cup Transactions
ASSUME CommandsAssumption == MaxCommands \in Nat

VARIABLES
  registered,  \* versions with a committed row
  active,      \* committed rows with is_active
  lock,        \* row locks
  tx,          \* open transactions
  announced,   \* administration.policy_changed rows (action activated)
  sequence,    \* outbox_messages_sequence_seq
  commands     \* number of commands begun

vars == <<registered, active, lock, tx, announced, sequence, commands>>

\* seen is the snapshot of the bulk UPDATE; off and on are uncommitted writes.
Idle == [step |-> "idle", target |-> None, loaded |-> FALSE, seen |-> {},
         off |-> {}, on |-> {}, sequence |-> 0]

Steps == {"idle", "registering", "loaded", "waiting", "flushing", "flushed"}

TypeOK ==
  /\ registered \subseteq Versions
  /\ active \subseteq registered
  /\ lock \in [Versions -> Transactions \cup {None}]
  /\ tx \in [Transactions ->
              [step: Steps, target: Versions \cup {None}, loaded: BOOLEAN,
               seen: SUBSET Versions, off: SUBSET Versions, on: SUBSET Versions,
               sequence: 0..MaxCommands]]
  /\ announced \subseteq [sequence: 0..MaxCommands, version: Versions]
  /\ sequence \in 0..MaxCommands
  /\ commands \in 0..MaxCommands

Init ==
  /\ registered = {Seed}
  /\ active = {Seed}
  /\ lock = [v \in Versions |-> None]
  /\ tx = [t \in Transactions |-> Idle]
  /\ announced = {[sequence |-> 0, version |-> Seed]}
  /\ sequence = 0
  /\ commands = 0

Begin(t) ==
  /\ tx[t].step = "idle"
  /\ commands < MaxCommands
  /\ commands' = commands + 1

Free(v, t) == lock[v] \in {None, t}

\* Commit and rollback both drop the locks.
End(t) ==
  /\ tx' = [tx EXCEPT ![t] = Idle]
  /\ lock' = [v \in Versions |-> IF lock[v] = t THEN None ELSE lock[v]]

RollBack(t) ==
  /\ End(t)
  /\ UNCHANGED <<registered, active, announced, sequence, commands>>

-----------------------------------------------------------------------------
(* register_policy_bundle *)

\* The version is looked up; one that exists is refused.
ReadVersion(t, v) ==
  /\ Begin(t)
  /\ v \notin registered
  /\ tx' = [tx EXCEPT ![t] = [Idle EXCEPT !.step = "registering", !.target = v]]
  /\ UNCHANGED <<registered, active, lock, announced, sequence>>

\* The insert; the unique index refuses a version that was registered since.
Register(t) ==
  /\ tx[t].step = "registering"
  /\ \/ /\ tx[t].target \notin registered
        /\ registered' = registered \cup {tx[t].target}
        /\ End(t)
        /\ UNCHANGED <<active, announced, sequence, commands>>
     \/ tx[t].target \in registered /\ RollBack(t)

-----------------------------------------------------------------------------
(* activate_policy_bundle *)

\* The target row is loaded, without a lock.
ReadTarget(t, v) ==
  /\ Begin(t)
  /\ v \in registered
  /\ tx' = [tx EXCEPT ![t] = [Idle EXCEPT !.step = "loaded", !.target = v,
                                          !.loaded = v \in active]]
  /\ UNCHANGED <<registered, active, lock, announced, sequence>>

\* UPDATE ... SET is_active = false: the rows of its snapshot.
BeginDeactivate(t) ==
  /\ tx[t].step = "loaded"
  /\ tx' = [tx EXCEPT ![t].step = "waiting", ![t].seen = active]
  /\ UNCHANGED <<registered, active, lock, announced, sequence, commands>>

\* Mutant: the session's copy is not synchronised, so setting is_active on a
\* target that was loaded active writes nothing.
DeactivateUnsynchronised(t) ==
  /\ tx[t].step = "waiting"
  /\ \A v \in tx[t].seen : Free(v, t)
  /\ LET still == tx[t].seen \cap active IN
     /\ lock' = [v \in Versions |-> IF v \in still THEN t ELSE lock[v]]
     /\ tx' = [tx EXCEPT ![t].step = "flushing", ![t].off = still]
  /\ UNCHANGED <<registered, active, announced, sequence, commands>>

\* The locks are there: rows that are still active are deactivated.  The
\* session's copy of the target is synchronised with the update.
Deactivate(t) ==
  /\ tx[t].step = "waiting"
  /\ \A v \in tx[t].seen : Free(v, t)
  /\ LET still == tx[t].seen \cap active IN
     /\ lock' = [v \in Versions |-> IF v \in still THEN t ELSE lock[v]]
     /\ tx' = [tx EXCEPT ![t].step = "flushing", ![t].off = still,
                         ![t].loaded = FALSE]
  /\ UNCHANGED <<registered, active, announced, sequence, commands>>

\* A row another transaction has made active, or is deactivating: the unique
\* index on active rows lets the first be, and waits for the second.
OtherActive(t) == (active \ tx[t].off) \ {tx[t].target}
InDoubt(t) ==
  \/ \E v \in OtherActive(t) : ~Free(v, t)
  \/ \E u \in Transactions \ {t} : tx[u].on \ {tx[t].target} # {}

\* The unit of work orders the insert of the outbox row and the update of the
\* bundle as it likes: the sequence number may be drawn before the wait.
DrawSequence(t) ==
  /\ tx[t].step = "flushing"
  /\ tx[t].sequence = 0
  /\ sequence' = sequence + 1
  /\ tx' = [tx EXCEPT ![t].sequence = sequence + 1]
  /\ UNCHANGED <<registered, active, lock, announced, commands>>

Drawn(t) == IF tx[t].sequence = 0 THEN sequence + 1 ELSE tx[t].sequence

\* Mutant: there is no unique index on the active rows.
FlushUnchecked(t) ==
  /\ tx[t].step = "flushing"
  /\ Free(tx[t].target, t)
  /\ sequence' = IF tx[t].sequence = 0 THEN sequence + 1 ELSE sequence
  /\ lock' = [lock EXCEPT ![tx[t].target] = t]
  /\ tx' = [tx EXCEPT ![t].step = "flushed", ![t].on = {tx[t].target},
                      ![t].sequence = Drawn(t)]
  /\ UNCHANGED <<registered, active, announced, commands>>

\* The flush: the target is set active, if the session sees a change, and the
\* outbox row has its sequence number.
Flush(t) ==
  /\ tx[t].step = "flushing"
  /\ Free(tx[t].target, t)
  /\ tx[t].loaded \/ ~InDoubt(t)
  /\ \/ /\ tx[t].loaded \/ OtherActive(t) = {}
        /\ sequence' = IF tx[t].sequence = 0 THEN sequence + 1 ELSE sequence
        /\ lock' = [lock EXCEPT ![tx[t].target] = t]
        /\ tx' = [tx EXCEPT ![t].step = "flushed", ![t].sequence = Drawn(t),
                            ![t].on = IF tx[t].loaded THEN {} ELSE {tx[t].target}]
        /\ UNCHANGED <<registered, active, announced, commands>>
     \/ /\ ~tx[t].loaded /\ OtherActive(t) # {}
        /\ RollBack(t)

Commit(t) ==
  /\ tx[t].step = "flushed"
  /\ active' = (active \ tx[t].off) \cup tx[t].on
  /\ announced' = announced \cup {[sequence |-> tx[t].sequence, version |-> tx[t].target]}
  /\ End(t)
  /\ UNCHANGED <<registered, sequence, commands>>

\* The request dies; PostgreSQL rolls its transaction back.
Abort(t) == tx[t].step # "idle" /\ RollBack(t)

\* Every command that will be given has ended.
Quiet ==
  /\ commands = MaxCommands
  /\ \A t \in Transactions : tx[t].step = "idle"
  /\ UNCHANGED vars

Next ==
  \/ \E t \in Transactions, v \in Versions : ReadVersion(t, v) \/ ReadTarget(t, v)
  \/ \E t \in Transactions :
       \/ Register(t)
       \/ BeginDeactivate(t) \/ Deactivate(t) \/ DrawSequence(t) \/ Flush(t) \/ Commit(t)
       \/ Abort(t)
  \/ Quiet

Spec == Init /\ [][Next]_vars

-----------------------------------------------------------------------------

\* However activations overlap, a tenant has exactly one active bundle: with
\* none every evaluation is blocked, with two get_active raises.
OneActive == Cardinality(active) = 1

\* Who replays the outbox in sequence order ends with the bundle that is
\* active, although the numbers are drawn before the commits.
LastAnnouncedIsActive ==
  \A a \in announced :
    (\A b \in announced : b.sequence <= a.sequence) => active = {a.version}
=============================================================================
