------------------------- MODULE RoleAdministration -------------------------
(***************************************************************************)
(* role_assignments under concurrent administrators, the clock and the     *)
(* bootstrap that the deployment runs at every start.  A command reads in  *)
(* one step and writes and commits in another, as nothing is locked in     *)
(* between.  Rows are kept in insertion order and never deleted.           *)
(***************************************************************************)
EXTENDS Naturals, Sequences, FiniteSets

CONSTANTS
  Requests,      \* administrator requests at the same time
  Principals,
  DemoRoles,     \* _DEMO_ROLES: pairs of principal and role
  Offered,       \* pairs that administrators grant
  Environments,  \* values of environments_key; "" is every environment
  Deadlines,     \* values of valid_until in grants
  None,
  MaxTime,       \* bound: the clock
  MaxRows        \* bound: rows ever inserted

Roles == {pair[2] : pair \in DemoRoles \cup Offered}
Times == 0..MaxTime

ASSUME DemoAssumption ==
  /\ DemoRoles \cup Offered \subseteq Principals \X {"administrator", "approver"}
  /\ \E p \in Principals : <<p, "administrator">> \in DemoRoles
  /\ "" \in Environments
  /\ IsFiniteSet(DemoRoles)
ASSUME DeadlinesAssumption == Deadlines \subseteq 1..MaxTime \cup {None}
ASSUME LimitsAssumption == MaxTime \in Nat /\ MaxRows \in Nat
ASSUME NoneAssumption == None \notin Nat

VARIABLES
  rows,       \* role_assignments
  request,    \* commands between their read and their write
  announced,  \* administration.role_changed rows: [row, action]
  started,    \* history: the bootstrap of this start: "none", "done", "failed"
  now

vars == <<rows, request, announced, started, now>>

Idle == [step |-> "idle", row |-> 0, grant |-> None]
Grants ==
  {g \in [principal: Principals, role: Roles, environment: Environments,
          validUntil: Deadlines] : <<g.principal, g.role>> \in Offered}

RowType ==
  [principal: Principals, role: Roles, environment: Environments,
   validUntil: Times \cup {None}, revokedAt: Times \cup {None}, bootstrapped: BOOLEAN]
RequestType ==
  [step: {"idle", "granting", "revoking"}, row: Nat, grant: Grants \cup {None}]
EventType == [row: Nat, action: {"granted", "revoked"}]

TypeOK ==
  /\ rows \in Seq(RowType)
  /\ request \in [Requests -> RequestType]
  /\ \A q \in Requests :
       /\ request[q].step = "granting" => request[q].grant \in Grants
       /\ request[q].step = "revoking" => request[q].row \in 1..Len(rows)
  /\ announced \in Seq(EventType)
  /\ \A n \in 1..Len(announced) : announced[n].row \in 1..Len(rows)
  /\ started \in {"none", "done", "failed"}
  /\ now \in Times

NewRow(grant, bootstrapped) ==
  [principal |-> grant.principal, role |-> grant.role,
   environment |-> grant.environment, validUntil |-> grant.validUntil,
   revokedAt |-> None, bootstrapped |-> bootstrapped]

\* evaluate_current_roles for one row; an administrator needs a row that covers
\* every environment.
IsCurrent(row) ==
  /\ row.revokedAt = None
  /\ row.validUntil # None => now < row.validUntil

IsAdministrator(p) ==
  \E i \in 1..Len(rows) :
    /\ rows[i].principal = p /\ rows[i].role = "administrator"
    /\ rows[i].environment = ""
    /\ IsCurrent(rows[i])

\* A fresh database.
Init ==
  /\ rows = << >>
  /\ request = [q \in Requests |-> Idle]
  /\ announced = << >>
  /\ started = "none"
  /\ now = 0

-----------------------------------------------------------------------------
(* The bootstrap *)

\* Mutant: the bootstrap looks for current rows and re-inserts revoked ones.
RowsOfCurrent(principal, role) ==
  {i \in 1..Len(rows) : /\ rows[i].principal = principal /\ rows[i].role = role
                        /\ rows[i].revokedAt = None}

RowsOf(principal, role) ==
  {i \in 1..Len(rows) : rows[i].principal = principal /\ rows[i].role = role}

Missing == {pair \in DemoRoles : RowsOf(pair[1], pair[2]) = {}}

\* scalar_one_or_none raises when a pair has two rows, whatever their state.
Ambiguous == \E pair \in DemoRoles : Cardinality(RowsOf(pair[1], pair[2])) > 1

\* One transaction: insert the missing demo assignments, or fail as a whole.
Bootstrap ==
  /\ started = "none"
  /\ \/ /\ Ambiguous
        /\ started' = "failed"
        /\ UNCHANGED rows
     \/ /\ ~Ambiguous
        /\ started' = "done"
        /\ Len(rows) + Cardinality(Missing) <= MaxRows
        /\ \E order \in [1..Cardinality(Missing) -> Missing] :
             /\ \A m, n \in DOMAIN order : order[m] = order[n] => m = n
             /\ rows' = rows \o [n \in DOMAIN order |->
                   NewRow([principal |-> order[n][1], role |-> order[n][2],
                           environment |-> "", validUntil |-> None], TRUE)]
  /\ UNCHANGED <<request, announced, now>>

\* The deployment is stopped; open requests are lost.
Stop ==
  /\ started # "none"
  /\ started' = "none"
  /\ request' = [q \in Requests |-> Idle]
  /\ UNCHANGED <<rows, announced, now>>

-----------------------------------------------------------------------------
(* grant_role *)

LiveGrants(grant) ==
  {i \in 1..Len(rows) :
     /\ rows[i].principal = grant.principal /\ rows[i].role = grant.role
     /\ rows[i].environment = grant.environment
     /\ rows[i].revokedAt = None}

\* A row that was never revoked, current or not, is the answer to the grant,
\* and nothing is written.
GrantRead(q, actor, grant) ==
  /\ started = "done"
  /\ request[q].step = "idle"
  /\ IsAdministrator(actor)
  /\ \/ LiveGrants(grant) # {} /\ UNCHANGED request
     \/ /\ LiveGrants(grant) = {}
        /\ request' = [request EXCEPT ![q] =
                         [step |-> "granting", row |-> 0, grant |-> grant]]
  /\ UNCHANGED <<rows, announced, started, now>>

Announce(row, action) ==
  announced' = Append(announced, [row |-> row, action |-> action])

\* The insert; the unique index refuses a second unrevoked row.
GrantInsert(q) ==
  /\ request[q].step = "granting"
  /\ request' = [request EXCEPT ![q] = Idle]
  /\ \/ /\ LiveGrants(request[q].grant) = {}
        /\ Len(rows) < MaxRows
        /\ rows' = Append(rows, NewRow(request[q].grant, FALSE))
        /\ Announce(Len(rows) + 1, "granted")
     \/ /\ LiveGrants(request[q].grant) # {}
        /\ UNCHANGED <<rows, announced>>
  /\ UNCHANGED <<started, now>>

-----------------------------------------------------------------------------
(* revoke_role *)

\* The row is loaded without a lock and must not be revoked.
RevokeRead(q, actor, i) ==
  /\ started = "done"
  /\ request[q].step = "idle"
  /\ IsAdministrator(actor)
  /\ rows[i].revokedAt = None
  /\ request' = [request EXCEPT ![q] = [step |-> "revoking", row |-> i, grant |-> None]]
  /\ UNCHANGED <<rows, announced, started, now>>

\* Mutant: the audit row is written by another transaction that may fail.
RevokeUnannounced(q) ==
  /\ request[q].step = "revoking"
  /\ rows' = [rows EXCEPT ![request[q].row].revokedAt = now]
  /\ request' = [request EXCEPT ![q] = Idle]
  /\ UNCHANGED <<announced, started, now>>

\* revoked_at is set, by key alone, and announced.
RevokeWrite(q) ==
  /\ request[q].step = "revoking"
  /\ rows' = [rows EXCEPT ![request[q].row].revokedAt = now]
  /\ Announce(request[q].row, "revoked")
  /\ request' = [request EXCEPT ![q] = Idle]
  /\ UNCHANGED <<started, now>>

Tick ==
  /\ now < MaxTime
  /\ now' = now + 1
  /\ UNCHANGED <<rows, request, announced, started>>

Next ==
  \/ Bootstrap \/ Stop \/ Tick
  \/ \E q \in Requests, actor \in Principals :
       \/ \E grant \in Grants : GrantRead(q, actor, grant)
       \/ \E i \in 1..Len(rows) : RevokeRead(q, actor, i)
  \/ \E q \in Requests : GrantInsert(q) \/ RevokeWrite(q)

\* The event loop finishes the commands it has begun.
Fairness == \A q \in Requests : WF_vars(GrantInsert(q) \/ RevokeWrite(q))

Spec == Init /\ [][Next]_vars /\ Fairness

-----------------------------------------------------------------------------

\* Where a log tells of an action on a row.
EventsIn(log, i, action) ==
  {n \in 1..Len(log) : log[n] = [row |-> i, action |-> action]}

\* The audit trail explains the table: a row that a command inserted has its
\* one "granted" event, a row is revoked iff it has a "revoked" event, and the
\* grant comes first.
TrailExplainsRows ==
  \A i \in 1..Len(rows) :
    LET granted == EventsIn(announced, i, "granted")
        revoked == EventsIn(announced, i, "revoked")
    IN  /\ Cardinality(granted) = IF rows[i].bootstrapped THEN 0 ELSE 1
        /\ rows[i].revokedAt # None <=> revoked # {}
        /\ \A g \in granted, r \in revoked : g < r

\* Two rows with the same principal, role and environment.
SameGrant(r, s) ==
  /\ r.principal = s.principal /\ r.role = s.role
  /\ r.environment = s.environment

\* Nobody gets a role a second time unless it was taken from him before and an
\* administrator granted it again, and the trail shows both in this order.
\* Neither two grants at once nor a restart may leave another row behind: later
\* grants would find two, and a revocation would be undone.
RegrantFollowsRevocation ==
  \A i, j \in 1..Len(rows) :
    i < j /\ SameGrant(rows[i], rows[j]) =>
      \E r \in EventsIn(announced, i, "revoked"), g \in EventsIn(announced, j, "granted") :
        r < g
=============================================================================
