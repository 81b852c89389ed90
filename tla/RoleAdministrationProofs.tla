---------------------- MODULE RoleAdministrationProofs ----------------------
(***************************************************************************)
(* The audit trail of role_assignments explains its rows, and a role comes *)
(* back only by a grant after its revocation, for any number of            *)
(* administrators, rows and demo assignments.                              *)
(***************************************************************************)
EXTENDS RoleAdministration, FiniteSetTheorems, SequenceTheorems, TLAPS

-----------------------------------------------------------------------------
(* Logs *)

\* A log that grows by one event: the events of one kind on one row grow by
\* that event, and all others stay.
LEMMA EventsAppend ==
  ASSUME NEW log \in Seq(EventType), NEW e \in EventType, NEW i, NEW action
  PROVE  /\ e = [row |-> i, action |-> action] =>
              EventsIn(Append(log, e), i, action) = EventsIn(log, i, action) \cup {Len(log) + 1}
         /\ e # [row |-> i, action |-> action] =>
              EventsIn(Append(log, e), i, action) = EventsIn(log, i, action)
<1> DEFINE all == Append(log, e)
           x   == [row |-> i, action |-> action]
<1>1. /\ Len(log) \in Nat /\ Len(all) = Len(log) + 1
      /\ all[Len(log) + 1] = e /\ \A n \in 1..Len(log) : all[n] = log[n]
  OBVIOUS
<1> HIDE DEF all, x
<1>2. /\ e = x => {n \in 1..Len(all) : all[n] = x} =
                    {n \in 1..Len(log) : log[n] = x} \cup {Len(log) + 1}
      /\ e # x => {n \in 1..Len(all) : all[n] = x} = {n \in 1..Len(log) : log[n] = x}
  <2>1. 1..Len(all) = 1..Len(log) \cup {Len(log) + 1}
    BY <1>1
  <2> QED BY <1>1, <2>1
<1> QED BY <1>2 DEF EventsIn, all, x

\* Events lie within the log, and no event tells of a row that never was.
LEMMA EventsBounds ==
  ASSUME TypeOK, NEW i, NEW action
  PROVE  /\ EventsIn(announced, i, action) \subseteq 1..Len(announced)
         /\ Len(announced) \in Nat
         /\ i \notin 1..Len(rows) => EventsIn(announced, i, action) = {}
<1>1. EventsIn(announced, i, action) \subseteq 1..Len(announced) /\ Len(announced) \in Nat
  BY DEF EventsIn, TypeOK
<1>2. ASSUME NEW n \in EventsIn(announced, i, action)
      PROVE  i \in 1..Len(rows)
  <2>1. n \in 1..Len(announced) /\ announced[n].row = i
    BY DEF EventsIn
  <2> QED BY <2>1 DEF TypeOK
<1> QED BY <1>1, <1>2

-----------------------------------------------------------------------------
(* Rows *)

\* The row the bootstrap inserts for a demo assignment.
DemoRow(pair) ==
  NewRow([principal |-> pair[1], role |-> pair[2], environment |-> "", validUntil |-> None],
         TRUE)

LEMMA DemoRowType ==
  ASSUME NEW pair \in DemoRoles
  PROVE  /\ DemoRow(pair) \in RowType
         /\ DemoRow(pair).principal = pair[1] /\ DemoRow(pair).role = pair[2]
         /\ pair = <<pair[1], pair[2]>>
         /\ DemoRow(pair).bootstrapped = TRUE /\ DemoRow(pair).revokedAt = None
<1>1. pair[1] \in Principals /\ pair[2] \in Roles /\ "" \in Environments
  BY DemoAssumption DEF Roles
<1>2. pair = <<pair[1], pair[2]>>
  <2>1. pair \in Principals \X {"administrator", "approver"}
    BY DemoAssumption
  <2> QED BY <2>1
<1> QED BY <1>1, <1>2 DEF DemoRow, NewRow, RowType

\* The bootstrap adds rows at the end, each for an assignment of its own that
\* has none.
LEMMA BootstrapAdds ==
  ASSUME TypeOK, Bootstrap
  PROVE  /\ rows' \in Seq(RowType) /\ Len(rows) \in Nat /\ Len(rows') \in Nat
         /\ Len(rows') >= Len(rows)
         /\ \A i \in 1..Len(rows) : rows'[i] = rows[i]
         /\ \A i \in 1..Len(rows') : i > Len(rows) => \E pair \in Missing : rows'[i] = DemoRow(pair)
         /\ \A i, j \in 1..Len(rows') :
              i > Len(rows) /\ j > Len(rows) /\ rows'[i] = rows'[j] => i = j
<1>1. rows \in Seq(RowType) /\ Len(rows) \in Nat
  BY DEF TypeOK
<1>2. CASE rows' = rows
  BY <1>1, <1>2
<1>3. CASE rows' # rows
  <2> DEFINE k == Cardinality(Missing)
  <2>1. PICK order \in [1..k -> Missing] :
          /\ \A m, n \in 1..k : order[m] = order[n] => m = n
          /\ rows' = rows \o [n \in DOMAIN order |->
               NewRow([principal |-> order[n][1], role |-> order[n][2],
                       environment |-> "", validUntil |-> None], TRUE)]
    BY <1>3 DEF Bootstrap
  <2>2. k \in Nat
    <3>1. IsFiniteSet(Missing)
      BY DemoAssumption, FS_Subset DEF Missing
    <3> QED BY <3>1, FS_CardinalityType
  <2> HIDE DEF k
  <2> DEFINE added == [n \in 1..k |-> DemoRow(order[n])]
  <2>3. rows' = rows \o added
    BY <2>1 DEF DemoRow
  <2>4. \A n \in 1..k : order[n] \in Missing /\ order[n] \in DemoRoles
    BY DEF Missing
  <2>5. added \in Seq(RowType) /\ Len(added) = k /\ \A n \in 1..k : added[n] = DemoRow(order[n])
    <3>1. \A n \in 1..k : DemoRow(order[n]) \in RowType
      BY <2>4, DemoRowType
    <3>2. added \in [1..k -> RowType]
      BY <3>1
    <3> QED BY <2>2, <3>2
  <2> HIDE DEF added
  <2>6. /\ rows' \in Seq(RowType) /\ Len(rows') = Len(rows) + k
        /\ \A i \in 1..Len(rows) : rows'[i] = rows[i]
        /\ \A i \in 1..Len(rows') : i > Len(rows) => rows'[i] = added[i - Len(rows)]
    BY <1>1, <2>2, <2>3, <2>5
  <2>7. ASSUME NEW i \in 1..Len(rows'), i > Len(rows)
        PROVE  \E pair \in Missing : rows'[i] = DemoRow(pair)
    <3>1. i - Len(rows) \in 1..k
      BY <1>1, <2>2, <2>6, <2>7
    <3> QED BY <2>4, <2>5, <2>6, <2>7, <3>1
  <2>8. ASSUME NEW i \in 1..Len(rows'), NEW j \in 1..Len(rows'),
               i > Len(rows), j > Len(rows), rows'[i] = rows'[j]
        PROVE  i = j
    <3> DEFINE m == i - Len(rows)
               n == j - Len(rows)
    <3>1. m \in 1..k /\ n \in 1..k
      BY <1>1, <2>2, <2>6, <2>8
    <3>2. DemoRow(order[m]) = DemoRow(order[n])
      BY <2>5, <2>6, <2>8, <3>1
    <3>3. order[m] = order[n]
      <4>1. order[m] \in DemoRoles /\ order[n] \in DemoRoles
        BY <2>4, <3>1
      <4>2. order[m][1] = order[n][1] /\ order[m][2] = order[n][2]
        <5>1. \A p \in DemoRoles : DemoRow(p).principal = p[1] /\ DemoRow(p).role = p[2]
          BY DemoRowType
        <5> HIDE DEF m, n
        <5> QED BY <3>2, <4>1, <5>1
      <4>3. order[m] = <<order[m][1], order[m][2]>> /\ order[n] = <<order[n][1], order[n][2]>>
        BY <4>1, DemoRowType
      <4> QED BY <4>2, <4>3
    <3>4. m = n
      BY <2>1, <3>1, <3>3
    <3> QED BY <1>1, <2>6, <3>4
  <2> QED BY <1>1, <2>2, <2>6, <2>7, <2>8
<1> QED BY <1>2, <1>3

\* The insert of grant_role.
LEMMA GrantedRowType ==
  ASSUME NEW grant \in Grants
  PROVE  /\ NewRow(grant, FALSE) \in RowType
         /\ NewRow(grant, FALSE).bootstrapped = FALSE
         /\ NewRow(grant, FALSE).revokedAt = None
<1>1. /\ grant.principal \in Principals /\ grant.role \in Roles
      /\ grant.environment \in Environments /\ grant.validUntil \in Times \cup {None}
  <2>1. grant \in [principal: Principals, role: Roles, environment: Environments,
                   validUntil: Deadlines]
    BY DEF Grants
  <2>2. \A t \in Deadlines : t \in Times \cup {None}
    BY DeadlinesAssumption, LimitsAssumption DEF Times
  <2> QED BY <2>1, <2>2
<1> QED BY <1>1 DEF NewRow, RowType

-----------------------------------------------------------------------------
(* Types *)

LEMMA IdleType == Idle \in RequestType /\ Idle.step = "idle"
  BY DEF Idle, RequestType

\* Requests keep their types when one of them moves on and no row is lost.
LEMMA RequestsKept ==
  ASSUME TypeOK, Len(rows') \in Nat, Len(rows') >= Len(rows),
         NEW q \in Requests, NEW r \in RequestType, request' = [request EXCEPT ![q] = r],
         r.step = "granting" => r.grant \in Grants,
         r.step = "revoking" => r.row \in 1..Len(rows')
  PROVE  /\ request' \in [Requests -> RequestType]
         /\ \A p \in Requests :
              /\ request'[p].step = "granting" => request'[p].grant \in Grants
              /\ request'[p].step = "revoking" => request'[p].row \in 1..Len(rows')
<1>1. Len(rows) \in Nat /\ request \in [Requests -> RequestType]
  BY DEF TypeOK
<1>2. ASSUME NEW p \in Requests
      PROVE  /\ request'[p].step = "granting" => request'[p].grant \in Grants
             /\ request'[p].step = "revoking" => request'[p].row \in 1..Len(rows')
  <2>1. CASE p = q
    BY <1>1, <2>1
  <2>2. CASE p # q
    BY <1>1, <2>2 DEF TypeOK
  <2> QED BY <2>1, <2>2
<1> QED BY <1>1, <1>2

LEMMA TypeStep ==
  ASSUME TypeOK, [Next]_vars
  PROVE  TypeOK'
<1>0. /\ rows \in Seq(RowType) /\ Len(rows) \in Nat
      /\ request \in [Requests -> RequestType]
      /\ announced \in Seq(EventType) /\ Len(announced) \in Nat
      /\ now \in Nat
  BY LimitsAssumption DEF TypeOK, Times
<1>1. CASE Bootstrap
  <2>1. UNCHANGED <<request, announced, now>> /\ started' \in {"none", "done", "failed"}
    BY <1>1 DEF Bootstrap
  <2>2. rows' \in Seq(RowType) /\ Len(rows') \in Nat /\ Len(rows') >= Len(rows)
    BY <1>1, BootstrapAdds
  <2> QED BY <1>0, <2>1, <2>2 DEF TypeOK
<1>2. CASE Stop
  <2>1. \A q \in Requests : request'[q] = Idle
    BY <1>2 DEF Stop
  <2>2. request' \in [Requests -> RequestType]
    BY <1>2, IdleType DEF Stop
  <2> QED BY <1>2, <2>1, <2>2, IdleType DEF Stop, TypeOK
<1>3. CASE Tick
  BY <1>0, <1>3, LimitsAssumption DEF Tick, TypeOK, Times
<1>4. ASSUME NEW q \in Requests, NEW actor \in Principals, NEW grant \in Grants,
             GrantRead(q, actor, grant)
      PROVE  TypeOK'
  <2> DEFINE r == [step |-> "granting", row |-> 0, grant |-> grant]
  <2>1. UNCHANGED <<rows, announced, started, now>>
    BY <1>4 DEF GrantRead
  <2>2. r \in RequestType /\ r.step = "granting" /\ r.grant = grant
    BY DEF RequestType
  <2>3. request' = request \/ request' = [request EXCEPT ![q] = r]
    BY <1>4 DEF GrantRead
  <2> HIDE DEF r
  <2>4. CASE request' = request
    BY <2>1, <2>4 DEF TypeOK
  <2>5. CASE request' = [request EXCEPT ![q] = r]
    <3>1. /\ request' \in [Requests -> RequestType]
          /\ \A p \in Requests :
               /\ request'[p].step = "granting" => request'[p].grant \in Grants
               /\ request'[p].step = "revoking" => request'[p].row \in 1..Len(rows')
      <4>1. Len(rows') \in Nat /\ Len(rows') >= Len(rows)
        BY <1>0, <2>1
      <4> QED BY <2>2, <2>5, <4>1, RequestsKept
    <3> QED BY <2>1, <3>1 DEF TypeOK
  <2> QED BY <2>3, <2>4, <2>5
<1>5. ASSUME NEW q \in Requests, NEW actor \in Principals, NEW i \in 1..Len(rows),
             RevokeRead(q, actor, i)
      PROVE  TypeOK'
  <2> DEFINE r == [step |-> "revoking", row |-> i, grant |-> None]
  <2>1. UNCHANGED <<rows, announced, started, now>> /\ request' = [request EXCEPT ![q] = r]
    BY <1>5 DEF RevokeRead
  <2>2. r \in RequestType /\ r.step = "revoking" /\ r.row = i
    BY <1>0 DEF RequestType
  <2> HIDE DEF r
  <2>3. /\ request' \in [Requests -> RequestType]
        /\ \A p \in Requests :
             /\ request'[p].step = "granting" => request'[p].grant \in Grants
             /\ request'[p].step = "revoking" => request'[p].row \in 1..Len(rows')
    <3>1. /\ Len(rows') \in Nat /\ Len(rows') >= Len(rows)
          /\ r.row \in 1..Len(rows')
      BY <1>0, <2>1, <2>2
    <3> QED BY <2>1, <2>2, <3>1, RequestsKept
  <2> QED BY <2>1, <2>3 DEF TypeOK
<1>6. ASSUME NEW q \in Requests, GrantInsert(q)
      PROVE  TypeOK'
  <2> DEFINE row == NewRow(request[q].grant, FALSE)
             e   == [row |-> Len(rows) + 1, action |-> "granted"]
  <2>1. /\ request' = [request EXCEPT ![q] = Idle] /\ UNCHANGED <<started, now>>
        /\ \/ rows' = Append(rows, row) /\ announced' = Append(announced, e)
           \/ UNCHANGED <<rows, announced>>
    BY <1>6 DEF GrantInsert, Announce
  <2>2. row \in RowType
    <3>1. request[q].grant \in Grants
      BY <1>6 DEF GrantInsert, TypeOK
    <3> QED BY <3>1, GrantedRowType
  <2>3. e \in EventType /\ e.row = Len(rows) + 1
    BY <1>0 DEF EventType
  <2> HIDE DEF row, e
  <2>4. /\ rows' \in Seq(RowType) /\ Len(rows') \in Nat /\ Len(rows') >= Len(rows)
        /\ announced' \in Seq(EventType)
        /\ \A n \in 1..Len(announced') : announced'[n].row \in 1..Len(rows')
    <3>1. CASE rows' = Append(rows, row) /\ announced' = Append(announced, e)
      <4>1. /\ rows' \in Seq(RowType) /\ Len(rows') = Len(rows) + 1
            /\ announced' \in Seq(EventType) /\ Len(announced') = Len(announced) + 1
            /\ announced'[Len(announced) + 1] = e
            /\ \A n \in 1..Len(announced) : announced'[n] = announced[n]
        BY <1>0, <2>2, <2>3, <3>1
      <4> QED BY <1>0, <2>3, <4>1 DEF TypeOK
    <3>2. CASE UNCHANGED <<rows, announced>>
      BY <1>0, <3>2 DEF TypeOK
    <3> QED BY <2>1, <3>1, <3>2
  <2>5. /\ request' \in [Requests -> RequestType]
        /\ \A p \in Requests :
             /\ request'[p].step = "granting" => request'[p].grant \in Grants
             /\ request'[p].step = "revoking" => request'[p].row \in 1..Len(rows')
    BY <2>1, <2>4, IdleType, RequestsKept
  <2> QED BY <2>1, <2>4, <2>5 DEF TypeOK
<1>7. ASSUME NEW q \in Requests, RevokeWrite(q)
      PROVE  TypeOK'
  <2> DEFINE i == request[q].row
             e == [row |-> i, action |-> "revoked"]
  <2>1. /\ request' = [request EXCEPT ![q] = Idle] /\ UNCHANGED <<started, now>>
        /\ rows' = [rows EXCEPT ![i].revokedAt = now] /\ announced' = Append(announced, e)
    BY <1>7 DEF RevokeWrite, Announce
  <2>2. i \in 1..Len(rows)
    BY <1>7 DEF RevokeWrite, TypeOK
  <2>3. e \in EventType /\ e.row = i
    BY <1>0, <2>2 DEF EventType
  <2> HIDE DEF e, i
  <2>4. rows' \in Seq(RowType) /\ Len(rows') = Len(rows)
    <3>1. [rows[i] EXCEPT !.revokedAt = now] \in RowType
      <4>1. rows[i] \in RowType /\ now \in Times
        BY <1>0, <2>2 DEF TypeOK
      <4> QED BY <4>1 DEF RowType
    <3> QED BY <1>0, <2>1, <2>2, <3>1
  <2>5. /\ announced' \in Seq(EventType)
        /\ \A n \in 1..Len(announced') : announced'[n].row \in 1..Len(rows')
    BY <1>0, <2>1, <2>2, <2>3, <2>4 DEF TypeOK
  <2>6. /\ request' \in [Requests -> RequestType]
        /\ \A p \in Requests :
             /\ request'[p].step = "granting" => request'[p].grant \in Grants
             /\ request'[p].step = "revoking" => request'[p].row \in 1..Len(rows')
    <3>1. Len(rows') \in Nat /\ Len(rows') >= Len(rows)
      BY <1>0, <2>4
    <3> QED BY <2>1, <3>1, IdleType, RequestsKept
  <2> QED BY <2>1, <2>4, <2>5, <2>6 DEF TypeOK
<1>8. CASE UNCHANGED vars
  BY <1>8 DEF vars, TypeOK
<1> QED BY <1>1, <1>2, <1>3, <1>4, <1>5, <1>6, <1>7, <1>8 DEF Next

LEMMA TypeInit ==
  ASSUME Init
  PROVE  TypeOK
<1>1. request \in [Requests -> RequestType] /\ \A q \in Requests : request[q].step = "idle"
  BY IdleType DEF Init
<1> QED BY <1>1, LimitsAssumption DEF Init, TypeOK, Times

\* The table, the requests and the trail keep their types under any
\* interleaving of administrators, restarts and the clock.
THEOREM TypeCorrect == Spec => []TypeOK
<1>1. Init => TypeOK
  BY TypeInit
<1>2. TypeOK /\ [Next]_vars => TypeOK'
  BY TypeStep
<1> QED BY <1>1, <1>2, PTL DEF Spec

-----------------------------------------------------------------------------
(* The trail *)

\* What the trail says of one row.
Explained(i) ==
  /\ Cardinality(EventsIn(announced, i, "granted")) = IF rows[i].bootstrapped THEN 0 ELSE 1
  /\ rows[i].revokedAt # None <=> EventsIn(announced, i, "revoked") # {}
  /\ \A g \in EventsIn(announced, i, "granted"), r \in EventsIn(announced, i, "revoked") : g < r

LEMMA TrailByRow == TrailExplainsRows <=> \A i \in 1..Len(rows) : Explained(i)
  BY DEF TrailExplainsRows, Explained

\* The trail of a row stands as long as neither changes.
LEMMA ExplainedFrame ==
  ASSUME NEW i, Explained(i), rows'[i] = rows[i],
         \A action \in {"granted", "revoked"} :
           EventsIn(announced', i, action) = EventsIn(announced, i, action)
  PROVE  Explained(i)'
  BY DEF Explained

\* A row of the bootstrap is new to the trail.
LEMMA TrailBootstrap ==
  ASSUME TypeOK, TrailExplainsRows, Bootstrap
  PROVE  TrailExplainsRows'
<1>1. /\ Len(rows) \in Nat /\ Len(rows') \in Nat /\ Len(rows') >= Len(rows)
      /\ \A i \in 1..Len(rows) : rows'[i] = rows[i]
      /\ \A i \in 1..Len(rows') : i > Len(rows) => \E pair \in Missing : rows'[i] = DemoRow(pair)
  BY BootstrapAdds
<1>2. announced' = announced
  BY DEF Bootstrap
<1>3. ASSUME NEW i \in 1..Len(rows')
      PROVE  Explained(i)'
  <2>1. CASE i \in 1..Len(rows)
    BY <1>1, <1>2, <2>1, TrailByRow, ExplainedFrame
  <2>2. CASE i \notin 1..Len(rows)
    <3>1. i > Len(rows)
      BY <1>1, <2>2
    <3>2. PICK pair \in Missing : rows'[i] = DemoRow(pair)
      BY <1>1, <3>1
    <3>3. rows'[i].bootstrapped = TRUE /\ rows'[i].revokedAt = None
      BY <3>2, DemoRowType DEF Missing
    <3>4. EventsIn(announced', i, "granted") = {} /\ EventsIn(announced', i, "revoked") = {}
      BY <1>2, <2>2, EventsBounds
    <3> QED BY <3>3, <3>4, FS_EmptySet DEF Explained
  <2> QED BY <2>1, <2>2
<1> QED BY <1>3 DEF TrailExplainsRows, Explained

\* A granted row is announced in the transaction that inserts it.
LEMMA TrailInsert ==
  ASSUME TypeOK, TrailExplainsRows, NEW q \in Requests, GrantInsert(q)
  PROVE  TrailExplainsRows'
<1> DEFINE row == NewRow(request[q].grant, FALSE)
           k   == Len(rows) + 1
           e   == [row |-> k, action |-> "granted"]
<1>1. \/ rows' = Append(rows, row) /\ announced' = Append(announced, e)
      \/ UNCHANGED <<rows, announced>>
  BY DEF GrantInsert, Announce
<1>2. CASE UNCHANGED <<rows, announced>>
  BY <1>2 DEF TrailExplainsRows
<1>3. CASE rows' = Append(rows, row) /\ announced' = Append(announced, e)
  <2>1. request[q].grant \in Grants
    BY DEF GrantInsert, TypeOK
  <2>2. row \in RowType /\ row.bootstrapped = FALSE /\ row.revokedAt = None
    BY <2>1, GrantedRowType
  <2>3. e \in EventType /\ \A i : e = [row |-> i, action |-> "granted"] <=> i = k
    BY DEF TypeOK, EventType
  <2>4. \A i : e # [row |-> i, action |-> "revoked"]
    OBVIOUS
  <2>5. /\ Len(rows) \in Nat /\ Len(rows') = k /\ rows'[k] = row
        /\ \A i \in 1..Len(rows) : rows'[i] = rows[i]
        /\ announced \in Seq(EventType) /\ Len(announced) \in Nat
    <3> HIDE DEF row
    <3> QED BY <1>3, <2>2 DEF TypeOK
  <2> HIDE DEF row, e
  <2>6. ASSUME NEW i
        PROVE  /\ i = k => EventsIn(announced', i, "granted") =
                             EventsIn(announced, i, "granted") \cup {Len(announced) + 1}
               /\ i # k => EventsIn(announced', i, "granted") = EventsIn(announced, i, "granted")
               /\ EventsIn(announced', i, "revoked") = EventsIn(announced, i, "revoked")
    <3> HIDE DEF k
    <3>1. e = [row |-> i, action |-> "granted"] <=> i = k
      BY <2>3
    <3>2. e # [row |-> i, action |-> "revoked"]
      BY <2>4
    <3>3. EventsIn(Append(announced, e), i, "revoked") = EventsIn(announced, i, "revoked")
      BY <2>3, <2>5, <3>2, EventsAppend
    <3>4. CASE i = k
      <4>1. EventsIn(Append(announced, e), i, "granted") =
              EventsIn(announced, i, "granted") \cup {Len(announced) + 1}
        BY <2>3, <2>5, <3>1, <3>4, EventsAppend
      <4> QED BY <1>3, <3>3, <3>4, <4>1
    <3>5. CASE i # k
      <4>1. EventsIn(Append(announced, e), i, "granted") = EventsIn(announced, i, "granted")
        BY <2>3, <2>5, <3>1, <3>5, EventsAppend
      <4> QED BY <1>3, <3>3, <3>5, <4>1
    <3> QED BY <3>4, <3>5
  <2>7. ASSUME NEW i \in 1..Len(rows')
        PROVE  Explained(i)'
    <3>1. CASE i \in 1..Len(rows)
      <4>1. i # k
        BY <2>5, <3>1
      <4> QED BY <2>5, <2>6, <3>1, <4>1, TrailByRow, ExplainedFrame
    <3>2. CASE i = k
      <4>1. k \notin 1..Len(rows)
        BY <2>5
      <4>2. EventsIn(announced, k, "granted") = {} /\ EventsIn(announced, k, "revoked") = {}
        BY <4>1, EventsBounds
      <4>3. /\ EventsIn(announced', k, "granted") = {Len(announced) + 1}
            /\ EventsIn(announced', k, "revoked") = {}
        BY <2>6, <4>2
      <4>4. Cardinality({Len(announced) + 1}) = 1
        BY FS_Singleton
      <4> QED BY <2>2, <2>5, <3>2, <4>3, <4>4 DEF Explained
    <3> QED BY <2>5, <3>1, <3>2
  <2> QED BY <2>7 DEF TrailExplainsRows, Explained
<1> QED BY <1>1, <1>2, <1>3

\* A revocation is announced too, even when two requests had read the row
\* before either wrote, and always after the row's grant.
LEMMA TrailRevoke ==
  ASSUME TypeOK, TrailExplainsRows, NEW q \in Requests, RevokeWrite(q)
  PROVE  TrailExplainsRows'
<1> DEFINE k == request[q].row
           e == [row |-> k, action |-> "revoked"]
<1>1. rows' = [rows EXCEPT ![k].revokedAt = now] /\ announced' = Append(announced, e)
  BY DEF RevokeWrite, Announce
<1>2. k \in 1..Len(rows) /\ Len(rows) \in Nat
  BY DEF RevokeWrite, TypeOK
<1>3. e \in EventType /\ \A i : e = [row |-> i, action |-> "revoked"] <=> i = k
  BY <1>2 DEF EventType
<1>4. \A i : e # [row |-> i, action |-> "granted"]
  OBVIOUS
<1>5. announced \in Seq(EventType) /\ Len(announced) \in Nat
  BY DEF TypeOK
<1> HIDE DEF k, e
<1>6. /\ Len(rows') = Len(rows)
      /\ rows'[k].revokedAt = now /\ rows'[k].bootstrapped = rows[k].bootstrapped
      /\ \A i \in 1..Len(rows) : i # k => rows'[i] = rows[i]
  <2>1. rows \in Seq(RowType) /\ rows[k] \in RowType
    BY <1>2 DEF TypeOK
  <2> QED BY <1>1, <1>2, <2>1 DEF RowType
<1>7. now # None
  BY LimitsAssumption, NoneAssumption DEF TypeOK, Times
<1>8. ASSUME NEW i
      PROVE  /\ i = k => EventsIn(announced', i, "revoked") =
                           EventsIn(announced, i, "revoked") \cup {Len(announced) + 1}
             /\ i # k => EventsIn(announced', i, "revoked") = EventsIn(announced, i, "revoked")
             /\ EventsIn(announced', i, "granted") = EventsIn(announced, i, "granted")
  <2>1. e = [row |-> i, action |-> "revoked"] <=> i = k
    BY <1>3
  <2>2. e # [row |-> i, action |-> "granted"]
    BY <1>4
  <2>3. EventsIn(Append(announced, e), i, "granted") = EventsIn(announced, i, "granted")
    BY <1>3, <1>5, <2>2, EventsAppend
  <2>4. CASE i = k
    <3>1. EventsIn(Append(announced, e), i, "revoked") =
            EventsIn(announced, i, "revoked") \cup {Len(announced) + 1}
      BY <1>3, <1>5, <2>1, <2>4, EventsAppend
    <3> QED BY <1>1, <2>3, <2>4, <3>1
  <2>5. CASE i # k
    <3>1. EventsIn(Append(announced, e), i, "revoked") = EventsIn(announced, i, "revoked")
      BY <1>3, <1>5, <2>1, <2>5, EventsAppend
    <3> QED BY <1>1, <2>3, <2>5, <3>1
  <2> QED BY <2>4, <2>5
<1>9. ASSUME NEW i \in 1..Len(rows')
      PROVE  Explained(i)'
  <2>1. CASE i # k
    BY <1>6, <1>8, <2>1, TrailByRow, ExplainedFrame
  <2>2. CASE i = k
    <3>1. Explained(k)
      BY <1>2, TrailByRow
    <3>2. Len(announced) + 1 \in EventsIn(announced', k, "revoked")
      BY <1>8
    <3>3. \A g \in EventsIn(announced, k, "granted") : g < Len(announced) + 1
      <4>1. EventsIn(announced, k, "granted") \subseteq 1..Len(announced)
        BY EventsBounds
      <4> QED BY <1>5, <4>1
    <3>4. \A g \in EventsIn(announced', k, "granted"), r \in EventsIn(announced', k, "revoked") :
            g < r
      BY <1>8, <3>1, <3>3 DEF Explained
    <3> QED BY <1>6, <1>7, <1>8, <2>2, <3>1, <3>2, <3>4 DEF Explained
  <2> QED BY <2>1, <2>2
<1> QED BY <1>9 DEF TrailExplainsRows, Explained

\* Every row of role_assignments can be told from the audit trail alone.
THEOREM TrailHolds == Spec => []TrailExplainsRows
<1>1. Init => TrailExplainsRows
  BY DEF Init, TrailExplainsRows
<1>2. TypeOK /\ TrailExplainsRows /\ [Next]_vars => TrailExplainsRows'
  <2> SUFFICES ASSUME TypeOK, TrailExplainsRows, [Next]_vars
               PROVE  TrailExplainsRows'
    OBVIOUS
  <2>1. ASSUME UNCHANGED <<rows, announced>>
        PROVE  TrailExplainsRows'
    BY <2>1 DEF TrailExplainsRows
  <2>2. CASE Bootstrap
    BY <2>2, TrailBootstrap
  <2>3. CASE Stop \/ Tick \/ UNCHANGED vars
    BY <2>1, <2>3 DEF Stop, Tick, vars
  <2>4. ASSUME NEW q \in Requests, NEW actor \in Principals,
               \/ \E grant \in Grants : GrantRead(q, actor, grant)
               \/ \E i \in 1..Len(rows) : RevokeRead(q, actor, i)
        PROVE  TrailExplainsRows'
    BY <2>1, <2>4 DEF GrantRead, RevokeRead
  <2>5. ASSUME NEW q \in Requests, GrantInsert(q) \/ RevokeWrite(q)
        PROVE  TrailExplainsRows'
    BY <2>5, TrailInsert, TrailRevoke
  <2> QED BY <2>2, <2>3, <2>4, <2>5 DEF Next
<1> QED BY <1>1, <1>2, TypeCorrect, PTL DEF Spec

-----------------------------------------------------------------------------
(* Second grants *)

\* What the trail shows of an earlier and a later row stays when it grows.
LEMMA EventsStay ==
  ASSUME NEW log \in Seq(EventType), NEW e \in EventType, NEW i, NEW action
  PROVE  EventsIn(log, i, action) \subseteq EventsIn(Append(log, e), i, action)
  BY EventsAppend

\* A bootstrapped row is the first of its role, so it repeats no grant.
LEMMA RegrantBootstrap ==
  ASSUME TypeOK, RegrantFollowsRevocation, Bootstrap
  PROVE  RegrantFollowsRevocation'
<1>1. /\ Len(rows) \in Nat /\ Len(rows') \in Nat /\ Len(rows') >= Len(rows)
      /\ \A i \in 1..Len(rows) : rows'[i] = rows[i]
      /\ \A i \in 1..Len(rows') : i > Len(rows) => \E pair \in Missing : rows'[i] = DemoRow(pair)
      /\ \A i, j \in 1..Len(rows') :
           i > Len(rows) /\ j > Len(rows) /\ rows'[i] = rows'[j] => i = j
  BY BootstrapAdds
<1>2. announced' = announced
  BY DEF Bootstrap
<1>3. ASSUME NEW i \in 1..Len(rows'), NEW j \in 1..Len(rows'), i < j, j > Len(rows)
      PROVE  ~SameGrant(rows'[i], rows'[j])
  <2>1. PICK pair \in Missing : rows'[j] = DemoRow(pair)
    BY <1>1, <1>3
  <2>2. pair \in DemoRoles /\ rows'[j].principal = pair[1] /\ rows'[j].role = pair[2]
    BY <2>1, DemoRowType DEF Missing
  <2>3. CASE i \in 1..Len(rows)
    BY <1>1, <2>1, <2>2, <2>3 DEF Missing, RowsOf, SameGrant
  <2>4. CASE i > Len(rows)
    <3>1. PICK other \in Missing : rows'[i] = DemoRow(other)
      BY <1>1, <2>4
    <3>2. other \in DemoRoles /\ rows'[i].principal = other[1] /\ rows'[i].role = other[2]
      BY <3>1, DemoRowType DEF Missing
    <3>3. other # pair
      BY <1>1, <1>3, <2>1, <2>4, <3>1
    <3>4. pair = <<pair[1], pair[2]>> /\ other = <<other[1], other[2]>>
      BY <2>2, <3>2, DemoRowType
    <3> QED BY <2>2, <3>2, <3>3, <3>4 DEF SameGrant
  <2> QED BY <1>1, <2>3, <2>4
<1>4. ASSUME NEW i \in 1..Len(rows'), NEW j \in 1..Len(rows'),
             i < j, SameGrant(rows'[i], rows'[j])
      PROVE  i \in 1..Len(rows) /\ j \in 1..Len(rows)
             /\ rows'[i] = rows[i] /\ rows'[j] = rows[j]
  BY <1>1, <1>3, <1>4
<1> QED BY <1>2, <1>4 DEF RegrantFollowsRevocation

\* The unique index lets a grant in only after all rows like it were revoked,
\* and the trail told so before it tells of the new row.
LEMMA RegrantInsert ==
  ASSUME TypeOK, TrailExplainsRows, RegrantFollowsRevocation,
         NEW q \in Requests, GrantInsert(q)
  PROVE  RegrantFollowsRevocation'
<1> DEFINE row == NewRow(request[q].grant, FALSE)
           k   == Len(rows) + 1
           e   == [row |-> k, action |-> "granted"]
<1>1. CASE UNCHANGED <<rows, announced>>
  BY <1>1 DEF RegrantFollowsRevocation
<1>2. CASE /\ LiveGrants(request[q].grant) = {}
           /\ rows' = Append(rows, row) /\ announced' = Append(announced, e)
  <2>1. request[q].grant \in Grants
    BY DEF GrantInsert, TypeOK
  <2>2. row \in RowType
    BY <2>1, GrantedRowType
  <2>3. /\ row.principal = request[q].grant.principal /\ row.role = request[q].grant.role
        /\ row.environment = request[q].grant.environment
    BY DEF NewRow
  <2>4. e \in EventType
    BY DEF TypeOK, EventType
  <2>5. /\ Len(rows) \in Nat /\ Len(rows') = k /\ rows'[k] = row
        /\ \A i \in 1..Len(rows) : rows'[i] = rows[i]
        /\ announced \in Seq(EventType) /\ Len(announced) \in Nat
    <3> HIDE DEF row
    <3> QED BY <1>2, <2>2 DEF TypeOK
  <2>6. \A i : EventsIn(announced, i, "revoked") \subseteq EventsIn(announced', i, "revoked")
    BY <1>2, <2>4, <2>5, EventsStay
  <2>7. \A i : EventsIn(announced, i, "granted") \subseteq EventsIn(announced', i, "granted")
    BY <1>2, <2>4, <2>5, EventsStay
  <2>8. Len(announced) + 1 \in EventsIn(announced', k, "granted")
    BY <1>2, <2>4, <2>5, EventsAppend
  <2> HIDE DEF row, e
  <2>9. ASSUME NEW i \in 1..Len(rows'), NEW j \in 1..Len(rows'),
               i < j, SameGrant(rows'[i], rows'[j])
        PROVE  \E r \in EventsIn(announced', i, "revoked"),
                  g \in EventsIn(announced', j, "granted") : r < g
    <3>1. i \in 1..Len(rows) /\ rows'[i] = rows[i]
      BY <2>5, <2>9
    <3>2. CASE j = k
      <4>1. rows[i].revokedAt # None
        BY <1>2, <2>3, <2>5, <2>9, <3>1, <3>2 DEF SameGrant, LiveGrants
      <4>2. PICK r \in EventsIn(announced, i, "revoked") : TRUE
        BY <3>1, <4>1 DEF TrailExplainsRows
      <4>3. r < Len(announced) + 1
        BY <2>5, EventsBounds
      <4> QED BY <2>6, <2>8, <3>2, <4>2, <4>3
    <3>3. CASE j # k
      <4>1. j \in 1..Len(rows) /\ rows'[j] = rows[j]
        BY <2>5, <3>3
      <4>2. PICK r \in EventsIn(announced, i, "revoked"),
                 g \in EventsIn(announced, j, "granted") : r < g
        BY <2>9, <3>1, <4>1 DEF RegrantFollowsRevocation
      <4> QED BY <2>6, <2>7, <4>2
    <3> QED BY <3>2, <3>3
  <2> QED BY <2>9 DEF RegrantFollowsRevocation
<1> QED BY <1>1, <1>2 DEF GrantInsert, Announce

\* A revocation leaves keys and earlier events alone.
LEMMA RegrantRevoke ==
  ASSUME TypeOK, RegrantFollowsRevocation, NEW q \in Requests, RevokeWrite(q)
  PROVE  RegrantFollowsRevocation'
<1> DEFINE k == request[q].row
           e == [row |-> k, action |-> "revoked"]
<1>1. rows' = [rows EXCEPT ![k].revokedAt = now] /\ announced' = Append(announced, e)
  BY DEF RevokeWrite, Announce
<1>2. k \in 1..Len(rows) /\ rows \in Seq(RowType)
  BY DEF RevokeWrite, TypeOK
<1>3. e \in EventType /\ announced \in Seq(EventType)
  BY <1>2 DEF EventType, TypeOK
<1>4. /\ Len(rows') = Len(rows)
      /\ \A i \in 1..Len(rows) : /\ rows'[i].principal = rows[i].principal
                                 /\ rows'[i].role = rows[i].role
                                 /\ rows'[i].environment = rows[i].environment
  <2>1. \A i \in 1..Len(rows) : rows[i] \in RowType
    BY <1>2
  <2> HIDE DEF k
  <2> QED BY <1>1, <1>2, <2>1 DEF RowType
<1>5. \A i, action : EventsIn(announced, i, action) \subseteq EventsIn(announced', i, action)
  BY <1>1, <1>3, EventsStay
<1> QED BY <1>4, <1>5 DEF RegrantFollowsRevocation, SameGrant

\* A role comes back only by a grant after its revocation, and the trail shows
\* both in this order: neither two grants at once nor a restart adds a row.
THEOREM RegrantsFollow == Spec => []RegrantFollowsRevocation
<1>1. Init => RegrantFollowsRevocation
  BY DEF Init, RegrantFollowsRevocation
<1>2. TypeOK /\ TrailExplainsRows /\ RegrantFollowsRevocation /\ [Next]_vars
        => RegrantFollowsRevocation'
  <2> SUFFICES ASSUME TypeOK, TrailExplainsRows, RegrantFollowsRevocation, [Next]_vars
               PROVE  RegrantFollowsRevocation'
    OBVIOUS
  <2>1. ASSUME UNCHANGED <<rows, announced>>
        PROVE  RegrantFollowsRevocation'
    BY <2>1 DEF RegrantFollowsRevocation
  <2>2. CASE Bootstrap
    BY <2>2, RegrantBootstrap
  <2>3. CASE Stop \/ Tick \/ UNCHANGED vars
    BY <2>1, <2>3 DEF Stop, Tick, vars
  <2>4. ASSUME NEW q \in Requests, NEW actor \in Principals,
               \/ \E grant \in Grants : GrantRead(q, actor, grant)
               \/ \E i \in 1..Len(rows) : RevokeRead(q, actor, i)
        PROVE  RegrantFollowsRevocation'
    BY <2>1, <2>4 DEF GrantRead, RevokeRead
  <2>5. ASSUME NEW q \in Requests, GrantInsert(q) \/ RevokeWrite(q)
        PROVE  RegrantFollowsRevocation'
    BY <2>5, RegrantInsert, RegrantRevoke
  <2> QED BY <2>2, <2>3, <2>4, <2>5 DEF Next
<1> QED BY <1>1, <1>2, TypeCorrect, TrailHolds, PTL DEF Spec
=============================================================================
