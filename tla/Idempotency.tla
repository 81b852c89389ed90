---------------------------- MODULE Idempotency ----------------------------
(***************************************************************************)
(* The mutation routes of the API around IdempotencyService.  Every        *)
(* mutation runs in one transaction of the request's session: it reserves  *)
(* the client's key, performs the command, stores the answer on the        *)
(* reservation, and get_session commits.  Requests run concurrently and    *)
(* clients retry under the same key as they please.                        *)
(*                                                                         *)
(* The tenant and the actor are fixed, so a record is addressed by scope   *)
(* and key.  What a command does is abstracted to a fresh serial number,   *)
(* the identity (intent id, command id) that each execution draws anew:    *)
(* two executions of a request are told apart by it.                       *)
(***************************************************************************)
EXTENDS Naturals, FiniteSets

CONSTANTS
  Handlers,            \* requests the API serves at the same time
  Scopes,              \* the routes the instance uses
  Keys,                \* Idempotency-Key headers
  Bodies,              \* semantic request bodies
  None,
  MaxRequests,         \* bound: requests received
  MaxFaults,           \* bound: crashes, refusals and model failures
  AnswersBeforeCommit  \* FastAPI leaves a yield dependency after the response

PlainScopes == {"intents", "cancellations"}
AdminScopes == {"admin_role_assignments", "admin_role_revocations",
                "admin_policy_bundles", "admin_policy_activations"}
AllScopes == PlainScopes \cup AdminScopes \cup {"agent_intents", "approvals"}

ASSUME ScopesAssumption == Scopes \subseteq AllScopes
ASSUME BoundsAssumption == MaxRequests \in Nat /\ MaxFaults \in Nat
ASSUME OrderAssumption == AnswersBeforeCommit \in BOOLEAN

VARIABLES
  records,     \* idempotency_records, committed rows only
  handler,     \* one request in flight: its step, slot, body and result
  applied,     \* serials of the commands whose rows are committed
  origin,      \* history: the request each serial executes
  answers,     \* history: every response a client may have received
  requests,    \* number of requests received
  faults       \* number of faults so far

vars == <<records, handler, applied, origin, answers, requests, faults>>

Slots == Scopes \X Keys
Idle == [step |-> "idle", slot |-> None, body |-> None, result |-> None]
Steps == {"idle", "inserting", "reserved", "proposed", "completed", "answered"}

\* A stored response: the command's success or its expiry error.
Results == [kind: {"done", "expired"}, serial: 1..MaxRequests]

\* A response that carries no result.
NoResult(kind) == [kind |-> kind, serial |-> 0]
Conflict == NoResult("IDEMPOTENCY_CONFLICT")
InProgress == NoResult("STATE_CONFLICT")
Failed == NoResult("error")

\* The rows of idempotency_records; result None is status PENDING.
RecordType == [body: Bodies, result: Results \cup {None}]

\* None is no value that a column or a local variable can have.
ASSUME NoneAssumption == None \notin Bodies \cup Slots \cup Results \cup RecordType

TypeOK ==
  /\ records \in [Slots -> RecordType \cup {None}]
  /\ handler \in [Handlers -> [step: Steps, slot: Slots \cup {None},
                               body: Bodies \cup {None},
                               result: Results \cup {None}]]
  /\ applied \subseteq 1..MaxRequests
  /\ origin \in [1..requests -> Slots \X Bodies]
  /\ answers \subseteq
       [slot: Slots, body: Bodies,
        answer: Results \cup {Conflict, InProgress, Failed}]
  /\ requests \in 0..MaxRequests
  /\ faults \in 0..MaxFaults

Init ==
  /\ records = [s \in Slots |-> None]
  /\ handler = [h \in Handlers |-> Idle]
  /\ applied = {}
  /\ origin = << >>
  /\ answers = {}
  /\ requests = 0
  /\ faults = 0

-----------------------------------------------------------------------------
(* begin: look up, insert, look up again *)

\* The request is in the insert's transaction until it commits or rolls back.
Holds(h, slot) ==
  /\ handler[h].slot = slot
  /\ handler[h].step \in {"reserved", "proposed", "completed", "answered"}

\* Mutant: a replay that does not compare the request hash.
ReservationOfAnyBody(record, body) ==
  IF record.result = None THEN InProgress ELSE record.result

\* What a request learns from an existing record: a changed body conflicts,
\* a completed record replays, a pending one is still in progress.
ReservationFrom(record, body) ==
  CASE record.body # body -> Conflict
    [] record.body = body /\ record.result # None -> record.result
    [] OTHER -> InProgress

Answer(slot, body, what) ==
  answers' = answers \cup {[slot |-> slot, body |-> body, answer |-> what]}

\* A request arrives and looks its key up among the committed records.
Begin(h, slot, body) ==
  /\ handler[h].step = "idle"
  /\ requests < MaxRequests
  /\ requests' = requests + 1
  /\ origin' = [n \in 1..requests + 1 |->
                  IF n \in 1..requests THEN origin[n] ELSE <<slot, body>>]
  /\ \/ /\ records[slot] # None
        /\ Answer(slot, body, ReservationFrom(records[slot], body))
        /\ UNCHANGED handler
     \/ /\ records[slot] = None
        /\ handler' = [handler EXCEPT ![h] =
                         [step |-> "inserting", slot |-> slot, body |-> body,
                          result |-> [kind |-> "done", serial |-> requests + 1]]]
        /\ UNCHANGED answers
  /\ UNCHANGED <<records, applied, faults>>

\* Mutant: a waiter that only reads again, and never takes over from a duplicate
\* that rolled back.
InsertOrReread(h) ==
  LET slot == handler[h].slot  body == handler[h].body
      first == slot \notin {origin[n][1] : n \in 1..(handler[h].result.serial - 1)} IN
  /\ handler[h].step = "inserting"
  /\ \A g \in Handlers : ~Holds(g, slot)
  /\ IF records[slot] = None
     THEN /\ handler' = IF first THEN [handler EXCEPT ![h].step = "reserved"] ELSE handler
          /\ UNCHANGED answers
     ELSE /\ handler' = [handler EXCEPT ![h] = Idle]
          /\ Answer(slot, body, ReservationFrom(records[slot], body))
  /\ UNCHANGED <<records, applied, origin, requests, faults>>

\* Mutant: an insert that does not wait for the uncommitted duplicate.
InsertUnserialised(h) ==
  /\ handler[h].step = "inserting"
  /\ handler' = [handler EXCEPT ![h].step = "reserved"]
  /\ UNCHANGED <<records, applied, origin, answers, requests, faults>>

\* INSERT ... ON CONFLICT DO NOTHING waits for another transaction's row with
\* the same key.  If that one committed nothing is inserted and the record is
\* read again; if it rolled back the reservation is made here.
Insert(h) ==
  LET slot == handler[h].slot  body == handler[h].body IN
  /\ handler[h].step = "inserting"
  /\ \A g \in Handlers : ~Holds(g, slot)
  /\ \/ /\ records[slot] = None
        /\ handler' = [handler EXCEPT ![h].step = "reserved"]
        /\ UNCHANGED answers
     \/ /\ records[slot] # None
        /\ handler' = [handler EXCEPT ![h] = Idle]
        /\ Answer(slot, body, ReservationFrom(records[slot], body))
  /\ UNCHANGED <<records, applied, origin, requests, faults>>

-----------------------------------------------------------------------------
(* The end of a request: get_session *)

Record(h, result) ==
  records' = [records EXCEPT ![handler[h].slot] =
                [body |-> handler[h].body, result |-> result]]

\* An error without persist_state: the session is rolled back, reservation
\* included, and the error handler answers.
RollBack(h) ==
  /\ handler' = [handler EXCEPT ![h] = Idle]
  /\ Answer(handler[h].slot, handler[h].body, Failed)
  /\ UNCHANGED <<records, applied, origin, requests>>

Fault == faults < MaxFaults /\ faults' = faults + 1

\* With the pinned FastAPI the response leaves before get_session resumes.
Respond(h) ==
  /\ AnswersBeforeCommit
  /\ handler[h].step = "completed"
  /\ handler' = [handler EXCEPT ![h].step = "answered"]
  /\ Answer(handler[h].slot, handler[h].body, handler[h].result)
  /\ UNCHANGED <<records, applied, origin, requests, faults>>

\* get_session commits the command's rows and the completed record at once.
Commit(h) ==
  /\ handler[h].step = IF AnswersBeforeCommit THEN "answered" ELSE "completed"
  /\ Record(h, handler[h].result)
  /\ applied' = applied \cup {handler[h].result.serial}
  /\ handler' = [handler EXCEPT ![h] = Idle]
  /\ IF AnswersBeforeCommit
     THEN UNCHANGED answers
     ELSE Answer(handler[h].slot, handler[h].body, handler[h].result)
  /\ UNCHANGED <<origin, requests, faults>>

\* The API process or its database connection dies: the open transaction is
\* rolled back, whatever the client has been told.
Crash(h) ==
  /\ handler[h].step # "idle"
  /\ Fault
  /\ handler' = [handler EXCEPT ![h] = Idle]
  /\ UNCHANGED <<records, applied, origin, answers, requests>>

-----------------------------------------------------------------------------
(* The routes *)

\* The command succeeds and complete() stores its response on the reservation.
Complete(h) == handler' = [handler EXCEPT ![h].step = "completed"]

\* A route without special cases: the command either succeeds or raises.
Mutate(h, scopes) ==
  /\ handler[h].step = "reserved"
  /\ handler[h].slot[1] \in scopes
  /\ \/ /\ Complete(h)
        /\ UNCHANGED <<records, applied, origin, answers, requests, faults>>
     \/ Fault /\ RollBack(h)

CreateIntent(h) == Mutate(h, {"intents"})
CancelIntent(h) == Mutate(h, {"cancellations"})
Administer(h) == Mutate(h, AdminScopes)

\* AgentOrchestrator.propose: one call of the model, which may time out, fail
\* or return a proposal that validation refuses.
Propose(h) ==
  /\ handler[h].step = "reserved"
  /\ handler[h].slot[1] = "agent_intents"
  /\ \/ /\ handler' = [handler EXCEPT ![h].step = "proposed"]
        /\ UNCHANGED <<records, applied, origin, answers, requests, faults>>
     \/ Fault /\ RollBack(h)

\* create_agent_intent after the proposal.
CreateAgentIntent(h) ==
  /\ handler[h].step = "proposed"
  /\ \/ /\ Complete(h)
        /\ UNCHANGED <<records, applied, origin, answers, requests, faults>>
     \/ Fault /\ RollBack(h)

Expiry(h) == [handler[h].result EXCEPT !.kind = "expired"]

\* Mutant: the expiry error reaches get_session before complete() ran.
ExpireLeavingPending(h) ==
  /\ handler[h].step = "reserved"
  /\ handler[h].slot[1] = "approvals"
  /\ Record(h, None)
  /\ applied' = applied \cup {handler[h].result.serial}
  /\ handler' = [handler EXCEPT ![h] = Idle]
  /\ Answer(handler[h].slot, handler[h].body, Expiry(h))
  /\ UNCHANGED <<origin, requests, faults>>

\* Mutant: get_session rolls every error back.
ExpireRolledBack(h) ==
  /\ handler[h].step = "reserved"
  /\ handler[h].slot[1] = "approvals"
  /\ handler' = [handler EXCEPT ![h] = Idle]
  /\ Answer(handler[h].slot, handler[h].body, Expiry(h))
  /\ UNCHANGED <<records, applied, origin, requests, faults>>

\* decide_approval on a revision past its window: the EXPIRED transition is
\* written, complete() stores the error, the error carries persist_state, so
\* get_session commits before the error handler answers.
Expire(h) ==
  /\ handler[h].step = "reserved"
  /\ handler[h].slot[1] = "approvals"
  /\ Record(h, Expiry(h))
  /\ applied' = applied \cup {handler[h].result.serial}
  /\ handler' = [handler EXCEPT ![h] = Idle]
  /\ Answer(handler[h].slot, handler[h].body, Expiry(h))
  /\ UNCHANGED <<origin, requests, faults>>

DecideApproval(h) == Mutate(h, {"approvals"}) \/ Expire(h)

Serve(h) ==
  \/ Insert(h)
  \/ CreateIntent(h) \/ CancelIntent(h) \/ Administer(h)
  \/ Propose(h) \/ CreateAgentIntent(h)
  \/ DecideApproval(h)
  \/ Respond(h) \/ Commit(h)

\* Every request that will be received has been, and was served.
Quiet ==
  /\ requests = MaxRequests
  /\ \A h \in Handlers : handler[h].step = "idle"
  /\ UNCHANGED vars

Next ==
  \/ \E h \in Handlers, s \in Slots, b \in Bodies : Begin(h, s, b)
  \/ \E h \in Handlers : Serve(h) \/ Crash(h)
  \/ Quiet

\* The event loop runs every coroutine that can continue; PostgreSQL wakes a
\* waiting insert.
Fairness == \A h \in Handlers : WF_vars(Serve(h))

Spec == Init /\ [][Next]_vars /\ Fairness

-----------------------------------------------------------------------------
(* What the service promises *)

\* Whatever the retries, duplicates and crashes, at most one execution of the
\* requests under one key is ever committed.  IdempotencyService.begin and
\* complete share the command's transaction for this.
AppliedOnce ==
  \A m, n \in applied : origin[m][1] = origin[n][1] => m = n

\* A result that a client is given was computed for its own key and body, never
\* for another body under the key (request_hash in _reservation_from).
AnswersBelong ==
  \A a \in answers :
    a.answer \in Results => origin[a.answer.serial] = <<a.slot, a.body>>

\* No committed record is PENDING: a retry is never told for ever that an
\* identical command is still in progress (decide_approval's except branch).
NoPendingLeft ==
  /\ \A s \in Slots : records[s] # None => records[s].result # None
  /\ \A a \in answers : a.answer # InProgress

\* A client that was told APPROVAL_EXPIRED can rely on it: the EXPIRED
\* transition is committed, and its record with it (persist_state).
ErrorsAreDurable ==
  \A a \in answers :
    a.answer.kind = "expired"
      => /\ a.answer.serial \in applied
         /\ records[a.slot] = [body |-> a.body, result |-> a.answer]

\* A request that waits for the insert of a duplicate is served whether that
\* duplicate commits or rolls back.
EveryRequestServed ==
  \A h \in Handlers : handler[h].step # "idle" ~> handler[h].step = "idle"
=============================================================================
