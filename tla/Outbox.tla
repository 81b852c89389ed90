------------------------------- MODULE Outbox -------------------------------
(***************************************************************************)
(* The transactional outbox: rows that commands commit, publishers (one    *)
(* per worker process) that claim batches of them under a lease, append    *)
(* them to the audit chain of their aggregate, notify approvers, and mark  *)
(* them published or schedule a retry.                                     *)
(*                                                                         *)
(* Time is abstracted to its effects: a lease is live until it expires, a  *)
(* rescheduled row waits until its backoff elapses.  A row's index in      *)
(* outbox is its sequence column.                                          *)
(***************************************************************************)
EXTENDS AuditChain, FiniteSetsExt

CONSTANTS
  Publishers,    \* worker processes
  Feed,          \* the rows commands will commit: [aggregate, notifies]
  BatchLimit,    \* batch_limit
  SinkRefuses,   \* sequence numbers of rows the sink never accepts
  None,
  MaxFaults      \* bound: crashes, errors and leases outlived by their holder

Aggregates == {Feed[i].aggregate : i \in 1..Len(Feed)}

ASSUME FeedAssumption == Feed \in Seq([aggregate: Aggregates, notifies: BOOLEAN])
ASSUME LimitsAssumption == BatchLimit \in Nat \ {0} /\ MaxFaults \in Nat
ASSUME RefusalsAssumption == SinkRefuses \subseteq 1..Len(Feed)
ASSUME NoneAssumption == None \notin Publishers

VARIABLES
  fed,        \* number of rows of Feed committed so far
  outbox,     \* outbox_messages in sequence order
  publisher,  \* each publisher's batch and where it is in it
  audit,      \* audit_events per aggregate
  chainLock,  \* pg_advisory_xact_lock per aggregate
  holder,     \* history: the publisher of the latest claim of each row
  notified,   \* history: rows whose notification the sink accepted
  collided,   \* history: an append met the unique index on the sequence
  faults      \* number of faults so far

vars == <<fed, outbox, publisher, audit, chainLock, holder, notified, collided, faults>>

\* claimed_by is a constant ("outbox-publisher") while a row is claimed, so the
\* lease says it all: "none", or claimed with claim_expires_at ahead or past.
Row(aggregate, notifies, about) ==
  [aggregate |-> aggregate, notifies |-> notifies, about |-> about,
   lease |-> "none", waiting |-> FALSE, published |-> FALSE]

RowType ==
  [aggregate: Aggregates, notifies: BOOLEAN, about: 0..Len(outbox),
   lease: {"none", "live", "expired"}, waiting: BOOLEAN, published: BOOLEAN]

Idle == [step |-> "idle", batch |-> {}, link |-> None]
Steps == {"idle", "checking", "appending", "inserting", "notifying",
          "recording", "finalizing", "failed"}

TypeOK ==
  /\ fed \in 0..Len(Feed)
  /\ \A i \in 1..Len(outbox) : outbox[i] \in RowType
  /\ \A p \in Publishers :
       /\ publisher[p].step \in Steps
       /\ publisher[p].step = "idle" <=> publisher[p].batch = {}
       /\ publisher[p].batch \subseteq 1..Len(outbox)
       /\ publisher[p].step = "inserting" <=> publisher[p].link # None
  /\ chainLock \in [Aggregates -> Publishers \cup {None}]
  /\ DOMAIN holder = 1..Len(outbox)
  /\ notified \subseteq 1..Len(outbox)
  /\ collided \in BOOLEAN
  /\ faults \in 0..MaxFaults

Init ==
  /\ fed = 0
  /\ outbox = << >>
  /\ publisher = [p \in Publishers |-> Idle]
  /\ audit = [a \in Aggregates |-> << >>]
  /\ chainLock = [a \in Aggregates |-> None]
  /\ holder = << >>
  /\ notified = {}
  /\ collided = FALSE
  /\ faults = 0

Fault == faults < MaxFaults /\ faults' = faults + 1

\* A command commits its next outbox row.
Emit ==
  /\ fed < Len(Feed)
  /\ fed' = fed + 1
  /\ outbox' = Append(outbox, Row(Feed[fed + 1].aggregate, Feed[fed + 1].notifies, 0))
  /\ holder' = Append(holder, None)
  /\ UNCHANGED <<publisher, audit, chainLock, notified, collided, faults>>

-----------------------------------------------------------------------------
(* Claim *)

Claimable(i) ==
  ~outbox[i].published /\ ~outbox[i].waiting /\ outbox[i].lease # "live"

Due == {i \in 1..Len(outbox) : Claimable(i)}

\* The first BatchLimit claimable rows in sequence order.
IsDueBatch(batch) ==
  /\ batch \subseteq Due
  /\ \A i \in batch, j \in Due : j < i => j \in batch
  /\ \/ Cardinality(batch) = BatchLimit
     \/ Cardinality(batch) < BatchLimit /\ batch = Due

Claim(p) ==
  /\ publisher[p].step = "idle"
  /\ Due # {}
  /\ \E batch \in SUBSET Due :
       /\ IsDueBatch(batch)
       /\ publisher' = [publisher EXCEPT ![p] =
                          [step |-> "checking", batch |-> batch, link |-> None]]
       /\ outbox' = [i \in 1..Len(outbox) |->
                       IF i \in batch
                       THEN [outbox[i] EXCEPT !.lease = "live"] ELSE outbox[i]]
       /\ holder' = [i \in 1..Len(outbox) |-> IF i \in batch THEN p ELSE holder[i]]
  /\ UNCHANGED <<fed, audit, chainLock, notified, collided, faults>>

-----------------------------------------------------------------------------
(* Deliver *)

\* The batch is delivered in sequence order.
Message(p) == Min(publisher[p].batch)
Chain(p) == outbox[Message(p)].aggregate

At(p, step, link) ==
  publisher' = [publisher EXCEPT ![p] = [step |-> step, batch |-> @.batch, link |-> link]]
Goto(p, step) == At(p, step, None)

\* The audit transaction reads the row; a row published meanwhile is not
\* appended again.
CheckPublished(p) ==
  /\ publisher[p].step = "checking"
  /\ Goto(p, IF outbox[Message(p)].published THEN "notifying" ELSE "appending")
  /\ UNCHANGED <<fed, outbox, audit, chainLock, holder, notified, collided, faults>>

\* Mutant: append without the advisory lock.
LockChainNever(p) ==
  /\ publisher[p].step = "appending"
  /\ At(p, "inserting", LastLink(audit[Chain(p)]))
  /\ UNCHANGED <<fed, outbox, audit, chainLock, holder, notified, collided, faults>>

\* Mutant: append without looking for the event of the same cause.
LockChainAlwaysNew(p) ==
  /\ publisher[p].step = "appending"
  /\ chainLock[Chain(p)] = None
  /\ chainLock' = [chainLock EXCEPT ![Chain(p)] = p]
  /\ At(p, "inserting", LastLink(audit[Chain(p)]))
  /\ UNCHANGED <<fed, outbox, audit, holder, notified, collided, faults>>

\* append under the aggregate's advisory lock: an event of the same cause ends
\* it, otherwise the last link is read.
LockChain(p) ==
  /\ publisher[p].step = "appending"
  /\ chainLock[Chain(p)] = None
  /\ \/ /\ Recorded(audit[Chain(p)], Message(p))
        /\ Goto(p, "notifying")
        /\ UNCHANGED chainLock
     \/ /\ ~Recorded(audit[Chain(p)], Message(p))
        /\ chainLock' = [chainLock EXCEPT ![Chain(p)] = p]
        /\ At(p, "inserting", LastLink(audit[Chain(p)]))
  /\ UNCHANGED <<fed, outbox, audit, holder, notified, collided, faults>>

Release(p) ==
  chainLock' = [a \in Aggregates |-> IF chainLock[a] = p THEN None ELSE chainLock[a]]

\* The insert and the commit that releases the lock; the unique index on the
\* sequence refuses a number that is taken.
InsertEvent(p) ==
  LET event == NextEvent(publisher[p].link, Message(p)) IN
  /\ publisher[p].step = "inserting"
  /\ Release(p)
  /\ \/ /\ event.sequence > Len(audit[Chain(p)])
        /\ audit' = [audit EXCEPT ![Chain(p)] = Append(@, event)]
        /\ Goto(p, "notifying")
        /\ UNCHANGED collided
     \/ /\ event.sequence <= Len(audit[Chain(p)])
        /\ Goto(p, "failed")
        /\ collided' = TRUE
        /\ UNCHANGED audit
  /\ UNCHANGED <<fed, outbox, holder, notified, faults>>

\* The sink is called outside any transaction for the rows that ask for an
\* approval, even when the row is published already.
Notify(p) ==
  /\ publisher[p].step = "notifying"
  /\ \/ /\ ~outbox[Message(p)].notifies
        /\ Goto(p, "finalizing")
        /\ UNCHANGED notified
     \/ /\ outbox[Message(p)].notifies
        /\ Message(p) \notin SinkRefuses
        /\ Goto(p, "recording")
        /\ notified' = notified \cup {Message(p)}
     \/ /\ outbox[Message(p)].notifies
        /\ Message(p) \in SinkRefuses
        /\ Goto(p, "failed")
        /\ UNCHANGED notified
  /\ UNCHANGED <<fed, outbox, audit, chainLock, holder, collided, faults>>

\* Each delivery commits a notification.delivered row of its own.
RecordNotification(p) ==
  /\ publisher[p].step = "recording"
  /\ outbox' = Append(outbox, Row(Chain(p), FALSE, Message(p)))
  /\ holder' = Append(holder, None)
  /\ Goto(p, "finalizing")
  /\ UNCHANGED <<fed, audit, chainLock, notified, collided, faults>>

\* The database or the sink fails: _deliver raises and its transaction rolls
\* back.
DeliveryFails(p) ==
  /\ publisher[p].step \in {"checking", "appending", "inserting", "notifying", "recording"}
  /\ Fault
  /\ Release(p)
  /\ Goto(p, "failed")
  /\ UNCHANGED <<fed, outbox, audit, holder, notified, collided>>

-----------------------------------------------------------------------------
(* Finalize or reschedule *)

\* On to the next message of the batch.
Proceed(p) ==
  publisher' = [publisher EXCEPT ![p] =
                  IF @.batch = {Message(p)} THEN Idle
                  ELSE [step |-> "checking", batch |-> @.batch \ {Message(p)}, link |-> None]]

\* claimed_by equals the common worker id exactly while the row is claimed.
OwnedByWorkerId(i) == outbox[i].lease # "none"

Settle(p, row) ==
  /\ Proceed(p)
  /\ IF outbox[Message(p)].published \/ ~OwnedByWorkerId(Message(p))
     THEN UNCHANGED outbox
     ELSE outbox' = [outbox EXCEPT ![Message(p)] = row]
  /\ UNCHANGED <<fed, audit, chainLock, holder, notified, collided, faults>>

Finalize(p) ==
  /\ publisher[p].step = "finalizing"
  /\ Settle(p, [outbox[Message(p)] EXCEPT !.published = TRUE, !.lease = "none"])

\* Mutant: a failed delivery is marked published.
ReschedulePublishing(p) ==
  /\ publisher[p].step = "failed"
  /\ Settle(p, [outbox[Message(p)] EXCEPT !.published = TRUE, !.lease = "none"])

\* Mutant: a failed delivery ends the process's publishing with its batch, and
\* the row goes back without a backoff.
RescheduleAbandoning(p) ==
  /\ publisher[p].step = "failed"
  /\ publisher' = [publisher EXCEPT ![p] = Idle]
  /\ outbox' = [i \in 1..Len(outbox) |->
                  IF i \in publisher[p].batch
                  THEN [outbox[i] EXCEPT !.lease = "none"] ELSE outbox[i]]
  /\ UNCHANGED <<fed, audit, chainLock, holder, notified, collided, faults>>

Reschedule(p) ==
  /\ publisher[p].step = "failed"
  /\ Settle(p, [outbox[Message(p)] EXCEPT !.waiting = TRUE, !.lease = "none"])

\* The worker process dies, or an error outside _deliver ends publish_pending:
\* the rest of the batch keeps its lease and open transactions roll back.
Crash(p) ==
  /\ publisher[p].step # "idle"
  /\ Fault
  /\ Release(p)
  /\ publisher' = [publisher EXCEPT ![p] = Idle]
  /\ UNCHANGED <<fed, outbox, audit, holder, notified, collided>>

-----------------------------------------------------------------------------
(* Time *)

Expire(i) == outbox' = [outbox EXCEPT ![i].lease = "expired"]

\* The lease of a row that nobody is working on runs out.
OrphanExpires(i) ==
  /\ outbox[i].lease = "live"
  /\ i \notin publisher[holder[i]].batch
  /\ Expire(i)
  /\ UNCHANGED <<fed, publisher, audit, chainLock, holder, notified, collided, faults>>

\* A publisher is slower than its lease: one lease covers the whole batch.
HolderOutlivesLease(i) ==
  /\ outbox[i].lease = "live"
  /\ i \in publisher[holder[i]].batch
  /\ Fault
  /\ Expire(i)
  /\ UNCHANGED <<fed, publisher, audit, chainLock, holder, notified, collided>>

BackoffElapses(i) ==
  /\ outbox[i].waiting
  /\ outbox' = [outbox EXCEPT ![i].waiting = FALSE]
  /\ UNCHANGED <<fed, publisher, audit, chainLock, holder, notified, collided, faults>>

Time(i) == OrphanExpires(i) \/ BackoffElapses(i)

-----------------------------------------------------------------------------

Publish(p) ==
  \/ Claim(p)
  \/ CheckPublished(p) \/ LockChain(p) \/ InsertEvent(p)
  \/ Notify(p) \/ RecordNotification(p)
  \/ Finalize(p) \/ Reschedule(p)

\* Everything that can be delivered has been published.
Drained ==
  /\ fed = Len(Feed)
  /\ \A i \in 1..Len(outbox) : outbox[i].published \/ i \in SinkRefuses
  /\ \A p \in Publishers : publisher[p].step = "idle"
  /\ UNCHANGED vars

Next ==
  \/ Emit
  \/ \E p \in Publishers : Publish(p) \/ DeliveryFails(p) \/ Crash(p)
  \/ \E i \in 1..Len(outbox) : Time(i) \/ HolderOutlivesLease(i)
  \/ Drained

\* A row and one notification.delivered per delivery of it; every delivery but
\* the first takes a fault.
MaxRows == Len(Feed) * (MaxFaults + 2)

\* supervise runs ticks for ever, each ending with publish_pending; leases and
\* backoffs are wall-clock times.
Fairness ==
  /\ \A p \in Publishers : WF_vars(Publish(p))
  /\ \A i \in 1..MaxRows : WF_vars(i \in 1..Len(outbox) /\ Time(i))

Spec == Init /\ [][Next]_vars /\ Fairness

-----------------------------------------------------------------------------
(* What the outbox promises *)

AuditedOnceIn(chain, i) ==
  \A j, k \in 1..Len(chain) : chain[j].cause = i /\ chain[k].cause = i => j = k

\* A row never yields two audit events, although several publishers may deliver
\* it at the same time (AuditWriter.append deduplicates on causation_id).
AuditedOnce ==
  \A i \in 1..Len(outbox) : AuditedOnceIn(audit[outbox[i].aggregate], i)

\* verify_aggregate_chain refuses the evidence of an aggregate only while there
\* is none: it passes from the first event on, and for every aggregate of which
\* a row was published, whatever the interleaving of appends, failures and
\* crashes.
ChainVerifies ==
  \A a \in Aggregates :
    \/ audit[a] # << >>
    \/ \E i \in 1..Len(outbox) : outbox[i].aggregate = a /\ outbox[i].published
    => VerifyAggregateChain(audit[a])

\* Appends of one aggregate never compete for a sequence number: the advisory
\* lock in AuditWriter.append exists for this.
NeverCollides == ~collided

\* Only what was delivered is marked published: audited, and where an approval
\* is asked for the approvers notified and that delivery recorded.
PublishedMeansDelivered ==
  \A i \in 1..Len(outbox) : outbox[i].published =>
    /\ Recorded(audit[outbox[i].aggregate], i)
    /\ outbox[i].notifies =>
         i \in notified /\ \E j \in 1..Len(outbox) : outbox[j].about = i

\* The audit sequence of an aggregate follows the order in which its rows were
\* committed (the sequence column of OutboxMessageORM).
AuditFollowsSequence ==
  \A a \in Aggregates : \A j, k \in 1..Len(audit[a]) :
    j < k => audit[a][j].cause < audit[a][k].cause

\* Every row that can be delivered is published in the end, despite rows ahead
\* of it that fail for ever.
EventuallyPublished ==
  \A i \in 1..Len(Feed) :
    i <= Len(outbox) ~> (i <= Len(outbox) /\ (outbox[i].published \/ i \in SinkRefuses))
=============================================================================
