---------------------------- MODULE OutboxProofs ----------------------------
(***************************************************************************)
(* What the outbox promises, for any number of publishers, rows, batch     *)
(* sizes and faults.                                                       *)
(***************************************************************************)
EXTENDS Outbox, SequenceTheorems, FiniteSetTheorems, WellFoundedInduction, TLAPS

Rows ==
  [aggregate: Aggregates, notifies: BOOLEAN, about: Nat,
   lease: {"none", "live", "expired"}, waiting: BOOLEAN, published: BOOLEAN]

\* A publisher at work has a message of the outbox at hand.
AtWork(p) ==
  /\ publisher[p].batch \subseteq 1..Len(outbox)
  /\ publisher[p].step # "idle" => publisher[p].batch # {}

PublishersAtWork ==
  /\ publisher = [p \in Publishers |-> publisher[p]]
  /\ \A p \in Publishers : AtWork(p)

\* A chain is a sequence, is linked and has one event per cause.
SoundChain(chain) ==
  /\ chain \in Seq({chain[i] : i \in 1..Len(chain)})
  /\ IsLinked(chain)
  /\ \A j, k \in 1..Len(chain) : chain[j].cause = chain[k].cause => j = k

ChainsSound ==
  /\ audit = [a \in Aggregates |-> audit[a]]
  /\ \A a \in Aggregates : SoundChain(audit[a])

Announced(i) == i \in notified /\ \E j \in 1..Len(outbox) : outbox[j].about = i

\* What a publisher has established on the way to its step: under the lock the
\* link it read is still the last one, and past the audit transaction the event
\* is in the chain.
InStep(p) ==
  /\ publisher[p].step = "inserting" =>
       /\ chainLock[Chain(p)] = p
       /\ publisher[p].link = LastLink(audit[Chain(p)])
       /\ ~Recorded(audit[Chain(p)], Message(p))
  /\ publisher[p].step \in {"notifying", "recording", "finalizing"} =>
       Recorded(audit[Chain(p)], Message(p))
  /\ publisher[p].step = "recording" => Message(p) \in notified
  /\ publisher[p].step = "finalizing" /\ outbox[Message(p)].notifies =>
       Announced(Message(p))

\* The inductive invariant.
IInv ==
  /\ fed \in 0..Len(Feed)
  /\ outbox \in Seq(Rows)
  /\ chainLock \in [Aggregates -> Publishers \cup {None}]
  /\ PublishersAtWork
  /\ ChainsSound
  /\ NeverCollides
  /\ \A p \in Publishers : InStep(p)
  /\ PublishedMeansDelivered

-----------------------------------------------------------------------------
(* Messages and chains *)

\* A set of numbers has a least element, so a batch has a first message.
LEMMA MinInSet ==
  ASSUME NEW S \in SUBSET Nat, S # {}
  PROVE  Min(S) \in S
<1>1. PICK x \in S : \A y \in S : ~ (<<y, x>> \in OpToRel(<, Nat))
  BY NatLessThanWellFounded, WFMin, Zenon
<1>2. \A y \in S : ~ (<<y, x>> \in {ss \in Nat \X Nat : ss[1] < ss[2]})
  BY <1>1, Zenon DEF OpToRel
<1>3. ASSUME NEW y \in S PROVE ~ (y < x)
  <2> DEFINE pair == <<y, x>>
  <2>1. pair \in Nat \X Nat /\ pair[1] = y /\ pair[2] = x
    OBVIOUS
  <2> HIDE DEF pair
  <2>2. pair \in {ss \in Nat \X Nat : ss[1] < ss[2]} <=> pair[1] < pair[2]
    BY <2>1, Zenon
  <2>3. ~ (pair \in {ss \in Nat \X Nat : ss[1] < ss[2]})
    BY <1>2, Zenon DEF pair
  <2> QED BY <2>1, <2>2, <2>3, Zenon
<1>4. \A y \in S : x <= y
  BY <1>3
<1> QED BY <1>4, Zenon DEF Min

\* The message a publisher works on is a row of the outbox.
LEMMA MessageInBatch ==
  ASSUME IInv, NEW p \in Publishers, publisher[p].step # "idle"
  PROVE  /\ Message(p) \in publisher[p].batch
         /\ Message(p) \in 1..Len(outbox)
         /\ outbox[Message(p)] \in Rows
         /\ Chain(p) \in Aggregates
<1>1. publisher[p].batch \in SUBSET Nat /\ publisher[p].batch # {}
  BY DEF IInv, PublishersAtWork, AtWork
<1>2. Message(p) \in publisher[p].batch
  BY <1>1, MinInSet DEF Message
<1>3. Message(p) \in 1..Len(outbox)
  BY <1>2 DEF IInv, PublishersAtWork, AtWork
<1>4. outbox[Message(p)] \in Rows
  BY <1>3, ElementOfSeq DEF IInv
<1> QED BY <1>2, <1>3, <1>4 DEF Rows, Chain

\* The event append writes after the last link keeps the chain sound.
LEMMA AppendSound ==
  ASSUME NEW chain, SoundChain(chain), NEW cause, ~Recorded(chain, cause)
  PROVE  LET event == NextEvent(LastLink(chain), cause) IN
         /\ event.sequence = Len(chain) + 1
         /\ SoundChain(Append(chain, event))
         /\ \A i : Recorded(chain, i) => Recorded(Append(chain, event), i)
         /\ Recorded(Append(chain, event), cause)
<1> DEFINE event == NextEvent(LastLink(chain), cause)
           Events == {chain[i] : i \in 1..Len(chain)} \cup {event}
           longer == Append(chain, event)
<1>1. chain \in Seq(Events)
  BY SeqMonotonic DEF SoundChain
<1>2. /\ Len(longer) = Len(chain) + 1 /\ Len(chain) \in Nat
      /\ \A i \in 1..Len(chain) : longer[i] = chain[i]
      /\ longer[Len(chain) + 1] = event
      /\ longer \in Seq(Events)
  BY <1>1, AppendProperties
<1>3. /\ LastLink(chain).sequence = Len(chain)
      /\ LastLink(chain).hash = IF Len(chain) = 0 THEN Genesis ELSE chain[Len(chain)].hash
  BY <1>1 DEF LastLink, SoundChain, IsLinked
<1>4. /\ event.sequence = Len(chain) + 1
      /\ event.cause = cause
      /\ event.previous = IF Len(chain) = 0 THEN Genesis ELSE chain[Len(chain)].hash
      /\ event.hash = ComputeEventHash(event.previous, event.sequence, event.cause)
  BY <1>3 DEF NextEvent
<1> HIDE DEF event, longer
<1>5. longer \in Seq({longer[i] : i \in 1..Len(longer)})
  <2>1. Events = {longer[i] : i \in 1..Len(longer)}
    BY <1>2
  <2> QED BY <1>2, <2>1
<1>6. IsLinked(longer)
  <2> DEFINE Linked(c, i) ==
        /\ c[i].sequence = i
        /\ c[i].hash = ComputeEventHash(c[i].previous, c[i].sequence, c[i].cause)
        /\ c[i].previous = IF i = 1 THEN Genesis ELSE c[i - 1].hash
  <2>1. \A i \in 1..Len(chain) : Linked(chain, i)
    BY DEF IsLinked, SoundChain
  <2>2. ASSUME NEW i \in 1..Len(chain) PROVE Linked(longer, i)
    <3>1. longer[i] = chain[i] /\ (i # 1 => longer[i - 1] = chain[i - 1])
      BY <1>2
    <3> QED BY <2>1, <3>1
  <2>3. Linked(longer, Len(chain) + 1)
    <3>1. Len(chain) # 0 => longer[Len(chain)] = chain[Len(chain)]
      BY <1>2
    <3> QED BY <1>2, <1>4, <3>1
  <2>4. \A i \in 1..Len(longer) : Linked(longer, i)
    <3>1. \A i \in 1..Len(longer) : i \in 1..Len(chain) \/ i = Len(chain) + 1
      BY <1>2
    <3> HIDE DEF Linked
    <3> QED BY <2>2, <2>3, <3>1
  <2> QED BY <2>4 DEF IsLinked
<1>7. \A j, k \in 1..Len(longer) : longer[j].cause = longer[k].cause => j = k
  <2>1. \A j \in 1..Len(chain) : longer[j].cause # longer[Len(chain) + 1].cause
    BY <1>2, <1>4 DEF Recorded
  <2>2. \A j, k \in 1..Len(chain) : longer[j].cause = longer[k].cause => j = k
    BY <1>2 DEF SoundChain
  <2>3. \A j \in 1..Len(longer) : j \in 1..Len(chain) \/ j = Len(chain) + 1
    BY <1>2
  <2> QED BY <2>1, <2>2, <2>3
<1>8. \A i : Recorded(chain, i) => Recorded(longer, i)
  BY <1>2 DEF Recorded
<1>9. Recorded(longer, cause)
  BY <1>2, <1>4 DEF Recorded
<1> QED BY <1>4, <1>5, <1>6, <1>7, <1>8, <1>9 DEF SoundChain, event, longer

-----------------------------------------------------------------------------
(* What every step keeps *)

Delivered(i) ==
  /\ Recorded(audit[outbox[i].aggregate], i)
  /\ outbox[i].notifies => Announced(i)

\* Rows are only added, and keep what they say.
RowsKept ==
  /\ outbox' \in Seq(Rows)
  /\ Len(outbox) <= Len(outbox')
  /\ \A i \in 1..Len(outbox) :
       /\ outbox'[i].aggregate = outbox[i].aggregate
       /\ outbox'[i].notifies = outbox[i].notifies
       /\ outbox'[i].about = outbox[i].about

\* Evidence is only added.
EvidenceKept ==
  /\ \A a \in Aggregates : \A i : Recorded(audit[a], i) => Recorded(audit'[a], i)
  /\ notified \subseteq notified'

\* Only a delivered row becomes published.
PublishedJustly ==
  \A i \in 1..Len(outbox') : outbox'[i].published =>
    (i \in 1..Len(outbox) /\ outbox[i].published) \/ Delivered(i)'

\* A publisher that does not move keeps its locks and the chains under them.
Undisturbed(q) ==
  /\ publisher'[q] = publisher[q]
  /\ \A a \in Aggregates : chainLock[a] = q => chainLock'[a] = q /\ audit'[a] = audit[a]

\* What was announced or recorded stays so.
LEMMA EvidenceStays ==
  ASSUME IInv, RowsKept, EvidenceKept, NEW i \in 1..Len(outbox)
  PROVE  /\ i \in 1..Len(outbox')
         /\ Announced(i) => Announced(i)'
         /\ Delivered(i) => Delivered(i)'
<1>1. Len(outbox) \in Nat /\ Len(outbox') \in Nat
  BY DEF IInv, RowsKept
<1>2. \A j \in 1..Len(outbox) : j \in 1..Len(outbox')
  BY <1>1 DEF RowsKept
<1>3. Announced(i) => Announced(i)'
  BY <1>2 DEF Announced, RowsKept, EvidenceKept
<1>4. outbox[i].aggregate \in Aggregates
  <2>1. outbox[i] \in Rows
    BY ElementOfSeq DEF IInv
  <2> QED BY <2>1 DEF Rows
<1> QED BY <1>2, <1>3, <1>4 DEF Delivered, RowsKept, EvidenceKept

\* The other publishers are where they were.
LEMMA UndisturbedStays ==
  ASSUME IInv, RowsKept, EvidenceKept, NEW q \in Publishers, Undisturbed(q)
  PROVE  AtWork(q)' /\ InStep(q)'
<1>1. Message(q)' = Message(q)
  BY DEF Message, Undisturbed
<1>2. AtWork(q)'
  BY DEF IInv, PublishersAtWork, AtWork, RowsKept, Undisturbed
<1>3. CASE publisher[q].step = "idle"
  BY <1>2, <1>3 DEF InStep, Undisturbed
<1>4. CASE publisher[q].step # "idle"
  <2>1. Message(q) \in 1..Len(outbox) /\ Chain(q) \in Aggregates
    BY <1>4, MessageInBatch
  <2>2. Chain(q)' = Chain(q) /\ outbox'[Message(q)].notifies = outbox[Message(q)].notifies
    BY <1>1, <2>1 DEF Chain, RowsKept
  <2>3. Announced(Message(q)) => Announced(Message(q))'
    BY <1>1, <2>1, EvidenceStays DEF Announced
  <2>4. InStep(q)
    BY DEF IInv
  <2>5. publisher'[q] = publisher[q]
    BY DEF Undisturbed
  <2>6. publisher'[q].step = "inserting" =>
          /\ chainLock'[Chain(q)'] = q
          /\ publisher'[q].link = LastLink(audit'[Chain(q)'])
          /\ ~Recorded(audit'[Chain(q)'], Message(q)')
    BY <1>1, <2>1, <2>2, <2>4, <2>5 DEF InStep, Undisturbed
  <2>7. publisher'[q].step \in {"notifying", "recording", "finalizing"} =>
          Recorded(audit'[Chain(q)'], Message(q)')
    BY <1>1, <2>1, <2>2, <2>4, <2>5 DEF InStep, EvidenceKept
  <2>8. publisher'[q].step = "recording" => Message(q)' \in notified'
    BY <1>1, <2>4, <2>5 DEF InStep, EvidenceKept
  <2>9. publisher'[q].step = "finalizing" /\ outbox'[Message(q)'].notifies =>
          Announced(Message(q))'
    BY <1>1, <2>2, <2>3, <2>4, <2>5 DEF InStep
  <2> QED BY <1>2, <2>6, <2>7, <2>8, <2>9 DEF InStep
<1> QED BY <1>3, <1>4

\* A step keeps the invariant if the publishers it moves are in order after it.
LEMMA StepKeeps ==
  ASSUME IInv, RowsKept, EvidenceKept, PublishedJustly, ChainsSound',
         fed' \in 0..Len(Feed),
         chainLock' \in [Aggregates -> Publishers \cup {None}],
         UNCHANGED collided,
         publisher' = [p \in Publishers |-> publisher'[p]],
         NEW Moved \in SUBSET Publishers,
         \A p \in Moved : AtWork(p)' /\ InStep(p)',
         \A q \in Publishers \ Moved : Undisturbed(q)
  PROVE  IInv'
<1>1. \A p \in Publishers : AtWork(p)' /\ InStep(p)'
  BY UndisturbedStays
<1>2. ASSUME NEW i \in 1..Len(outbox'), outbox'[i].published
      PROVE  Delivered(i)'
  <2>1. CASE i \in 1..Len(outbox) /\ outbox[i].published
    <3>1. Delivered(i)
      BY <2>1 DEF IInv, PublishedMeansDelivered, Delivered, Announced
    <3> QED BY <2>1, <3>1, EvidenceStays
  <2> QED BY <1>2, <2>1 DEF PublishedJustly
<1>3. PublishedMeansDelivered'
  BY <1>2 DEF PublishedMeansDelivered, Delivered, Announced
<1> QED BY <1>1, <1>3 DEF IInv, PublishersAtWork, NeverCollides, RowsKept

\* Rows that do not change.
LEMMA RowsUnchanged ==
  ASSUME IInv, UNCHANGED outbox
  PROVE  RowsKept /\ PublishedJustly
BY DEF IInv, RowsKept, PublishedJustly

\* A row whose lease, backoff or published column is written.
LEMMA RowWritten ==
  ASSUME IInv, NEW i \in 1..Len(outbox), NEW row \in Rows,
         outbox' = [outbox EXCEPT ![i] = row],
         row.aggregate = outbox[i].aggregate, row.notifies = outbox[i].notifies,
         row.about = outbox[i].about
  PROVE  /\ RowsKept
         /\ Len(outbox') = Len(outbox) /\ outbox'[i] = row
         /\ \A j \in 1..Len(outbox) \ {i} : outbox'[j] = outbox[j]
<1>1. /\ outbox' \in Seq(Rows) /\ Len(outbox') = Len(outbox)
      /\ \A j \in 1..Len(outbox) : outbox'[j] = IF j = i THEN row ELSE outbox[j]
  BY ExceptSeq DEF IInv
<1> QED BY <1>1 DEF RowsKept, IInv

\* A row that is added.
LEMMA RowAdded ==
  ASSUME IInv, NEW row \in Rows, ~row.published, outbox' = Append(outbox, row)
  PROVE  /\ RowsKept /\ PublishedJustly
         /\ Len(outbox') = Len(outbox) + 1 /\ outbox'[Len(outbox) + 1] = row
<1>1. /\ outbox' \in Seq(Rows) /\ Len(outbox') = Len(outbox) + 1
      /\ \A j \in 1..Len(outbox) : outbox'[j] = outbox[j]
      /\ outbox'[Len(outbox) + 1] = row
  BY AppendProperties DEF IInv
<1>2. Len(outbox) \in Nat
  BY DEF IInv
<1>3. \A j \in 1..Len(outbox') : j \in 1..Len(outbox) \/ j = Len(outbox) + 1
  BY <1>1, <1>2
<1> QED BY <1>1, <1>2, <1>3 DEF RowsKept, PublishedJustly

\* The end of a transaction releases this publisher's locks and no others.
LEMMA Releases ==
  ASSUME IInv, NEW p \in Publishers, Release(p)
  PROVE  /\ chainLock' \in [Aggregates -> Publishers \cup {None}]
         /\ \A q \in Publishers \ {p} : \A a \in Aggregates :
              chainLock[a] = q => chainLock'[a] = q
BY DEF IInv, Release

\* Chains that do not change.
LEMMA ChainsUnchanged ==
  ASSUME IInv, UNCHANGED audit
  PROVE  ChainsSound'
BY DEF IInv, ChainsSound

\* At moves one publisher within its message.
LEMMA Moves ==
  ASSUME IInv, NEW p \in Publishers, NEW step, NEW link, At(p, step, link)
  PROVE  /\ publisher' = [q \in Publishers |-> publisher'[q]]
         /\ publisher'[p].step = step /\ publisher'[p].link = link
         /\ publisher'[p].batch = publisher[p].batch
         /\ Message(p)' = Message(p)
         /\ \A q \in Publishers \ {p} : publisher'[q] = publisher[q]
<1>1. publisher = [q \in Publishers |-> publisher[q]]
  BY DEF IInv, PublishersAtWork
<1>2. publisher' = [q \in Publishers |->
                     IF q = p THEN [step |-> step, batch |-> publisher[p].batch, link |-> link]
                     ELSE publisher[q]]
  BY <1>1 DEF At
<1>3. publisher'[p].batch = publisher[p].batch
  BY <1>2
<1>4. Message(p)' = Message(p)
  BY <1>3 DEF Message
<1> QED BY <1>2, <1>3, <1>4

\* A publisher moves to a step whose preconditions it has established.
LEMMA MoveKeeps ==
  ASSUME IInv, NEW p \in Publishers, NEW step, NEW link, At(p, step, link),
         publisher[p].step # "idle",
         UNCHANGED <<fed, outbox, audit, collided>>, notified \subseteq notified',
         chainLock' \in [Aggregates -> Publishers \cup {None}],
         \A q \in Publishers \ {p} : \A a \in Aggregates :
           chainLock[a] = q => chainLock'[a] = q,
         step = "inserting" =>
           /\ chainLock'[Chain(p)] = p
           /\ link = LastLink(audit[Chain(p)])
           /\ ~Recorded(audit[Chain(p)], Message(p)),
         step \in {"notifying", "recording", "finalizing"} =>
           Recorded(audit[Chain(p)], Message(p)),
         step = "recording" => Message(p) \in notified',
         step = "finalizing" /\ outbox[Message(p)].notifies => Announced(Message(p))
  PROVE  IInv'
<1>1. RowsKept /\ PublishedJustly /\ EvidenceKept /\ ChainsSound'
  BY RowsUnchanged, ChainsUnchanged DEF EvidenceKept
<1>2. /\ publisher' = [q \in Publishers |-> publisher'[q]]
      /\ publisher'[p].step = step /\ publisher'[p].link = link
      /\ publisher'[p].batch = publisher[p].batch
      /\ Message(p)' = Message(p)
      /\ \A q \in Publishers \ {p} : publisher'[q] = publisher[q]
  BY Moves
<1>3. Chain(p)' = Chain(p)
  BY <1>2 DEF Chain
<1>4. AtWork(p)'
  BY <1>2 DEF AtWork, IInv, PublishersAtWork
<1>5. Announced(Message(p)) => Announced(Message(p))'
  BY <1>2 DEF Announced
<1>6. InStep(p)'
  BY <1>2, <1>3, <1>5 DEF InStep
<1>7. \A q \in Publishers \ {p} : Undisturbed(q)
  BY <1>2 DEF Undisturbed
<1>8. fed' \in 0..Len(Feed)
  BY DEF IInv
<1>9. {p} \in SUBSET Publishers /\ \A r \in {p} : AtWork(r)' /\ InStep(r)'
  BY <1>4, <1>6
<1> QED BY <1>1, <1>2, <1>7, <1>8, <1>9, StepKeeps, Zenon

-----------------------------------------------------------------------------
(* One lemma per action *)

\* The audit transaction's first read: a published row was audited before.
LEMMA CheckPublishedKeeps ==
  ASSUME IInv, NEW p \in Publishers, CheckPublished(p)
  PROVE  IInv'
<1>1. Message(p) \in 1..Len(outbox)
  BY MessageInBatch DEF CheckPublished
<1>2. outbox[Message(p)].published => Recorded(audit[Chain(p)], Message(p))
  BY <1>1 DEF IInv, PublishedMeansDelivered, Chain
<1>3. CASE outbox[Message(p)].published
  <2>1. At(p, "notifying", None)
    BY <1>3 DEF CheckPublished, Goto
  <2> QED BY <1>2, <1>3, <2>1, MoveKeeps DEF CheckPublished, IInv
<1>4. CASE ~outbox[Message(p)].published
  <2>1. At(p, "appending", None)
    BY <1>4 DEF CheckPublished, Goto
  <2> QED BY <2>1, MoveKeeps DEF CheckPublished, IInv
<1> QED BY <1>3, <1>4

\* Under the lock the link is read, or the event of the same cause is found.
LEMMA LockChainKeeps ==
  ASSUME IInv, NEW p \in Publishers, LockChain(p)
  PROVE  IInv'
<1>1. Chain(p) \in Aggregates
  BY MessageInBatch DEF LockChain
<1>2. CASE Recorded(audit[Chain(p)], Message(p))
  <2>1. At(p, "notifying", None) /\ UNCHANGED chainLock
    BY <1>2 DEF LockChain, Goto
  <2> QED BY <1>2, <2>1, MoveKeeps DEF LockChain, IInv
<1>3. CASE ~Recorded(audit[Chain(p)], Message(p))
  <2>1. /\ At(p, "inserting", LastLink(audit[Chain(p)]))
        /\ chainLock[Chain(p)] = None
        /\ chainLock' = [chainLock EXCEPT ![Chain(p)] = p]
    BY <1>3 DEF LockChain
  <2>2. /\ chainLock' \in [Aggregates -> Publishers \cup {None}]
        /\ chainLock'[Chain(p)] = p
        /\ \A q \in Publishers \ {p} : \A a \in Aggregates :
             chainLock[a] = q => chainLock'[a] = q
    BY <1>1, <2>1, NoneAssumption DEF IInv
  <2> QED BY <1>3, <2>1, <2>2, MoveKeeps DEF LockChain
<1> QED BY <1>2, <1>3

\* The sink is asked, refuses, or has nothing to do.
LEMMA NotifyKeeps ==
  ASSUME IInv, NEW p \in Publishers, Notify(p)
  PROVE  IInv'
<1>1. Recorded(audit[Chain(p)], Message(p))
  BY DEF IInv, InStep, Notify
<1>2. CASE ~outbox[Message(p)].notifies
  <2>1. At(p, "finalizing", None) /\ UNCHANGED notified
    BY <1>2 DEF Notify, Goto
  <2> QED BY <1>1, <1>2, <2>1, MoveKeeps DEF Notify, IInv
<1>3. CASE outbox[Message(p)].notifies /\ Message(p) \notin SinkRefuses
  <2>1. At(p, "recording", None) /\ notified' = notified \cup {Message(p)}
    BY <1>3 DEF Notify, Goto
  <2> QED BY <1>1, <2>1, MoveKeeps DEF Notify, IInv
<1>4. CASE outbox[Message(p)].notifies /\ Message(p) \in SinkRefuses
  <2>1. At(p, "failed", None) /\ UNCHANGED notified
    BY <1>4 DEF Notify, Goto
  <2> QED BY <2>1, MoveKeeps DEF Notify, IInv
<1> QED BY <1>2, <1>3, <1>4

\* A failed delivery rolls back and releases its lock.
LEMMA DeliveryFailsKeeps ==
  ASSUME IInv, NEW p \in Publishers, DeliveryFails(p)
  PROVE  IInv'
<1>1. At(p, "failed", None) /\ publisher[p].step # "idle"
  BY DEF DeliveryFails, Goto
<1>2. Release(p)
  BY DEF DeliveryFails
<1> QED BY <1>1, <1>2, Releases, MoveKeeps DEF DeliveryFails

\* The lock makes the link that was read the last one, so the insert extends the
\* chain and never collides.
LEMMA InsertEventKeeps ==
  ASSUME IInv, NEW p \in Publishers, InsertEvent(p)
  PROVE  IInv'
<1> DEFINE event == NextEvent(publisher[p].link, Message(p))
           chain == audit[Chain(p)]
<1>1. Message(p) \in 1..Len(outbox) /\ Chain(p) \in Aggregates
  BY MessageInBatch DEF InsertEvent
<1>2. /\ chainLock[Chain(p)] = p
      /\ publisher[p].link = LastLink(chain)
      /\ ~Recorded(chain, Message(p))
  BY DEF IInv, InStep, InsertEvent
<1>3. SoundChain(chain)
  BY <1>1 DEF IInv, ChainsSound
<1>4. /\ event.sequence = Len(chain) + 1
      /\ SoundChain(Append(chain, event))
      /\ \A i : Recorded(chain, i) => Recorded(Append(chain, event), i)
      /\ Recorded(Append(chain, event), Message(p))
  BY <1>2, <1>3, AppendSound
<1>5. Len(chain) \in Nat
  BY <1>3 DEF SoundChain
<1>6. /\ audit' = [audit EXCEPT ![Chain(p)] = Append(@, event)]
      /\ At(p, "notifying", None)
      /\ Release(p)
      /\ UNCHANGED <<fed, outbox, collided, notified>>
  BY <1>4, <1>5 DEF InsertEvent, Goto
<1> HIDE DEF event, chain
<1>7. /\ audit' = [a \in Aggregates |-> audit'[a]]
      /\ audit'[Chain(p)] = Append(chain, event)
      /\ \A a \in Aggregates \ {Chain(p)} : audit'[a] = audit[a]
  <2>1. audit = [a \in Aggregates |-> audit[a]]
    BY DEF IInv, ChainsSound
  <2> QED BY <1>1, <1>6, <2>1 DEF chain
<1>8. ChainsSound'
  BY <1>4, <1>7 DEF ChainsSound, IInv
<1>9. EvidenceKept
  BY <1>4, <1>6, <1>7 DEF EvidenceKept, chain
<1>10. RowsKept /\ PublishedJustly
  BY <1>6, RowsUnchanged
<1>11. /\ publisher' = [q \in Publishers |-> publisher'[q]]
       /\ publisher'[p].step = "notifying"
       /\ publisher'[p].batch = publisher[p].batch
       /\ Message(p)' = Message(p)
       /\ \A q \in Publishers \ {p} : publisher'[q] = publisher[q]
  BY <1>6, Moves
<1>12. AtWork(p)'
  BY <1>6, <1>11 DEF AtWork, IInv, PublishersAtWork, InsertEvent
<1>13. InStep(p)'
  <2>1. Chain(p)' = Chain(p)
    BY <1>6, <1>11 DEF Chain
  <2> QED BY <1>4, <1>7, <1>11, <2>1 DEF InStep
<1>14. /\ chainLock' \in [Aggregates -> Publishers \cup {None}]
       /\ \A q \in Publishers \ {p} : \A a \in Aggregates :
            chainLock[a] = q => chainLock'[a] = q
  BY <1>6, Releases
<1>15. \A q \in Publishers \ {p} : Undisturbed(q)
  BY <1>2, <1>7, <1>11, <1>14 DEF Undisturbed
<1>16. fed' \in 0..Len(Feed) /\ UNCHANGED collided
  BY <1>6 DEF IInv
<1>17. {p} \in SUBSET Publishers /\ \A r \in {p} : AtWork(r)' /\ InStep(r)'
  BY <1>12, <1>13
<1> QED BY <1>8, <1>9, <1>10, <1>11, <1>14, <1>15, <1>16, <1>17, StepKeeps, Zenon

\* The notification.delivered row completes what Finalize needs.
LEMMA RecordNotificationKeeps ==
  ASSUME IInv, NEW p \in Publishers, RecordNotification(p)
  PROVE  IInv'
<1> DEFINE row == Row(Chain(p), FALSE, Message(p))
<1>1. Message(p) \in 1..Len(outbox) /\ Chain(p) \in Aggregates
  BY MessageInBatch DEF RecordNotification
<1>2. row \in Rows /\ ~row.published /\ row.about = Message(p)
  BY <1>1 DEF Row, Rows
<1>3. At(p, "finalizing", None) /\ outbox' = Append(outbox, row)
  BY DEF RecordNotification, Goto
<1> HIDE DEF row
<1>4. /\ RowsKept /\ PublishedJustly
      /\ Len(outbox') = Len(outbox) + 1 /\ outbox'[Len(outbox) + 1] = row
  BY <1>2, <1>3, RowAdded
<1>5. EvidenceKept /\ ChainsSound'
  BY ChainsUnchanged DEF EvidenceKept, RecordNotification
<1>6. /\ publisher' = [q \in Publishers |-> publisher'[q]]
      /\ publisher'[p].step = "finalizing"
      /\ publisher'[p].batch = publisher[p].batch
      /\ Message(p)' = Message(p)
      /\ \A q \in Publishers \ {p} : publisher'[q] = publisher[q]
  BY <1>3, Moves
<1>7. AtWork(p)'
  BY <1>4, <1>6 DEF AtWork, IInv, PublishersAtWork, RecordNotification, RowsKept
<1>8. Announced(Message(p))'
  <2>1. Message(p) \in notified
    BY DEF IInv, InStep, RecordNotification
  <2>2. Len(outbox) + 1 \in 1..Len(outbox')
    BY <1>4 DEF IInv
  <2> QED BY <1>2, <1>4, <1>6, <2>1, <2>2 DEF Announced, RecordNotification
<1>9. InStep(p)'
  <2>1. Chain(p)' = Chain(p)
    BY <1>1, <1>4, <1>6 DEF Chain, RowsKept
  <2>2. Recorded(audit[Chain(p)], Message(p)) /\ audit' = audit
    BY DEF IInv, InStep, RecordNotification
  <2> QED BY <1>6, <1>8, <2>1, <2>2 DEF InStep
<1>10. \A q \in Publishers \ {p} : Undisturbed(q)
  BY <1>6 DEF Undisturbed, RecordNotification
<1>11. /\ fed' \in 0..Len(Feed) /\ UNCHANGED collided
       /\ chainLock' \in [Aggregates -> Publishers \cup {None}]
  BY DEF IInv, RecordNotification
<1>12. {p} \in SUBSET Publishers /\ \A r \in {p} : AtWork(r)' /\ InStep(r)'
  BY <1>7, <1>9
<1> QED BY <1>4, <1>5, <1>6, <1>10, <1>11, <1>12, StepKeeps, Zenon

\* A publisher starts on a batch, goes on in it or ends it.
LEMMA RestartKeeps ==
  ASSUME IInv, NEW p \in Publishers, RowsKept, PublishedJustly,
         NEW entry, publisher' = [publisher EXCEPT ![p] = entry],
         entry.step \in {"idle", "checking"},
         entry.batch \subseteq 1..Len(outbox),
         entry.step = "checking" => entry.batch # {},
         UNCHANGED <<fed, audit, collided, notified>>,
         chainLock' \in [Aggregates -> Publishers \cup {None}],
         \A q \in Publishers \ {p} : \A a \in Aggregates :
           chainLock[a] = q => chainLock'[a] = q
  PROVE  IInv'
<1>1. EvidenceKept /\ ChainsSound'
  BY ChainsUnchanged DEF EvidenceKept
<1>2. /\ publisher' = [q \in Publishers |-> publisher'[q]]
      /\ publisher'[p] = entry
      /\ \A q \in Publishers \ {p} : publisher'[q] = publisher[q]
  <2>1. publisher = [q \in Publishers |-> publisher[q]]
    BY DEF IInv, PublishersAtWork
  <2> QED BY <2>1
<1>3. AtWork(p)'
  <2>1. 1..Len(outbox) \subseteq 1..Len(outbox')
    BY DEF IInv, RowsKept
  <2> QED BY <1>2, <2>1 DEF AtWork
<1>4. InStep(p)'
  BY <1>2 DEF InStep
<1>5. \A q \in Publishers \ {p} : Undisturbed(q)
  BY <1>2 DEF Undisturbed
<1>6. fed' \in 0..Len(Feed) /\ UNCHANGED collided
  BY DEF IInv
<1>7. {p} \in SUBSET Publishers /\ \A r \in {p} : AtWork(r)' /\ InStep(r)'
  BY <1>3, <1>4
<1> QED BY <1>1, <1>2, <1>5, <1>6, <1>7, StepKeeps, Zenon

\* A claim changes leases only.
LEMMA ClaimKeeps ==
  ASSUME IInv, NEW p \in Publishers, Claim(p)
  PROVE  IInv'
<1>1. PICK batch \in SUBSET Due :
        /\ IsDueBatch(batch)
        /\ publisher' = [publisher EXCEPT ![p] =
                           [step |-> "checking", batch |-> batch, link |-> None]]
        /\ outbox' = [i \in 1..Len(outbox) |->
                        IF i \in batch
                        THEN [outbox[i] EXCEPT !.lease = "live"] ELSE outbox[i]]
  BY DEF Claim
<1>2. batch \subseteq 1..Len(outbox)
  BY DEF Due
<1>3. batch # {}
  <2>1. CASE Cardinality(batch) = BatchLimit
    <3>1. Cardinality({}) = 0
      BY FS_EmptySet
    <3> QED BY <2>1, <3>1, LimitsAssumption
  <2>2. CASE batch = Due
    BY <2>2 DEF Claim
  <2> QED BY <1>1, <2>1, <2>2 DEF IsDueBatch
<1>4. /\ RowsKept
      /\ Len(outbox') = Len(outbox)
      /\ \A i \in 1..Len(outbox) : outbox'[i].published = outbox[i].published
  <2>1. \A i \in 1..Len(outbox) : outbox[i] \in Rows
    BY ElementOfSeq DEF IInv
  <2>2. \A i \in 1..Len(outbox) :
          /\ outbox'[i] \in Rows
          /\ outbox'[i].aggregate = outbox[i].aggregate
          /\ outbox'[i].notifies = outbox[i].notifies
          /\ outbox'[i].about = outbox[i].about
          /\ outbox'[i].published = outbox[i].published
    BY <1>1, <2>1 DEF Rows
  <2>3. Len(outbox) \in Nat
    BY DEF IInv
  <2>4. outbox' = [i \in 1..Len(outbox) |-> outbox'[i]]
    BY <1>1
  <2>5. outbox' \in Seq(Rows) /\ Len(outbox') = Len(outbox)
    BY <2>2, <2>3, <2>4
  <2> QED BY <2>2, <2>3, <2>5 DEF RowsKept
<1>5. PublishedJustly
  BY <1>4 DEF PublishedJustly
<1> DEFINE entry == [step |-> "checking", batch |-> batch, link |-> None]
<1>6. /\ publisher' = [publisher EXCEPT ![p] = entry]
      /\ entry.step \in {"idle", "checking"}
      /\ entry.batch \subseteq 1..Len(outbox)
      /\ entry.step = "checking" => entry.batch # {}
  BY <1>1, <1>2, <1>3
<1>7. UNCHANGED <<fed, audit, chainLock, notified, collided>>
  BY DEF Claim
<1> HIDE DEF entry
<1> QED BY <1>4, <1>5, <1>6, <1>7, RestartKeeps DEF IInv

\* A message is settled by a row that keeps what the row said and is published
\* only when it is delivered.
LEMMA SettleKeeps ==
  ASSUME IInv, NEW p \in Publishers, publisher[p].step # "idle",
         NEW row \in Rows, Settle(p, row),
         row.aggregate = outbox[Message(p)].aggregate,
         row.notifies = outbox[Message(p)].notifies,
         row.about = outbox[Message(p)].about,
         row.published => outbox[Message(p)].published \/ Delivered(Message(p))
  PROVE  IInv'
<1> DEFINE entry == IF publisher[p].batch = {Message(p)} THEN Idle
                    ELSE [step |-> "checking", batch |-> publisher[p].batch \ {Message(p)},
                          link |-> None]
<1>1. Message(p) \in publisher[p].batch /\ Message(p) \in 1..Len(outbox)
  BY MessageInBatch
<1>2. /\ entry.step \in {"idle", "checking"}
      /\ entry.batch \subseteq 1..Len(outbox)
      /\ entry.step = "checking" => entry.batch # {}
  BY <1>1 DEF Idle, IInv, PublishersAtWork, AtWork
<1>3. publisher' = [publisher EXCEPT ![p] = entry]
  BY DEF Settle, Proceed
<1>4. UNCHANGED <<fed, audit, chainLock, notified, collided>>
  BY DEF Settle
<1>5. RowsKept /\ PublishedJustly
  <2>1. CASE UNCHANGED outbox
    BY <2>1, RowsUnchanged
  <2>2. CASE outbox' = [outbox EXCEPT ![Message(p)] = row]
    <3>1. /\ RowsKept
          /\ Len(outbox') = Len(outbox) /\ outbox'[Message(p)] = row
          /\ \A j \in 1..Len(outbox) \ {Message(p)} : outbox'[j] = outbox[j]
      BY <1>1, <2>2, RowWritten
    <3>2. EvidenceKept
      BY <1>4 DEF EvidenceKept
    <3>3. Delivered(Message(p)) =>
            \A i \in 1..Len(outbox') : i = Message(p) => Delivered(i)'
      <4>1. ASSUME NEW i \in 1..Len(outbox), Delivered(i) PROVE Delivered(i)'
        BY <3>1, <3>2, <4>1, EvidenceStays
      <4> QED BY <1>1, <4>1
    <3> QED BY <1>1, <3>1, <3>3 DEF PublishedJustly
  <2> QED BY <2>1, <2>2 DEF Settle
<1> HIDE DEF entry
<1> QED BY <1>2, <1>3, <1>4, <1>5, RestartKeeps DEF IInv

\* Finalize publishes a row that is delivered.
LEMMA FinalizeKeeps ==
  ASSUME IInv, NEW p \in Publishers, Finalize(p)
  PROVE  IInv'
<1> DEFINE row == [outbox[Message(p)] EXCEPT !.published = TRUE, !.lease = "none"]
<1>1. publisher[p].step # "idle" /\ outbox[Message(p)] \in Rows
  BY MessageInBatch DEF Finalize
<1>2. /\ row \in Rows
      /\ row.aggregate = outbox[Message(p)].aggregate
      /\ row.notifies = outbox[Message(p)].notifies
      /\ row.about = outbox[Message(p)].about
  BY <1>1 DEF Rows
<1>3. Delivered(Message(p))
  BY DEF IInv, InStep, Finalize, Delivered, Chain
<1>4. Settle(p, row)
  BY DEF Finalize
<1> HIDE DEF row
<1> QED BY <1>1, <1>2, <1>3, <1>4, SettleKeeps

\* A reschedule publishes nothing.
LEMMA RescheduleKeeps ==
  ASSUME IInv, NEW p \in Publishers, Reschedule(p)
  PROVE  IInv'
<1> DEFINE row == [outbox[Message(p)] EXCEPT !.waiting = TRUE, !.lease = "none"]
<1>1. publisher[p].step # "idle" /\ outbox[Message(p)] \in Rows
  BY MessageInBatch DEF Reschedule
<1>2. /\ row \in Rows
      /\ row.aggregate = outbox[Message(p)].aggregate
      /\ row.notifies = outbox[Message(p)].notifies
      /\ row.about = outbox[Message(p)].about
      /\ row.published = outbox[Message(p)].published
  BY <1>1 DEF Rows
<1>3. Settle(p, row)
  BY DEF Reschedule
<1> HIDE DEF row
<1> QED BY <1>1, <1>2, <1>3, SettleKeeps

\* A crash leaves rows and chains as they are.
LEMMA CrashKeeps ==
  ASSUME IInv, NEW p \in Publishers, Crash(p)
  PROVE  IInv'
<1>1. publisher' = [publisher EXCEPT ![p] = Idle] /\ Release(p)
  BY DEF Crash
<1>2. UNCHANGED <<fed, outbox, audit, notified, collided>>
  BY DEF Crash
<1>3. Idle.step = "idle" /\ Idle.batch = {}
  BY DEF Idle
<1>4. RowsKept /\ PublishedJustly
  BY <1>2, RowsUnchanged
<1> QED BY <1>1, <1>2, <1>3, <1>4, Releases, RestartKeeps

\* A step of no publisher: the feed and the clock.
LEMMA NobodyMoves ==
  ASSUME IInv, RowsKept, PublishedJustly, fed' \in 0..Len(Feed),
         UNCHANGED <<publisher, audit, chainLock, notified, collided>>
  PROVE  IInv'
<1>1. EvidenceKept /\ ChainsSound'
  BY ChainsUnchanged DEF EvidenceKept
<1>2. \A q \in Publishers \ {} : Undisturbed(q)
  BY DEF Undisturbed
<1>3. /\ publisher' = [p \in Publishers |-> publisher'[p]]
      /\ chainLock' \in [Aggregates -> Publishers \cup {None}]
      /\ UNCHANGED collided
  BY DEF IInv, PublishersAtWork
<1>4. {} \in SUBSET Publishers /\ \A p \in {} : AtWork(p)' /\ InStep(p)'
  OBVIOUS
<1> QED BY <1>1, <1>2, <1>3, <1>4, StepKeeps, Zenon

\* A command adds an unpublished row.
LEMMA EmitKeeps ==
  ASSUME IInv, Emit
  PROVE  IInv'
<1> DEFINE row == Row(Feed[fed + 1].aggregate, Feed[fed + 1].notifies, 0)
<1>1. fed + 1 \in 1..Len(Feed) /\ fed' \in 0..Len(Feed)
  BY FeedAssumption DEF IInv, Emit
<1>2. Feed[fed + 1] \in [aggregate: Aggregates, notifies: BOOLEAN]
  BY <1>1, FeedAssumption, ElementOfSeq
<1>3. row \in Rows /\ ~row.published
  BY <1>2 DEF Row, Rows
<1>4. outbox' = Append(outbox, row)
  BY DEF Emit
<1> HIDE DEF row
<1>5. RowsKept /\ PublishedJustly
  BY <1>3, <1>4, RowAdded
<1> QED BY <1>1, <1>5, NobodyMoves DEF Emit

\* Leases and backoffs run out.
LEMMA ClockKeeps ==
  ASSUME IInv, NEW i \in 1..Len(outbox), Time(i) \/ HolderOutlivesLease(i)
  PROVE  IInv'
<1>1. UNCHANGED <<fed, publisher, audit, chainLock, notified, collided>>
  BY DEF Time, OrphanExpires, BackoffElapses, HolderOutlivesLease
<1>2. outbox[i] \in Rows
  BY ElementOfSeq DEF IInv
<1>3. PICK row \in Rows :
        /\ outbox' = [outbox EXCEPT ![i] = row]
        /\ row.aggregate = outbox[i].aggregate /\ row.notifies = outbox[i].notifies
        /\ row.about = outbox[i].about /\ row.published = outbox[i].published
  <2>1. CASE Expire(i)
    <3> DEFINE row == [outbox[i] EXCEPT !.lease = "expired"]
    <3>1. /\ row \in Rows /\ outbox' = [outbox EXCEPT ![i] = row]
          /\ row.aggregate = outbox[i].aggregate /\ row.notifies = outbox[i].notifies
          /\ row.about = outbox[i].about /\ row.published = outbox[i].published
      BY <1>2, <2>1 DEF Expire, Rows
    <3> HIDE DEF row
    <3> QED BY <3>1
  <2>2. CASE BackoffElapses(i)
    <3> DEFINE row == [outbox[i] EXCEPT !.waiting = FALSE]
    <3>1. /\ row \in Rows /\ outbox' = [outbox EXCEPT ![i] = row]
          /\ row.aggregate = outbox[i].aggregate /\ row.notifies = outbox[i].notifies
          /\ row.about = outbox[i].about /\ row.published = outbox[i].published
      BY <1>2, <2>2 DEF BackoffElapses, Rows
    <3> HIDE DEF row
    <3> QED BY <3>1
  <2> QED BY <2>1, <2>2 DEF Time, OrphanExpires, HolderOutlivesLease
<1>4. /\ RowsKept
      /\ Len(outbox') = Len(outbox) /\ outbox'[i] = row
      /\ \A j \in 1..Len(outbox) \ {i} : outbox'[j] = outbox[j]
  BY <1>3, RowWritten
<1>5. PublishedJustly
  BY <1>3, <1>4 DEF PublishedJustly
<1> QED BY <1>1, <1>4, <1>5, NobodyMoves DEF IInv

-----------------------------------------------------------------------------
(* The theorems *)

\* The initial state: no row, no event and idle publishers.
LEMMA InitHolds == Init => IInv
<1> SUFFICES ASSUME Init PROVE IInv
  OBVIOUS
<1>1. outbox \in Seq(Rows) /\ Len(outbox) = 0 /\ fed \in 0..Len(Feed)
  BY EmptySeq, FeedAssumption DEF Init
<1>2. chainLock \in [Aggregates -> Publishers \cup {None}]
  BY DEF Init
<1>3. PublishersAtWork
  BY DEF Init, PublishersAtWork, AtWork, Idle
<1>4. ChainsSound
  <2>1. SoundChain(<< >>)
    <3>1. << >> \in Seq({<< >>[i] : i \in 1..Len(<< >>)}) /\ Len(<< >>) = 0
      BY EmptySeq
    <3> QED BY <3>1 DEF SoundChain, IsLinked
  <2> QED BY <2>1 DEF Init, ChainsSound
<1>5. \A p \in Publishers : InStep(p)
  BY DEF Init, InStep, Idle
<1> QED BY <1>1, <1>2, <1>3, <1>4, <1>5
    DEF Init, IInv, NeverCollides, PublishedMeansDelivered

\* Every step keeps the invariant: one case per action.
LEMMA NextKeeps == IInv /\ [Next]_vars => IInv'
<1> SUFFICES ASSUME IInv, [Next]_vars PROVE IInv'
  OBVIOUS
<1>1. ASSUME NEW p \in Publishers, Publish(p) PROVE IInv'
  BY <1>1, ClaimKeeps, CheckPublishedKeeps, LockChainKeeps, InsertEventKeeps,
     NotifyKeeps, RecordNotificationKeeps, FinalizeKeeps, RescheduleKeeps DEF Publish
<1>2. CASE UNCHANGED vars
  <2>1. RowsKept /\ PublishedJustly
    BY <1>2, RowsUnchanged DEF vars
  <2> QED BY <1>2, <2>1, NobodyMoves DEF vars, IInv
<1> QED BY <1>1, <1>2, EmitKeeps, DeliveryFailsKeeps, CrashKeeps, ClockKeeps DEF Next, Drained

\* The invariant behind the other theorems: what a publisher has established at
\* each step of a delivery, and what the chains and published rows contain.
THEOREM InductiveInvariant == Spec => []IInv
BY InitHolds, NextKeeps, PTL DEF Spec

\* A row never yields two audit events, however many publishers deliver it.
THEOREM OneEventPerRow == Spec => []AuditedOnce
<1>1. IInv => AuditedOnce
  <2> SUFFICES ASSUME IInv, NEW i \in 1..Len(outbox)
               PROVE  AuditedOnceIn(audit[outbox[i].aggregate], i)
    BY DEF AuditedOnce
  <2>1. outbox[i] \in Rows
    BY ElementOfSeq DEF IInv
  <2>2. SoundChain(audit[outbox[i].aggregate])
    BY <2>1 DEF Rows, IInv, ChainsSound
  <2> QED BY <2>2 DEF SoundChain, AuditedOnceIn
<1> QED BY <1>1, InductiveInvariant, PTL

\* The audit chain of an aggregate verifies from its first event on, and an
\* aggregate with a published row has one.
THEOREM EvidenceVerifies == Spec => []ChainVerifies
<1>1. IInv => ChainVerifies
  <2> SUFFICES ASSUME IInv, NEW a \in Aggregates,
                      \/ audit[a] # << >>
                      \/ \E i \in 1..Len(outbox) :
                            outbox[i].aggregate = a /\ outbox[i].published
               PROVE  VerifyAggregateChain(audit[a])
    BY DEF ChainVerifies
  <2>1. audit[a] # << >>
    <3>1. ASSUME NEW i \in 1..Len(outbox), outbox[i].aggregate = a, outbox[i].published
          PROVE  audit[a] # << >>
      <4>1. Recorded(audit[a], i)
        BY <3>1 DEF IInv, PublishedMeansDelivered
      <4>2. Len(audit[a]) # 0
        BY <4>1 DEF Recorded
      <4> QED BY <4>2, EmptySeq
    <3> QED BY <3>1
  <2> QED BY <2>1 DEF IInv, ChainsSound, SoundChain, VerifyAggregateChain
<1> QED BY <1>1, InductiveInvariant, PTL

\* The advisory lock keeps appends of one aggregate from competing for a number.
THEOREM NoCollision == Spec => []NeverCollides
<1>1. IInv => NeverCollides
  BY DEF IInv
<1> QED BY <1>1, InductiveInvariant, PTL

\* Only what was audited, announced and recorded is marked published.
THEOREM PublishedJustlyAlways == Spec => []PublishedMeansDelivered
<1>1. IInv => PublishedMeansDelivered
  BY DEF IInv
<1> QED BY <1>1, InductiveInvariant, PTL
=============================================================================
