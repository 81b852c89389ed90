----------------------------- MODULE AuditChain -----------------------------
(***************************************************************************)
(* The audit events of one aggregate: a chain of rows, each bound to its   *)
(* predecessor by a hash.  SHA-256 is taken to be injective, so a hash is  *)
(* modelled by the fields it covers: the previous hash, the sequence       *)
(* number and the outbox row that caused the event (which fixes the other  *)
(* columns).                                                               *)
(***************************************************************************)
EXTENDS Naturals, Sequences

Genesis == << >>   \* "0" * 64

ComputeEventHash(previous, sequence, cause) == <<previous, sequence, cause>>

\* The last event's sequence and hash, as append reads them.
LastLink(chain) ==
  IF chain = << >>
  THEN [sequence |-> 0, hash |-> Genesis]
  ELSE [sequence |-> chain[Len(chain)].sequence, hash |-> chain[Len(chain)].hash]

\* Mutant: every event points at the genesis hash.
NextEventUnlinked(link, cause) ==
  [sequence |-> link.sequence + 1, cause |-> cause, previous |-> Genesis,
   hash |-> ComputeEventHash(Genesis, link.sequence + 1, cause)]

\* The row append writes after the link it has read.
NextEvent(link, cause) ==
  [sequence |-> link.sequence + 1, cause |-> cause, previous |-> link.hash,
   hash |-> ComputeEventHash(link.hash, link.sequence + 1, cause)]

\* The event that already answers for a cause, if any.
Recorded(chain, cause) == \E i \in 1..Len(chain) : chain[i].cause = cause

\* The loop of verify_aggregate_chain: sequence numbers without a gap, hashes
\* that recompute and links that meet.
IsLinked(chain) ==
  \A i \in 1..Len(chain) :
    /\ chain[i].sequence = i
    /\ chain[i].hash =
         ComputeEventHash(chain[i].previous, chain[i].sequence, chain[i].cause)
    /\ chain[i].previous = IF i = 1 THEN Genesis ELSE chain[i - 1].hash

\* A chain without rows is reported as a problem of its own.
VerifyAggregateChain(chain) == chain # << >> /\ IsLinked(chain)
=============================================================================
