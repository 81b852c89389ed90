--------------------------- MODULE GatedOperation ---------------------------
(***************************************************************************)
(* What the whole system promises about one intent revision, without       *)
(* roles, versions, clocks, rows, locks or workers: an operation is sent   *)
(* to the provider at most once, only after enough people other than its   *)
(* owner endorsed it, never once it has been closed, and what is reported  *)
(* about it is what the provider did.                                      *)
(***************************************************************************)
EXTENDS Naturals

CONSTANTS People, None

VARIABLES
    phase,      \* where the operation stands
    owner,      \* who asked for it
    needed,     \* how many endorsements it needs
    endorsers,  \* who has endorsed it
    sent,       \* whether it was handed to the provider
    effect      \* what the provider did with it

vars == <<phase, owner, needed, endorsers, sent, effect>>

Outcomes == {"SUCCEEDED", "FAILED"}

Enough(S) ==
    CASE needed = 0 -> TRUE
      [] needed = 1 -> S # {}
      [] OTHER      -> \E a, b \in S : a # b

Init ==
    /\ phase = "absent"
    /\ owner = None
    /\ needed = 0
    /\ endorsers = {}
    /\ sent = FALSE
    /\ effect = "none"

Open ==
    /\ phase = "absent"
    /\ owner' \in People
    /\ needed' \in 0..2
    /\ phase' \in IF needed' = 0 THEN {"authorized", "closed"} ELSE {"waiting"}
    /\ UNCHANGED <<endorsers, sent, effect>>

Endorse(p) ==
    /\ phase = "waiting"
    /\ p \notin endorsers \cup {owner}
    /\ endorsers' = endorsers \cup {p}
    /\ phase' = IF Enough(endorsers') THEN "authorized" ELSE "waiting"
    /\ UNCHANGED <<owner, needed, sent, effect>>

\* Rejection, cancellation, expiry, or a failed last check.
Close ==
    /\ phase \in {"waiting", "authorized", "claimed"}
    /\ ~sent
    /\ phase' = "closed"
    /\ UNCHANGED <<owner, needed, endorsers, sent, effect>>

Claim ==
    /\ phase = "authorized"
    /\ phase' = "claimed"
    /\ UNCHANGED <<owner, needed, endorsers, sent, effect>>

\* The request may be refused or lost, be under way, or be answered at once.
Send ==
    /\ phase = "claimed"
    /\ ~sent
    /\ sent' = TRUE
    /\ effect' \in {"none", "inflight"} \cup Outcomes
    /\ UNCHANGED <<phase, owner, needed, endorsers>>

\* A request under way arrives, or never does.
Land ==
    /\ effect = "inflight"
    /\ effect' \in {"none"} \cup Outcomes
    /\ UNCHANGED <<phase, owner, needed, endorsers, sent>>

\* The first answer: a request known not to have reached the provider is a
\* failure too.
Report ==
    /\ phase = "claimed"
    /\ sent
    /\ \/ effect = "SUCCEEDED" /\ phase' = "succeeded"
       \/ effect \in {"none", "FAILED"} /\ phase' = "failed"
    /\ UNCHANGED <<owner, needed, endorsers, sent, effect>>

\* The answer was lost, or the worker was.
Lose ==
    /\ phase = "claimed"
    /\ phase' = "unknown"
    /\ UNCHANGED <<owner, needed, endorsers, sent, effect>>

\* An unknown outcome is only ever settled by what the provider did.
Settle ==
    /\ phase = "unknown"
    /\ \/ effect = "SUCCEEDED" /\ phase' = "succeeded"
       \/ effect = "FAILED" /\ phase' = "failed"
    /\ UNCHANGED <<owner, needed, endorsers, sent, effect>>

Next ==
    \/ Open
    \/ \E p \in People : Endorse(p)
    \/ Close \/ Claim \/ Send \/ Land \/ Report \/ Lose \/ Settle

Spec == Init /\ [][Next]_vars
=============================================================================
