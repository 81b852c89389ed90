---------------------------- MODULE Revalidation ----------------------------
(***************************************************************************)
(* The last checks before a provider call: the pure part of                *)
(* application/revalidation.py.  Gate 1 (the digest recomputed from the    *)
(* stored row) is not here: no code path updates the columns it covers.    *)
(***************************************************************************)
EXTENDS Authorization, Sequences, Functions

DispositionRank == [ALLOW |-> 0, REQUIRE_APPROVAL |-> 1, BLOCK |-> 2]
RouteRank       == [NONE |-> 0, SINGLE |-> 1, CRITICAL_TWO_STEP |-> 2]

\* Mutant: disposition and route are left to the terms of the approval.
PolicyStricterByTerms(current, original) ==
    \/ ~(Range(current.roles) \subseteq Range(original.roles))
    \/ ~(current.scopes \subseteq original.scopes)
    \/ ~(current.obligations \subseteq original.obligations)

\* policy_stricter, with is_stricter and route_stricter.
PolicyStricter(current, original) ==
    \/ DispositionRank[current.disposition] > DispositionRank[original.disposition]
    \/ RouteRank[current.route] > RouteRank[original.route]
    \/ ~(Range(current.roles) \subseteq Range(original.roles))
    \/ ~(current.scopes \subseteq original.scopes)
    \/ ~(current.obligations \subseteq original.obligations)
    \/ current.ttl # None /\ original.ttl # None /\ current.ttl < original.ttl

\* Mutant: the authority held at decision time is trusted.
AuthorizedOnce(assignments, actor, roles, scopes, at, environment) == TRUE

\* _approver_failure_reason is None: one of the roles and all of the scopes.
StillAuthorized(assignments, actor, roles, scopes, at, environment) ==
    /\ roles = {} \/ roles \cap CurrentRoles(assignments, actor, at, environment) # {}
    /\ scopes \subseteq CurrentScopes(assignments, actor, at, environment)

ApproveRows(decisions) == {d \in decisions : d.decision = "APPROVE"}

\* The approvals whose authors gate 2 looks up: every one of a single route,
\* one of each level of a critical route (level_actor keeps the first row of a
\* level, in no particular order), none if a level lacks a role or a row.
Lookups(p, decisions) ==
    LET Level(n) == {d \in ApproveRows(decisions) : d.level = n}
    IN  CASE p.route = "NONE"   -> {{}}
          [] p.route = "SINGLE" -> {ApproveRows(decisions)}
          [] p.route = "CRITICAL_TWO_STEP" ->
                IF Len(p.roles) < 2 \/ Level(1) = {} \/ Level(2) = {} THEN {{}}
                ELSE {{d, e} : d \in Level(1), e \in Level(2)}

\* The roles one of which the author of an approval must hold.
DemandedRoles(p, d) ==
    IF p.route = "SINGLE" THEN Range(p.roles) ELSE {p.roles[d.level]}

\* What is left to look up after an approval was found no longer authorized: a
\* critical route fails at once, a single route goes on to the next approval.
AfterRefusal(p, todo, d) ==
    IF p.route = "SINGLE" THEN todo \ {d} ELSE {}

\* Gate 2 after the TTL, given the approvals that were found authorized.
Confirmed(p, held) ==
    CASE p.route = "NONE"   -> TRUE
      [] p.route = "SINGLE" -> held # {}
      [] p.route = "CRITICAL_TWO_STEP" ->
            \E d, e \in held : d.level = 1 /\ e.level = 2 /\ d.actor # e.actor

\* Gate 3: the policy the bundle in hand gives now, against the stored one.
PolicyHolds(current, original) ==
    /\ current.disposition # "BLOCK"
    /\ PolicyStricter(current, original) => current.disposition = "ALLOW"
=============================================================================
