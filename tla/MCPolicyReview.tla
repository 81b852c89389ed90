--------------------------- MODULE MCPolicyReview ---------------------------
(* The rules of the seed bundle, whatever the tool they are written for, and *)
(* rules that tighten, loosen or break them.                                 *)
EXTENDS PolicyReview

Variants ==
  {Plain([disposition |-> "BLOCK"]),
   Plain([disposition |-> "REQUIRE_APPROVAL"]),
   Plain([disposition |-> "ALLOW", obligations |-> {"backup_verified"}]),
   Plain([disposition |-> "ALLOW", roles |-> <<"approver">>]),
   Plain([disposition |-> "REQUIRE_APPROVAL", ttl |-> 300]),
   Plain([disposition |-> "REQUIRE_APPROVAL", ttl |-> MaxApprovalTtl + 1]),
   Plain([disposition |-> "REQUIRE_APPROVAL", scopes |-> {"ops:admin"}]),
   [base |-> [disposition |-> "ALLOW", ttl |-> 600],
    overlays |-> [staging |-> None, production |-> [ttl |-> 0]]]}

KnownRules == {SeedRules[tool] : tool \in Tools} \cup Variants \cup {None}
=============================================================================
