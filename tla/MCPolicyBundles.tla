-------------------------- MODULE MCPolicyBundles --------------------------
(* A small instance of PolicyBundles for TLC. *)
EXTENDS PolicyBundles, TLC

Interchangeable == Permutations(Transactions) \cup Permutations(Versions \ {Seed})
=============================================================================
