--------------------------- MODULE MCIdempotency ---------------------------
(* Idempotency for TLC; the .cfg gives its constants as model values. *)
EXTENDS Idempotency

CONSTANTS h1, h2, k1, b1, b2
=============================================================================
