--------------------------- MODULE MCIdempotency ---------------------------
(***************************************************************************)
(* A small instance of Idempotency for TLC: one key, two spellings of one  *)
(* request and another request.                                            *)
(***************************************************************************)
EXTENDS Idempotency

MCRequests == {"noon", "NOON", "night"}
MCCanonical == [r \in MCRequests |-> IF r = "night" THEN "night" ELSE "noon"]
MCRefusals == {"hold_conflict"}
=============================================================================
