-------------------------- MODULE MCIdempotencyKey --------------------------
(***************************************************************************)
(* IdempotencyKey with a few callers of one key, all of them alike.        *)
(***************************************************************************)
EXTENDS IdempotencyKey, TLC

CONSTANTS web, mobile
=============================================================================
