----------------------------- MODULE MCEventBus -----------------------------
(***************************************************************************)
(* EventBus on small instances: a service with two processes in one group, *)
(* and one with a single process in another.                               *)
(***************************************************************************)
EXTENDS EventBus, TLC

CONSTANTS mailer, ledger

MCGroupOf == <<mailer, mailer, ledger>>
MixedAttempts == (mailer :> 1) @@ (ledger :> 2)
=============================================================================
