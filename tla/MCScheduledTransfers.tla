----------------------- MODULE MCScheduledTransfers -----------------------
(***************************************************************************)
(* Small instances of ScheduledTransfers: a daily transfer that ends after *)
(* two occurrences and a one-time one, on two execution slots.             *)
(***************************************************************************)
EXTENDS ScheduleFaults, TLC

CONSTANTS daily, once

MCStart == (daily :> 1) @@ (once :> 2)
MCPeriod == (daily :> 1) @@ (once :> 0)
MCEnd == (daily :> 2) @@ (once :> 0)

=============================================================================
