-------------------------- MODULE MCClaimSchedule --------------------------
(* Instances of ClaimSchedule: two connectors and short queues.           *)
EXTENDS ClaimSchedule
=============================================================================
