------------------------------ MODULE MCTenancy ------------------------------
(* Small instances of Tenancy for TLC. *)
EXTENDS Tenancy, TLC

\* Three names, the first and the last with the same hash.
MCHash == 1 :> 1 @@ 2 :> 2 @@ 3 :> 1
==============================================================================
