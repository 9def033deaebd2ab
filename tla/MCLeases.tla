------------------------------ MODULE MCLeases ------------------------------
(* Two deployments; deployment d1 is acted for by its executor and by a     *)
(* caller aborting it, d2 by its executor only.                             *)
EXTENDS Leases, TLC

CONSTANTS d1, d2, exec1, abort1, exec2

MCHolder == {d1, d2}
MCProcess == {exec1, abort1, exec2}
MCHolderOf == exec1 :> d1 @@ abort1 :> d1 @@ exec2 :> d2
=============================================================================
