------------------------------ MODULE MCStore ------------------------------
(* Two callers that record events and one idempotency key, retried at will. *)
EXTENDS StoreInvariants, TLC

CONSTANTS k1, c1, c2

MCKey == {k1}
MCCaller == {c1, c2}

(* The bytes a torn record lacks are in the next item, or beyond the next  *)
(* group, or beyond the end of any file of this instance.                  *)
MCReach == {1, 4, 20}

Callers == Permutations(MCCaller)
=============================================================================
