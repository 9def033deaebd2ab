------------------------------ MODULE MCEngine ------------------------------
(* Two deployments of one resource.  The second one deploys another version *)
(* in the rolling instance and is a manual rollback to the baseline in the  *)
(* others.                                                                  *)
EXTENDS EngineInvariants

CONSTANTS v0, v1, v2

MCVersion == {v0, v1, v2}
MCForward == [d \in Dep |-> IF d = 1 THEN v1 ELSE v2]
MCAllForward == [d \in Dep |-> FALSE]
MCThenBack == [d \in Dep |-> IF d = 1 THEN v1 ELSE v0]
MCSecondIsRollback == [d \in Dep |-> d = 2]
MCNoSteps == <<>>
MCSteps == <<"shift", "verify", "shift">>
=============================================================================
