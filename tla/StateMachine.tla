---------------------------- MODULE StateMachine ----------------------------
(***************************************************************************)
(* The deployment state machine of internal/store/model.go, as data: the   *)
(* states, which of them are absorbing, which need the lease, and which    *)
(* moves the store accepts.  Pure definitions; every other module reads    *)
(* them from here.                                                         *)
(***************************************************************************)
EXTENDS FiniteSets

\* The states in which an executor, an aborting caller or the reconciler works.
WorkStates == {"PREFLIGHT", "AWAIT_APPROVAL", "DEPLOYING", "VERIFYING",
               "PROMOTING", "ROLLING_BACK"}

\* The absorbing states.
TerminalStates == {"SUCCEEDED", "ROLLED_BACK", "ROLLBACK_FAILED", "FAILED",
                   "ABORTED", "UNKNOWN"}

State == {"PENDING"} \cup WorkStates \cup TerminalStates

IsTerminal(s) == s \in TerminalStates

RequiresLease(s) == s \in WorkStates

Active(s) == ~IsTerminal(s)

\* allowedTransitions: what may follow each state.
AllowedTransitions ==
  [s \in State |->
    CASE s = "PENDING"        -> {"PREFLIGHT", "ABORTED", "FAILED"}
      [] s = "PREFLIGHT"      -> {"AWAIT_APPROVAL", "DEPLOYING", "FAILED",
                                  "ABORTED", "ROLLBACK_FAILED"}
      [] s = "AWAIT_APPROVAL" -> {"DEPLOYING", "FAILED", "ABORTED"}
      [] s = "DEPLOYING"      -> {"VERIFYING", "ROLLING_BACK", "FAILED",
                                  "ABORTED", "UNKNOWN", "ROLLBACK_FAILED"}
      [] s = "VERIFYING"      -> {"PROMOTING", "ROLLING_BACK", "FAILED",
                                  "ABORTED", "UNKNOWN", "ROLLBACK_FAILED"}
      [] s = "PROMOTING"      -> {"SUCCEEDED", "ROLLING_BACK", "FAILED",
                                  "ABORTED", "UNKNOWN", "ROLLBACK_FAILED"}
      [] s = "ROLLING_BACK"   -> {"ROLLED_BACK", "ROLLBACK_FAILED", "UNKNOWN"}
      [] OTHER                -> {}]

CanTransition(from, to) == from # to /\ to \in AllowedTransitions[from]
=============================================================================
