--------------------------- MODULE MCNotifications ---------------------------
(* A run of two steps that fails, with a rollback or without; the server is  *)
(* also restarted, and reconciliation may find that the deploy had landed.  *)
EXTENDS Notifications, TLC

MCCourse ==
  [s \in State |->
    CASE s = "PENDING"   -> {"PREFLIGHT"}
      [] s = "PREFLIGHT" -> {"DEPLOYING"}
      [] s = "DEPLOYING" -> {"FAILED", "ROLLING_BACK"}
      [] OTHER           -> {}]

MCNotifiers == {<<"dashboard">>, <<"dashboard", "slack">>}
MCSubscribed == State

(* A browser follows the bus where Slack is not configured; where it is,    *)
(* nobody is connected.  The two consumers share nothing but the outbox.    *)
MCInit == Init /\ (Len(notifiers) = 1) = (browser.connects > 0)
MCSpec == MCInit /\ [][Next]_vars /\ Fairness
=============================================================================
