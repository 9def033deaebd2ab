-------------------------- MODULE EngineInvariants --------------------------
(***************************************************************************)
(* Why the safety properties of Engine hold: an invariant that relates, for *)
(* every deployment, what was done (did), what the row says and where the  *)
(* executor is.  It is inductive together with IndInv.  RowHistory is what  *)
(* remains true of the row alone once its executor is gone.                *)
(***************************************************************************)
EXTENDS Engine

\* The states a row can be in before its provider may be called, and those it
\* can be in once a rollback was started.
Early == {"NONE", "PENDING", "PREFLIGHT", "AWAIT_APPROVAL"}
Undone == {"ROLLING_BACK", "ROLLED_BACK", "ROLLBACK_FAILED", "UNKNOWN"}

\* What spoils a success.
Bad == {"unhealthy", "inconclusive", "rollback"}

\* The previous version is in the row, unless the notifier put a row without
\* it back.
Kept(d) == previous[d] # NoVersion \/ d \in overwritten

\* Here and below: s is the state of the row of d, k whether the row kept the
\* previous version, D what was done.
RowHistory(d, s, k, D) ==
  /\ s = "NONE" => D = {}
  /\ "deploy" \in D => s \notin Early /\ k
  /\ "rollback" \in D =>
       s \in Undone /\ Automatic /\ ~IsRollback[d] /\ "inconclusive" \notin D
  /\ s = "SUCCEEDED" =>
       "deployed" \in D /\ (BakeConfigured => "healthy" \in D) /\ D \cap Bad = {}
  /\ s = "ROLLED_BACK" => "restored" \in D

\* Where an executor r can be, against the row it is working on.
Placed(r, s, D) ==
  /\ r.pc \in {"enter", "work"} =>
       r.at \in {"PENDING", "PREFLIGHT", "AWAIT_APPROVAL", "DEPLOYING", "VERIFYING", "PROMOTING"}
  /\ r.pc = "acquire" => r.at = "PENDING"
  /\ r.pc = "record" => r.at = "PREFLIGHT"
  /\ r.pc = "deploy" => r.at = "DEPLOYING"
  /\ r.pc = "shift" => r.at \in {"DEPLOYING", "VERIFYING"}
  /\ r.pc = "read" => s \in {"PENDING"} \cup TerminalStates
  /\ r.pc \in {"read", "acquire"} => D = {}
  /\ r.at \notin Early => s \notin Early
  /\ s = "SUCCEEDED" => r.pc \in {"none", "release", "done"}

\* What the executor got done on its way forward.
Prepared(r) ==
  /\ r.pc \in Cancellable /\ r.at # "PENDING"
  /\ r.at = "PREFLIGHT" => r.pc = "enter"

Deployed(r) ==
  /\ r.pc \in Cancellable
  /\ r.at \in {"VERIFYING", "PROMOTING"} \/ (r.at = "DEPLOYING" /\ r.pc \in {"enter", "shift"})

Baked(r) ==
  r.pc \in Cancellable /\ (r.at = "PROMOTING" \/ (r.at = "VERIFYING" /\ r.pc = "enter"))

\* Where an executor r still writes its copy of the row back.
Writes(r) == r.pc \in {"acquire", "failread", "failrecord"} \cup Cancellable

\* The previous version is recorded before the deploy, no copy of the row that
\* the executor writes back later has lost it, and the provider gets it.
KeepsPrevious(r, k) ==
  /\ Prepared(r) => k
  /\ r.pc \in {"record", "deploy"} => r.prev # NoVersion
  /\ Writes(r) => (k => r.prev # NoVersion)

Advances(r, D) ==
  /\ Deployed(r) => "deployed" \in D
  /\ Baked(r) /\ BakeConfigured => "healthy" \in D
  /\ r.pc \in Cancellable => D \cap Bad = {}
  /\ r.pc \in {"none", "read", "acquire"} => r.step = 1
  /\ r.pc = "shift" /\ r.at = "VERIFYING" => CanarySteps[r.step] = "shift"
  /\ \A i \in 1 .. Len(CanarySteps) :
       i < r.step /\ CanarySteps[i] = "verify" => "healthy" \in D

\* A rollback under way is one that was meant.  An executor that lost its lease
\* has no fence to start one with, which is what stops the rollback when the
\* error that forbade it is replaced.
Undoes(d, r, s, D) ==
  /\ RollingBack(r) => Automatic /\ ~IsRollback[d]
  /\ r.pc = "rollback" => s \in Undone /\ "inconclusive" \notin D
  /\ r.pc = "settle" => r.goal # "SUCCEEDED"
  /\ "rollback" \in D => r.pc \in {"restore", "unshift", "settle", "release", "none", "done"}
  /\ r.pc = "unshift" \/ (r.pc = "settle" /\ r.goal = "ROLLED_BACK") => "restored" \in D
  /\ r.lost => r.pc \in Cancellable /\ ~Fenced(d, r.fence)
  /\ "inconclusive" \in D =>
       \/ r.pc \in {"none", "release", "done"}
       \/ /\ r.pc \in {"failread", "failrecord", "failplan"}
          /\ r.cause = "inconclusive" \/ ~Fenced(d, r.fence)
       \/ /\ r.pc = "settle"
          /\ r.goal # "ROLLING_BACK" \/ ~Fenced(d, r.fence)

RunHistory(d, r, s, k, D) ==
  /\ RowHistory(d, s, k, D)
  /\ Placed(r, s, D) /\ KeepsPrevious(r, k) /\ Advances(r, D) /\ Undoes(d, r, s, D)

HistoryInv == \A d \in Dep : RunHistory(d, ex[d], state[d], Kept(d), did[d])

\* What the notifier would save for d, against the run r of d: a copy read after
\* preflight has what preflight recorded, unless that was lost already, and no
\* copy has what the executor's lacks.
NoticeKeeps(d, r, s, D) ==
  /\ s # "PENDING" /\ (s = "PREFLIGHT" => note.at = "PREFLIGHT")
  /\ note.at # "PREFLIGHT" /\ (Prepared(r) \/ "deploy" \in D) =>
       note.prev # NoVersion \/ d \in overwritten
  /\ Writes(r) => (note.prev # NoVersion => r.prev # NoVersion)

NoticeInv ==
  /\ \A d \in overwritten : state[d] \notin {"NONE", "PENDING"}
  /\ note.pc = "save" =>
       \A d \in Dep : d = note.dep => NoticeKeeps(d, ex[d], state[d], did[d])

\* The reconciler is there exactly while the server reconciles, and decides
\* nothing but these three.
ReconcilerInv ==
  /\ phase = "reconciling" <=> rec.pc # "idle"
  /\ rec.goal \in {"VERIFYING", "FAILED", "UNKNOWN"}

SafetyInv == HistoryInv /\ NoticeInv /\ ReconcilerInv /\ LeaseReturned
=============================================================================
