------------------------ MODULE DeploymentsInvariants ------------------------
(* The inductive invariant of Deployments: its type invariant, and what     *)
(* has to be true half way through a request, a run or a bake for the       *)
(* properties to be true at its end.                                        *)
EXTENDS Deployments

(* The run and its row say the same, and no other row is past its gates.   *)
(* (A row may stay behind without a run: before the lease, or where it was *)
(* when the state it failed with was refused.)                             *)
RunInv ==
  /\ \/ run = Idle
     \/ /\ run.row \in DOMAIN rows
        /\ <<run.pc, This.state>> \in
             {<<"preflight", "PREFLIGHT">>, <<"gates", "AWAIT_APPROVAL">>,
              <<"clock", "AWAIT_APPROVAL">>, <<"asleep", "AWAIT_APPROVAL">>,
              <<"deploy", "DEPLOYING">>, <<"verify", "VERIFYING">>, <<"restore", "ROLLING_BACK">>}
  /\ \A i \in DOMAIN rows :
       rows[i].state \in WorkStates \ {"PREFLIGHT", "AWAIT_APPROVAL"} => i = run.row
  /\ \A d \in did : rows[d.row].state \notin {"PENDING", "PREFLIGHT", "AWAIT_APPROVAL"}
  /\ \A i \in DOMAIN rows : rows[i].created <= now

PastPreflight == run.pc \in {"gates", "clock", "asleep", "deploy", "verify"}
-----------------------------------------------------------------------------
(* RollbackIsSafe.                                                         *)

\* Row i may be undone by a deploy of a version.
Safe(i, version) ==
  /\ \E j \in 1 .. i - 1 : rows[j].state = "SUCCEEDED" /\ rows[j].version = version
  /\ Checked => FloorHolds(rows[i].version, version)

(* From the plan on, a rollback is one that may be made.                   *)
SafeInv ==
  /\ request # NoRequest /\ request.kind = "rollback" /\ ~request.named =>
       request.of \in DOMAIN rows /\ Safe(request.of, request.version)
  /\ \A i \in DOMAIN rows : ~IsTerminal(rows[i].state) /\ rows[i].rollback /\ ~rows[i].named =>
       rows[i].of \in DOMAIN rows /\ Safe(rows[i].of, rows[i].version)
  /\ run.pc = "restore" =>
       /\ run.target \in DOMAIN rows /\ rows[run.target].state = "SUCCEEDED"
       /\ Safe(run.row, rows[run.target].version)
  /\ \A d \in did : RollsBack(d) =>
       RolledBackRow(d) \in DOMAIN rows /\ Safe(RolledBackRow(d), d.version)
-----------------------------------------------------------------------------
(* OnlyTestedVersionsLive.                                                 *)

(* What is live, what a rollback may return to, and what was let through   *)
(* preflight succeeded upstream, or was named by a rollback.               *)
TestedInv ==
  env.promoteFrom =>
    /\ live # NoVersion => TestedOrNamed(live)
    /\ \A i \in DOMAIN rows : rows[i].state = "SUCCEEDED" => TestedOrNamed(rows[i].version)
    /\ PastPreflight => TestedOrNamed(This.version)
-----------------------------------------------------------------------------
(* GatesHeld.                                                              *)

(* The gates a run has passed held when they were asked, and still do: an  *)
(* approval is never taken back.  A freeze that is in force after preflight*)
(* is younger than the request.                                            *)
GateInv ==
  /\ run.pc = "preflight" => run.asked = <<>>
  /\ run.pc \in {"gates", "clock", "asleep"} =>
       /\ HasApproval(env) /\ run.gate \in DOMAIN env.gates /\ Len(run.asked) = run.gate - 1
       /\ \A k \in 1 .. run.gate - 1 : GateHeld(run.row, env.gates[k], run.asked[k])
  /\ run.pc \in {"clock", "asleep"} => ThisGate.type = "approval"
  /\ run.pc = "deploy" /\ HasApproval(env) =>
       \A k \in DOMAIN env.gates : GateHeld(run.row, env.gates[k], run.asked[k])
  /\ run.pc \in {"gates", "clock", "asleep", "deploy"} /\ Frozen => freeze.since >= This.created
-----------------------------------------------------------------------------
(* BudgetHolds.                                                            *)

\* The deployments of a version that went out and were taken back, as of a time.
TakenBack(version, at) ==
  {i \in DOMAIN rows :
     /\ rows[i].state \in {"ROLLED_BACK", "ROLLBACK_FAILED"}
     /\ \E d \in did : d.row = i /\ ~d.auto /\ d.version = version
     /\ ~rows[i].rollback
     /\ rows[i].created >= at - Day /\ rows[i].passed <= at}

(* The count that preflight read is still below the limit while the run    *)
(* that read it goes on, its own rollback included, because no other run   *)
(* ends meanwhile; so whenever one more is taken back, there is room for it.*)
BudgetInv ==
  /\ (PastPreflight \/ run.pc = "restore") /\ ~This.rollback =>
       /\ BudgetLeft(rows, This.version, This.passed - Day, env.rollback.max)
       /\ This.passed \in Start .. Limit.end
  /\ \A d \in did : ~d.auto => d.version = rows[d.row].version
  /\ \A d \in did : ~d.auto /\ ~rows[d.row].rollback => rows[d.row].passed \in Start .. Limit.end
  /\ \A version \in Version, at \in Start .. Limit.end :
       Cardinality(TakenBack(version, at)) <= env.rollback.max
-----------------------------------------------------------------------------
(* VerdictIsEvidence.                                                      *)

EvidenceInv == CountersFollowEvidence(env.verify) /\ VerdictFollowsEvidence(env.verify)

IndInv ==
  TypeOK /\ RunInv /\ SafeInv /\ TestedInv /\ GateInv /\ BudgetInv /\ EvidenceInv
=============================================================================
