------------------------------- MODULE Engine -------------------------------
(***************************************************************************)
(* The engine of internal/engine over the store of internal/store, for one *)
(* resource (an app in an environment): the executor goroutine of every    *)
(* deployment (Run), its heartbeat, callers aborting a deployment (Abort), *)
(* the Slack notifier, which writes the row back after an HTTP call, the   *)
(* crash of the server, its restart, and startup reconciliation            *)
(* (Reconcile).  A step is what happens between two points where another   *)
(* goroutine can interleave: one store operation (they all run under the   *)
(* store's mutex), or the start, the effect or the return of one provider  *)
(* call.                                                                   *)
(*                                                                         *)
(* Time is abstracted to "the lease is live or has run out"; module Leases *)
(* has the clock.  The environment's answers (a freeze, an approval, a     *)
(* verdict, a provider error, the migration floor) are nondeterministic.   *)
(***************************************************************************)
EXTENDS StateMachine, Integers, Sequences

CONSTANTS
  N,              \* how many deployments are created; ids are 1..N, in order
  Version,        \* artifact versions
  NoVersion,      \* the empty version string
  VersionOf,      \* the version each deployment deploys
  IsRollback,     \* which deployments are manual rollbacks
  Baseline,       \* what is live, and was last deployed successfully, at the start
  Strategy,       \* strategy.type of the environment
  CanarySteps,    \* strategy.steps: "shift" and "verify"
  NeedsApproval,  \* whether the environment has an approval gate
  Automatic,      \* rollback.automatic
  MaxAborts,      \* bound on abort requests
  MaxCrashes,     \* bound on crashes of the server
  MaxPauses,      \* bound on leases that run out under a process still using them
  MaxDrift,       \* bound on version changes made behind the orchestrator's back
  MaxPosts        \* bound on first messages the notifier posts and saves the ts of

Dep == 1 .. N
NoHolder == 0

ASSUME EngineAssumption ==
  /\ N \in Nat
  /\ NoVersion \notin Version
  /\ VersionOf \in [Dep -> Version]
  /\ IsRollback \in [Dep -> BOOLEAN]
  /\ Baseline \in Version
  /\ Strategy \in {"rolling", "blue-green", "canary"}
  /\ CanarySteps \in Seq({"shift", "verify"})
  /\ NeedsApproval \in BOOLEAN /\ Automatic \in BOOLEAN
  /\ MaxAborts \in Nat /\ MaxCrashes \in Nat /\ MaxPauses \in Nat /\ MaxDrift \in Nat
  /\ MaxPosts \in Nat

VARIABLES
  phase,      \* the server: "serving", "down" or "reconciling"
  state,      \* rows: State, or "NONE" for a row not created yet
  previous,   \* rows: PreviousVersion
  lease,      \* the lease row: holder, fence, and whether it is unexpired
  ex,         \* per deployment, the executor goroutine and its local variables
  ab,         \* per deployment, a caller of Abort and its local variables
  rec,        \* the reconciler and its local variables
  live,       \* the version the provider is running
  orphans,    \* deploy scripts that outlived the server that started them
  did,        \* history: what was done for each deployment
  wrote,      \* history: the fence of the last fenced transition
  oldFence,   \* history: the newest fence when the server last died
  note,       \* the Slack notifier and its copy of the row it is posting for
  overwritten,\* history: deployments whose PREFLIGHT row the notifier replaced by
              \* a copy older than the previous version recorded in it
  left        \* what is left of each bound

vars == <<phase, state, previous, lease, ex, ab, rec, live, orphans, did,
          wrote, oldFence, note, overwritten, left>>

rows == <<state, previous, wrote>>
world == <<live, orphans>>
notice == <<note, overwritten>>

\* Where an executor can be.  "enter" is about to make the next transition of
\* Run's loop, "work" is in the step function of its local state, "deploy",
\* "shift", "restore" and "unshift" are provider calls in flight, "fail..." is
\* handleFailure, "settle" is about to make the transition it decided on.
Holding == {"enter", "work", "record", "deploy", "shift", "failread", "failrecord",
            "failplan", "settle", "rollback", "restore", "unshift", "release"}
ExecPC == {"none", "read", "acquire", "done"} \cup Holding

\* Where the context of the run still matters: the failure path does not use it.
Cancellable == {"enter", "work", "record", "deploy", "shift"}

NoExec == [pc |-> "none", at |-> "PENDING", fence |-> 0, lost |-> FALSE,
           cause |-> "plain", goal |-> "FAILED", prev |-> NoVersion,
           plan |-> NoVersion, step |-> 1, landed |-> FALSE]
NoAbort == [pc |-> "idle", at |-> "PENDING", fence |-> 0]
NoRec == [pc |-> "idle", dep |-> NoHolder, goal |-> "FAILED", fence |-> 0, todo |-> {}]
NoNote == [pc |-> "idle", dep |-> NoHolder, at |-> "PENDING", prev |-> NoVersion]

Init ==
  /\ phase = "serving"
  /\ state = [d \in Dep |-> "NONE"]
  /\ previous = [d \in Dep |-> NoVersion]
  /\ lease = [holder |-> NoHolder, fence |-> 0, live |-> FALSE]
  /\ ex = [d \in Dep |-> NoExec]
  /\ ab = [d \in Dep |-> NoAbort]
  /\ rec = NoRec
  /\ live = Baseline
  /\ orphans = {}
  /\ did = [d \in Dep |-> {}]
  /\ wrote = 0
  /\ oldFence = 0
  /\ note = NoNote
  /\ overwritten = {}
  /\ left = [aborts |-> MaxAborts, crashes |-> MaxCrashes,
             pauses |-> MaxPauses, drift |-> MaxDrift, posts |-> MaxPosts]
-----------------------------------------------------------------------------
(* The store.                                                               *)

Held == lease.holder # NoHolder /\ lease.live

\* AcquireLease fails exactly when another deployment holds a live lease.
CanAcquire(d) == Held => lease.holder = d

\* Mutant: a lease that ran out is handed on under the fence it had.
AcquiredAsIs(d) ==
  IF Held THEN lease ELSE [lease EXCEPT !.holder = d, !.live = TRUE]

\* The lease row after a successful AcquireLease.
Acquired(d) ==
  IF Held THEN lease ELSE [holder |-> d, fence |-> lease.fence + 1, live |-> TRUE]

Cleared == [lease EXCEPT !.holder = NoHolder, !.live = FALSE]

\* ReleaseLease compares the holder only.
Released(d) == IF lease.holder = d THEN Cleared ELSE lease

Guarded(from, to) == RequiresLease(from) \/ RequiresLease(to)

\* Mutant of checkFenceLocked: the token is not compared.
FencedByHolder(d, f) == lease.holder = d /\ lease.live

\* checkFenceLocked.
Fenced(d, f) == lease.fence <= f /\ lease.holder = d /\ lease.live

\* Mutant: the transition is compared with the row and nothing else.
MayMoveUnfenced(d, f, from, to) == state[d] = from /\ CanTransition(from, to)

\* Store.transition accepts a move of d from `from` to `to` under fence f.
MayMove(d, f, from, to) ==
  /\ state[d] = from
  /\ CanTransition(from, to)
  /\ Guarded(from, to) => Fenced(d, f)

Move(d, f, to) ==
  /\ state' = [state EXCEPT ![d] = to]
  /\ wrote' = IF Guarded(state[d], to) THEN f ELSE wrote
  /\ UNCHANGED previous
-----------------------------------------------------------------------------
(* The executor: Run.                                                       *)

Exec(d, r) == ex' = [ex EXCEPT ![d] = r]
At(d, pc, s) == ex[d].pc = pc /\ ex[d].at = s

\* A step that touches no row and nothing in the world.
Local(d, r) ==
  /\ Exec(d, r)
  /\ UNCHANGED <<phase, rows, lease, ab, rec, world, did, oldFence, notice, left>>

\* CreateDeployment commits the row, then runner.start spawns Run.
Create(d) ==
  /\ phase = "serving"
  /\ state[d] = "NONE"
  /\ \A c \in 1 .. d - 1 : state[c] # "NONE"
  /\ state' = [state EXCEPT ![d] = "PENDING"]
  /\ Exec(d, [ex[d] EXCEPT !.pc = "read"])
  /\ UNCHANGED <<phase, previous, lease, ab, rec, world, did, wrote, oldFence, notice, left>>

RunRead(d) ==
  /\ ex[d].pc = "read"
  /\ Local(d, IF IsTerminal(state[d]) THEN [NoExec EXCEPT !.pc = "done"]
              ELSE [ex[d] EXCEPT !.pc = "acquire", !.at = state[d], !.prev = previous[d]])

\* A deployment that cannot have the lease returns at once: nothing is
\* registered yet, so nothing is undone and nothing is retried.
RunAcquire(d) ==
  /\ ex[d].pc = "acquire"
  /\ IF CanAcquire(d)
       THEN /\ lease' = Acquired(d)
            /\ Exec(d, [ex[d] EXCEPT !.pc = "enter", !.fence = Acquired(d).fence])
       ELSE /\ UNCHANGED lease
            /\ Exec(d, [NoExec EXCEPT !.pc = "done"])
  /\ UNCHANGED <<phase, rows, ab, rec, world, did, oldFence, notice, left>>

\* The heartbeat found that the lease is no longer this process's to renew: it
\* reports the loss and cancels the context of the run.
HeartbeatFails(d) ==
  /\ ex[d].pc \in Cancellable
  /\ ~ex[d].lost
  /\ ~(lease.holder = d /\ lease.fence = ex[d].fence /\ lease.live)
  /\ Local(d, [ex[d] EXCEPT !.lost = TRUE])

\* The steps of Run in order; the approval step is there only for an
\* environment that has an approval gate.
StepAfter(s) ==
  CASE s = "PENDING"        -> "PREFLIGHT"
    [] s = "PREFLIGHT"      -> IF NeedsApproval THEN "AWAIT_APPROVAL" ELSE "DEPLOYING"
    [] s = "AWAIT_APPROVAL" -> "DEPLOYING"
    [] s = "DEPLOYING"      -> "VERIFYING"
    [] s = "VERIFYING"      -> "PROMOTING"
    [] OTHER                -> "SUCCEEDED"

\* Handing an error to handleFailure.  A lost lease replaces the error, which
\* hides from handleFailure that it was a refusal or an inconclusive verdict.
Failing(d, cause) ==
  [NoExec EXCEPT !.pc = "failread", !.at = ex[d].at, !.fence = ex[d].fence,
                 !.prev = ex[d].prev, !.cause = IF ex[d].lost THEN "plain" ELSE cause]

\* Returning from Run, to the deferred ReleaseLease.
Returning(d) == [NoExec EXCEPT !.pc = "release", !.fence = ex[d].fence]

\* Run persists the transition of the next step.  When that is refused the
\* failure path runs, except for the last transition, whose error is returned.
Entered(d, to) ==
  Exec(d, IF to = "SUCCEEDED" THEN Returning(d)
          ELSE [ex[d] EXCEPT !.pc = "work", !.at = to])

\* Mutant: the side effect goes ahead although the transition was refused.
NotEnteredIgnored(d, to) == Entered(d, to)

NotEntered(d, to) ==
  Exec(d, IF to = "SUCCEEDED" THEN Returning(d) ELSE Failing(d, "plain"))

Enter(d) ==
  LET to == StepAfter(ex[d].at) IN
  /\ ex[d].pc = "enter"
  /\ \/ /\ MayMove(d, ex[d].fence, ex[d].at, to)
        /\ Move(d, ex[d].fence, to)
        /\ Entered(d, to)
     \/ /\ ~MayMove(d, ex[d].fence, ex[d].at, to)
        /\ NotEntered(d, to)
        /\ UNCHANGED rows
  /\ UNCHANGED <<phase, lease, ab, rec, world, did, oldFence, notice, left>>

Proceed(d) == [ex[d] EXCEPT !.pc = "enter"]

\* preflight refuses: a freeze, the circuit breaker, promote_from, or the
\* version is running already.
PreflightBlocks(d) ==
  /\ At(d, "work", "PREFLIGHT")
  /\ Local(d, Failing(d, "blocked"))

\* preflight fails: the provider is missing, misconfigured or unreachable, the
\* strategy needs traffic shifting it does not have, or it cannot tell what is
\* deployed; or the context is cancelled.
PreflightFails(d) ==
  /\ At(d, "work", "PREFLIGHT")
  /\ Local(d, Failing(d, "plain"))

\* preflight passes: what is live is read from the provider; running the
\* version already is a refusal, except for a rollback.
PreflightReads(d) ==
  /\ At(d, "work", "PREFLIGHT")
  /\ live = VersionOf[d] => IsRollback[d]
  /\ Local(d, [ex[d] EXCEPT !.pc = "record", !.prev = live])

\* UpdateDeployment writes the whole row from the caller's copy; it is refused
\* when the row is no longer in the state that copy is in.
RowIsAt(d) == state[d] = ex[d].at

UpdateRow(d) == previous' = [previous EXCEPT ![d] = ex[d].prev]

\* What was read is recorded as the previous version.
PreflightRecords(d) ==
  /\ ex[d].pc = "record"
  /\ \/ /\ RowIsAt(d)
        /\ UpdateRow(d)
        /\ Exec(d, Proceed(d))
     \/ /\ ~RowIsAt(d)
        /\ UNCHANGED previous
        /\ Exec(d, Failing(d, "plain"))
  /\ UNCHANGED <<phase, state, wrote, lease, ab, rec, world, did, oldFence, notice, left>>

\* awaitGates: approved; refused (a denied window, a freeze, or the request
\* expired); failed (a timezone that is not there); or cancelled while polling.
GatesPass(d) == At(d, "work", "AWAIT_APPROVAL") /\ Local(d, Proceed(d))

\* Mutant: nothing ends the wait for an approval that never comes.
GatesWait(d) == At(d, "work", "AWAIT_APPROVAL") /\ ex[d].lost /\ Local(d, Failing(d, "blocked"))

GatesBlock(d) ==
  /\ At(d, "work", "AWAIT_APPROVAL")
  /\ \E cause \in {"blocked", "plain"} : Local(d, Failing(d, cause))

GatesCancelled(d) ==
  At(d, "work", "AWAIT_APPROVAL") /\ ex[d].lost /\ Local(d, Failing(d, "plain"))

Did(d, what) == did' = [did EXCEPT ![d] = @ \cup {what}]

\* deploy calls the provider; with a cancelled context the call fails at once.
CallDeploy(d) ==
  /\ At(d, "work", "DEPLOYING")
  /\ IF ex[d].lost
       THEN Exec(d, Failing(d, "plain")) /\ UNCHANGED did
       ELSE Exec(d, [ex[d] EXCEPT !.pc = "deploy"]) /\ Did(d, "deploy")
  /\ UNCHANGED <<phase, rows, lease, ab, rec, world, oldFence, notice, left>>

\* A provider call takes effect some time before it returns.
DeployLands(d) ==
  /\ ex[d].pc = "deploy" /\ ~ex[d].landed
  /\ live' = VersionOf[d]
  /\ Exec(d, [ex[d] EXCEPT !.landed = TRUE])
  /\ UNCHANGED <<phase, rows, lease, ab, rec, orphans, did, oldFence, notice, left>>

\* The call returned: the handle is saved by UpdateDeployment; blue-green then
\* shifts the traffic.
DeployReturns(d) ==
  /\ ex[d].pc = "deploy" /\ ex[d].landed
  /\ Did(d, "deployed")
  /\ \/ /\ RowIsAt(d)
        /\ UpdateRow(d)
        /\ Exec(d, [ex[d] EXCEPT !.pc = IF Strategy = "blue-green" THEN "shift" ELSE "enter",
                                 !.landed = FALSE])
     \/ /\ ~RowIsAt(d)
        /\ UNCHANGED previous
        /\ Exec(d, Failing(d, "plain"))
  /\ UNCHANGED <<phase, state, wrote, lease, ab, rec, world, oldFence, notice, left>>

\* The call failed, timed out or was killed with its context, whether or not
\* the version had landed.
DeployFails(d) == ex[d].pc = "deploy" /\ Local(d, Failing(d, "plain"))

\* The shift of blue-green's deploy step or of a canary step.
ShiftReturns(d) ==
  /\ ex[d].pc = "shift"
  /\ Local(d, IF ex[d].at = "DEPLOYING" THEN Proceed(d)
              ELSE [ex[d] EXCEPT !.pc = "work", !.step = @ + 1])
ShiftFails(d) == ex[d].pc = "shift" /\ Local(d, Failing(d, "plain"))

Baking(d) ==
  /\ At(d, "work", "VERIFYING")
  /\ Strategy = "canary" =>
       ex[d].step <= Len(CanarySteps) /\ CanarySteps[ex[d].step] = "verify"

\* runCanary: a traffic step, unless the context is cancelled.
CanaryShifts(d) ==
  /\ At(d, "work", "VERIFYING")
  /\ Strategy = "canary"
  /\ ex[d].step <= Len(CanarySteps) /\ CanarySteps[ex[d].step] = "shift"
  /\ Local(d, IF ex[d].lost THEN Failing(d, "plain") ELSE [ex[d] EXCEPT !.pc = "shift"])

CanaryEnds(d) ==
  /\ At(d, "work", "VERIFYING")
  /\ Strategy = "canary" /\ ex[d].step > Len(CanarySteps)
  /\ Local(d, Proceed(d))

\* A bake (Verify): the verdict is healthy, unhealthy, inconclusive, or the
\* bake was cancelled.
Healthy(d) ==
  /\ Baking(d)
  /\ Did(d, "healthy")
  /\ Exec(d, IF Strategy = "canary" THEN [ex[d] EXCEPT !.step = @ + 1] ELSE Proceed(d))
  /\ UNCHANGED <<phase, rows, lease, ab, rec, world, oldFence, notice, left>>

Unhealthy(d) ==
  /\ Baking(d)
  /\ Did(d, "unhealthy")
  /\ Exec(d, Failing(d, "plain"))
  /\ UNCHANGED <<phase, rows, lease, ab, rec, world, oldFence, notice, left>>

\* Mutant: missing data counts as a pass.
InconclusivePasses(d) ==
  /\ Baking(d)
  /\ Did(d, "inconclusive")
  /\ Exec(d, IF Strategy = "canary" THEN [ex[d] EXCEPT !.step = @ + 1] ELSE Proceed(d))
  /\ UNCHANGED <<phase, rows, lease, ab, rec, world, oldFence, notice, left>>

Inconclusive(d) ==
  /\ Baking(d)
  /\ Did(d, "inconclusive")
  /\ Exec(d, Failing(d, "inconclusive"))
  /\ UNCHANGED <<phase, rows, lease, ab, rec, world, oldFence, notice, left>>

BakeCancelled(d) == Baking(d) /\ ex[d].lost /\ Local(d, Failing(d, "plain"))

Promote(d) == At(d, "work", "PROMOTING") /\ Local(d, Proceed(d))
-----------------------------------------------------------------------------
(* The failure path: handleFailure and executeRollback, on a context that   *)
(* is never cancelled.                                                      *)

\* handleFailure reads the state of the row again.
FailRead(d) ==
  /\ ex[d].pc = "failread"
  /\ Local(d, [ex[d] EXCEPT !.pc = "failrecord", !.at = state[d]])

\* recordError writes the whole row, whatever state it is in and without a
\* fence, unless it moved since it was read.
FailRecord(d) ==
  /\ ex[d].pc = "failrecord"
  /\ IF RowIsAt(d) THEN UpdateRow(d) ELSE UNCHANGED previous
  /\ Exec(d, [ex[d] EXCEPT !.pc = "failplan", !.prev = NoVersion])
  /\ UNCHANGED <<phase, state, wrote, lease, ab, rec, world, did, oldFence, notice, left>>

\* LastSuccessfulBefore: the newest success older than d.
Successes(d) == {c \in 1 .. d - 1 : state[c] = "SUCCEEDED"}
Newest(deps) == {c \in deps : \A b \in deps : b <= c}

\* Mutant: "no previous success" is not an error.
LastSuccessfulOrNone(d) ==
  IF Successes(d) = {} THEN {NoVersion} ELSE {VersionOf[c] : c \in Newest(Successes(d))}

LastSuccessful(d) ==
  IF Successes(d) = {} THEN {Baseline} ELSE {VersionOf[c] : c \in Newest(Successes(d))}

\* Mutants: the rollback policy is looked up before asking what failed; a
\* failed manual rollback is treated as a failed deploy.
MayPlanAny(d) == Automatic
MayPlanTwice(d) == ex[d].cause \notin {"blocked", "inconclusive"} /\ Automatic

\* A manual rollback, a refused deploy, an inconclusive bake and a policy
\* without automatic rollback end here; only what is left is rolled back.
MayPlan(d) ==
  /\ ~IsRollback[d]
  /\ ex[d].cause \notin {"blocked", "inconclusive"}
  /\ Automatic

Decide(d, goal, plan) ==
  Local(d, [ex[d] EXCEPT !.pc = "settle", !.cause = "plain", !.goal = goal, !.plan = plan])

FailWithoutRollback(d) ==
  /\ ex[d].pc = "failplan"
  /\ ~MayPlan(d)
  /\ Decide(d, IF IsRollback[d] THEN "ROLLBACK_FAILED" ELSE "FAILED", NoVersion)

\* PlanRollback finds a target above the migration floor.
FailPlansRollback(d) ==
  /\ ex[d].pc = "failplan"
  /\ MayPlan(d)
  /\ \E target \in LastSuccessful(d) : Decide(d, "ROLLING_BACK", target)

\* PlanRollback refuses: the rollback would be unsafe.
FailRefusesRollback(d) ==
  /\ ex[d].pc = "failplan"
  /\ MayPlan(d)
  /\ Decide(d, "ROLLBACK_FAILED", NoVersion)

\* The transition handleFailure or executeRollback ends in.  Its error is
\* dropped: a refused transition leaves the row where it was.
Settle(d) ==
  LET to == ex[d].goal IN
  /\ ex[d].pc = "settle"
  /\ \/ /\ MayMove(d, ex[d].fence, ex[d].at, to)
        /\ Move(d, ex[d].fence, to)
        /\ Exec(d, IF to = "ROLLING_BACK" THEN [ex[d] EXCEPT !.pc = "rollback", !.at = to]
                   ELSE Returning(d))
     \/ /\ ~MayMove(d, ex[d].fence, ex[d].at, to)
        /\ Exec(d, Returning(d))
        /\ UNCHANGED rows
  /\ UNCHANGED <<phase, lease, ab, rec, world, did, oldFence, notice, left>>

CallRollback(d) ==
  /\ ex[d].pc = "rollback"
  /\ Did(d, "rollback")
  /\ Exec(d, [ex[d] EXCEPT !.pc = "restore"])
  /\ UNCHANGED <<phase, rows, lease, ab, rec, world, oldFence, notice, left>>

RollbackLands(d) ==
  /\ ex[d].pc = "restore" /\ ~ex[d].landed
  /\ live' = ex[d].plan
  /\ Exec(d, [ex[d] EXCEPT !.landed = TRUE])
  /\ UNCHANGED <<phase, rows, lease, ab, rec, orphans, did, oldFence, notice, left>>

\* executeRollback concludes with a last transition.
Conclude(d, goal) ==
  [ex[d] EXCEPT !.pc = "settle", !.goal = goal, !.plan = NoVersion, !.landed = FALSE]

\* Strategies that shift traffic put it back before the rollback counts.
RollbackReturns(d) ==
  /\ ex[d].pc = "restore" /\ ex[d].landed
  /\ Did(d, "restored")
  /\ Exec(d, IF Strategy = "rolling" THEN Conclude(d, "ROLLED_BACK")
             ELSE [ex[d] EXCEPT !.pc = "unshift", !.landed = FALSE])
  /\ UNCHANGED <<phase, rows, lease, ab, rec, world, oldFence, notice, left>>

\* Mutant: an error of the rollback deploy is logged and forgotten.
RollbackFailsQuietly(d) ==
  ex[d].pc = "restore" /\ Local(d, Conclude(d, "ROLLED_BACK"))

RollbackFails(d) ==
  ex[d].pc = "restore" /\ Local(d, Conclude(d, "ROLLBACK_FAILED"))

UnshiftReturns(d) ==
  ex[d].pc = "unshift" /\ Local(d, Conclude(d, "ROLLED_BACK"))
UnshiftFails(d) ==
  ex[d].pc = "unshift" /\ Local(d, Conclude(d, "ROLLBACK_FAILED"))

\* Mutant: the lease is left to run out.
RunReleaseNothing(d) ==
  /\ ex[d].pc = "release"
  /\ Exec(d, [NoExec EXCEPT !.pc = "done"])
  /\ UNCHANGED <<phase, rows, lease, ab, rec, world, did, oldFence, notice, left>>

\* Run's deferred ReleaseLease, by holder.
RunRelease(d) ==
  /\ ex[d].pc = "release"
  /\ lease' = Released(d)
  /\ Exec(d, [NoExec EXCEPT !.pc = "done"])
  /\ UNCHANGED <<phase, rows, ab, rec, world, did, oldFence, notice, left>>

\* The steps of a run, apart from an approval arriving.
ExecutorStep(d) ==
  \/ RunRead(d) \/ RunAcquire(d) \/ Enter(d)
  \/ PreflightBlocks(d) \/ PreflightFails(d) \/ PreflightReads(d) \/ PreflightRecords(d)
  \/ GatesBlock(d) \/ GatesCancelled(d)
  \/ CallDeploy(d) \/ DeployLands(d) \/ DeployReturns(d) \/ DeployFails(d)
  \/ ShiftReturns(d) \/ ShiftFails(d) \/ CanaryShifts(d) \/ CanaryEnds(d)
  \/ Healthy(d) \/ Unhealthy(d) \/ Inconclusive(d) \/ BakeCancelled(d)
  \/ Promote(d)
  \/ FailRead(d) \/ FailRecord(d) \/ FailWithoutRollback(d) \/ FailPlansRollback(d)
  \/ FailRefusesRollback(d) \/ Settle(d)
  \/ CallRollback(d) \/ RollbackLands(d) \/ RollbackReturns(d) \/ RollbackFails(d)
  \/ UnshiftReturns(d) \/ UnshiftFails(d) \/ RunRelease(d)
-----------------------------------------------------------------------------
(* Abort, in the goroutine of the request that asked for it.                *)

Aborter(d, r) == ab' = [ab EXCEPT ![d] = r]

\* The state is read once, here, and used for the transition at the end.  A
\* terminal deployment is refused.
AbortRead(d) ==
  /\ phase = "serving"
  /\ ab[d].pc = "idle" /\ left.aborts > 0
  /\ state[d] # "NONE" /\ Active(state[d])
  /\ left' = [left EXCEPT !.aborts = @ - 1]
  /\ Aborter(d, [ab[d] EXCEPT !.pc = "inspect", !.at = state[d]])
  /\ UNCHANGED <<phase, rows, lease, ex, rec, world, did, oldFence, notice>>

\* The lease is looked at here and broken by a second store call.
AbortInspect(d) ==
  /\ ab[d].pc = "inspect"
  /\ Aborter(d, [ab[d] EXCEPT !.pc = IF lease.holder = d THEN "break" ELSE "acquire"])
  /\ UNCHANGED <<phase, rows, lease, ex, rec, world, did, oldFence, notice, left>>

\* BreakLease names the resource, not the holder it was read to have.
AbortBreak(d) ==
  /\ ab[d].pc = "break"
  /\ lease' = Cleared
  /\ Aborter(d, [ab[d] EXCEPT !.pc = "acquire"])
  /\ UNCHANGED <<phase, rows, ex, rec, world, did, oldFence, notice, left>>

AbortAcquire(d) ==
  /\ ab[d].pc = "acquire"
  /\ IF CanAcquire(d)
       THEN /\ lease' = Acquired(d)
            /\ Aborter(d, [ab[d] EXCEPT !.pc = "move", !.fence = Acquired(d).fence])
       ELSE UNCHANGED lease /\ Aborter(d, NoAbort)
  /\ UNCHANGED <<phase, rows, ex, rec, world, did, oldFence, notice, left>>

AbortMove(d) ==
  /\ ab[d].pc = "move"
  /\ IF MayMove(d, ab[d].fence, ab[d].at, "ABORTED")
       THEN Move(d, ab[d].fence, "ABORTED")
       ELSE UNCHANGED rows
  /\ Aborter(d, [ab[d] EXCEPT !.pc = "release"])
  /\ UNCHANGED <<phase, lease, ex, rec, world, did, oldFence, notice, left>>

AbortRelease(d) ==
  /\ ab[d].pc = "release"
  /\ lease' = Released(d)
  /\ Aborter(d, NoAbort)
  /\ UNCHANGED <<phase, rows, ex, rec, world, did, oldFence, notice, left>>

AbortStep(d) ==
  AbortInspect(d) \/ AbortBreak(d) \/ AbortAcquire(d) \/ AbortMove(d) \/ AbortRelease(d)
-----------------------------------------------------------------------------
(* The Slack notifier, on the outbox worker: one goroutine, started when    *)
(* reconciliation is over, that posts the first message of a deployment.    *)

\* Notify reads the row for its SlackTS and posts.  There is something to post
\* from the move to PREFLIGHT on.
NotifierReads(d) ==
  /\ phase = "serving"
  /\ note.pc = "idle" /\ left.posts > 0
  /\ state[d] \notin {"NONE", "PENDING"}
  /\ note' = [pc |-> "save", dep |-> d, at |-> state[d], prev |-> previous[d]]
  /\ left' = [left EXCEPT !.posts = @ - 1]
  /\ UNCHANGED <<phase, rows, lease, ex, ab, rec, world, did, oldFence, overwritten>>

\* The copy lacks what the PREFLIGHT row got since it was read.
Overwrites ==
  /\ state[note.dep] = "PREFLIGHT"
  /\ previous[note.dep] # NoVersion /\ note.prev # previous[note.dep]

\* Mutant: UpdateDeployment does not compare the state.
NoticeAcceptedAlways == note.pc = "save"

NoticeAccepted == state[note.dep] = note.at

\* Slack answered: the ts is saved with the whole row, as it was read.  The
\* save is refused when the row has moved.
NotifierSaves ==
  /\ note.pc = "save"
  /\ \/ /\ NoticeAccepted
        /\ previous' = [previous EXCEPT ![note.dep] = note.prev]
        /\ overwritten' = IF Overwrites THEN overwritten \cup {note.dep} ELSE overwritten
     \/ /\ ~NoticeAccepted
        /\ UNCHANGED <<previous, overwritten>>
  /\ note' = NoNote
  /\ UNCHANGED <<phase, state, wrote, lease, ex, ab, rec, world, did, oldFence, left>>
-----------------------------------------------------------------------------
(* The server dies, starts again, and reconciles before it serves.          *)

\* Scripts run in process groups of their own: those that had not taken effect
\* when the server died still may.
InFlight(d) == ex[d].pc \in {"deploy", "restore"} /\ ~ex[d].landed

Deploying(d) == IF ex[d].pc = "deploy" THEN VersionOf[d] ELSE ex[d].plan

Crash ==
  /\ phase # "down" /\ left.crashes > 0
  /\ phase' = "down"
  /\ ex' = [d \in Dep |-> NoExec]
  /\ ab' = [d \in Dep |-> NoAbort]
  /\ rec' = NoRec
  /\ orphans' = orphans \cup {Deploying(d) : d \in {c \in Dep : InFlight(c)}}
  /\ oldFence' = lease.fence
  /\ note' = NoNote
  /\ left' = [left EXCEPT !.crashes = @ - 1]
  /\ UNCHANGED <<rows, lease, live, did, overwritten>>

OrphanLands ==
  /\ \E v \in orphans : live' = v /\ orphans' = orphans \ {v}
  /\ UNCHANGED <<phase, rows, lease, ex, ab, rec, did, oldFence, notice, left>>

Reconciler(r) == rec' = r

\* NonTerminalDeployments.
Orphaned == {d \in Dep : state[d] # "NONE" /\ Active(state[d])}

Restart ==
  /\ phase = "down"
  /\ phase' = "reconciling"
  /\ Reconciler([NoRec EXCEPT !.pc = "next", !.todo = Orphaned])
  /\ UNCHANGED <<rows, lease, ex, ab, world, did, oldFence, notice, left>>

Examined(d) == rec.pc = "next" /\ d \in rec.todo /\ \A c \in rec.todo : d <= c

\* "Owned by a live lease on another node": also the orphan's own.
ReconcileSkips(d) ==
  /\ Examined(d)
  /\ Held
  /\ Reconciler([rec EXCEPT !.todo = @ \ {d}])
  /\ UNCHANGED <<phase, rows, lease, ex, ab, world, did, oldFence, notice, left>>

\* What Reconcile decides.  UNKNOWN is always possible: the configuration may
\* no longer define the target, or the provider may be gone or not able to say.
Verdicts(d) ==
  {"UNKNOWN"} \cup
  CASE state[d] \in {"PENDING", "PREFLIGHT"} -> {"FAILED"}
    [] OTHER -> IF live = VersionOf[d] THEN {"VERIFYING"}
                ELSE IF live = previous[d] THEN {"FAILED"} ELSE {}

ReconcileDecides(d) ==
  /\ Examined(d)
  /\ ~Held
  /\ \E goal \in Verdicts(d) :
       Reconciler([rec EXCEPT !.pc = "acquire", !.dep = d, !.goal = goal])
  /\ UNCHANGED <<phase, rows, lease, ex, ab, world, did, oldFence, notice, left>>

\* Nothing else runs yet, so the lease is free, or the reconciler's already.
ReconcileAcquires ==
  /\ rec.pc \in {"acquire", "again"}
  /\ CanAcquire(rec.dep)
  /\ lease' = Acquired(rec.dep)
  /\ Reconciler([rec EXCEPT !.pc = "move", !.fence = Acquired(rec.dep).fence])
  /\ UNCHANGED <<phase, rows, ex, ab, world, did, oldFence, notice, left>>

\* A move the state machine does not allow becomes UNKNOWN: markUnknown, which
\* takes the lease itself, under the lease that was taken for the move.
ReconcileGivesUp ==
  /\ rec.pc = "move"
  /\ rec.goal # "UNKNOWN" /\ ~CanTransition(state[rec.dep], rec.goal)
  /\ Reconciler([rec EXCEPT !.pc = "again", !.goal = "UNKNOWN"])
  /\ UNCHANGED <<phase, rows, lease, ex, ab, world, did, oldFence, notice, left>>

\* When UNKNOWN is not allowed either, the audit log says so and the row stays
\* as it is.
ReconcileMoves ==
  LET d == rec.dep IN
  /\ rec.pc = "move"
  /\ rec.goal = "UNKNOWN" \/ CanTransition(state[d], rec.goal)
  /\ IF MayMove(d, rec.fence, state[d], rec.goal)
       THEN Move(d, rec.fence, rec.goal)
       ELSE UNCHANGED rows
  /\ Reconciler([rec EXCEPT !.pc = "release"])
  /\ UNCHANGED <<phase, lease, ex, ab, world, did, oldFence, notice, left>>

\* Mutant: the reconciler keeps the leases of the deployments it settled.
ReconcileKeeps ==
  /\ rec.pc = "release"
  /\ Reconciler([NoRec EXCEPT !.pc = "next", !.todo = rec.todo \ {rec.dep}])
  /\ UNCHANGED <<phase, rows, lease, ex, ab, world, did, oldFence, notice, left>>

ReconcileReleases ==
  /\ rec.pc = "release"
  /\ lease' = Released(rec.dep)
  /\ Reconciler([NoRec EXCEPT !.pc = "next", !.todo = rec.todo \ {rec.dep}])
  /\ UNCHANGED <<phase, rows, ex, ab, world, did, oldFence, notice, left>>

\* The server is served only once every orphan was examined.
Serve ==
  /\ rec.pc = "next" /\ rec.todo = {}
  /\ phase' = "serving"
  /\ Reconciler(NoRec)
  /\ UNCHANGED <<rows, lease, ex, ab, world, did, oldFence, notice, left>>

ReconcileStep ==
  \/ \E d \in Dep : ReconcileSkips(d) \/ ReconcileDecides(d)
  \/ ReconcileAcquires \/ ReconcileGivesUp \/ ReconcileMoves \/ ReconcileReleases
  \/ Serve
-----------------------------------------------------------------------------
(* Time, and the world outside.                                             *)

\* A heartbeat keeps the lease alive until the run ends or loses it.
Renewing(d) == ex[d].pc \in Holding /\ ex[d].fence = lease.fence

\* An aborting caller and the reconciler do not renew, but hold the lease for
\* two store operations.
InUse(d) ==
  \/ Renewing(d)
  \/ ab[d].pc \in {"move", "release"}
  \/ rec.dep = d /\ rec.pc \in {"move", "again", "release"}

RunsOut == lease' = [lease EXCEPT !.live = FALSE]

\* Mutant: the deadline of a lease is forgotten when the server restarts.
LeaseRunsOutInMemory ==
  /\ Held /\ ~InUse(lease.holder) /\ lease.fence > oldFence
  /\ RunsOut
  /\ UNCHANGED <<phase, rows, ex, ab, rec, world, did, oldFence, notice, left>>

\* A lease nobody renews runs out.
LeaseRunsOut ==
  /\ Held /\ ~InUse(lease.holder)
  /\ RunsOut
  /\ UNCHANGED <<phase, rows, ex, ab, rec, world, did, oldFence, notice, left>>

\* A process stalls for longer than the lease lasts, and then goes on.
LeaseOverrun ==
  /\ Held /\ InUse(lease.holder) /\ left.pauses > 0
  /\ RunsOut
  /\ left' = [left EXCEPT !.pauses = @ - 1]
  /\ UNCHANGED <<phase, rows, ex, ab, rec, world, did, oldFence, notice>>

\* Somebody deploys a version by hand.
Drift ==
  /\ left.drift > 0
  /\ \E v \in Version \ {live} : live' = v
  /\ left' = [left EXCEPT !.drift = @ - 1]
  /\ UNCHANGED <<phase, rows, lease, ex, ab, rec, orphans, did, oldFence, notice>>

Next ==
  \/ \E d \in Dep :
       \/ Create(d) \/ AbortRead(d)
       \/ ExecutorStep(d) \/ GatesPass(d) \/ HeartbeatFails(d) \/ AbortStep(d)
       \/ NotifierReads(d)
  \/ NotifierSaves
  \/ Crash \/ OrphanLands \/ Restart \/ ReconcileStep
  \/ LeaseRunsOut \/ LeaseOverrun \/ Drift

Spec == Init /\ [][Next]_vars

\* Goroutines are scheduled and provider calls end (they have a timeout); a
\* server that died is started again; a lease nobody renews reaches its
\* deadline.  Nobody has to deploy, approve, abort or interfere.
Fairness ==
  /\ \A d \in Dep :
       WF_vars(ExecutorStep(d)) /\ WF_vars(HeartbeatFails(d)) /\ WF_vars(AbortStep(d))
  /\ WF_vars(Restart) /\ WF_vars(ReconcileStep) /\ WF_vars(LeaseRunsOut)

FairSpec == Spec /\ Fairness
-----------------------------------------------------------------------------
(* What the engine and the store promise.                                   *)

Effects == {"deploy", "deployed", "healthy", "unhealthy", "inconclusive",
            "rollback", "restored"}

Execs ==
  [pc : ExecPC, at : State, fence : Nat, lost : BOOLEAN,
   cause : {"plain", "blocked", "inconclusive"}, goal : State,
   prev : Version \cup {NoVersion}, plan : Version \cup {NoVersion},
   step : Nat, landed : BOOLEAN]

Aborters ==
  [pc : {"idle", "inspect", "break", "acquire", "move", "release"}, at : State, fence : Nat]

Reconcilers ==
  [pc : {"idle", "next", "acquire", "move", "again", "release"}, dep : Dep \cup {NoHolder},
   goal : State, fence : Nat, todo : SUBSET Dep]

Notes ==
  [pc : {"idle", "save"}, dep : Dep \cup {NoHolder}, at : State,
   prev : Version \cup {NoVersion}]

LeaseRows == [holder : Dep \cup {NoHolder}, fence : Nat, live : BOOLEAN]

(* Type correctness of the rows, the lease, the goroutines and the history. *)
TypeOK ==
  /\ phase \in {"serving", "down", "reconciling"}
  /\ state \in [Dep -> State \cup {"NONE"}]
  /\ previous \in [Dep -> Version \cup {NoVersion}]
  /\ lease \in LeaseRows
  /\ ex \in [Dep -> Execs]
  /\ ab \in [Dep -> Aborters]
  /\ rec \in Reconcilers
  /\ live \in Version
  /\ orphans \subseteq Version
  /\ did \in [Dep -> SUBSET Effects]
  /\ wrote \in Nat
  /\ oldFence \in Nat
  /\ note \in Notes
  /\ overwritten \subseteq Dep
  /\ left \in [aborts : Nat, crashes : Nat, pauses : Nat, drift : Nat, posts : Nat]

(* What the properties below rest on.  A rollback under way has a target;   *)
(* nobody holds a fence newer than the row's, or wrote under one; executors,*)
(* the reconciler and the notifier work on deployments that exist.          *)
RollingBack(r) ==
  r.pc \in {"rollback", "restore"} \/ (r.pc = "settle" /\ r.goal = "ROLLING_BACK")

PlanInv ==
  \A d \in Dep : RollingBack(ex[d]) => ex[d].plan \in Version

FenceInv ==
  /\ \A d \in Dep : ex[d].fence <= lease.fence /\ ab[d].fence <= lease.fence
  /\ rec.fence <= lease.fence
  /\ wrote <= lease.fence

ExistInv ==
  /\ \A d \in Dep : ex[d].pc # "none" => state[d] # "NONE"
  /\ \A d \in rec.todo : state[d] # "NONE"
  /\ rec.pc \in {"acquire", "move", "again", "release"} => rec.dep \in Dep /\ state[rec.dep] # "NONE"
  /\ note.pc = "save" => note.dep \in Dep /\ state[note.dep] # "NONE"

IndInv == TypeOK /\ PlanInv /\ FenceInv /\ ExistInv

(* Executors, aborts, crashes, stalls and reconciliation together do no     *)
(* more than Lifecycle allows: rows move along the state machine, terminal  *)
(* states are final, and work is started and recorded by the owner only,    *)
(* under the newest fence.                                                  *)
Abstract == INSTANCE Lifecycle WITH owner <- lease.holder, fence <- lease.fence

ImplementsLifecycle == Abstract!Spec

(* "Every transition is persisted BEFORE the side effect it describes": no  *)
(* provider is called for a deployment whose row does not show it, or       *)
(* without what to go back to, and a rollback is never mistaken for         *)
(* anything but a rollback afterwards, whoever else moved or tried to move  *)
(* the row.  The row keeps what to go back to through every later whole-row *)
(* write, the notifier's in a later state and the failure path's included;  *)
(* it is lost only when the notifier had read the row before preflight      *)
(* recorded it and saved that copy, still in PREFLIGHT, afterwards.         *)
EffectsAreJournalled ==
  \A d \in Dep :
    /\ "deploy" \in did[d] =>
         /\ state[d] \notin {"NONE", "PENDING", "PREFLIGHT", "AWAIT_APPROVAL"}
         /\ previous[d] # NoVersion \/ d \in overwritten
    /\ ex[d].pc = "deploy" => ex[d].prev # NoVersion
    /\ "rollback" \in did[d] =>
         state[d] \in {"ROLLING_BACK", "ROLLED_BACK", "ROLLBACK_FAILED", "UNKNOWN"}

\* A canary with traffic steps only bakes nothing; the loader accepts it.
BakeConfigured ==
  Strategy = "canary" => \E i \in 1 .. Len(CanarySteps) : CanarySteps[i] = "verify"

(* What a final state claims did happen: a success was deployed and, unless *)
(* the strategy has no bake, baked healthily, without a bad or missing      *)
(* verdict, and was not rolled back; a rolled back deployment had the old   *)
(* version put back.                                                        *)
TruthfulOutcome ==
  \A d \in Dep :
    /\ state[d] = "SUCCEEDED" =>
         /\ "deployed" \in did[d] /\ (BakeConfigured => "healthy" \in did[d])
         /\ did[d] \cap {"unhealthy", "inconclusive", "rollback"} = {}
    /\ state[d] = "ROLLED_BACK" => "restored" \in did[d]

(* "A FAILED ROLLBACK NEVER TRIGGERS ANOTHER ROLLBACK", and neither does an *)
(* inconclusive bake, not even when the lease is lost while it is handled   *)
(* and the error that says so is replaced.                                  *)
RollbackOnlyWhenMeant ==
  \A d \in Dep :
    "rollback" \in did[d] =>
      Automatic /\ ~IsRollback[d] /\ "inconclusive" \notin did[d]

(* The resource is never left locked by nobody: a live lease granted since  *)
(* the server last started has a process that will give it back, whichever  *)
(* way the run ended and whatever aborts came in between.                   *)
LeaseReturned ==
  Held /\ lease.fence > oldFence =>
    \/ ex[lease.holder].pc \in Holding
    \/ ab[lease.holder].pc \in {"move", "release"}
    \/ rec.dep = lease.holder /\ rec.pc \in {"move", "again", "release"}

(* Every run returns, also one that waits for an approval nobody gives.     *)
RunReturns == \A d \in Dep : ex[d].pc = "read" ~> ex[d].pc \in {"none", "done"}

(* No grant lasts for ever: a deployment that dies with its server gives    *)
(* the resource up.                                                         *)
GrantEnds == \A d \in Dep : lease.holder = d /\ Held ~> ~(lease.holder = d /\ Held)

(* engine/executor.go: "Run drives one deployment to a terminal state".     *)
RunEndsTerminal == \A d \in Dep : ex[d].pc = "done" => IsTerminal(state[d])

(* README.md: "A crash never leaves a deploy wedged".                       *)
NeverWedged ==
  \A d \in Dep :
    phase = "down" /\ "deploy" \in did[d] ~> IsTerminal(state[d])

(* README.md: "Two deploys never touch one target at once".                 *)
Touching(d) == ex[d].pc \in {"deploy", "shift", "restore", "unshift"}

OneDeployTouchesTarget ==
  \A c, d \in Dep : Touching(c) /\ Touching(d) => c = d
=============================================================================
