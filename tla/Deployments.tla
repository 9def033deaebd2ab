----------------------------- MODULE Deployments -----------------------------
(***************************************************************************)
(* What may be deployed to one target, and by whom: the API's handlers for *)
(* deployments, rollbacks, promotions, approvals and freezes               *)
(* (internal/api/api.go, internal/auth), and the run of a deployment with  *)
(* the gates, policies and plans that decide how it ends                   *)
(* (internal/engine).                                                      *)
(*                                                                         *)
(* Leases, fences, crashes, aborts and the steps inside the failure path   *)
(* are in module Engine; here the lease is "one run at a time".  A request *)
(* that is refused changes nothing but the audit log and has no step.  A   *)
(* bake has a clock of its own, in module Verification.  Rows are numbered *)
(* in the order of their ids.                                              *)
(***************************************************************************)
EXTENDS Verification, Rollbacks, StateMachine, Functions

CONSTANTS
  Envs,      \* the environments the target may be configured as
  Tokens,    \* token -> [user, on, expires]
  Requests,  \* environment name -> what may be asked of it
  Bound,     \* environment name -> the history it starts from, and the bounds
  Start,     \* the time at which the model starts
  Day        \* the units of time in 24 hours

Version == DOMAIN Manifest

Rows == [version : Version, state : State, rollback : BOOLEAN, by : STRING,
         created : Int, of : Nat, named : BOOLEAN, passed : Int]

\* A history is settled; where versions are promoted, they have always been.
ScopeTyped(e, b) ==
  /\ b.history \in Seq(Rows)
  /\ \A i \in DOMAIN b.history :
       /\ IsTerminal(b.history[i].state)
       /\ b.history[i].created <= Start /\ b.history[i].of \in 0 .. i - 1
       /\ e.promoteFrom /\ b.history[i].state = "SUCCEEDED" =>
            b.history[i].version \in Range(b.tested)
  /\ b.tested \in Seq(Version) /\ b.live \in Version \cup {NoVersion}
  /\ e.promoteFrom => b.live \in Range(b.tested) \cup {NoVersion}
  /\ b.end \in Int /\ Start <= b.end

RequestTyped(r) ==
  /\ r.kind \in {"deploy", "promote", "rollback"} /\ r.token \in DOMAIN Tokens
  /\ r.version \in Version \cup {NoVersion}

ASSUME DeploymentsAssumption ==
  /\ Start \in Nat /\ Day \in Nat \ {0}
  /\ \A t \in DOMAIN Tokens : Tokens[t].user \in STRING
  /\ \A e \in Envs :
       /\ EnvironmentTyped(e, Day) /\ ScopeTyped(e, Bound[e.name])
       /\ \A r \in Requests[e.name] : RequestTyped(r)

VARIABLES
  env,        \* the configuration of the target, chosen at the start
  now,        \* the clock
  rows,       \* the deployments of the target
  request,    \* a POST /v1/deployments between its plan and its row
  starting,   \* rows whose goroutine has not tried for the lease yet
  run,        \* the executor that holds the lease
  approvals,  \* the approvals of all rows
  approving,  \* an approve handler between its check and its record
  freeze,     \* the freeze of the target
  live,       \* the version the provider is running
  tested,     \* the versions that succeeded upstream, oldest first
  did         \* history: the deploys the provider was asked for

api == <<request, starting>>
consent == <<approvals, approving>>
world == <<env, freeze, tested>>
vars == <<now, rows, api, run, consent, world, live, did, verifyVars>>

Idle == [pc |-> "idle", row |-> NoRow, gate |-> 0, asked |-> <<>>, wake |-> Start,
         bake |-> 0, target |-> NoRow]
NoRequest == [kind |-> "none"]
NoHandler == [row |-> NoRow]
NotFrozen == [on |-> FALSE, since |-> Start, until |-> Start]

Limit == Bound[env.name]
Checked == env.rollback.check /\ env.manifests

\* A row as the handler makes it.
NewRow(version, kind, by, at) ==
  [version |-> version, state |-> "PENDING", rollback |-> kind = "rollback", by |-> by,
   created |-> at, of |-> NoRow, named |-> FALSE, passed |-> at]

Init ==
  /\ env \in {e \in Envs : Accepted(e)}
  /\ now = Start
  /\ rows = Bound[env.name].history
  /\ request = NoRequest /\ starting = {}
  /\ run = Idle
  /\ approvals = {} /\ approving = NoHandler
  /\ freeze = NotFrozen
  /\ live = Bound[env.name].live
  /\ tested = Bound[env.name].tested
  /\ did = {}
  /\ VerifyInit
-----------------------------------------------------------------------------
(* Who is asking.                                                          *)

(* Store.Lookup and Expired.                                               *)
Authenticated(t) == now <= Tokens[t].expires

(* CoversEnvironment: a token that names no environment covers them all.   *)
InScope(t) == Tokens[t].on = {} \/ Tokens[t].on \cap {"*", env.name} # {}

(* Authorizer.Can: the token's scope and the user's grants.                *)
Permitted(t, permission) ==
  /\ Authenticated(t)
  /\ InScope(t)
  /\ Can(Tokens[t].user, permission, env.name)

PermissionFor(kind) == IF kind = "rollback" THEN "deploy:rollback" ELSE "deploy:trigger"
-----------------------------------------------------------------------------
(* createDeployment.                                                       *)

(* currentDeployment: the newest active row, or else the newest.           *)
CurrentRow ==
  LET active == {i \in DOMAIN rows : Active(rows[i].state)} IN
  Newest(IF active = {} THEN DOMAIN rows ELSE active)

\* planRollback refuses over the budget, which force lifts, or for want of a plan,
\* which it does not: PlanRollback returns no plan with a refusal, so there is
\* "no target to force toward".
MayRollBack(force) ==
  /\ CurrentRow # NoRow
  /\ force \/ BudgetLeft(rows, rows[CurrentRow].version, now - Day, env.rollback.max)
  /\ PlanRollback(rows, CurrentRow, Checked) # NoRow

\* promotionSource.
MayPromote == env.promoteFrom /\ tested # <<>>

(* The version a request resolves to; a rollback's own version wins over   *)
(* the plan's.                                                             *)
VersionFor(r) ==
  CASE r.kind = "promote" -> tested[Len(tested)]
    [] r.kind = "rollback" /\ r.version = NoVersion ->
         rows[PlanRollback(rows, CurrentRow, Checked)].version
    [] OTHER -> r.version

(* createDeployment up to the row.                                         *)
Plan(r) ==
  /\ request = NoRequest
  /\ Len(rows) < Limit.rows
  /\ Permitted(r.token, PermissionFor(r.kind))
  /\ r.force => Permitted(r.token, "deploy:override")
  /\ r.kind = "rollback" => MayRollBack(r.force)
  /\ r.kind = "promote" => MayPromote
  /\ r.kind = "deploy" => r.version # NoVersion
  /\ request' = [kind |-> r.kind, version |-> VersionFor(r), by |-> Tokens[r.token].user,
                 of |-> IF r.kind = "rollback" THEN CurrentRow ELSE NoRow,
                 named |-> r.kind = "rollback" /\ r.version # NoVersion]
  /\ UNCHANGED <<now, rows, starting, run, consent, world, live, did, verifyVars>>

(* CreateDeployment, and runner.start.                                     *)
Create ==
  /\ request # NoRequest
  /\ rows' = Append(rows, [NewRow(request.version, request.kind, request.by, now)
                             EXCEPT !.of = request.of, !.named = request.named])
  /\ starting' = starting \cup {Len(rows')}
  /\ request' = NoRequest
  /\ UNCHANGED <<now, run, consent, world, live, did, verifyVars>>

\* Mutant: a run that is not the first one goes on without the lease.
LeaseFreeAnyway == run.row \in Nat

\* AcquireLease.
LeaseFree == run = Idle

(* Run until its first transition; without the lease it returns, and the   *)
(* row stays PENDING.                                                      *)
StartRun(i) ==
  /\ i \in starting
  /\ starting' = starting \ {i}
  /\ IF LeaseFree
       THEN /\ run' = [Idle EXCEPT !.pc = "preflight", !.row = i]
            /\ rows' = [rows EXCEPT ![i].state = "PREFLIGHT"]
       ELSE UNCHANGED <<run, rows>>
  /\ UNCHANGED <<now, request, consent, world, live, did, verifyVars>>
-----------------------------------------------------------------------------
(* How a run ends.                                                         *)

This == rows[run.row]

(* A transition the store refuses leaves the row where it is, and ends the *)
(* run all the same.                                                       *)
End(state) ==
  /\ rows' = IF CanTransition(This.state, state)
               THEN [rows EXCEPT ![run.row].state = state] ELSE rows
  /\ run' = Idle

(* handleFailure: what becomes of a run, and of its row.                   *)
Outcome(cause) ==
  IF This.rollback THEN "ROLLBACK_FAILED"
  ELSE IF cause \in {"blocked", "inconclusive"} \/ ~env.rollback.automatic THEN "FAILED"
  ELSE IF PlanRollback(rows, run.row, Checked) = NoRow THEN "ROLLBACK_FAILED"
  ELSE "ROLLING_BACK"

Fail(cause) ==
  IF Outcome(cause) = "ROLLING_BACK" /\ CanTransition(This.state, "ROLLING_BACK")
    THEN /\ rows' = [rows EXCEPT ![run.row].state = "ROLLING_BACK"]
         /\ run' = [Idle EXCEPT !.pc = "restore", !.row = run.row,
                                !.target = PlanRollback(rows, run.row, Checked)]
    ELSE End(Outcome(cause))

Succeed ==
  /\ rows' = [rows EXCEPT ![run.row].state = "SUCCEEDED"]
  /\ run' = Idle
-----------------------------------------------------------------------------
(* preflight and awaitGates, which Run skips without an approval gate.      *)

(* Freeze.Active.                                                          *)
Frozen == freeze.on /\ now <= freeze.until

\* checkPromotion.
SucceededUpstream(version) == version \in Range(tested)

\* Mutant: the promotion is left to the handler that resolved the version.
MayDeployUnpromoted(r) ==
  r.rollback \/ /\ live # r.version
                /\ BudgetLeft(rows, r.version, now - Day, env.rollback.max)

\* What preflight asks of a row besides the freeze.
MayDeploy(r) ==
  r.rollback \/ /\ live # r.version
                /\ BudgetLeft(rows, r.version, now - Day, env.rollback.max)
                /\ env.promoteFrom => SucceededUpstream(r.version)

(* preflight; the provider may fail to say what is live.                   *)
Preflight ==
  /\ run.pc = "preflight"
  /\ \/ (Frozen \/ ~MayDeploy(This)) /\ Fail("blocked")
     \/ ~Frozen /\ Fail("error")
     \/ /\ ~Frozen /\ MayDeploy(This)
        /\ LET next == IF HasApproval(env) THEN "AWAIT_APPROVAL" ELSE "DEPLOYING" IN
           rows' = [rows EXCEPT ![run.row].passed = now, ![run.row].state = next]
        /\ run' = [run EXCEPT !.pc = IF HasApproval(env) THEN "gates" ELSE "deploy",
                              !.gate = 1]
  /\ UNCHANGED <<now, api, consent, world, live, did, verifyVars>>

ThisGate == env.gates[run.gate]

\* On to the next gate, or out of the last one; `asked` is when each was passed.
PassGate ==
  IF run.gate = Len(env.gates)
    THEN /\ run' = [run EXCEPT !.pc = "deploy", !.asked = Append(@, now)]
         /\ rows' = [rows EXCEPT ![run.row].state = "DEPLOYING"]
    ELSE /\ run' = [run EXCEPT !.gate = @ + 1, !.asked = Append(@, now)]
         /\ UNCHANGED rows

\* Mutant: a recorded approval is valid however late it was given.
ApprovalIsValidLate(i, g, user, at) ==
  /\ Can(user, "deploy:approve", env.name)
  /\ HoldsAnyRole(user, g.roles)
  /\ g.peer \/ env.peer => rows[i].by # user

(* ApprovalIsValid.                                                        *)
ApprovalIsValid(i, g, user, at) ==
  /\ Can(user, "deploy:approve", env.name)
  /\ HoldsAnyRole(user, g.roles)
  /\ g.peer \/ env.peer => rows[i].by # user
  /\ at <= rows[i].created + g.ttl

AtGate(type) == run.pc = "gates" /\ ThisGate.type = type
AwaitFrame == UNCHANGED <<now, api, consent, world, live, did, verifyVars>>

\* checkSchedule.
CheckSchedule ==
  /\ AtGate("schedule")
  /\ IF Denied(ThisGate, now, Day) THEN Fail("blocked") ELSE PassGate
  /\ AwaitFrame

CheckFreeze ==
  /\ AtGate("freeze_window")
  /\ IF Frozen THEN Fail("blocked") ELSE PassGate
  /\ AwaitFrame

(* waitForApproval: one look at the approvals, then one at the clock, then *)
(* a sleep of two seconds, one unit of time.                               *)
ReadApprovals ==
  /\ AtGate("approval")
  /\ IF \E a \in approvals : a.row = run.row /\ ApprovalIsValid(run.row, ThisGate, a.user, a.at)
       THEN PassGate
       ELSE run' = [run EXCEPT !.pc = "clock"] /\ UNCHANGED rows
  /\ AwaitFrame

ReadClock ==
  /\ run.pc = "clock"
  /\ IF now >= This.created + ThisGate.ttl THEN Fail("blocked")
     ELSE run' = [run EXCEPT !.pc = "asleep", !.wake = now + 1] /\ UNCHANGED rows
  /\ AwaitFrame

WakeUp ==
  /\ run.pc = "asleep" /\ now >= run.wake
  /\ run' = [run EXCEPT !.pc = "gates"]
  /\ UNCHANGED rows
  /\ AwaitFrame
-----------------------------------------------------------------------------
(* deploy, verify and the rollback.                                        *)

\* The provider is asked for a version; it may fail, with or without an effect.
Ask(version, auto) ==
  /\ live' \in {live, version}
  /\ did' = did \cup {[row |-> run.row, version |-> version, auto |-> auto,
                       asked |-> run.asked, at |-> now,
                       frozen |-> IF Frozen THEN freeze.since ELSE now]}

\* On to the next bake.
BakeNext ==
  \E i \in NextBake(env, run.bake) :
    /\ run' = [run EXCEPT !.pc = "verify", !.bake = i]
    /\ StartBake(BakeWindow(env, i))

Deploy ==
  /\ run.pc = "deploy"
  /\ Ask(This.version, FALSE)
  /\ \/ Fail("error") /\ UNCHANGED verifyVars
     \/ /\ live' = This.version
        /\ IF NextBake(env, 0) = {}
             THEN Succeed /\ UNCHANGED verifyVars
             ELSE rows' = [rows EXCEPT ![run.row].state = "VERIFYING"] /\ BakeNext
  /\ UNCHANGED <<now, api, consent, world>>

VerifyFrame == UNCHANGED <<now, api, consent, world, live, did>>

(* Verify.                                                                 *)
Bake ==
  /\ run.pc = "verify"
  /\ TakeSample(env.verify) \/ EndOfBake(env.verify)
  /\ UNCHANGED <<rows, run>>
  /\ VerifyFrame

\* runCanary shifts traffic before its next bake, or before it ends.
ShiftFollows ==
  /\ env.strategy.type = "canary"
  /\ \E j \in DOMAIN env.strategy.steps :
       /\ j > run.bake /\ Set(env.strategy.steps[j].weight)
       /\ \A i \in NextBake(env, run.bake) : j < i

(* actOnVerdict: the next bake of a canary, unless the provider fails to   *)
(* shift the traffic, or the end; PROMOTING has no work of its own.        *)
ActOnVerdict ==
  /\ run.pc = "verify" /\ verdict # "none"
  /\ \/ /\ verdict = "healthy" /\ NextBake(env, run.bake) # {}
        /\ BakeNext /\ UNCHANGED rows
     \/ /\ verdict = "healthy" /\ NextBake(env, run.bake) = {}
        /\ Succeed /\ StartBake(0)
     \/ /\ verdict = "unhealthy" \/ (verdict = "healthy" /\ ShiftFollows)
        /\ Fail("error") /\ StartBake(0)
     \/ /\ verdict \notin {"healthy", "unhealthy"}
        /\ Fail("inconclusive") /\ StartBake(0)
  /\ VerifyFrame

(* executeRollback.                                                        *)
Restore ==
  /\ run.pc = "restore"
  /\ Ask(rows[run.target].version, TRUE)
  /\ \/ End("ROLLBACK_FAILED")
     \/ live' = rows[run.target].version /\ End("ROLLED_BACK")
  /\ UNCHANGED <<now, api, consent, world, verifyVars>>
-----------------------------------------------------------------------------
(* Approvals, freezes, the upstream environment and time.                  *)

\* approvalGate: the handler knows the first one only.
ApprovalGate == SelectSeq(env.gates, LAMBDA g : g.type = "approval")[1]

(* approveDeployment: the check, at one reading of the clock.  It asks for *)
(* the user's permission, not for the token's scope nor the row's state.   *)
Approve(t, i) ==
  /\ approving = NoHandler
  /\ Authenticated(t) /\ HasApproval(env)
  /\ ApprovalIsValid(i, ApprovalGate, Tokens[t].user, now)
  /\ approving' = [row |-> i, user |-> Tokens[t].user]
  /\ UNCHANGED <<now, rows, api, run, approvals, world, live, did, verifyVars>>

(* RecordApproval, at another; a user's second approval changes nothing.   *)
RecordApproval ==
  /\ approving # NoHandler
  /\ approvals' =
       IF \E a \in approvals : a.row = approving.row /\ a.user = approving.user THEN approvals
       ELSE approvals \cup {[row |-> approving.row, user |-> approving.user, at |-> now]}
  /\ approving' = NoHandler
  /\ UNCHANGED <<now, rows, api, run, world, live, did, verifyVars>>

(* setFreeze, to freeze until a time or to lift; of a freeze that was      *)
(* lifted nothing else is read.                                            *)
SetFreeze(t) ==
  /\ Limit.freezes
  /\ Permitted(t, "deploy:freeze")
  /\ \/ \E until \in {now + 1, Limit.end} : freeze' = [on |-> TRUE, since |-> now, until |-> until]
     \/ freeze' = NotFrozen
  /\ UNCHANGED <<env, tested, now, rows, api, run, consent, live, did, verifyVars>>

\* The environment this one promotes from deploys a version successfully.
Upstream(version) ==
  /\ Len(tested) < Limit.tests
  /\ tested' = Append(tested, version)
  /\ UNCHANGED <<env, freeze, now, rows, api, run, consent, live, did, verifyVars>>

Tick ==
  /\ now < Limit.end
  /\ now' = now + 1
  /\ UNCHANGED <<rows, api, run, consent, world, live, did, verifyVars>>

Next ==
  \/ \E t \in DOMAIN Tokens : SetFreeze(t)
  \/ \E t \in DOMAIN Tokens, i \in DOMAIN rows : Approve(t, i)
  \/ \E r \in Requests[env.name] : Plan(r)
  \/ Create \/ RecordApproval \/ Tick
  \/ \E i \in starting : StartRun(i)
  \/ \E version \in DOMAIN Manifest : Upstream(version)
  \/ Preflight \/ CheckSchedule \/ CheckFreeze \/ ReadApprovals \/ ReadClock \/ WakeUp
  \/ Deploy \/ Bake \/ ActOnVerdict \/ Restore

Spec == Init /\ [][Next]_vars
-----------------------------------------------------------------------------
(* Properties.                                                             *)

PlaceInRun == {"idle", "preflight", "gates", "clock", "asleep", "deploy", "verify", "restore"}

(* Every variable has its type, and what one names, the other has: a       *)
(* request, an approval and a deploy are about a row there is, a row undoes*)
(* an older one, and a goroutine starts on a row that is PENDING.          *)
TypeOK ==
  /\ env \in Envs /\ Accepted(env) /\ now \in Start .. Limit.end
  /\ rows \in Seq(Rows) /\ \A i \in DOMAIN rows : rows[i].of \in 0 .. i - 1
  /\ \/ request = NoRequest
     \/ /\ request \in [kind : {"deploy", "promote", "rollback"}, version : Version,
                        by : STRING, of : Nat, named : BOOLEAN]
        /\ request.of \in 0 .. Len(rows)
  /\ starting \subseteq {i \in DOMAIN rows : rows[i].state = "PENDING"}
  /\ run \in [pc : PlaceInRun, row : Nat, gate : Nat, asked : Seq(Int), wake : Int,
              bake : Nat, target : Nat]
  /\ approvals \subseteq [row : DOMAIN rows, user : DOMAIN Identities, at : Int]
  /\ approving = NoHandler \/ approving \in [row : DOMAIN rows, user : DOMAIN Identities]
  /\ freeze \in [on : BOOLEAN, since : Int, until : Int]
  /\ live \in Version \cup {NoVersion}
  /\ tested \in Seq(Version)
  /\ did \subseteq [row : DOMAIN rows, version : Version, auto : BOOLEAN,
                   asked : Seq(Int), at : Int, frozen : Int]

(* verify.go: the verdict on every bake follows from its samples.          *)
VerdictIsEvidence == VerdictFollowsEvidence(env.verify)

\* A window as the file writes it, in one piece even if it goes past midnight.
InWindow(w, t) ==
  (t - (w.weekday * Day + w.start)) % (7 * Day) <= (w.end - w.start) % Day

ConsentedTo(i, g) ==
  \E a \in approvals :
    /\ a.row = i /\ a.at <= rows[i].created + g.ttl
    /\ Can(a.user, "deploy:approve", env.name) /\ HoldsAnyRole(a.user, g.roles)
    /\ g.peer \/ env.peer => a.user # rows[i].by

GateHeld(i, g, asked) ==
  /\ g.type = "approval" => ConsentedTo(i, g)
  /\ g.type = "schedule" => \A w \in g.deny : ~InWindow(w, asked)

(* Section 10.3: in an environment that has an approval gate, nothing goes *)
(* out without the approval of somebody who may give it, given while the   *)
(* request was open (the handler that checks an approval records it at a   *)
(* later reading of the clock), nor if the schedule, asked, denied it.     *)
(* And in every environment, a freeze that was there before the request is *)
(* not there any more when the deploy goes out.                            *)
GatesHeld ==
  \A d \in did : ~d.auto =>
    /\ d.frozen >= rows[d.row].created
    /\ HasApproval(env) => \A k \in DOMAIN env.gates : GateHeld(d.row, env.gates[k], d.asked[k])

RollsBack(d) == d.auto \/ (rows[d.row].rollback /\ ~rows[d.row].named)
RolledBackRow(d) == IF d.auto THEN d.row ELSE rows[d.row].of

(* Section 8.3, "when rollback is unsafe, the tool must refuse": a rollback*)
(* goes to a version that succeeded here before the row it undoes, and one *)
(* that the manifest of that row's version allows.  A manual one is        *)
(* planned when it is asked for and goes out after other deployments;      *)
(* `--to` replaces the version after the checks, and is excepted.  Forced  *)
(* rollbacks are not: the documents say that --force overrides a refusal,  *)
(* and in api.go it does not (MayRollBack).                                *)
RollbackIsSafe ==
  \A d \in did : RollsBack(d) =>
    LET i == RolledBackRow(d) IN
    /\ \E j \in 1 .. i - 1 : rows[j].state = "SUCCEEDED" /\ rows[j].version = d.version
    /\ Checked => LET m == Manifest[rows[i].version] IN
         /\ m.known
         /\ m.floor # NoVersion => SameVersion(m.floor, d.version) \/ VersionLess(m.floor, d.version)
         /\ m.irreversible /\ Manifest[d.version].known =>
              Manifest[d.version].schema = m.schema

TestedOrNamed(version) ==
  \/ version \in Range(tested)
  \/ \E i \in DOMAIN rows : rows[i].named /\ rows[i].version = version

(* Section 13, build once, deploy many: with promote_from, what runs here  *)
(* succeeded upstream, through failed deploys and rollbacks too, unless a  *)
(* rollback named its version itself.                                      *)
OnlyTestedVersionsLive == env.promoteFrom /\ live # NoVersion => TestedOrNamed(live)

(* Section 7.4, "a version has been deployed and rolled back twice, stop   *)
(* trying": of the deployments of a version that went out, at most         *)
(* max_attempts were taken back in a day, whatever the order in which      *)
(* their rows were made, ran and ended.                                    *)
BudgetHolds ==
  \A d \in did : ~d.auto /\ ~rows[d.row].rollback =>
    LET TakenBack(i) ==
          /\ rows[i].state \in {"ROLLED_BACK", "ROLLBACK_FAILED"}
          /\ \E e \in did : e.row = i /\ ~e.auto /\ e.version = d.version
          /\ ~rows[i].rollback
          /\ rows[i].created >= rows[d.row].passed - Day
          /\ rows[i].passed <= rows[d.row].passed
    IN Cardinality({i \in DOMAIN rows : TakenBack(i)}) <= env.rollback.max

(* executor.go:350, "awaitGates blocks until every gate is satisfied": a   *)
(* deployment does not go out while a window of the schedule denies it.    *)
EveryGateIsAsked ==
  \A d \in did : ~d.auto =>
    \A g \in Range(env.gates) : g.type = "schedule" =>
      \A w \in g.deny : ~(InWindow(w, rows[d.row].passed) /\ InWindow(w, d.at))
=============================================================================
