# A TLA+ verification of the deployment orchestrator

`orchd` is a server that deploys application versions to environments. It keeps
its state in an append-only journal, runs one goroutine per deployment, fences
those goroutines with leases, verifies what it deployed, rolls back what turned
out bad, and reconciles what a crash interrupted. This directory holds TLA+
modules of the server, the TLC instances that check them, and TLAPS proofs, for
all values of the constants, of the safety properties that those instances check:
leases, executors, the journal and the store, the event bus, notifications,
verification and deployments. Paths are relative to `src/v1/`.

Contents: 1 inventory, 2 modules, 3 runs, 4 bounds, 5 fairness, 6 proofs,
7 divergences, 8 not modelled, 9 plan.

## 1. Inventory

| Component | State | Operations | Interacts with | What is hard | What makes it correct |
|---|---|---|---|---|---|
| State machine `store/model.go` | none (tables) | `CanTransition`, `IsTerminal`, `RequiresLease` | every row write | a legal sequence of calls that asks for an illegal move | absorbing states are final; failure paths only ask for legal moves |
| Leases `store/store.go` | lease row per resource: holder, fence, expiry | `AcquireLease`, `RenewLease`, `ReleaseLease`, `BreakLease`, `checkFenceLocked` | executors, aborts, reconciler | zombies, late heartbeats, breaks by resource name | tokens unique; only the newest grant writes; expiry is final |
| Deployment rows `store/store.go` | row per deployment, idempotency keys | `CreateDeployment`, `Transition`, `UpdateDeployment`, `LastSuccessfulBefore`, `NonTerminalDeployments` | journal, audit and outbox in one transaction | whole-row writes of stale copies | transitions are compare-and-set under a fence |
| Executor `engine/executor.go` | local variables of `Run`, heartbeat goroutine, cancel function | `Run`, `heartbeat`, `preflight`, `awaitGates`, `deploy`, `verify`, `runCanary`, `handleFailure`, `executeRollback`, `Abort` | leases, rows, provider, verifier | a lease lost between two calls; abort against run; the failure path itself failing | effects journalled before they happen; outcomes truthful; lease given back; one rollback at most |
| Reconciliation `engine/reconcile.go` | none between runs | `Reconcile` at startup | rows, leases, `provider.Current` | crash in the middle; scripts that outlive the server | only legal, fenced moves; nothing is guessed; nothing is left wedged |
| Server and runner `cmd/orchd/main.go` | set of running goroutines | start, reconcile, serve, shutdown | all | create committed but no run started; shutdown deadline | every created deployment is run or reconciled |
| Deploy scripts `provider/exec` | what is live | `Deploy`, `Rollback`, `ShiftTraffic`, `Current` | executor, reconciler | takes effect before it returns; survives the caller | a timeout bounds each call |
| Journal `store/journal.go` | file, sequence number | `appendGroup`, `replay` | store | torn groups, failed writes and syncs | replay yields exactly the committed groups |
| Audit chain `store/store.go` | last hash | append in a transaction, `VerifyAudit` | all writers | time sampled outside the lock | verification succeeds on what the store wrote |
| Outbox and Slack notifier `engine/outbox.go`, `notify/slack` | entries with attempts and due time | drain, mark delivered, backoff | rows, Slack | crash between send and mark; a head that keeps failing; reordering | at least once; nothing starves; no row update is lost |
| Event bus `dashboard/sse.go` | ring of 500 events, subscriber channels of 64 | `Publish`, `Subscribe`, `Since`, stream | executor, browsers | publish between subscribe and replay; full channels | each event once and in order, or a gap the client can see |
| Verification loop `engine/verify.go` | samples, counters | `Verify`, `evaluate` | verifier | missing samples, deadline, few samples | inconclusive is never healthy nor unhealthy |
| HTTP API `api/api.go` | none of its own | create, rollback, promote, abort, approve, freeze | rows, runner | concurrent retries, crash after commit | one deployment per idempotency key |
| Approvals, freezes, gates | approval and freeze rows | `awaitGates`, approve, freeze | executor, API | expiry against polling, freeze read twice | no self-approval, none after expiry |
| Rollback planning `engine/rollback.go` | none | `PlanRollback`, `versionLess`, circuit breaker | rows, manifests | version order, migration floor, ping-pong of rollbacks | target older, successful, above the floor |
| Tokens `auth/auth.go` | token file | issue, revoke, authorize | API | several checks of one request at different times | scopes and expiry respected |
| Configuration loader `config/load.go` | none after the start | decode, validate | everything | a policy that is accepted and cannot do what it says | what is accepted can be enforced |
| ULIDs `ulid/ulid.go` | last time and entropy | `New` | rows | clock going back, overflow in a millisecond | ids strictly increase |
| YAML syntax, CLI, metrics, redaction, pages, Slack blocks, transports, manifests | none that matters here | parsing, formatting, I/O | | | not about states and steps |

**How they interact.** The API commits a row (`CreateDeployment`) and the
runner spawns `Run`. `Run` acquires the lease of `app/env`, starts the
heartbeat, and for each state of the machine first persists the transition and
then does the side effect. A heartbeat that cannot renew cancels the context of
the run. An error goes to `handleFailure`, on a context that is never
cancelled. `Abort` runs in the goroutine of the HTTP request and shares no
memory with the run it aborts: all they share is the store. After a crash only
the journal, the provider and scripts still running remain; `Reconcile` runs
once, before the server listens.

The store serialises its operations with one mutex, so an operation of the
store is one atomic step and everything interesting is in the interleaving of
whole operations. Provider calls are not atomic: they start, take effect some
time later, and return later still.

`PROJECT.json` lists every hazard with its line and the property that covers it.

## 2. Modules

| Module | Models | Correspondence |
|---|---|---|
| `StateMachine` | `store/model.go` | `State`, `TerminalStates`, `WorkStates`, `AllowedTransitions`, `CanTransition` are the tables of the code; used by `Engine`, `Notifications`, `Deployments` |
| `Leases` | the lease operations for one resource, with a clock | `lease` is the row, `token[p]` the fence a process got from its last acquire and never forgets, `wrote` (history) the last guarded write. `AcquireOwn`/`AcquireFree`, `Renew`, `Release`, `Break`, `Write` are the store's functions, `Tick` the clock |
| `Engine` | executors, heartbeats, aborts, the notifier's writes, crash, restart, reconciliation, provider | below |
| `Lifecycle` | nothing in the code: the promise | deployments move along the machine; working states are entered and left by the owner, under the newest fence |
| `Journal` | `store/journal.go` | pure: what `appendGroup` puts into a file, whole or in part, and what `replay` reads out of it |
| `Store` | transactions, idempotent creates, audit chain, start (`store/store.go`, `cmd/orchd/main.go`) | below |
| `EventBus` | `dashboard/sse.go` and one browser | below |
| `Notifications` | transition, outbox, worker, Slack notifier; composes `EventBus` | below |
| `Config` | `config/schema.go`, the decoders of `config/load.go` | pure: `Accepted(e)` is "the server starts with this environment", the rest are the questions the engine asks of the file |
| `Rollbacks` | `engine/rollback.go` and the queries it makes | pure: `PlanRollback`, `FloorHolds`, `VersionLess`, `CountRollbacks`, `BudgetLeft` |
| `Verification` | `engine/verify.go` | `check` holds the counters of `Verify`, `verdict` its result, `evidence` (history) what each sample said |
| `Deployments` | the API's handlers and a run with its gates, policies and plans; composes the three modules above | below |
| `EngineInvariants`, `StoreInvariants`, `DeploymentsInvariants` | nothing in the code: the inductive invariants of the modules they are named after, which runs check and proofs use | section 6 |
| `LeasesProofs`, `EngineProofs`, `EngineSafetyProofs`, `StoreProofs`, `EventBusProofs`, `NotificationsProofs`, `VerificationProofs`, `DeploymentsProofs` | the proofs about the modules they are named after | section 6 |
| `MCLeases`, `MCEngine`, `MCStore`, `MCNotifications`, `MCDeployments` | constants of the TLC instances | |

`Leases` looks at one lease in full detail (expiry times, renewals, zombies of
any age). `Engine` uses the same operations with time reduced to "live or run
out", so that the code around the lease can be explored; `Engine` and
`StateMachine` together implement `Lifecycle` by
`owner <- lease.holder, fence <- lease.fence`.

**Engine.** One resource, deployments `1 .. N` in creation order.
`state` and `previous` are columns of the rows; `lease` is the lease row;
`ex[d]` is the executor goroutine of `d` with its locals: where it is (`pc`),
the state in its copy of the row (`at`), its fence, whether its context was
cancelled (`lost`), the kind of error (`cause`), what it is about to record
(`goal`), the rollback target (`plan`), the canary step, and whether the
provider call in flight has taken effect (`landed`). `ab[d]` is an aborting
request, `rec` the reconciler, `note` the Slack notifier and the copy of the row
it will save, `live` what the provider runs, `orphans` scripts that survived a
crash. `did`, `wrote`, `oldFence` and `overwritten` are history variables that no
action reads; `left` counts down the bounds.

| Code | Actions |
|---|---|
| `CreateDeployment`, runner `start` | `Create` |
| head of `Run`, `AcquireLease` | `RunRead`, `RunAcquire` |
| the loop of `Run`, one transition before each step | `Enter` (accepted or refused) |
| `preflight` | `PreflightBlocks`, `PreflightFails`, `PreflightReads`, `PreflightRecords` |
| `awaitGates` | `GatesPass`, `GatesBlock`, `GatesCancelled` |
| `deploy`, the provider | `CallDeploy`, `DeployLands`, `DeployReturns`, `DeployFails`, `ShiftReturns`, `ShiftFails` |
| `verify`, `runCanary` | `Healthy`, `Unhealthy`, `Inconclusive`, `BakeCancelled`, `CanaryShifts`, `CanaryEnds` |
| `promote` | `Promote` |
| `handleFailure`, `recordError` | `FailRead`, `FailRecord`, `FailWithoutRollback`, `FailPlansRollback`, `FailRefusesRollback`, `Settle` |
| `executeRollback` | `CallRollback`, `RollbackLands`, `RollbackReturns`, `RollbackFails`, `UnshiftReturns`, `UnshiftFails`, `Settle` |
| deferred `ReleaseLease` | `RunRelease` |
| `heartbeat` | `HeartbeatFails`; a successful renewal is "the lease does not run out while the run holds it" (`Renewing`) |
| `Abort` | `AbortRead`, `AbortInspect`, `AbortBreak`, `AbortAcquire`, `AbortMove`, `AbortRelease`, one per store call |
| `Notifier.Notify`, first message of a deployment | `NotifierReads`, then, an HTTP call later, `NotifierSaves` (accepted or refused) |
| `Reconcile` | `Restart`, `ReconcileSkips`, `ReconcileDecides`, `ReconcileAcquires`, `ReconcileGivesUp` (to UNKNOWN), `ReconcileMoves`, `ReconcileReleases`, `Serve` |
| the process dying | `Crash`, `OrphanLands` |
| time | `LeaseRunsOut`, `LeaseOverrun` (a process that stalls past its lease and goes on) |
| somebody deploying by hand | `Drift` |

The answers of the environment (an approval, a freeze, the circuit breaker, the
verdict of a bake, a provider error, the migration floor) are nondeterministic
choices: every property holds whatever they are.

Four writers share a row without a lock between their reads and their writes:
the run, an abort, the reconciler and the notifier. Moves are compare-and-set
(`MayMove`); the whole-row writes of the run (`UpdateRow`) and of the notifier
(`NotifierSaves`) are refused only when the *state* differs. The column that
matters is `previous`, which preflight adds while the row stays in `PREFLIGHT`:
`overwritten` names the deployments for which the notifier put an older row back.
The executor goes on with its own copy (`transition` copies the row inside the
store, and `Run` sets the state of its copy, `executor.go:804`), so it is the
row, not the provider call, that loses the version.

**Store over Journal.** `file` is the journal, an array of items: whole records,
commit markers, and torn records. A torn record is a header that announces more
bytes than follow it; it carries the number of items that would fill it, which
is all `replay` can tell of it. `Reading(file)` is the loop of `replay`: what was
read at each position, as a recursive function. `index` is the sequence of
records applied to
the maps of the store, and every lookup is defined from it. A transaction
(`Committed`, `AppendFailed`, `DiedAppending`) appends `Group` and, only when
write and fsync succeed, applies it. `CreateNew`/`CreateExisting` is
`CreateDeployment`; `ReadClock` then `RecordEvent` is any transaction whose
caller dated it before it had the mutex (transitions, approvals, freezes).
`Start` is `Open` (replay, truncate) followed by `VerifyAudit`, as `serve` calls
them; a server that refuses to start stays refused.

**Notifications over EventBus.** `row` holds the two columns that matter, the
state and the Slack timestamp; `ex` is the run with its copy of the row;
`outbox` the entries in order. `Advance`, `GiveUp` are `transitionAndNotify`;
`SaveColumn`, `RecordError` the whole-row writes of the run (a failure is recorded
before the move it leads to, a rollback included, and reconciliation records one
only on the way to UNKNOWN: `Exits`). The worker is
`StartPass` (`DueOutbox`; the batch is a set of entries, taken in their order),
`NotifyDashboard`, `NotifySlack`, then
`SlackAnswers` or `SlackFails` (with or without effect), `SaveTS`, then
`MarkDelivered` or `MarkFailed`. `NotifyDashboard` is `Publish` of `EventBus`,
where the browser does `Subscribe`, `Replay`, `Receive`, `Disconnect`.
`Restart` keeps rows, outbox and Slack, empties the bus and turns the run into
an orphan that reconciliation settles before the worker starts. The deployment
follows `Course`, a part of the state machine that the instance chooses.

**Deployments.** `env` is the configuration, chosen among the accepted ones;
`rows` are the rows of one target by id. `Plan` is `createDeployment` up to the
row, `Create` the row and the start of its goroutine, `StartRun` that goroutine
reaching the lease: three steps, because other requests and runs come between
them. `Preflight`, `CheckSchedule`, `CheckFreeze`, `ReadApprovals`,
`ReadClock`, `WakeUp` are `preflight` and `awaitGates` (the last three are one
turn of the polling loop), `Deploy`, `Bake`, `ActOnVerdict`, `Restore` the rest
of the run, a failing shift of a canary's traffic included; `run.asked` (history)
has the time at which each gate was passed. `Approve` and `RecordApproval` are
the two halves of `approveDeployment`, which read the clock once each; `SetFreeze` is `setFreeze`;
`Upstream` is a success in the environment promoted from. A refused request has
no step: it changes the audit log only. The lease is "one run at a time" and
`PROMOTING` has no work of its own; `Engine` has both in full, and leaves the
answers open that `Deployments` computes.

Operators whose comment begins with "Mutant" are not used by any specification.
Each is a plausible bug in the definition that follows it, and is there to show
that the properties tell the code from that bug: with the mutant in the place of
the definition, TLC finds the property violated (`PROJECT.json`, "mutants").

## 3. Runs

| Run | Instance | What it shows |
|---|---|---|
| `leases` (`MCLeases.cfg`) | 2 deployments, 3 processes (an executor and an abort of the first, an executor of the second), TTL 2, clock to 5, 4 grants; 17,310 states | `TokensAreUnique`, `NewestGrantWrites`, `WritesInFenceOrder`: fencing works against zombies of any age, across releases, breaks and expiries. `NoTakeover`, `NoResurrection`: a live lease is never taken from its holder directly, an expired one is never renewed |
| `engine_rolling` | 2 rolling deployments with automatic rollback, 1 abort, 1 crash; 1.48 M states | `TruthfulOutcome`, `RollbackOnlyWhenMeant`, `LeaseReturned`, and `ImplementsLifecycle`, under aborts and crashes between any two steps |
| `engine_canary` | a canary (shift, verify, shift) with an approval gate, then a manual rollback to the baseline; 1 first message of the notifier, 1 crash, 1 stall past the lease; 1.93 M states | `SafetyInv`, the inductive invariant of section 6, `EffectsAreJournalled`, `TruthfulOutcome`, `RollbackOnlyWhenMeant`, with a notifier that writes old rows back, the manual rollback and lost leases |
| `engine_recovery` | blue-green with an approval gate, then a manual rollback; 2 crashes, 1 version changed by hand; 647 k states | `LeaseReturned`, `ImplementsLifecycle` when reconciliation is itself interrupted and repeated, and finds a version that nobody deployed |
| `engine_live` | the same two deployments; 1 crash, 1 stall; fairness; 173 k states | `RunReturns`: every run returns, also one whose approval never comes. `GrantEnds`: no deployment keeps the resource for ever, not even one that died with the server. `ImplementsLifecycle`, with a process that goes on after its lease ran out |
| `store` | 1 key, 2 callers, 3 transactions, 2 faults (failed write or fsync), 2 crashes, time to 1, torn records that miss 1, 4 or 20 items; 381 k states | `IndInv`, the inductive invariant of section 6. `GroupsAreWhole`: replay never yields half a transaction, whatever lies between groups. `CleanAckSurvives`, `IndexIsTheDisk`: what was acknowledged on an unspoiled file stays, and memory agrees with the file. `SameAnswerPerKey`: one deployment per key through retries, crashes and failed commits. `RefusalIsExplained`: exactly when the server refuses its own journal |
| `notifications` | 1 deployment of at most four states before it ends (it fails, with a rollback or without, or is reconciled), batch of 2, 1 failed Slack call, 1 restart; a browser with 2 connections, history 2, channel 1; fairness; 731 k states | `IndInv`, the inductive invariant of section 6. `RowFollowsRun`, `DeliveredIsShown`, `ExtraMessagesExplained`, `BackwardsOnlyByRetry`: what the notifier's stale whole-row write, the throttle, retries and restarts can and cannot do. `TwiceOnlyInOverlap`, `LossIsExplained`: the browser's stream. `AllDelivered`: no entry starves |
| `deployment` | the four scenarios of section 4; 546 k states | `IndInv`, the inductive invariant of section 6, `VerdictIsEvidence`, `GatesHeld`, `RollbackIsSafe`, `OnlyTestedVersionsLive`, `BudgetHolds` |
| `run_ends_terminal`, `never_wedged`, `one_deploy`, `gates_enforced` | small instances | the four divergences found as counterexamples, section 7 |

Properties in words are above their definitions. In short:
`EffectsAreJournalled` — the provider is never called for a deployment whose row
does not say so, or without what to go back to, which the row keeps unless the
notifier had read it before preflight recorded it; `TruthfulOutcome` — `SUCCEEDED` and
`ROLLED_BACK` claim only what happened; `RollbackOnlyWhenMeant` — a failing
manual rollback, an inconclusive bake, or a policy without automatic rollback
never leads to a rollback, not even when the lease is lost while the failure is
handled; `LeaseReturned` — whichever way a run ends, a live lease granted since
the server started has a process that will return it; `GatesHeld` — with an
approval gate, nothing goes out without somebody's valid and timely consent or
against the schedule, and never through a freeze older than the request;
`RollbackIsSafe` — automatic and manual rollbacks go to a version that succeeded
here before, above the floor of what they undo; `OnlyTestedVersionsLive` — with
`promote_from`, what runs succeeded upstream; `BudgetHolds` — a version that was
taken back as often in a day as the policy allows is not deployed once more.

Several properties say "only when" instead of "never": `ExtraMessagesExplained`,
`TwiceOnlyInOverlap`, `LossIsExplained`, `RefusalIsExplained`, `CleanAckSurvives`,
and `EffectsAreJournalled` about the row's previous version. There the code does fail its ideal (section 7), and the property is the exact
condition: a history variable records the known cause, and TLC finds no other.

All configurations turn the deadlock check off. The
modelled systems do stop: the deployments have run, the bounds on requests,
aborts, crashes, faults and time are used up and nothing is left to do (or the
server refuses to start). That no *process* is stuck is what
`LeaseReturned`, `RunReturns` and `GrantEnds` say.

## 4. Bounds

* **Two deployments** are the least with a competition for the lease, a
  "previous success", and a break that hits somebody else's lease; every
  property relates at most two deployments. The proofs cover every N.
* **One abort, one crash, one stall, one drift**, each at every point of every
  behaviour, in the combinations the runs name. Two crashes in
  `engine_recovery`: the second may hit the reconciliation of the first, the
  runs started after it, or the time when the dead server's lease is still live.
* **One message** (`MaxPosts`), in `engine_canary` only: the worker is one
  goroutine, so there is one copy at a time, and a deployment has a second first
  message only when its timestamp was lost, too. The proofs have any number.
* **Canary steps** shift, verify, shift: a step before, a bake in the middle, a
  step after.
* **Leases**: TTL 2 has a renewal strictly inside the lifetime and one at its
  end; time 5 fits two whole lifetimes and a late zombie; 4 grants let a token
  be outlived twice.
* **Store**: three transactions are a failed one, one behind its rest and one
  after a restart; two faults allow a failed write and a failed fsync in one
  behaviour; two crashes a restart of a restarted server. A torn record may miss
  one item (the next record fills it), four (the next group does not), or twenty
  (no file of the instance does). Two callers and two instants are the least for
  times out of order.
* **Notifications**: four states, two of which save a column, give eight entries
  against a batch of two, so an entry waits behind others for several passes.
  History 2 and channel 1 overflow at once. The browser is connected only where
  Slack is not configured: the two consumers share nothing but the outbox.
* **Deployments**: four scenarios, each with the rest of the policy quiet.
  *gated*: a schedule with a window past midnight, a freeze gate and an approval
  of two roles with the peer rule, and an environment with the gates in the
  other order; five tokens (one expires, one of a disabled user, one scoped to
  another environment), freezes at any moment, and three instants so that a request
  can expire while its run sleeps. *baked*: three rolling policies and a canary
  with two bakes, one of which has its own window, against verifiers that answer
  good, bad, an error, or late; a fourth policy, with less room than samples, is
  there for the loader to reject. *lively*: a history of two successes and a
  rollback a day old, versions 9.1, 9.2 (irreversible), 10.0 (floor 9.2) and one
  without a manifest, two more rows, one attempt a day, and one step of the clock
  over the 24 h edge. *promoted*: three more rows, two more upstream successes,
  no manifests, and a rollback that names its version. A day has four units.
* Bounds appear in guards (`MaxFence`, `MaxTime`, `MaxTx`, `Limit`, `left`), never
  in state constraints, so the liveness checks are of complete behaviours.

## 5. Fairness

`FairSpec` assumes weak fairness of each deployment's executor, heartbeat and
abort, of restart, of reconciliation and of the expiry of a lease nobody
renews. The code justifies it: goroutines are scheduled; every provider call
runs under a timeout (10 minutes by default, `provider/exec/exec.go:70`), so it
returns; a dead server is started again by its supervisor; the expiry of the
lease is a deadline in the row. The wait for an approval ends because requests expire
(`GatesBlock`). No fairness is assumed of anything a person or the outside
world does: creating, approving, aborting, crashing, drifting, a surviving
script landing, a process stalling.

`Notifications` assumes weak fairness of the run (`RunNext`), of the outbox
worker (`WorkerNext`) and of time (`Tick`): two goroutines of a running server
and a clock. `AllDelivered` needs of Slack only that its failures are finite
(`MaxSlackFaults`); the worker retries for ever, because attempts have no cap.
`Store` and `Deployments` state safety only, without fairness.

## 6. Proofs

`LeasesProofs` (any holders, processes, TTL and bounds; assumptions
`HolderAssumption`, `TimeAssumption`):

* `LeaseTypes`: `Spec => []TypeOK`.
* `FenceInvariant`: `Spec => []FenceInv`. `TokensAreUnique` is not inductive: a
  state in which a process holds a token newer than the row satisfies it and
  leads to a clash at the next grant. `FenceInv` adds that no token or accepted
  write is newer than the row, and that the newest token is the holder's.
* `UniqueTokens`, `Fencing`, `FenceOrder`, `LiveLeaseStays`, `ExpiryIsFinal`: the
  properties of the run, from that invariant.

`EngineProofs` (any N, strategy, canary steps, policy and bounds; assumption
`EngineAssumption`):

* `Inductive`: `IndInv == TypeOK /\ PlanInv /\ FenceInv /\ ExistInv` is
  inductive. `TypeOK` alone is not: landing a rollback sets `live` to the
  executor's `plan`, which is a version only while a rollback is under way
  (`PlanInv`), and a move writes a state only for rows that exist (`ExistInv`).
  One lemma per group of actions with the same frame; the executor's steps
  reduce to "leaves a fine record".
* `EngineTypes`: `Spec => []TypeOK`.
* `Refinement`: `Spec => ImplementsLifecycle`. Every step is a step of
  `Lifecycle` or leaves its variables alone. A guarded move was accepted by the
  fence check, so the mover is the holder and its fence is at least the row's;
  `FenceInv` says it is at most the row's; hence the move is recorded under the
  newest fence. This is where a zombie that writes would show.

`EngineSafetyProofs` (same assumption; the invariant is in `EngineInvariants`):

* `SafetyInductive`: `Spec => []SafetyInv`, on top of `IndInv`. The four
  properties compare the row with the history; what they lack is where the
  executor is. `SafetyInv` says, for each deployment, what its executor must
  have done to be at its `pc` (`Advances`, `Undoes`), what the copy of the row
  it will write back contains (`KeepsPrevious`), and what of that survives in
  the row when the executor is gone (`RowHistory`), because aborts, crashes and
  reconciliation move the row without it. `NoticeInv` says the same of the copy
  that the notifier will save: read after preflight, it has what preflight
  recorded; and it never has a version that the executor's copy lacks, or a later
  write of the run would take that out of the row again. The step that is easy to get wrong is
  the failure path after a lost lease: the error that forbade a rollback is
  replaced, and only the missing fence stops the rollback (`Undoes`).
* `Journalled`, `Truthful`, `RollbackMeant`, `LeaseIsReturned`:
  `EffectsAreJournalled`, `TruthfulOutcome`, `RollbackOnlyWhenMeant`,
  `LeaseReturned`.

`StoreProofs` (any keys, callers, numbers of transactions, faults and crashes,
torn records that miss any number of items; assumptions `ReachAssumption` of
`Journal`, `StoreAssumption`):

* `StoreInductive`: `Spec => []IndInv`. The properties compare what a restart
  would read with what the server remembers, and `file` grows behind rests of
  failed writes that nobody sees. `FileInv`: the file of a running server ends
  with a whole group until a write of its process fails, and the number of a rest
  is never that of a later group, so no later marker commits it. `IndexInv`:
  what was reported as committed is the same in the index and on disk.
  `KeyInv`: so is the owner of a key, and it is what every create was answered.
  `FaultlessInv`: without a failed write only a crash cuts a group, at the end of
  the file.
* `HalfWrittenNeverRead`, `CommittedIsOnDisk`, `IndexIsRebuilt`,
  `OneDeploymentPerKey`, `RefusalsAreExplained`: `GroupsAreWhole`,
  `CleanAckSurvives`, `IndexIsTheDisk`, `SameAnswerPerKey`,
  `RefusalIsExplained`.
* The way there. What `replay` reads of a file needs an induction over its
  positions. The library's induction theorems have an operator for a parameter,
  so the facts are proved for the least position at which they would be false
  (`Least`, from `WFMin`; `FromLeast`): `ReadingIs` (the recursion defines a
  reading), `SamePrefix`, `ReadOneMore` (appending an item reads one more),
  `TruncatedReads` (what is cut off at start is not missed). With these,
  `WholeGroupRead`, `LostBehindRest` and `PartRead` say what a group adds to what
  is read, in full, behind a rest, or in part; `CommitEnds` says that a
  transaction ends in one of four ways (`Acked`, `Cut`, `Refused`, `Gone`), and
  each part of the invariant is kept by each of the four.

`EventBusProofs` (any history and channel size; assumption `BusAssumption`):

* `BusInductive`: `BusInv` is kept by every step of the bus, its browser and a
  restart. `IDsInv` orders what is in the history and in the channel;
  `TwiceInv` is why an event that is still to be sent and was seen must lie in
  an overlap; `LossInv` why nothing up to the id a browser would name is
  missing without an excuse.

`NotificationsProofs` (any course through the state machine, batch size,
subscription and number of faults; assumption `NotificationsAssumption`: the
notifiers are some of "dashboard" and "slack", each at most once, as
`main.go:185-200` builds the list):

* `NotificationsInductive`, `AlwaysIndInv`: `IndInv`. Entries are ordered as
  the state machine is (`EntriesInv`, by `Depth`); first attempts are made in
  that order, also when a pass takes part of the entries (`PassInv`); a throttled
  update was tried before (`ThrottleInv`); a timestamp in use is one of a
  message about this deployment, and the messages posted without one are
  counted (`PostInv`).
* `RowIsTheRuns`, `NothingIsCoalescedAway`, `MessagesAreCounted`,
  `TwiceIsExplained`, `NothingIsLostUnseen`, `OnlyRetriesGoBack`: the safety
  properties of the run.

`VerificationProofs` has the lemmas about one bake, for every policy that the
loader accepts: each sample keeps `CountersFollowEvidence` and
`VerdictFollowsEvidence`. The counters are those of the last samples in a row,
and while they are below the thresholds no earlier rows of bad samples reached
one either.

`DeploymentsProofs` (all environments, users, roles, tokens, manifests, requests
and schedules; the invariant is in `DeploymentsInvariants`). Assumptions:
`ConfigAssumption` (what the loader checks of roles and identities),
`RollbacksAssumption` (versions are sequences of parts), `DeploymentsAssumption`
(the history the server starts with is settled, and where `promote_from` asks
for it the versions that succeeded in it, and the live one, were tested
upstream). The last is a restriction: a file that adds `promote_from` to an
environment with a history starts from versions that were never promoted, which
a rollback may return to. The code cannot tell them, and the theorem does not
speak of such a start.

* `DeploymentsInductive`: `Spec => []IndInv`. `RunInv`: the run and its row say
  the same and only that row is past its gates. `SafeInv`: a rollback is planned
  long before it goes out, and stays allowed because a row that succeeded keeps
  its state and version for good (`SettledRowsStay`); the same for what preflight
  read of promotions (`TestedInv`). `GateInv`: the gates before the one a run
  waits at held when they were asked, and still do, since an approval is never
  taken back. `BudgetInv`: the count preflight read is below the limit, and no
  other run ends before this one does, so there is room for one more.
  `EvidenceInv`: the lemmas of `VerificationProofs` for the bake of this run.
* `RollbacksSafe`, `TestedIsLive`, `BudgetIsKept`, `VerdictsFollow`,
  `GatesAreHeld`: `RollbackIsSafe`, `OnlyTestedVersionsLive`, `BudgetHolds`,
  `VerdictIsEvidence`, `GatesHeld`.
* Lemmas worth citing: `VersionsCompare` (what `VersionLess` says of two
  versions, from its definition as a choice of the first part that differs),
  `NotDenied` (a schedule gate, which the loader splits at midnight, lets a time
  through only outside the window of the file), `PlanIsSafe` (what `PlanRollback`
  returns may be rolled back to).

Proofs corrected the models. `RollbackIsSafe` has to compare versions as the
code does (`SameVersion`): two spellings of one version are neither equal nor
less. An environment may have two schedule gates, asked hours apart, so a run
has one time per gate. The budget is still spoken for while a run restores
the old version. And the arms of the `CASE` by which `Journal` read an item
overlapped on a replay that had already stopped: `ReadItem` now asks for the
status first, as the code's `return` does.

Only model-checked are the liveness properties `RunReturns`, `GrantEnds` and
`AllDelivered`: fairness and ENABLED are out of the prover's reach. The four runs
of section 7 that expect a violation are counterexamples, which need no proof.
What the proofs do not say: the constants stand for the same abstractions as in
the runs (section 8), and each component is proved by itself.

## 7. Where the code and its documentation differ

Four disagreements are runs of their own; TLC finds the counterexample.

1. **`RunEndsTerminal`** — `engine/executor.go:126` says `Run` "drives one
   deployment to a terminal state". A preflight error that is not a refusal,
   with automatic rollback on, asks for `PREFLIGHT -> ROLLING_BACK`, which the
   state machine does not have. The error is dropped and the row stays in
   `PREFLIGHT` until a restart. (With two deployments it fails in a second way,
   which the run leaves out: a run that finds the lease taken returns at once,
   `executor.go:148`, and its row stays `PENDING` until a restart.)
2. **`NeverWedged`** — `README.md:37` says "A crash never leaves a deploy
   wedged". When the new version went live before the crash, reconciliation
   moves the row to `VERIFYING` "to resume at verification", but nothing starts
   an executor for it. After a quick restart the orphan's own unexpired lease
   makes reconciliation skip it, with the same effect.
3. **`OneDeployTouchesTarget`** — `README.md:38` says "Two deploys never touch
   one target at once". `Abort` frees the resource without waiting for the run,
   which learns of it at its next heartbeat; the next deployment calls the
   provider while the aborted call is in flight. What does hold is the fencing
   of the *rows* (`ImplementsLifecycle`).

4. **`EveryGateIsAsked`** — `engine/executor.go:350` says `awaitGates` "blocks
   until every gate is satisfied". `Run` skips it when no gate is an approval
   (`executor.go:181`), so in an environment with only a schedule and a freeze
   gate the schedule is never asked.

The others shaped a property or a comment of a model. They are behaviours of
the code that a reader of its documents would not expect.

*Store.* The time of an audit entry is read before the store's mutex, so two
entries may be appended in the other order, and at its next start the server
refuses its own chain (`main.go:134`) although nothing failed. After a failed
write the process goes on: what it acknowledges behind the rest of the failed
group can be lost at the next start (or make the journal unreadable), and after
a failed fsync the next entry follows the same entry as the one that failed, or
a key gets a second row. `RefusalIsExplained`, `CleanAckSurvives`,
`IndexIsTheDisk` and `SameAnswerPerKey` say that nothing else does this.

*Lost updates.* The notifier's first message is for `PREFLIGHT`; it reads the
row, posts, and saves the whole row as it read it (`bot.go:299-320`), which
`UpdateDeployment` accepts while the state is the same. When preflight recorded
`PreviousVersion` in between, the row loses it. The next whole-row write of the
run puts it back, from the copy the run kept and calls the provider with: that
of the handle (`executor.go:515`) or of the error (`executor.go:736`). After a
crash before that it is gone, and reconciliation says UNKNOWN where it would
have said FAILED (`reconcile.go:113`).
`EffectsAreJournalled` says that no other write loses it. The same save can put
back an older handle or error text, which no model has.

*Notifications.* The saves of the run (`preflight`, `deploy`, `recordError`)
write the `SlackTS` of their old copy back, so a second message is posted for
the same deployment without any fault. The throttle notes an update before
sending it: the first retry of a failed update is coalesced away and counts as
delivered, against "a state change always goes through" (`bot.go:334`). A retry
may take a message back to an earlier state. Shutdown drains the outbox before
it waits for the runs. The handler of Slack buttons is built and not used
(`main.go:202`).

*Event bus.* Ids are global and history is per topic, so a gap may be told where
no event of the topic was lost. `Stream` does not move `lastID` over the replay:
an event published between `Subscribe` and `Since` is written twice. An event
dropped for a full channel is never replayed on that connection. After a restart
ids begin anew, and a browser that names an old one silently misses events.

*Gates.* Schedule and freeze gates are asked once, also when hours of waiting
for an approval follow. Without a freeze gate a freeze is asked in preflight
only. Approvals: the handler checks at one time and records at another; it knows
the first approval gate only; it asks for the user's permission, not for the
token's scope nor the state of the row. The loader checks that somebody holds a
gate's role, not that this person may approve, nor the peer rule.

*Verification.* A bake can end healthy with its last samples bad, when no
threshold was reached. The window of a canary step is not validated against
`min_samples`, so such a step can only be inconclusive; `success_threshold` and
`max_inconclusive` are not validated at all.

*Rollbacks.* `--force` does not override a refusal. The migrations document
("Overriding", `orch rollback --force` is "audited ... with the refusal text"),
the remedy at `rollback.go:150` ("use --force") and the help of the CLI
(`deploy.go:81`, "override a refusal") say that it does. It lifts the budget
(`api.go:338`) and adds an audit entry; the refusal comes back all the same,
because `PlanRollback` returns no plan with it (`api.go:349-358`, "no target to
force toward"). So the forced rollbacks of the `deployment` run are as safe as
the others, and `RollbackIsSafe` holds of them because the documented override
does not exist. `orch rollback --to` replaces the version after the checks, which
were made for another one, although the comment says "naming a version is not a
way around them" (`api.go:361`); such a row skips the promotion check too.
Repeated manual rollbacks go back and forth between two versions: each success
is the newest one. The deployment rolled back (`currentDeployment`) may be a row
that never went live, one that was blocked, or a stuck `PENDING` one; the target
may be the version already live, or, after a `FAILED` deployment left another
version live, the version that fails now. `CountRollbacks` counts a failed
manual rollback against the version it restored, and a manual rollback of a
`SUCCEEDED` row not at all. `preflight` applies the budget to a deployment
without regard to the force that its message advises. Rows start in another
order than their ids (`main.go:323`), so "the newest success before this row"
may be one that ran later; this is why `RollbackIsSafe` and `BudgetHolds` are
stated without an order of runs. `store/model.go:138` says the version found live in preflight is "the only thing
a rollback can return to"; `PlanRollback` returns to the newest successful row
and does not look at it. A freeze blocks manual rollbacks, like any
deployment. A manual rollback refused by a gate stays in `AWAIT_APPROVAL`:
`ROLLBACK_FAILED` is not legal from there. `versionLess` is not transitive
(2 < 10 < 1a < 2), and `parseInt` overflows on long parts.

*Reconciliation.* A script that outlives the server can land after
reconciliation read the old version as live: the row says `FAILED`, "never took
effect", and the version is running. The code promises nothing about this.

## 8. Not modelled

Within the modelled components: errors of the store during a run, the steps and
health-sample tables (read by pages only), the provider's own `Abort` call,
output of scripts, layout of messages, keep-alives, metrics and logs. In
`Engine` a lease that expires and is renewed in time is not distinguished from
one never close to expiry; `Leases` has the clock. A graceful shutdown that
exceeds its 30 s is a crash; one that does not is a server in which every run
has returned. In `Deployments` there are no crashes, aborts or lost leases
(`Engine` has them), a deployment without a bake succeeds at once (`VERIFYING`
and `PROMOTING` would do nothing), no token is revoked and authentication is on, `checkPromotion` sees all upstream rows (the code reads the
newest 200), and idempotency keys and dry runs are left out (`Store` has the
keys). Token issue and revocation change a file that a running server does not
read. In `Notifications` there is no abort, reconciliation finds whatever it may
(`Engine` has what is live), and the row has two columns: a previous version that
the notifier overwrites is in `Engine`, a handle or an error text nowhere.

Not modelled at all: the YAML subset and strict decoding, defaults and error
texts of the loader; ULIDs (arithmetic on bytes under one mutex; rows are
numbered in order of creation instead); the CLI; metrics; redaction; HTML pages;
Slack message layout, signatures and HTTP transport; the HTTP verifier; manifest
files (a constant of `Rollbacks`). They are parsing, formatting and I/O, with no
protocol of their own.

## 9. Plan

The components of section 1 that have states and steps are modelled, and every
safety invariant and action property that a run checks is a theorem. Left:

1. **Joining the components.** `Engine` takes the answers of gates and plans as
   arbitrary, `Deployments` takes the lease as "one run at a time". Stating the
   second as what `Leases` and `Engine` provide, as a refinement, would remove
   that step from the reader.
2. **`Store` against an abstract store**: the atomic map from keys to deployments
   that survives crashes, implemented by `Store` as long as no write fails. Its
   invariant already has the facts.
3. **Liveness** stays with TLC.
