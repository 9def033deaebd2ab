---------------------------- MODULE Notifications ----------------------------
(***************************************************************************)
(* From a state change to the people who read about it.  A transition      *)
(* commits the row and one outbox entry per notifier (engine/executor.go,  *)
(* store/store.go); the worker drains the outbox (engine/outbox.go) into   *)
(* Slack, one message per deployment updated in place                      *)
(* (notify/slack/bot.go), and into the dashboard's event bus.              *)
(*                                                                         *)
(* One deployment.  The store's operations are single steps; between them, *)
(* and around the calls to Slack, everything interleaves.  A call to Slack *)
(* may fail without effect or fail after taking effect.  A crash keeps the *)
(* rows, the outbox and Slack.                                             *)
(***************************************************************************)
EXTENDS EventBus, StateMachine, FiniteSets

CONSTANTS
  Course,        \* the states a run may move to, for each state
  Notifiers,     \* the possible lists of notifier names given to the executor
  Subscribed,    \* the states the environment's notify.on list covers
  Batch,         \* entries attempted per pass
  NoTS,          \* no message posted yet
  MaxSlackFaults, MaxRestarts

ASSUME NotificationsAssumption ==
  /\ Course \in [State -> SUBSET State]
  /\ \A s \in State : Course[s] \subseteq AllowedTransitions[s]
  /\ Batch \in Nat \ {0} /\ {MaxSlackFaults, MaxRestarts} \subseteq Nat
  /\ Notifiers \subseteq Seq({"dashboard", "slack"})
  /\ \A names \in Notifiers : \A i, j \in DOMAIN names : names[i] = names[j] => i = j
  /\ NoTS \notin Nat

VARIABLES
  notifiers, \* the names in use: "slack" only if it is configured
  row,       \* the deployment row: its state and its message timestamp
  ex,        \* the goroutine that runs (or reconciles) it, with its copy of the row
  outbox,    \* the entries, oldest first
  worker,    \* the outbox worker: pass, entry in hand, copy of the row
  quiet,     \* seconds left in which an update for this state is coalesced
  posts,     \* Slack: the messages, each with the state it shows
  left,      \* faults and restarts still allowed
  shown,     \* history: entries Slack took
  skipped,   \* history: entries coalesced away
  disturbed  \* history: how often the stored timestamp was lost, or not stored

flowVars == <<notifiers, row, ex, outbox, worker, quiet, posts, left, shown, skipped, disturbed>>
vars == <<flowVars, busVars>>

FailureStates == {"FAILED", "ROLLBACK_FAILED", "UNKNOWN", "ROLLED_BACK"}

MinUpdateInterval == 5
Tick2s == 2

IdleWorker == [pc |-> "idle", todo |-> {}, copy |-> [state |-> "PENDING", ts |-> NoTS], ts |-> NoTS]

Init ==
  /\ BusInit
  /\ notifiers \in Notifiers
  /\ row = [state |-> "PENDING", ts |-> NoTS]
  /\ ex = [pc |-> "step", state |-> "PENDING", ts |-> NoTS]
  /\ outbox = <<>>
  /\ worker = IdleWorker
  /\ quiet = [s \in State |-> 0]
  /\ posts = <<>>
  /\ left = [faults |-> MaxSlackFaults, restarts |-> MaxRestarts]
  /\ shown = {} /\ skipped = {} /\ disturbed = 0
-----------------------------------------------------------------------------
(* The run.  Its copy of the row is loaded once; moves are compare-and-set *)
(* on the state and keep the other columns of the current row, saves       *)
(* (UpdateDeployment) write the whole copy.                                *)

Entry(s, n) == [state |-> s, notifier |-> n, attempts |-> 0, wait |-> 0, delivered |-> FALSE]

(* transitionAndNotify: the row and an entry per notifier, in one          *)
(* transaction.                                                            *)
MoveAndNotify(s) ==
  /\ row.state = ex.state
  /\ CanTransition(ex.state, s)
  /\ row' = [row EXCEPT !.state = s]
  /\ outbox' = outbox \o [i \in DOMAIN notifiers |-> Entry(s, notifiers[i])]

\* Mutant: the row is written whatever its state has become.
MaySaveAlways(copy) == TRUE

MaySave(copy) == row.state = copy.state

(* UpdateDeployment by the run: it replaces the timestamp by its own copy  *)
(* of it.                                                                  *)
SaveCopy ==
  /\ MaySave(ex)
  /\ row' = [state |-> ex.state, ts |-> ex.ts]
  /\ disturbed' = IF row.ts # ex.ts THEN disturbed + 1 ELSE disturbed

\* preflight records what was live, deploy the provider's handle.
SavesColumn(s) == s \in {"PREFLIGHT", "DEPLOYING"}

SaveColumn ==
  /\ ex.pc = "step" /\ SavesColumn(ex.state)
  /\ SaveCopy
  /\ ex' = [ex EXCEPT !.pc = "saved"]
  /\ UNCHANGED <<outbox, worker, quiet, posts, left, shown, skipped, busVars, notifiers>>

\* What handleFailure moves to, after recordError; executeRollback ends without.
AfterError(s) ==
  IF s = "ROLLING_BACK" THEN {} ELSE Course[s] \cap {"FAILED", "ROLLING_BACK", "ROLLBACK_FAILED"}

Advance ==
  /\ ex.pc = (IF SavesColumn(ex.state) THEN "saved" ELSE "step")
  /\ \E s \in Course[ex.state] \ AfterError(ex.state) :
       /\ MoveAndNotify(s)
       /\ ex' = [ex EXCEPT !.state = s, !.pc = IF IsTerminal(s) THEN "ended" ELSE "step"]
  /\ UNCHANGED <<worker, quiet, posts, left, shown, skipped, disturbed, busVars, notifiers>>

(* handleFailure and markUnknown: recordError saves the copy, then the row *)
(* moves.                                                                  *)
RecordError ==
  /\ \/ ex.pc \in {"step", "saved"} /\ AfterError(ex.state) # {}
     \/ ex.pc = "reconciling"
  /\ SaveCopy
  /\ ex' = [ex EXCEPT !.pc = IF ex.pc = "reconciling" THEN "unknown" ELSE "failing"]
  /\ UNCHANGED <<outbox, worker, quiet, posts, left, shown, skipped, busVars, notifiers>>

\* Where handleFailure, markUnknown and reconcileTransition go.  The last does
\* not save the row first.
Exits ==
  CASE ex.pc = "failing" -> AfterError(ex.state)
    [] ex.pc = "unknown" -> {"UNKNOWN"}
    [] OTHER             -> {"FAILED", "VERIFYING"}

\* Only a rollback goes on.  A move the state machine does not allow is dropped,
\* by reconcileTransition only after markUnknown.
GiveUp ==
  /\ ex.pc \in {"failing", "unknown", "reconciling"}
  /\ \/ \E s \in Exits :
          /\ MoveAndNotify(s)
          /\ ex' = [ex EXCEPT !.state = s, !.pc = IF s = "ROLLING_BACK" THEN "step" ELSE "ended"]
     \/ /\ ex.pc # "reconciling" /\ ~\E s \in Exits : CanTransition(ex.state, s)
        /\ ex' = [ex EXCEPT !.pc = "ended"]
        /\ UNCHANGED <<row, outbox>>
  /\ UNCHANGED <<worker, quiet, posts, left, shown, skipped, disturbed, busVars, notifiers>>
-----------------------------------------------------------------------------
(* The outbox worker.                                                      *)

\* Mutant: an entry that failed once is never due again.
DueOnce(i) == ~outbox[i].delivered /\ outbox[i].attempts = 0

Due(i) == ~outbox[i].delivered /\ outbox[i].wait = 0

DueEntries == {i \in DOMAIN outbox : Due(i)}

\* Mutant: the newest entries first.
DueNewestFirst ==
  {i \in DueEntries : Cardinality({j \in DueEntries : j > i}) < Batch}

(* DueOutbox: no more than a batch, the oldest.                            *)
DueOutbox ==
  {i \in DueEntries : Cardinality({j \in DueEntries : j < i}) < Batch}

\* Reconciliation is over before the worker is started.
Serving == ex.pc \notin {"reconciling", "unknown"}

StartPass ==
  /\ worker.pc = "idle" /\ Serving
  /\ DueOutbox # {}
  /\ worker' = [worker EXCEPT !.pc = "entry", !.todo = DueOutbox]
  /\ UNCHANGED <<row, ex, outbox, quiet, posts, left, shown, skipped, disturbed, busVars, notifiers>>

\* The entries of a pass are attempted in their order.
InHand == CHOOSE i \in worker.todo : \A j \in worker.todo : i <= j
Event == outbox[InHand].state

NextEntry ==
  [worker EXCEPT !.todo = @ \ {InHand},
                 !.pc = IF worker.todo = {InHand} THEN "idle" ELSE "entry"]

\* Publisher.Notify cannot fail.
NotifyDashboard ==
  /\ worker.pc = "entry" /\ outbox[InHand].notifier = "dashboard"
  /\ Publish
  /\ worker' = [worker EXCEPT !.pc = "ok"]
  /\ UNCHANGED <<row, ex, outbox, quiet, posts, left, shown, skipped, disturbed, notifiers>>

\* Mutant: updates are coalesced per deployment.
ThrottledPerDeployment(s) == \E t \in State : quiet[t] > 0

(* throttled: per deployment and state, and noted before the update is     *)
(* sent.                                                                   *)
Throttled(s) == quiet[s] > 0

(* Slack's Notify up to its call: read the row, decide what to send.       *)
NotifySlack ==
  /\ worker.pc = "entry" /\ outbox[InHand].notifier = "slack"
  /\ \/ /\ Event \notin Subscribed
        /\ worker' = [worker EXCEPT !.pc = "ok"]
        /\ UNCHANGED <<quiet, skipped>>
     \/ /\ Event \in Subscribed
        /\ Event \in FailureStates \/ row.ts = NoTS
        /\ worker' = [worker EXCEPT !.copy = row,
                        !.pc = IF Event \in FailureStates THEN "post_failure" ELSE "post"]
        /\ UNCHANGED <<quiet, skipped>>
     \/ /\ Event \in Subscribed \ FailureStates
        /\ row.ts # NoTS /\ Throttled(Event)
        /\ worker' = [worker EXCEPT !.pc = "ok"]
        /\ skipped' = skipped \cup {InHand}
        /\ UNCHANGED quiet
     \/ /\ Event \in Subscribed \ FailureStates
        /\ row.ts # NoTS /\ ~Throttled(Event)
        /\ worker' = [worker EXCEPT !.copy = row, !.pc = "update"]
        /\ quiet' = [quiet EXCEPT ![Event] = MinUpdateInterval]
        /\ UNCHANGED skipped
  /\ UNCHANGED <<row, ex, outbox, posts, left, shown, disturbed, busVars, notifiers>>

Message(s) == [shows |-> s, failure |-> s \in FailureStates]

\* Slack does what it was asked to.
Effect ==
  /\ posts' = IF worker.pc = "update" THEN [posts EXCEPT ![worker.copy.ts] = Message(Event)]
              ELSE Append(posts, Message(Event))
  /\ shown' = shown \cup {InHand}

Calling == worker.pc \in {"post", "post_failure", "update"}

SlackAnswers ==
  /\ Calling
  /\ Effect
  /\ worker' = IF worker.pc = "post" THEN [worker EXCEPT !.pc = "save", !.ts = Len(posts) + 1]
               ELSE [worker EXCEPT !.pc = "ok"]
  /\ UNCHANGED <<row, ex, outbox, quiet, left, skipped, disturbed, busVars, notifiers>>

(* An HTTP error, a rate limit, or a timeout: with or without effect.      *)
SlackFails ==
  /\ Calling /\ left.faults > 0
  /\ \/ Effect /\ disturbed' = IF worker.pc = "post" THEN disturbed + 1 ELSE disturbed
     \/ UNCHANGED <<posts, shown, disturbed>>
  /\ left' = [left EXCEPT !.faults = @ - 1]
  /\ worker' = [worker EXCEPT !.pc = "failed"]
  /\ UNCHANGED <<row, ex, outbox, quiet, skipped, busVars, notifiers>>

\* Mutant: the timestamp is kept in the copy only.
SaveTSForgotten ==
  /\ worker.pc = "save"
  /\ worker' = [worker EXCEPT !.pc = "ok"]
  /\ UNCHANGED <<row, ex, outbox, quiet, posts, left, shown, skipped, disturbed, busVars, notifiers>>

(* The posted message's timestamp is saved with the row as it was read     *)
(* before the call; refused when the row has moved since.                  *)
SaveTS ==
  /\ worker.pc = "save"
  /\ IF MaySave(worker.copy)
       THEN /\ row' = [worker.copy EXCEPT !.ts = worker.ts]
            /\ worker' = [worker EXCEPT !.pc = "ok"]
            /\ UNCHANGED disturbed
       ELSE /\ worker' = [worker EXCEPT !.pc = "failed"]
            /\ disturbed' = disturbed + 1
            /\ UNCHANGED row
  /\ UNCHANGED <<ex, outbox, quiet, posts, left, shown, skipped, busVars, notifiers>>

MarkDelivered ==
  /\ worker.pc = "ok"
  /\ outbox' = [outbox EXCEPT ![InHand].delivered = TRUE]
  /\ worker' = NextEntry
  /\ UNCHANGED <<row, ex, quiet, posts, left, shown, skipped, disturbed, busVars, notifiers>>

\* Seconds until the next attempt: doubled each time up to a cap.
Backoff(attempts) ==
  LET doublings == IF attempts < 8 THEN attempts ELSE 8
      d == 2 ^ doublings
  IN  IF d > 300 THEN 300 ELSE d

MarkFailed ==
  /\ worker.pc = "failed"
  /\ LET n == outbox[InHand].attempts + 1 IN
     outbox' = [outbox EXCEPT ![InHand].attempts = n, ![InHand].wait = Backoff(n)]
  /\ worker' = NextEntry
  /\ UNCHANGED <<row, ex, quiet, posts, left, shown, skipped, disturbed, busVars, notifiers>>

Less(x) == IF x > Tick2s THEN x - Tick2s ELSE 0

Tick ==
  /\ \/ \E i \in DOMAIN outbox : outbox[i].wait > 0
     \/ \E s \in State : quiet[s] > 0
  /\ outbox' = [i \in DOMAIN outbox |-> [outbox[i] EXCEPT !.wait = Less(@)]]
  /\ quiet' = [s \in State |-> Less(quiet[s])]
  /\ UNCHANGED <<row, ex, worker, posts, left, shown, skipped, disturbed, busVars, notifiers>>

(* The server dies and is started again: the run is gone, an orphan is     *)
(* loaded by reconciliation, the worker and the bus start empty.           *)
Restart ==
  /\ left.restarts > 0
  /\ left' = [left EXCEPT !.restarts = @ - 1]
  /\ ex' = [state |-> row.state, ts |-> row.ts,
            pc |-> IF IsTerminal(row.state) THEN "ended" ELSE "reconciling"]
  /\ worker' = IdleWorker
  /\ quiet' = [s \in State |-> 0]
  /\ disturbed' = IF worker.pc = "save" THEN disturbed + 1 ELSE disturbed
  /\ BusRestarts
  /\ UNCHANGED <<row, outbox, posts, shown, skipped, notifiers>>

RunNext == SaveColumn \/ Advance \/ RecordError \/ GiveUp

WorkerNext ==
  \/ StartPass \/ NotifyDashboard \/ NotifySlack \/ SlackAnswers \/ SlackFails
  \/ SaveTS \/ MarkDelivered \/ MarkFailed

Next ==
  \/ RunNext \/ WorkerNext \/ Tick \/ Restart
  \/ BrowserNext /\ UNCHANGED flowVars

(* The run and the worker are goroutines of a running server and time      *)
(* passes.  Nothing is assumed of Slack but that its failures are finite,  *)
(* nor of the browser.                                                     *)
Fairness == WF_vars(RunNext) /\ WF_vars(WorkerNext) /\ WF_vars(Tick)

Spec == Init /\ [][Next]_vars /\ Fairness
-----------------------------------------------------------------------------
(* Properties.                                                             *)

Rows == [state : State, ts : {NoTS} \cup DOMAIN posts]

Entries ==
  [state : State, notifier : {"dashboard", "slack"}, attempts : Nat, wait : 0 .. 300,
   delivered : BOOLEAN]

TypeOK ==
  /\ BusTypeOK
  /\ notifiers \in Notifiers
  /\ row \in Rows
  /\ ex \in [pc : {"step", "saved", "failing", "reconciling", "unknown", "ended"},
             state : State, ts : {NoTS} \cup DOMAIN posts]
  /\ outbox \in Seq(Entries)
  /\ worker \in [pc : {"idle", "entry", "post", "post_failure", "update", "save", "ok", "failed"},
                 todo : SUBSET DOMAIN outbox, copy : Rows, ts : {NoTS} \cup DOMAIN posts]
  /\ (worker.pc = "idle") = (worker.todo = {})
  /\ quiet \in [State -> 0 .. MinUpdateInterval]
  /\ posts \in Seq([shows : State, failure : BOOLEAN])
  /\ left \in [faults : Nat, restarts : Nat]
  /\ shown \cup skipped \subseteq DOMAIN outbox
  /\ disturbed \in Nat

(* What the properties below rest on.  States are entered once, in the     *)
(* order of the state machine, and so are their entries.                   *)
Depth ==
  [s \in State |->
    CASE s = "PENDING"        -> 0
      [] s = "PREFLIGHT"      -> 1
      [] s = "AWAIT_APPROVAL" -> 2
      [] s = "DEPLOYING"      -> 3
      [] s = "VERIFYING"      -> 4
      [] s = "PROMOTING"      -> 5
      [] s = "ROLLING_BACK"   -> 6
      [] OTHER                -> 7]

EntriesInv ==
  /\ \A i \in DOMAIN outbox : Depth[outbox[i].state] <= Depth[row.state]
  /\ \A i, j \in DOMAIN outbox : i < j =>
       \/ Depth[outbox[i].state] < Depth[outbox[j].state]
       \/ outbox[i].state = outbox[j].state /\ outbox[i].notifier # outbox[j].notifier

(* Entries are attempted for the first time in their order.                *)
Untried(i) == ~outbox[i].delivered /\ outbox[i].attempts = 0

PassInv ==
  /\ \A i \in DOMAIN outbox : Untried(i) => outbox[i].wait = 0
  /\ \A i \in worker.todo : ~outbox[i].delivered
  /\ \A i, j \in DOMAIN outbox : i < j /\ Untried(i) => Untried(j)
  /\ \A i \in DOMAIN outbox, j \in worker.todo :
       i < j /\ Untried(i) /\ Untried(j) => i \in worker.todo
  /\ \A m \in DOMAIN posts : \E i \in DOMAIN outbox :
       outbox[i].state = posts[m].shows /\ \A j \in 1 .. i - 1 : ~Untried(j)

(* An update is held back only by an earlier attempt at the same entry.    *)
Attempted(i) ==
  \/ outbox[i].delivered \/ outbox[i].attempts > 0
  \/ worker.pc \in {"update", "ok", "failed"} /\ i = InHand

ThrottleInv ==
  /\ \A s \in State : quiet[s] > 0 =>
       \E i \in DOMAIN outbox :
         outbox[i].state = s /\ outbox[i].notifier = "slack" /\ Attempted(i)
  /\ worker.pc = "save" => InHand \in shown
  /\ worker.pc = "ok" /\ outbox[InHand].notifier = "slack" /\ Event \in Subscribed =>
       InHand \in shown \/ (InHand \in skipped /\ outbox[InHand].attempts > 0)

DeployMessages == {m \in DOMAIN posts : ~posts[m].failure}

(* The timestamps in use are those of messages about the deployment, and a *)
(* first message is posted only where none is stored.                      *)
PostInv ==
  /\ row.ts = NoTS => ex.ts = NoTS
  /\ worker.pc \in {"post", "save"} => row.ts = NoTS
  /\ worker.pc \in {"post", "update"} => Event \notin FailureStates
  /\ worker.pc = "post_failure" => Event \in FailureStates
  /\ worker.pc = "update" => worker.copy.ts # NoTS
  /\ worker.pc = "save" => worker.ts # NoTS
  /\ \A t \in {row.ts, ex.ts, worker.copy.ts, worker.ts} \ {NoTS} : ~posts[t].failure
  /\ Cardinality(DeployMessages) <=
       disturbed + (IF row.ts # NoTS \/ worker.pc = "save" THEN 1 ELSE 0)

(* The row's state moves by transitions alone: the notifier, which writes  *)
(* the whole row as it read it before a call to Slack, never takes a       *)
(* transition of the run back.                                             *)
RowFollowsRun == row.state = ex.state

(* Delivered to Slack means that Slack took it, if the environment         *)
(* subscribes to it.  "A state change always goes through" (bot.go): what  *)
(* the throttle coalesced away is only ever the retry, less than           *)
(* MinUpdateInterval later, of an attempt that failed.                     *)
DeliveredIsShown ==
  \A i \in DOMAIN outbox :
    (outbox[i].delivered /\ outbox[i].notifier = "slack" /\ outbox[i].state \in Subscribed)
      => i \in shown \/ (i \in skipped /\ outbox[i].attempts > 0)

(* bot.go: "one message per deployment, updated in place, with the ts      *)
(* stored on the deployment row".  What holds is weaker: one message       *)
(* beyond the first for each time the stored timestamp was written back    *)
(* to the run's older copy, could not be saved because the row had moved,  *)
(* or was not learnt.  The first of these needs no fault.                  *)
ExtraMessagesExplained == Cardinality(DeployMessages) <= 1 + disturbed

IndInv ==
  /\ TypeOK /\ BusInv
  /\ RowFollowsRun /\ EntriesInv /\ PassInv /\ ThrottleInv /\ DeliveredIsShown /\ PostInv

\* How far the run had come when it entered a state of its course.
Rank(s) == CHOOSE i \in DOMAIN outbox : outbox[i].state = s

(* A message goes back to an earlier state only by the retry of an entry   *)
(* that had failed, never by the order in which entries are taken.         *)
BackwardsOnlyByRetry ==
  [][\A m \in DOMAIN posts :
       (Rank(posts'[m].shows) < Rank(posts[m].shows)) => outbox[InHand].attempts > 0]_vars

(* Every entry is delivered in the end, whatever its notifier, however     *)
(* many entries are ahead of it and however the calls before it failed.    *)
AllDelivered ==
  <>[](\A i \in DOMAIN outbox : outbox[i].delivered)
=============================================================================
