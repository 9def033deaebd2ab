------------------------- MODULE NotificationsProofs -------------------------
(***************************************************************************)
(* The safety properties of Notifications, for every course a run can      *)
(* take, every list of notifiers, and any number of faults and restarts.   *)
(***************************************************************************)
EXTENDS Notifications, EventBusProofs, FiniteSetTheorems, WellFoundedInduction

(***************************************************************************)
(* Operators.                                                              *)
(***************************************************************************)

LEMMA Oldest ==
  ASSUME NEW S \in SUBSET Nat, S # {}
  PROVE  \E i \in S : \A j \in S : i <= j
<1> DEFINE Smaller == {ss \in Nat \X Nat : ss[1] < ss[2]}
<1>1. IsWellFoundedOn(Smaller, Nat)
  BY NatLessThanWellFounded DEF OpToRel
<1>2. PICK i \in S : \A j \in S : <<j, i>> \notin Smaller
  <2> HIDE DEF Smaller
  <2>1. QED
    BY <1>1, WFMin
<1>3. \A a, b \in Nat : a < b => <<a, b>> \in Smaller
  OBVIOUS
<1> HIDE DEF Smaller
<1>4. ASSUME NEW j \in S PROVE i <= j
  <2>1. i \in Nat /\ j \in Nat
    OBVIOUS
  <2>2. ~(j < i)
    BY <1>2, <1>3, <2>1
  <2>3. QED
    BY <2>1, <2>2
<1>5. QED
  BY <1>4

\* The entry in hand is the oldest one that is left of the pass.
LEMMA InHandIsOldest ==
  ASSUME TypeOK, worker.todo # {}
  PROVE  InHand \in worker.todo /\ \A j \in worker.todo : InHand <= j
<1>1. worker.todo \in SUBSET Nat
  BY DEF TypeOK
<1>2. QED
  BY <1>1, Oldest DEF InHand

LEMMA BackoffIsCapped == \A n \in Nat : Backoff(n) \in 0 .. 300
<1> SUFFICES ASSUME NEW n \in Nat PROVE Backoff(n) \in 0 .. 300
  OBVIOUS
<1>1. PICK k \in 0 .. 8 : k = IF n < 8 THEN n ELSE 8
  OBVIOUS
<1>2. \A z \in {0, 1, 2, 3, 4, 5, 6, 7, 8} : 2 ^ z \in Nat
  BY 2 ^ 0 \in Nat, 2 ^ 1 \in Nat, 2 ^ 2 \in Nat, 2 ^ 3 \in Nat, 2 ^ 4 \in Nat, 2 ^ 5 \in Nat,
     2 ^ 6 \in Nat, 2 ^ 7 \in Nat, 2 ^ 8 \in Nat, Zenon
<1>3. PICK d \in Nat : d = 2 ^ k
  <2>1. k \in {0, 1, 2, 3, 4, 5, 6, 7, 8}
    OBVIOUS
  <2>2. QED
    BY <1>2, <2>1, Zenon
<1>4. Backoff(n) = IF d > 300 THEN 300 ELSE d
  BY <1>1, <1>3, Zenon DEF Backoff
<1>5. QED
  BY <1>4

\* What is due is in the order of the entries: with an entry, the pass has every
\* older one that is due.
LEMMA PassIsPrefix ==
  ASSUME TypeOK, NEW i \in DueEntries, NEW j \in DueOutbox, i < j
  PROVE  i \in DueOutbox
<1> DEFINE Before(k) == {x \in DueEntries : x < k}
<1>1. DueEntries \subseteq 1 .. Len(outbox) /\ Len(outbox) \in Nat
  BY DEF TypeOK, DueEntries
<1>2. j \in DueEntries /\ Cardinality(Before(j)) < Batch
  BY DEF DueOutbox
<1>3. IsFiniteSet(Before(j))
  <2>1. IsFiniteSet(1 .. Len(outbox))
    BY <1>1, FS_Interval
  <2>2. Before(j) \in SUBSET (1 .. Len(outbox))
    BY <1>1
  <2>3. QED
    BY <2>1, <2>2, FS_Subset
<1>4. Before(i) \in SUBSET Before(j)
  <2>1. i \in Nat /\ j \in Nat /\ \A x \in DueEntries : x \in Nat
    BY <1>1, <1>2
  <2>2. ASSUME NEW x \in DueEntries, x < i PROVE x < j
    BY <2>1, <2>2
  <2>3. QED
    BY <2>2
<1>5. /\ Cardinality(Before(i)) <= Cardinality(Before(j))
      /\ Cardinality(Before(i)) \in Nat /\ Cardinality(Before(j)) \in Nat
  BY <1>3, <1>4, FS_Subset, FS_CardinalityType
<1>6. Cardinality(Before(i)) < Batch
  BY <1>2, <1>5, NotificationsAssumption
<1>7. QED
  BY <1>6 DEF DueOutbox

\* The state machine goes down only.
LEMMA MovesGoDown ==
  ASSUME NEW s \in State, NEW t \in State, CanTransition(s, t)
  PROVE  Depth[s] < Depth[t] /\ Depth[s] \in 0 .. 7 /\ Depth[t] \in 0 .. 7
  BY DEF CanTransition, AllowedTransitions, Depth, State, TerminalStates

LEMMA DepthIsNat == \A s \in State : Depth[s] \in 0 .. 7
  BY DEF Depth

LEMMA Replaced ==
  ASSUME NEW S, NEW s \in Seq(S), NEW i \in DOMAIN s, NEW e \in S
  PROVE  LET t == [s EXCEPT ![i] = e] IN
         /\ t \in Seq(S) /\ DOMAIN t = DOMAIN s /\ t[i] = e
         /\ \A j \in DOMAIN s : j # i => t[j] = s[j]
<1>1. [s EXCEPT ![i] = e] \in [1 .. Len(s) -> S] /\ Len(s) \in Nat
  OBVIOUS
<1>2. QED
  BY <1>1

LEMMA Extended ==
  ASSUME NEW S, NEW s \in Seq(S), NEW t \in Seq(S)
  PROVE  /\ s \o t \in Seq(S) /\ DOMAIN (s \o t) = 1 .. Len(s) + Len(t)
         /\ Len(s) \in Nat /\ Len(t) \in Nat
         /\ DOMAIN s = 1 .. Len(s) /\ DOMAIN t = 1 .. Len(t)
         /\ \A j \in DOMAIN s : (s \o t)[j] = s[j]
         /\ \A j \in DOMAIN t : (s \o t)[Len(s) + j] = t[j]
  OBVIOUS

(***************************************************************************)
(* Facts about a state that satisfies IndInv.                              *)
(***************************************************************************)

LEMMA Types ==
  ASSUME TypeOK
  PROVE  /\ row \in [state : State, ts : {NoTS} \cup DOMAIN posts]
         /\ ex \in [pc : {"step", "saved", "failing", "reconciling", "unknown", "ended"},
                    state : State, ts : {NoTS} \cup DOMAIN posts]
         /\ outbox \in Seq(Entries) /\ Len(outbox) \in Nat /\ DOMAIN outbox = 1 .. Len(outbox)
         /\ \A i \in DOMAIN outbox : outbox[i] \in Entries
         /\ worker \in [pc : {"idle", "entry", "post", "post_failure", "update", "save", "ok",
                             "failed"},
                        todo : SUBSET DOMAIN outbox, copy : Rows, ts : {NoTS} \cup DOMAIN posts]
         /\ (worker.pc = "idle") = (worker.todo = {})
         /\ posts \in Seq([shows : State, failure : BOOLEAN])
         /\ Len(posts) \in Nat /\ DOMAIN posts = 1 .. Len(posts)
         /\ NoTS \notin DOMAIN posts
<1>1. /\ outbox \in Seq(Entries) /\ posts \in Seq([shows : State, failure : BOOLEAN])
      /\ row \in [state : State, ts : {NoTS} \cup DOMAIN posts]
  BY DEF TypeOK, Rows
<1>2. /\ Len(outbox) \in Nat /\ DOMAIN outbox = 1 .. Len(outbox)
      /\ \A i \in DOMAIN outbox : outbox[i] \in Entries
  BY <1>1
<1>3. Len(posts) \in Nat /\ DOMAIN posts = 1 .. Len(posts)
  BY <1>1
<1>4. NoTS \notin DOMAIN posts
  BY <1>3, NotificationsAssumption
<1>5. QED
  BY <1>1, <1>2, <1>3, <1>4 DEF TypeOK

\* Every entry before the one in hand has been attempted.
LEMMA TriedBeforeHand ==
  ASSUME TypeOK, PassInv, worker.todo # {}
  PROVE  /\ InHand \in worker.todo /\ InHand \in DOMAIN outbox
         /\ ~outbox[InHand].delivered
         /\ \A i \in DOMAIN outbox : i < InHand => ~Untried(i)
<1>1. /\ InHand \in worker.todo /\ InHand \in DOMAIN outbox
      /\ \A i \in worker.todo : InHand <= i
      /\ worker.todo \subseteq DOMAIN outbox /\ DOMAIN outbox \subseteq Nat
  <2>1. worker.todo \subseteq DOMAIN outbox /\ DOMAIN outbox \subseteq Nat
    BY Types
  <2>2. QED
    BY <2>1, InHandIsOldest
<1>2. ASSUME NEW i \in DOMAIN outbox, i < InHand, Untried(i) PROVE FALSE
  <2>1. Untried(InHand)
    BY <1>1, <1>2 DEF PassInv
  <2>2. i \in worker.todo
    BY <1>1, <1>2, <2>1 DEF PassInv
  <2>3. QED
    BY <1>1, <1>2, <2>2
<1>3. QED
  BY <1>1, <1>2 DEF PassInv

(***************************************************************************)
(* The worker's steps.                                                     *)
(***************************************************************************)

\* What stays in hand while a pass goes on.
LEMMA HandKept ==
  ASSUME worker'.todo = worker.todo
  PROVE  InHand' = InHand
  BY DEF InHand

LEMMA StartPassKeeps == ASSUME IndInv, StartPass, BusInv' PROVE IndInv'
<1>1. /\ TypeOK /\ PassInv /\ ThrottleInv /\ PostInv
      /\ worker.pc = "idle" /\ worker' = [worker EXCEPT !.pc = "entry", !.todo = DueOutbox]
      /\ DueOutbox # {}
      /\ UNCHANGED <<row, ex, outbox, quiet, posts, left, shown, skipped, disturbed, busVars,
                     notifiers>>
  BY DEF IndInv, StartPass
<1>2. DueOutbox \subseteq DOMAIN outbox /\ \A i \in DueOutbox : ~outbox[i].delivered
  BY DEF DueOutbox, DueEntries, Due
<1>3. /\ worker'.pc = "entry" /\ worker'.todo = DueOutbox
      /\ worker'.copy = worker.copy /\ worker'.ts = worker.ts
      /\ worker' \in [pc : {"idle", "entry", "post", "post_failure", "update", "save", "ok",
                             "failed"},
                      todo : SUBSET DOMAIN outbox, copy : Rows, ts : {NoTS} \cup DOMAIN posts]
  BY <1>1, <1>2, Types
<1>4. TypeOK'
  BY <1>1, <1>3 DEF TypeOK, BusInv, Rows
<1>5. PassInv'
  <2>1. ASSUME NEW i \in DOMAIN outbox, NEW j \in DueOutbox, i < j, Untried(i)
        PROVE  i \in DueOutbox
    BY <1>1, <2>1, PassIsPrefix DEF DueEntries, Due, Untried, PassInv
  <2>2. QED
    BY <1>1, <1>2, <1>3, <2>1 DEF PassInv, Untried
<1>6. ThrottleInv'
  BY <1>1, <1>3 DEF ThrottleInv, Attempted
<1>7. PostInv'
  BY <1>1, <1>3 DEF PostInv, DeployMessages
<1>8. QED
  BY <1>1, <1>4, <1>5, <1>6, <1>7 DEF IndInv, RowFollowsRun, EntriesInv, DeliveredIsShown

LEMMA NotifyDashboardKeeps == ASSUME IndInv, NotifyDashboard, BusInv' PROVE IndInv'
<1>1. /\ TypeOK /\ PassInv /\ ThrottleInv /\ PostInv
      /\ worker.pc = "entry" /\ outbox[InHand].notifier = "dashboard"
      /\ worker' = [worker EXCEPT !.pc = "ok"]
      /\ UNCHANGED <<row, ex, outbox, quiet, posts, left, shown, skipped, disturbed, notifiers>>
  BY DEF IndInv, NotifyDashboard
<1>2. /\ worker'.pc = "ok" /\ worker'.todo = worker.todo
      /\ worker'.copy = worker.copy /\ worker'.ts = worker.ts
      /\ worker' \in [pc : {"idle", "entry", "post", "post_failure", "update", "save", "ok",
                             "failed"},
                      todo : SUBSET DOMAIN outbox, copy : Rows, ts : {NoTS} \cup DOMAIN posts]
      /\ worker.todo # {}
  BY <1>1, Types
<1>3. InHand' = InHand
  BY <1>2, HandKept
<1>4. TypeOK'
  BY <1>1, <1>2 DEF TypeOK, BusInv, Rows
<1>5. PassInv'
  BY <1>1, <1>2 DEF PassInv, Untried
<1>6. ThrottleInv'
  BY <1>1, <1>2, <1>3 DEF ThrottleInv, Attempted
<1>7. PostInv'
  BY <1>1, <1>2 DEF PostInv, DeployMessages
<1>8. QED
  BY <1>1, <1>4, <1>5, <1>6, <1>7 DEF IndInv, RowFollowsRun, EntriesInv, DeliveredIsShown

LEMMA NotifySlackKeeps == ASSUME IndInv, NotifySlack, BusInv' PROVE IndInv'
<1>1. /\ TypeOK /\ PassInv /\ ThrottleInv /\ PostInv /\ EntriesInv /\ DeliveredIsShown
      /\ worker.pc = "entry" /\ outbox[InHand].notifier = "slack"
      /\ UNCHANGED <<row, ex, outbox, posts, left, shown, disturbed, busVars, notifiers>>
  BY DEF IndInv, NotifySlack
<1>2. /\ worker'.todo = worker.todo /\ worker'.ts = worker.ts /\ worker.todo # {}
      /\ worker'.pc \in {"ok", "post", "post_failure", "update"}
      /\ worker'.copy \in {worker.copy, row}
      /\ worker' \in [pc : {"idle", "entry", "post", "post_failure", "update", "save", "ok",
                             "failed"},
                      todo : SUBSET DOMAIN outbox, copy : Rows, ts : {NoTS} \cup DOMAIN posts]
  <2>1. \/ worker' = [worker EXCEPT !.pc = "ok"]
        \/ worker' = [worker EXCEPT !.copy = row, !.pc = "post_failure"]
        \/ worker' = [worker EXCEPT !.copy = row, !.pc = "post"]
        \/ worker' = [worker EXCEPT !.copy = row, !.pc = "update"]
    BY DEF NotifySlack
  <2>2. row \in Rows
    BY <1>1 DEF TypeOK
  <2>3. QED
    BY <1>1, <2>1, <2>2, Types
<1>3. InHand' = InHand /\ Event' = Event
  BY <1>1, <1>2, HandKept DEF Event
<1>4. InHand \in DOMAIN outbox /\ ~outbox[InHand].delivered /\ outbox[InHand] \in Entries
  BY <1>1, <1>2, TriedBeforeHand, Types
<1>5. CASE Event \notin Subscribed \/ (row.ts # NoTS /\ Throttled(Event) /\ Event \notin FailureStates)
  <2>1. worker' = [worker EXCEPT !.pc = "ok"] /\ quiet' = quiet
    BY <1>5 DEF NotifySlack
  <2>2. worker'.pc = "ok" /\ worker'.copy = worker.copy
    BY <1>1, <2>1, Types
  <2>3. /\ skipped \subseteq skipped' /\ skipped' \subseteq skipped \cup {InHand}
        /\ Event \in Subscribed => InHand \in skipped'
    BY <1>5 DEF NotifySlack
  <2>4. ASSUME Event \in Subscribed PROVE outbox[InHand].attempts > 0
    <3>1. PICK i \in DOMAIN outbox :
                 outbox[i].state = Event /\ outbox[i].notifier = "slack" /\ Attempted(i)
      <4>1. Event \in State /\ quiet[Event] > 0
        BY <1>4, <1>5, <2>4 DEF Entries, Event, Throttled
      <4>2. QED
        BY <1>1, <4>1 DEF ThrottleInv
    <3>2. i = InHand
      <4>1. i \in Int /\ InHand \in Int /\ Depth[outbox[i].state] \in 0 .. 7
        BY <1>1, <1>4, <3>1, Types, DepthIsNat DEF Entries
      <4>2. ~(i < InHand) /\ ~(InHand < i)
        BY <1>1, <1>4, <3>1, <4>1 DEF EntriesInv, Event
      <4>3. QED
        BY <4>1, <4>2
    <3>3. QED
      BY <1>1, <1>4, <3>1, <3>2 DEF Attempted
  <2>5. TypeOK'
    BY <1>1, <1>2, <1>4, <2>1, <2>3 DEF TypeOK, BusInv, Rows
  <2>6. PassInv'
    BY <1>1, <1>2 DEF PassInv, Untried
  <2>7. ThrottleInv'
    <3>1. \A s \in State : quiet'[s] > 0 =>
            \E i \in DOMAIN outbox :
              outbox[i].state = s /\ outbox[i].notifier = "slack" /\ Attempted(i)'
      BY <1>1, <2>1 DEF ThrottleInv, Attempted
    <3>2. QED
      BY <1>1, <1>3, <2>2, <2>3, <2>4, <3>1 DEF ThrottleInv
  <2>8. DeliveredIsShown'
    BY <1>1, <2>3 DEF DeliveredIsShown
  <2>9. PostInv'
    BY <1>1, <1>2, <2>2 DEF PostInv, DeployMessages
  <2>10. QED
    BY <1>1, <2>5, <2>6, <2>7, <2>8, <2>9 DEF IndInv, RowFollowsRun, EntriesInv
<1>6. CASE Event \in Subscribed /\ (Event \in FailureStates \/ row.ts = NoTS)
  <2>1. /\ worker' = [worker EXCEPT !.copy = row,
                        !.pc = IF Event \in FailureStates THEN "post_failure" ELSE "post"]
        /\ UNCHANGED <<quiet, skipped>>
    BY <1>6 DEF NotifySlack
  <2>2. /\ worker'.pc = (IF Event \in FailureStates THEN "post_failure" ELSE "post")
        /\ worker'.copy = row
    BY <1>1, <2>1, Types
  <2>3. TypeOK'
    BY <1>1, <1>2, <2>1 DEF TypeOK, BusInv, Rows
  <2>4. PassInv'
    BY <1>1, <1>2 DEF PassInv, Untried
  <2>5. ThrottleInv'
    BY <1>1, <2>1, <2>2 DEF ThrottleInv, Attempted
  <2>6. PostInv'
    BY <1>1, <1>2, <1>3, <1>6, <2>2 DEF PostInv, DeployMessages
  <2>7. QED
    BY <1>1, <2>1, <2>3, <2>4, <2>5, <2>6 DEF IndInv, RowFollowsRun, EntriesInv, DeliveredIsShown
<1>7. CASE Event \in Subscribed \ FailureStates /\ row.ts # NoTS /\ ~Throttled(Event)
  <2>1. /\ worker' = [worker EXCEPT !.copy = row, !.pc = "update"]
        /\ quiet' = [quiet EXCEPT ![Event] = MinUpdateInterval]
        /\ skipped' = skipped
    BY <1>7 DEF NotifySlack
  <2>2. worker'.pc = "update" /\ worker'.copy = row
    BY <1>1, <2>1, Types
  <2>3. TypeOK'
    <3>1. quiet' \in [State -> 0 .. MinUpdateInterval]
      <4>1. quiet \in [State -> 0 .. MinUpdateInterval]
        BY <1>1 DEF TypeOK
      <4>2. MinUpdateInterval \in 0 .. MinUpdateInterval
        BY DEF MinUpdateInterval
      <4>3. QED
        BY <2>1, <4>1, <4>2
    <3>2. QED
      BY <1>1, <1>2, <2>1, <3>1 DEF TypeOK, BusInv, Rows
  <2>4. PassInv'
    BY <1>1, <1>2 DEF PassInv, Untried
  <2>5. ThrottleInv'
    <3>1. \A i : i = InHand => Attempted(i)'
      BY <1>3, <2>2 DEF Attempted
    <3>2. \A i : Attempted(i) => Attempted(i)'
      BY <1>1 DEF Attempted
    <3>3. \A s \in State : s # Event => quiet'[s] = quiet[s]
      BY <1>1, <2>1 DEF TypeOK
    <3>4. \A s \in State : quiet'[s] > 0 =>
            \E i \in DOMAIN outbox :
              outbox[i].state = s /\ outbox[i].notifier = "slack" /\ Attempted(i)'
      BY <1>1, <1>4, <3>1, <3>2, <3>3 DEF ThrottleInv, Event
    <3>5. QED
      BY <1>1, <2>2, <3>4 DEF ThrottleInv
  <2>6. PostInv'
    BY <1>1, <1>2, <1>3, <1>7, <2>2 DEF PostInv, DeployMessages
  <2>7. QED
    BY <1>1, <2>1, <2>3, <2>4, <2>5, <2>6 DEF IndInv, RowFollowsRun, EntriesInv, DeliveredIsShown
<1>8. QED
  BY <1>5, <1>6, <1>7

\* Cardinalities of sets of messages are numbers.
LEMMA MessagesAreFinite ==
  ASSUME TypeOK
  PROVE  /\ IsFiniteSet(DeployMessages) /\ Cardinality(DeployMessages) \in Nat
         /\ DeployMessages \subseteq DOMAIN posts
<1>1. DOMAIN posts = 1 .. Len(posts) /\ Len(posts) \in Nat
  BY Types
<1>2. IsFiniteSet(1 .. Len(posts)) /\ DeployMessages \in SUBSET (1 .. Len(posts))
  BY <1>1, FS_Interval DEF DeployMessages
<1>3. QED
  BY <1>1, <1>2, FS_Subset, FS_CardinalityType

\* What a call that reached Slack did to its messages.
LEMMA Posted ==
  ASSUME TypeOK, PassInv, PostInv, Calling, Effect
  PROVE  /\ posts' \in Seq([shows : State, failure : BOOLEAN])
         /\ DOMAIN posts \subseteq DOMAIN posts'
         /\ \A m \in DOMAIN posts : posts'[m].failure = posts[m].failure
         /\ \A m \in DOMAIN posts' :
              \/ posts'[m].shows = Event
              \/ m \in DOMAIN posts /\ posts'[m].shows = posts[m].shows
         /\ worker.pc # "post" =>
              DeployMessages' = DeployMessages
         /\ worker.pc = "post" =>
              /\ Len(posts) + 1 \in DOMAIN posts' /\ ~posts'[Len(posts) + 1].failure
              /\ Cardinality(DeployMessages') = Cardinality(DeployMessages) + 1
<1> DEFINE n == Len(posts) + 1
<1>1. /\ posts \in Seq([shows : State, failure : BOOLEAN])
      /\ Len(posts) \in Nat /\ DOMAIN posts = 1 .. Len(posts)
      /\ worker.pc \in {"post", "post_failure", "update"}
      /\ worker.todo # {}
      /\ worker.copy \in [state : State, ts : {NoTS} \cup DOMAIN posts]
  BY Types DEF Calling, Rows
<1>2. InHand \in DOMAIN outbox /\ Event \in State
  BY <1>1, TriedBeforeHand, Types DEF Event, Entries
<1>3. PICK msg : msg = Message(Event)
  OBVIOUS
<1>4. /\ msg \in [shows : State, failure : BOOLEAN]
      /\ msg.shows = Event /\ msg.failure = (Event \in FailureStates)
  BY <1>2, <1>3 DEF Message
<1>5. CASE worker.pc = "update"
  <2>1. posts' = [posts EXCEPT ![worker.copy.ts] = msg]
    BY <1>3, <1>5 DEF Effect
  <2>2. worker.copy.ts \in DOMAIN posts /\ ~posts[worker.copy.ts].failure
    BY <1>1, <1>5 DEF PostInv
  <2>3. ~msg.failure
    BY <1>4, <1>5 DEF PostInv
  <2>4. /\ posts' \in Seq([shows : State, failure : BOOLEAN]) /\ DOMAIN posts' = DOMAIN posts
        /\ posts'[worker.copy.ts] = msg
        /\ \A m \in DOMAIN posts : m # worker.copy.ts => posts'[m] = posts[m]
    BY <1>1, <1>4, <2>1, <2>2, Replaced
  <2>5. \A m \in DOMAIN posts : posts'[m].failure = posts[m].failure
    <3>1. posts[worker.copy.ts].failure = FALSE /\ msg.failure = FALSE
      BY <1>1, <1>4, <2>2, <2>3
    <3>2. QED
      BY <2>4, <3>1
  <2>6. DeployMessages' = DeployMessages
    BY <2>4, <2>5 DEF DeployMessages
  <2>7. QED
    BY <1>4, <1>5, <2>4, <2>5, <2>6
<1>6. CASE worker.pc # "update"
  <2>1. posts' = Append(posts, msg)
    BY <1>3, <1>6 DEF Effect
  <2>2. /\ posts' \in Seq([shows : State, failure : BOOLEAN]) /\ DOMAIN posts' = 1 .. n
        /\ posts'[n] = msg /\ \A m \in DOMAIN posts : posts'[m] = posts[m]
        /\ n \in Nat /\ n \notin DOMAIN posts /\ DOMAIN posts' = DOMAIN posts \cup {n}
    BY <1>1, <1>4, <2>1
  <2>3. CASE worker.pc = "post_failure"
    <3>1. msg.failure
      BY <1>4, <2>3 DEF PostInv
    <3>2. DeployMessages' = DeployMessages
      BY <2>2, <3>1 DEF DeployMessages
    <3>3. QED
      BY <1>4, <2>2, <2>3, <3>2
  <2>4. CASE worker.pc = "post"
    <3>1. ~msg.failure
      BY <1>4, <2>4 DEF PostInv
    <3>2. DeployMessages' = DeployMessages \cup {n}
      BY <2>2, <3>1 DEF DeployMessages
    <3>3. n \notin DeployMessages /\ IsFiniteSet(DeployMessages)
      BY <2>2, MessagesAreFinite
    <3>4. Cardinality(DeployMessages') = Cardinality(DeployMessages) + 1
      BY <3>2, <3>3, FS_AddElement
    <3>5. QED
      BY <1>4, <2>2, <2>4, <3>1, <3>4
  <2>5. QED
    BY <1>1, <1>6, <2>3, <2>4
<1>7. QED
  BY <1>5, <1>6

\* What is stored of a timestamp stays a timestamp when Slack has more messages.
LEMMA PostedTypes ==
  ASSUME TypeOK, DOMAIN posts \subseteq DOMAIN posts',
         posts' \in Seq([shows : State, failure : BOOLEAN]),
         UNCHANGED <<row, ex, outbox, quiet, skipped, busVars, notifiers>>, BusInv',
         NEW p \in {"save", "ok", "failed"}, NEW t \in {NoTS} \cup DOMAIN posts',
         worker.pc # "idle", worker' = [worker EXCEPT !.pc = p, !.ts = t],
         shown' \subseteq DOMAIN outbox, left' \in [faults : Nat, restarts : Nat],
         disturbed' \in Nat
  PROVE  /\ TypeOK' /\ worker'.pc = p /\ worker'.ts = t
         /\ worker'.todo = worker.todo /\ worker'.copy = worker.copy
<1>1. /\ row \in [state : State, ts : {NoTS} \cup DOMAIN posts']
      /\ ex \in [pc : {"step", "saved", "failing", "reconciling", "unknown", "ended"},
                 state : State, ts : {NoTS} \cup DOMAIN posts']
  BY Types
<1>2. worker.copy \in Rows'
  BY Types DEF Rows
<1>3. /\ worker'.pc = p /\ worker'.ts = t
      /\ worker'.todo = worker.todo /\ worker'.copy = worker.copy
      /\ worker' \in [pc : {"idle", "entry", "post", "post_failure", "update", "save", "ok",
                            "failed"},
                      todo : SUBSET DOMAIN outbox, copy : Rows', ts : {NoTS} \cup DOMAIN posts']
  BY <1>2, Types
<1>4. row \in Rows'
  BY <1>1 DEF Rows
<1>5. QED
  BY <1>1, <1>3, <1>4 DEF TypeOK, BusInv

\* After the effect of a call, the entry in hand is the newest that was attempted.
LEMMA PostedPass ==
  ASSUME TypeOK, PassInv, Calling, worker'.todo = worker.todo, UNCHANGED outbox,
         DOMAIN posts \subseteq DOMAIN posts',
         \A m \in DOMAIN posts' :
           posts'[m].shows = Event \/ (m \in DOMAIN posts /\ posts'[m].shows = posts[m].shows)
  PROVE  PassInv'
<1>1. worker.todo # {}
  BY Types DEF Calling
<1>2. InHand \in DOMAIN outbox /\ \A i \in DOMAIN outbox : i < InHand => ~Untried(i)
  BY <1>1, TriedBeforeHand
<1>3. \A j \in 1 .. InHand - 1 : ~Untried(j)
  <2>1. DOMAIN outbox = 1 .. Len(outbox) /\ Len(outbox) \in Nat
    BY Types
  <2>2. \A j \in 1 .. InHand - 1 : j \in DOMAIN outbox /\ j < InHand
    BY <1>2, <2>1
  <2>3. QED
    BY <1>2, <2>2
<1>4. \A i : Untried(i)' = Untried(i)
  BY DEF Untried
<1>5. \A m \in DOMAIN posts' : \E i \in DOMAIN outbox :
        outbox[i].state = posts'[m].shows /\ \A j \in 1 .. i - 1 : ~Untried(j)
  BY <1>2, <1>3 DEF PassInv, Event
<1>6. QED
  BY <1>4, <1>5 DEF PassInv

LEMMA SlackAnswersKeeps == ASSUME IndInv, SlackAnswers, BusInv' PROVE IndInv'
<1>1. /\ TypeOK /\ PassInv /\ ThrottleInv /\ PostInv /\ DeliveredIsShown
      /\ Calling /\ Effect
      /\ UNCHANGED <<row, ex, outbox, quiet, left, skipped, disturbed, busVars, notifiers>>
  BY DEF IndInv, SlackAnswers
<1>2. PICK p \in {"save", "ok"}, t \in {NoTS} \cup DOMAIN posts' :
        /\ worker' = [worker EXCEPT !.pc = p, !.ts = t]
        /\ worker.pc = "post" => p = "save" /\ t = Len(posts) + 1
        /\ worker.pc # "post" => p = "ok" /\ t = worker.ts
  <2>1. CASE worker.pc = "post"
    <3>1. worker' = [worker EXCEPT !.pc = "save", !.ts = Len(posts) + 1]
      BY <2>1 DEF SlackAnswers
    <3>2. QED
      BY <1>1, <2>1, <3>1, Posted
  <2>2. CASE worker.pc # "post"
    <3>1. worker' = [worker EXCEPT !.pc = "ok"]
      BY <2>2 DEF SlackAnswers
    <3>2. worker' = [worker EXCEPT !.pc = "ok", !.ts = worker.ts]
      BY <1>1, <3>1, Types
    <3>3. worker.ts \in {NoTS} \cup DOMAIN posts'
      BY <1>1, Types, Posted
    <3>4. QED
      BY <2>2, <3>2, <3>3
  <2>3. QED
    BY <2>1, <2>2
<1>3. worker.pc # "idle" /\ worker.todo # {}
  BY <1>1, Types DEF Calling
<1>4. InHand \in DOMAIN outbox
  BY <1>1, <1>3, TriedBeforeHand
<1>5. /\ TypeOK' /\ worker'.pc = p /\ worker'.ts = t
      /\ worker'.todo = worker.todo /\ worker'.copy = worker.copy
  <2>1. /\ shown' \subseteq DOMAIN outbox /\ left' \in [faults : Nat, restarts : Nat]
        /\ disturbed' \in Nat
    BY <1>1, <1>4 DEF TypeOK, Effect
  <2>2. QED
    BY <1>1, <1>2, <1>3, <2>1, Posted, PostedTypes
<1>6. InHand' = InHand /\ Event' = Event
  BY <1>1, <1>5, HandKept DEF Event
<1>7. PassInv'
  BY <1>1, <1>5, Posted, PostedPass
<1>8. ThrottleInv'
  <2>1. \A i : Attempted(i) => Attempted(i)'
    BY <1>1, <1>2, <1>3, <1>5, <1>6 DEF Attempted, Calling
  <2>2. InHand \in shown'
    BY <1>1 DEF Effect
  <2>3. QED
    BY <1>1, <1>6, <2>1, <2>2 DEF ThrottleInv
<1>9. DeliveredIsShown'
  BY <1>1 DEF DeliveredIsShown, Effect
<1>10. PostInv'
  <2>1. \A x \in {row.ts, ex.ts, worker.copy.ts, t} \ {NoTS} : ~posts'[x].failure
    <3>1. \A x \in {row.ts, ex.ts, worker.copy.ts, worker.ts} \ {NoTS} :
            x \in DOMAIN posts /\ ~posts[x].failure
      BY <1>1, Types DEF PostInv, Rows
    <3>2. \A x \in DOMAIN posts : posts'[x].failure = posts[x].failure
      BY <1>1, Posted
    <3>3. worker.pc = "post" => ~posts'[t].failure
      BY <1>1, <1>2, Posted
    <3>4. QED
      BY <1>2, <3>1, <3>2, <3>3
  <2>2. p = "save" => worker.pc = "post" /\ row.ts = NoTS /\ t # NoTS
    <3>1. Len(posts) + 1 # NoTS
      BY <1>1, Types, NotificationsAssumption
    <3>2. QED
      BY <1>1, <1>2, <3>1 DEF PostInv
  <2>3. Cardinality(DeployMessages)' <=
          disturbed + (IF row.ts # NoTS \/ p = "save" THEN 1 ELSE 0)
    <3>1. disturbed \in Nat /\ Cardinality(DeployMessages) \in Nat
      BY <1>1, MessagesAreFinite DEF TypeOK
    <3>2. CASE worker.pc = "post"
      <4>1. Cardinality(DeployMessages) <= disturbed
        BY <1>1, <3>1, <3>2 DEF PostInv
      <4>2. Cardinality(DeployMessages') = Cardinality(DeployMessages) + 1
        BY <1>1, <3>2, Posted
      <4>3. QED
        BY <1>2, <3>1, <3>2, <4>1, <4>2
    <3>3. CASE worker.pc # "post"
      <4>1. DeployMessages' = DeployMessages
        BY <1>1, <3>3, Posted
      <4>2. worker.pc # "save"
        BY <1>1 DEF Calling
      <4>3. QED
        BY <1>1, <3>1, <4>1, <4>2 DEF PostInv
    <3>4. QED
      BY <3>2, <3>3
  <2>4. QED
    BY <1>1, <1>2, <1>5, <2>1, <2>2, <2>3 DEF PostInv
<1>11. QED
  BY <1>1, <1>5, <1>7, <1>8, <1>9, <1>10 DEF IndInv, RowFollowsRun, EntriesInv

LEMMA SlackFailsKeeps == ASSUME IndInv, SlackFails, BusInv' PROVE IndInv'
<1>1. /\ TypeOK /\ PassInv /\ ThrottleInv /\ PostInv /\ DeliveredIsShown
      /\ Calling /\ left.faults > 0 /\ left' = [left EXCEPT !.faults = @ - 1]
      /\ worker' = [worker EXCEPT !.pc = "failed"]
      /\ UNCHANGED <<row, ex, outbox, quiet, skipped, busVars, notifiers>>
  BY DEF IndInv, SlackFails
<1>2. worker.pc # "idle" /\ worker.todo # {} /\ worker.pc # "save"
  BY <1>1, Types DEF Calling
<1>3. InHand \in DOMAIN outbox
  BY <1>1, <1>2, TriedBeforeHand
<1>4. /\ posts' \in Seq([shows : State, failure : BOOLEAN])
      /\ DOMAIN posts \subseteq DOMAIN posts'
      /\ \A m \in DOMAIN posts : posts'[m].failure = posts[m].failure
      /\ \A m \in DOMAIN posts' :
           posts'[m].shows = Event \/ (m \in DOMAIN posts /\ posts'[m].shows = posts[m].shows)
  <2>1. CASE Effect
    BY <1>1, <2>1, Posted
  <2>2. CASE posts' = posts
    BY <1>1, <2>2, Types
  <2>3. QED
    BY <2>1, <2>2 DEF SlackFails
<1>5. /\ shown \subseteq shown' /\ shown' \subseteq DOMAIN outbox
      /\ disturbed \in Nat /\ disturbed' \in Nat
      /\ left' \in [faults : Nat, restarts : Nat]
  <2>1. shown' \in {shown, shown \cup {InHand}} /\ disturbed' \in {disturbed, disturbed + 1}
    BY DEF SlackFails, Effect
  <2>2. left \in [faults : Nat, restarts : Nat] /\ disturbed \in Nat /\ shown \subseteq DOMAIN outbox
    BY <1>1 DEF TypeOK
  <2>3. QED
    BY <1>1, <1>3, <2>1, <2>2
<1>6. /\ TypeOK' /\ worker'.pc = "failed" /\ worker'.ts = worker.ts
      /\ worker'.todo = worker.todo /\ worker'.copy = worker.copy
  <2>1. worker' = [worker EXCEPT !.pc = "failed", !.ts = worker.ts]
    BY <1>1, Types
  <2>2. worker.ts \in {NoTS} \cup DOMAIN posts'
    BY <1>1, <1>4, Types
  <2>3. QED
    BY <1>1, <1>2, <1>4, <1>5, <2>1, <2>2, PostedTypes
<1>7. InHand' = InHand
  BY <1>6, HandKept
<1>8. PassInv'
  BY <1>1, <1>4, <1>6, PostedPass
<1>9. ThrottleInv'
  <2>1. \A i : Attempted(i) => Attempted(i)'
    BY <1>1, <1>6, <1>7 DEF Attempted
  <2>2. QED
    BY <1>1, <1>6, <2>1 DEF ThrottleInv
<1>10. DeliveredIsShown'
  BY <1>1, <1>5 DEF DeliveredIsShown
<1>11. PostInv'
  <2>1. \A x \in {row.ts, ex.ts, worker.copy.ts, worker.ts} \ {NoTS} : ~posts'[x].failure
    <3>1. \A x \in {row.ts, ex.ts, worker.copy.ts, worker.ts} \ {NoTS} :
            x \in DOMAIN posts /\ ~posts[x].failure
      BY <1>1, Types DEF PostInv, Rows
    <3>2. QED
      BY <1>4, <3>1
  <2>2. Cardinality(DeployMessages)' <= disturbed' + (IF row.ts # NoTS THEN 1 ELSE 0)
    <3>1. /\ Cardinality(DeployMessages) \in Nat
          /\ Cardinality(DeployMessages) <= disturbed + (IF row.ts # NoTS THEN 1 ELSE 0)
      BY <1>1, <1>2, MessagesAreFinite DEF PostInv
    <3>2. CASE posts' = posts /\ disturbed' = disturbed
      BY <3>1, <3>2 DEF DeployMessages
    <3>3. CASE Effect /\ worker.pc = "post" /\ disturbed' = disturbed + 1
      <4>1. Cardinality(DeployMessages') = Cardinality(DeployMessages) + 1
        BY <1>1, <3>3, Posted
      <4>2. QED
        BY <1>5, <3>1, <3>3, <4>1
    <3>4. CASE Effect /\ worker.pc # "post" /\ disturbed' = disturbed
      <4>1. DeployMessages' = DeployMessages
        BY <1>1, <3>4, Posted
      <4>2. QED
        BY <3>1, <3>4, <4>1
    <3>5. QED
      BY <3>2, <3>3, <3>4 DEF SlackFails
  <2>3. QED
    BY <1>1, <1>6, <2>1, <2>2 DEF PostInv
<1>12. QED
  BY <1>1, <1>6, <1>8, <1>9, <1>10, <1>11 DEF IndInv, RowFollowsRun, EntriesInv

LEMMA SaveTSKeeps == ASSUME IndInv, SaveTS, BusInv' PROVE IndInv'
<1>1. /\ TypeOK /\ PassInv /\ ThrottleInv /\ PostInv /\ DeliveredIsShown /\ RowFollowsRun /\ EntriesInv
      /\ worker.pc = "save"
      /\ UNCHANGED <<ex, outbox, quiet, posts, left, shown, skipped, busVars, notifiers>>
  BY DEF IndInv, SaveTS
<1>2. /\ worker.copy \in [state : State, ts : {NoTS} \cup DOMAIN posts]
      /\ worker.ts \in DOMAIN posts /\ worker.todo # {} /\ disturbed \in Nat
      /\ row \in [state : State, ts : {NoTS} \cup DOMAIN posts]
      /\ Cardinality(DeployMessages) \in Nat
  BY <1>1, Types, MessagesAreFinite DEF PostInv, Rows, TypeOK
<1>3. PICK p \in {"ok", "failed"} :
        /\ worker' = [worker EXCEPT !.pc = p]
        /\ p = "ok" => row' = [worker.copy EXCEPT !.ts = worker.ts] /\ disturbed' = disturbed
                         /\ row.state = worker.copy.state
        /\ p = "failed" => row' = row /\ disturbed' = disturbed + 1
  <2>1. CASE MaySave(worker.copy)
    BY <2>1 DEF SaveTS, MaySave
  <2>2. CASE ~MaySave(worker.copy)
    BY <2>2 DEF SaveTS
  <2>3. QED
    BY <2>1, <2>2
<1>4. /\ worker'.pc = p /\ worker'.todo = worker.todo
      /\ worker'.copy = worker.copy /\ worker'.ts = worker.ts
      /\ worker' \in [pc : {"idle", "entry", "post", "post_failure", "update", "save", "ok",
                             "failed"},
                      todo : SUBSET DOMAIN outbox, copy : Rows, ts : {NoTS} \cup DOMAIN posts]
  BY <1>1, <1>3, Types
<1>5. InHand' = InHand /\ Event' = Event
  BY <1>1, <1>4, HandKept DEF Event
<1>6. /\ row'.state = row.state /\ row'.ts \in {row.ts, worker.ts}
      /\ p = "ok" => row'.ts # NoTS
      /\ row.ts = NoTS
      /\ row' \in [state : State, ts : {NoTS} \cup DOMAIN posts]
  <2>1. row.ts = NoTS /\ worker.ts # NoTS
    BY <1>1 DEF PostInv
  <2>2. QED
    BY <1>2, <1>3, <2>1
<1>7. TypeOK'
  <2>1. row' \in Rows' /\ Rows' = Rows
    BY <1>1, <1>6 DEF Rows
  <2>2. disturbed' \in Nat
    BY <1>2, <1>3
  <2>3. (worker'.pc = "idle") = (worker'.todo = {})
    BY <1>2, <1>4
  <2>4. QED
    BY <1>1, <1>4, <2>1, <2>2, <2>3 DEF TypeOK, BusInv
<1>8. PassInv'
  BY <1>1, <1>4 DEF PassInv, Untried
<1>9. ThrottleInv'
  <2>1. \A i : Attempted(i) => Attempted(i)'
    BY <1>1, <1>4, <1>5 DEF Attempted
  <2>2. InHand \in shown
    BY <1>1 DEF ThrottleInv
  <2>3. QED
    BY <1>1, <1>4, <1>5, <2>1, <2>2 DEF ThrottleInv
<1>10. DeliveredIsShown' /\ RowFollowsRun' /\ EntriesInv'
  BY <1>1, <1>6 DEF DeliveredIsShown, RowFollowsRun, EntriesInv
<1>11. PostInv'
  <2>1. ex.ts = NoTS /\ worker.ts # NoTS
    BY <1>1, <1>6 DEF PostInv
  <2>2. \A x \in {row'.ts, ex.ts, worker.copy.ts, worker.ts} \ {NoTS} : ~posts[x].failure
    BY <1>1, <1>6 DEF PostInv
  <2>3. Cardinality(DeployMessages) <= disturbed' + (IF row'.ts # NoTS THEN 1 ELSE 0)
    <3>1. Cardinality(DeployMessages) <= disturbed + 1
      BY <1>1 DEF PostInv
    <3>2. QED
      BY <1>2, <1>3, <1>6, <3>1
  <2>4. DeployMessages' = DeployMessages
    BY <1>1 DEF DeployMessages
  <2>5. QED
    BY <1>1, <1>4, <1>5, <2>1, <2>2, <2>3, <2>4 DEF PostInv
<1>12. QED
  BY <1>1, <1>7, <1>8, <1>9, <1>10, <1>11 DEF IndInv

\* The end of an attempt: the entry in hand is no longer untried, and the next
\* one is taken.
LEMMA EntryAttempted ==
  ASSUME IndInv, BusInv', worker.pc \in {"ok", "failed"}, worker' = NextEntry,
         NEW e \in Entries, outbox' = [outbox EXCEPT ![InHand] = e],
         e.state = Event, e.notifier = outbox[InHand].notifier,
         e.delivered \/ e.attempts > 0,
         e.delivered /\ e.notifier = "slack" /\ e.state \in Subscribed =>
           InHand \in shown \/ (InHand \in skipped /\ e.attempts > 0),
         UNCHANGED <<row, ex, quiet, posts, left, shown, skipped, disturbed, busVars, notifiers>>
  PROVE  IndInv'
<1>1. /\ TypeOK /\ PassInv /\ ThrottleInv /\ PostInv /\ DeliveredIsShown /\ RowFollowsRun /\ EntriesInv
  BY DEF IndInv
<1>2. PICK h : h = InHand
  OBVIOUS
<1>3. /\ h \in worker.todo /\ h \in DOMAIN outbox /\ worker.todo # {}
      /\ \A i \in DOMAIN outbox : i < h => ~Untried(i)
      /\ outbox[h].state = e.state /\ outbox[h].notifier = e.notifier
      /\ outbox \in Seq(Entries) /\ DOMAIN outbox = 1 .. Len(outbox) /\ Len(outbox) \in Nat
  <2>1. worker.todo # {}
    BY <1>1, Types
  <2>2. QED
    BY <1>1, <1>2, <2>1, Types, TriedBeforeHand DEF Event
<1>4. /\ outbox' \in Seq(Entries) /\ DOMAIN outbox' = DOMAIN outbox /\ outbox'[h] = e
      /\ \A i \in DOMAIN outbox : i # h => outbox'[i] = outbox[i]
  BY <1>2, <1>3, Replaced
<1>5. PICK p : p = IF worker.todo = {h} THEN "idle" ELSE "entry"
  OBVIOUS
<1>6. /\ worker'.pc = p /\ worker'.todo = worker.todo \ {h}
      /\ worker'.copy = worker.copy /\ worker'.ts = worker.ts
      /\ worker' \in [pc : {"idle", "entry", "post", "post_failure", "update", "save", "ok",
                             "failed"},
                      todo : SUBSET DOMAIN outbox, copy : Rows, ts : {NoTS} \cup DOMAIN posts]
  <2>1. worker' = [worker EXCEPT !.todo = @ \ {h}, !.pc = p]
    BY <1>2, <1>5 DEF NextEntry
  <2>2. QED
    BY <1>1, <1>5, <2>1, Types
<1>7. TypeOK'
  <2>1. (worker'.pc = "idle") = (worker'.todo = {})
    BY <1>3, <1>5, <1>6
  <2>2. shown \cup skipped \subseteq DOMAIN outbox'
    BY <1>1, <1>4 DEF TypeOK
  <2>3. worker' \in [pc : {"idle", "entry", "post", "post_failure", "update", "save", "ok",
                            "failed"},
                     todo : SUBSET DOMAIN outbox', copy : Rows, ts : {NoTS} \cup DOMAIN posts]
    BY <1>4, <1>6
  <2>4. QED
    BY <1>1, <1>4, <2>1, <2>2, <2>3 DEF TypeOK, BusInv, Rows
<1>8. /\ \A i \in DOMAIN outbox : outbox'[i].state = outbox[i].state
      /\ \A i \in DOMAIN outbox : outbox'[i].notifier = outbox[i].notifier
  BY <1>3, <1>4
<1>9. EntriesInv'
  BY <1>1, <1>4, <1>8 DEF EntriesInv
<1>10. /\ \A i \in DOMAIN outbox : Untried(i)' => Untried(i) /\ i # h
       /\ \A i \in DOMAIN outbox : Untried(i) /\ i # h => Untried(i)'
       /\ \A i \in DOMAIN outbox : Untried(i) => i >= h
  <2>1. \A i \in DOMAIN outbox : i # h => Untried(i)' = Untried(i)
    BY <1>4 DEF Untried
  <2>2. ~Untried(h)'
    <3>1. ASSUME e.attempts > 0 PROVE e.attempts # 0
      BY <3>1 DEF Entries
    <3>2. QED
      BY <1>4, <3>1 DEF Untried
  <2>3. \A i \in DOMAIN outbox : Untried(i) => i >= h
    BY <1>3
  <2>4. \A i \in DOMAIN outbox : Untried(i)' => Untried(i) /\ i # h
    BY <2>1, <2>2
  <2>5. \A i \in DOMAIN outbox : Untried(i) /\ i # h => Untried(i)'
    BY <2>1
  <2>6. QED
    BY <2>3, <2>4, <2>5
<1>11. PassInv'
  <2>1. \A i \in DOMAIN outbox' : Untried(i)' => outbox'[i].wait = 0
    BY <1>1, <1>4, <1>10 DEF PassInv
  <2>2. \A i \in worker'.todo : ~outbox'[i].delivered
    BY <1>1, <1>4, <1>6, Types DEF PassInv
  <2>3. \A i, j \in DOMAIN outbox' : i < j /\ Untried(i)' => Untried(j)'
    <3> SUFFICES ASSUME NEW i \in DOMAIN outbox, NEW j \in DOMAIN outbox, i < j, Untried(i)'
                 PROVE  Untried(j)'
      BY <1>4
    <3>1. Untried(i) /\ i # h /\ i >= h
      BY <1>10
    <3>2. Untried(j) /\ j # h
      BY <1>1, <1>3, <3>1 DEF PassInv
    <3>3. QED
      BY <1>10, <3>2
  <2>4. \A i \in DOMAIN outbox', j \in worker'.todo :
          i < j /\ Untried(i)' /\ Untried(j)' => i \in worker'.todo
    BY <1>1, <1>4, <1>6, <1>10, Types DEF PassInv
  <2>5. \A m \in DOMAIN posts' : \E i \in DOMAIN outbox' :
          outbox'[i].state = posts'[m].shows /\ \A j \in 1 .. i - 1 : ~Untried(j)'
    <3> SUFFICES ASSUME NEW m \in DOMAIN posts
                 PROVE  \E i \in DOMAIN outbox :
                          outbox'[i].state = posts[m].shows /\ \A j \in 1 .. i - 1 : ~Untried(j)'
      BY <1>4
    <3>1. PICK i \in DOMAIN outbox :
            outbox[i].state = posts[m].shows /\ \A j \in 1 .. i - 1 : ~Untried(j)
      BY <1>1 DEF PassInv
    <3>2. \A j \in 1 .. i - 1 : j \in DOMAIN outbox
      BY <1>3
    <3>3. QED
      BY <1>8, <1>10, <3>1, <3>2
  <2>6. QED
    BY <2>1, <2>2, <2>3, <2>4, <2>5 DEF PassInv
<1>12. ThrottleInv'
  <2>1. \A i \in DOMAIN outbox : Attempted(i) => Attempted(i)'
    <3>1. Attempted(h)'
      BY <1>4 DEF Attempted
    <3>2. \A i \in DOMAIN outbox : i # h /\ Attempted(i) => Attempted(i)'
      BY <1>2, <1>4 DEF Attempted
    <3>3. QED
      BY <3>1, <3>2
  <2>2. \A s \in State : quiet[s] > 0 =>
          \E i \in DOMAIN outbox' :
            outbox'[i].state = s /\ outbox'[i].notifier = "slack" /\ Attempted(i)'
    BY <1>1, <1>4, <1>8, <2>1 DEF ThrottleInv
  <2>3. worker'.pc # "save" /\ worker'.pc # "ok"
    BY <1>5, <1>6
  <2>4. QED
    BY <2>2, <2>3 DEF ThrottleInv
<1>13. DeliveredIsShown'
  BY <1>1, <1>2, <1>4, <1>8 DEF DeliveredIsShown
<1>14. PostInv'
  <2>1. worker.pc # "save" /\ worker'.pc \in {"idle", "entry"}
    BY <1>5, <1>6
  <2>2. QED
    BY <1>1, <1>6, <2>1 DEF PostInv, DeployMessages
<1>15. RowFollowsRun'
  BY <1>1 DEF RowFollowsRun
<1>16. QED
  BY <1>7, <1>9, <1>11, <1>12, <1>13, <1>14, <1>15 DEF IndInv

LEMMA MarkDeliveredKeeps == ASSUME IndInv, MarkDelivered, BusInv' PROVE IndInv'
<1>1. /\ worker.pc = "ok" /\ worker' = NextEntry
      /\ outbox' = [outbox EXCEPT ![InHand].delivered = TRUE]
      /\ UNCHANGED <<row, ex, quiet, posts, left, shown, skipped, disturbed, busVars, notifiers>>
  BY DEF MarkDelivered
<1>2. InHand \in DOMAIN outbox /\ outbox[InHand] \in Entries
  <2>1. worker.todo # {}
    BY <1>1, Types DEF IndInv
  <2>2. QED
    BY <2>1, TriedBeforeHand, Types DEF IndInv
<1>3. PICK e : e = [outbox[InHand] EXCEPT !.delivered = TRUE]
  OBVIOUS
<1>4. /\ e \in Entries /\ outbox' = [outbox EXCEPT ![InHand] = e]
      /\ e.state = Event /\ e.notifier = outbox[InHand].notifier /\ e.delivered
      /\ e.attempts = outbox[InHand].attempts
  BY <1>1, <1>2, <1>3 DEF Entries, Event
<1>5. e.notifier = "slack" /\ e.state \in Subscribed =>
        InHand \in shown \/ (InHand \in skipped /\ e.attempts > 0)
  BY <1>1, <1>4 DEF IndInv, ThrottleInv
<1>6. QED
  BY <1>1, <1>4, <1>5, EntryAttempted

LEMMA MarkFailedKeeps == ASSUME IndInv, MarkFailed, BusInv' PROVE IndInv'
<1>1. /\ worker.pc = "failed" /\ worker' = NextEntry
      /\ outbox' = [outbox EXCEPT ![InHand].attempts = outbox[InHand].attempts + 1,
                                  ![InHand].wait = Backoff(outbox[InHand].attempts + 1)]
      /\ UNCHANGED <<row, ex, quiet, posts, left, shown, skipped, disturbed, busVars, notifiers>>
  BY DEF MarkFailed
<1>2. InHand \in DOMAIN outbox /\ outbox[InHand] \in Entries /\ ~outbox[InHand].delivered
  <2>1. worker.todo # {}
    BY <1>1, Types DEF IndInv
  <2>2. QED
    BY <2>1, TriedBeforeHand, Types DEF IndInv
<1>3. PICK n \in Nat : n = outbox[InHand].attempts + 1 /\ n > 0
  BY <1>2 DEF Entries
<1>4. PICK w \in 0 .. 300 : w = Backoff(n)
  BY BackoffIsCapped
<1>5. PICK e : e = [outbox[InHand] EXCEPT !.attempts = n, !.wait = w]
  OBVIOUS
<1>6. outbox' = [outbox EXCEPT ![InHand].attempts = n, ![InHand].wait = w]
  BY <1>1, <1>3, <1>4
<1>7. /\ e \in Entries /\ outbox' = [outbox EXCEPT ![InHand] = e]
      /\ e.state = Event /\ e.notifier = outbox[InHand].notifier /\ ~e.delivered
      /\ e.attempts = n
  BY <1>2, <1>3, <1>5, <1>6 DEF Entries, Event
<1>8. QED
  BY <1>1, <1>3, <1>7, EntryAttempted

LEMMA TickKeeps == ASSUME IndInv, Tick, BusInv' PROVE IndInv'
<1>1. /\ TypeOK /\ PassInv /\ ThrottleInv /\ PostInv /\ DeliveredIsShown /\ RowFollowsRun /\ EntriesInv
      /\ outbox' = [i \in DOMAIN outbox |-> [outbox[i] EXCEPT !.wait = Less(@)]]
      /\ quiet' = [s \in State |-> Less(quiet[s])]
      /\ UNCHANGED <<row, ex, worker, posts, left, shown, skipped, disturbed, busVars, notifiers>>
  BY DEF IndInv, Tick
<1>2. \A n \in Nat : Less(n) \in 0 .. n /\ (Less(n) > 0 => n > 0)
  BY DEF Less, Tick2s
<1>3. \A i \in DOMAIN outbox :
        /\ outbox'[i] \in Entries
        /\ outbox'[i].state = outbox[i].state /\ outbox'[i].notifier = outbox[i].notifier
        /\ outbox'[i].attempts = outbox[i].attempts /\ outbox'[i].delivered = outbox[i].delivered
        /\ outbox[i].wait = 0 => outbox'[i].wait = 0
  <2> SUFFICES ASSUME NEW i \in DOMAIN outbox
               PROVE  /\ outbox'[i] \in Entries
                      /\ outbox'[i].state = outbox[i].state
                      /\ outbox'[i].notifier = outbox[i].notifier
                      /\ outbox'[i].attempts = outbox[i].attempts
                      /\ outbox'[i].delivered = outbox[i].delivered
                      /\ outbox[i].wait = 0 => outbox'[i].wait = 0
    OBVIOUS
  <2>1. PICK e : e = outbox[i]
    OBVIOUS
  <2>2. e \in Entries /\ e.wait \in 0 .. 300
    BY <1>1, <2>1, Types DEF Entries
  <2>3. PICK w : w = Less(e.wait)
    OBVIOUS
  <2>4. w \in 0 .. 300 /\ (e.wait = 0 => w = 0)
    <3>1. PICK n \in 0 .. 300 : n = e.wait
      BY <2>2
    <3>2. n \in Nat /\ Less(n) \in 0 .. n
      BY <1>2, <3>1
    <3>3. QED
      BY <2>3, <3>1, <3>2
  <2>5. outbox'[i] = [e EXCEPT !.wait = w]
    BY <1>1, <2>1, <2>3
  <2>6. QED
    BY <2>1, <2>2, <2>4, <2>5 DEF Entries
<1>4. DOMAIN outbox' = DOMAIN outbox /\ outbox' \in Seq(Entries)
  <2>1. DOMAIN outbox = 1 .. Len(outbox) /\ Len(outbox) \in Nat
    BY <1>1, Types
  <2>2. outbox' \in [1 .. Len(outbox) -> Entries]
    BY <1>1, <1>3, <2>1
  <2>3. QED
    BY <1>1, <2>1, <2>2
<1>5. /\ quiet' \in [State -> 0 .. MinUpdateInterval]
      /\ \A s \in State : quiet'[s] > 0 => quiet[s] > 0
  <2>1. \A s \in State : quiet[s] \in 0 .. MinUpdateInterval /\ MinUpdateInterval \in Nat
    BY <1>1 DEF TypeOK, MinUpdateInterval
  <2>2. \A s \in State : Less(quiet[s]) \in 0 .. MinUpdateInterval
                          /\ (Less(quiet[s]) > 0 => quiet[s] > 0)
    BY <1>2, <2>1
  <2>3. QED
    BY <1>1, <2>2
<1>6. InHand' = InHand
  BY <1>1, HandKept
<1>7. TypeOK'
  <2>1. worker \in [pc : {"idle", "entry", "post", "post_failure", "update", "save", "ok",
                           "failed"},
                    todo : SUBSET DOMAIN outbox', copy : Rows, ts : {NoTS} \cup DOMAIN posts]
    BY <1>1, <1>4, Types
  <2>2. shown \cup skipped \subseteq DOMAIN outbox'
    BY <1>1, <1>4 DEF TypeOK
  <2>3. QED
    BY <1>1, <1>4, <1>5, <2>1, <2>2 DEF TypeOK, BusInv, Rows
<1>8. \A i \in DOMAIN outbox : Untried(i)' = Untried(i)
  BY <1>3 DEF Untried
<1>9. PassInv'
  <2>1. \A i \in worker.todo : i \in DOMAIN outbox
    BY <1>1, Types
  <2>2. ASSUME NEW m \in DOMAIN posts
        PROVE  \E i \in DOMAIN outbox :
                 outbox'[i].state = posts[m].shows /\ \A j \in 1 .. i - 1 : ~Untried(j)'
    <3>1. PICK i \in DOMAIN outbox :
            outbox[i].state = posts[m].shows /\ \A j \in 1 .. i - 1 : ~Untried(j)
      BY <1>1 DEF PassInv
    <3>2. \A j \in 1 .. i - 1 : j \in DOMAIN outbox
      BY <1>1, Types
    <3>3. QED
      BY <1>3, <1>8, <3>1, <3>2
  <2>3. QED
    BY <1>1, <1>3, <1>4, <1>8, <2>1, <2>2 DEF PassInv
<1>10. ThrottleInv'
  <2>1. \A i \in DOMAIN outbox : Attempted(i)' = Attempted(i)
    BY <1>1, <1>3, <1>6 DEF Attempted
  <2>2. \A s \in State : quiet'[s] > 0 =>
          \E i \in DOMAIN outbox' :
            outbox'[i].state = s /\ outbox'[i].notifier = "slack" /\ Attempted(i)'
    BY <1>1, <1>3, <1>4, <1>5, <2>1 DEF ThrottleInv
  <2>3. ASSUME worker.pc = "ok", outbox'[InHand].notifier = "slack", outbox'[InHand].state \in Subscribed
        PROVE  InHand \in shown \/ (InHand \in skipped /\ outbox'[InHand].attempts > 0)
    <3>1. InHand \in DOMAIN outbox
      BY <1>1, <2>3, TriedBeforeHand, Types
    <3>2. /\ outbox[InHand].notifier = "slack" /\ outbox[InHand].state \in Subscribed
          /\ outbox'[InHand].attempts = outbox[InHand].attempts
      BY <1>3, <2>3, <3>1
    <3>3. QED
      BY <1>1, <2>3, <3>2 DEF ThrottleInv, Event
  <2>4. worker.pc = "save" => InHand \in shown
    BY <1>1 DEF ThrottleInv
  <2>5. QED
    BY <1>1, <1>6, <2>2, <2>3, <2>4 DEF ThrottleInv, Event
<1>11. DeliveredIsShown' /\ RowFollowsRun' /\ EntriesInv'
  <2>1. DeliveredIsShown'
    BY <1>1, <1>3, <1>4 DEF DeliveredIsShown
  <2>2. RowFollowsRun'
    BY <1>1 DEF RowFollowsRun
  <2>3. /\ \A i \in DOMAIN outbox : outbox'[i].state = outbox[i].state
        /\ \A i \in DOMAIN outbox : outbox'[i].notifier = outbox[i].notifier
    BY <1>3
  <2>4. EntriesInv /\ row' = row
    BY <1>1
  <2>5. EntriesInv'
    BY <1>4, <2>3, <2>4 DEF EntriesInv
  <2>6. QED
    BY <2>1, <2>2, <2>5
<1>12. PostInv'
  <2>1. worker.pc \in {"post", "update", "post_failure"} => InHand \in DOMAIN outbox
    BY <1>1, TriedBeforeHand, Types
  <2>2. QED
    BY <1>1, <1>3, <1>6, <2>1 DEF PostInv, DeployMessages, Event
<1>13. QED
  BY <1>1, <1>7, <1>9, <1>10, <1>11, <1>12 DEF IndInv

(***************************************************************************)
(* The run's steps, the crash and the browser.                             *)
(***************************************************************************)

\* The run writes its whole copy of the row.
LEMMA SaveCopyKeeps ==
  ASSUME IndInv, SaveCopy, BusInv', NEW p \in {"saved", "failing", "unknown"},
         ex' = [ex EXCEPT !.pc = p],
         UNCHANGED <<outbox, worker, quiet, posts, left, shown, skipped, busVars, notifiers>>
  PROVE  IndInv'
<1>1. /\ TypeOK /\ PassInv /\ ThrottleInv /\ PostInv /\ DeliveredIsShown /\ RowFollowsRun /\ EntriesInv
      /\ row' = [state |-> ex.state, ts |-> ex.ts]
      /\ disturbed' = IF row.ts # ex.ts THEN disturbed + 1 ELSE disturbed
  BY DEF IndInv, SaveCopy
<1>2. /\ ex \in [pc : {"step", "saved", "failing", "reconciling", "unknown", "ended"},
                 state : State, ts : {NoTS} \cup DOMAIN posts]
      /\ row \in [state : State, ts : {NoTS} \cup DOMAIN posts]
      /\ disturbed \in Nat /\ Cardinality(DeployMessages) \in Nat
  BY <1>1, Types, MessagesAreFinite DEF TypeOK
<1>3. /\ row'.state = row.state /\ row'.ts = ex.ts
      /\ ex'.state = ex.state /\ ex'.ts = ex.ts
      /\ row' \in [state : State, ts : {NoTS} \cup DOMAIN posts]
      /\ ex' \in [pc : {"step", "saved", "failing", "reconciling", "unknown", "ended"},
                  state : State, ts : {NoTS} \cup DOMAIN posts]
  BY <1>1, <1>2 DEF RowFollowsRun
<1>4. TypeOK'
  <2>1. row' \in Rows' /\ Rows' = Rows
    BY <1>3 DEF Rows
  <2>2. disturbed' \in Nat
    BY <1>1, <1>2
  <2>3. QED
    BY <1>1, <1>3, <2>1, <2>2 DEF TypeOK, BusInv
<1>5. PassInv' /\ DeliveredIsShown'
  BY <1>1 DEF PassInv, DeliveredIsShown, Untried
<1>6. ThrottleInv'
  <2>1. InHand' = InHand
    BY HandKept
  <2>2. QED
    BY <1>1, <2>1 DEF ThrottleInv, Attempted, Event
<1>7. RowFollowsRun' /\ EntriesInv'
  BY <1>1, <1>3 DEF RowFollowsRun, EntriesInv
<1>8. PostInv'
  <2>1. InHand' = InHand /\ Event' = Event
    BY HandKept DEF Event
  <2>2. worker.pc \in {"post", "save"} => row'.ts = NoTS
    BY <1>1, <1>3 DEF PostInv
  <2>3. \A x \in {row'.ts, ex'.ts, worker.copy.ts, worker.ts} \ {NoTS} : ~posts[x].failure
    BY <1>1, <1>3 DEF PostInv
  <2>4. Cardinality(DeployMessages) <=
          disturbed' + (IF row'.ts # NoTS \/ worker.pc = "save" THEN 1 ELSE 0)
    <3>1. /\ Cardinality(DeployMessages) <=
               disturbed + (IF row.ts # NoTS \/ worker.pc = "save" THEN 1 ELSE 0)
          /\ row.ts = NoTS => ex.ts = NoTS
      BY <1>1 DEF PostInv
    <3>2. CASE row.ts # ex.ts
      BY <1>1, <1>2, <3>1, <3>2
    <3>3. CASE row.ts = ex.ts
      BY <1>1, <1>3, <3>1, <3>3
    <3>4. QED
      BY <3>2, <3>3
  <2>5. DeployMessages' = DeployMessages
    BY DEF DeployMessages
  <2>6. QED
    BY <1>1, <1>3, <2>1, <2>2, <2>3, <2>4, <2>5 DEF PostInv
<1>9. QED
  BY <1>1, <1>4, <1>5, <1>6, <1>7, <1>8 DEF IndInv

\* A move appends the entries of a state the run has not been in.
LEMMA MoveKeeps ==
  ASSUME IndInv, BusInv', NEW s \in State, MoveAndNotify(s), NEW p \in {"step", "ended"},
         ex' = [ex EXCEPT !.state = s, !.pc = p],
         UNCHANGED <<worker, quiet, posts, left, shown, skipped, disturbed, busVars, notifiers>>
  PROVE  IndInv'
<1>1. /\ TypeOK /\ PassInv /\ ThrottleInv /\ PostInv /\ DeliveredIsShown /\ RowFollowsRun /\ EntriesInv
      /\ CanTransition(ex.state, s) /\ row' = [row EXCEPT !.state = s]
  BY DEF IndInv, MoveAndNotify
<1>2. PICK new : new = [i \in DOMAIN notifiers |-> Entry(s, notifiers[i])]
  OBVIOUS
<1>3. outbox' = outbox \o new
  BY <1>2 DEF MoveAndNotify
<1>4. /\ new \in Seq(Entries) /\ DOMAIN new = DOMAIN notifiers
      /\ \A i \in DOMAIN new : /\ new[i] = Entry(s, notifiers[i])
                               /\ notifiers[i] \in {"dashboard", "slack"}
      /\ \A i, j \in DOMAIN new : notifiers[i] = notifiers[j] => i = j
  <2>1. /\ notifiers \in Seq({"dashboard", "slack"})
        /\ \A i, j \in DOMAIN notifiers : notifiers[i] = notifiers[j] => i = j
    BY <1>1, NotificationsAssumption DEF TypeOK
  <2>2. /\ DOMAIN notifiers = 1 .. Len(notifiers) /\ Len(notifiers) \in Nat
        /\ \A i \in DOMAIN notifiers : notifiers[i] \in {"dashboard", "slack"}
    BY <2>1
  <2>3. \A i \in DOMAIN notifiers : Entry(s, notifiers[i]) \in Entries
    BY <2>2 DEF Entry, Entries
  <2>4. new \in [1 .. Len(notifiers) -> Entries]
    BY <1>2, <2>2, <2>3
  <2>5. QED
    BY <1>2, <2>1, <2>2, <2>4
<1>5. \A i \in DOMAIN new :
        /\ new[i].state = s /\ new[i].notifier = notifiers[i]
        /\ new[i].attempts = 0 /\ new[i].wait = 0 /\ ~new[i].delivered
  BY <1>4 DEF Entry
<1>6. PICK k \in Nat : k = Len(outbox)
  BY <1>1, Types
<1>7. /\ outbox' \in Seq(Entries) /\ DOMAIN outbox = 1 .. k
      /\ DOMAIN outbox \subseteq DOMAIN outbox'
      /\ \A i \in DOMAIN outbox : outbox'[i] = outbox[i]
      /\ \A i \in DOMAIN outbox' \ DOMAIN outbox :
           /\ i \in Nat /\ i > k /\ i - k \in DOMAIN new
           /\ outbox'[i].state = s /\ outbox'[i].notifier = notifiers[i - k]
           /\ outbox'[i].attempts = 0 /\ outbox'[i].wait = 0 /\ ~outbox'[i].delivered
  <2>1. /\ outbox' \in Seq(Entries) /\ DOMAIN outbox' = 1 .. k + Len(new) /\ Len(new) \in Nat
        /\ DOMAIN outbox = 1 .. k /\ DOMAIN new = 1 .. Len(new)
        /\ \A j \in DOMAIN outbox : outbox'[j] = outbox[j]
        /\ \A j \in DOMAIN new : outbox'[k + j] = new[j]
    BY <1>1, <1>3, <1>4, <1>6, Extended, Types
  <2>2. ASSUME NEW i \in DOMAIN outbox' \ DOMAIN outbox
        PROVE  i \in Nat /\ i > k /\ i - k \in DOMAIN new /\ outbox'[i] = new[i - k]
    <3>1. i \in Nat /\ i > k /\ i - k \in DOMAIN new /\ k + (i - k) = i
      BY <2>1
    <3>2. QED
      BY <2>1, <3>1
  <2>3. QED
    BY <1>5, <2>1, <2>2
<1>8. /\ row'.state = s /\ row'.ts = row.ts /\ ex'.state = s /\ ex'.ts = ex.ts
      /\ row' \in [state : State, ts : {NoTS} \cup DOMAIN posts]
      /\ ex' \in [pc : {"step", "saved", "failing", "reconciling", "unknown", "ended"},
                  state : State, ts : {NoTS} \cup DOMAIN posts]
  BY <1>1, Types
<1>9. TypeOK'
  <2>1. row' \in Rows' /\ Rows' = Rows
    BY <1>8 DEF Rows
  <2>2. worker \in [pc : {"idle", "entry", "post", "post_failure", "update", "save", "ok",
                           "failed"},
                    todo : SUBSET DOMAIN outbox', copy : Rows, ts : {NoTS} \cup DOMAIN posts]
    BY <1>1, <1>7, Types
  <2>3. shown \cup skipped \subseteq DOMAIN outbox'
    BY <1>1, <1>7 DEF TypeOK
  <2>4. QED
    BY <1>1, <1>7, <1>8, <2>1, <2>2, <2>3 DEF TypeOK, BusInv
<1>10. InHand' = InHand
  BY HandKept
<1>11. worker.todo # {} => InHand \in DOMAIN outbox
  BY <1>1, TriedBeforeHand
<1>12. EntriesInv'
  <2>1. Depth[row.state] < Depth[s] /\ Depth[row.state] \in 0 .. 7 /\ Depth[s] \in 0 .. 7
    <3>1. row.state = ex.state /\ ex.state \in State
      BY <1>1, Types DEF RowFollowsRun
    <3>2. QED
      BY <1>1, <3>1, MovesGoDown
  <2>2. \A i \in DOMAIN outbox : Depth[outbox[i].state] \in 0 .. 7 /\ Depth[outbox[i].state] < Depth[s]
    <3>1. \A i \in DOMAIN outbox : outbox[i].state \in State
      BY <1>1, Types DEF Entries
    <3>2. \A i \in DOMAIN outbox :
            Depth[outbox[i].state] \in 0 .. 7 /\ Depth[outbox[i].state] <= Depth[row.state]
      BY <1>1, <3>1, DepthIsNat DEF EntriesInv
    <3>3. QED
      BY <2>1, <3>2
  <2>3. ASSUME NEW i \in DOMAIN outbox' PROVE Depth[outbox'[i].state] <= Depth[row'.state]
    <3>1. CASE i \in DOMAIN outbox
      <4>1. outbox'[i].state = outbox[i].state
        BY <1>7, <3>1
      <4>2. Depth[outbox[i].state] \in 0 .. 7 /\ Depth[outbox[i].state] < Depth[s]
        BY <2>2, <3>1
      <4>3. QED
        BY <1>8, <2>1, <4>1, <4>2
    <3>2. CASE i \notin DOMAIN outbox
      BY <1>7, <1>8, <2>1, <3>2
    <3>3. QED
      BY <3>1, <3>2
  <2>4. ASSUME NEW i \in DOMAIN outbox', NEW j \in DOMAIN outbox', i < j
        PROVE  \/ Depth[outbox'[i].state] < Depth[outbox'[j].state]
               \/ outbox'[i].state = outbox'[j].state /\ outbox'[i].notifier # outbox'[j].notifier
    <3>1. CASE i \in DOMAIN outbox /\ j \in DOMAIN outbox
      BY <1>1, <1>7, <2>4, <3>1 DEF EntriesInv
    <3>2. CASE i \in DOMAIN outbox /\ j \notin DOMAIN outbox
      BY <1>7, <2>2, <3>2
    <3>3. CASE i \notin DOMAIN outbox /\ j \notin DOMAIN outbox
      <4>1. i \in Nat /\ j \in Nat /\ k \in Nat /\ i - k # j - k
        BY <1>7, <2>4, <3>3
      <4>2. notifiers[i - k] # notifiers[j - k]
        BY <1>4, <1>7, <3>3, <4>1
      <4>3. QED
        BY <1>7, <3>3, <4>2
    <3>4. CASE i \notin DOMAIN outbox /\ j \in DOMAIN outbox
      BY <1>7, <2>4, <3>4
    <3>5. QED
      BY <3>1, <3>2, <3>3, <3>4
  <2>5. QED
    BY <2>3, <2>4 DEF EntriesInv
<1>13. /\ \A i \in DOMAIN outbox : Untried(i)' = Untried(i)
       /\ \A i \in DOMAIN outbox' \ DOMAIN outbox : Untried(i)'
  BY <1>7 DEF Untried
<1>14. PassInv'
  <2>1. \A i \in DOMAIN outbox' : Untried(i)' => outbox'[i].wait = 0
    BY <1>1, <1>7, <1>13 DEF PassInv
  <2>2. worker.todo \subseteq DOMAIN outbox
    BY <1>1, Types
  <2>3. \A i \in worker.todo : ~outbox'[i].delivered
    BY <1>1, <1>7, <2>2 DEF PassInv
  <2>4. \A i, j \in DOMAIN outbox' : i < j /\ Untried(i)' => Untried(j)'
    <3> SUFFICES ASSUME NEW i \in DOMAIN outbox', NEW j \in DOMAIN outbox', i < j, Untried(i)'
                 PROVE  Untried(j)'
      OBVIOUS
    <3>1. CASE j \in DOMAIN outbox
      <4>1. i \in DOMAIN outbox
        BY <1>7, <3>1
      <4>2. QED
        BY <1>1, <1>13, <3>1, <4>1 DEF PassInv
    <3>2. CASE j \notin DOMAIN outbox
      BY <1>13, <3>2
    <3>3. QED
      BY <3>1, <3>2
  <2>5. \A i \in DOMAIN outbox', j \in worker.todo :
          i < j /\ Untried(i)' /\ Untried(j)' => i \in worker.todo
    <3> SUFFICES ASSUME NEW i \in DOMAIN outbox', NEW j \in worker.todo,
                        i < j, Untried(i)', Untried(j)'
                 PROVE  i \in worker.todo
      OBVIOUS
    <3>1. i \in DOMAIN outbox /\ j \in DOMAIN outbox
      BY <1>7, <2>2
    <3>2. QED
      BY <1>1, <1>13, <3>1 DEF PassInv
  <2>6. ASSUME NEW m \in DOMAIN posts
        PROVE  \E i \in DOMAIN outbox' :
                 outbox'[i].state = posts[m].shows /\ \A j \in 1 .. i - 1 : ~Untried(j)'
    <3>1. PICK i \in DOMAIN outbox :
            outbox[i].state = posts[m].shows /\ \A j \in 1 .. i - 1 : ~Untried(j)
      BY <1>1 DEF PassInv
    <3>2. \A j \in 1 .. i - 1 : j \in DOMAIN outbox
      BY <1>7
    <3>3. QED
      BY <1>7, <1>13, <3>1, <3>2
  <2>7. QED
    BY <2>1, <2>3, <2>4, <2>5, <2>6 DEF PassInv
<1>15. ThrottleInv'
  <2>1. \A i \in DOMAIN outbox : Attempted(i)' = Attempted(i)
    BY <1>7, <1>10 DEF Attempted
  <2>2. \A q \in State : quiet[q] > 0 =>
          \E i \in DOMAIN outbox' :
            outbox'[i].state = q /\ outbox'[i].notifier = "slack" /\ Attempted(i)'
    BY <1>1, <1>7, <2>1 DEF ThrottleInv
  <2>3. worker.pc = "ok" => outbox'[InHand] = outbox[InHand]
    BY <1>1, <1>7, <1>11, Types
  <2>4. QED
    BY <1>1, <1>10, <2>2, <2>3 DEF ThrottleInv, Event
<1>16. DeliveredIsShown'
  BY <1>1, <1>7 DEF DeliveredIsShown
<1>17. PostInv'
  <2>1. worker.pc \in {"post", "update", "post_failure"} => outbox'[InHand] = outbox[InHand]
    BY <1>1, <1>7, <1>11, Types
  <2>2. QED
    BY <1>1, <1>8, <1>10, <2>1 DEF PostInv, DeployMessages, Event
<1>18. RowFollowsRun'
  BY <1>8 DEF RowFollowsRun
<1>19. QED
  BY <1>9, <1>12, <1>14, <1>15, <1>16, <1>17, <1>18 DEF IndInv

LEMMA RunKeeps == ASSUME IndInv, RunNext, BusInv' PROVE IndInv'
<1>1. CASE SaveColumn
  BY <1>1, SaveCopyKeeps DEF SaveColumn
<1>2. CASE RecordError
  <2>1. PICK p \in {"failing", "unknown"} : ex' = [ex EXCEPT !.pc = p]
    BY <1>2 DEF RecordError
  <2>2. QED
    BY <1>2, <2>1, SaveCopyKeeps DEF RecordError
<1>3. ex.state \in State /\ \A s \in Course[ex.state] : s \in State
  BY Types, NotificationsAssumption DEF IndInv
<1>4. CASE Advance
  <2>1. PICK s \in Course[ex.state] :
          /\ MoveAndNotify(s)
          /\ ex' = [ex EXCEPT !.state = s, !.pc = IF IsTerminal(s) THEN "ended" ELSE "step"]
    BY <1>4 DEF Advance
  <2>2. PICK p \in {"step", "ended"} : p = IF IsTerminal(s) THEN "ended" ELSE "step"
    OBVIOUS
  <2>3. QED
    BY <1>3, <1>4, <2>1, <2>2, MoveKeeps DEF Advance
<1>5. CASE GiveUp
  <2>1. CASE \E s \in State, p \in {"step", "ended"} :
               MoveAndNotify(s) /\ ex' = [ex EXCEPT !.state = s, !.pc = p]
    BY <1>5, <2>1, MoveKeeps DEF GiveUp
  <2>2. CASE ex' = [ex EXCEPT !.pc = "ended"] /\ UNCHANGED <<row, outbox>>
    <3>1. /\ TypeOK /\ PassInv /\ ThrottleInv /\ PostInv /\ DeliveredIsShown /\ RowFollowsRun /\ EntriesInv
          /\ UNCHANGED <<row, outbox, worker, quiet, posts, left, shown, skipped, disturbed,
                         busVars, notifiers>>
      BY <1>5, <2>2 DEF IndInv, GiveUp
    <3>2. /\ ex'.state = ex.state /\ ex'.ts = ex.ts
          /\ ex' \in [pc : {"step", "saved", "failing", "reconciling", "unknown", "ended"},
                      state : State, ts : {NoTS} \cup DOMAIN posts]
      BY <2>2, <3>1, Types
    <3>3. InHand' = InHand /\ Event' = Event
      BY <3>1, HandKept DEF Event
    <3>4. TypeOK'
      BY <3>1, <3>2 DEF TypeOK, BusInv, Rows
    <3>5. ThrottleInv'
      BY <3>1, <3>3 DEF ThrottleInv, Attempted
    <3>6. PassInv' /\ DeliveredIsShown' /\ EntriesInv' /\ RowFollowsRun'
      BY <3>1, <3>2 DEF PassInv, DeliveredIsShown, EntriesInv, RowFollowsRun, Untried
    <3>7. PostInv'
      BY <3>1, <3>2, <3>3 DEF PostInv, DeployMessages
    <3>8. QED
      BY <3>4, <3>5, <3>6, <3>7 DEF IndInv
  <2>3. QED
    <3>1. Exits \subseteq State
      <4>1. {"FAILED", "UNKNOWN", "VERIFYING"} \subseteq State
        BY DEF State, WorkStates, TerminalStates
      <4>2. AfterError(ex.state) \subseteq State
        BY <1>3 DEF AfterError
      <4>3. Exits \in {AfterError(ex.state), {"UNKNOWN"}, {"FAILED", "VERIFYING"}}
        BY Zenon DEF Exits
      <4>4. QED
        BY <4>1, <4>2, <4>3
    <3>2. \/ \E s \in Exits :
               /\ MoveAndNotify(s)
               /\ ex' = [ex EXCEPT !.state = s, !.pc = IF s = "ROLLING_BACK" THEN "step" ELSE "ended"]
          \/ ex' = [ex EXCEPT !.pc = "ended"] /\ UNCHANGED <<row, outbox>>
      BY <1>5 DEF GiveUp
    <3>3. QED
      BY <2>1, <2>2, <3>1, <3>2
<1>6. QED
  BY <1>1, <1>2, <1>4, <1>5 DEF RunNext

LEMMA CrashKeeps == ASSUME IndInv, Restart, BusInv' PROVE IndInv'
<1>1. /\ TypeOK /\ PassInv /\ ThrottleInv /\ PostInv /\ DeliveredIsShown /\ RowFollowsRun /\ EntriesInv
      /\ left.restarts > 0 /\ left' = [left EXCEPT !.restarts = @ - 1]
      /\ worker' = IdleWorker
      /\ quiet' = [s \in State |-> 0]
      /\ disturbed' = IF worker.pc = "save" THEN disturbed + 1 ELSE disturbed
      /\ UNCHANGED <<row, outbox, posts, shown, skipped, notifiers>>
  BY DEF IndInv, Restart
<1>2. PICK p \in {"ended", "reconciling"} : ex' = [state |-> row.state, ts |-> row.ts, pc |-> p]
  BY DEF Restart
<1>3. /\ row \in [state : State, ts : {NoTS} \cup DOMAIN posts]
      /\ disturbed \in Nat /\ Cardinality(DeployMessages) \in Nat
      /\ left \in [faults : Nat, restarts : Nat]
  BY <1>1, Types, MessagesAreFinite DEF TypeOK
<1>4. /\ ex'.state = row.state /\ ex'.ts = row.ts
      /\ ex' \in [pc : {"step", "saved", "failing", "reconciling", "unknown", "ended"},
                  state : State, ts : {NoTS} \cup DOMAIN posts]
  BY <1>2, <1>3
<1>5. /\ worker'.pc = "idle" /\ worker'.todo = {} /\ worker'.copy.ts = NoTS /\ worker'.ts = NoTS
      /\ worker' \in [pc : {"idle", "entry", "post", "post_failure", "update", "save", "ok",
                             "failed"},
                      todo : SUBSET DOMAIN outbox, copy : Rows, ts : {NoTS} \cup DOMAIN posts]
  <2>1. "PENDING" \in State
    BY DEF State
  <2>2. QED
    BY <1>1, <2>1 DEF IdleWorker, Rows
<1>6. TypeOK'
  <2>1. quiet' \in [State -> 0 .. MinUpdateInterval]
    BY <1>1 DEF MinUpdateInterval
  <2>2. left' \in [faults : Nat, restarts : Nat] /\ disturbed' \in Nat
    BY <1>1, <1>3
  <2>3. Rows' = Rows
    BY <1>1 DEF Rows
  <2>4. (worker'.pc = "idle") = (worker'.todo = {})
    BY <1>5
  <2>5. QED
    BY <1>1, <1>4, <1>5, <2>1, <2>2, <2>3, <2>4 DEF TypeOK, BusInv
<1>7. PassInv'
  BY <1>1, <1>5 DEF PassInv, Untried
<1>8. ThrottleInv'
  BY <1>1, <1>5 DEF ThrottleInv
<1>9. DeliveredIsShown' /\ EntriesInv' /\ RowFollowsRun'
  BY <1>1, <1>4 DEF DeliveredIsShown, EntriesInv, RowFollowsRun
<1>10. PostInv'
  <2>1. \A x \in {row.ts, NoTS} \ {NoTS} : ~posts[x].failure
    BY <1>1 DEF PostInv
  <2>2. Cardinality(DeployMessages) <= disturbed' + (IF row.ts # NoTS THEN 1 ELSE 0)
    <3>1. Cardinality(DeployMessages) <=
            disturbed + (IF row.ts # NoTS \/ worker.pc = "save" THEN 1 ELSE 0)
      BY <1>1 DEF PostInv
    <3>2. QED
      BY <1>1, <1>3, <3>1
  <2>3. DeployMessages' = DeployMessages
    BY <1>1 DEF DeployMessages
  <2>4. QED
    BY <1>1, <1>4, <1>5, <2>1, <2>2, <2>3 DEF PostInv
<1>11. QED
  BY <1>6, <1>7, <1>8, <1>9, <1>10 DEF IndInv

LEMMA FlowKept == ASSUME IndInv, UNCHANGED flowVars, BusInv' PROVE IndInv'
<1>1. /\ TypeOK /\ PassInv /\ ThrottleInv /\ PostInv /\ DeliveredIsShown /\ RowFollowsRun /\ EntriesInv
      /\ UNCHANGED <<notifiers, row, ex, outbox, worker, quiet, posts, left, shown, skipped, disturbed>>
  BY DEF IndInv, flowVars
<1>2. InHand' = InHand /\ Event' = Event
  BY <1>1, HandKept DEF Event
<1>3. TypeOK'
  BY <1>1 DEF TypeOK, BusInv, Rows
<1>4. PassInv' /\ DeliveredIsShown' /\ EntriesInv' /\ RowFollowsRun'
  BY <1>1 DEF PassInv, DeliveredIsShown, EntriesInv, RowFollowsRun, Untried
<1>5. ThrottleInv'
  BY <1>1, <1>2 DEF ThrottleInv, Attempted
<1>6. PostInv'
  BY <1>1, <1>2 DEF PostInv, DeployMessages
<1>7. QED
  BY <1>3, <1>4, <1>5, <1>6 DEF IndInv

(***************************************************************************)
(* The theorems.                                                           *)
(***************************************************************************)

LEMMA InitHolds == Init => IndInv
<1> SUFFICES ASSUME Init PROVE IndInv
  OBVIOUS
<1>1. BusInv
  BY BusInvInitially DEF Init
<1>2. /\ notifiers \in Notifiers
      /\ row = [state |-> "PENDING", ts |-> NoTS]
      /\ ex = [pc |-> "step", state |-> "PENDING", ts |-> NoTS]
      /\ outbox = <<>> /\ worker = IdleWorker /\ quiet = [s \in State |-> 0] /\ posts = <<>>
      /\ left = [faults |-> MaxSlackFaults, restarts |-> MaxRestarts]
      /\ shown = {} /\ skipped = {} /\ disturbed = 0
  BY DEF Init
<1>3. "PENDING" \in State
  BY DEF State
<1>4. /\ outbox \in Seq(Entries) /\ DOMAIN outbox = {}
      /\ posts \in Seq([shows : State, failure : BOOLEAN]) /\ DOMAIN posts = {}
  BY <1>2
<1>5. row \in Rows /\ row.state = "PENDING" /\ row.ts = NoTS
  BY <1>2, <1>3 DEF Rows
<1>6. /\ ex \in [pc : {"step", "saved", "failing", "reconciling", "unknown", "ended"},
                 state : State, ts : {NoTS} \cup DOMAIN posts]
      /\ ex.state = "PENDING" /\ ex.ts = NoTS
  BY <1>2, <1>3
<1>7. /\ worker \in [pc : {"idle", "entry", "post", "post_failure", "update", "save", "ok", "failed"},
                     todo : SUBSET DOMAIN outbox, copy : Rows, ts : {NoTS} \cup DOMAIN posts]
      /\ worker.pc = "idle" /\ worker.todo = {} /\ worker.copy.ts = NoTS /\ worker.ts = NoTS
  BY <1>2, <1>3 DEF IdleWorker, Rows
<1>8. TypeOK
  <2>1. quiet \in [State -> 0 .. MinUpdateInterval]
    BY <1>2 DEF MinUpdateInterval
  <2>2. left \in [faults : Nat, restarts : Nat]
    BY <1>2, NotificationsAssumption
  <2>3. (worker.pc = "idle") = (worker.todo = {})
    BY <1>7
  <2>4. shown \cup skipped \subseteq DOMAIN outbox /\ disturbed \in Nat
    BY <1>2
  <2>5. QED
    BY <1>1, <1>2, <1>4, <1>5, <1>6, <1>7, <2>1, <2>2, <2>3, <2>4 DEF TypeOK, BusInv
<1>9. RowFollowsRun /\ EntriesInv /\ PassInv /\ DeliveredIsShown
  BY <1>4, <1>5, <1>6, <1>7 DEF RowFollowsRun, EntriesInv, PassInv, DeliveredIsShown
<1>10. ThrottleInv
  BY <1>2, <1>7 DEF ThrottleInv
<1>11. PostInv
  <2>1. DeployMessages = {}
    BY <1>4 DEF DeployMessages
  <2>2. Cardinality(DeployMessages) = 0
    BY <2>1, FS_EmptySet
  <2>3. QED
    BY <1>2, <1>5, <1>6, <1>7, <2>2 DEF PostInv
<1>12. QED
  BY <1>1, <1>8, <1>9, <1>10, <1>11 DEF IndInv

(* The inductive invariant: every step of the run, of the worker, of the   *)
(* browser, of the clock and every crash keeps it.                         *)
THEOREM NotificationsInductive == IndInv /\ [Next]_vars => IndInv'
<1> SUFFICES ASSUME IndInv, [Next]_vars PROVE IndInv'
  OBVIOUS
<1>1. BusInv'
  <2>1. Publish \/ BrowserNext \/ BusRestarts \/ UNCHANGED busVars
    BY DEF Next, RunNext, WorkerNext, SaveColumn, Advance, RecordError, GiveUp, StartPass,
           NotifyDashboard, NotifySlack, SlackAnswers, SlackFails, SaveTS, MarkDelivered,
           MarkFailed, Tick, Restart, vars
  <2>2. QED
    BY <2>1, BusInductive DEF IndInv
<1>2. CASE RunNext
  BY <1>1, <1>2, RunKeeps
<1>3. CASE WorkerNext
  BY <1>1, <1>3, StartPassKeeps, NotifyDashboardKeeps, NotifySlackKeeps, SlackAnswersKeeps,
     SlackFailsKeeps, SaveTSKeeps, MarkDeliveredKeeps, MarkFailedKeeps DEF WorkerNext
<1>4. CASE Tick
  BY <1>1, <1>4, TickKeeps
<1>5. CASE Restart
  BY <1>1, <1>5, CrashKeeps
<1>6. CASE UNCHANGED flowVars
  BY <1>1, <1>6, FlowKept
<1>7. QED
  BY <1>2, <1>3, <1>4, <1>5, <1>6 DEF Next, vars

(* Types, the order of the entries and of their first attempts, what the     *)
(* throttle may hold back and which timestamps are stored, in every state. *)
THEOREM AlwaysIndInv == Spec => []IndInv
<1>1. QED
  BY InitHolds, NotificationsInductive, PTL DEF Spec

(* The worker, which writes the whole row as it read it before a call to   *)
(* Slack (bot.go), never takes a transition of the run back.               *)
THEOREM RowIsTheRuns == Spec => []RowFollowsRun
<1>1. IndInv => RowFollowsRun
  BY DEF IndInv
<1>2. QED
  BY <1>1, AlwaysIndInv, PTL

(* The throttle drops no state change: what is marked delivered to Slack   *)
(* was taken by it, or is the retry of an attempt that had failed.         *)
THEOREM NothingIsCoalescedAway == Spec => []DeliveredIsShown
<1>1. IndInv => DeliveredIsShown
  BY DEF IndInv
<1>2. QED
  BY <1>1, AlwaysIndInv, PTL

(* One message per deployment, and one more for each time its timestamp    *)
(* was overwritten, could not be saved, or was not learnt.                 *)
THEOREM MessagesAreCounted == Spec => []ExtraMessagesExplained
<1>1. ASSUME IndInv PROVE ExtraMessagesExplained
  <2>1. disturbed \in Nat /\ Cardinality(DeployMessages) \in Nat
    BY <1>1, MessagesAreFinite DEF IndInv, TypeOK
  <2>2. QED
    BY <1>1, <2>1 DEF IndInv, PostInv, ExtraMessagesExplained
<1>2. QED
  BY <1>1, AlwaysIndInv, PTL

(* The dashboard writes an event twice only when it was published between  *)
(* a connection's Subscribe and its replay.                                *)
THEOREM TwiceIsExplained == Spec => []TwiceOnlyInOverlap
<1>1. IndInv => TwiceOnlyInOverlap
  BY DEF IndInv, BusInv
<1>2. QED
  BY <1>1, AlwaysIndInv, PTL

(* A browser that has read its channel saw every event of its topic, or    *)
(* was told of a gap, or its channel was full, or its id was of no use.    *)
THEOREM NothingIsLostUnseen == Spec => []LossIsExplained
<1>1. IndInv => LossIsExplained
  BY LossFollows DEF IndInv
<1>2. QED
  BY <1>1, AlwaysIndInv, PTL

\* While nothing has been said of the entry in hand, no message is past it.
LEMMA RanksAreOrdered ==
  ASSUME IndInv, worker.todo # {}, Untried(InHand), NEW m \in DOMAIN posts
  PROVE  ~(Rank(Event) < Rank(posts[m].shows))
<1>1. /\ TypeOK /\ PassInv /\ EntriesInv
      /\ InHand \in DOMAIN outbox /\ DOMAIN outbox \subseteq Nat
  BY Types, TriedBeforeHand DEF IndInv
<1>2. PICK i \in DOMAIN outbox :
        outbox[i].state = posts[m].shows /\ \A j \in 1 .. i - 1 : ~Untried(j)
  BY <1>1 DEF PassInv
<1>3. i <= InHand
  <2>1. InHand \in Nat /\ InHand >= 1 /\ i \in Nat
    BY <1>1, Types
  <2>2. ~(InHand \in 1 .. i - 1)
    BY <1>2
  <2>3. QED
    BY <2>1, <2>2
<1>4. PICK a : a = Rank(Event)
  OBVIOUS
<1>5. PICK b : b = Rank(posts[m].shows)
  OBVIOUS
<1>6. a \in DOMAIN outbox /\ outbox[a].state = outbox[InHand].state
  BY <1>1, <1>4 DEF Rank, Event
<1>7. b \in DOMAIN outbox /\ outbox[b].state = outbox[i].state
  BY <1>1, <1>2, <1>5 DEF Rank
<1>8. \A x \in DOMAIN outbox : Depth[outbox[x].state] \in 0 .. 7
  BY <1>1, Types, DepthIsNat DEF Entries
<1>9. ASSUME a < b PROVE FALSE
  <2>1. i # InHand
    <3>1. ASSUME i = InHand PROVE a = b
      BY <1>2, <1>4, <1>5, <3>1 DEF Event
    <3>2. QED
      BY <1>1, <1>6, <1>9, <3>1
  <2>2. i < InHand
    BY <1>1, <1>3, <2>1
  <2>3. outbox[i].state # outbox[InHand].state
    BY <1>2, <1>4, <1>5, <1>1, <1>6, <1>9 DEF Event
  <2>4. Depth[outbox[i].state] < Depth[outbox[InHand].state]
    BY <1>1, <2>2, <2>3 DEF EntriesInv
  <2>5. Depth[outbox[a].state] < Depth[outbox[b].state] \/ outbox[a].state = outbox[b].state
    BY <1>1, <1>6, <1>7, <1>9 DEF EntriesInv
  <2>6. QED
    BY <1>1, <1>6, <1>7, <1>8, <2>3, <2>4, <2>5
<1>10. QED
  BY <1>4, <1>5, <1>9

(* A message goes back to an earlier state only when the entry whose call  *)
(* Slack takes had failed before.                                          *)
THEOREM OnlyRetriesGoBack == Spec => BackwardsOnlyByRetry
<1>1. ASSUME IndInv, [Next]_vars, NEW m \in DOMAIN posts, Rank(posts'[m].shows) < Rank(posts[m].shows)
      PROVE  outbox[InHand].attempts > 0
  <2>1. TypeOK /\ PassInv /\ PostInv
    BY <1>1 DEF IndInv
  <2>2. CASE posts'[m].shows = posts[m].shows
    <3>1. \E i \in DOMAIN outbox : outbox[i].state = posts[m].shows
      BY <2>1 DEF PassInv
    <3>2. Rank(posts[m].shows) \in DOMAIN outbox /\ DOMAIN outbox \subseteq Nat
      BY <2>1, <3>1, Types DEF Rank
    <3>3. PICK r \in Nat : r = Rank(posts[m].shows)
      BY <3>2
    <3>4. r < r
      BY <1>1, <2>2, <3>3
    <3>5. QED
      BY <3>4
  <2>3. CASE posts'[m].shows # posts[m].shows
    <3>1. Calling /\ Effect
      BY <1>1, <2>3
      DEF Next, RunNext, WorkerNext, SaveColumn, Advance, RecordError, GiveUp, StartPass,
          NotifyDashboard, NotifySlack, SlackAnswers, SlackFails, SaveTS, MarkDelivered,
          MarkFailed, Tick, Restart, vars, flowVars
    <3>2. worker.todo # {} /\ outbox[InHand] \in Entries /\ ~outbox[InHand].delivered
      <4>1. worker.todo # {}
        BY <2>1, <3>1, Types DEF Calling
      <4>2. QED
        BY <2>1, <4>1, Types, TriedBeforeHand
    <3>3. posts'[m].shows = Event
      BY <2>1, <2>3, <3>1, Posted
    <3>4. ~Untried(InHand)
      BY <1>1, <3>2, <3>3, RanksAreOrdered
    <3>5. QED
      BY <3>2, <3>4 DEF Untried, Entries
  <2>4. QED
    BY <2>2, <2>3
<1>2. IndInv /\ [Next]_vars =>
        [\A m \in DOMAIN posts :
           (Rank(posts'[m].shows) < Rank(posts[m].shows)) => outbox[InHand].attempts > 0]_vars
  BY <1>1
<1>3. QED
  BY <1>2, AlwaysIndInv, PTL DEF Spec, BackwardsOnlyByRetry
=============================================================================
