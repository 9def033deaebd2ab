-------------------------- MODULE DeploymentsProofs --------------------------
(* Proofs about Deployments, for every configuration the loader accepts,    *)
(* any tokens, requests, manifests, history and bounds.                     *)
EXTENDS DeploymentsInvariants, VerificationProofs, FiniteSetTheorems, WellFoundedInduction

-----------------------------------------------------------------------------
(* Rollbacks: the newest row, the order of versions, where a plan goes.     *)

LEMMA Smallest ==
  ASSUME NEW S \in SUBSET Nat, S # {}
  PROVE  \E x \in S : \A y \in S : x <= y
<1> DEFINE Smaller == {ss \in Nat \X Nat : ss[1] < ss[2]}
<1>1. IsWellFoundedOn(Smaller, Nat)
  BY NatLessThanWellFounded DEF OpToRel
<1>2. \A a, b \in Nat : a < b => <<a, b>> \in Smaller
  OBVIOUS
<1> HIDE DEF Smaller
<1>3. PICK x \in S : \A y \in S : <<y, x>> \notin Smaller
  BY <1>1, WFMin
<1>4. ASSUME NEW y \in S
      PROVE  x <= y
  <2>1. x \in Nat /\ y \in Nat
    OBVIOUS
  <2>2. ~(y < x)
    BY <1>2, <1>3, <2>1
  <2> QED  BY <2>1, <2>2
<1> QED  BY <1>4

LEMMA NewestOf ==
  ASSUME NEW n \in Nat, NEW S \in SUBSET (1 .. n), S # {}
  PROVE  Newest(S) \in S /\ \A j \in S : j <= Newest(S)
<1> DEFINE T == {n - j : j \in S}
<1>1. T \in SUBSET Nat /\ T # {}
  <2>1. \A j \in S : j \in 1 .. n
    OBVIOUS
  <2>2. \A j \in S : n - j \in Nat
    BY <2>1
  <2>3. T # {}
    OBVIOUS
  <2> QED  BY <2>2, <2>3
<1>2. PICK x \in T : \A y \in T : x <= y
  BY <1>1, Smallest
<1>3. PICK i \in S : x = n - i
  BY <1>2
<1>4. \A j \in S : j <= i
  <2> TAKE j \in S
  <2>1. x <= n - j
    BY <1>2
  <2> QED  BY <1>3, <2>1
<1>5. \E k \in S : \A j \in S : j <= k
  BY <1>3, <1>4
<1>6. Newest(S) = CHOOSE k \in S : \A j \in S : j <= k
  BY DEF Newest
<1> QED  BY <1>5, <1>6, Zenon

\* A plan goes to an older row that succeeded, and that the manifest allows.
LEMMA PlanIsSafe ==
  ASSUME NEW r \in Seq(Rows), NEW i \in DOMAIN r, NEW checked,
         PlanRollback(r, i, checked) # NoRow
  PROVE  LET t == PlanRollback(r, i, checked) IN
         /\ t \in DOMAIN r /\ t \in 1 .. i - 1 /\ r[t].state = "SUCCEEDED"
         /\ checked => FloorHolds(r[i].version, r[t].version)
<1> DEFINE S == {j \in DOMAIN r : j < i /\ r[j].state = "SUCCEEDED"}
<1>1. DOMAIN r = 1 .. Len(r) /\ Len(r) \in Nat
  OBVIOUS
<1>2. /\ PlanRollback(r, i, checked) = Newest(S) /\ Newest(S) # NoRow
      /\ checked => FloorHolds(r[i].version, r[Newest(S)].version)
  BY DEF PlanRollback, LastSuccessfulBefore
<1>3. S # {}
  BY <1>2 DEF Newest
<1>4. Newest(S) \in S
  BY <1>1, <1>3, NewestOf
<1> QED  BY <1>1, <1>2, <1>4

\* Two versions neither of which is less than the other are the same in every part.
LEMMA VersionsCompare ==
  ASSUME NEW a \in Seq(Part), NEW b \in Seq(Part), ~VersionLess(a, b)
  PROVE  SameVersion(b, a) \/ VersionLess(b, a)
<1>1. /\ DOMAIN a = 1 .. Len(a) /\ DOMAIN b = 1 .. Len(b) /\ Len(a) \in Nat /\ Len(b) \in Nat
      /\ \A i \in DOMAIN a : a[i] \in Part
      /\ \A i \in DOMAIN b : b[i] \in Part
  OBVIOUS
<1>2. \A p, q \in Part : /\ SamePart(p, q) <=> SamePart(q, p)
                         /\ SamePart(p, p)
                         /\ ~SamePart(p, q) /\ ~PartLess(p, q) => PartLess(q, p)
  BY RollbacksAssumption DEF Part, SamePart, PartLess
<1>3. CASE a = b
  BY <1>1, <1>2, <1>3 DEF SameVersion
<1>4. CASE a # b
  <2> DEFINE both == DOMAIN a \cap DOMAIN b
             D == {i \in both : ~SamePart(a[i], b[i])}
  <2>1. CASE D = {}
    <3>1. \A i \in both : SamePart(a[i], b[i]) /\ SamePart(b[i], a[i])
      BY <1>1, <1>2, <2>1
    <3>2. ~(Len(a) < Len(b))
      BY <1>4, <3>1 DEF VersionLess
    <3>3. CASE Len(b) < Len(a)
      BY <1>4, <3>1, <3>3 DEF VersionLess
    <3>4. CASE Len(b) = Len(a)
      BY <1>1, <3>1, <3>4 DEF SameVersion
    <3>5. Len(b) < Len(a) \/ Len(b) = Len(a)
      <4>1. Len(a) \in Nat /\ Len(b) \in Nat
        OBVIOUS
      <4> QED  BY <3>2, <4>1
    <3> QED  BY <3>3, <3>4, <3>5
  <2>2. CASE D # {}
    <3>1. D \in SUBSET Nat
      BY <1>1
    <3>2. PICK i \in D : \A j \in D : i <= j
      BY <2>2, <3>1, Smallest
    <3>3. i \in both /\ ~SamePart(a[i], b[i]) /\ a[i] \in Part /\ b[i] \in Part
      BY <1>1
    <3>4. \A j \in 1 .. i - 1 : SamePart(a[j], b[j]) /\ SamePart(b[j], a[j])
      <4> TAKE j \in 1 .. i - 1
      <4>1. j \in both /\ j \notin D
        BY <1>1, <3>2, <3>3
      <4> QED  BY <1>1, <1>2, <4>1
    <3>5. ~PartLess(a[i], b[i])
      BY <1>4, <3>3, <3>4 DEF VersionLess
    <3>6. PartLess(b[i], a[i])
      BY <1>2, <3>3, <3>5
    <3> QED  BY <1>4, <3>3, <3>4, <3>6 DEF VersionLess
  <2> QED  BY <2>1, <2>2
<1> QED  BY <1>3, <1>4
-----------------------------------------------------------------------------
(* Deny windows: the two that the loader makes of one are that one.         *)

LEMMA Division ==
  ASSUME NEW a \in Int, NEW b \in Int, b > 0
  PROVE  a \div b \in Int /\ a % b \in 0 .. b - 1 /\ a % b = a - b * (a \div b)
OBVIOUS

LEMMA Remainder ==
  ASSUME NEW m \in Nat, NEW u \in Int, NEW y \in 0 .. m - 1, m > 0,
         NEW x \in Int, x = m * u + y
  PROVE  x % m = y
OBVIOUS

\* A time the schedule does not deny is in none of the windows of the file.
LEMMA NotDenied ==
  ASSUME NEW gate, NEW t \in Nat, ~Denied(gate, t, Day),
         gate.deny \subseteq [weekday : 0 .. 6, start : 0 .. Day - 1, end : 0 .. Day - 1]
  PROVE  \A w \in gate.deny : ~InWindow(w, t)
<1> SUFFICES ASSUME NEW w \in gate.deny, InWindow(w, t)
             PROVE  FALSE
  OBVIOUS
<1>1. PICK D, weekday, start, end :
        D = Day /\ weekday = w.weekday /\ start = w.start /\ end = w.end
  OBVIOUS
<1>2. /\ D \in Nat /\ D > 0 /\ weekday \in 0 .. 6 /\ start \in 0 .. D - 1 /\ end \in 0 .. D - 1
      /\ w = [weekday |-> weekday, start |-> start, end |-> end]
  BY <1>1, DeploymentsAssumption
<1>3. PICK q, r, u, v : q = t \div D /\ r = t % D /\ u = q \div 7 /\ v = q % 7
  OBVIOUS
<1>4. /\ q \in Int /\ r \in 0 .. D - 1 /\ u \in Int /\ v \in 0 .. 6
      /\ t = (7 * D) * u + D * v + r
  <2>1. q \in Int /\ r \in 0 .. D - 1 /\ r = t - D * q
    BY <1>2, <1>3, Division
  <2>2. u \in Int /\ v \in 0 .. 7 - 1 /\ v = q - 7 * u
    BY <1>3, <2>1, Division
  <2>3. D * q = (7 * D) * u + D * v
    BY <1>2, <2>1, <2>2
  <2>4. D * q \in Int
    BY <1>2, <2>1
  <2>5. t = D * q + r
    BY <2>1, <2>4
  <2> QED  BY <2>1, <2>2, <2>3, <2>5
<1>5. \A part \in DenyWindows(w, D) : ~(v = part.weekday /\ r \in part.start .. part.end)
  BY <1>1, <1>3 DEF Denied, Contains
<1>6. PICK y \in Int, x \in Int, W \in Nat :
        y = D * (v - weekday) + (r - start) /\ x = t - (weekday * D + start) /\ W = 7 * D
  BY <1>2, <1>4
<1>7. x % W = y \/ (y < 0 /\ x % W = y + W)
  <2>1. W > 0
    BY <1>2, <1>6
  <2>2. x = W * u + y
    BY <1>2, <1>4, <1>6
  <2>3. y > -W /\ y < W
    <3>1. v - weekday \in {-6, -5, -4, -3, -2, -1, 0, 1, 2, 3, 4, 5, 6}
      BY <1>2, <1>4
    <3> QED  BY <1>2, <1>4, <1>6, <3>1
  <2>4. CASE y >= 0
    <3>1. PICK z \in 0 .. W - 1, k \in Int : z = y /\ k = u
      BY <1>4, <2>1, <2>3, <2>4
    <3>2. x = W * k + z
      BY <2>2, <3>1
    <3>3. x % W = z
      BY <2>1, <3>2, Remainder
    <3> QED  BY <3>1, <3>3
  <2>5. CASE y < 0
    <3>1. PICK z \in 0 .. W - 1, k \in Int : z = y + W /\ k = u - 1
      BY <1>4, <2>1, <2>3, <2>5
    <3>2. x = W * k + z
      BY <1>4, <2>2, <3>1
    <3>3. x % W = z
      BY <2>1, <3>2, Remainder
    <3> QED  BY <2>5, <3>1, <3>3
  <2> QED  BY <2>4, <2>5
<1>8. x % W <= (end - start) % D
  BY <1>1, <1>6, Zenon DEF InWindow
<1>9. v - weekday \in {-6, -5, -4, -3, -2, -1, 0, 1, 2, 3, 4, 5, 6}
  BY <1>2, <1>4
<1>10. CASE start <= end
  <2>1. (end - start) % D = end - start
    <3>1. end - start \in 0 .. D - 1 /\ end - start \in Int /\ end - start = D * 0 + (end - start)
      BY <1>2, <1>10
    <3> QED  BY <1>2, <3>1, Remainder
  <2>2. v = weekday /\ r \in start .. end
    BY <1>2, <1>4, <1>6, <1>7, <1>8, <1>9, <2>1
  <2> QED  BY <1>2, <1>5, <1>10, <2>2 DEF DenyWindows
<1>11. CASE end < start
  <2>1. (end - start) % D = end - start + D
    <3>1. end - start + D \in 0 .. D - 1 /\ end - start \in Int
          /\ end - start = D * (-1) + (end - start + D)
      BY <1>2, <1>11
    <3> QED  BY <1>2, <3>1, Remainder
  <2>2. \/ v = weekday /\ r \in start .. D - 1
        \/ v = (weekday + 1) % 7 /\ r \in 0 .. end
    BY <1>2, <1>4, <1>6, <1>7, <1>8, <1>9, <1>11, <2>1
  <2> QED  BY <1>2, <1>5, <1>11, <2>2 DEF DenyWindows, Window
<1> QED  BY <1>2, <1>10, <1>11
-----------------------------------------------------------------------------
(* What a step of the run does to the rows and to the run.                  *)

\* A step of the run touches its own row only, its state and when it passed.
RowsMove ==
  /\ rows' \in Seq(Rows) /\ Len(rows') = Len(rows)
  /\ \A j \in DOMAIN rows : j # run.row => rows'[j] = rows[j]
  /\ \A j \in DOMAIN rows :
       /\ rows'[j].version = rows[j].version /\ rows'[j].rollback = rows[j].rollback
       /\ rows'[j].by = rows[j].by /\ rows'[j].created = rows[j].created
       /\ rows'[j].of = rows[j].of /\ rows'[j].named = rows[j].named

Moves(state) == rows' = [rows EXCEPT ![run.row].state = state]

RunFrame ==
  UNCHANGED <<env, now, request, starting, approvals, approving, freeze, tested>>

RunType == [pc : PlaceInRun, row : Nat, gate : Nat, asked : Seq(Int), wake : Int,
            bake : Nat, target : Nat]

Asked == [row : DOMAIN rows, version : Version, auto : BOOLEAN,
          asked : Seq(Int), at : Int, frozen : Int]

LEMMA StateMoved ==
  ASSUME NEW r \in Seq(Rows), NEW i \in DOMAIN r, NEW s \in State, NEW q,
         q = [r EXCEPT ![i].state = s]
  PROVE  /\ q \in Seq(Rows) /\ Len(q) = Len(r) /\ q[i].state = s
         /\ \A j \in DOMAIN r : j # i => q[j] = r[j]
         /\ \A j \in DOMAIN r :
              /\ q[j].version = r[j].version /\ q[j].rollback = r[j].rollback
              /\ q[j].by = r[j].by /\ q[j].created = r[j].created
              /\ q[j].of = r[j].of /\ q[j].named = r[j].named /\ q[j].passed = r[j].passed
<1>1. /\ DOMAIN q = DOMAIN r /\ \A j \in DOMAIN r : j # i => q[j] = r[j]
      /\ q[i] = [r[i] EXCEPT !.state = s]
  OBVIOUS
<1>2. r[i] \in Rows
  OBVIOUS
<1>3. /\ q[i] \in Rows /\ q[i].state = s
      /\ q[i].version = r[i].version /\ q[i].rollback = r[i].rollback
      /\ q[i].by = r[i].by /\ q[i].created = r[i].created
      /\ q[i].of = r[i].of /\ q[i].named = r[i].named /\ q[i].passed = r[i].passed
  BY <1>1, <1>2 DEF Rows
<1>4. q \in Seq(Rows) /\ Len(q) = Len(r)
  <2>1. /\ DOMAIN q = 1 .. Len(r) /\ Len(r) \in Nat /\ DOMAIN q = DOMAIN r
        /\ \A j \in DOMAIN r : r[j] \in Rows
    BY <1>1
  <2>2. \A j \in 1 .. Len(r) : q[j] \in Rows
    BY <1>1, <1>3, <2>1
  <2>3. q = [j \in 1 .. Len(r) |-> q[j]]
    BY <2>1
  <2>4. q \in [1 .. Len(r) -> Rows]
    BY <2>2, <2>3
  <2>5. q \in Seq(Rows)
    BY <2>1, <2>4
  <2>6. Len(q) = Len(r)
    BY <2>1, <2>5
  <2> QED  BY <2>5, <2>6
<1> QED  BY <1>1, <1>3, <1>4

LEMMA RowTyped ==
  ASSUME TypeOK, NEW i \in DOMAIN rows
  PROVE  /\ rows[i] \in Rows /\ rows[i].version \in Version /\ rows[i].state \in State
         /\ rows[i].rollback \in BOOLEAN /\ rows[i].named \in BOOLEAN /\ rows[i].of \in Nat
         /\ rows[i].created \in Int /\ rows[i].passed \in Int /\ i \in Nat
<1>1. rows \in Seq(Rows)
  BY DEF TypeOK
<1>2. rows[i] \in Rows /\ i \in Nat
  BY <1>1
<1> QED  BY <1>2 DEF Rows

LEMMA Moving ==
  ASSUME TypeOK, run.row \in DOMAIN rows, NEW s \in State, Moves(s)
  PROVE  RowsMove /\ rows'[run.row].state = s /\ rows'[run.row].passed = rows[run.row].passed
<1>1. rows \in Seq(Rows)
  BY DEF TypeOK
<1>2. PICK q, i : q = rows' /\ i = run.row
  OBVIOUS
<1>3. q = [rows EXCEPT ![i].state = s] /\ i \in DOMAIN rows
  BY <1>2 DEF Moves
<1> QED  BY <1>1, <1>2, <1>3, StateMoved DEF RowsMove

LEMMA NotMoving ==
  ASSUME TypeOK, rows' = rows
  PROVE  RowsMove
BY DEF TypeOK, RowsMove

LEMMA StateNames ==
  /\ {"PENDING", "PREFLIGHT", "AWAIT_APPROVAL", "DEPLOYING", "VERIFYING", "ROLLING_BACK",
      "SUCCEEDED", "FAILED", "ROLLED_BACK", "ROLLBACK_FAILED"} \subseteq State
  /\ \A s \in {"PENDING", "PREFLIGHT", "AWAIT_APPROVAL", "DEPLOYING", "VERIFYING", "ROLLING_BACK"} :
       ~IsTerminal(s)
  /\ \A s \in {"SUCCEEDED", "FAILED", "ROLLED_BACK", "ROLLBACK_FAILED"} :
       IsTerminal(s) /\ s \notin WorkStates
  /\ \A s \in WorkStates : ~IsTerminal(s)
  /\ "PENDING" \notin WorkStates
BY DEF State, WorkStates, TerminalStates, IsTerminal

LEMMA Transitions ==
  /\ \A s \in {"PREFLIGHT", "AWAIT_APPROVAL"} : ~CanTransition(s, "ROLLING_BACK")
  /\ \A s \in {"DEPLOYING", "VERIFYING"} : \A t \in {"ROLLING_BACK", "FAILED", "ROLLBACK_FAILED"} :
       CanTransition(s, t)
  /\ \A t \in {"ROLLED_BACK", "ROLLBACK_FAILED"} : CanTransition("ROLLING_BACK", t)
BY StateNames DEF CanTransition, AllowedTransitions

LEMMA IdleRun == Idle \in RunType /\ Idle.pc = "idle" /\ Idle.row = 0 /\ Idle.asked = <<>>
                 /\ Idle.bake = 0
BY DeploymentsAssumption DEF Idle, RunType, PlaceInRun, NoRow

LEMMA ActiveRun ==
  ASSUME TypeOK, RunInv, run.pc # "idle"
  PROVE  /\ run.row \in DOMAIN rows /\ rows \in Seq(Rows) /\ run \in RunType /\ run.row \in Nat
         /\ <<run.pc, This.state>> \in
             {<<"preflight", "PREFLIGHT">>, <<"gates", "AWAIT_APPROVAL">>,
              <<"clock", "AWAIT_APPROVAL">>, <<"asleep", "AWAIT_APPROVAL">>,
              <<"deploy", "DEPLOYING">>, <<"verify", "VERIFYING">>, <<"restore", "ROLLING_BACK">>}
         /\ rows[run.row].state \notin {"PENDING", "SUCCEEDED", "ROLLED_BACK", "ROLLBACK_FAILED", "FAILED"}
         /\ ~IsTerminal(rows[run.row].state)
<1>1. run # Idle
  BY IdleRun
<1>2. /\ run.row \in DOMAIN rows
      /\ <<run.pc, This.state>> \in
             {<<"preflight", "PREFLIGHT">>, <<"gates", "AWAIT_APPROVAL">>,
              <<"clock", "AWAIT_APPROVAL">>, <<"asleep", "AWAIT_APPROVAL">>,
              <<"deploy", "DEPLOYING">>, <<"verify", "VERIFYING">>, <<"restore", "ROLLING_BACK">>}
  BY <1>1 DEF RunInv
<1>3. rows[run.row].state \in {"PREFLIGHT", "AWAIT_APPROVAL", "DEPLOYING", "VERIFYING", "ROLLING_BACK"}
  BY <1>2 DEF This
<1>4. rows \in Seq(Rows) /\ run \in RunType /\ run.row \in Nat
  BY DEF TypeOK, RunType
<1> QED  BY <1>2, <1>3, <1>4, StateNames

\* A run that fails leaves its row, moves it to a failure, or starts to roll it back.
Stuck == run.pc \in {"preflight", "gates", "clock", "asleep"} /\ rows' = rows /\ run' = Idle
Ends(state) == Moves(state) /\ run' = Idle
Returns ==
  /\ run.pc \in {"deploy", "verify"} /\ ~This.rollback
  /\ Moves("ROLLING_BACK")
  /\ \E t \in DOMAIN rows :
       /\ run' = [Idle EXCEPT !.pc = "restore", !.row = run.row, !.target = t]
       /\ t \in 1 .. run.row - 1 /\ rows[t].state = "SUCCEEDED"
       /\ Checked => FloorHolds(This.version, rows[t].version)
GivesUp == Stuck \/ Ends("FAILED") \/ Ends("ROLLBACK_FAILED") \/ Returns

LEMMA FailGivesUp ==
  ASSUME TypeOK, RunInv, run.pc \notin {"idle", "restore"}, NEW cause, Fail(cause)
  PROVE  GivesUp
<1>1. Outcome(cause) \in {"FAILED", "ROLLBACK_FAILED", "ROLLING_BACK"}
  BY DEF Outcome
<1>2. /\ run.row \in DOMAIN rows
      /\ \/ run.pc \in {"preflight", "gates", "clock", "asleep"}
            /\ This.state \in {"PREFLIGHT", "AWAIT_APPROVAL"}
         \/ run.pc \in {"deploy", "verify"} /\ This.state \in {"DEPLOYING", "VERIFYING"}
  BY ActiveRun
<1>3. CASE Outcome(cause) = "ROLLING_BACK" /\ CanTransition(This.state, "ROLLING_BACK")
  <2>1. /\ Moves("ROLLING_BACK")
        /\ run' = [Idle EXCEPT !.pc = "restore", !.row = run.row,
                               !.target = PlanRollback(rows, run.row, Checked)]
    BY <1>3 DEF Fail, Moves
  <2>2. ~This.rollback /\ PlanRollback(rows, run.row, Checked) # NoRow
    BY <1>3 DEF Outcome
  <2>3. PICK t : t = PlanRollback(rows, run.row, Checked)
    OBVIOUS
  <2>4. /\ t \in DOMAIN rows /\ t \in 1 .. run.row - 1 /\ rows[t].state = "SUCCEEDED"
        /\ Checked => FloorHolds(rows[run.row].version, rows[t].version)
    <3>1. rows \in Seq(Rows)
      BY DEF TypeOK
    <3>2. PICK i, checked : i = run.row /\ checked = Checked
      OBVIOUS
    <3> QED  BY <1>2, <2>2, <2>3, <3>1, <3>2, PlanIsSafe
  <2>5. run.pc \in {"deploy", "verify"}
    BY <1>2, <1>3, Transitions
  <2>6. Returns
    BY <2>1, <2>2, <2>3, <2>4, <2>5 DEF Returns, This
  <2> QED  BY <2>6 DEF GivesUp
<1>4. CASE ~(Outcome(cause) = "ROLLING_BACK" /\ CanTransition(This.state, "ROLLING_BACK"))
  <2>1. End(Outcome(cause))
    BY <1>4 DEF Fail
  <2>2. CASE CanTransition(This.state, Outcome(cause))
    BY <1>1, <1>4, <2>1, <2>2 DEF End, GivesUp, Ends, Moves
  <2>3. CASE ~CanTransition(This.state, Outcome(cause))
    <3>1. run.pc \in {"preflight", "gates", "clock", "asleep"}
      BY <1>1, <1>2, <2>3, Transitions
    <3> QED  BY <2>1, <2>3, <3>1 DEF End, GivesUp, Stuck
  <2> QED  BY <2>2, <2>3
<1> QED  BY <1>3, <1>4

\* After a step of the run everything still has its type.
LEMMA RunStepTypes ==
  ASSUME TypeOK, run.row \in DOMAIN rows, rows[run.row].state # "PENDING", RunFrame, RowsMove,
         run' \in RunType, live' \in Version \cup {NoVersion}, did' \subseteq Asked
  PROVE  TypeOK'
<1>1. DOMAIN rows' = DOMAIN rows /\ Len(rows') = Len(rows)
  BY DEF RowsMove, TypeOK
<1>2. /\ env' \in Envs /\ Accepted(env') /\ now' \in Start .. (Limit.end)'
  BY DEF TypeOK, RunFrame, Limit
<1>3. rows' \in Seq(Rows) /\ \A i \in DOMAIN rows' : rows'[i].of \in 0 .. i - 1
  BY <1>1 DEF TypeOK, RowsMove
<1>4. \/ request' = NoRequest
      \/ /\ request' \in [kind : {"deploy", "promote", "rollback"}, version : Version,
                          by : STRING, of : Nat, named : BOOLEAN]
         /\ request'.of \in 0 .. Len(rows')
  BY <1>1 DEF TypeOK, RunFrame
<1>5. starting' \subseteq {i \in DOMAIN rows' : rows'[i].state = "PENDING"}
  BY <1>1 DEF TypeOK, RunFrame, RowsMove
<1>6. /\ approvals' \subseteq [row : DOMAIN rows', user : DOMAIN Identities, at : Int]
      /\ approving' = NoHandler \/ approving' \in [row : DOMAIN rows', user : DOMAIN Identities]
      /\ did' \subseteq [row : DOMAIN rows', version : Version, auto : BOOLEAN,
                         asked : Seq(Int), at : Int, frozen : Int]
  BY <1>1 DEF TypeOK, RunFrame, Asked
<1>7. freeze' \in [on : BOOLEAN, since : Int, until : Int] /\ tested' \in Seq(Version)
  BY DEF TypeOK, RunFrame
<1> QED  BY <1>2, <1>3, <1>4, <1>5, <1>6, <1>7 DEF TypeOK, RunType

\* The other ways of a run: through preflight, through a gate, to wait at one, to a bake.
Admits ==
  /\ run.pc = "preflight" /\ ~Frozen /\ MayDeploy(This)
  /\ RowsMove /\ rows'[run.row].passed = now
  /\ \/ /\ HasApproval(env) /\ rows'[run.row].state = "AWAIT_APPROVAL"
        /\ run' = [run EXCEPT !.pc = "gates", !.gate = 1]
     \/ /\ ~HasApproval(env) /\ rows'[run.row].state = "DEPLOYING"
        /\ run' = [run EXCEPT !.pc = "deploy", !.gate = 1]

Passes == run.pc = "gates" /\ GateHeld(run.row, ThisGate, now) /\ PassGate

Waits ==
  /\ run.pc \in {"gates", "clock", "asleep"} /\ ThisGate.type = "approval" /\ rows' = rows
  /\ \E pc \in {"gates", "clock", "asleep"}, wake \in Int :
       run' = [run EXCEPT !.pc = pc, !.wake = wake]

Verifies ==
  /\ \/ run.pc = "deploy" /\ Moves("VERIFYING")
     \/ run.pc = "verify" /\ rows' = rows
  /\ \E i \in Nat : run' = [run EXCEPT !.pc = "verify", !.bake = i]

Goes ==
  \/ GivesUp \/ Admits \/ Passes \/ Waits \/ Verifies
  \/ run.pc \in {"deploy", "verify"} /\ Ends("SUCCEEDED")
  \/ run.pc = "restore" /\ Ends("ROLLED_BACK")
  \/ rows' = rows /\ run' = run

Asks ==
  \/ did' = did /\ live' = live
  \/ run.pc = "deploy" /\ Ask(This.version, FALSE)
  \/ run.pc = "restore" /\ Ask(rows[run.target].version, TRUE)

RunStep ==
  \/ Preflight \/ CheckSchedule \/ CheckFreeze \/ ReadApprovals \/ ReadClock \/ WakeUp
  \/ Deploy \/ Bake \/ ActOnVerdict \/ Restore

LEMMA EnvironmentFacts ==
  ASSUME TypeOK
  PROVE  /\ env \in Envs /\ env.gates \in Seq(Gates(Day)) /\ env.rollback.max \in Int
         /\ env.rollback.max >= 1
         /\ PolicyTyped(env.verify) /\ PolicyFits(env.verify)
         /\ \A k \in Int : \A i \in NextBake(env, k) : i \in Nat /\ BakeWindow(env, i) \in Int
<1>1. env \in Envs /\ EnvironmentTyped(env, Day) /\ Accepted(env)
  BY DeploymentsAssumption DEF TypeOK
<1>2. env.gates \in Seq(Gates(Day)) /\ env.rollback.max \in Int /\ env.rollback.max >= 1
  BY <1>1 DEF EnvironmentTyped, Accepted, RollbackAccepted
<1>3. PolicyTyped(env.verify)
  BY <1>1 DEF EnvironmentTyped, PolicyTyped
<1>4. PolicyFits(env.verify)
  BY <1>1 DEF Accepted, VerifyAccepted, CrossAccepted, PolicyFits
<1>5. ASSUME NEW k \in Int, NEW i \in NextBake(env, k)
      PROVE  i \in Nat /\ BakeWindow(env, i) \in Int
  <2>1. i \in Bakes(env)
    BY DEF NextBake
  <2>2. env.verify.bake \in Int
    BY <1>3 DEF PolicyTyped
  <2>3. CASE env.strategy.type = "canary"
    <3>1. i \in DOMAIN env.strategy.steps /\ Set(env.strategy.steps[i].bake)
      BY <2>1, <2>3 DEF Bakes
    <3>2. i \in Nat /\ env.strategy.steps[i].bake \in Int
      BY <1>1, <3>1 DEF EnvironmentTyped, Set
    <3> QED  BY <2>2, <2>3, <3>2 DEF BakeWindow
  <2>4. CASE env.strategy.type # "canary"
    BY <2>1, <2>2, <2>4 DEF Bakes, BakeWindow
  <2> QED  BY <2>3, <2>4
<1> QED  BY <1>1, <1>2, <1>3, <1>4, <1>5

\* The gate that a run is at is one of the file's.
LEMMA AtAGate ==
  ASSUME TypeOK, GateInv, run.pc \in {"gates", "clock", "asleep"}
  PROVE  /\ run.gate \in 1 .. Len(env.gates) /\ ThisGate \in Gates(Day) /\ HasApproval(env)
         /\ now \in Nat /\ now \in Int
<1>1. env.gates \in Seq(Gates(Day)) /\ run.gate \in DOMAIN env.gates /\ HasApproval(env)
  BY EnvironmentFacts DEF GateInv
<1>2. now \in Nat /\ now \in Int
  <2>1. now \in Start .. Limit.end /\ Start \in Nat
    BY DeploymentsAssumption DEF TypeOK
  <2> QED  BY <2>1
<1> QED  BY <1>1, <1>2 DEF ThisGate

LEMMA GateKinds ==
  ASSUME NEW g \in Gates(Day)
  PROVE  /\ g.type \in {"approval", "freeze_window", "schedule"}
         /\ g.type = "schedule" =>
              g.deny \subseteq [weekday : 0 .. 6, start : 0 .. Day - 1, end : 0 .. Day - 1]
BY DEF Gates

LEMMA FailGoes ==
  ASSUME TypeOK, RunInv, run.pc \notin {"idle", "restore"}, NEW cause, Fail(cause)
  PROVE  Goes
<1>1. GivesUp
  BY FailGivesUp
<1> QED  BY <1>1, Zenon DEF Goes

LEMMA PassGoes ==
  ASSUME run.pc = "gates", GateHeld(run.row, ThisGate, now), PassGate
  PROVE  Goes
<1>1. Passes
  BY DEF Passes
<1> QED  BY <1>1, Zenon DEF Goes

LEMMA WaitGoes ==
  ASSUME run.pc \in {"gates", "clock", "asleep"}, ThisGate.type = "approval", rows' = rows,
         NEW pc \in {"gates", "clock", "asleep"}, NEW wake \in Int,
         run' = [run EXCEPT !.pc = pc, !.wake = wake]
  PROVE  Goes
<1>1. Waits
  BY Zenon DEF Waits
<1> QED  BY <1>1, Zenon DEF Goes

LEMMA VerifyGoes ==
  ASSUME \/ run.pc = "deploy" /\ Moves("VERIFYING")
         \/ run.pc = "verify" /\ rows' = rows,
         NEW i \in Nat, run' = [run EXCEPT !.pc = "verify", !.bake = i]
  PROVE  Goes
<1>1. Verifies
  BY Zenon DEF Verifies
<1> QED  BY <1>1, Zenon DEF Goes

LEMMA SucceedGoes ==
  ASSUME run.pc \in {"deploy", "verify"}, Succeed
  PROVE  Goes
<1>1. Ends("SUCCEEDED")
  BY DEF Succeed, Ends, Moves
<1> QED  BY <1>1, Zenon DEF Goes

LEMMA PreflightGoes ==
  ASSUME TypeOK, RunInv, Preflight
  PROVE  RunFrame /\ Goes /\ Asks
<1>1. run.pc = "preflight" /\ RunFrame /\ did' = did /\ live' = live
  BY DEF Preflight, RunFrame, api, consent, world
<1>2. run.row \in DOMAIN rows /\ rows \in Seq(Rows)
  BY <1>1, ActiveRun
<1>3. CASE Fail("blocked") \/ Fail("error")
  BY <1>1, <1>2, <1>3, FailGoes DEF Asks
<1>4. CASE ~(Fail("blocked") \/ Fail("error"))
  <2>1. /\ ~Frozen /\ MayDeploy(This)
        /\ rows' = [rows EXCEPT ![run.row].passed = now,
                                ![run.row].state = IF HasApproval(env) THEN "AWAIT_APPROVAL"
                                                   ELSE "DEPLOYING"]
        /\ run' = [run EXCEPT !.pc = IF HasApproval(env) THEN "gates" ELSE "deploy",
                              !.gate = 1]
    BY <1>4 DEF Preflight
  <2>2. PICK q, i, n, s :
          /\ q = rows' /\ i = run.row /\ n = now
          /\ s = IF HasApproval(env) THEN "AWAIT_APPROVAL" ELSE "DEPLOYING"
    OBVIOUS
  <2>3. q = [rows EXCEPT ![i].passed = n, ![i].state = s]
    BY <2>1, <2>2, Zenon
  <2>4. i \in DOMAIN rows /\ n \in Int /\ s \in State
    <3>1. now \in Start .. Limit.end /\ Start \in Nat
      BY DeploymentsAssumption DEF TypeOK
    <3> QED  BY <1>2, <2>2, <3>1, StateNames
  <2>5. /\ DOMAIN q = DOMAIN rows /\ \A j \in DOMAIN rows : j # i => q[j] = rows[j]
        /\ q[i] = [rows[i] EXCEPT !.passed = n, !.state = s]
    BY <1>2, <2>3, <2>4
  <2>6. rows[i] \in Rows
    BY <1>2, <2>4
  <2>7. /\ q[i] \in Rows /\ q[i].state = s /\ q[i].passed = n
        /\ q[i].version = rows[i].version /\ q[i].rollback = rows[i].rollback
        /\ q[i].by = rows[i].by /\ q[i].created = rows[i].created
        /\ q[i].of = rows[i].of /\ q[i].named = rows[i].named
    BY <2>4, <2>5, <2>6 DEF Rows
  <2>8. q \in Seq(Rows) /\ Len(q) = Len(rows)
    <3>1. /\ DOMAIN q = 1 .. Len(rows) /\ Len(rows) \in Nat
          /\ \A j \in DOMAIN rows : rows[j] \in Rows
      BY <1>2, <2>5
    <3>2. \A j \in 1 .. Len(rows) : q[j] \in Rows
      BY <2>5, <2>7, <3>1
    <3>3. q = [j \in 1 .. Len(rows) |-> q[j]]
      BY <2>3, <3>1
    <3> QED  BY <3>1, <3>2, <3>3
  <2>9. RowsMove /\ rows'[run.row].passed = now /\ rows'[run.row].state = s
    BY <2>2, <2>5, <2>7, <2>8 DEF RowsMove
  <2>10. Admits
    BY <1>1, <2>1, <2>2, <2>9 DEF Admits
  <2>11. Goes
    BY <2>10, Zenon DEF Goes
  <2> QED  BY <1>1, <2>11 DEF Asks
<1> QED  BY <1>3, <1>4

LEMMA GatesGo ==
  ASSUME TypeOK, RunInv, GateInv,
         CheckSchedule \/ CheckFreeze \/ ReadApprovals \/ ReadClock \/ WakeUp
  PROVE  RunFrame /\ Goes /\ Asks
<1>1. RunFrame /\ Asks
  BY DEF CheckSchedule, CheckFreeze, ReadApprovals, ReadClock, WakeUp, AwaitFrame, RunFrame,
         Asks, api, consent, world
<1> SUFFICES Goes
  BY <1>1
<1>2. run.pc \in {"gates", "clock", "asleep"}
  BY DEF CheckSchedule, CheckFreeze, ReadApprovals, ReadClock, WakeUp, AtGate
<1>3. /\ run.row \in DOMAIN rows /\ run \in RunType
      /\ ThisGate \in Gates(Day) /\ now \in Nat /\ now \in Int
  BY <1>2, ActiveRun, AtAGate
<1>4. CASE CheckSchedule
  <2>1. run.pc = "gates" /\ ThisGate.type = "schedule"
    BY <1>4 DEF CheckSchedule, AtGate
  <2>2. CASE Denied(ThisGate, now, Day)
    BY <1>2, <1>4, <2>2, FailGoes DEF CheckSchedule
  <2>3. CASE ~Denied(ThisGate, now, Day)
    <3>1. \A w \in ThisGate.deny : ~InWindow(w, now)
      <4>1. PICK g, t : g = ThisGate /\ t = now
        OBVIOUS
      <4>2. g.deny \subseteq [weekday : 0 .. 6, start : 0 .. Day - 1, end : 0 .. Day - 1]
        BY <1>3, <2>1, <4>1, GateKinds
      <4>3. \A w \in g.deny : ~InWindow(w, t)
        BY <1>3, <2>3, <4>1, <4>2, NotDenied
      <4> QED  BY <4>1, <4>3
    <3>2. GateHeld(run.row, ThisGate, now)
      BY <2>1, <3>1 DEF GateHeld
    <3>3. PassGate
      BY <1>4, <2>3 DEF CheckSchedule
    <3> QED  BY <2>1, <3>2, <3>3, PassGoes
  <2> QED  BY <2>2, <2>3
<1>5. CASE CheckFreeze
  <2>1. run.pc = "gates" /\ ThisGate.type = "freeze_window"
    BY <1>5 DEF CheckFreeze, AtGate
  <2>2. GateHeld(run.row, ThisGate, now)
    BY <2>1 DEF GateHeld
  <2>3. Fail("blocked") \/ PassGate
    BY <1>5 DEF CheckFreeze
  <2> QED  BY <2>1, <2>2, <2>3, FailGoes, PassGoes
<1>6. CASE ReadApprovals
  <2>1. run.pc = "gates" /\ ThisGate.type = "approval"
    BY <1>6 DEF ReadApprovals, AtGate
  <2>2. CASE \E a \in approvals :
               a.row = run.row /\ ApprovalIsValid(run.row, ThisGate, a.user, a.at)
    <3>1. GateHeld(run.row, ThisGate, now)
      BY <2>1, <2>2 DEF GateHeld, ConsentedTo, ApprovalIsValid
    <3>2. PassGate
      BY <1>6, <2>2 DEF ReadApprovals
    <3> QED  BY <2>1, <3>1, <3>2, PassGoes
  <2>3. CASE ~(\E a \in approvals :
                 a.row = run.row /\ ApprovalIsValid(run.row, ThisGate, a.user, a.at))
    <3>1. run' = [run EXCEPT !.pc = "clock"] /\ rows' = rows
      BY <1>6, <2>3 DEF ReadApprovals
    <3>2. run' = [run EXCEPT !.pc = "clock", !.wake = run.wake] /\ run.wake \in Int
      BY <1>3, <3>1 DEF RunType
    <3> QED  BY <2>1, <3>1, <3>2, WaitGoes
  <2> QED  BY <2>2, <2>3
<1>7. CASE ReadClock
  <2>1. run.pc = "clock" /\ ThisGate.type = "approval"
    BY <1>7 DEF ReadClock, GateInv
  <2>2. CASE now >= This.created + ThisGate.ttl
    BY <1>2, <1>7, <2>2, FailGoes DEF ReadClock
  <2>3. CASE ~(now >= This.created + ThisGate.ttl)
    <3>1. run' = [run EXCEPT !.pc = "asleep", !.wake = now + 1] /\ rows' = rows /\ now + 1 \in Int
      BY <1>3, <1>7, <2>3 DEF ReadClock
    <3> QED  BY <2>1, <3>1, WaitGoes
  <2> QED  BY <2>2, <2>3
<1>8. CASE WakeUp
  <2>1. run.pc = "asleep" /\ ThisGate.type = "approval"
    BY <1>8 DEF WakeUp, GateInv
  <2>2. run' = [run EXCEPT !.pc = "gates"] /\ rows' = rows
    BY <1>8 DEF WakeUp
  <2>3. run' = [run EXCEPT !.pc = "gates", !.wake = run.wake] /\ run.wake \in Int
    BY <1>3, <2>2 DEF RunType
  <2> QED  BY <2>1, <2>2, <2>3, WaitGoes
<1>9. QED  BY <1>1, <1>4, <1>5, <1>6, <1>7, <1>8

LEMMA BakeNextGoes ==
  ASSUME TypeOK, BakeNext
  PROVE  /\ \E i \in Nat : run' = [run EXCEPT !.pc = "verify", !.bake = i]
         /\ \E bake \in Int : StartBake(bake)
<1>1. run.bake \in Int
  BY DEF TypeOK
<1>2. PICK i \in NextBake(env, run.bake) :
        run' = [run EXCEPT !.pc = "verify", !.bake = i] /\ StartBake(BakeWindow(env, i))
  BY DEF BakeNext
<1>3. i \in Nat /\ BakeWindow(env, i) \in Int
  BY <1>1, EnvironmentFacts
<1> QED  BY <1>2, <1>3

LEMMA WorkGoes ==
  ASSUME TypeOK, RunInv, Deploy \/ Bake \/ ActOnVerdict \/ Restore
  PROVE  RunFrame /\ Goes /\ Asks
<1>1. RunFrame
  BY DEF Deploy, Bake, ActOnVerdict, Restore, VerifyFrame, RunFrame, api, consent, world
<1>2. run.row \in DOMAIN rows
  BY ActiveRun DEF Deploy, Bake, ActOnVerdict, Restore
<1>3. CASE Deploy
  <2>1. run.pc = "deploy" /\ Asks
    BY <1>3 DEF Deploy, Asks
  <2>2. CASE Fail("error")
    BY <1>1, <1>2, <2>1, <2>2, FailGoes
  <2>3. CASE Succeed
    BY <1>1, <2>1, <2>3, SucceedGoes
  <2>4. CASE rows' = [rows EXCEPT ![run.row].state = "VERIFYING"] /\ BakeNext
    <3>1. Moves("VERIFYING")
      BY <2>4 DEF Moves
    <3> QED  BY <1>1, <2>1, <2>4, <3>1, BakeNextGoes, VerifyGoes
  <2>5. Fail("error") \/ Succeed \/ (rows' = [rows EXCEPT ![run.row].state = "VERIFYING"] /\ BakeNext)
    BY <1>3 DEF Deploy
  <2> QED  BY <1>1, <2>1, <2>2, <2>3, <2>4, <2>5
<1>4. CASE Bake
  <2>1. rows' = rows /\ run' = run /\ Asks
    BY <1>4 DEF Bake, VerifyFrame, Asks
  <2>2. Goes
    BY <2>1, Zenon DEF Goes
  <2> QED  BY <1>1, <2>1, <2>2
<1>5. CASE ActOnVerdict
  <2>1. run.pc = "verify" /\ Asks
    BY <1>5 DEF ActOnVerdict, VerifyFrame, Asks
  <2>2. CASE BakeNext /\ UNCHANGED rows
    BY <1>1, <2>1, <2>2, BakeNextGoes, VerifyGoes
  <2>3. CASE Succeed
    BY <1>1, <2>1, <2>3, SucceedGoes
  <2>4. CASE Fail("error") \/ Fail("inconclusive")
    BY <1>1, <1>2, <2>1, <2>4, FailGoes
  <2>5. (BakeNext /\ UNCHANGED rows) \/ Succeed \/ Fail("error") \/ Fail("inconclusive")
    BY <1>5 DEF ActOnVerdict
  <2> QED  BY <1>1, <2>1, <2>2, <2>3, <2>4, <2>5
<1>6. CASE Restore
  <2>1. run.pc = "restore" /\ Asks
    BY <1>6 DEF Restore, Asks
  <2>2. End("ROLLBACK_FAILED") \/ End("ROLLED_BACK")
    BY <1>6 DEF Restore
  <2>3. Ends("ROLLBACK_FAILED") \/ Ends("ROLLED_BACK")
    <3>1. This.state = "ROLLING_BACK"
      BY <2>1, ActiveRun
    <3> QED  BY <2>2, <3>1, Transitions DEF End, Ends, Moves
  <2>4. Goes
    BY <2>1, <2>3, Zenon DEF Goes, GivesUp
  <2> QED  BY <1>1, <2>1, <2>4
<1> QED  BY <1>3, <1>4, <1>5, <1>6

LEMMA RunStepGoes ==
  ASSUME TypeOK, RunInv, GateInv, RunStep
  PROVE  run.pc # "idle" /\ RunFrame /\ Goes /\ Asks
<1>1. run.pc # "idle"
  BY DEF RunStep, Preflight, CheckSchedule, CheckFreeze, ReadApprovals, ReadClock, WakeUp,
         AtGate, Deploy, Bake, ActOnVerdict, Restore
<1> QED  BY <1>1, PreflightGoes, GatesGo, WorkGoes DEF RunStep
-----------------------------------------------------------------------------
(* Where a step of the run leaves it, and its row.                         *)

Places == {<<"preflight", "PREFLIGHT">>, <<"gates", "AWAIT_APPROVAL">>,
           <<"clock", "AWAIT_APPROVAL">>, <<"asleep", "AWAIT_APPROVAL">>,
           <<"deploy", "DEPLOYING">>, <<"verify", "VERIFYING">>, <<"restore", "ROLLING_BACK">>}

GoesOn == run'.row = run.row /\ <<run'.pc, rows'[run.row].state>> \in Places

IsOver(states) == run' = Idle /\ rows'[run.row].state \in states

Failed == {"FAILED", "ROLLBACK_FAILED"}

LEMMA GivingUp ==
  ASSUME TypeOK, RunInv, run.pc # "idle", GivesUp
  PROVE  /\ RowsMove /\ run' \in RunType /\ rows'[run.row].passed = rows[run.row].passed
         /\ Stuck \/ IsOver(Failed) \/ (GoesOn /\ Returns /\ run'.pc = "restore")
<1>1. run.row \in DOMAIN rows /\ run.row \in Nat
  BY ActiveRun
<1>2. CASE Stuck
  BY <1>1, <1>2, NotMoving, IdleRun DEF Stuck
<1>3. ASSUME NEW s \in Failed, Ends(s)
      PROVE  /\ RowsMove /\ run' \in RunType /\ rows'[run.row].passed = rows[run.row].passed
             /\ IsOver(Failed)
  BY <1>1, <1>3, Moving, IdleRun, StateNames DEF Ends, IsOver, Failed
<1>4. CASE Returns
  <2>1. RowsMove /\ rows'[run.row].state = "ROLLING_BACK"
        /\ rows'[run.row].passed = rows[run.row].passed
    BY <1>1, <1>4, Moving, StateNames DEF Returns
  <2>2. run' \in RunType /\ run'.pc = "restore" /\ run'.row = run.row
    <3>1. PICK t \in DOMAIN rows :
            run' = [Idle EXCEPT !.pc = "restore", !.row = run.row, !.target = t]
      BY <1>4 DEF Returns
    <3>2. t \in Nat
      BY DEF TypeOK
    <3>3. run' = [pc |-> "restore", row |-> run.row, gate |-> 0, asked |-> <<>>, wake |-> Start,
                  bake |-> 0, target |-> t]
      BY <3>1 DEF Idle
    <3>4. Start \in Int /\ <<>> \in Seq(Int)
      BY DeploymentsAssumption
    <3> QED  BY <1>1, <3>2, <3>3, <3>4 DEF RunType, PlaceInRun
  <2> QED  BY <1>4, <2>1, <2>2 DEF GoesOn, Places
<1> QED  BY <1>2, <1>3, <1>4 DEF GivesUp, Failed

LEMMA Passing ==
  ASSUME TypeOK, RunInv, GateInv, Passes
  PROVE  /\ RowsMove /\ run' \in RunType /\ rows'[run.row].passed = rows[run.row].passed
         /\ GoesOn /\ run'.asked = Append(run.asked, now)
         /\ \/ /\ run.gate = Len(env.gates) /\ run'.pc = "deploy"
            \/ run.gate # Len(env.gates) /\ run'.pc = "gates" /\ run'.gate = run.gate + 1
<1>1. /\ run.pc = "gates" /\ run.row \in DOMAIN rows /\ run \in RunType
      /\ This.state = "AWAIT_APPROVAL" /\ run.gate \in 1 .. Len(env.gates) /\ now \in Int
  BY ActiveRun, AtAGate DEF Passes
<1>2. run.asked \in Seq(Int) /\ Append(run.asked, now) \in Seq(Int) /\ run.gate + 1 \in Nat
  BY <1>1 DEF RunType
<1>3. CASE run.gate = Len(env.gates)
  <2>1. Moves("DEPLOYING") /\ run' = [run EXCEPT !.pc = "deploy", !.asked = Append(@, now)]
    BY <1>3 DEF Passes, PassGate, Moves
  <2>2. /\ RowsMove /\ rows'[run.row].state = "DEPLOYING"
        /\ rows'[run.row].passed = rows[run.row].passed
    BY <1>1, <2>1, Moving, StateNames
  <2>3. run' \in RunType /\ run'.pc = "deploy" /\ run'.row = run.row
        /\ run'.asked = Append(run.asked, now)
    BY <1>1, <1>2, <2>1 DEF RunType, PlaceInRun
  <2> QED  BY <1>3, <2>2, <2>3 DEF GoesOn, Places
<1>4. CASE run.gate # Len(env.gates)
  <2>1. rows' = rows /\ run' = [run EXCEPT !.gate = @ + 1, !.asked = Append(@, now)]
    BY <1>4 DEF Passes, PassGate
  <2>2. run' \in RunType /\ run'.pc = "gates" /\ run'.row = run.row /\ run'.gate = run.gate + 1
        /\ run'.asked = Append(run.asked, now)
    BY <1>1, <1>2, <2>1 DEF RunType
  <2> QED  BY <1>1, <1>4, <2>1, <2>2, NotMoving DEF GoesOn, Places, This
<1> QED  BY <1>3, <1>4

LEMMA Admitting ==
  ASSUME TypeOK, RunInv, Admits
  PROVE  /\ RowsMove /\ run' \in RunType /\ GoesOn
         /\ \/ run'.pc = "gates" /\ run'.gate = 1 /\ HasApproval(env)
            \/ run'.pc = "deploy" /\ ~HasApproval(env)
         /\ run'.asked = run.asked
<1>1. run.row \in DOMAIN rows /\ run \in RunType /\ This.state = "PREFLIGHT"
  BY ActiveRun DEF Admits
<1>2. CASE HasApproval(env)
  <2>1. run' = [run EXCEPT !.pc = "gates", !.gate = 1] /\ rows'[run.row].state = "AWAIT_APPROVAL"
    BY <1>2 DEF Admits
  <2>2. run' \in RunType /\ run'.pc = "gates" /\ run'.gate = 1 /\ run'.row = run.row
        /\ run'.asked = run.asked
    BY <1>1, <2>1 DEF RunType, PlaceInRun
  <2> QED  BY <1>2, <2>1, <2>2 DEF Admits, GoesOn, Places
<1>3. CASE ~HasApproval(env)
  <2>1. run' = [run EXCEPT !.pc = "deploy", !.gate = 1] /\ rows'[run.row].state = "DEPLOYING"
    BY <1>3 DEF Admits
  <2>2. run' \in RunType /\ run'.pc = "deploy" /\ run'.row = run.row /\ run'.asked = run.asked
    BY <1>1, <2>1 DEF RunType, PlaceInRun
  <2> QED  BY <1>3, <2>1, <2>2 DEF Admits, GoesOn, Places
<1> QED  BY <1>2, <1>3

LEMMA Waiting ==
  ASSUME TypeOK, RunInv, Waits
  PROVE  /\ RowsMove /\ run' \in RunType /\ GoesOn /\ rows' = rows
         /\ run'.pc \in {"gates", "clock", "asleep"} /\ run'.gate = run.gate
         /\ run'.asked = run.asked
<1>1. run.row \in DOMAIN rows /\ run \in RunType /\ This.state = "AWAIT_APPROVAL"
  BY ActiveRun DEF Waits
<1>2. PICK pc \in {"gates", "clock", "asleep"}, wake \in Int :
        run' = [run EXCEPT !.pc = pc, !.wake = wake]
  BY DEF Waits
<1>3. run' \in RunType /\ run'.pc = pc /\ run'.row = run.row /\ run'.gate = run.gate
      /\ run'.asked = run.asked
  BY <1>1, <1>2 DEF RunType, PlaceInRun
<1>4. rows' = rows /\ RowsMove
  BY NotMoving DEF Waits
<1> QED  BY <1>1, <1>3, <1>4 DEF GoesOn, Places, This

LEMMA Verifying ==
  ASSUME TypeOK, RunInv, Verifies
  PROVE  /\ RowsMove /\ run' \in RunType /\ GoesOn /\ run'.pc = "verify"
         /\ rows'[run.row].passed = rows[run.row].passed
         /\ rows'[run.row].state = "VERIFYING"
<1>1. /\ run.row \in DOMAIN rows /\ run \in RunType
      /\ run.pc = "verify" => This.state = "VERIFYING"
  BY ActiveRun DEF Verifies
<1>2. PICK i \in Nat : run' = [run EXCEPT !.pc = "verify", !.bake = i]
  BY DEF Verifies
<1>3. run' \in RunType /\ run'.pc = "verify" /\ run'.row = run.row
  BY <1>1, <1>2 DEF RunType, PlaceInRun
<1>4. /\ RowsMove /\ rows'[run.row].state = "VERIFYING"
      /\ rows'[run.row].passed = rows[run.row].passed
  <2>1. CASE Moves("VERIFYING")
    BY <1>1, <2>1, Moving, StateNames
  <2>2. CASE run.pc = "verify" /\ rows' = rows
    BY <1>1, <2>2, NotMoving DEF This
  <2> QED  BY <2>1, <2>2 DEF Verifies
<1> QED  BY <1>3, <1>4 DEF GoesOn, Places

LEMMA Ending ==
  ASSUME TypeOK, RunInv, run.pc # "idle", NEW s \in {"SUCCEEDED", "ROLLED_BACK"}, Ends(s)
  PROVE  /\ RowsMove /\ run' \in RunType /\ rows'[run.row].passed = rows[run.row].passed
         /\ IsOver({s})
BY ActiveRun, Moving, IdleRun, StateNames DEF Ends, IsOver

Past(s) == s \notin {"PENDING", "PREFLIGHT", "AWAIT_APPROVAL"}

\* What the rest needs of a step of the run.
LEMMA GoesWhere ==
  ASSUME TypeOK, RunInv, GateInv, run.pc # "idle", Goes
  PROVE  /\ RowsMove /\ run' \in RunType
         /\ Stuck \/ IsOver(Failed \cup {"SUCCEEDED", "ROLLED_BACK"}) \/ GoesOn
         /\ run.pc \in {"deploy", "verify", "restore"} => Past(rows'[run.row].state)
         /\ run.pc # "preflight" => rows'[run.row].passed = rows[run.row].passed
<1>1. CASE GivesUp
  <2>1. /\ RowsMove /\ run' \in RunType /\ rows'[run.row].passed = rows[run.row].passed
        /\ Stuck \/ IsOver(Failed) \/ (GoesOn /\ Returns /\ run'.pc = "restore")
    BY <1>1, GivingUp
  <2>2. run.pc \in {"deploy", "verify", "restore"} => Past(rows'[run.row].state)
    BY <2>1 DEF Stuck, IsOver, Failed, GoesOn, Places, Past
  <2> QED  BY <2>1, <2>2 DEF IsOver
<1>2. CASE Admits
  BY <1>2, Admitting DEF Admits
<1>3. CASE Passes
  BY <1>3, Passing DEF Passes
<1>4. CASE Waits
  BY <1>4, Waiting DEF Waits
<1>5. CASE Verifies
  <2>1. Past("VERIFYING")
    BY DEF Past
  <2> QED  BY <1>5, <2>1, Verifying
<1>6. ASSUME NEW s \in {"SUCCEEDED", "ROLLED_BACK"}, Ends(s)
      PROVE  /\ RowsMove /\ run' \in RunType
             /\ IsOver(Failed \cup {"SUCCEEDED", "ROLLED_BACK"})
             /\ Past(rows'[run.row].state) /\ rows'[run.row].passed = rows[run.row].passed
  BY <1>6, Ending DEF IsOver, Past
<1>7. CASE rows' = rows /\ run' = run
  <2>1. run \in RunType /\ <<run.pc, rows[run.row].state>> \in Places
    BY ActiveRun DEF Places, This
  <2>2. run.pc \in {"deploy", "verify", "restore"} => Past(rows[run.row].state)
    BY <2>1 DEF Places, Past
  <2> QED  BY <1>7, <2>1, <2>2, NotMoving DEF GoesOn
<1> QED  BY <1>1, <1>2, <1>3, <1>4, <1>5, <1>6, <1>7 DEF Goes

\* A step of the run, in the words of this section.
LEMMA RunStepGoesWhere ==
  ASSUME TypeOK, RunInv, GateInv, RunStep
  PROVE  /\ run.pc # "idle" /\ run.row \in DOMAIN rows /\ RunFrame /\ Goes /\ Asks
         /\ RowsMove /\ run' \in RunType
         /\ Stuck \/ IsOver(Failed \cup {"SUCCEEDED", "ROLLED_BACK"}) \/ GoesOn
         /\ run.pc \in {"deploy", "verify", "restore"} => Past(rows'[run.row].state)
         /\ run.pc # "preflight" => rows'[run.row].passed = rows[run.row].passed
BY RunStepGoes, GoesWhere, ActiveRun

\* The deploy that a step of the run asks for.
Deployed(version, auto) ==
  [row |-> run.row, version |-> version, auto |-> auto, asked |-> run.asked, at |-> now,
   frozen |-> IF Frozen THEN freeze.since ELSE now]

LEMMA Asking ==
  ASSUME TypeOK, RunInv, SafeInv, run.pc # "idle", Asks
  PROVE  /\ did' \subseteq Asked /\ live' \in Version \cup {NoVersion}
         /\ \/ did' = did /\ live' = live
            \/ /\ run.pc = "deploy" /\ live' \in {live, This.version}
               /\ did' = did \cup {Deployed(This.version, FALSE)}
            \/ /\ run.pc = "restore" /\ run.target \in DOMAIN rows
               /\ live' \in {live, rows[run.target].version}
               /\ did' = did \cup {Deployed(rows[run.target].version, TRUE)}
<1>1. /\ run.row \in DOMAIN rows /\ run \in RunType /\ rows \in Seq(Rows)
      /\ did \subseteq Asked /\ live \in Version \cup {NoVersion}
  BY ActiveRun DEF TypeOK, Asked
<1>2. now \in Int /\ freeze.since \in Int /\ run.asked \in Seq(Int)
  <2>1. now \in Start .. Limit.end /\ Start \in Nat
    BY DeploymentsAssumption DEF TypeOK
  <2> QED  BY <1>1, <2>1 DEF TypeOK, RunType
<1>3. \A i \in DOMAIN rows : rows[i].version \in Version
  BY RowTyped
<1>4. \A version \in Version, auto \in BOOLEAN : Deployed(version, auto) \in Asked
  BY <1>1, <1>2 DEF Deployed, Asked
<1>5. \A version, auto : Ask(version, auto) =>
        live' \in {live, version} /\ did' = did \cup {Deployed(version, auto)}
  BY DEF Ask, Deployed
<1>6. run.pc = "restore" => run.target \in DOMAIN rows
  BY DEF SafeInv
<1>7. This.version \in Version
  BY <1>1, <1>3 DEF This
<1>8. CASE did' = did /\ live' = live
  BY <1>1, <1>8
<1>9. CASE run.pc = "deploy" /\ Ask(This.version, FALSE)
  <2>1. /\ live' \in {live, This.version}
        /\ did' = did \cup {Deployed(This.version, FALSE)}
    BY <1>5, <1>9, Zenon
  <2>2. Deployed(This.version, FALSE) \in Asked
    BY <1>4, <1>7
  <2> QED  BY <1>1, <1>7, <1>9, <2>1, <2>2
<1>10. CASE run.pc = "restore" /\ Ask(rows[run.target].version, TRUE)
  <2>1. /\ live' \in {live, rows[run.target].version}
        /\ did' = did \cup {Deployed(rows[run.target].version, TRUE)}
    BY <1>5, <1>10, Zenon
  <2>2. rows[run.target].version \in Version
    BY <1>3, <1>6, <1>10
  <2>3. Deployed(rows[run.target].version, TRUE) \in Asked
    BY <1>4, <2>2
  <2> QED  BY <1>1, <1>6, <1>10, <2>1, <2>2, <2>3
<1> QED  BY <1>8, <1>9, <1>10 DEF Asks
-----------------------------------------------------------------------------
(* RunInv, and the types, after a step of the run.                         *)

LEMMA RunStepTypeOK ==
  ASSUME TypeOK, RunInv, GateInv, SafeInv, RunStep
  PROVE  TypeOK'
<1>1. run.pc # "idle" /\ run.row \in DOMAIN rows /\ RunFrame /\ Asks /\ RowsMove /\ run' \in RunType
  BY RunStepGoesWhere
<1>2. did' \subseteq Asked /\ live' \in Version \cup {NoVersion}
  BY <1>1, Asking
<1>3. rows[run.row].state # "PENDING"
  BY <1>1, ActiveRun
<1> QED  BY <1>1, <1>2, <1>3, RunStepTypes

LEMMA RunStepRunInv ==
  ASSUME TypeOK, RunInv, GateInv, SafeInv, RunStep
  PROVE  RunInv'
<1>1. /\ run.pc # "idle" /\ run.row \in DOMAIN rows /\ RunFrame /\ Asks /\ RowsMove
      /\ Stuck \/ IsOver(Failed \cup {"SUCCEEDED", "ROLLED_BACK"}) \/ GoesOn
      /\ run.pc \in {"deploy", "verify", "restore"} => Past(rows'[run.row].state)
  BY RunStepGoesWhere
<1>2. DOMAIN rows' = DOMAIN rows /\ \A j \in DOMAIN rows : j # run.row => rows'[j] = rows[j]
  BY <1>1 DEF RowsMove, TypeOK
<1>3. <<run.pc, rows[run.row].state>> \in Places
  BY <1>1, ActiveRun DEF Places, This
<1>4. (run = Idle \/ (run.row \in DOMAIN rows /\ <<run.pc, This.state>> \in Places))'
  <2>1. run' = Idle \/ (run'.row = run.row /\ <<run'.pc, rows'[run.row].state>> \in Places)
    BY <1>1 DEF Stuck, IsOver, GoesOn
  <2> QED  BY <1>1, <1>2, <2>1 DEF This, Idle, Places
<1>5. \A i \in DOMAIN rows' :
        rows'[i].state \in WorkStates \ {"PREFLIGHT", "AWAIT_APPROVAL"} => i = run'.row
  <2> SUFFICES ASSUME NEW i \in DOMAIN rows,
                      rows'[i].state \in WorkStates \ {"PREFLIGHT", "AWAIT_APPROVAL"}
               PROVE  i = run'.row
    BY <1>2
  <2>1. i = run.row
    BY <1>2 DEF RunInv
  <2>2. ~Stuck
    BY <1>3, <2>1 DEF Stuck, Places
  <2>3. ~IsOver(Failed \cup {"SUCCEEDED", "ROLLED_BACK"})
    BY <2>1, StateNames DEF IsOver, Failed
  <2> QED  BY <1>1, <2>1, <2>2, <2>3 DEF GoesOn
<1>6. \A d \in did' : Past(rows'[d.row].state)
  <2>1. \A d \in did : d.row \in DOMAIN rows /\ Past(rows[d.row].state)
    BY DEF TypeOK, RunInv, Past
  <2>2. \A d \in did' : d \in did \/ (d.row = run.row /\ run.pc \in {"deploy", "restore"})
    BY <1>1, Asking DEF Deployed
  <2>3. ASSUME NEW d \in did', d.row # run.row
        PROVE  Past(rows'[d.row].state)
    BY <1>2, <2>1, <2>2, <2>3
  <2>4. ASSUME NEW d \in did', d.row = run.row
        PROVE  Past(rows'[d.row].state)
    <3>1. run.pc \in {"deploy", "verify", "restore"}
      BY <1>3, <2>1, <2>2, <2>4 DEF Places, Past
    <3> QED  BY <1>1, <2>4, <3>1
  <2> QED  BY <2>3, <2>4
<1>7. \A i \in DOMAIN rows' : rows'[i].created <= now'
  BY <1>1, <1>2 DEF RunInv, RunFrame, RowsMove
<1> QED  BY <1>4, <1>5, <1>6, <1>7 DEF RunInv, Past, Places
-----------------------------------------------------------------------------
(* The other steps.                                                        *)

Quiet == UNCHANGED <<env, rows, run, live, did, check, verdict, evidence>>

LEMMA CurrentRowIs ==
  ASSUME TypeOK
  PROVE  CurrentRow \in 0 .. Len(rows) /\ (CurrentRow # NoRow => CurrentRow \in DOMAIN rows)
<1>1. rows \in Seq(Rows)
  BY DEF TypeOK
<1>2. PICK n \in Nat : n = Len(rows) /\ DOMAIN rows = 1 .. n
  BY <1>1
<1>3. \A S \in SUBSET (1 .. n) : S # {} => Newest(S) \in S
  BY NewestOf
<1>4. \A S \in SUBSET (1 .. n) : Newest(S) = NoRow \/ Newest(S) \in 1 .. n
  BY <1>3 DEF Newest
<1>5. \E S \in SUBSET (1 .. n) : CurrentRow = Newest(S)
  BY <1>2 DEF CurrentRow
<1> QED  BY <1>2, <1>4, <1>5 DEF NoRow

\* A rollback that is planned goes to a row there is, that the manifest allows.
LEMMA PlannedRollback ==
  ASSUME TypeOK, NEW force, MayRollBack(force)
  PROVE  /\ CurrentRow \in DOMAIN rows
         /\ PlanRollback(rows, CurrentRow, Checked) \in DOMAIN rows
         /\ Safe(CurrentRow, rows[PlanRollback(rows, CurrentRow, Checked)].version)
<1>1. rows \in Seq(Rows)
  BY DEF TypeOK
<1>2. CurrentRow \in DOMAIN rows /\ PlanRollback(rows, CurrentRow, Checked) # NoRow
  BY CurrentRowIs DEF MayRollBack
<1>3. PICK i, checked : i \in DOMAIN rows /\ i = CurrentRow /\ checked = Checked
  BY <1>2
<1>4. PICK t : t = PlanRollback(rows, i, checked)
  OBVIOUS
<1>5. /\ t \in DOMAIN rows /\ t \in 1 .. i - 1 /\ rows[t].state = "SUCCEEDED"
      /\ checked => FloorHolds(rows[i].version, rows[t].version)
  BY <1>1, <1>2, <1>3, <1>4, PlanIsSafe
<1> QED  BY <1>2, <1>3, <1>4, <1>5 DEF Safe

LEMMA PlannedVersion ==
  ASSUME TypeOK, NEW r \in Requests[env.name], Plan(r)
  PROVE  VersionFor(r) \in Version
<1>1. RequestTyped(r)
  BY DeploymentsAssumption DEF TypeOK
<1>2. /\ r.kind \in {"deploy", "promote", "rollback"} /\ r.version \in Version \cup {NoVersion}
      /\ r.kind = "rollback" => MayRollBack(r.force)
      /\ r.kind = "promote" => MayPromote
      /\ r.kind = "deploy" => r.version # NoVersion
  BY <1>1 DEF RequestTyped, Plan
<1>3. CASE r.kind = "promote"
  <2>1. tested \in Seq(Version) /\ tested # <<>>
    BY <1>2, <1>3 DEF TypeOK, MayPromote
  <2>2. tested[Len(tested)] \in Version
    BY <2>1
  <2> QED  BY <1>3, <2>2 DEF VersionFor
<1>4. CASE r.kind = "rollback" /\ r.version = NoVersion
  <2>1. PlanRollback(rows, CurrentRow, Checked) \in DOMAIN rows
    BY <1>2, <1>4, PlannedRollback
  <2>2. rows[PlanRollback(rows, CurrentRow, Checked)].version \in Version
    BY <2>1, RowTyped
  <2> QED  BY <1>4, <2>2 DEF VersionFor
<1>5. CASE r.kind # "promote" /\ ~(r.kind = "rollback" /\ r.version = NoVersion)
  BY <1>2, <1>5 DEF VersionFor
<1> QED  BY <1>3, <1>4, <1>5

LEMMA PlanTypeOK ==
  ASSUME TypeOK, NEW r \in Requests[env.name], Plan(r)
  PROVE  TypeOK' /\ Quiet
<1>1. /\ UNCHANGED <<now, rows, starting, run, approvals, approving, env, freeze, tested, live, did>>
      /\ Quiet
  BY DEF Plan, consent, world, verifyVars, Quiet
<1>2. RequestTyped(r)
  BY DeploymentsAssumption DEF TypeOK
<1>3. /\ request' \in [kind : {"deploy", "promote", "rollback"}, version : Version,
                       by : STRING, of : Nat, named : BOOLEAN]
      /\ request'.of \in 0 .. Len(rows)
  <2>1. r.kind \in {"deploy", "promote", "rollback"} /\ Tokens[r.token].user \in STRING
    BY <1>2, DeploymentsAssumption DEF RequestTyped
  <2>2. PICK version, of :
          /\ version \in Version
          /\ version = VersionFor(r)
          /\ of = IF r.kind = "rollback" THEN CurrentRow ELSE NoRow
    BY PlannedVersion
  <2>3. of \in 0 .. Len(rows) /\ of \in Nat
    <3>1. Len(rows) \in Nat
      BY DEF TypeOK
    <3> QED  BY <2>2, <3>1, CurrentRowIs DEF NoRow
  <2>4. request' = [kind |-> r.kind, version |-> version, by |-> Tokens[r.token].user,
                    of |-> of, named |-> r.kind = "rollback" /\ r.version # NoVersion]
    BY <2>2 DEF Plan
  <2>5. (r.kind = "rollback" /\ r.version # NoVersion) \in BOOLEAN
    OBVIOUS
  <2> QED  BY <2>1, <2>2, <2>3, <2>4, <2>5
<1> QED  BY <1>1, <1>3 DEF TypeOK, Limit

LEMMA QuietTypeOK ==
  ASSUME TypeOK,
         \/ \E t \in DOMAIN Tokens : SetFreeze(t)
         \/ \E t \in DOMAIN Tokens, i \in DOMAIN rows : Approve(t, i)
         \/ RecordApproval \/ Tick
         \/ \E version \in DOMAIN Manifest : Upstream(version)
  PROVE  TypeOK' /\ Quiet /\ request' = request
<1>1. now \in Int /\ Limit.end \in Int
  <2>1. env \in Envs /\ now \in Start .. Limit.end /\ Start \in Nat
    BY DeploymentsAssumption DEF TypeOK
  <2>2. ScopeTyped(env, Bound[env.name])
    BY <2>1, DeploymentsAssumption
  <2> QED  BY <2>1, <2>2 DEF ScopeTyped, Limit
<1>2. ASSUME NEW t \in DOMAIN Tokens, SetFreeze(t)
      PROVE  TypeOK' /\ Quiet /\ request' = request
  <2>1. freeze' \in [on : BOOLEAN, since : Int, until : Int]
    <3>1. Start \in Int /\ now + 1 \in Int
      BY <1>1, DeploymentsAssumption
    <3>2. \/ \E until \in {now + 1, Limit.end} :
               freeze' = [on |-> TRUE, since |-> now, until |-> until]
          \/ freeze' = [on |-> FALSE, since |-> Start, until |-> Start]
      BY <1>2, Zenon DEF SetFreeze, NotFrozen
    <3>3. {now + 1, Limit.end} \subseteq Int
      BY <1>1, <3>1
    <3>4. \A b \in BOOLEAN : \A x, y \in Int :
            [on |-> b, since |-> x, until |-> y] \in [on : BOOLEAN, since : Int, until : Int]
      OBVIOUS
    <3> QED  BY <1>1, <3>1, <3>2, <3>3, <3>4, Zenon
  <2>2. UNCHANGED <<env, tested, now, rows, request, starting, run, approvals, approving, live, did>>
        /\ Quiet
    BY <1>2 DEF SetFreeze, api, consent, verifyVars, Quiet
  <2> QED  BY <2>1, <2>2 DEF TypeOK, Limit
<1>3. ASSUME NEW t \in DOMAIN Tokens, NEW i \in DOMAIN rows, Approve(t, i)
      PROVE  TypeOK' /\ Quiet /\ request' = request
  <2>1. approving' \in [row : DOMAIN rows, user : DOMAIN Identities]
    BY <1>3 DEF Approve, ApprovalIsValid, Can, Known
  <2>2. UNCHANGED <<env, tested, now, rows, request, starting, run, approvals, freeze, live, did>>
        /\ Quiet
    BY <1>3 DEF Approve, api, world, verifyVars, Quiet
  <2> QED  BY <2>1, <2>2 DEF TypeOK, Limit
<1>4. CASE RecordApproval
  <2>1. approving' = NoHandler /\ approving \in [row : DOMAIN rows, user : DOMAIN Identities]
    BY <1>4 DEF RecordApproval, TypeOK
  <2>2. approvals' \subseteq [row : DOMAIN rows, user : DOMAIN Identities, at : Int]
    <3>1. approvals \subseteq [row : DOMAIN rows, user : DOMAIN Identities, at : Int]
      BY DEF TypeOK
    <3>2. [row |-> approving.row, user |-> approving.user, at |-> now]
            \in [row : DOMAIN rows, user : DOMAIN Identities, at : Int]
      BY <1>1, <2>1
    <3>3. approvals' \subseteq approvals \cup {[row |-> approving.row, user |-> approving.user, at |-> now]}
      BY <1>4 DEF RecordApproval
    <3> QED  BY <3>1, <3>2, <3>3
  <2>3. UNCHANGED <<env, tested, now, rows, request, starting, run, freeze, live, did>> /\ Quiet
    BY <1>4 DEF RecordApproval, api, world, verifyVars, Quiet
  <2> QED  BY <2>1, <2>2, <2>3 DEF TypeOK, Limit
<1>5. CASE Tick
  <2>1. now' \in Start .. Limit.end
    BY <1>1, <1>5, DeploymentsAssumption DEF Tick, TypeOK
  <2>2. UNCHANGED <<env, tested, rows, request, starting, run, approvals, approving, freeze, live, did>>
        /\ Quiet
    BY <1>5 DEF Tick, api, consent, world, verifyVars, Quiet
  <2> QED  BY <2>1, <2>2 DEF TypeOK, Limit
<1>6. ASSUME NEW version \in DOMAIN Manifest, Upstream(version)
      PROVE  TypeOK' /\ Quiet /\ request' = request
  <2>1. tested' \in Seq(Version)
    BY <1>6 DEF Upstream, TypeOK, Version
  <2>2. UNCHANGED <<env, now, rows, request, starting, run, approvals, approving, freeze, live, did>>
        /\ Quiet
    BY <1>6 DEF Upstream, api, consent, verifyVars, Quiet
  <2> QED  BY <2>1, <2>2 DEF TypeOK, Limit
<1> QED  BY <1>2, <1>3, <1>4, <1>5, <1>6

LEMMA CreateTypeOK ==
  ASSUME TypeOK, Create
  PROVE  /\ TypeOK' /\ UNCHANGED <<env, now, run, live, did, tested, approvals, freeze>>
         /\ UNCHANGED <<check, verdict, evidence>>
         /\ Len(rows') = Len(rows) + 1 /\ \A i \in DOMAIN rows : rows'[i] = rows[i]
         /\ LET r == rows'[Len(rows')] IN
            /\ r.state = "PENDING" /\ r.version = request.version /\ r.of = request.of
            /\ r.rollback = (request.kind = "rollback") /\ r.named = request.named
            /\ r.created = now
         /\ request # NoRequest /\ request' = NoRequest
<1>1. PICK n \in Nat : n = Len(rows) /\ DOMAIN rows = 1 .. n /\ rows \in Seq(Rows)
  BY DEF TypeOK
<1>2. /\ UNCHANGED <<env, now, run, approvals, approving, freeze, tested, live, did>>
      /\ UNCHANGED <<check, verdict, evidence>> /\ request # NoRequest /\ request' = NoRequest
      /\ starting' = starting \cup {Len(rows')}
  BY DEF Create, consent, world, verifyVars
<1>3. PICK row : row = [NewRow(request.version, request.kind, request.by, now)
                          EXCEPT !.of = request.of, !.named = request.named]
  OBVIOUS
<1>4. row = [version |-> request.version, state |-> "PENDING",
             rollback |-> request.kind = "rollback", by |-> request.by, created |-> now,
             of |-> request.of, named |-> request.named, passed |-> now]
  BY <1>3 DEF NewRow
<1>5. rows' = Append(rows, row)
  BY <1>3 DEF Create
<1>6. /\ request \in [kind : {"deploy", "promote", "rollback"}, version : Version,
                      by : STRING, of : Nat, named : BOOLEAN]
      /\ request.of \in 0 .. n
  BY <1>1, <1>2 DEF TypeOK
<1>7. now \in Int
  <2>1. now \in Start .. Limit.end /\ Start \in Nat
    BY DeploymentsAssumption DEF TypeOK
  <2> QED  BY <2>1
<1>8. row \in Rows
  <2>1. (request.kind = "rollback") \in BOOLEAN
    OBVIOUS
  <2> HIDE <1>3
  <2> QED  BY <1>4, <1>6, <1>7, <2>1, StateNames DEF Rows
<1>9. /\ rows' \in Seq(Rows) /\ Len(rows') = n + 1 /\ DOMAIN rows' = 1 .. n + 1
      /\ \A i \in DOMAIN rows : rows'[i] = rows[i]
      /\ rows'[n + 1] = row
  BY <1>1, <1>5, <1>8
<1>10. \A i \in DOMAIN rows' : rows'[i].of \in 0 .. i - 1
  <2> TAKE i \in DOMAIN rows'
  <2>1. CASE i \in DOMAIN rows
    BY <1>9, <2>1 DEF TypeOK
  <2>2. CASE i = n + 1
    <3>1. rows'[i].of = request.of
      BY <1>4, <1>9, <2>2
    <3> QED  BY <1>6, <2>2, <3>1
  <2> QED  BY <1>1, <1>9, <2>1, <2>2
<1>11. starting' \subseteq {i \in DOMAIN rows' : rows'[i].state = "PENDING"}
  <2>1. starting \subseteq {i \in DOMAIN rows : rows[i].state = "PENDING"}
    BY DEF TypeOK
  <2>2. rows'[n + 1].state = "PENDING" /\ n + 1 \in DOMAIN rows'
    BY <1>4, <1>9
  <2>3. \A i \in DOMAIN rows : i \in DOMAIN rows' /\ rows'[i] = rows[i]
    BY <1>1, <1>9
  <2> QED  BY <1>2, <1>9, <2>1, <2>2, <2>3
<1>12. /\ approvals' \subseteq [row : DOMAIN rows', user : DOMAIN Identities, at : Int]
       /\ approving' = NoHandler \/ approving' \in [row : DOMAIN rows', user : DOMAIN Identities]
       /\ did' \subseteq [row : DOMAIN rows', version : Version, auto : BOOLEAN,
                          asked : Seq(Int), at : Int, frozen : Int]
  <2>1. DOMAIN rows \subseteq DOMAIN rows'
    BY <1>1, <1>9
  <2> QED  BY <1>2, <2>1 DEF TypeOK
<1>13. TypeOK'
  BY <1>2, <1>9, <1>10, <1>11, <1>12 DEF TypeOK, Limit
<1>14. rows'[Len(rows')] = row
  BY <1>9
<1> QED  BY <1>1, <1>2, <1>4, <1>9, <1>13, <1>14

LEMMA StartRunTypeOK ==
  ASSUME TypeOK, RunInv, NEW i \in starting, StartRun(i)
  PROVE  /\ TypeOK' /\ UNCHANGED <<env, now, request, live, did, tested, approvals, freeze>>
         /\ UNCHANGED <<check, verdict, evidence>>
         /\ i \in DOMAIN rows /\ rows[i].state = "PENDING"
         /\ \/ UNCHANGED <<rows, run>>
            \/ /\ run = Idle /\ run'.pc = "preflight" /\ run'.row = i /\ run'.asked = <<>>
               /\ rows' = [rows EXCEPT ![i].state = "PREFLIGHT"]
<1>1. i \in DOMAIN rows /\ rows[i].state = "PENDING" /\ rows \in Seq(Rows) /\ i \in Nat
  BY DEF TypeOK
<1>2. /\ UNCHANGED <<env, now, request, live, did, tested, approvals, approving, freeze>>
      /\ UNCHANGED <<check, verdict, evidence>> /\ starting' = starting \ {i}
  BY DEF StartRun, consent, world, verifyVars
<1>3. CASE ~LeaseFree
  <2>1. UNCHANGED <<rows, run>>
    BY <1>3 DEF StartRun
  <2> QED  BY <1>1, <1>2, <2>1 DEF TypeOK, Limit
<1>4. CASE LeaseFree
  <2>1. /\ run = Idle /\ run' = [Idle EXCEPT !.pc = "preflight", !.row = i]
        /\ rows' = [rows EXCEPT ![i].state = "PREFLIGHT"]
    BY <1>4 DEF StartRun, LeaseFree
  <2>2. run' \in RunType /\ run'.pc = "preflight" /\ run'.row = i /\ run'.asked = <<>>
    <3>1. run' = [pc |-> "preflight", row |-> i, gate |-> 0, asked |-> <<>>, wake |-> Start,
                  bake |-> 0, target |-> NoRow]
      BY <2>1 DEF Idle
    <3>2. Start \in Int /\ <<>> \in Seq(Int) /\ NoRow \in Nat
      BY DeploymentsAssumption DEF NoRow
    <3> QED  BY <1>1, <3>1, <3>2 DEF RunType, PlaceInRun
  <2>3. /\ rows' \in Seq(Rows) /\ Len(rows') = Len(rows) /\ DOMAIN rows' = DOMAIN rows
        /\ \A j \in DOMAIN rows : rows'[j].of = rows[j].of
        /\ \A j \in DOMAIN rows : j # i => rows'[j] = rows[j]
    <3>1. PICK q, s : q = rows' /\ s = "PREFLIGHT" /\ s \in State
      BY StateNames
    <3>2. q = [rows EXCEPT ![i].state = s]
      BY <2>1, <3>1, Zenon
    <3>3. /\ q \in Seq(Rows) /\ Len(q) = Len(rows)
          /\ \A j \in DOMAIN rows : q[j].of = rows[j].of
          /\ \A j \in DOMAIN rows : j # i => q[j] = rows[j]
      BY <1>1, <3>1, <3>2, StateMoved
    <3> QED  BY <1>1, <3>1, <3>3
  <2>4. starting' \subseteq {j \in DOMAIN rows' : rows'[j].state = "PENDING"}
    BY <1>2, <2>3 DEF TypeOK
  <2>5. TypeOK'
    <3>1. /\ rows' \in Seq(Rows) /\ \A j \in DOMAIN rows' : rows'[j].of \in 0 .. j - 1
      BY <2>3 DEF TypeOK
    <3>2. \/ request' = NoRequest
          \/ /\ request' \in [kind : {"deploy", "promote", "rollback"}, version : Version,
                              by : STRING, of : Nat, named : BOOLEAN]
             /\ request'.of \in 0 .. Len(rows')
      BY <1>2, <2>3 DEF TypeOK
    <3>3. /\ approvals' \subseteq [row : DOMAIN rows', user : DOMAIN Identities, at : Int]
          /\ approving' = NoHandler \/ approving' \in [row : DOMAIN rows', user : DOMAIN Identities]
          /\ did' \subseteq [row : DOMAIN rows', version : Version, auto : BOOLEAN,
                             asked : Seq(Int), at : Int, frozen : Int]
      BY <1>2, <2>3 DEF TypeOK
    <3>4. /\ env' \in Envs /\ Accepted(env') /\ now' \in Start .. Limit'.end
          /\ freeze' \in [on : BOOLEAN, since : Int, until : Int]
          /\ live' \in Version \cup {NoVersion} /\ tested' \in Seq(Version)
      BY <1>2 DEF TypeOK, Limit
    <3> QED  BY <2>2, <2>4, <3>1, <3>2, <3>3, <3>4 DEF TypeOK, RunType
  <2> QED  BY <1>1, <1>2, <2>1, <2>2, <2>5
<1> QED  BY <1>3, <1>4
-----------------------------------------------------------------------------
(* What no step does.                                                      *)

QuietStep ==
  \/ \E t \in DOMAIN Tokens : SetFreeze(t)
  \/ \E t \in DOMAIN Tokens, i \in DOMAIN rows : Approve(t, i)
  \/ \E r \in Requests[env.name] : Plan(r)
  \/ RecordApproval \/ Tick
  \/ \E version \in DOMAIN Manifest : Upstream(version)
  \/ UNCHANGED vars

\* A row that ended stays as it is, and what a row was asked for never changes.
RowsKept ==
  /\ DOMAIN rows \subseteq DOMAIN rows'
  /\ \A i \in DOMAIN rows :
       /\ rows'[i].version = rows[i].version /\ rows'[i].rollback = rows[i].rollback
       /\ rows'[i].by = rows[i].by /\ rows'[i].created = rows[i].created
       /\ rows'[i].of = rows[i].of /\ rows'[i].named = rows[i].named
       /\ IsTerminal(rows[i].state) => rows'[i] = rows[i]

\* Nor is an approval taken back, a success upstream forgotten, or a row.
Kept ==
  /\ env' = env /\ now <= now' /\ approvals \subseteq approvals'
  /\ Range(tested) \subseteq Range(tested')
  /\ RowsKept

LEMMA Times ==
  ASSUME TypeOK
  PROVE  now \in Int /\ Limit.end \in Int /\ Start \in Int /\ now \in Start .. Limit.end
<1>1. env \in Envs /\ now \in Start .. Limit.end /\ Start \in Nat
  BY DeploymentsAssumption DEF TypeOK
<1>2. ScopeTyped(env, Bound[env.name])
  BY <1>1, DeploymentsAssumption
<1> QED  BY <1>1, <1>2 DEF ScopeTyped, Limit

LEMMA NextKinds ==
  ASSUME [Next]_vars
  PROVE  QuietStep \/ Create \/ (\E i \in starting : StartRun(i)) \/ RunStep
BY DEF Next, QuietStep, RunStep

LEMMA QuietKept ==
  ASSUME TypeOK, QuietStep
  PROVE  TypeOK' /\ Quiet /\ Kept
<1>1. now \in Int
  BY Times
<1>2. tested \in Seq(Version)
  BY DEF TypeOK
<1>3. CASE UNCHANGED vars
  <2>1. Quiet /\ UNCHANGED <<now, request, starting, approvals, approving, freeze, tested>>
    BY <1>3 DEF vars, api, consent, world, verifyVars, Quiet
  <2>2. TypeOK'
    BY <2>1 DEF TypeOK, Limit, Quiet
  <2> QED  BY <1>1, <2>1, <2>2 DEF Kept, RowsKept, Quiet
<1>4. ASSUME NEW r \in Requests[env.name], Plan(r)
      PROVE  TypeOK' /\ Quiet /\ Kept
  <2>1. TypeOK' /\ Quiet
    BY <1>4, PlanTypeOK
  <2>2. UNCHANGED <<now, approvals, tested>>
    BY <1>4 DEF Plan, consent, world
  <2> QED  BY <1>1, <2>1, <2>2 DEF Kept, RowsKept, Quiet
<1>5. CASE ~(UNCHANGED vars) /\ ~(\E r \in Requests[env.name] : Plan(r))
  <2>1. TypeOK' /\ Quiet
    BY <1>5, QuietTypeOK DEF QuietStep
  <2>2. now <= now' /\ approvals \subseteq approvals' /\ Range(tested) \subseteq Range(tested')
    <3>1. ASSUME NEW version \in DOMAIN Manifest, Upstream(version)
          PROVE  Range(tested) \subseteq Range(tested') /\ UNCHANGED <<now, approvals>>
      <4>1. tested' = Append(tested, version) /\ UNCHANGED <<now, approvals>>
        BY <3>1 DEF Upstream, consent
      <4>2. DOMAIN tested \subseteq DOMAIN tested' /\ \A i \in DOMAIN tested : tested'[i] = tested[i]
        BY <1>2, <4>1
      <4> QED  BY <4>1, <4>2 DEF Range
    <3>2. CASE RecordApproval
      BY <1>1, <3>2 DEF RecordApproval, world
    <3>3. CASE Tick
      BY <1>1, <3>3 DEF Tick, consent, world
    <3>4. ASSUME NEW t \in DOMAIN Tokens, SetFreeze(t)
          PROVE  UNCHANGED <<now, approvals, tested>>
      BY <3>4 DEF SetFreeze, consent
    <3>5. ASSUME NEW t \in DOMAIN Tokens, NEW i \in DOMAIN rows, Approve(t, i)
          PROVE  UNCHANGED <<now, approvals, tested>>
      BY <3>5 DEF Approve, world
    <3> QED  BY <1>1, <1>5, <3>1, <3>2, <3>3, <3>4, <3>5 DEF QuietStep
  <2> QED  BY <2>1, <2>2 DEF Kept, RowsKept, Quiet
<1> QED  BY <1>3, <1>4, <1>5

LEMMA CreateKept ==
  ASSUME TypeOK, Create
  PROVE  Kept
<1>1. DOMAIN rows \subseteq DOMAIN rows'
  <2>1. TypeOK' /\ Len(rows') = Len(rows) + 1
    BY CreateTypeOK
  <2>2. rows \in Seq(Rows) /\ rows' \in Seq(Rows)
    BY <2>1 DEF TypeOK
  <2>3. PICK n \in Nat : n = Len(rows) /\ DOMAIN rows = 1 .. n
    BY <2>2
  <2>4. DOMAIN rows' = 1 .. n + 1
    BY <2>1, <2>2, <2>3
  <2> QED  BY <2>3, <2>4
<1> QED  BY <1>1, Times, CreateTypeOK DEF Kept, RowsKept

LEMMA StartRunKept ==
  ASSUME TypeOK, RunInv, NEW i \in starting, StartRun(i)
  PROVE  /\ Kept /\ DOMAIN rows' = DOMAIN rows
         /\ \A j \in DOMAIN rows : j # i => rows'[j] = rows[j]
         /\ rows'[i].state \in {"PENDING", "PREFLIGHT"} /\ rows'[i].passed = rows[i].passed
         /\ rows' # rows => rows'[i].state = "PREFLIGHT"
<1>1. /\ UNCHANGED <<env, now, tested, approvals>> /\ i \in DOMAIN rows /\ rows[i].state = "PENDING"
      /\ UNCHANGED rows \/ rows' = [rows EXCEPT ![i].state = "PREFLIGHT"]
  BY StartRunTypeOK
<1>2. now <= now' /\ rows \in Seq(Rows)
  BY <1>1, Times DEF TypeOK
<1>3. CASE UNCHANGED rows
  BY <1>1, <1>2, <1>3 DEF Kept, RowsKept
<1>4. CASE rows' = [rows EXCEPT ![i].state = "PREFLIGHT"]
  <2>1. PICK q, s : q = rows' /\ s = "PREFLIGHT" /\ s \in State
    BY StateNames
  <2>2. q = [rows EXCEPT ![i].state = s] /\ i \in DOMAIN rows
    BY <1>1, <1>4, <2>1, Zenon
  <2>3. /\ q \in Seq(Rows) /\ Len(q) = Len(rows) /\ q[i].state = s
        /\ \A j \in DOMAIN rows : j # i => q[j] = rows[j]
    BY <1>2, <2>1, <2>2, StateMoved
  <2>4. \A j \in DOMAIN rows :
          /\ q[j].version = rows[j].version /\ q[j].rollback = rows[j].rollback
          /\ q[j].by = rows[j].by /\ q[j].created = rows[j].created
          /\ q[j].of = rows[j].of /\ q[j].named = rows[j].named /\ q[j].passed = rows[j].passed
    BY <1>2, <2>1, <2>2, StateMoved
  <2>5. DOMAIN rows' = DOMAIN rows
    BY <1>2, <2>1, <2>3
  <2>6. \A j \in DOMAIN rows : IsTerminal(rows[j].state) => j # i
    BY <1>1, StateNames
  <2> QED  BY <1>1, <1>2, <2>1, <2>3, <2>4, <2>5, <2>6 DEF Kept, RowsKept
<1> QED  BY <1>1, <1>3, <1>4

LEMMA RunStepKept ==
  ASSUME TypeOK, RunInv, GateInv, RunStep
  PROVE  Kept
<1>1. run.row \in DOMAIN rows /\ run.pc # "idle" /\ RunFrame /\ RowsMove
  BY RunStepGoesWhere
<1>2. ~IsTerminal(rows[run.row].state)
  BY <1>1, ActiveRun
<1>3. DOMAIN rows' = DOMAIN rows
  BY <1>1 DEF RowsMove, TypeOK
<1> QED  BY <1>1, <1>2, <1>3, Times DEF Kept, RowsKept, RowsMove, RunFrame

LEMMA AllKept ==
  ASSUME TypeOK, RunInv, GateInv, [Next]_vars
  PROVE  Kept
BY NextKinds, QuietKept, CreateKept, StartRunKept, RunStepKept

LEMMA TypeOKStays ==
  ASSUME TypeOK, RunInv, GateInv, SafeInv, [Next]_vars
  PROVE  TypeOK'
BY NextKinds, QuietKept, CreateTypeOK, StartRunTypeOK, RunStepTypeOK

LEMMA RunInvStays ==
  ASSUME TypeOK, RunInv, GateInv, SafeInv, [Next]_vars
  PROVE  RunInv'
<1>1. now \in Int /\ now' \in Int /\ now <= now'
  <2>1. /\ env' = env /\ now <= now'
        /\ now \in Int /\ now' \in Start .. Limit'.end /\ Start \in Int /\ Limit.end \in Int
    BY AllKept, TypeOKStays, Times DEF Kept, TypeOK
  <2>2. Limit' = Limit
    BY <2>1 DEF Limit
  <2> QED  BY <2>1, <2>2
<1>2. CASE QuietStep
  <2>1. UNCHANGED <<rows, run, did>>
    BY <1>2, QuietKept DEF Quiet
  <2>2. \A i \in DOMAIN rows : rows[i].created \in Int
    BY RowTyped
  <2> QED  BY <1>1, <2>1, <2>2 DEF RunInv, This
<1>3. CASE Create
  <2>1. PICK n \in Nat : n = Len(rows) /\ DOMAIN rows = 1 .. n /\ rows \in Seq(Rows)
    BY DEF TypeOK
  <2>2. /\ UNCHANGED <<now, run, did>> /\ DOMAIN rows' = 1 .. n + 1
        /\ \A i \in DOMAIN rows : rows'[i] = rows[i]
        /\ rows'[n + 1].state = "PENDING" /\ rows'[n + 1].created = now
    <3>1. rows' \in Seq(Rows)
      BY <1>3, CreateTypeOK DEF TypeOK
    <3> QED  BY <1>3, <2>1, <3>1, CreateTypeOK
  <2>3. \A i \in DOMAIN rows' : i \in DOMAIN rows \/ i = n + 1
    BY <2>1, <2>2
  <2>4. \A d \in did : d.row \in DOMAIN rows
    BY DEF TypeOK
  <2>5. "PENDING" \notin WorkStates
    BY StateNames
  <2>6. (run = Idle \/ (run.row \in DOMAIN rows /\ <<run.pc, This.state>> \in Places))'
    <3>1. run = Idle \/ (run.row \in DOMAIN rows /\ <<run.pc, rows[run.row].state>> \in Places)
      BY DEF RunInv, This, Places
    <3> QED  BY <2>1, <2>2, <3>1 DEF This, Idle, Places
  <2>7. \A i \in DOMAIN rows' :
          rows'[i].state \in WorkStates \ {"PREFLIGHT", "AWAIT_APPROVAL"} => i = run'.row
    BY <2>2, <2>3, <2>5 DEF RunInv
  <2>8. \A d \in did' : rows'[d.row].state \notin {"PENDING", "PREFLIGHT", "AWAIT_APPROVAL"}
    BY <2>2, <2>4 DEF RunInv
  <2>9. \A i \in DOMAIN rows' : rows'[i].created <= now'
    BY <1>1, <2>2, <2>3 DEF RunInv
  <2> QED  BY <2>6, <2>7, <2>8, <2>9 DEF RunInv, Places
<1>4. ASSUME NEW i \in starting, StartRun(i)
      PROVE  RunInv'
  <2>1. /\ UNCHANGED <<now, did>> /\ i \in DOMAIN rows /\ rows[i].state = "PENDING"
        /\ UNCHANGED <<rows, run>> \/ (run = Idle /\ run'.pc = "preflight" /\ run'.row = i
                                       /\ rows' = [rows EXCEPT ![i].state = "PREFLIGHT"])
    BY <1>4, StartRunTypeOK
  <2>2. /\ Kept /\ DOMAIN rows' = DOMAIN rows
        /\ \A j \in DOMAIN rows : j # i => rows'[j] = rows[j]
        /\ rows' # rows => rows'[i].state = "PREFLIGHT"
    BY <1>4, StartRunKept
  <2>3. CASE UNCHANGED <<rows, run>>
    BY <2>1, <2>3 DEF RunInv, This
  <2>4. CASE ~(UNCHANGED <<rows, run>>)
    <3>1. run = Idle /\ run'.pc = "preflight" /\ run'.row = i /\ rows'[i].state = "PREFLIGHT"
      <4>1. rows' = [rows EXCEPT ![i].state = "PREFLIGHT"]
        BY <2>1, <2>4
      <4>2. rows'[i] = [rows[i] EXCEPT !.state = "PREFLIGHT"] /\ rows[i] \in Rows
        BY <2>1, <4>1, RowTyped
      <4>3. rows'[i].state = "PREFLIGHT"
        BY <4>2 DEF Rows
      <4> QED  BY <2>1, <2>4, <4>3
    <3>2. \A j \in DOMAIN rows' :
            rows'[j].state \in WorkStates \ {"PREFLIGHT", "AWAIT_APPROVAL"} => j = run'.row
      <4>1. \A j \in DOMAIN rows :
              rows[j].state \in WorkStates \ {"PREFLIGHT", "AWAIT_APPROVAL"} => FALSE
        <5>1. \A j \in DOMAIN rows : j # 0
          BY DEF TypeOK
        <5> QED  BY <3>1, <5>1, IdleRun DEF RunInv
      <4> QED  BY <2>2, <3>1, <4>1
    <3>3. \A d \in did' : rows'[d.row].state \notin {"PENDING", "PREFLIGHT", "AWAIT_APPROVAL"}
      <4>1. \A d \in did : d.row \in DOMAIN rows
        BY DEF TypeOK
      <4> QED  BY <2>1, <2>2, <4>1 DEF RunInv
    <3>4. \A j \in DOMAIN rows' : rows'[j].created <= now'
      BY <2>1, <2>2 DEF RunInv, Kept, RowsKept
    <3>5. run'.row \in DOMAIN rows' /\ <<run'.pc, rows'[run'.row].state>> = <<"preflight", "PREFLIGHT">>
      BY <2>1, <2>2, <3>1
    <3> QED  BY <3>2, <3>3, <3>4, <3>5 DEF RunInv, This
  <2> QED  BY <2>3, <2>4
<1> QED  BY <1>2, <1>3, <1>4, NextKinds, RunStepRunInv
-----------------------------------------------------------------------------
(* SafeInv: a rollback that may be made may still be made.                 *)

LEMMA SafeStays ==
  ASSUME TypeOK, Kept, NEW i \in DOMAIN rows, NEW version, Safe(i, version)
  PROVE  Safe(i, version)' /\ i \in DOMAIN rows'
<1>1. rows \in Seq(Rows) /\ env' = env /\ i \in DOMAIN rows'
  BY DEF TypeOK, Kept, RowsKept
<1>2. PICK j \in 1 .. i - 1 : rows[j].state = "SUCCEEDED" /\ rows[j].version = version
  BY DEF Safe
<1>3. j \in DOMAIN rows
  BY <1>1
<1>4. rows'[j] = rows[j]
  BY <1>2, <1>3, StateNames DEF Kept, RowsKept
<1>5. rows'[i].version = rows[i].version
  BY DEF Kept, RowsKept
<1>6. Checked' = Checked
  BY <1>1 DEF Checked
<1>7. \E k \in 1 .. i - 1 : rows'[k].state = "SUCCEEDED" /\ rows'[k].version = version
  BY <1>2, <1>4
<1>8. Checked' => FloorHolds(rows'[i].version, version)
  BY <1>5, <1>6 DEF Safe
<1> QED  BY <1>1, <1>7, <1>8 DEF Safe

LEMMA SafeRequest ==
  ASSUME TypeOK, SafeInv, Kept, request' = request, request # NoRequest,
         request.kind = "rollback", ~request.named
  PROVE  request'.of \in DOMAIN rows' /\ Safe(request.of, request.version)'
<1>1. PICK i, v : i \in DOMAIN rows /\ i = request.of /\ v = request.version /\ Safe(i, v)
  BY DEF SafeInv
<1>2. Safe(i, v)' /\ i \in DOMAIN rows'
  BY <1>1, SafeStays
<1> QED  BY <1>1, <1>2 DEF Safe

LEMMA SafeRow ==
  ASSUME TypeOK, SafeInv, Kept, NEW i \in DOMAIN rows,
         ~IsTerminal(rows'[i].state), rows'[i].rollback, ~rows'[i].named
  PROVE  rows'[i].of \in DOMAIN rows' /\ Safe(rows[i].of, rows[i].version)'
<1>1. ~IsTerminal(rows[i].state) /\ rows[i].rollback /\ ~rows[i].named
  BY DEF Kept, RowsKept
<1>2. PICK k, v : k \in DOMAIN rows /\ k = rows[i].of /\ v = rows[i].version /\ Safe(k, v)
  BY <1>1 DEF SafeInv
<1>3. Safe(k, v)' /\ k \in DOMAIN rows'
  BY <1>2, SafeStays
<1>4. rows'[i].of = rows[i].of /\ rows'[i].version = rows[i].version
  BY DEF Kept, RowsKept
<1> QED  BY <1>2, <1>3, <1>4 DEF Safe

LEMMA SafeDid ==
  ASSUME TypeOK, SafeInv, Kept, NEW d \in did, RollsBack(d)'
  PROVE  (RolledBackRow(d) \in DOMAIN rows /\ Safe(RolledBackRow(d), d.version))'
<1>1. d.row \in DOMAIN rows
  BY DEF TypeOK
<1>2. rows'[d.row].of = rows[d.row].of /\ RollsBack(d)
  BY <1>1 DEF Kept, RowsKept, RollsBack
<1>3. PICK k, v : k \in DOMAIN rows /\ k = RolledBackRow(d) /\ v = d.version /\ Safe(k, v)
  BY <1>2 DEF SafeInv
<1>4. Safe(k, v)' /\ k \in DOMAIN rows'
  BY <1>3, SafeStays
<1>5. RolledBackRow(d)' = k
  BY <1>2, <1>3 DEF RolledBackRow
<1> QED  BY <1>3, <1>4, <1>5 DEF Safe

LEMMA RestoreComes ==
  ASSUME TypeOK, RunInv, GateInv, run.pc # "idle", Goes, run'.pc = "restore"
  PROVE  (run.pc \in {"deploy", "verify"} /\ Returns /\ run'.row = run.row) \/ run' = run
<1>1. ~Stuck /\ ~IsOver(Failed) /\ ~IsOver({"SUCCEEDED"}) /\ ~IsOver({"ROLLED_BACK"})
  BY IdleRun DEF Stuck, IsOver
<1>2. GivesUp => Returns /\ run.pc \in {"deploy", "verify"} /\ run'.row = run.row
  BY <1>1, GivingUp DEF Returns, GoesOn
<1>3. ~Admits /\ ~Passes /\ ~Waits /\ ~Verifies
  BY Admitting, Passing, Waiting, Verifying
<1>4. ~Ends("SUCCEEDED") /\ ~Ends("ROLLED_BACK")
  BY IdleRun DEF Ends
<1> QED  BY <1>2, <1>3, <1>4 DEF Goes

LEMMA SafeReturn ==
  ASSUME TypeOK, Kept, Returns, run.row \in DOMAIN rows, run'.row = run.row
  PROVE  /\ run'.target \in DOMAIN rows' /\ rows'[run'.target].state = "SUCCEEDED"
         /\ Safe(run.row, rows[run.target].version)'
<1>1. PICK t \in DOMAIN rows :
        /\ run' = [Idle EXCEPT !.pc = "restore", !.row = run.row, !.target = t]
        /\ t \in 1 .. run.row - 1 /\ rows[t].state = "SUCCEEDED"
        /\ Checked => FloorHolds(This.version, rows[t].version)
  BY DEF Returns
<1>2. run'.target = t
  BY <1>1 DEF Idle
<1>3. rows'[t] = rows[t] /\ t \in DOMAIN rows'
  BY <1>1, StateNames DEF Kept, RowsKept
<1>4. PICK i, v : i \in DOMAIN rows /\ i = run.row /\ v = rows[t].version
  OBVIOUS
<1>5. Safe(i, v)
  BY <1>1, <1>4 DEF Safe, This
<1>6. Safe(i, v)'
  BY <1>4, <1>5, SafeStays
<1> QED  BY <1>1, <1>2, <1>3, <1>4, <1>6 DEF Safe

RequestSafe ==
  request # NoRequest /\ request.kind = "rollback" /\ ~request.named =>
    request.of \in DOMAIN rows /\ Safe(request.of, request.version)

RowsSafe ==
  \A i \in DOMAIN rows : ~IsTerminal(rows[i].state) /\ rows[i].rollback /\ ~rows[i].named =>
    rows[i].of \in DOMAIN rows /\ Safe(rows[i].of, rows[i].version)

RunSafe ==
  run.pc = "restore" =>
    /\ run.target \in DOMAIN rows /\ rows[run.target].state = "SUCCEEDED"
    /\ Safe(run.row, rows[run.target].version)

DidSafe ==
  \A d \in did : RollsBack(d) =>
    RolledBackRow(d) \in DOMAIN rows /\ Safe(RolledBackRow(d), d.version)

LEMMA SafeParts ==
  /\ SafeInv <=> RequestSafe /\ RowsSafe /\ RunSafe /\ DidSafe
  /\ SafeInv' <=> RequestSafe' /\ RowsSafe' /\ RunSafe' /\ DidSafe'
BY DEF SafeInv, RequestSafe, RowsSafe, RunSafe, DidSafe

LEMMA RequestSafeStays ==
  ASSUME TypeOK, SafeInv, Kept, request' = request
  PROVE  RequestSafe'
BY SafeRequest DEF RequestSafe, NoRequest

LEMMA RowsSafeStays ==
  ASSUME TypeOK, SafeInv, Kept, DOMAIN rows' = DOMAIN rows
  PROVE  RowsSafe'
BY SafeRow DEF RowsSafe

LEMMA DidSafeStays ==
  ASSUME TypeOK, SafeInv, Kept, did' = did
  PROVE  DidSafe'
BY SafeDid DEF DidSafe

LEMMA RunSafeStays ==
  ASSUME TypeOK, RunInv, SafeInv, Kept, run' = run
  PROVE  RunSafe'
<1> SUFFICES ASSUME run.pc = "restore"
             PROVE  RunSafe'
  BY DEF RunSafe
<1>1. run.row \in DOMAIN rows
  BY ActiveRun
<1>2. PICK i, t, v :
        /\ i \in DOMAIN rows /\ t \in DOMAIN rows
        /\ i = run.row /\ t = run.target /\ v = rows[t].version /\ Safe(i, v)
        /\ rows[t].state = "SUCCEEDED"
  BY <1>1 DEF SafeInv
<1>3. Safe(i, v)'
  BY <1>2, SafeStays
<1>4. t \in DOMAIN rows' /\ rows'[t] = rows[t]
  BY <1>2, StateNames DEF Kept, RowsKept
<1> QED  BY <1>2, <1>3, <1>4 DEF RunSafe, Safe

LEMMA CreateSafe ==
  ASSUME TypeOK, RunInv, SafeInv, Create
  PROVE  SafeInv'
<1>1. Kept
  BY CreateKept
<1>2. PICK n \in Nat : n = Len(rows) /\ DOMAIN rows = 1 .. n /\ rows \in Seq(Rows)
  BY DEF TypeOK
<1>3. /\ UNCHANGED <<run, did>> /\ DOMAIN rows' = 1 .. n + 1 /\ request' = NoRequest
      /\ rows'[n + 1].version = request.version /\ rows'[n + 1].of = request.of
      /\ rows'[n + 1].rollback = (request.kind = "rollback")
      /\ rows'[n + 1].named = request.named /\ request # NoRequest
  <2>1. rows' \in Seq(Rows)
    BY CreateTypeOK DEF TypeOK
  <2> QED  BY <1>2, <2>1, CreateTypeOK
<1>4. RowsSafe'
  <2> SUFFICES ASSUME NEW i \in DOMAIN rows',
                      ~IsTerminal(rows'[i].state), rows'[i].rollback, ~rows'[i].named
               PROVE  rows'[i].of \in DOMAIN rows' /\ Safe(rows[i].of, rows[i].version)'
    BY DEF RowsSafe
  <2>1. CASE i \in DOMAIN rows
    BY <1>1, <2>1, SafeRow
  <2>2. CASE i = n + 1
    <3>1. request.kind = "rollback" /\ ~request.named
      BY <1>3, <2>2
    <3>2. PICK k, v : k \in DOMAIN rows /\ k = request.of /\ v = request.version /\ Safe(k, v)
      BY <1>3, <3>1 DEF SafeInv
    <3>3. Safe(k, v)' /\ k \in DOMAIN rows'
      BY <1>1, <3>2, SafeStays
    <3> QED  BY <1>3, <2>2, <3>2, <3>3 DEF Safe
  <2> QED  BY <1>2, <1>3, <2>1, <2>2
<1>5. RequestSafe'
  BY <1>3 DEF RequestSafe
<1> QED  BY <1>1, <1>3, <1>4, <1>5, RunSafeStays, DidSafeStays, SafeParts

LEMMA QuietSafe ==
  ASSUME TypeOK, RunInv, SafeInv, QuietStep
  PROVE  SafeInv'
<1>1. Kept /\ Quiet
  BY QuietKept
<1>2. RowsSafe' /\ RunSafe' /\ DidSafe'
  BY <1>1, RowsSafeStays, RunSafeStays, DidSafeStays DEF Quiet
<1>3. RequestSafe'
  <2>1. ASSUME NEW r \in Requests[env.name], Plan(r)
        PROVE  RequestSafe'
    <3> SUFFICES ASSUME request'.kind = "rollback", ~request'.named
                 PROVE  request'.of \in DOMAIN rows' /\ Safe(request.of, request.version)'
      BY DEF RequestSafe
    <3>1. request' = [kind |-> r.kind, version |-> VersionFor(r), by |-> Tokens[r.token].user,
                      of |-> IF r.kind = "rollback" THEN CurrentRow ELSE NoRow,
                      named |-> r.kind = "rollback" /\ r.version # NoVersion]
      BY <2>1 DEF Plan
    <3>2. /\ r.kind = "rollback" /\ r.version = NoVersion /\ MayRollBack(r.force)
          /\ request'.of = CurrentRow /\ request'.version = VersionFor(r)
      <4>1. r.kind = "rollback" /\ r.version = NoVersion
        BY <3>1
      <4> QED  BY <2>1, <3>1, <4>1 DEF Plan
    <3>3. PICK k, v :
            /\ k \in DOMAIN rows
            /\ k = CurrentRow /\ v = rows[PlanRollback(rows, CurrentRow, Checked)].version /\ Safe(k, v)
      BY <3>2, PlannedRollback
    <3>4. VersionFor(r) = v
      BY <3>2, <3>3 DEF VersionFor
    <3>5. Safe(k, v)' /\ k \in DOMAIN rows'
      BY <1>1, <3>3, SafeStays
    <3> QED  BY <3>2, <3>3, <3>4, <3>5 DEF Safe
  <2>2. CASE UNCHANGED vars
    BY <1>1, <2>2, RequestSafeStays DEF vars, api
  <2>3. CASE ~(UNCHANGED vars) /\ ~(\E r \in Requests[env.name] : Plan(r))
    <3>1. request' = request
      BY <2>3, QuietTypeOK DEF QuietStep
    <3> QED  BY <1>1, <3>1, RequestSafeStays
  <2> QED  BY <2>1, <2>2, <2>3
<1> QED  BY <1>2, <1>3, SafeParts

LEMMA StartRunSafe ==
  ASSUME TypeOK, RunInv, SafeInv, NEW i \in starting, StartRun(i)
  PROVE  SafeInv'
<1>1. Kept /\ DOMAIN rows' = DOMAIN rows /\ request' = request /\ did' = did
  BY StartRunKept, StartRunTypeOK
<1>2. RunSafe'
  <2>1. run' = run \/ run'.pc = "preflight"
    BY StartRunTypeOK
  <2>2. CASE run' = run
    BY <1>1, <2>2, RunSafeStays
  <2>3. CASE run'.pc = "preflight"
    BY <2>3 DEF RunSafe
  <2> QED  BY <2>1, <2>2, <2>3
<1> QED  BY <1>1, <1>2, RequestSafeStays, RowsSafeStays, DidSafeStays, SafeParts

LEMMA RunStepSafe ==
  ASSUME TypeOK, RunInv, GateInv, SafeInv, RunStep
  PROVE  SafeInv'
<1>1. /\ run.pc # "idle" /\ run.row \in DOMAIN rows /\ RunFrame /\ Goes /\ Asks /\ Kept
      /\ DOMAIN rows' = DOMAIN rows
  <2>1. RowsMove /\ rows \in Seq(Rows)
    BY RunStepGoesWhere DEF TypeOK
  <2>2. DOMAIN rows' = DOMAIN rows
    BY <2>1 DEF RowsMove
  <2> QED  BY <2>2, RunStepGoesWhere, RunStepKept
<1>2. RequestSafe' /\ RowsSafe'
  BY <1>1, RequestSafeStays, RowsSafeStays DEF RunFrame
<1>3. RunSafe'
  <2>1. CASE run'.pc = "restore"
    <3>1. (Returns /\ run'.row = run.row) \/ run' = run
      BY <1>1, <2>1, RestoreComes
    <3>2. CASE run' = run
      BY <1>1, <3>2, RunSafeStays
    <3>3. CASE Returns /\ run'.row = run.row
      BY <1>1, <3>3, SafeReturn DEF RunSafe
    <3> QED  BY <3>1, <3>2, <3>3
  <2>2. CASE run'.pc # "restore"
    BY <2>2 DEF RunSafe
  <2> QED  BY <2>1, <2>2
<1>4. DidSafe'
  <2> SUFFICES ASSUME NEW d \in did', RollsBack(d)'
               PROVE  (RolledBackRow(d) \in DOMAIN rows /\ Safe(RolledBackRow(d), d.version))'
    BY DEF DidSafe
  <2>1. CASE d \in did
    BY <1>1, <2>1, SafeDid
  <2>2. CASE d \notin did
    <3>1. PICK i \in DOMAIN rows : i = run.row
      BY <1>1
    <3>2. \/ run.pc = "deploy" /\ d.row = i /\ ~d.auto /\ d.version = rows[i].version
          \/ run.pc = "restore" /\ d.row = i /\ d.auto /\ d.version = rows[run.target].version
      BY <1>1, <2>2, <3>1, Asking DEF Deployed, This
    <3>3. CASE run.pc = "deploy" /\ d.row = i /\ ~d.auto /\ d.version = rows[i].version
      <4>1. rows'[i].rollback /\ ~rows'[i].named
        BY <3>3 DEF RollsBack
      <4>2. rows[i].rollback /\ ~rows[i].named /\ ~IsTerminal(rows[i].state)
        BY <1>1, <3>1, <4>1, ActiveRun DEF Kept, RowsKept
      <4>3. PICK k, v : k \in DOMAIN rows /\ k = rows[i].of /\ v = rows[i].version /\ Safe(k, v)
        BY <4>2 DEF SafeInv
      <4>4. Safe(k, v)' /\ k \in DOMAIN rows'
        BY <1>1, <4>3, SafeStays
      <4>5. RolledBackRow(d)' = k
        <5>1. rows'[i].of = rows[i].of
          BY <1>1 DEF Kept, RowsKept
        <5> QED  BY <3>3, <4>3, <5>1 DEF RolledBackRow
      <4> QED  BY <3>3, <4>3, <4>4, <4>5 DEF Safe
    <3>4. CASE run.pc = "restore" /\ d.row = i /\ d.auto /\ d.version = rows[run.target].version
      <4>1. PICK v : v = d.version /\ Safe(i, v)
        BY <3>1, <3>4 DEF SafeInv
      <4>2. Safe(i, v)' /\ i \in DOMAIN rows'
        BY <1>1, <4>1, SafeStays
      <4> QED  BY <3>4, <4>1, <4>2 DEF Safe, RolledBackRow
    <3> QED  BY <3>2, <3>3, <3>4
  <2> QED  BY <2>1, <2>2
<1> QED  BY <1>2, <1>3, <1>4, SafeParts

LEMMA SafeInvStays ==
  ASSUME TypeOK, RunInv, GateInv, SafeInv, [Next]_vars
  PROVE  SafeInv'
BY NextKinds, QuietSafe, CreateSafe, StartRunSafe, RunStepSafe
-----------------------------------------------------------------------------
(* TestedInv: what is live, or may become live, succeeded upstream.        *)

LEMMA TestedStays ==
  ASSUME Kept, NEW version, TestedOrNamed(version)
  PROVE  TestedOrNamed(version)'
BY DEF Kept, RowsKept, TestedOrNamed

LEMMA SucceedComes ==
  ASSUME TypeOK, RunInv, GateInv, run.pc # "idle", Goes, rows'[run.row].state = "SUCCEEDED"
  PROVE  run.pc \in {"deploy", "verify"}
<1>1. rows[run.row].state # "SUCCEEDED"
  BY ActiveRun
<1>2. ~GivesUp
  BY <1>1, GivingUp DEF Stuck, IsOver, Failed, GoesOn, Places
<1>3. ~Admits /\ ~Passes /\ ~Waits /\ ~Verifies
  BY Admitting, Passing, Waiting, Verifying DEF GoesOn, Places
<1>4. ~Ends("ROLLED_BACK")
  BY Ending DEF IsOver
<1> QED  BY <1>1, <1>2, <1>3, <1>4 DEF Goes

LEMMA PastComes ==
  ASSUME TypeOK, RunInv, GateInv, run.pc # "idle", Goes, PastPreflight'
  PROVE  run'.row = run.row /\ (PastPreflight \/ Admits)
<1>1. run'.pc \notin {"idle", "restore", "preflight"}
  BY DEF PastPreflight
<1>2. ~Stuck /\ ~IsOver(Failed) /\ ~IsOver({"SUCCEEDED"}) /\ ~IsOver({"ROLLED_BACK"})
  BY <1>1, IdleRun DEF Stuck, IsOver
<1>3. ~GivesUp
  BY <1>1, <1>2, GivingUp
<1>4. ~Ends("SUCCEEDED") /\ ~Ends("ROLLED_BACK")
  BY <1>1, IdleRun DEF Ends
<1>5. Admits => run'.row = run.row
  BY Admitting DEF GoesOn
<1>6. Passes => run'.row = run.row /\ PastPreflight
  BY Passing DEF GoesOn, Passes, PastPreflight
<1>7. Waits => run'.row = run.row /\ PastPreflight
  BY Waiting DEF GoesOn, Waits, PastPreflight
<1>8. Verifies => run'.row = run.row /\ PastPreflight
  BY Verifying DEF GoesOn, Verifies, PastPreflight
<1>9. rows' = rows /\ run' = run => run'.row = run.row /\ PastPreflight
  BY <1>1 DEF PastPreflight
<1> QED  BY <1>3, <1>4, <1>5, <1>6, <1>7, <1>8, <1>9 DEF Goes

\* What preflight lets through, with promote_from.
LEMMA AdmittedTested ==
  ASSUME TypeOK, RunInv, SafeInv, TestedInv, env.promoteFrom, Admits
  PROVE  TestedOrNamed(This.version)
<1>1. /\ MayDeploy(This) /\ run.row \in DOMAIN rows /\ ~IsTerminal(rows[run.row].state)
  BY ActiveRun DEF Admits
<1>2. CASE ~This.rollback
  BY <1>1, <1>2 DEF MayDeploy, SucceededUpstream, TestedOrNamed
<1>3. CASE This.rollback /\ This.named
  BY <1>1, <1>3 DEF TestedOrNamed, This
<1>4. CASE This.rollback /\ ~This.named
  <2>1. rows[run.row].of \in DOMAIN rows /\ Safe(rows[run.row].of, This.version)
    BY <1>1, <1>4 DEF SafeInv, This
  <2>2. rows \in Seq(Rows)
    BY DEF TypeOK
  <2>3. PICK j \in 1 .. rows[run.row].of - 1 :
          rows[j].state = "SUCCEEDED" /\ rows[j].version = This.version
    BY <2>1 DEF Safe
  <2>4. j \in DOMAIN rows
    BY <2>1, <2>2
  <2> QED  BY <2>3, <2>4 DEF TestedInv
<1> QED  BY <1>2, <1>3, <1>4

LEMMA OtherTested ==
  ASSUME TypeOK, RunInv, TestedInv, QuietStep \/ Create \/ \E i \in starting : StartRun(i)
  PROVE  TestedInv'
<1>1. Kept /\ live' = live /\ (run' = run \/ run'.pc = "preflight")
  BY QuietKept, CreateKept, CreateTypeOK, StartRunKept, StartRunTypeOK DEF Quiet
<1>2. \A i \in DOMAIN rows' : rows'[i].state = "SUCCEEDED" =>
        i \in DOMAIN rows /\ rows'[i] = rows[i]
  <2>1. CASE QuietStep
    BY <2>1, QuietKept DEF Quiet
  <2>2. CASE Create
    <3>1. PICK n \in Nat : n = Len(rows) /\ DOMAIN rows = 1 .. n
      BY DEF TypeOK
    <3>2. rows' \in Seq(Rows) /\ Len(rows') = n + 1
      BY <2>2, <3>1, CreateTypeOK DEF TypeOK
    <3>3. DOMAIN rows' = 1 .. n + 1 /\ rows'[n + 1].state = "PENDING"
      BY <2>2, <3>2, CreateTypeOK
    <3>4. \A i \in DOMAIN rows' : i \in DOMAIN rows \/ i = n + 1
      BY <3>1, <3>3
    <3> QED  BY <2>2, <3>3, <3>4, CreateTypeOK
  <2>3. ASSUME NEW i \in starting, StartRun(i)
        PROVE  \A j \in DOMAIN rows' : rows'[j].state = "SUCCEEDED" =>
                 j \in DOMAIN rows /\ rows'[j] = rows[j]
    BY <2>3, StartRunKept
  <2> QED  BY <2>1, <2>2, <2>3
<1> SUFFICES ASSUME env'.promoteFrom
             PROVE  /\ live' # NoVersion => TestedOrNamed(live)'
                    /\ \A i \in DOMAIN rows' :
                         rows'[i].state = "SUCCEEDED" => TestedOrNamed(rows[i].version)'
                    /\ PastPreflight' => TestedOrNamed(This.version)'
  BY DEF TestedInv
<1>3. env.promoteFrom
  BY <1>1 DEF Kept
<1>4. live' # NoVersion => TestedOrNamed(live)'
  <2>1. PICK v : v = live
    OBVIOUS
  <2>2. v # NoVersion => TestedOrNamed(v)'
    BY <1>1, <1>3, <2>1, TestedStays DEF TestedInv
  <2> QED  BY <1>1, <2>1, <2>2 DEF TestedOrNamed
<1>5. ASSUME NEW i \in DOMAIN rows', rows'[i].state = "SUCCEEDED"
      PROVE  TestedOrNamed(rows[i].version)'
  <2>1. PICK v : v = rows[i].version
    OBVIOUS
  <2>2. TestedOrNamed(v)
    BY <1>2, <1>3, <1>5, <2>1 DEF TestedInv
  <2>3. TestedOrNamed(v)'
    BY <1>1, <2>2, TestedStays
  <2> QED  BY <1>2, <1>5, <2>1, <2>3 DEF TestedOrNamed
<1>6. ASSUME PastPreflight'
      PROVE  TestedOrNamed(This.version)'
  <2>1. run' = run /\ PastPreflight
    BY <1>1, <1>6 DEF PastPreflight
  <2>2. run.row \in DOMAIN rows
    BY <2>1, ActiveRun DEF PastPreflight
  <2>3. PICK v : v = rows[run.row].version /\ TestedOrNamed(v)
    BY <1>3, <2>1 DEF TestedInv, This
  <2>4. TestedOrNamed(v)'
    BY <1>1, <2>3, TestedStays
  <2>5. rows'[run'.row].version = v
    BY <1>1, <2>1, <2>2, <2>3 DEF Kept, RowsKept
  <2> QED  BY <2>4, <2>5 DEF TestedOrNamed, This
<1> QED  BY <1>4, <1>5, <1>6

LEMMA RunStepTested ==
  ASSUME TypeOK, RunInv, GateInv, SafeInv, TestedInv, RunStep
  PROVE  TestedInv'
<1>1. /\ run.pc # "idle" /\ run.row \in DOMAIN rows /\ Goes /\ Asks /\ Kept /\ RowsMove
  BY RunStepGoesWhere, RunStepKept
<1>2. DOMAIN rows' = DOMAIN rows
  BY <1>1 DEF RowsMove, TypeOK
<1> SUFFICES ASSUME env'.promoteFrom
             PROVE  /\ live' # NoVersion => TestedOrNamed(live)'
                    /\ \A i \in DOMAIN rows' :
                         rows'[i].state = "SUCCEEDED" => TestedOrNamed(rows[i].version)'
                    /\ PastPreflight' => TestedOrNamed(This.version)'
  BY DEF TestedInv
<1>3. env.promoteFrom
  BY <1>1 DEF Kept
<1>4. live' # NoVersion => TestedOrNamed(live)'
  <2>1. PICK v : v = live'
    OBVIOUS
  <2>2. v # NoVersion => TestedOrNamed(v)
    <3>1. \/ live' = live
          \/ run.pc = "deploy" /\ live' = This.version
          \/ run.pc = "restore" /\ run.target \in DOMAIN rows /\ live' = rows[run.target].version
      BY <1>1, Asking
    <3>2. run.pc = "restore" => rows[run.target].state = "SUCCEEDED"
      BY DEF SafeInv
    <3> QED  BY <1>3, <2>1, <3>1, <3>2 DEF TestedInv, PastPreflight
  <2>3. v # NoVersion => TestedOrNamed(v)'
    BY <1>1, <2>2, TestedStays
  <2> QED  BY <2>1, <2>3 DEF TestedOrNamed
<1>5. ASSUME NEW i \in DOMAIN rows', rows'[i].state = "SUCCEEDED"
      PROVE  TestedOrNamed(rows[i].version)'
  <2>1. PICK v : v = rows[i].version
    OBVIOUS
  <2>2. TestedOrNamed(v)
    <3>1. CASE i = run.row
      <4>1. PastPreflight
        BY <1>1, <1>5, <3>1, SucceedComes DEF PastPreflight
      <4> QED  BY <1>3, <2>1, <3>1, <4>1 DEF TestedInv, This
    <3>2. CASE i # run.row
      <4>1. rows[i].state = "SUCCEEDED" /\ i \in DOMAIN rows
        BY <1>1, <1>2, <1>5, <3>2 DEF RowsMove
      <4> QED  BY <1>3, <2>1, <4>1 DEF TestedInv
    <3> QED  BY <3>1, <3>2
  <2>3. TestedOrNamed(v)'
    BY <1>1, <2>2, TestedStays
  <2>4. rows'[i].version = v
    BY <1>1, <1>2, <2>1 DEF Kept, RowsKept
  <2> QED  BY <2>3, <2>4 DEF TestedOrNamed
<1>6. ASSUME PastPreflight'
      PROVE  TestedOrNamed(This.version)'
  <2>1. run'.row = run.row /\ (PastPreflight \/ Admits)
    BY <1>1, <1>6, PastComes
  <2>2. TestedOrNamed(This.version)
    BY <1>3, <2>1, AdmittedTested DEF TestedInv
  <2>3. PICK v : v = rows[run.row].version /\ TestedOrNamed(v)
    BY <2>2 DEF This
  <2>4. TestedOrNamed(v)'
    BY <1>1, <2>3, TestedStays
  <2>5. rows'[run'.row].version = v
    BY <1>1, <2>1, <2>3 DEF Kept, RowsKept
  <2> QED  BY <2>4, <2>5 DEF TestedOrNamed, This
<1> QED  BY <1>4, <1>5, <1>6

LEMMA TestedInvStays ==
  ASSUME TypeOK, RunInv, GateInv, SafeInv, TestedInv, [Next]_vars
  PROVE  TestedInv'
BY NextKinds, OtherTested, RunStepTested
-----------------------------------------------------------------------------
(* GateInv: a gate that was passed stays passed.                           *)

LEMMA GateHeldStays ==
  ASSUME TypeOK, Kept, NEW i \in DOMAIN rows, NEW g, NEW t, GateHeld(i, g, t)
  PROVE  GateHeld(i, g, t)'
BY DEF Kept, RowsKept, GateHeld, ConsentedTo

\* The parts of GateInv.
AsksAll == run.pc = "preflight" => run.asked = <<>>

AtGates ==
  run.pc \in {"gates", "clock", "asleep"} =>
    /\ HasApproval(env) /\ run.gate \in DOMAIN env.gates /\ Len(run.asked) = run.gate - 1
    /\ \A k \in 1 .. run.gate - 1 : GateHeld(run.row, env.gates[k], run.asked[k])

WaitsForApproval == run.pc \in {"clock", "asleep"} => ThisGate.type = "approval"

ThroughGates ==
  run.pc = "deploy" /\ HasApproval(env) =>
    \A k \in DOMAIN env.gates : GateHeld(run.row, env.gates[k], run.asked[k])

YoungFreeze ==
  run.pc \in {"gates", "clock", "asleep", "deploy"} /\ Frozen => freeze.since >= This.created

LEMMA GateParts ==
  /\ GateInv <=> AsksAll /\ AtGates /\ WaitsForApproval /\ ThroughGates /\ YoungFreeze
  /\ GateInv' <=> AsksAll' /\ AtGates' /\ WaitsForApproval' /\ ThroughGates' /\ YoungFreeze'
BY DEF GateInv, AsksAll, AtGates, WaitsForApproval, ThroughGates, YoungFreeze

\* A run that does not move is where it was, at its gates too.
LEMMA GatesStay ==
  ASSUME TypeOK, RunInv, GateInv, Kept, run' = run
  PROVE  AsksAll' /\ AtGates' /\ WaitsForApproval' /\ ThroughGates'
<1>1. env' = env
  BY DEF Kept
<1>2. AsksAll' /\ WaitsForApproval'
  BY <1>1 DEF GateInv, AsksAll, WaitsForApproval, ThisGate
<1>3. ASSUME run.pc # "idle", NEW g, NEW t, GateHeld(run.row, g, t)
      PROVE  GateHeld(run.row, g, t)'
  <2>1. PICK i \in DOMAIN rows : i = run.row
    BY <1>3, ActiveRun
  <2>2. GateHeld(i, g, t)'
    BY <1>3, <2>1, GateHeldStays
  <2> QED  BY <2>1, <2>2 DEF GateHeld, ConsentedTo
<1>4. AtGates'
  <2> SUFFICES ASSUME run.pc \in {"gates", "clock", "asleep"}
               PROVE  /\ HasApproval(env) /\ run.gate \in DOMAIN env.gates
                      /\ Len(run.asked) = run.gate - 1
                      /\ \A k \in 1 .. run.gate - 1 :
                           GateHeld(run.row, env.gates[k], run.asked[k])'
    BY <1>1 DEF AtGates
  <2>1. \A k \in 1 .. run.gate - 1 : GateHeld(run.row, env.gates[k], run.asked[k])
    BY DEF GateInv
  <2>2. ASSUME NEW k \in 1 .. run.gate - 1
        PROVE  GateHeld(run.row, env.gates[k], run.asked[k])'
    <3>1. PICK g, t : g = env.gates[k] /\ t = run.asked[k] /\ GateHeld(run.row, g, t)
      BY <2>1
    <3>2. GateHeld(run.row, g, t)'
      BY <1>3, <3>1
    <3> QED  BY <1>1, <3>1, <3>2
  <2> QED  BY <2>2 DEF GateInv
<1>5. ThroughGates'
  <2> SUFFICES ASSUME run.pc = "deploy", HasApproval(env), NEW k \in DOMAIN env.gates
               PROVE  GateHeld(run.row, env.gates[k], run.asked[k])'
    BY <1>1 DEF ThroughGates
  <2>1. PICK g, t : g = env.gates[k] /\ t = run.asked[k] /\ GateHeld(run.row, g, t)
    BY DEF GateInv
  <2>2. GateHeld(run.row, g, t)'
    BY <1>3, <2>1
  <2> QED  BY <1>1, <2>1, <2>2
<1> QED  BY <1>2, <1>4, <1>5

LEMMA OtherGates ==
  ASSUME TypeOK, RunInv, GateInv, QuietStep \/ Create \/ \E i \in starting : StartRun(i)
  PROVE  GateInv'
<1>1. /\ Kept
      /\ (run' = run \/ (run'.pc = "preflight" /\ run'.asked = <<>>))
  BY QuietKept, CreateKept, CreateTypeOK, StartRunKept, StartRunTypeOK DEF Quiet
<1>2. (freeze' = freeze /\ now <= now') \/ ~freeze'.on \/ freeze'.since = now
  <2>1. now <= now'
    BY <1>1 DEF Kept
  <2>2. ASSUME NEW t \in DOMAIN Tokens, SetFreeze(t)
        PROVE  ~freeze'.on \/ freeze'.since = now
    BY <2>2 DEF SetFreeze, NotFrozen
  <2>3. ~(\E t \in DOMAIN Tokens : SetFreeze(t)) => freeze' = freeze
    BY CreateTypeOK, StartRunTypeOK
       DEF QuietStep, Approve, Plan, RecordApproval, Tick, Upstream, vars, world
  <2> QED  BY <2>1, <2>2, <2>3
<1>3. CASE run' = run
  <2>1. YoungFreeze'
    <3> SUFFICES ASSUME run.pc \in {"gates", "clock", "asleep", "deploy"}, Frozen'
                 PROVE  freeze'.since >= This'.created
      BY <1>3 DEF YoungFreeze
    <3>1. PICK i \in DOMAIN rows : i = run.row
      BY ActiveRun
    <3>2. /\ This'.created = rows[i].created /\ rows[i].created \in Int /\ rows[i].created <= now
          /\ now \in Int
      BY <1>1, <1>3, <3>1, RowTyped, Times DEF This, Kept, RowsKept, RunInv
    <3>3. CASE freeze' = freeze /\ now <= now'
      <4>1. freeze.on /\ now' <= freeze.until /\ now \in Int /\ freeze.until \in Int
        BY <3>3, Times DEF Frozen, TypeOK
      <4>2. now' \in Int
        <5>1. TypeOK'
          BY QuietKept, CreateTypeOK, StartRunTypeOK
        <5>2. now' \in Start .. Limit'.end /\ Start \in Int /\ Limit' = Limit /\ Limit.end \in Int
          BY <1>1, <5>1, Times DEF TypeOK, Kept, Limit
        <5> QED  BY <5>2
      <4>3. Frozen
        BY <3>3, <4>1, <4>2 DEF Frozen
      <4> QED  BY <3>1, <3>2, <3>3, <4>3 DEF GateInv, This
    <3>4. CASE ~freeze'.on
      BY <3>4 DEF Frozen
    <3>5. CASE freeze'.since = now
      BY <3>2, <3>5
    <3> QED  BY <1>2, <3>3, <3>4, <3>5
  <2> QED  BY <1>1, <1>3, <2>1, GatesStay, GateParts
<1>4. CASE run'.pc = "preflight" /\ run'.asked = <<>>
  BY <1>4 DEF GateInv
<1> QED  BY <1>1, <1>3, <1>4

\* Where a run can be that is at its gates or through them.
LEMMA GatesCome ==
  ASSUME TypeOK, RunInv, GateInv, run.pc # "idle", Goes,
         run'.pc \in {"preflight", "gates", "clock", "asleep", "deploy"}
  PROVE  Admits \/ Passes \/ Waits \/ run' = run
<1>1. ~Stuck /\ ~IsOver(Failed) /\ ~IsOver({"SUCCEEDED"}) /\ ~IsOver({"ROLLED_BACK"})
  BY IdleRun DEF Stuck, IsOver
<1>2. ~GivesUp
  BY <1>1, GivingUp
<1>3. ~Ends("SUCCEEDED") /\ ~Ends("ROLLED_BACK")
  BY IdleRun DEF Ends
<1>4. ~Verifies
  BY Verifying
<1> QED  BY <1>2, <1>3, <1>4 DEF Goes

LEMMA AdmitsGates ==
  ASSUME TypeOK, RunInv, GateInv, Kept, RunFrame, Admits
  PROVE  AsksAll' /\ AtGates' /\ WaitsForApproval' /\ ThroughGates'
<1>1. /\ run'.asked = run.asked /\ run.asked = <<>> /\ env' = env
      /\ \/ run'.pc = "gates" /\ run'.gate = 1 /\ HasApproval(env)
         \/ run'.pc = "deploy" /\ ~HasApproval(env)
  BY Admitting DEF Admits, GateInv, RunFrame
<1>2. 1 \in DOMAIN env.gates \/ ~HasApproval(env)
  <2>1. env.gates \in Seq(Gates(Day))
    BY EnvironmentFacts
  <2> QED  BY <2>1 DEF HasApproval
<1>3. AtGates'
  <2>1. Len(<<>>) = 1 - 1 /\ 1 .. 1 - 1 = {}
    OBVIOUS
  <2> QED  BY <1>1, <1>2, <2>1 DEF AtGates
<1> QED  BY <1>1, <1>3 DEF AsksAll, WaitsForApproval, ThroughGates

LEMMA PassesGates ==
  ASSUME TypeOK, RunInv, GateInv, Kept, RunFrame, Passes
  PROVE  AsksAll' /\ AtGates' /\ WaitsForApproval' /\ ThroughGates'
<1>1. /\ run'.row = run.row /\ run'.asked = Append(run.asked, now) /\ env' = env
      /\ \/ run.gate = Len(env.gates) /\ run'.pc = "deploy"
         \/ run.gate # Len(env.gates) /\ run'.pc = "gates" /\ run'.gate = run.gate + 1
  BY Passing DEF RunFrame, GoesOn
<1>2. /\ run.pc = "gates" /\ GateHeld(run.row, env.gates[run.gate], now)
      /\ run.gate \in 1 .. Len(env.gates) /\ HasApproval(env)
      /\ Len(run.asked) = run.gate - 1
      /\ \A k \in 1 .. run.gate - 1 : GateHeld(run.row, env.gates[k], run.asked[k])
      /\ DOMAIN env.gates = 1 .. Len(env.gates) /\ Len(env.gates) \in Nat
  <2>1. run.pc = "gates" /\ GateHeld(run.row, env.gates[run.gate], now)
    BY DEF Passes, ThisGate
  <2>2. run.gate \in 1 .. Len(env.gates) /\ HasApproval(env)
    BY <2>1, AtAGate
  <2>3. env.gates \in Seq(Gates(Day))
    BY EnvironmentFacts
  <2>4. /\ Len(run.asked) = run.gate - 1
        /\ \A k \in 1 .. run.gate - 1 : GateHeld(run.row, env.gates[k], run.asked[k])
    BY <2>1 DEF GateInv
  <2> QED  BY <2>1, <2>2, <2>3, <2>4
<1>3. PICK i, a, n, t :
        /\ i \in DOMAIN rows
        /\ i = run.row /\ a = run.asked /\ n = run.gate /\ t = now /\ a \in Seq(Int)
  <2>1. run.row \in DOMAIN rows /\ run.asked \in Seq(Int)
    BY <1>2, ActiveRun DEF RunType
  <2> QED  BY <2>1
<1>4. /\ n \in Nat /\ Len(a) = n - 1 /\ Len(Append(a, t)) = n /\ Append(a, t)[n] = t
      /\ \A k \in 1 .. n - 1 : Append(a, t)[k] = a[k]
  BY <1>2, <1>3
<1>5. ASSUME NEW k \in 1 .. n
      PROVE  GateHeld(run.row, env.gates[k], run.asked[k])'
  <2>1. PICK g, u : g = env.gates[k] /\ u = Append(a, t)[k]
    OBVIOUS
  <2>2. GateHeld(i, g, u)
    <3>1. CASE k = n
      BY <1>2, <1>3, <1>4, <2>1, <3>1
    <3>2. CASE k # n
      <4>1. k \in 1 .. n - 1
        BY <1>4, <3>2
      <4> QED  BY <1>2, <1>3, <1>4, <2>1, <4>1
    <3> QED  BY <3>1, <3>2
  <2>3. GateHeld(i, g, u)'
    BY <1>3, <2>2, GateHeldStays
  <2> QED  BY <1>1, <1>3, <2>1, <2>3
<1>6. CASE run.gate = Len(env.gates) /\ run'.pc = "deploy"
  <2>1. ThroughGates'
    BY <1>1, <1>2, <1>3, <1>5, <1>6 DEF ThroughGates
  <2> QED  BY <1>6, <2>1 DEF AsksAll, AtGates, WaitsForApproval
<1>7. CASE run.gate # Len(env.gates) /\ run'.pc = "gates" /\ run'.gate = run.gate + 1
  <2>1. AtGates'
    <3>1. run'.gate = n + 1 /\ n + 1 \in DOMAIN env.gates /\ Len(run'.asked) = n /\ n + 1 - 1 = n
      BY <1>1, <1>2, <1>3, <1>4, <1>7
    <3>2. \A k \in 1 .. run'.gate - 1 : GateHeld(run.row, env.gates[k], run.asked[k])'
      BY <1>5, <3>1
    <3> QED  BY <1>1, <1>2, <3>1, <3>2 DEF AtGates
  <2> QED  BY <1>7, <2>1 DEF AsksAll, WaitsForApproval, ThroughGates
<1> QED  BY <1>1, <1>6, <1>7

LEMMA WaitsGates ==
  ASSUME TypeOK, RunInv, GateInv, Kept, RunFrame, Waits
  PROVE  AsksAll' /\ AtGates' /\ WaitsForApproval' /\ ThroughGates'
<1>1. /\ run'.pc \in {"gates", "clock", "asleep"} /\ run'.gate = run.gate
      /\ run'.asked = run.asked /\ run'.row = run.row /\ env' = env
      /\ run.pc \in {"gates", "clock", "asleep"} /\ ThisGate.type = "approval"
  BY Waiting DEF GoesOn, RunFrame, Waits
<1>2. WaitsForApproval'
  BY <1>1 DEF WaitsForApproval, ThisGate
<1>3. PICK i \in DOMAIN rows : i = run.row
  BY <1>1, ActiveRun
<1>4. ASSUME NEW k \in 1 .. run.gate - 1
      PROVE  GateHeld(run.row, env.gates[k], run.asked[k])'
  <2>1. PICK g, u : g = env.gates[k] /\ u = run.asked[k] /\ GateHeld(i, g, u)
    BY <1>1, <1>3 DEF GateInv
  <2>2. GateHeld(i, g, u)'
    BY <2>1, GateHeldStays
  <2> QED  BY <1>1, <1>3, <2>1, <2>2
<1>5. AtGates'
  BY <1>1, <1>4 DEF AtGates, GateInv
<1> QED  BY <1>1, <1>2, <1>5 DEF AsksAll, ThroughGates

LEMMA RunStepGates ==
  ASSUME TypeOK, RunInv, GateInv, RunStep
  PROVE  GateInv'
<1>1. /\ run.pc # "idle" /\ run.row \in DOMAIN rows /\ RunFrame /\ Goes /\ Kept
  BY RunStepGoesWhere, RunStepKept
<1>2. CASE run'.pc \notin {"preflight", "gates", "clock", "asleep", "deploy"}
  BY <1>2 DEF GateInv
<1>3. CASE run'.pc \in {"preflight", "gates", "clock", "asleep", "deploy"}
  <2>1. Admits \/ Passes \/ Waits \/ run' = run
    BY <1>1, <1>3, GatesCome
  <2>2. AsksAll' /\ AtGates' /\ WaitsForApproval' /\ ThroughGates'
    BY <1>1, <2>1, AdmitsGates, PassesGates, WaitsGates, GatesStay
  <2>3. YoungFreeze'
    <3> SUFFICES ASSUME run'.pc \in {"gates", "clock", "asleep", "deploy"}, Frozen'
                 PROVE  freeze'.since >= This'.created
      BY DEF YoungFreeze
    <3>1. Frozen /\ freeze' = freeze
      BY <1>1 DEF RunFrame, Frozen
    <3>2. run'.row = run.row /\ run.pc \in {"gates", "clock", "asleep", "deploy"}
      <4>1. ~Admits
        BY <3>1 DEF Admits
      <4> QED  BY <2>1, <4>1, Passing, Waiting DEF GoesOn, Passes, Waits
    <3>3. This'.created = This.created
      BY <1>1, <3>2 DEF This, Kept, RowsKept
    <3> QED  BY <3>1, <3>2, <3>3 DEF GateInv
  <2> QED  BY <2>2, <2>3, GateParts
<1> QED  BY <1>2, <1>3

LEMMA GateInvStays ==
  ASSUME TypeOK, RunInv, GateInv, [Next]_vars
  PROVE  GateInv'
BY NextKinds, OtherGates, RunStepGates
-----------------------------------------------------------------------------
(* EvidenceInv: the run starts bakes, and a bake counts its samples.       *)

LEMMA EvidenceInvStays ==
  ASSUME TypeOK, RunInv, EvidenceInv, [Next]_vars
  PROVE  EvidenceInv'
<1>1. PICK p : p = env.verify
  OBVIOUS
<1>2. PolicyTyped(p) /\ PolicyFits(p)
  BY <1>1, EnvironmentFacts
<1>3. EvidenceHolds(p)
  BY <1>1 DEF EvidenceInv, EvidenceHolds
<1>4. env' = env
  BY DEF Next, SetFreeze, Approve, Plan, Create, RecordApproval, Tick, StartRun, Upstream,
         Preflight, CheckSchedule, CheckFreeze, ReadApprovals, ReadClock, WakeUp, AwaitFrame,
         Deploy, Bake, ActOnVerdict, Restore, VerifyFrame, vars, world
<1>5. \/ UNCHANGED verifyVars \/ TakeSample(p) \/ EndOfBake(p)
      \/ \E bake \in Int : StartBake(bake)
  <2>1. CASE QuietStep \/ Create \/ \E i \in starting : StartRun(i)
    BY <2>1 DEF QuietStep, SetFreeze, Approve, Plan, Create, RecordApproval, Tick, StartRun,
                Upstream, vars
  <2>2. CASE Preflight \/ CheckSchedule \/ CheckFreeze \/ ReadApprovals \/ ReadClock \/ WakeUp
             \/ Restore
    BY <2>2 DEF Preflight, CheckSchedule, CheckFreeze, ReadApprovals, ReadClock, WakeUp,
                AwaitFrame, Restore
  <2>3. CASE Deploy
    BY <2>3, BakeNextGoes DEF Deploy
  <2>4. CASE Bake
    BY <1>1, <2>4 DEF Bake
  <2>5. CASE ActOnVerdict
    <3>1. BakeNext \/ StartBake(0)
      BY <2>5 DEF ActOnVerdict
    <3>2. 0 \in Int
      OBVIOUS
    <3> QED  BY <3>1, <3>2, BakeNextGoes
  <2> QED  BY <2>1, <2>2, <2>3, <2>4, <2>5, NextKinds DEF RunStep
<1>6. EvidenceHolds(p)'
  BY <1>2, <1>3, <1>5, EvidenceStays, TakeSampleHolds, EndOfBakeHolds, StartBakeHolds
<1> QED  BY <1>1, <1>4, <1>6 DEF EvidenceInv, EvidenceHolds
-----------------------------------------------------------------------------
(* BudgetInv: what preflight counted is still right when the run ends.     *)

LEMMA Counting ==
  ASSUME NEW n \in Nat, NEW T \in SUBSET (1 .. n), NEW S \in SUBSET T
  PROVE  Cardinality(S) \in Nat /\ Cardinality(T) \in Nat /\ Cardinality(S) <= Cardinality(T)
<1>1. 1 \in Int /\ n \in Int
  OBVIOUS
<1>2. IsFiniteSet(1 .. n)
  BY <1>1, FS_Interval
<1>3. IsFiniteSet(T)
  BY <1>2, FS_Subset
<1> QED  BY <1>3, FS_Subset, FS_CardinalityType

LEMMA CountingOne ==
  ASSUME NEW n \in Nat, NEW T \in SUBSET (1 .. n), NEW x \in 1 .. n, NEW S \in SUBSET (T \cup {x})
  PROVE  Cardinality(S) \in Nat /\ Cardinality(T) \in Nat /\ Cardinality(S) <= Cardinality(T) + 1
<1>1. T \cup {x} \in SUBSET (1 .. n)
  OBVIOUS
<1>2. /\ Cardinality(S) \in Nat /\ Cardinality(T \cup {x}) \in Nat
      /\ Cardinality(S) <= Cardinality(T \cup {x})
  BY <1>1, Counting
<1>3. IsFiniteSet(T) /\ Cardinality(T) \in Nat
  <2>1. IsFiniteSet(1 .. n)
    BY FS_Interval
  <2> QED  BY <2>1, FS_Subset, FS_CardinalityType
<1>4. Cardinality(T \cup {x}) \in {Cardinality(T), Cardinality(T) + 1}
  BY <1>3, FS_AddElement
<1> QED  BY <1>2, <1>3, <1>4

Returned == {"ROLLED_BACK", "ROLLBACK_FAILED"}

\* No row is rolled back by this step, and no deploy is of a row that ended before.
NoneReturned ==
  /\ \A i \in DOMAIN rows' : rows'[i].state \in Returned => i \in DOMAIN rows /\ rows'[i] = rows[i]
  /\ \A d \in did' : d \in did \/ ~IsTerminal(rows[d.row].state)

LEMMA BudgetStays ==
  ASSUME TypeOK, NoneReturned, NEW version, NEW since \in Int, NEW max \in Int,
         BudgetLeft(rows, version, since, max)
  PROVE  BudgetLeft(rows', version, since, max)
<1>1. PICK n \in Nat : DOMAIN rows = 1 .. n
  BY DEF TypeOK
<1>2. PICK S, T : /\ S = {j \in DOMAIN rows' : /\ rows'[j].version = version
                                               /\ rows'[j].created >= since
                                               /\ rows'[j].state \in Returned}
                  /\ T = {j \in DOMAIN rows : /\ rows[j].version = version
                                              /\ rows[j].created >= since
                                              /\ rows[j].state \in Returned}
  OBVIOUS
<1>3. T \in SUBSET (1 .. n)
  BY <1>1, <1>2
<1>4. S \in SUBSET T
  BY <1>2 DEF NoneReturned
<1>5. Cardinality(S) \in Nat /\ Cardinality(T) \in Nat /\ Cardinality(S) <= Cardinality(T)
  BY <1>3, <1>4, Counting
<1>6. Cardinality(T) < max
  BY <1>2 DEF BudgetLeft, CountRollbacks, Returned
<1>7. Cardinality(S) < max
  BY <1>5, <1>6
<1> QED  BY <1>2, <1>7 DEF BudgetLeft, CountRollbacks, Returned

LEMMA NoMoreTaken ==
  ASSUME TypeOK, NoneReturned, env' = env, NEW version, NEW at,
         Cardinality(TakenBack(version, at)) <= env.rollback.max
  PROVE  Cardinality(TakenBack(version, at)') <= env.rollback.max
<1>1. PICK n \in Nat : DOMAIN rows = 1 .. n
  BY DEF TypeOK
<1>2. PICK S, T : S = TakenBack(version, at)' /\ T = TakenBack(version, at)
  OBVIOUS
<1>3. T \in SUBSET (1 .. n)
  BY <1>1, <1>2 DEF TakenBack
<1>4. \A s \in Returned : IsTerminal(s)
  BY StateNames DEF Returned
<1>5. S \in SUBSET T
  BY <1>2, <1>4 DEF TakenBack, NoneReturned, Returned
<1>6. Cardinality(S) \in Nat /\ Cardinality(T) \in Nat /\ Cardinality(S) <= Cardinality(T)
  BY <1>3, <1>5, Counting
<1>7. env.rollback.max \in Int
  BY EnvironmentFacts
<1> QED  BY <1>2, <1>6, <1>7

\* One more is taken back: there was room for it.
LEMMA OneMoreTaken ==
  ASSUME TypeOK, BudgetInv, RowsMove, NEW row \in DOMAIN rows, row = run.row,
         NEW version, version = rows[row].version,
         BudgetLeft(rows, version, rows[row].passed - Day, env.rollback.max),
         \A d \in did' : d \in did \/ d.row = row,
         NEW at \in Int, rows[row].passed <= at, env' = env
  PROVE  Cardinality(TakenBack(version, at)') <= env.rollback.max
<1>1. PICK n \in Nat : DOMAIN rows = 1 .. n
  BY DEF TypeOK
<1>2. PICK since : since = rows[row].passed - Day
  OBVIOUS
<1>3. since \in Int /\ at - Day \in Int /\ since <= at - Day
  <2>1. rows[row].passed \in Int /\ Day \in Int
    BY RowTyped, DeploymentsAssumption
  <2> QED  BY <1>2, <2>1
<1>4. PICK S, T, C :
        /\ S = TakenBack(version, at)' /\ T = TakenBack(version, at)
        /\ C = {j \in DOMAIN rows : /\ rows[j].version = version /\ rows[j].created >= since
                                    /\ rows[j].state \in Returned}
  OBVIOUS
<1>5. T \in SUBSET C /\ C \in SUBSET (1 .. n)
  <2>1. ASSUME NEW i \in T
        PROVE  i \in C
    <3>1. /\ i \in DOMAIN rows /\ rows[i].state \in Returned /\ rows[i].created >= at - Day
          /\ \E d \in did : d.row = i /\ ~d.auto /\ d.version = version
      BY <1>4 DEF TakenBack, Returned
    <3>2. rows[i].version = version
      BY <3>1 DEF BudgetInv
    <3>3. rows[i].created >= since
      <4>1. rows[i].created \in Int
        BY <3>1, RowTyped
      <4> QED  BY <1>3, <3>1, <4>1
    <3> QED  BY <1>4, <3>1, <3>2, <3>3
  <2> QED  BY <1>1, <1>4, <2>1
<1>6. S \in SUBSET (T \cup {row})
  <2>1. ASSUME NEW i \in S, i # row
        PROVE  i \in T
    <3>1. DOMAIN rows' = DOMAIN rows
      BY DEF RowsMove, TypeOK
    <3>2. i \in DOMAIN rows /\ rows'[i] = rows[i]
      BY <1>4, <2>1, <3>1 DEF TakenBack, RowsMove
    <3>3. \E d \in did : d.row = i /\ ~d.auto /\ d.version = version
      BY <1>4, <2>1 DEF TakenBack
    <3> QED  BY <1>4, <3>2, <3>3 DEF TakenBack
  <2> QED  BY <2>1
<1>7. Cardinality(T) <= Cardinality(C) /\ Cardinality(T) \in Nat /\ Cardinality(C) \in Nat
  BY <1>5, Counting
<1>8. Cardinality(S) <= Cardinality(T) + 1 /\ Cardinality(S) \in Nat
  <2>1. T \in SUBSET (1 .. n) /\ row \in 1 .. n
    BY <1>1, <1>5
  <2> QED  BY <1>6, <2>1, CountingOne
<1>9. Cardinality(C) < env.rollback.max
  BY <1>2, <1>4 DEF BudgetLeft, CountRollbacks, Returned
<1>10. env.rollback.max \in Int
  BY EnvironmentFacts
<1>11. Cardinality(S) <= env.rollback.max
  BY <1>7, <1>8, <1>9, <1>10
<1> QED  BY <1>4, <1>11

\* The parts of BudgetInv.
BudgetKept ==
  (PastPreflight \/ run.pc = "restore") /\ ~This.rollback =>
    /\ BudgetLeft(rows, This.version, This.passed - Day, env.rollback.max)
    /\ This.passed \in Start .. Limit.end

OwnVersion == \A d \in did : ~d.auto => d.version = rows[d.row].version

PassedInTime ==
  \A d \in did : ~d.auto /\ ~rows[d.row].rollback => rows[d.row].passed \in Start .. Limit.end

FewTakenBack ==
  \A version \in Version, at \in Start .. Limit.end :
    Cardinality(TakenBack(version, at)) <= env.rollback.max

LEMMA BudgetParts ==
  /\ BudgetInv <=> BudgetKept /\ OwnVersion /\ PassedInTime /\ FewTakenBack
  /\ BudgetInv' <=> BudgetKept' /\ OwnVersion' /\ PassedInTime' /\ FewTakenBack'
BY DEF BudgetInv, BudgetKept, OwnVersion, PassedInTime, FewTakenBack

\* A run that goes on without going through preflight keeps the budget it had.
LEMMA BudgetKeptStays ==
  ASSUME TypeOK, RunInv, BudgetInv, Kept, NoneReturned, run.row \in DOMAIN rows,
         PastPreflight \/ run.pc = "restore", run'.row = run.row,
         rows'[run.row].passed = rows[run.row].passed
  PROVE  BudgetKept'
<1>1. PICK i, v, since, max :
        /\ i \in DOMAIN rows
        /\ i = run.row /\ v = rows[i].version /\ since = rows[i].passed - Day /\ max = env.rollback.max
  OBVIOUS
<1>2. since \in Int /\ max \in Int
  <2>1. rows[i].passed \in Int /\ Day \in Int
    BY <1>1, RowTyped, DeploymentsAssumption
  <2> QED  BY <1>1, <2>1, EnvironmentFacts
<1>3. /\ rows'[i].version = v /\ rows'[i].passed = rows[i].passed
      /\ rows'[i].rollback = rows[i].rollback /\ env' = env /\ run'.row = i
  BY <1>1 DEF Kept, RowsKept
<1>4. ~rows[i].rollback => BudgetLeft(rows', v, since, max) /\ rows[i].passed \in Start .. Limit.end
  BY <1>1, <1>2, BudgetStays DEF BudgetInv, This
<1>5. Limit' = Limit
  BY <1>3 DEF Limit
<1> QED  BY <1>1, <1>3, <1>4, <1>5 DEF BudgetKept, This

LEMMA FewStay ==
  ASSUME TypeOK, BudgetInv, NoneReturned, env' = env
  PROVE  FewTakenBack'
<1>1. Limit' = Limit
  BY DEF Limit
<1>2. ASSUME NEW version \in Version, NEW at \in Start .. Limit.end
      PROVE  Cardinality(TakenBack(version, at)') <= env.rollback.max
  BY <1>2, NoMoreTaken DEF BudgetInv
<1> QED  BY <1>1, <1>2 DEF FewTakenBack

LEMMA OtherBudget ==
  ASSUME TypeOK, RunInv, BudgetInv, QuietStep \/ Create \/ \E i \in starting : StartRun(i)
  PROVE  BudgetInv'
<1>1. /\ Kept /\ did' = did /\ (run' = run \/ run'.pc = "preflight") /\ env' = env
  BY QuietKept, CreateKept, CreateTypeOK, StartRunKept, StartRunTypeOK DEF Quiet, Kept
<1>2. /\ \A i \in DOMAIN rows' : rows'[i].state \in Returned => i \in DOMAIN rows /\ rows'[i] = rows[i]
      /\ \A i \in DOMAIN rows : rows'[i].passed = rows[i].passed
  <2>1. CASE QuietStep
    BY <2>1, QuietKept DEF Quiet
  <2>2. CASE Create
    <3>1. PICK n \in Nat : n = Len(rows) /\ DOMAIN rows = 1 .. n
      BY DEF TypeOK
    <3>2. rows' \in Seq(Rows) /\ Len(rows') = n + 1
      BY <2>2, <3>1, CreateTypeOK DEF TypeOK
    <3>3. DOMAIN rows' = 1 .. n + 1 /\ rows'[n + 1].state = "PENDING"
      BY <2>2, <3>2, CreateTypeOK
    <3>4. \A i \in DOMAIN rows' : i \in DOMAIN rows \/ i = n + 1
      BY <3>1, <3>3
    <3> QED  BY <2>2, <3>3, <3>4, CreateTypeOK DEF Returned
  <2>3. ASSUME NEW i \in starting, StartRun(i)
        PROVE  /\ \A j \in DOMAIN rows' :
                    rows'[j].state \in Returned => j \in DOMAIN rows /\ rows'[j] = rows[j]
               /\ \A j \in DOMAIN rows : rows'[j].passed = rows[j].passed
    BY <2>3, StartRunKept DEF Returned
  <2> QED  BY <2>1, <2>2, <2>3
<1>3. NoneReturned
  BY <1>1, <1>2 DEF NoneReturned
<1>4. BudgetKept'
  <2>1. CASE run' = run /\ (PastPreflight \/ run.pc = "restore")
    <3>1. run.row \in DOMAIN rows
      BY <2>1, ActiveRun DEF PastPreflight
    <3> QED  BY <1>1, <1>2, <1>3, <2>1, <3>1, BudgetKeptStays
  <2>2. CASE ~(run' = run /\ (PastPreflight \/ run.pc = "restore"))
    BY <1>1, <2>2 DEF BudgetKept, PastPreflight
  <2> QED  BY <2>1, <2>2
<1>5. \A d \in did : d.row \in DOMAIN rows
  BY DEF TypeOK
<1>6. Limit' = Limit
  BY <1>1 DEF Limit
<1>7. OwnVersion' /\ PassedInTime'
  BY <1>1, <1>2, <1>5, <1>6 DEF OwnVersion, PassedInTime, BudgetInv, Kept, RowsKept
<1> QED  BY <1>1, <1>3, <1>4, <1>7, FewStay, BudgetParts

\* The budget that preflight looked at is the one the run has.
LEMMA AdmitsBudget ==
  ASSUME TypeOK, RunInv, Kept, NoneReturned, Admits
  PROVE  BudgetKept'
<1>1. /\ run.row \in DOMAIN rows /\ run'.row = run.row /\ MayDeploy(This)
      /\ rows'[run.row].passed = now
  BY ActiveRun, Admitting DEF Admits, GoesOn
<1>2. PICK i, v, since, max :
        /\ i \in DOMAIN rows
        /\ i = run.row /\ v = rows[i].version /\ since = now - Day /\ max = env.rollback.max
  BY <1>1
<1>3. since \in Int /\ max \in Int /\ now \in Start .. Limit.end
  <2>1. now \in Int /\ Day \in Int
    BY Times, DeploymentsAssumption
  <2> QED  BY <1>2, <2>1, Times, EnvironmentFacts
<1>4. /\ rows'[i].version = v /\ rows'[i].passed = now
      /\ rows'[i].rollback = rows[i].rollback /\ env' = env /\ run'.row = i
  BY <1>1, <1>2 DEF Kept, RowsKept
<1>5. ~rows[i].rollback => BudgetLeft(rows', v, since, max)
  BY <1>1, <1>2, <1>3, BudgetStays DEF MayDeploy, This
<1>6. Limit' = Limit
  BY <1>4 DEF Limit
<1> QED  BY <1>2, <1>3, <1>4, <1>5, <1>6 DEF BudgetKept, This

LEMMA RunStepBudget ==
  ASSUME TypeOK, RunInv, GateInv, SafeInv, BudgetInv, RunStep
  PROVE  BudgetInv'
<1>1. /\ run.pc # "idle" /\ run.row \in DOMAIN rows /\ Goes /\ Asks /\ Kept /\ RowsMove
      /\ Stuck \/ IsOver(Failed \cup {"SUCCEEDED", "ROLLED_BACK"}) \/ GoesOn
      /\ run.pc \in {"deploy", "verify", "restore"} => Past(rows'[run.row].state)
      /\ run.pc # "preflight" => rows'[run.row].passed = rows[run.row].passed
  BY RunStepGoesWhere, RunStepKept
<1>2. /\ DOMAIN rows' = DOMAIN rows /\ env' = env /\ Limit' = Limit
      /\ ~IsTerminal(rows[run.row].state)
      /\ <<run.pc, rows[run.row].state>> \in Places
  <2>1. env' = env /\ ~IsTerminal(rows[run.row].state)
        /\ <<run.pc, rows[run.row].state>> \in Places
    BY <1>1, ActiveRun DEF Kept, Places, This
  <2>2. Limit' = Limit
    BY <2>1 DEF Limit
  <2>3. DOMAIN rows' = DOMAIN rows
    BY <1>1 DEF RowsMove, TypeOK
  <2> QED  BY <2>1, <2>2, <2>3
<1>3. \A d \in did' : \/ d \in did /\ d.row \in DOMAIN rows
                      \/ d.row = run.row /\ run.pc = "deploy" /\ d.version = This.version /\ ~d.auto
                      \/ d.row = run.row /\ run.pc = "restore" /\ d.auto
  <2>1. \A d \in did : d.row \in DOMAIN rows
    BY DEF TypeOK
  <2> QED  BY <1>1, <2>1, Asking DEF Deployed
\* A deploy of the run's row means that the run is past its gates.
<1>4. \A d \in did' : d.row = run.row => run.pc \in {"deploy", "verify", "restore"}
  BY <1>2, <1>3 DEF RunInv, Places
<1>5. \A d \in did' : d.row \in DOMAIN rows /\ rows'[d.row].passed = rows[d.row].passed
  <2> TAKE d \in did'
  <2>1. d.row \in DOMAIN rows
    BY <1>1, <1>3
  <2>2. CASE d.row = run.row
    BY <1>1, <1>4, <2>1, <2>2
  <2>3. CASE d.row # run.row
    BY <1>1, <2>1, <2>3 DEF RowsMove
  <2> QED  BY <2>1, <2>2, <2>3
<1>6. OwnVersion'
  BY <1>1, <1>3 DEF OwnVersion, BudgetInv, Kept, RowsKept, This
<1>7. PassedInTime'
  <2> SUFFICES ASSUME NEW d \in did', ~d.auto, ~rows'[d.row].rollback
               PROVE  rows'[d.row].passed \in Start .. Limit.end
    BY <1>2 DEF PassedInTime
  <2>1. d.row \in DOMAIN rows /\ ~rows[d.row].rollback
    BY <1>1, <1>5 DEF Kept, RowsKept
  <2>2. rows[d.row].passed \in Start .. Limit.end
    <3>1. CASE d \in did
      BY <2>1, <3>1 DEF BudgetInv
    <3>2. CASE d.row = run.row /\ run.pc = "deploy"
      BY <2>1, <3>2 DEF BudgetInv, This, PastPreflight
    <3> QED  BY <1>3, <3>1, <3>2
  <2> QED  BY <1>5, <2>2
<1>8. CASE rows'[run.row].state \notin Returned
  <2>1. NoneReturned
    <3>1. \A i \in DOMAIN rows' :
            rows'[i].state \in Returned => i \in DOMAIN rows /\ rows'[i] = rows[i]
      BY <1>1, <1>2, <1>8 DEF RowsMove
    <3>2. \A d \in did' : d \in did \/ ~IsTerminal(rows[d.row].state)
      BY <1>2, <1>3
    <3> QED  BY <3>1, <3>2 DEF NoneReturned
  <2>2. BudgetKept'
    <3> SUFFICES ASSUME (PastPreflight \/ run.pc = "restore")'
                 PROVE  BudgetKept'
      BY DEF BudgetKept
    <3>1. CASE Admits
      BY <1>1, <2>1, <3>1, AdmitsBudget
    <3>2. CASE ~Admits
      <4>1. run'.row = run.row /\ (PastPreflight \/ run.pc = "restore")
        <5>1. CASE PastPreflight'
          BY <1>1, <3>2, <5>1, PastComes
        <5>2. CASE run'.pc = "restore"
          BY <1>1, <5>2, RestoreComes DEF PastPreflight
        <5> QED  BY <5>1, <5>2
      <4>2. rows'[run.row].passed = rows[run.row].passed
        BY <1>1, <4>1 DEF PastPreflight
      <4> QED  BY <1>1, <2>1, <4>1, <4>2, BudgetKeptStays
    <3> QED  BY <3>1, <3>2
  <2> QED  BY <1>2, <1>6, <1>7, <2>1, <2>2, FewStay, BudgetParts
<1>9. CASE rows'[run.row].state \in Returned
  <2>1. run' = Idle
    <3>1. ~GoesOn
      BY <1>9 DEF GoesOn, Places, Returned
    <3> QED  BY <1>1, <3>1 DEF Stuck, IsOver
  <2>2. BudgetKept'
    BY <2>1, IdleRun DEF BudgetKept, PastPreflight
  <2>3. FewTakenBack'
    <3> SUFFICES ASSUME NEW version \in Version, NEW at \in Start .. Limit.end
                 PROVE  Cardinality(TakenBack(version, at)') <= env.rollback.max
      BY <1>2 DEF FewTakenBack
    <3>1. PICK row \in DOMAIN rows : row = run.row
      BY <1>1
    <3>2. CASE row \in TakenBack(version, at)'
      <4>1. PICK d \in did' : d.row = row /\ ~d.auto /\ d.version = version
        BY <3>2 DEF TakenBack
      <4>2. /\ ~rows[row].rollback /\ rows[row].passed <= at /\ rows[row].version = version
        <5>1. ~rows'[row].rollback /\ rows'[row].passed <= at
          BY <3>2 DEF TakenBack
        <5>2. rows'[row].version = version
          BY <1>6, <4>1 DEF OwnVersion
        <5> QED  BY <1>1, <1>5, <4>1, <5>1, <5>2 DEF Kept, RowsKept
      <4>3. PastPreflight \/ run.pc = "restore"
        BY <1>4, <3>1, <4>1 DEF PastPreflight
      <4>4. BudgetLeft(rows, version, rows[row].passed - Day, env.rollback.max)
        BY <3>1, <4>2, <4>3 DEF BudgetInv, This
      <4>5. \A e \in did' : e \in did \/ e.row = row
        BY <1>3, <3>1
      <4>6. at \in Int
        BY Times
      <4> QED  BY <1>1, <1>2, <3>1, <4>2, <4>4, <4>5, <4>6, OneMoreTaken
    <3>3. CASE row \notin TakenBack(version, at)'
      <4>1. PICK n \in Nat : DOMAIN rows = 1 .. n
        <5>1. rows \in Seq(Rows)
          BY DEF TypeOK
        <5> QED  BY <5>1
      <4>2. PICK S, T : S = TakenBack(version, at)' /\ T = TakenBack(version, at)
        OBVIOUS
      <4>3. T \in SUBSET (1 .. n)
        BY <4>1, <4>2 DEF TakenBack
      <4>4. S \in SUBSET T
        <5>1. ASSUME NEW i \in S
              PROVE  i \in T
          <6>1. i # row
            BY <3>3, <4>2
          <6>2. i \in DOMAIN rows /\ rows'[i] = rows[i]
            BY <1>1, <1>2, <3>1, <4>2, <6>1 DEF TakenBack, RowsMove
          <6>3. \E d \in did : d.row = i /\ ~d.auto /\ d.version = version
            BY <1>3, <3>1, <4>2, <6>1 DEF TakenBack
          <6> QED  BY <4>2, <6>2, <6>3 DEF TakenBack
        <5> QED  BY <5>1
      <4>5. Cardinality(S) \in Nat /\ Cardinality(T) \in Nat /\ Cardinality(S) <= Cardinality(T)
        BY <4>3, <4>4, Counting
      <4>6. Cardinality(T) <= env.rollback.max /\ env.rollback.max \in Int
        BY <4>2, EnvironmentFacts DEF BudgetInv
      <4>7. Cardinality(S) <= env.rollback.max
        BY <4>5, <4>6
      <4> QED  BY <4>2, <4>7
    <3> QED  BY <3>2, <3>3
  <2> QED  BY <1>6, <1>7, <2>2, <2>3, BudgetParts
<1> QED  BY <1>8, <1>9

LEMMA BudgetInvStays ==
  ASSUME TypeOK, RunInv, GateInv, SafeInv, BudgetInv, [Next]_vars
  PROVE  BudgetInv'
BY NextKinds, OtherBudget, RunStepBudget
-----------------------------------------------------------------------------
(* The invariant.                                                          *)

LEMMA InitTypeOK ==
  ASSUME Init
  PROVE  TypeOK
<1>1. env \in Envs /\ Accepted(env) /\ ScopeTyped(env, Limit)
  BY DeploymentsAssumption DEF Init, Limit
<1>2. /\ Limit.history \in Seq(Rows) /\ \A i \in DOMAIN Limit.history : Limit.history[i].of \in 0 .. i - 1
      /\ Limit.tested \in Seq(Version) /\ Limit.live \in Version \cup {NoVersion}
      /\ Limit.end \in Int /\ Start <= Limit.end
  BY <1>1 DEF ScopeTyped
<1>3. /\ now = Start /\ rows = Limit.history /\ request = NoRequest /\ starting = {} /\ run = Idle
      /\ approvals = {} /\ approving = NoHandler /\ freeze = NotFrozen /\ live = Limit.live
      /\ tested = Limit.tested /\ did = {}
  BY DEF Init, Limit
<1>4. now \in Start .. Limit.end /\ Start \in Int
  BY <1>2, <1>3, DeploymentsAssumption
<1>5. freeze \in [on : BOOLEAN, since : Int, until : Int]
  BY <1>3, <1>4 DEF NotFrozen
<1>6. run \in RunType
  BY <1>3, IdleRun
<1> QED  BY <1>1, <1>2, <1>3, <1>4, <1>5, <1>6 DEF TypeOK, RunType

LEMMA InitIndInv ==
  ASSUME Init
  PROVE  IndInv
<1>1. TypeOK
  BY InitTypeOK
<1>2. /\ env \in Envs /\ ScopeTyped(env, Limit)
      /\ now = Start /\ rows = Limit.history /\ request = NoRequest /\ run = Idle
      /\ run.pc = "idle" /\ live = Limit.live /\ tested = Limit.tested /\ did = {} /\ VerifyInit
  BY IdleRun, DeploymentsAssumption DEF Init, Limit
<1>3. \A i \in DOMAIN rows : /\ IsTerminal(rows[i].state) /\ rows[i].created <= now
                             /\ rows[i].state \notin WorkStates
  <2>1. \A i \in DOMAIN rows : IsTerminal(rows[i].state) /\ rows[i].created <= now
    BY <1>2 DEF ScopeTyped
  <2> QED  BY <2>1, StateNames
<1>4. RunInv
  BY <1>2, <1>3 DEF RunInv
<1>5. SafeInv
  BY <1>2, <1>3 DEF SafeInv
<1>6. TestedInv
  BY <1>2 DEF TestedInv, ScopeTyped, TestedOrNamed, PastPreflight
<1>7. GateInv
  BY <1>2 DEF GateInv
<1>8. BudgetInv
  <2>1. \A version, at : TakenBack(version, at) = {}
    BY <1>2 DEF TakenBack
  <2>2. Cardinality({}) = 0
    BY FS_EmptySet
  <2>3. env.rollback.max \in Int /\ env.rollback.max >= 1
    BY <1>1, EnvironmentFacts
  <2> QED  BY <1>2, <2>1, <2>2, <2>3 DEF BudgetInv, PastPreflight
<1>9. EvidenceInv
  <2>1. PICK p : p = env.verify
    OBVIOUS
  <2>2. PolicyTyped(p) /\ PolicyFits(p)
    BY <1>1, <2>1, EnvironmentFacts
  <2>3. EvidenceHolds(p)
    BY <1>2, <2>2, VerifyInitHolds
  <2> QED  BY <2>1, <2>3 DEF EvidenceInv, EvidenceHolds
<1> QED  BY <1>1, <1>4, <1>5, <1>6, <1>7, <1>8, <1>9 DEF IndInv

(* The whole invariant holds in every state: what the runs of module       *)
(* Deployments check on a few environments, for all that the loader takes. *)
THEOREM DeploymentsInductive == Spec => []IndInv
<1>1. Init => IndInv
  BY InitIndInv
<1>2. IndInv /\ [Next]_vars => IndInv'
  BY TypeOKStays, RunInvStays, SafeInvStays, TestedInvStays, GateInvStays, BudgetInvStays,
     EvidenceInvStays DEF IndInv
<1> QED  BY <1>1, <1>2, PTL DEF Spec

\* Every variable keeps its type.
THEOREM DeploymentsTyped == Spec => []TypeOK
<1>1. IndInv => TypeOK
  BY DEF IndInv
<1> QED  BY <1>1, DeploymentsInductive, PTL

(* A row that ended stays as it is, and what a row was asked for never     *)
(* changes (executor.go and store.go write the state of a run's own row).  *)
THEOREM SettledRowsStay == Spec => [][RowsKept]_vars
<1>1. IndInv /\ [Next]_vars => RowsKept
  BY AllKept DEF IndInv, Kept
<1> QED  BY <1>1, DeploymentsInductive, PTL DEF Spec

(* No rollback goes to a version that has not succeeded here before the row*)
(* it undoes, nor to one below the floor of the row's version or across an *)
(* irreversible migration, however late it goes out after its plan.        *)
THEOREM RollbacksSafe == Spec => []RollbackIsSafe
<1>1. ASSUME IndInv
      PROVE  RollbackIsSafe
  <2> SUFFICES ASSUME NEW d \in did, RollsBack(d)
               PROVE  LET i == RolledBackRow(d) IN
                      /\ \E j \in 1 .. i - 1 : rows[j].state = "SUCCEEDED" /\ rows[j].version = d.version
                      /\ Checked => LET m == Manifest[rows[i].version] IN
                           /\ m.known
                           /\ m.floor # NoVersion => SameVersion(m.floor, d.version) \/ VersionLess(m.floor, d.version)
                           /\ m.irreversible /\ Manifest[d.version].known =>
                                Manifest[d.version].schema = m.schema
    BY DEF RollbackIsSafe
  <2>1. PICK i \in DOMAIN rows : i = RolledBackRow(d) /\ Safe(i, d.version)
    BY <1>1 DEF IndInv, SafeInv
  <2>2. \E j \in 1 .. i - 1 : rows[j].state = "SUCCEEDED" /\ rows[j].version = d.version
    BY <2>1 DEF Safe
  <2>3. ASSUME Checked
        PROVE  LET m == Manifest[rows[i].version] IN
               /\ m.known
               /\ m.floor # NoVersion => SameVersion(m.floor, d.version) \/ VersionLess(m.floor, d.version)
               /\ m.irreversible /\ Manifest[d.version].known =>
                    Manifest[d.version].schema = m.schema
    <3>1. PICK m, v, f : m = Manifest[rows[i].version] /\ v = d.version /\ f = m.floor
      OBVIOUS
    <3>2. /\ m.known
          /\ f # NoVersion => ~VersionLess(v, f)
          /\ Manifest[v].known /\ Manifest[v].schema # m.schema => ~m.irreversible
      BY <2>1, <2>3, <3>1 DEF Safe, FloorHolds
    <3>3. rows[i].version \in Version /\ v \in Version
      BY <1>1, <3>1, RowTyped DEF IndInv, TypeOK
    <3>4. v \in Seq(Part) /\ f \in Seq(Part) \cup {NoVersion}
      BY <3>1, <3>3, RollbacksAssumption DEF Version
    <3>5. CASE f = NoVersion
      BY <3>1, <3>2, <3>5
    <3>6. CASE f # NoVersion
      <4>1. f \in Seq(Part) /\ v \in Seq(Part) /\ ~VersionLess(v, f)
        BY <3>2, <3>4, <3>6
      <4>2. SameVersion(f, v) \/ VersionLess(f, v)
        BY <4>1, VersionsCompare
      <4> QED  BY <3>1, <3>2, <4>2
    <3> QED  BY <3>5, <3>6
  <2> QED  BY <2>1, <2>2, <2>3
<1> QED  BY <1>1, DeploymentsInductive, PTL

(* With promote_from, what runs succeeded upstream, unless a rollback named*)
(* its version: through failed deploys, and rollbacks and their failures.  *)
THEOREM TestedIsLive == Spec => []OnlyTestedVersionsLive
<1>1. IndInv => OnlyTestedVersionsLive
  BY DEF IndInv, TestedInv, OnlyTestedVersionsLive
<1> QED  BY <1>1, DeploymentsInductive, PTL

(* Of the deployments of a version that went out, at most max_attempts were*)
(* taken back in a day.                                                    *)
THEOREM BudgetIsKept == Spec => []BudgetHolds
<1>1. ASSUME IndInv
      PROVE  BudgetHolds
  <2> SUFFICES ASSUME NEW d \in did, ~d.auto, ~rows[d.row].rollback
               PROVE  Cardinality(TakenBack(d.version, rows[d.row].passed)) <= env.rollback.max
    BY DEF BudgetHolds, TakenBack
  <2>1. rows[d.row].passed \in Start .. Limit.end /\ d.version \in Version
    BY <1>1 DEF IndInv, BudgetInv, TypeOK
  <2> QED  BY <1>1, <2>1 DEF IndInv, BudgetInv
<1> QED  BY <1>1, DeploymentsInductive, PTL

(* The verdict on a bake is what its samples say, for any policy.          *)
THEOREM VerdictsFollow == Spec => []VerdictIsEvidence
<1>1. IndInv => VerdictIsEvidence
  BY DEF IndInv, EvidenceInv, VerdictIsEvidence
<1> QED  BY <1>1, DeploymentsInductive, PTL

(* Nothing goes out without the approvals its gates ask for, nor while the *)
(* schedule denied it, nor in a freeze older than the request.             *)
THEOREM GatesAreHeld == Spec => []GatesHeld
<1>1. Init => GatesHeld
  BY DEF Init, GatesHeld
<1>2. ASSUME IndInv, GatesHeld, [Next]_vars
      PROVE  GatesHeld'
  <2>1. Kept /\ env' = env
    BY <1>2, AllKept DEF IndInv, Kept
  <2> SUFFICES ASSUME NEW d \in did', ~d.auto
               PROVE  /\ d.frozen >= rows'[d.row].created
                      /\ HasApproval(env) => \A k \in DOMAIN env.gates :
                           GateHeld(d.row, env.gates[k], d.asked[k])'
    BY <2>1 DEF GatesHeld
  <2>2. /\ d.row \in DOMAIN rows /\ d.frozen >= rows[d.row].created
        /\ HasApproval(env) => \A k \in DOMAIN env.gates :
             GateHeld(d.row, env.gates[k], d.asked[k])
    <3>1. CASE d \in did
      BY <1>2, <3>1 DEF IndInv, TypeOK, GatesHeld
    <3>2. CASE d \notin did
      <4>1. run.pc = "deploy" /\ d = Deployed(This.version, FALSE) /\ run.row \in DOMAIN rows
        <5>1. did' = did \/ RunStep
          BY <1>2, NextKinds, QuietKept, CreateTypeOK, StartRunTypeOK DEF IndInv, Quiet
        <5>2. run.pc # "idle" /\ run.row \in DOMAIN rows /\ Asks
          BY <1>2, <3>2, <5>1, RunStepGoesWhere DEF IndInv
        <5> QED  BY <1>2, <3>2, <5>2, Asking DEF IndInv, Deployed
      <4>2. /\ d.row = run.row /\ d.asked = run.asked
            /\ d.frozen = IF Frozen THEN freeze.since ELSE now
        BY <4>1 DEF Deployed
      <4>3. d.frozen >= rows[d.row].created
        <5>1. rows[d.row].created <= now /\ rows[d.row].created \in Int /\ now \in Int
          BY <1>2, <4>1, <4>2, RowTyped, Times DEF IndInv, RunInv
        <5> QED  BY <1>2, <4>1, <4>2, <5>1 DEF IndInv, GateInv, This
      <4> QED  BY <1>2, <4>1, <4>2, <4>3 DEF IndInv, GateInv
    <3> QED  BY <3>1, <3>2
  <2>3. rows'[d.row].created = rows[d.row].created
    BY <2>1, <2>2 DEF Kept, RowsKept
  <2>4. ASSUME HasApproval(env), NEW k \in DOMAIN env.gates
        PROVE  GateHeld(d.row, env.gates[k], d.asked[k])'
    <3>1. PICK i, g, t :
            /\ i \in DOMAIN rows
            /\ i = d.row /\ g = env.gates[k] /\ t = d.asked[k] /\ GateHeld(i, g, t)
      BY <2>2, <2>4
    <3>2. GateHeld(i, g, t)'
      BY <1>2, <2>1, <3>1, GateHeldStays DEF IndInv
    <3> QED  BY <2>1, <3>1, <3>2
  <2> QED  BY <2>2, <2>3, <2>4
<1> QED  BY <1>1, <1>2, DeploymentsInductive, PTL DEF Spec
=============================================================================
