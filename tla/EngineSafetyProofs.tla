------------------------- MODULE EngineSafetyProofs -------------------------
(***************************************************************************)
(* The safety properties of Engine, proved from HistoryInv: effects are    *)
(* journalled, outcomes are truthful, a rollback happens only when it was  *)
(* meant, and a lease always has somebody who will give it back.           *)
(***************************************************************************)
EXTENDS EngineProofs, EngineInvariants

USE DEF notice

\* What HistoryInv and IndInv say of one deployment.
LEMMA OneHistory ==
  ASSUME IndInv, HistoryInv, NEW d \in Dep
  PROVE  /\ RunHistory(d, ex[d], state[d], Kept(d), did[d])
         /\ ex[d] \in Execs
         /\ state[d] \in State \cup {"NONE"}
         /\ previous[d] \in Version \cup {NoVersion}
         /\ did[d] \in SUBSET Effects
  BY DEF IndInv, TypeOK, HistoryInv

\* A step of executor d that leaves d with a history that adds up, touches no
\* other row and gives no other executor its lost fence back, keeps HistoryInv.
LEMMA HistoryKept ==
  ASSUME IndInv, HistoryInv, NEW d \in Dep, NEW r, Exec(d, r), UNCHANGED overwritten,
         \A c \in Dep \ {d} :
           /\ state'[c] = state[c] /\ previous'[c] = previous[c] /\ did'[c] = did[c]
           /\ Fenced(c, ex[c].fence)' => Fenced(c, ex[c].fence),
         RunHistory(d, r, state[d], Kept(d), did[d])'
  PROVE  HistoryInv'
<1>1. ex' = [ex EXCEPT ![d] = r] /\ ex \in [Dep -> Execs]
  BY DEF Exec, IndInv, TypeOK
<1>2. SUFFICES ASSUME NEW c \in Dep
               PROVE  RunHistory(c, ex[c], state[c], Kept(c), did[c])'
  BY DEF HistoryInv
<1>3. CASE c = d
  BY <1>1, <1>3
<1>4. CASE c # d
  <2>1. ex'[c] = ex[c] /\ RunHistory(c, ex[c], state[c], Kept(c), did[c])
    BY <1>1, <1>4, OneHistory
  <2>2. /\ RowHistory(c, state[c], Kept(c), did[c])'
        /\ Placed(ex[c], state[c], did[c])' /\ KeepsPrevious(ex[c], Kept(c))'
        /\ Advances(ex[c], did[c])'
    BY <1>4, <2>1 DEF Kept, RunHistory, RowHistory, Placed, KeepsPrevious, Advances, Prepared,
                      Writes, Deployed, Baked
  <2>3. Undoes(c, ex[c], state[c], did[c])'
    BY <1>4, <2>1 DEF RunHistory, Undoes, RollingBack
  <2>4. QED
    BY <2>2, <2>3 DEF RunHistory
<1>5. QED
  BY <1>3, <1>4

\* ... in particular one that touches neither the rows nor the lease.
LEMMA LocalKeepsHistory ==
  ASSUME IndInv, HistoryInv, NEW d \in Dep, NEW r, Local(d, r),
         RunHistory(d, r, state[d], Kept(d), did[d])
  PROVE  HistoryInv'
<1>1. UNCHANGED <<state, previous, overwritten, did, lease>> /\ Exec(d, r)
  BY DEF Local, rows
<1>2. RunHistory(d, r, state[d], Kept(d), did[d])'
  BY <1>1 DEF Kept, RunHistory, RowHistory, Placed, KeepsPrevious, Advances, Undoes,
                Fenced
<1>3. \A c \in Dep \ {d} : Fenced(c, ex[c].fence)' => Fenced(c, ex[c].fence)
  BY <1>1 DEF Fenced, Exec, IndInv, TypeOK
<1>4. QED
  BY <1>1, <1>2, <1>3, HistoryKept

\* What the records an executor is left with say, field by field.
LEMMA FailingFields ==
  ASSUME IndInv, NEW d \in Dep, NEW cause, NEW r, r = Failing(d, cause)
  PROVE  /\ r.pc = "failread" /\ r.at = ex[d].at /\ r.fence = ex[d].fence
         /\ r.prev = ex[d].prev /\ (~ex[d].lost => r.cause = cause)
         /\ ~r.lost /\ r.step = 1 /\ r.goal = "FAILED"
  BY DEF Failing, NoExec

LEMMA ReturningFields ==
  ASSUME IndInv, NEW d \in Dep, NEW r, r = Returning(d)
  PROVE  r.pc = "release" /\ r.at = "PENDING" /\ ~r.lost /\ r.step = 1
  BY DEF Returning, NoExec

LEMMA ProceedFields ==
  ASSUME IndInv, NEW d \in Dep, NEW r, r = Proceed(d)
  PROVE  /\ r.pc = "enter" /\ r.at = ex[d].at /\ r.fence = ex[d].fence /\ (r.lost <=> ex[d].lost)
         /\ r.prev = ex[d].prev /\ r.step = ex[d].step
  BY Working DEF Proceed, Execs

LEMMA ConcludeFields ==
  ASSUME IndInv, NEW d \in Dep, NEW goal, NEW r, r = Conclude(d, goal)
  PROVE  /\ r.pc = "settle" /\ r.at = ex[d].at /\ r.fence = ex[d].fence /\ (r.lost <=> ex[d].lost)
         /\ r.goal = goal /\ r.step = ex[d].step
  BY Working DEF Conclude, Execs

\* An executor that is on its way forward may fail at any point, having added
\* what it learned to the history: nothing it must not do follows from that.
LEMMA FailingHistory ==
  ASSUME IndInv, HistoryInv, NEW d \in Dep, ex[d].pc \in Cancellable,
         NEW cause \in {"plain", "blocked", "inconclusive"}, NEW D, did[d] \subseteq D,
         D \subseteq did[d] \cup {"deployed", "unhealthy", "inconclusive"},
         "inconclusive" \in D => cause = "inconclusive"
  PROVE  RunHistory(d, Failing(d, cause), state[d], Kept(d), D)
<1>1. PICK r : r = Failing(d, cause)
  OBVIOUS
<1>2. /\ r.pc = "failread" /\ r.at = ex[d].at /\ r.fence = ex[d].fence
      /\ r.prev = ex[d].prev /\ (~ex[d].lost => r.cause = cause)
      /\ ~r.lost /\ r.step = 1
  BY <1>1, FailingFields
<1>3. RunHistory(d, ex[d], state[d], Kept(d), did[d])
  BY OneHistory
<1>4. ex[d].pc \notin {"none", "release", "done"} /\ state[d] # "NONE"
  BY Working DEF Cancellable
<1>5. RowHistory(d, state[d], Kept(d), D)
  BY <1>3, <1>4 DEF RunHistory, RowHistory, Placed, Advances, Bad
<1>6. Placed(r, state[d], D) /\ KeepsPrevious(r, Kept(d))
  BY <1>2, <1>3, <1>4 DEF RunHistory, Placed, KeepsPrevious, Prepared, Writes, Cancellable
<1>7. Advances(r, D)
  BY <1>2, <1>3 DEF RunHistory, Advances, Deployed, Baked, Cancellable
<1>8. Undoes(d, r, state[d], D)
  BY <1>2, <1>3 DEF RunHistory, Advances, Undoes, RollingBack, Bad
<1>9. QED
  BY <1>1, <1>5, <1>6, <1>7, <1>8 DEF RunHistory

LEMMA FailingAsIs ==
  ASSUME IndInv, HistoryInv, NEW d \in Dep, ex[d].pc \in Cancellable,
         NEW cause \in {"plain", "blocked", "inconclusive"}
  PROVE  RunHistory(d, Failing(d, cause), state[d], Kept(d), did[d])
<1>1. "inconclusive" \notin did[d]
  BY OneHistory DEF RunHistory, Advances, Bad
<1>2. QED
  BY <1>1, FailingHistory

\* The executor goes on to the next place, or around the canary's loop.
LEMMA ForwardKeepsHistory ==
  ASSUME IndInv, HistoryInv, NEW d \in Dep,
         \/ PreflightReads(d) \/ GatesPass(d) \/ ShiftReturns(d) \/ CanaryShifts(d)
         \/ CanaryEnds(d) \/ Promote(d) \/ HeartbeatFails(d)
  PROVE  HistoryInv'
<1>0. /\ RunHistory(d, ex[d], state[d], Kept(d), did[d])
      /\ ex[d] \in Execs /\ live # NoVersion
  BY OneHistory, Working, EngineAssumption
<1>1. ASSUME NEW r, Local(d, r), r.at = ex[d].at, r.fence = ex[d].fence, r.lost <=> ex[d].lost,
             ex[d].pc \in Cancellable, r.pc \in Cancellable,
             Placed(r, state[d], did[d]), KeepsPrevious(r, Kept(d)), Advances(r, did[d])
      PROVE  HistoryInv'
  <2>1. Undoes(d, r, state[d], did[d])
    BY <1>0, <1>1 DEF RunHistory, Advances, Undoes, RollingBack, Cancellable, Bad
  <2>2. QED
    BY <1>0, <1>1, <2>1, LocalKeepsHistory DEF RunHistory
<1> USE <1>0, <1>1 DEF At, RunHistory, Placed, KeepsPrevious, Advances, Prepared, Writes, Deployed,
                       Baked, Cancellable
<1>2. CASE PreflightReads(d)
  <2>1. PICK r : r = [ex[d] EXCEPT !.pc = "record", !.prev = live]
    OBVIOUS
  <2>2. /\ r.pc = "record" /\ r.at = ex[d].at /\ r.fence = ex[d].fence /\ r.prev = live
        /\ (r.lost <=> ex[d].lost) /\ r.step = ex[d].step
    BY <2>1 DEF Execs
  <2>3. QED
    BY <1>2, <2>1, <2>2 DEF PreflightReads
<1>3. ASSUME ex[d].pc \in {"work", "shift"}, Local(d, Proceed(d)),
             ex[d].pc = "work" => ex[d].at # "PREFLIGHT" /\ ex[d].at # "DEPLOYING",
             ex[d].pc = "shift" => ex[d].at # "VERIFYING",
             ex[d].at = "VERIFYING" => ~BakeConfigured \/ "healthy" \in did[d]
      PROVE  HistoryInv'
  <2>1. PICK r : r = Proceed(d)
    OBVIOUS
  <2>2. /\ r.pc = "enter" /\ r.at = ex[d].at /\ r.fence = ex[d].fence /\ r.prev = ex[d].prev
        /\ (r.lost <=> ex[d].lost) /\ r.step = ex[d].step
    BY <2>1, ProceedFields
  <2>3. QED
    BY <1>3, <2>1, <2>2
<1>4. CASE GatesPass(d)
  BY <1>3, <1>4 DEF GatesPass
<1>5. CASE Promote(d)
  BY <1>3, <1>5 DEF Promote
<1>6. CASE CanaryEnds(d)
  <2>1. \A i \in 1 .. Len(CanarySteps) : i < ex[d].step
    BY <1>6, EngineAssumption DEF CanaryEnds, Execs
  <2>2. BakeConfigured => "healthy" \in did[d]
    BY <1>6, <2>1 DEF CanaryEnds, BakeConfigured
  <2>3. QED
    BY <1>3, <1>6, <2>2 DEF CanaryEnds
<1>7. CASE CanaryShifts(d)
  <2>1. CASE ex[d].lost
    BY <1>7, <2>1, FailingAsIs, LocalKeepsHistory DEF CanaryShifts
  <2>2. CASE ~ex[d].lost
    <3>1. PICK r : r = [ex[d] EXCEPT !.pc = "shift"]
      OBVIOUS
    <3>2. /\ r.pc = "shift" /\ r.at = ex[d].at /\ r.fence = ex[d].fence /\ r.prev = ex[d].prev
          /\ (r.lost <=> ex[d].lost) /\ r.step = ex[d].step
      BY <3>1 DEF Execs
    <3>3. QED
      BY <1>7, <2>2, <3>1, <3>2 DEF CanaryShifts
  <2>3. QED
    BY <2>1, <2>2
<1>8. CASE ShiftReturns(d)
  <2>1. CASE ex[d].at = "DEPLOYING"
    BY <1>3, <1>8, <2>1 DEF ShiftReturns
  <2>2. CASE ex[d].at # "DEPLOYING"
    <3>1. PICK r : r = [ex[d] EXCEPT !.pc = "work", !.step = @ + 1]
      OBVIOUS
    <3>2. /\ r.pc = "work" /\ r.at = ex[d].at /\ r.fence = ex[d].fence /\ r.prev = ex[d].prev
          /\ (r.lost <=> ex[d].lost) /\ r.step = ex[d].step + 1
      BY <3>1 DEF Execs
    <3>3. \A i \in 1 .. Len(CanarySteps) :
             i < r.step /\ CanarySteps[i] = "verify" => "healthy" \in did[d]
      <4>1. ex[d].at = "VERIFYING" /\ CanarySteps[ex[d].step] = "shift" /\ ex[d].step \in Nat
        BY <1>8, <2>2 DEF ShiftReturns, Execs
      <4>2. QED
        BY <3>2, <4>1
    <3>4. QED
      BY <1>8, <2>2, <3>1, <3>2, <3>3 DEF ShiftReturns
  <2>3. QED
    BY <2>1, <2>2
<1>9. CASE HeartbeatFails(d)
  <2>1. PICK r : r = [ex[d] EXCEPT !.lost = TRUE]
    OBVIOUS
  <2>2. /\ r.pc = ex[d].pc /\ r.at = ex[d].at /\ r.fence = ex[d].fence /\ r.prev = ex[d].prev
        /\ r.lost /\ r.step = ex[d].step
    BY <2>1 DEF Execs
  <2>3. ~Fenced(d, r.fence)
    BY <1>9, <2>2, Working DEF HeartbeatFails, Fenced, Execs, LeaseRows
  <2>4. Undoes(d, r, state[d], did[d])
    BY <1>9, <2>2, <2>3 DEF HeartbeatFails, Undoes, RollingBack, Bad
  <2>5. QED
    BY <1>9, <2>1, <2>2, <2>4, LocalKeepsHistory DEF HeartbeatFails
<1>10. QED
  BY <1>2, <1>4, <1>5, <1>6, <1>7, <1>8, <1>9

\* The executor gives up before the next step.
LEMMA FailingKeepsHistory ==
  ASSUME IndInv, HistoryInv, NEW d \in Dep,
         \/ PreflightBlocks(d) \/ PreflightFails(d) \/ GatesBlock(d) \/ GatesCancelled(d)
         \/ DeployFails(d) \/ ShiftFails(d) \/ BakeCancelled(d)
  PROVE  HistoryInv'
<1>1. PICK cause \in {"plain", "blocked", "inconclusive"} : Local(d, Failing(d, cause))
  BY DEF PreflightBlocks, PreflightFails, GatesBlock, GatesCancelled, DeployFails,
         ShiftFails, BakeCancelled
<1>2. ex[d].pc \in Cancellable
  BY DEF PreflightBlocks, PreflightFails, GatesBlock, GatesCancelled, DeployFails,
         ShiftFails, BakeCancelled, Baking, At, Cancellable
<1>3. QED
  BY <1>1, <1>2, FailingAsIs, LocalKeepsHistory

\* An executor that returned, or is about to, is held to nothing but its row.
LEMMA EndedHistory ==
  ASSUME NEW d, NEW r, NEW s, NEW k, NEW D, RowHistory(d, s, k, D),
         r.pc \in {"none", "release", "done"}, r.at = "PENDING", ~r.lost, r.step = 1
  PROVE  RunHistory(d, r, s, k, D)
  BY DEF RunHistory, Placed, KeepsPrevious, Prepared, Writes, Advances, Deployed, Baked, Undoes,
         RollingBack, Cancellable, Early

\* The failure path, up to the decision and after the rollback.
LEMMA FailureKeepsHistory ==
  ASSUME IndInv, HistoryInv, NEW d \in Dep,
         \/ FailRead(d) \/ FailWithoutRollback(d) \/ FailPlansRollback(d)
         \/ FailRefusesRollback(d) \/ RollbackFails(d) \/ UnshiftReturns(d) \/ UnshiftFails(d)
  PROVE  HistoryInv'
<1>0. /\ RunHistory(d, ex[d], state[d], Kept(d), did[d])
      /\ ex[d] \in Execs /\ state[d] \in State \cup {"NONE"}
      /\ ex[d].pc # "none" => state[d] # "NONE"
  BY OneHistory, Working
<1> USE <1>0 DEF RunHistory, Placed, KeepsPrevious, Advances, Undoes, Prepared, Writes, Deployed,
                 Baked, Cancellable, RollingBack
<1>1. CASE FailRead(d)
  <2>1. PICK r : r = [ex[d] EXCEPT !.pc = "failrecord", !.at = state[d]]
    OBVIOUS
  <2>2. /\ r.pc = "failrecord" /\ r.at = state[d] /\ r.fence = ex[d].fence
        /\ r.prev = ex[d].prev /\ (r.lost <=> ex[d].lost) /\ r.step = ex[d].step
        /\ r.cause = ex[d].cause
    BY <2>1 DEF Execs
  <2>3. QED
    BY <1>1, <2>1, <2>2, LocalKeepsHistory DEF FailRead
<1>2. ASSUME NEW goal, NEW plan, ex[d].pc = "failplan",
             goal \notin {"ROLLED_BACK", "SUCCEEDED"},
             goal = "ROLLING_BACK" => MayPlan(d), Decide(d, goal, plan)
      PROVE  HistoryInv'
  <2>1. PICK r : r = [ex[d] EXCEPT !.pc = "settle", !.cause = "plain", !.goal = goal, !.plan = plan]
    OBVIOUS
  <2>2. /\ r.pc = "settle" /\ r.at = ex[d].at /\ r.fence = ex[d].fence
        /\ (r.lost <=> ex[d].lost) /\ r.step = ex[d].step /\ r.goal = goal
    BY <2>1 DEF Execs
  <2>3. goal = "ROLLING_BACK" =>
          /\ Automatic /\ ~IsRollback[d]
          /\ "inconclusive" \in did[d] => ~Fenced(d, ex[d].fence)
    BY <1>2 DEF MayPlan
  <2>4. Undoes(d, r, state[d], did[d])
    BY <1>2, <2>2, <2>3
  <2>5. Placed(r, state[d], did[d]) /\ KeepsPrevious(r, Kept(d)) /\ Advances(r, did[d])
    BY <1>2, <2>2
  <2>6. Local(d, r)
    BY <1>2, <2>1 DEF Decide
  <2>7. QED
    BY <2>4, <2>5, <2>6, LocalKeepsHistory
<1>3. CASE FailWithoutRollback(d)
  BY <1>2, <1>3 DEF FailWithoutRollback
<1>4. CASE FailPlansRollback(d)
  BY <1>2, <1>4 DEF FailPlansRollback
<1>5. CASE FailRefusesRollback(d)
  BY <1>2, <1>5 DEF FailRefusesRollback
<1>6. ASSUME NEW goal \in {"ROLLED_BACK", "ROLLBACK_FAILED"}, Local(d, Conclude(d, goal)),
             ex[d].pc \in {"restore", "unshift"}, goal = "ROLLED_BACK" => ex[d].pc = "unshift"
      PROVE  HistoryInv'
  <2>1. PICK r : r = Conclude(d, goal)
    OBVIOUS
  <2>2. /\ r.pc = "settle" /\ r.at = ex[d].at /\ r.fence = ex[d].fence
        /\ (r.lost <=> ex[d].lost) /\ r.goal = goal /\ r.step = ex[d].step
    BY <2>1, ConcludeFields
  <2>3. RunHistory(d, r, state[d], Kept(d), did[d])
    BY <1>6, <2>2
  <2>4. QED
    BY <1>6, <2>1, <2>3, LocalKeepsHistory
<1>7. CASE RollbackFails(d)
  BY <1>6, <1>7 DEF RollbackFails
<1>8. CASE UnshiftReturns(d)
  BY <1>6, <1>8 DEF UnshiftReturns
<1>9. CASE UnshiftFails(d)
  BY <1>6, <1>9 DEF UnshiftFails
<1>10. QED
  BY <1>1, <1>3, <1>4, <1>5, <1>7, <1>8, <1>9

(* Steps that write the row without moving it, or add to the history.       *)

LEMMA UpdateKeepsHistory ==
  ASSUME IndInv, HistoryInv, NEW d \in Dep, NEW r, Exec(d, r),
         UNCHANGED <<state, lease, overwritten>>,
         NEW p, previous' = [previous EXCEPT ![d] = p],
         NEW D, did' = [did EXCEPT ![d] = D],
         RunHistory(d, r, state[d], p # NoVersion \/ d \in overwritten, D)
  PROVE  HistoryInv'
<1>1. /\ previous'[d] = p /\ did'[d] = D /\ state'[d] = state[d]
      /\ \A c \in Dep \ {d} : previous'[c] = previous[c] /\ did'[c] = did[c]
  BY DEF IndInv, TypeOK
<1>2. RunHistory(d, r, state[d], Kept(d), did[d])'
  BY <1>1 DEF Kept, RunHistory, RowHistory, Placed, KeepsPrevious, Advances, Undoes, Fenced
<1>3. \A c \in Dep \ {d} : Fenced(c, ex[c].fence)' => Fenced(c, ex[c].fence)
  BY DEF Fenced, Exec, IndInv, TypeOK
<1>4. QED
  BY <1>1, <1>2, <1>3, HistoryKept

\* ... in particular those that leave the row alone.
LEMMA AddKeepsHistory ==
  ASSUME IndInv, HistoryInv, NEW d \in Dep, NEW r, Exec(d, r),
         UNCHANGED <<state, lease, overwritten>>,
         previous' = [previous EXCEPT ![d] = previous[d]],
         NEW D, did' = [did EXCEPT ![d] = D], RunHistory(d, r, state[d], Kept(d), D)
  PROVE  HistoryInv'
<1>1. RunHistory(d, r, state[d], previous[d] # NoVersion \/ d \in overwritten, D)
  BY DEF Kept
<1>2. QED
  BY <1>1, UpdateKeepsHistory

LEMMA Untouched ==
  ASSUME IndInv, NEW d \in Dep
  PROVE  /\ previous = [previous EXCEPT ![d] = previous[d]]
         /\ did = [did EXCEPT ![d] = did[d]]
  BY DEF IndInv, TypeOK

LEMMA RecordKeepsHistory ==
  ASSUME IndInv, HistoryInv, NEW d \in Dep, PreflightRecords(d) \/ FailRecord(d)
  PROVE  HistoryInv'
<1>0. /\ RunHistory(d, ex[d], state[d], Kept(d), did[d]) /\ ex[d] \in Execs
      /\ did = [did EXCEPT ![d] = did[d]] /\ previous = [previous EXCEPT ![d] = previous[d]]
      /\ UNCHANGED overwritten
  BY OneHistory, Untouched DEF PreflightRecords, FailRecord
<1>1. CASE PreflightRecords(d)
  <2>1. UNCHANGED <<state, lease, did>> /\ ex[d].pc = "record"
    BY <1>1 DEF PreflightRecords
  <2>2. CASE RowIsAt(d)
    <3>1. PICK r : r = Proceed(d)
      OBVIOUS
    <3>2. /\ r.pc = "enter" /\ r.at = ex[d].at /\ r.fence = ex[d].fence /\ r.prev = ex[d].prev
          /\ (r.lost <=> ex[d].lost) /\ r.step = ex[d].step
      BY <3>1, ProceedFields
    <3>3. ex[d].prev # NoVersion /\ ex[d].at = "PREFLIGHT"
      BY <1>0, <2>1 DEF RunHistory, KeepsPrevious, Placed
    <3>4. RowHistory(d, state[d], TRUE, did[d])
      BY <1>0, <3>3 DEF RunHistory, RowHistory
    <3>5. Placed(r, state[d], did[d]) /\ KeepsPrevious(r, TRUE)
      BY <1>0, <2>1, <3>2, <3>3 DEF RunHistory, Placed, KeepsPrevious, Prepared, Writes
    <3>6. Advances(r, did[d])
      BY <1>0, <2>1, <3>2, <3>3 DEF RunHistory, Advances, Deployed, Baked, Cancellable
    <3>7. Undoes(d, r, state[d], did[d])
      BY <1>0, <2>1, <3>2 DEF RunHistory, Advances, Undoes, RollingBack, Cancellable, Bad
    <3>8. RunHistory(d, r, state[d], ex[d].prev # NoVersion \/ d \in overwritten, did[d])
      BY <3>3, <3>4, <3>5, <3>6, <3>7 DEF RunHistory, RowHistory, KeepsPrevious
    <3>9. Exec(d, r) /\ previous' = [previous EXCEPT ![d] = ex[d].prev]
      BY <1>1, <2>2, <3>1 DEF PreflightRecords, UpdateRow
    <3>10. QED
      BY <1>0, <2>1, <3>8, <3>9, UpdateKeepsHistory
  <2>3. CASE ~RowIsAt(d)
    <3>1. Exec(d, Failing(d, "plain")) /\ UNCHANGED previous
      BY <1>1, <2>3 DEF PreflightRecords
    <3>2. RunHistory(d, Failing(d, "plain"), state[d], Kept(d), did[d])
      BY <2>1, FailingAsIs DEF Cancellable
    <3>3. QED
      BY <1>0, <2>1, <3>1, <3>2, AddKeepsHistory
  <2>4. QED
    BY <2>2, <2>3
<1>2. CASE FailRecord(d)
  <2>1. UNCHANGED <<state, lease, did>> /\ ex[d].pc = "failrecord"
    BY <1>2 DEF FailRecord
  <2>2. PICK r : r = [ex[d] EXCEPT !.pc = "failplan", !.prev = NoVersion]
    OBVIOUS
  <2>3. /\ r.pc = "failplan" /\ r.at = ex[d].at /\ r.fence = ex[d].fence
        /\ r.cause = ex[d].cause /\ (r.lost <=> ex[d].lost) /\ r.step = ex[d].step
    BY <2>2 DEF Execs
  <2>4. PICK p : /\ previous' = [previous EXCEPT ![d] = p]
                 /\ p = previous[d] \/ p = ex[d].prev
    BY <1>0, <1>2 DEF FailRecord, UpdateRow
  <2> DEFINE k == p # NoVersion \/ d \in overwritten
  <2>5. Kept(d) => k
    BY <1>0, <2>1, <2>4 DEF Kept, RunHistory, KeepsPrevious, Writes
  <2>6. RowHistory(d, state[d], k, did[d])
    BY <1>0, <2>5 DEF RunHistory, RowHistory
  <2>7. Placed(r, state[d], did[d]) /\ KeepsPrevious(r, k) /\ Advances(r, did[d])
    BY <1>0, <2>1, <2>3 DEF RunHistory, Placed, KeepsPrevious, Prepared, Writes, Advances, Deployed,
       Baked, Cancellable
  <2>8. Undoes(d, r, state[d], did[d])
    BY <1>0, <2>1, <2>3 DEF RunHistory, Undoes, RollingBack, Cancellable
  <2>9. Exec(d, r)
    BY <1>2, <2>2 DEF FailRecord
  <2>10. RunHistory(d, r, state[d], k, did[d])
    BY <2>6, <2>7, <2>8 DEF RunHistory
  <2>11. QED
    BY <1>0, <2>1, <2>4, <2>9, <2>10, UpdateKeepsHistory
<1>3. QED
  BY <1>1, <1>2

LEMMA DidAdds ==
  ASSUME IndInv, NEW d \in Dep, NEW what, Did(d, what)
  PROVE  did' = [did EXCEPT ![d] = did[d] \cup {what}]
  BY DEF Did, IndInv, TypeOK

\* Provider calls of the deploy step.
LEMMA DeployKeepsHistory ==
  ASSUME IndInv, HistoryInv, NEW d \in Dep,
         CallDeploy(d) \/ DeployLands(d) \/ DeployReturns(d)
  PROVE  HistoryInv'
<1>0. /\ RunHistory(d, ex[d], state[d], Kept(d), did[d]) /\ ex[d] \in Execs
      /\ did = [did EXCEPT ![d] = did[d]] /\ previous = [previous EXCEPT ![d] = previous[d]]
      /\ UNCHANGED <<state, lease, overwritten>>
  BY OneHistory, Untouched DEF CallDeploy, DeployLands, DeployReturns, rows
<1>1. ASSUME NEW r, Exec(d, r), NEW p, previous' = [previous EXCEPT ![d] = p],
             p = previous[d] \/ p = ex[d].prev,
             NEW what \in {"deploy", "deployed"}, did' = [did EXCEPT ![d] = did[d] \cup {what}],
             ex[d].pc \in Cancellable, ex[d].at = "DEPLOYING",
             r.pc \in {"deploy", "shift", "enter"}, r.at = ex[d].at, r.fence = ex[d].fence,
             r.prev = ex[d].prev, r.lost <=> ex[d].lost, r.step = ex[d].step,
             r.pc \in {"shift", "enter"} => what = "deployed"
      PROVE  HistoryInv'
  <2> DEFINE D == did[d] \cup {what}
  <2> DEFINE k == p # NoVersion \/ d \in overwritten
  <2>1. /\ Kept(d) /\ ex[d].prev # NoVersion
        /\ state[d] \notin Early /\ state[d] # "SUCCEEDED"
    BY <1>0, <1>1 DEF RunHistory, KeepsPrevious, Prepared, Writes, Placed, Early, Cancellable
  <2>0. k
    BY <1>1, <2>1 DEF Kept
  <2>2. D \cap Bad = {}
    BY <1>0, <1>1 DEF RunHistory, Advances, Bad
  <2>3. RowHistory(d, state[d], k, D)
    BY <1>0, <1>1, <2>0, <2>1, <2>2 DEF RunHistory, RowHistory, Early, Bad
  <2>4. Placed(r, state[d], D) /\ KeepsPrevious(r, k)
    BY <1>0, <1>1, <2>0, <2>1 DEF Placed, KeepsPrevious
  <2>5. Advances(r, D)
    BY <1>0, <1>1, <2>2 DEF RunHistory, Advances, Deployed, Baked, Cancellable
  <2>6. Undoes(d, r, state[d], D)
    BY <1>0, <1>1, <2>2 DEF RunHistory, Undoes, RollingBack, Cancellable, Bad
  <2>7. RunHistory(d, r, state[d], k, D)
    BY <2>3, <2>4, <2>5, <2>6 DEF RunHistory
  <2> HIDE DEF D
  <2>8. QED
    BY <1>0, <1>1, <2>7, UpdateKeepsHistory DEF D
<1>2. CASE CallDeploy(d)
  <2>1. ex[d].pc = "work" /\ ex[d].at = "DEPLOYING" /\ UNCHANGED previous
    BY <1>2 DEF CallDeploy, At, rows
  <2>2. CASE ex[d].lost
    <3>1. Exec(d, Failing(d, "plain")) /\ UNCHANGED did
      BY <1>2, <2>2 DEF CallDeploy
    <3>2. RunHistory(d, Failing(d, "plain"), state[d], Kept(d), did[d])
      BY <2>1, FailingAsIs DEF Cancellable
    <3>3. QED
      BY <1>0, <2>1, <3>1, <3>2, AddKeepsHistory
  <2>3. CASE ~ex[d].lost
    <3>1. PICK r : r = [ex[d] EXCEPT !.pc = "deploy"]
      OBVIOUS
    <3>2. /\ r.pc = "deploy" /\ r.at = ex[d].at /\ r.fence = ex[d].fence
          /\ r.prev = ex[d].prev /\ (r.lost <=> ex[d].lost) /\ r.step = ex[d].step
      BY <1>0, <3>1 DEF Execs
    <3>3. Exec(d, r) /\ Did(d, "deploy")
      BY <1>2, <2>3, <3>1 DEF CallDeploy
    <3>4. QED
      BY <1>0, <1>1, <2>1, <3>2, <3>3, DidAdds DEF Cancellable
  <2>4. QED
    BY <2>2, <2>3
<1>3. CASE DeployLands(d)
  <2>1. PICK r : r = [ex[d] EXCEPT !.landed = TRUE]
    OBVIOUS
  <2>2. /\ r.pc = ex[d].pc /\ r.at = ex[d].at /\ r.fence = ex[d].fence /\ r.prev = ex[d].prev
        /\ (r.lost <=> ex[d].lost) /\ r.step = ex[d].step
    BY <1>0, <2>1 DEF Execs
  <2>3. Exec(d, r) /\ UNCHANGED <<previous, did>> /\ r.pc = "deploy"
    BY <1>3, <2>1, <2>2 DEF DeployLands, rows
  <2>4. Placed(r, state[d], did[d]) /\ KeepsPrevious(r, Kept(d))
    BY <1>0, <2>2 DEF RunHistory, Placed, KeepsPrevious, Prepared, Writes
  <2>5. Advances(r, did[d]) /\ Undoes(d, r, state[d], did[d])
    BY <1>0, <2>2, <2>3 DEF RunHistory, Advances, Undoes, Deployed, Baked, RollingBack
  <2>6. QED
    BY <1>0, <2>3, <2>4, <2>5, AddKeepsHistory DEF RunHistory
<1>4. CASE DeployReturns(d)
  <2>1. ex[d].pc = "deploy" /\ ex[d].at = "DEPLOYING" /\ Did(d, "deployed")
    BY <1>0, <1>4 DEF DeployReturns, RunHistory, Placed
  <2>2. CASE RowIsAt(d)
    <3>1. PICK r, pc : /\ pc \in {"shift", "enter"}
                       /\ r = [ex[d] EXCEPT !.pc = pc, !.landed = FALSE] /\ Exec(d, r)
      BY <1>4, <2>2 DEF DeployReturns
    <3>2. /\ r.pc \in {"shift", "enter"} /\ r.at = ex[d].at /\ r.fence = ex[d].fence
          /\ r.prev = ex[d].prev /\ (r.lost <=> ex[d].lost) /\ r.step = ex[d].step
      BY <1>0, <3>1 DEF Execs
    <3>3. previous' = [previous EXCEPT ![d] = ex[d].prev]
      BY <1>4, <2>2 DEF DeployReturns, UpdateRow
    <3>4. QED
      BY <1>0, <1>1, <2>1, <3>1, <3>2, <3>3, DidAdds DEF Cancellable
  <2>3. CASE ~RowIsAt(d)
    <3>1. Exec(d, Failing(d, "plain")) /\ UNCHANGED previous
      BY <1>4, <2>3 DEF DeployReturns
    <3>2. "inconclusive" \notin did[d]
      BY <1>0, <2>1 DEF RunHistory, Advances, Cancellable, Bad
    <3>3. RunHistory(d, Failing(d, "plain"), state[d], Kept(d), did[d] \cup {"deployed"})
      BY <2>1, <3>2, FailingHistory DEF Cancellable
    <3>4. QED
      BY <1>0, <2>1, <3>1, <3>3, DidAdds, AddKeepsHistory
  <2>4. QED
    BY <2>2, <2>3
<1>5. QED
  BY <1>2, <1>3, <1>4

\* The verdict of a bake.
LEMMA BakeKeepsHistory ==
  ASSUME IndInv, HistoryInv, NEW d \in Dep,
         Healthy(d) \/ Unhealthy(d) \/ Inconclusive(d)
  PROVE  HistoryInv'
<1>0. /\ RunHistory(d, ex[d], state[d], Kept(d), did[d]) /\ ex[d] \in Execs
      /\ previous' = [previous EXCEPT ![d] = previous[d]]
      /\ UNCHANGED <<state, lease, overwritten>>
      /\ ex[d].pc = "work" /\ ex[d].at = "VERIFYING"
  BY OneHistory, Untouched DEF Healthy, Unhealthy, Inconclusive, Baking, At, rows
<1>1. state[d] # "NONE" /\ state[d] # "SUCCEEDED" /\ did[d] \cap Bad = {}
  BY <1>0, Working DEF RunHistory, Placed, Advances, Cancellable
<1>2. CASE Healthy(d)
  <2> DEFINE D == did[d] \cup {"healthy"}
  <2>1. PICK r : /\ r = IF Strategy = "canary" THEN [ex[d] EXCEPT !.step = @ + 1] ELSE Proceed(d)
                 /\ Exec(d, r)
    BY <1>2 DEF Healthy
  <2>2. /\ r.pc \in {"work", "enter"} /\ r.at = ex[d].at /\ r.fence = ex[d].fence
        /\ r.prev = ex[d].prev /\ (r.lost <=> ex[d].lost)
        /\ r.step \in {ex[d].step, ex[d].step + 1}
    BY <1>0, <2>1, ProceedFields DEF Execs
  <2>3. did' = [did EXCEPT ![d] = D]
    BY <1>2, DidAdds DEF Healthy
  <2>4. D \cap Bad = {}
    BY <1>1 DEF Bad
  <2>5. RowHistory(d, state[d], Kept(d), D)
    BY <1>0, <1>1, <2>4 DEF RunHistory, RowHistory, Bad
  <2>6. Placed(r, state[d], D) /\ KeepsPrevious(r, Kept(d))
    BY <1>0, <1>1, <2>2 DEF RunHistory, Placed, KeepsPrevious, Prepared, Writes, Cancellable
  <2>7. Advances(r, D)
    BY <1>0, <2>2, <2>4 DEF RunHistory, Advances, Deployed, Baked, Cancellable
  <2>8. Undoes(d, r, state[d], D)
    BY <1>0, <2>2, <2>4 DEF RunHistory, Undoes, RollingBack, Cancellable, Bad
  <2>9. RunHistory(d, r, state[d], Kept(d), D)
    BY <2>5, <2>6, <2>7, <2>8 DEF RunHistory
  <2> HIDE DEF D
  <2>10. QED
    BY <1>0, <2>1, <2>3, <2>9, AddKeepsHistory
<1>3. ASSUME NEW what \in {"unhealthy", "inconclusive"}, Did(d, what),
             NEW cause \in {"plain", "inconclusive"}, Exec(d, Failing(d, cause)),
             what = "inconclusive" => cause = "inconclusive"
      PROVE  HistoryInv'
  <2>1. "inconclusive" \in did[d] \cup {what} => cause = "inconclusive"
    BY <1>1, <1>3 DEF Bad
  <2>2. RunHistory(d, Failing(d, cause), state[d], Kept(d), did[d] \cup {what})
    BY <1>0, <1>3, <2>1, FailingHistory DEF Cancellable
  <2>3. QED
    BY <1>0, <1>3, <2>2, DidAdds, AddKeepsHistory
<1>4. CASE Unhealthy(d)
  BY <1>3, <1>4 DEF Unhealthy
<1>5. CASE Inconclusive(d)
  BY <1>3, <1>5 DEF Inconclusive
<1>6. QED
  BY <1>2, <1>4, <1>5

\* Provider calls of the rollback.
LEMMA RollbackKeepsHistory ==
  ASSUME IndInv, HistoryInv, NEW d \in Dep,
         CallRollback(d) \/ RollbackLands(d) \/ RollbackReturns(d)
  PROVE  HistoryInv'
<1>0. /\ RunHistory(d, ex[d], state[d], Kept(d), did[d]) /\ ex[d] \in Execs
      /\ did = [did EXCEPT ![d] = did[d]]
      /\ previous' = [previous EXCEPT ![d] = previous[d]]
      /\ UNCHANGED <<state, lease, overwritten>>
      /\ ex[d].pc \in {"rollback", "restore"} /\ state[d] # "NONE"
  BY OneHistory, Untouched, Working DEF CallRollback, RollbackLands, RollbackReturns, rows
<1>1. /\ Automatic /\ ~IsRollback[d] /\ ~ex[d].lost /\ "inconclusive" \notin did[d]
      /\ state[d] # "SUCCEEDED"
  BY <1>0 DEF RunHistory, Undoes, Placed, RollingBack, Cancellable
<1>2. ASSUME NEW r, Exec(d, r), NEW D, did' = [did EXCEPT ![d] = D],
             did[d] \subseteq D, D \subseteq did[d] \cup {"rollback", "restored"},
             "rollback" \in D => state[d] \in Undone /\ r.pc # "rollback",
             r.pc \in {"restore", "unshift", "settle"},
             r.pc = "settle" => r.goal = "ROLLED_BACK",
             r.pc \in {"unshift", "settle"} => "restored" \in D,
             r.at = ex[d].at, r.lost <=> ex[d].lost, r.step = ex[d].step
      PROVE  HistoryInv'
  <2>1. RowHistory(d, state[d], Kept(d), D)
    BY <1>0, <1>1, <1>2 DEF RunHistory, RowHistory
  <2>2. Placed(r, state[d], D) /\ KeepsPrevious(r, Kept(d))
    BY <1>0, <1>1, <1>2 DEF RunHistory, Placed, KeepsPrevious, Prepared, Writes, Cancellable
  <2>3. Advances(r, D)
    BY <1>0, <1>2 DEF RunHistory, Advances, Deployed, Baked, Cancellable
  <2>4. Undoes(d, r, state[d], D)
    BY <1>1, <1>2 DEF Undoes, RollingBack
  <2>5. QED
    BY <1>0, <1>2, <2>1, <2>2, <2>3, <2>4, AddKeepsHistory DEF RunHistory
<1>3. CASE CallRollback(d)
  <2>1. PICK r : r = [ex[d] EXCEPT !.pc = "restore"]
    OBVIOUS
  <2>2. /\ r.pc = "restore" /\ r.at = ex[d].at /\ (r.lost <=> ex[d].lost) /\ r.step = ex[d].step
    BY <1>0, <2>1 DEF Execs
  <2>3. state[d] \in Undone /\ Exec(d, r) /\ did' = [did EXCEPT ![d] = did[d] \cup {"rollback"}]
    BY <1>0, <1>3, <2>1, DidAdds DEF CallRollback, RunHistory, Undoes
  <2>4. QED
    BY <1>2, <2>2, <2>3
<1>4. CASE RollbackLands(d)
  <2>1. PICK r : r = [ex[d] EXCEPT !.landed = TRUE]
    OBVIOUS
  <2>2. /\ r.pc = "restore" /\ r.at = ex[d].at /\ (r.lost <=> ex[d].lost) /\ r.step = ex[d].step
    BY <1>0, <1>4, <2>1 DEF Execs, RollbackLands
  <2>3. Exec(d, r) /\ did' = [did EXCEPT ![d] = did[d]]
    BY <1>0, <1>4, <2>1 DEF RollbackLands
  <2>4. "rollback" \in did[d] => state[d] \in Undone
    BY <1>0 DEF RunHistory, RowHistory
  <2>5. QED
    BY <1>2, <2>2, <2>3, <2>4
<1>5. CASE RollbackReturns(d)
  <2> DEFINE D == did[d] \cup {"restored"}
  <2>1. PICK r : /\ \/ r = Conclude(d, "ROLLED_BACK")
                    \/ r = [ex[d] EXCEPT !.pc = "unshift", !.landed = FALSE]
                 /\ Exec(d, r)
    BY <1>5 DEF RollbackReturns
  <2>2. /\ r.pc \in {"unshift", "settle"} /\ (r.pc = "settle" => r.goal = "ROLLED_BACK")
        /\ r.at = ex[d].at /\ (r.lost <=> ex[d].lost) /\ r.step = ex[d].step
    <3>1. CASE r = Conclude(d, "ROLLED_BACK")
      BY <3>1, ConcludeFields
    <3>2. CASE r = [ex[d] EXCEPT !.pc = "unshift", !.landed = FALSE]
      BY <1>0, <3>2 DEF Execs
    <3>3. QED
      BY <2>1, <3>1, <3>2
  <2>3. did' = [did EXCEPT ![d] = D]
    BY <1>5, DidAdds DEF RollbackReturns
  <2>4. "rollback" \in D => state[d] \in Undone
    BY <1>0 DEF RunHistory, RowHistory
  <2>5. did[d] \subseteq D /\ D \subseteq did[d] \cup {"rollback", "restored"} /\ "restored" \in D
    OBVIOUS
  <2> HIDE DEF D
  <2>6. QED
    BY <1>2, <2>1, <2>2, <2>3, <2>4, <2>5
<1>6. QED
  BY <1>3, <1>4, <1>5

(* Steps that move the row or the lease.                                    *)

\* Where a move can lead.
LEMMA MovesForward ==
  ASSUME NEW from \in State, NEW to, CanTransition(from, to)
  PROVE  /\ from \notin Early => to \notin Early
         /\ from \in Undone => to \in Undone
         /\ from = "PENDING" => to \in {"PREFLIGHT", "ABORTED", "FAILED"}
         /\ to = "SUCCEEDED" => from = "PROMOTING"
         /\ to # "NONE"
  BY DEF CanTransition, AllowedTransitions, State, WorkStates, TerminalStates, Early, Undone

\* A fence that is not the owner's any more never is again.
LEMMA NeverRegained ==
  ASSUME IndInv, NEW e \in Dep,
         lease' \in {lease, Acquired(e), Released(e), Cleared, [lease EXCEPT !.live = FALSE]}
  PROVE  \A c \in Dep, f \in Nat : f <= lease.fence /\ Fenced(c, f)' => Fenced(c, f)
<1>1. lease \in LeaseRows
  BY Working
<1>2. CASE lease' = lease
  BY <1>2 DEF Fenced
<1>3. CASE lease' = Acquired(e)
  <2>1. CASE Held
    BY <1>3, <2>1 DEF Fenced, Acquired
  <2>2. CASE ~Held
    <3>1. lease'.fence = lease.fence + 1 /\ lease.fence \in Nat
      BY <1>1, <1>3, <2>2 DEF Acquired, LeaseRows
    <3>2. QED
      BY <3>1 DEF Fenced
  <2>3. QED
    BY <2>1, <2>2
<1>4. CASE lease' \in {Cleared, [lease EXCEPT !.live = FALSE]}
  <2>1. ~lease'.live
    BY <1>1, <1>4 DEF Cleared, LeaseRows
  <2>2. QED
    BY <2>1 DEF Fenced
<1>5. QED
  BY <1>2, <1>3, <1>4 DEF Released

LEMMA MoveKeepsHistory ==
  ASSUME IndInv, HistoryInv, NEW d \in Dep, NEW r, Exec(d, r), UNCHANGED <<previous, overwritten, lease, did>>,
         NEW to, state' = [state EXCEPT ![d] = to], RunHistory(d, r, to, Kept(d), did[d])
  PROVE  HistoryInv'
<1>1. /\ state'[d] = to
      /\ \A c \in Dep \ {d} : state'[c] = state[c]
  BY DEF IndInv, TypeOK
<1>2. RunHistory(d, r, state[d], Kept(d), did[d])'
  BY <1>1 DEF Kept, RunHistory, RowHistory, Placed, KeepsPrevious, Advances, Undoes,
                Fenced
<1>3. \A c \in Dep \ {d} : Fenced(c, ex[c].fence)' => Fenced(c, ex[c].fence)
  BY DEF Fenced, Exec, IndInv, TypeOK
<1>4. QED
  BY <1>1, <1>2, <1>3, HistoryKept

\* A run begins.
LEMMA BeginKeepsHistory ==
  ASSUME IndInv, HistoryInv, NoticeInv, NEW d \in Dep, Create(d) \/ RunRead(d)
  PROVE  HistoryInv'
<1>0. /\ RunHistory(d, ex[d], state[d], Kept(d), did[d]) /\ ex[d] \in Execs
      /\ ex[d].pc # "none" => state[d] # "NONE"
  BY OneHistory, Working
<1>1. CASE Create(d)
  <2>1. PICK r : r = [ex[d] EXCEPT !.pc = "read"]
    OBVIOUS
  <2>2. r.pc = "read" /\ r.at = ex[d].at /\ (r.lost <=> ex[d].lost) /\ r.step = ex[d].step
    BY <1>0, <2>1 DEF Execs
  <2>3. ex[d].pc = "none" /\ ex[d].at \in Early /\ did[d] = {}
    BY <1>0, <1>1 DEF Create, RunHistory, Placed, RowHistory, Early
  <2>4. RowHistory(d, "PENDING", Kept(d), did[d]) /\ Placed(r, "PENDING", did[d])
    BY <2>2, <2>3 DEF RowHistory, Placed
  <2>5. KeepsPrevious(r, Kept(d)) /\ Advances(r, did[d])
    BY <1>0, <2>2, <2>3 DEF RunHistory, KeepsPrevious, Prepared, Writes, Advances, Deployed, Baked,
       Cancellable
  <2>6. Undoes(d, r, "PENDING", did[d])
    BY <1>0, <2>2, <2>3 DEF RunHistory, Undoes, RollingBack, Cancellable
  <2>7. Exec(d, r) /\ state' = [state EXCEPT ![d] = "PENDING"] /\ UNCHANGED <<previous, overwritten, lease, did>>
    BY <1>1, <2>1 DEF Create
  <2>8. QED
    BY <2>4, <2>5, <2>6, <2>7, MoveKeepsHistory DEF RunHistory
<1>2. CASE RunRead(d)
  <2>1. did[d] = {} /\ state[d] \in {"PENDING"} \cup TerminalStates /\ ex[d].step = 1 /\ ~ex[d].lost
    BY <1>0, <1>2 DEF RunRead, RunHistory, Placed, Advances, Undoes, Cancellable
  <2>2. CASE IsTerminal(state[d])
    <3>1. PICK r : r = [NoExec EXCEPT !.pc = "done"]
      OBVIOUS
    <3>2. r.pc = "done" /\ r.at = "PENDING" /\ ~r.lost /\ r.step = 1
      BY <3>1 DEF NoExec
    <3>3. RunHistory(d, r, state[d], Kept(d), did[d])
      BY <1>0, <3>2, EndedHistory DEF RunHistory
    <3>4. QED
      BY <1>2, <2>2, <3>1, <3>3, LocalKeepsHistory DEF RunRead
  <2>3. CASE ~IsTerminal(state[d])
    <3>1. PICK r : r = [ex[d] EXCEPT !.pc = "acquire", !.at = state[d], !.prev = previous[d]]
      OBVIOUS
    <3>2. /\ r.pc = "acquire" /\ r.at = "PENDING" /\ ~r.lost /\ r.step = 1 /\ r.prev = previous[d]
      BY <1>0, <2>1, <2>3, <3>1 DEF Execs, IsTerminal
    <3>3. Placed(r, state[d], did[d]) /\ KeepsPrevious(r, Kept(d)) /\ Advances(r, did[d])
      BY <2>1, <2>3, <3>2 DEF Placed, KeepsPrevious, Prepared, Writes, Advances, Deployed, Baked,
         Cancellable, Early, IsTerminal, TerminalStates, Kept, NoticeInv
    <3>4. Undoes(d, r, state[d], did[d])
      BY <2>1, <3>2 DEF Undoes, RollingBack
    <3>5. QED
      BY <1>0, <1>2, <2>3, <3>1, <3>3, <3>4, LocalKeepsHistory DEF RunRead, RunHistory
  <2>4. QED
    BY <2>2, <2>3
<1>3. QED
  BY <1>1, <1>2

LEMMA RunAcquireKeepsHistory ==
  ASSUME IndInv, HistoryInv, NEW d \in Dep, RunAcquire(d)
  PROVE  HistoryInv'
<1>0. /\ RunHistory(d, ex[d], state[d], Kept(d), did[d]) /\ ex[d] \in Execs
      /\ ex[d].pc = "acquire" /\ UNCHANGED <<state, previous, overwritten, did>>
  BY OneHistory DEF RunAcquire, rows
<1>1. did[d] = {} /\ ex[d].at = "PENDING" /\ ex[d].step = 1 /\ ~ex[d].lost
  BY <1>0 DEF RunHistory, Placed, Advances, Undoes, Cancellable
<1>2. CASE CanAcquire(d)
  <2>1. PICK r : r = [ex[d] EXCEPT !.pc = "enter", !.fence = Acquired(d).fence]
    OBVIOUS
  <2>2. r.pc = "enter" /\ r.at = "PENDING" /\ ~r.lost /\ r.step = 1 /\ r.prev = ex[d].prev
    BY <1>0, <1>1, <2>1 DEF Execs
  <2>3. Placed(r, state[d], did[d]) /\ KeepsPrevious(r, Kept(d)) /\ Advances(r, did[d])
    BY <1>0, <1>1, <2>2 DEF RunHistory, Placed, KeepsPrevious, Prepared, Writes, Advances, Deployed,
       Baked, Early
  <2>4. Undoes(d, r, state[d], did[d])'
    BY <1>0, <1>1, <2>2 DEF Undoes, RollingBack
  <2>5. RunHistory(d, r, state[d], Kept(d), did[d])'
    BY <1>0, <2>3, <2>4 DEF Kept, RunHistory, RowHistory, Placed, KeepsPrevious, Advances
  <2>6. Exec(d, r) /\ lease' = Acquired(d)
    BY <1>2, <2>1 DEF RunAcquire
  <2>7. \A c \in Dep \ {d} : Fenced(c, ex[c].fence)' => Fenced(c, ex[c].fence)
    <3>1. \A c \in Dep, f \in Nat : f <= lease.fence /\ Fenced(c, f)' => Fenced(c, f)
      BY <2>6, NeverRegained
    <3>2. \A c \in Dep \ {d} : ex'[c] = ex[c] /\ ex[c].fence \in Nat /\ ex[c].fence <= lease.fence
      BY <2>6, Working DEF Exec, Execs, IndInv, TypeOK
    <3>3. QED
      BY <3>1, <3>2 DEF Fenced
  <2>8. QED
    BY <1>0, <2>5, <2>6, <2>7, HistoryKept
<1>3. CASE ~CanAcquire(d)
  <2>1. PICK r : r = [NoExec EXCEPT !.pc = "done"]
    OBVIOUS
  <2>2. r.pc = "done" /\ r.at = "PENDING" /\ ~r.lost /\ r.step = 1
    BY <2>1 DEF NoExec
  <2>3. RunHistory(d, r, state[d], Kept(d), did[d])
    BY <1>0, <2>2, EndedHistory DEF RunHistory
  <2>4. QED
    BY <1>3, <2>1, <2>3, LocalKeepsHistory DEF RunAcquire, Local
<1>4. QED
  BY <1>2, <1>3

LEMMA RunReleaseKeepsHistory ==
  ASSUME IndInv, HistoryInv, NEW d \in Dep, RunRelease(d)
  PROVE  HistoryInv'
<1>0. /\ RunHistory(d, ex[d], state[d], Kept(d), did[d])
      /\ UNCHANGED <<state, previous, overwritten, did>> /\ lease' = Released(d)
  BY OneHistory DEF RunRelease, rows
<1>1. PICK r : r = [NoExec EXCEPT !.pc = "done"]
  OBVIOUS
<1>2. r.pc = "done" /\ r.at = "PENDING" /\ ~r.lost /\ r.step = 1
  BY <1>1 DEF NoExec
<1>3. Exec(d, r)
  BY <1>1 DEF RunRelease
<1>4. RowHistory(d, state[d], Kept(d), did[d])'
  BY <1>0 DEF Kept, RunHistory, RowHistory
<1>5. RunHistory(d, r, state[d], Kept(d), did[d])'
  BY <1>2, <1>4 DEF RunHistory, Placed, KeepsPrevious, Prepared, Writes, Advances, Deployed, Baked,
     Undoes, RollingBack, Cancellable, Early
<1>6. \A c \in Dep \ {d} : Fenced(c, ex[c].fence)' => Fenced(c, ex[c].fence)
  <2>1. \A c \in Dep, f \in Nat : f <= lease.fence /\ Fenced(c, f)' => Fenced(c, f)
    BY <1>0, NeverRegained
  <2>2. \A c \in Dep \ {d} : ex'[c] = ex[c] /\ ex[c].fence \in Nat /\ ex[c].fence <= lease.fence
    BY <1>3, Working DEF Exec, Execs, IndInv, TypeOK
  <2>3. QED
    BY <2>1, <2>2 DEF Fenced
<1>7. QED
  BY <1>0, <1>3, <1>5, <1>6, HistoryKept

\* The order of Run's steps.
LEMMA StepsInOrder ==
  ASSUME NEW s \in {"PENDING", "PREFLIGHT", "AWAIT_APPROVAL", "DEPLOYING", "VERIFYING", "PROMOTING"}
  PROVE  LET to == StepAfter(s) IN
         /\ to \in {"PREFLIGHT", "AWAIT_APPROVAL", "DEPLOYING", "VERIFYING", "PROMOTING", "SUCCEEDED"}
         /\ to = "PREFLIGHT" => s = "PENDING"
         /\ to \in {"AWAIT_APPROVAL", "DEPLOYING"} => s \in {"PREFLIGHT", "AWAIT_APPROVAL"}
         /\ to = "VERIFYING" => s = "DEPLOYING"
         /\ to = "PROMOTING" => s = "VERIFYING"
         /\ to = "SUCCEEDED" => s = "PROMOTING"
  BY DEF StepAfter

LEMMA EnterKeepsHistory ==
  ASSUME IndInv, HistoryInv, NEW d \in Dep, Enter(d)
  PROVE  HistoryInv'
<1>0. /\ RunHistory(d, ex[d], state[d], Kept(d), did[d]) /\ ex[d] \in Execs
      /\ ex[d].pc = "enter" /\ UNCHANGED <<lease, overwritten, did>>
      /\ did = [did EXCEPT ![d] = did[d]] /\ previous = [previous EXCEPT ![d] = previous[d]]
  BY OneHistory, Untouched DEF Enter
<1> DEFINE to == StepAfter(ex[d].at)
<1>1. /\ ex[d].at \in {"PENDING", "PREFLIGHT", "AWAIT_APPROVAL", "DEPLOYING", "VERIFYING", "PROMOTING"}
      /\ did[d] \cap Bad = {}
  BY <1>0 DEF RunHistory, Placed, Advances, Cancellable
<1>2. /\ to \in {"PREFLIGHT", "AWAIT_APPROVAL", "DEPLOYING", "VERIFYING", "PROMOTING", "SUCCEEDED"}
      /\ to = "PREFLIGHT" => ex[d].at = "PENDING"
      /\ to \in {"AWAIT_APPROVAL", "DEPLOYING"} => ex[d].at \in {"PREFLIGHT", "AWAIT_APPROVAL"}
      /\ to = "VERIFYING" => ex[d].at = "DEPLOYING"
      /\ to = "PROMOTING" => ex[d].at = "VERIFYING"
      /\ to = "SUCCEEDED" => ex[d].at = "PROMOTING"
  BY <1>1, StepsInOrder
<1>3. \/ /\ MayMove(d, ex[d].fence, ex[d].at, to) /\ Move(d, ex[d].fence, to) /\ Entered(d, to)
      \/ NotEntered(d, to) /\ UNCHANGED rows
  BY DEF Enter
<1> HIDE DEF to
<1>4. CASE MayMove(d, ex[d].fence, ex[d].at, to) /\ Move(d, ex[d].fence, to) /\ Entered(d, to)
  <2>1. state[d] = ex[d].at /\ state' = [state EXCEPT ![d] = to] /\ UNCHANGED previous
    BY <1>4 DEF MayMove, Move
  <2>2. RowHistory(d, to, Kept(d), did[d])
    <3>1. "deploy" \in did[d] => to \notin Early /\ Kept(d)
      BY <1>0, <1>2, <2>1 DEF RunHistory, RowHistory, Early
    <3>2. to = "SUCCEEDED" => "deployed" \in did[d] /\ (BakeConfigured => "healthy" \in did[d])
      BY <1>0, <1>2 DEF RunHistory, Advances, Deployed, Baked, Cancellable
    <3>3. QED
      BY <1>1, <1>2, <3>1, <3>2 DEF RowHistory, Bad
  <2>3. CASE to = "SUCCEEDED"
    <3>1. PICK r : r = Returning(d)
      OBVIOUS
    <3>2. r.pc = "release" /\ r.at = "PENDING" /\ ~r.lost /\ r.step = 1
      BY <3>1, ReturningFields
    <3>3. Exec(d, r)
      BY <1>4, <2>3, <3>1 DEF Entered
    <3>4. QED
      BY <1>0, <2>1, <2>2, <3>2, <3>3, EndedHistory, MoveKeepsHistory
  <2>4. CASE to # "SUCCEEDED"
    <3>1. PICK r : r = [ex[d] EXCEPT !.pc = "work", !.at = to]
      OBVIOUS
    <3>2. /\ r.pc = "work" /\ r.at = to /\ r.fence = ex[d].fence /\ r.prev = ex[d].prev
          /\ (r.lost <=> ex[d].lost) /\ r.step = ex[d].step
      BY <1>0, <3>1 DEF Execs
    <3>3. Placed(r, to, did[d])
      BY <1>2, <2>4, <3>2 DEF Placed
    <3>4. KeepsPrevious(r, Kept(d))
      BY <1>0, <1>2, <3>2 DEF RunHistory, KeepsPrevious, Prepared, Writes, Cancellable
    <3>5. Advances(r, did[d])
      BY <1>0, <1>1, <1>2, <2>4, <3>2 DEF RunHistory, Advances, Deployed, Baked, Cancellable
    <3>6. Undoes(d, r, to, did[d])
      BY <1>0, <1>1, <3>2 DEF RunHistory, Undoes, RollingBack, Cancellable, Bad
    <3>7. Exec(d, r)
      BY <1>4, <2>4, <3>1 DEF Entered
    <3>8. QED
      BY <1>0, <2>1, <2>2, <3>3, <3>4, <3>5, <3>6, <3>7, MoveKeepsHistory DEF RunHistory
  <2>5. QED
    BY <2>3, <2>4
<1>5. CASE NotEntered(d, to) /\ UNCHANGED rows
  <2>1. UNCHANGED <<state, previous>>
    BY <1>5 DEF rows
  <2>2. CASE to = "SUCCEEDED"
    <3>1. PICK r : r = Returning(d)
      OBVIOUS
    <3>2. r.pc = "release" /\ r.at = "PENDING" /\ ~r.lost /\ r.step = 1
      BY <3>1, ReturningFields
    <3>3. Exec(d, r) /\ RunHistory(d, r, state[d], Kept(d), did[d])
      BY <1>0, <1>5, <2>2, <3>1, <3>2, EndedHistory DEF NotEntered, RunHistory
    <3>4. QED
      BY <1>0, <2>1, <3>3, AddKeepsHistory
  <2>3. CASE to # "SUCCEEDED"
    <3>1. Exec(d, Failing(d, "plain"))
      BY <1>5, <2>3 DEF NotEntered
    <3>2. RunHistory(d, Failing(d, "plain"), state[d], Kept(d), did[d])
      BY <1>0, FailingAsIs DEF Cancellable
    <3>3. QED
      BY <1>0, <2>1, <3>1, <3>2, AddKeepsHistory
  <2>4. QED
    BY <2>2, <2>3
<1>6. QED
  BY <1>3, <1>4, <1>5

LEMMA SettleKeepsHistory ==
  ASSUME IndInv, HistoryInv, NEW d \in Dep, Settle(d)
  PROVE  HistoryInv'
<1> DEFINE to == ex[d].goal
<1>0. /\ RunHistory(d, ex[d], state[d], Kept(d), did[d]) /\ ex[d] \in Execs
      /\ ex[d].pc = "settle" /\ UNCHANGED <<lease, overwritten, did>>
      /\ did = [did EXCEPT ![d] = did[d]] /\ previous = [previous EXCEPT ![d] = previous[d]]
  BY OneHistory, Untouched DEF Settle
<1>1. PICK b : b = Returning(d)
  OBVIOUS
<1>2. b.pc = "release" /\ b.at = "PENDING" /\ ~b.lost /\ b.step = 1
  BY <1>1, ReturningFields
<1>3. CASE MayMove(d, ex[d].fence, ex[d].at, to)
  <2>1. /\ state[d] = ex[d].at /\ CanTransition(ex[d].at, to) /\ Move(d, ex[d].fence, to)
        /\ Guarded(ex[d].at, to) => Fenced(d, ex[d].fence)
    BY <1>3 DEF Settle, MayMove
  <2>2. state' = [state EXCEPT ![d] = to] /\ UNCHANGED previous
    BY <2>1 DEF Move
  <2>3. /\ ex[d].at \notin Early => to \notin Early
        /\ ex[d].at \in Undone => to \in Undone
        /\ to # "NONE"
    BY <1>0, <2>1, MovesForward DEF Execs
  <2>4. RowHistory(d, to, Kept(d), did[d])
    BY <1>0, <2>1, <2>3 DEF RunHistory, RowHistory, Undoes
  <2>5. CASE to = "ROLLING_BACK"
    <3>1. PICK r : r = [ex[d] EXCEPT !.pc = "rollback", !.at = to]
      OBVIOUS
    <3>2. /\ r.pc = "rollback" /\ r.at = to /\ r.fence = ex[d].fence
          /\ (r.lost <=> ex[d].lost) /\ r.step = ex[d].step
      BY <1>0, <3>1 DEF Execs
    <3>3. Fenced(d, ex[d].fence)
      BY <2>1, <2>5 DEF Guarded, RequiresLease, WorkStates
    <3>4. Automatic /\ ~IsRollback[d] /\ "inconclusive" \notin did[d] /\ ~ex[d].lost
      BY <1>0, <2>5, <3>3 DEF RunHistory, Undoes, RollingBack
    <3>5. "rollback" \notin did[d]
      <4>1. ex[d].at \notin Undone
        BY <1>0, <2>1, <2>5 DEF Execs, CanTransition, AllowedTransitions, Undone, State
      <4>2. QED
        BY <1>0, <2>1, <4>1 DEF RunHistory, RowHistory
    <3>6. Placed(r, to, did[d]) /\ KeepsPrevious(r, Kept(d))
      BY <2>5, <3>2 DEF Placed, KeepsPrevious, Prepared, Writes, Cancellable
    <3>7. Advances(r, did[d])
      BY <1>0, <3>2 DEF RunHistory, Advances, Deployed, Baked, Cancellable
    <3>8. Undoes(d, r, to, did[d])
      BY <2>5, <3>2, <3>4, <3>5 DEF Undoes, RollingBack, Undone
    <3>9. Exec(d, r)
      BY <1>3, <2>5, <3>1 DEF Settle
    <3>10. QED
      BY <1>0, <2>2, <2>4, <3>6, <3>7, <3>8, <3>9, MoveKeepsHistory DEF RunHistory
  <2>6. CASE to # "ROLLING_BACK"
    <3>1. Exec(d, b)
      BY <1>1, <1>3, <2>6 DEF Settle
    <3>2. QED
      BY <1>0, <1>2, <2>2, <2>4, <3>1, EndedHistory, MoveKeepsHistory
  <2>7. QED
    BY <2>5, <2>6
<1>4. CASE ~MayMove(d, ex[d].fence, ex[d].at, to)
  <2>1. Exec(d, b) /\ UNCHANGED <<state, previous>>
    BY <1>1, <1>4 DEF Settle, rows
  <2>2. RunHistory(d, b, state[d], Kept(d), did[d])
    BY <1>0, <1>2, EndedHistory DEF RunHistory
  <2>3. QED
    BY <1>0, <2>1, <2>2, AddKeepsHistory
<1>5. QED
  BY <1>3, <1>4

(* Steps of aborting callers, the reconciler, and the world outside: they   *)
(* close rows, or hand a row that was deploying back to verification.       *)

Closing == {"ABORTED", "VERIFYING", "FAILED", "UNKNOWN"}

LEMMA OutsiderKeepsHistory ==
  ASSUME IndInv, HistoryInv, UNCHANGED <<ex, previous, overwritten, did>>,
         \A c \in Dep : \/ state'[c] = state[c]
                        \/ /\ state[c] \in State /\ CanTransition(state[c], state'[c])
                           /\ state'[c] \in Closing,
         \A c \in Dep, f \in Nat : f <= lease.fence /\ Fenced(c, f)' => Fenced(c, f)
  PROVE  HistoryInv'
<1>1. SUFFICES ASSUME NEW d \in Dep
               PROVE  RunHistory(d, ex[d], state[d], Kept(d), did[d])'
  BY DEF HistoryInv
<1>2. /\ RunHistory(d, ex[d], state[d], Kept(d), did[d]) /\ ex[d] \in Execs
      /\ ex[d].fence <= lease.fence
  BY OneHistory, Working
<1>3. Fenced(d, ex[d].fence)' => Fenced(d, ex[d].fence)
  BY <1>2 DEF Execs
<1>4. Undoes(d, ex[d], state[d], did[d])'
  <2>1. state[d] \in Undone => state'[d] \in Undone
    BY MovesForward
  <2>2. QED
    BY <1>2, <1>3, <2>1 DEF RunHistory, Undoes, RollingBack
<1>5. KeepsPrevious(ex[d], Kept(d))' /\ Advances(ex[d], did[d])'
  BY <1>2 DEF Kept, RunHistory, KeepsPrevious, Prepared, Writes, Advances, Deployed, Baked
<1>6. RowHistory(d, state[d], Kept(d), did[d])' /\ Placed(ex[d], state[d], did[d])'
  <2>1. CASE state'[d] = state[d]
    BY <1>2, <2>1 DEF Kept, RunHistory, RowHistory, Placed
  <2>2. CASE /\ state[d] \in State /\ CanTransition(state[d], state'[d])
             /\ state'[d] \in Closing
    <3>1. /\ state[d] \notin Early => state'[d] \notin Early
          /\ state[d] \in Undone => state'[d] \in Undone
          /\ state[d] = "PENDING" => state'[d] \in {"PREFLIGHT", "ABORTED", "FAILED"}
          /\ state[d] \notin TerminalStates
      BY <2>2, MovesForward, MovesAreTyped DEF IsTerminal
    <3>2. state'[d] \notin {"NONE", "SUCCEEDED", "ROLLED_BACK"}
      BY <2>2 DEF Closing
    <3>3. RowHistory(d, state[d], Kept(d), did[d])'
      BY <1>2, <3>1, <3>2 DEF Kept, RunHistory, RowHistory
    <3>4. ex[d].pc = "read" => state'[d] \in {"PENDING"} \cup TerminalStates
      BY <1>2, <2>2, <3>1 DEF RunHistory, Placed, Closing, TerminalStates
    <3>5. QED
      BY <1>2, <3>1, <3>2, <3>3, <3>4 DEF RunHistory, Placed
  <2>3. QED
    BY <2>1, <2>2
<1>7. QED
  BY <1>4, <1>5, <1>6 DEF RunHistory

LEMMA AbortKeepsHistory ==
  ASSUME IndInv, HistoryInv, NEW d \in Dep, AbortRead(d) \/ AbortStep(d)
  PROVE  HistoryInv'
<1>1. UNCHANGED <<ex, previous, overwritten, did>>
  BY DEF AbortRead, AbortStep, AbortInspect, AbortBreak, AbortAcquire, AbortMove, AbortRelease,
         Move, rows
<1>2. \/ state' = state
      \/ /\ MayMove(d, ab[d].fence, ab[d].at, "ABORTED")
         /\ Move(d, ab[d].fence, "ABORTED")
  BY DEF AbortRead, AbortStep, AbortInspect, AbortBreak, AbortAcquire, AbortMove, AbortRelease, rows
<1>3. \A c \in Dep : \/ state'[c] = state[c]
                     \/ /\ state[c] \in State /\ CanTransition(state[c], state'[c])
                        /\ state'[c] \in Closing
  <2>1. ab[d].at \in State /\ state \in [Dep -> State \cup {"NONE"}]
    BY Working DEF Aborters, IndInv, TypeOK
  <2>2. QED
    BY <1>2, <2>1 DEF MayMove, Move, Closing
<1>4. lease' \in {lease, Acquired(d), Released(d), Cleared}
  BY DEF AbortRead, AbortStep, AbortInspect, AbortBreak, AbortAcquire, AbortMove, AbortRelease
<1>5. \A c \in Dep, f \in Nat : f <= lease.fence /\ Fenced(c, f)' => Fenced(c, f)
  BY <1>4, NeverRegained
<1>6. QED
  BY <1>1, <1>3, <1>5, OutsiderKeepsHistory

LEMMA ReconcileKeepsHistory ==
  ASSUME IndInv, HistoryInv, ReconcilerInv, Restart \/ ReconcileStep
  PROVE  HistoryInv'
<1>0. /\ rec \in Reconcilers /\ rec.goal \in {"VERIFYING", "FAILED", "UNKNOWN"}
      /\ rec.pc \in {"acquire", "move", "again", "release"} => rec.dep \in Dep /\ state[rec.dep] # "NONE"
      /\ state \in [Dep -> State \cup {"NONE"}]
  BY DEF IndInv, TypeOK, ExistInv, ReconcilerInv
<1>1. UNCHANGED <<ex, previous, overwritten, did>>
  BY DEF Restart, ReconcileStep, ReconcileSkips, ReconcileDecides, ReconcileAcquires,
         ReconcileGivesUp, ReconcileMoves, ReconcileReleases, Serve, Move, rows
<1>2. \/ state' = state
      \/ /\ rec.dep \in Dep /\ state[rec.dep] # "NONE"
         /\ MayMove(rec.dep, rec.fence, state[rec.dep], rec.goal)
         /\ Move(rec.dep, rec.fence, rec.goal)
  BY <1>0 DEF Restart, ReconcileStep, ReconcileSkips, ReconcileDecides, ReconcileAcquires,
              ReconcileGivesUp, ReconcileMoves, ReconcileReleases, Serve, rows
<1>3. \A c \in Dep : \/ state'[c] = state[c]
                     \/ /\ state[c] \in State /\ CanTransition(state[c], state'[c])
                        /\ state'[c] \in Closing
  BY <1>0, <1>2 DEF MayMove, Move, Closing
<1>4. lease' = lease \/ (rec.dep \in Dep /\ lease' \in {Acquired(rec.dep), Released(rec.dep)})
  BY <1>0 DEF Restart, ReconcileStep, ReconcileSkips, ReconcileDecides, ReconcileAcquires,
              ReconcileGivesUp, ReconcileMoves, ReconcileReleases, Serve
<1>5. \A c \in Dep, f \in Nat : f <= lease.fence /\ Fenced(c, f)' => Fenced(c, f)
  BY <1>4, NeverRegained DEF Fenced
<1>6. QED
  BY <1>1, <1>3, <1>5, OutsiderKeepsHistory

LEMMA OutsideKeepsHistory ==
  ASSUME IndInv, HistoryInv, OrphanLands \/ LeaseRunsOut \/ LeaseOverrun \/ Drift
  PROVE  HistoryInv'
<1>1. UNCHANGED <<ex, state, previous, overwritten, did>>
  BY DEF OrphanLands, LeaseRunsOut, LeaseOverrun, Drift, rows
<1>2. lease' \in {lease, [lease EXCEPT !.live = FALSE]}
  BY DEF OrphanLands, LeaseRunsOut, LeaseOverrun, Drift, RunsOut
<1>3. \A c \in Dep, f \in Nat : f <= lease.fence /\ Fenced(c, f)' => Fenced(c, f)
  BY <1>2, NeverRegained
<1>4. QED
  BY <1>1, <1>3, OutsiderKeepsHistory

LEMMA CrashKeepsHistory ==
  ASSUME IndInv, HistoryInv, Crash PROVE HistoryInv'
<1>1. SUFFICES ASSUME NEW d \in Dep
               PROVE  RunHistory(d, ex[d], state[d], Kept(d), did[d])'
  BY DEF HistoryInv
<1>2. ex'[d] = NoExec /\ UNCHANGED <<state, previous, overwritten, did>>
  BY DEF Crash, rows
<1>3. NoExec.pc = "none" /\ NoExec.at = "PENDING" /\ ~NoExec.lost /\ NoExec.step = 1
  BY DEF NoExec
<1>4. RowHistory(d, state[d], Kept(d), did[d])'
  BY <1>2, OneHistory DEF Kept, RunHistory, RowHistory
<1>5. QED
  BY <1>2, <1>3, <1>4 DEF RunHistory, Placed, KeepsPrevious, Prepared, Writes, Advances, Deployed, Baked,
     Undoes, RollingBack, Cancellable, Early

\* The notifier's save: a row that loses what preflight recorded is counted, or
\* had lost it before.
LEMMA NotifierKeepsHistory ==
  ASSUME IndInv, HistoryInv, NoticeInv, NotifierSaves \/ \E e \in Dep : NotifierReads(e)
  PROVE  HistoryInv'
<1>1. UNCHANGED <<state, ex, did, lease>>
  BY DEF NotifierSaves, NotifierReads, rows
<1>2. CASE UNCHANGED <<previous, overwritten>>
  BY <1>1, <1>2, OutsiderKeepsHistory DEF Fenced
<1>3. CASE NotifierSaves /\ NoticeAccepted
  <2>0. PICK d \in Dep : d = note.dep
    BY <1>3 DEF NotifierSaves, IndInv, ExistInv
  <2>1. /\ NoticeKeeps(d, ex[d], state[d], did[d]) /\ state[d] = note.at
        /\ RunHistory(d, ex[d], state[d], Kept(d), did[d])
    BY <1>3, <2>0, OneHistory DEF NotifierSaves, NoticeAccepted, NoticeInv
  <2>2. /\ previous'[d] = note.prev
        /\ overwritten' = IF Overwrites THEN overwritten \cup {d} ELSE overwritten
        /\ \A c \in Dep \ {d} : previous'[c] = previous[c]
    BY <1>3, <2>0 DEF NotifierSaves, IndInv, TypeOK
  <2>3. Prepared(ex[d]) \/ "deploy" \in did[d] => Kept(d)'
    <3>1. SUFFICES ASSUME Prepared(ex[d]) \/ "deploy" \in did[d]
                   PROVE  note.prev # NoVersion \/ d \in overwritten'
      BY <2>2 DEF Kept
    <3>2. previous[d] # NoVersion \/ d \in overwritten
      BY <2>1, <3>1 DEF RunHistory, RowHistory, KeepsPrevious, Kept
    <3>3. QED
      BY <2>0, <2>1, <2>2, <3>1, <3>2 DEF NoticeKeeps, Overwrites
  <2>4. Writes(ex[d]) => (Kept(d)' => ex[d].prev # NoVersion)
    <3>1. Kept(d)' => note.prev # NoVersion \/ previous[d] # NoVersion \/ d \in overwritten
      BY <2>0, <2>2 DEF Kept, Overwrites
    <3>2. QED
      BY <2>1, <3>1 DEF NoticeKeeps, RunHistory, KeepsPrevious, Kept
  <2>5. RunHistory(d, ex[d], state[d], Kept(d), did[d])'
    <3>1. RowHistory(d, state[d], Kept(d), did[d])'
      BY <1>1, <2>1, <2>3 DEF RunHistory, RowHistory
    <3>2. KeepsPrevious(ex[d], Kept(d))'
      BY <1>1, <2>1, <2>3, <2>4 DEF RunHistory, KeepsPrevious, Prepared, Writes
    <3>3. /\ Placed(ex[d], state[d], did[d])' /\ Advances(ex[d], did[d])'
          /\ Undoes(d, ex[d], state[d], did[d])'
      BY <1>1, <2>1 DEF RunHistory, Placed, Advances, Deployed, Baked, Undoes, RollingBack, Fenced
    <3>4. QED
      BY <3>1, <3>2, <3>3 DEF RunHistory
  <2>6. ASSUME NEW c \in Dep, c # d
        PROVE  RunHistory(c, ex[c], state[c], Kept(c), did[c])'
    <3>1. (Kept(c)' <=> Kept(c)) /\ RunHistory(c, ex[c], state[c], Kept(c), did[c])
      BY <2>2, <2>6, OneHistory DEF Kept
    <3>2. RowHistory(c, state[c], Kept(c), did[c])' /\ KeepsPrevious(ex[c], Kept(c))'
      BY <1>1, <3>1 DEF RunHistory, RowHistory, KeepsPrevious, Prepared, Writes
    <3>3. /\ Placed(ex[c], state[c], did[c])' /\ Advances(ex[c], did[c])'
          /\ Undoes(c, ex[c], state[c], did[c])'
      BY <1>1, <3>1 DEF RunHistory, Placed, Advances, Deployed, Baked, Undoes, RollingBack, Fenced
    <3>4. QED
      BY <3>2, <3>3 DEF RunHistory
  <2>7. QED
    BY <2>5, <2>6 DEF HistoryInv
<1>4. QED
  BY <1>2, <1>3 DEF NotifierSaves, NotifierReads, rows

LEMMA StepKeepsHistory ==
  ASSUME IndInv, HistoryInv, NoticeInv, ReconcilerInv, [Next]_vars PROVE HistoryInv'
<1>1. ASSUME NEW d \in Dep,
             Create(d) \/ ExecutorStep(d) \/ GatesPass(d) \/ HeartbeatFails(d)
      PROVE  HistoryInv'
  BY <1>1, ForwardKeepsHistory, FailingKeepsHistory, FailureKeepsHistory, RecordKeepsHistory,
     DeployKeepsHistory, BakeKeepsHistory, RollbackKeepsHistory, BeginKeepsHistory,
     RunAcquireKeepsHistory, RunReleaseKeepsHistory, EnterKeepsHistory, SettleKeepsHistory
     DEF ExecutorStep
<1>2. ASSUME NEW d \in Dep, AbortRead(d) \/ AbortStep(d) PROVE HistoryInv'
  BY <1>2, AbortKeepsHistory
<1>3. CASE UNCHANGED vars
  BY <1>3, OutsiderKeepsHistory DEF vars, Fenced
<1>4. QED
  BY <1>1, <1>2, <1>3, ReconcileKeepsHistory, OutsideKeepsHistory, CrashKeepsHistory,
     NotifierKeepsHistory DEF Next

(***************************************************************************)
(* What the notifier is about to save has what preflight recorded, if it   *)
(* was read after that.                                                    *)
(***************************************************************************)

\* Nothing goes back to PENDING, or to PREFLIGHT except from PENDING.
LEMMA StartsOnce ==
  ASSUME NEW from \in State, NEW to, CanTransition(from, to)
  PROVE  to \notin {"NONE", "PENDING"} /\ (to = "PREFLIGHT" => from = "PENDING")
  BY DEF CanTransition, AllowedTransitions, State, WorkStates, TerminalStates

\* The rows move as Lifecycle says.
LEMMA RowsStartOnce ==
  ASSUME IndInv, [Next]_vars, NEW d \in Dep
  PROVE  \/ state'[d] = state[d] \/ state[d] \in {"NONE", "PENDING"}
         \/ state'[d] \notin {"NONE", "PENDING", "PREFLIGHT"}
<1>1. state \in [Dep -> State \cup {"NONE"}]
  BY DEF IndInv, TypeOK
<1>2. CASE UNCHANGED state
  BY <1>2
<1>3. CASE Abstract!Next /\ ~UNCHANGED state
  <2>1. PICK e \in Dep : \E to :
          /\ state' = [state EXCEPT ![e] = to]
          /\ \/ state[e] = "NONE" \/ to \in {"ABORTED", "FAILED"}
             \/ state[e] \in State /\ Abstract!CanTransition(state[e], to)
    BY <1>3 DEF Abstract!Next, Abstract!Relinquish, Abstract!Create, Abstract!Grant,
       Abstract!OwnerMoves, Abstract!AnyoneCloses, Abstract!State, State, Abstract!WorkStates,
       Abstract!TerminalStates, WorkStates, TerminalStates
  <2>2. \A to : state[e] \in State /\ CanTransition(state[e], to) =>
                to \notin {"NONE", "PENDING"} /\ (to = "PREFLIGHT" => state[e] = "PENDING")
    BY StartsOnce
  <2>3. \A to : Abstract!CanTransition(state[e], to) <=> CanTransition(state[e], to)
    BY DEF Abstract!CanTransition, Abstract!AllowedTransitions, Abstract!State, Abstract!WorkStates,
       Abstract!TerminalStates, CanTransition, AllowedTransitions, State, WorkStates, TerminalStates
  <2>4. QED
    BY <1>1, <2>1, <2>2, <2>3
<1>4. QED
  BY <1>2, <1>3, StepRefines DEF Refines, Abstract!lifecycleVars

\* What a step of executor d does to its copy of the row and to the history,
\* as far as the notifier's copy is concerned.
Carries(d) ==
  /\ Prepared(ex[d])' => Prepared(ex[d]) \/ state[d] = "PREFLIGHT"
  /\ "deploy" \in did'[d] => "deploy" \in did[d] \/ Prepared(ex[d])
  /\ Writes(ex[d])' => \/ Writes(ex[d]) /\ ex'[d].prev = ex[d].prev
                       \/ ex'[d].prev # NoVersion \/ state[d] \in {"NONE", "PENDING"}

\* ... as long as what it is left with is as good as what it had.
LEMMA CarriesOn ==
  ASSUME IndInv, NEW d \in Dep, NEW r, Exec(d, r),
         NEW D, D \subseteq Effects \ {"deploy"}, did'[d] \subseteq did[d] \cup D,
         Prepared(r) => Prepared(ex[d]),
         Writes(r) => Writes(ex[d]) /\ r.prev = ex[d].prev
  PROVE  Carries(d)
<1>1. ex'[d] = r
  BY DEF Exec, IndInv, TypeOK
<1>2. QED
  BY <1>1 DEF Carries, Prepared, Writes

LEMMA ExecutorCarries ==
  ASSUME IndInv, HistoryInv, NEW d \in Dep,
         Create(d) \/ ExecutorStep(d) \/ GatesPass(d) \/ HeartbeatFails(d)
  PROVE  Carries(d)
<1>0. /\ ex[d] \in Execs /\ did \in [Dep -> SUBSET Effects]
      /\ Placed(ex[d], state[d], did[d])
  BY Working, OneHistory DEF RunHistory
<1>1. ASSUME NEW r, Exec(d, r), r.pc \notin {"acquire", "failread", "failrecord"} \cup Cancellable,
             NEW D, D \subseteq Effects \ {"deploy"}, did'[d] \subseteq did[d] \cup D
      PROVE  Carries(d)
  BY <1>1, CarriesOn DEF Prepared, Writes
<1>2. ASSUME NEW cause, Exec(d, Failing(d, cause)), ex[d].pc \in Cancellable,
             NEW D, D \subseteq Effects \ {"deploy"}, did'[d] \subseteq did[d] \cup D
      PROVE  Carries(d)
  <2>1. PICK r : r = Failing(d, cause)
    OBVIOUS
  <2>2. r.pc = "failread" /\ r.prev = ex[d].prev
    BY <2>1, FailingFields
  <2>3. ~Prepared(r) /\ Writes(ex[d])
    BY <1>2, <2>2 DEF Prepared, Writes, Cancellable
  <2>4. QED
    BY <1>2, <2>1, <2>2, <2>3, CarriesOn
<1>3. ASSUME NEW r, Exec(d, r), r.at = ex[d].at, r.prev = ex[d].prev,
             ex[d].pc \in Cancellable, ex[d].at \notin {"PENDING", "PREFLIGHT"},
             NEW D, D \subseteq Effects \ {"deploy"}, did'[d] \subseteq did[d] \cup D
      PROVE  Carries(d)
  BY <1>3, CarriesOn DEF Prepared, Writes
<1>5. \A what : Did(d, what) => did'[d] = did[d] \cup {what}
  BY <1>0 DEF Did
<1>6. ASSUME ex[d].pc \in {"work", "shift"}, ex[d].at \notin {"PENDING", "PREFLIGHT"},
             Exec(d, Proceed(d)),
             NEW D, D \subseteq Effects \ {"deploy"}, did'[d] \subseteq did[d] \cup D
      PROVE  Carries(d)
  <2>1. PICK r : r = Proceed(d)
    OBVIOUS
  <2>2. r.at = ex[d].at /\ r.prev = ex[d].prev
    BY <2>1, ProceedFields
  <2>3. QED
    BY <1>3, <1>6, <2>1, <2>2 DEF Cancellable
<1>7. CASE Create(d) \/ RunRead(d) \/ RunAcquire(d)
  <2>1. did' = did
    BY <1>7 DEF Create, RunRead, RunAcquire, Local
  <2>2. CASE Create(d)
    <3>1. [ex[d] EXCEPT !.pc = "read"].pc = "read"
      BY <1>0 DEF Execs
    <3>2. QED
      BY <1>1, <2>1, <2>2, <3>1 DEF Create, Cancellable
  <2>3. [NoExec EXCEPT !.pc = "done"].pc = "done"
    BY DEF NoExec
  <2>4. CASE RunRead(d)
    <3>1. CASE IsTerminal(state[d])
      BY <1>1, <2>1, <2>3, <2>4, <3>1 DEF RunRead, Local, Cancellable
    <3>2. CASE ~IsTerminal(state[d])
      <4>1. state[d] = "PENDING"
        BY <1>0, <2>4, <3>2 DEF RunRead, Placed, IsTerminal
      <4>2. /\ ex'[d] = [ex[d] EXCEPT !.pc = "acquire", !.at = state[d], !.prev = previous[d]]
            /\ ex'[d].pc = "acquire"
        BY <1>0, <2>4, <3>2 DEF RunRead, Local, Exec, Execs, IndInv, TypeOK
      <4>3. QED
        BY <2>1, <4>1, <4>2 DEF Carries, Prepared, Cancellable
    <3>3. QED
      BY <3>1, <3>2
  <2>5. CASE RunAcquire(d)
    <3>1. CASE ~CanAcquire(d)
      BY <1>1, <2>1, <2>3, <2>5, <3>1 DEF RunAcquire, Cancellable
    <3>2. CASE CanAcquire(d)
      <4>1. PICK r : r = [ex[d] EXCEPT !.pc = "enter", !.fence = Acquired(d).fence]
        OBVIOUS
      <4>2. r.pc = "enter" /\ r.at = "PENDING" /\ r.prev = ex[d].prev /\ ex[d].pc = "acquire"
        BY <1>0, <2>5, <4>1 DEF Execs, RunAcquire, Placed
      <4>3. ~Prepared(r) /\ Writes(ex[d])
        BY <4>2 DEF Prepared, Writes
      <4>4. QED
        BY <2>1, <2>5, <3>2, <4>1, <4>2, <4>3, CarriesOn DEF RunAcquire
    <3>3. QED
      BY <3>1, <3>2
  <2>6. QED
    BY <1>7, <2>2, <2>4, <2>5
<1>8. CASE Enter(d)
  <2> DEFINE to == StepAfter(ex[d].at)
  <2>1. did' = did /\ ex[d].pc = "enter"
    BY <1>8 DEF Enter
  <2>2. ex[d].at \in {"PENDING", "PREFLIGHT", "AWAIT_APPROVAL", "DEPLOYING", "VERIFYING", "PROMOTING"}
    BY <1>0, <2>1 DEF Placed
  <2>3. to # "PREFLIGHT" => ex[d].at # "PENDING"
    BY DEF StepAfter
  <2>4. \/ Exec(d, Returning(d)) \/ Exec(d, Failing(d, "plain"))
        \/ Exec(d, [ex[d] EXCEPT !.pc = "work", !.at = to])
    BY <1>8 DEF Enter, Entered, NotEntered
  <2> HIDE DEF to
  <2>5. CASE Exec(d, Returning(d))
    BY <1>1, <2>1, <2>5, ReturningFields DEF Cancellable
  <2>6. CASE Exec(d, Failing(d, "plain"))
    BY <1>2, <2>1, <2>6 DEF Cancellable
  <2>7. CASE Exec(d, [ex[d] EXCEPT !.pc = "work", !.at = to])
    <3>1. PICK r : r = [ex[d] EXCEPT !.pc = "work", !.at = to]
      OBVIOUS
    <3>2. r.pc = "work" /\ r.at = to /\ r.prev = ex[d].prev
      BY <1>0, <3>1 DEF Execs
    <3>3. Prepared(r) => Prepared(ex[d])
      BY <2>1, <2>3, <3>2 DEF Prepared, Cancellable
    <3>4. Writes(ex[d])
      BY <2>1 DEF Writes, Cancellable
    <3>5. QED
      BY <2>1, <2>7, <3>1, <3>2, <3>3, <3>4, CarriesOn
  <2>8. QED
    BY <2>4, <2>5, <2>6, <2>7
<1>9. CASE \/ PreflightBlocks(d) \/ PreflightFails(d) \/ GatesBlock(d) \/ GatesCancelled(d)
           \/ DeployFails(d) \/ ShiftFails(d) \/ BakeCancelled(d)
  <2>1. /\ ex[d].pc \in Cancellable /\ did' = did
        /\ \E cause : Exec(d, Failing(d, cause))
    BY <1>9 DEF PreflightBlocks, PreflightFails, GatesBlock, GatesCancelled, DeployFails, ShiftFails,
                BakeCancelled, Baking, At, Local, Cancellable
  <2>2. QED
    BY <1>2, <2>1
<1>10. CASE PreflightReads(d)
  <2>1. ex'[d] = [ex[d] EXCEPT !.pc = "record", !.prev = live] /\ did' = did /\ ex[d].at = "PREFLIGHT"
    BY <1>10 DEF PreflightReads, At, Local, Exec, IndInv, TypeOK
  <2>2. ex'[d].pc = "record" /\ ex'[d].at = "PREFLIGHT" /\ ex'[d].prev # NoVersion
    BY <1>0, <2>1, Working, EngineAssumption DEF Execs
  <2>3. QED
    BY <2>1, <2>2 DEF Carries, Prepared
<1>11. CASE PreflightRecords(d)
  <2>1. ex[d].pc = "record" /\ ex[d].at = "PREFLIGHT" /\ did' = did
    BY <1>0, <1>11 DEF PreflightRecords, Placed
  <2>2. CASE RowIsAt(d)
    <3>1. state[d] = "PREFLIGHT" /\ ex'[d] = Proceed(d)
      BY <1>11, <2>1, <2>2 DEF PreflightRecords, RowIsAt, Exec, IndInv, TypeOK
    <3>2. ex'[d].prev = ex[d].prev
      BY <3>1, ProceedFields
    <3>3. QED
      BY <2>1, <3>1, <3>2 DEF Carries, Writes, Cancellable
  <2>3. CASE ~RowIsAt(d)
    BY <1>2, <1>11, <2>1, <2>3 DEF PreflightRecords, Cancellable
  <2>4. QED
    BY <2>2, <2>3
<1>12. CASE GatesPass(d) \/ CanaryEnds(d) \/ Promote(d)
  <2>1. /\ ex[d].pc = "work" /\ ex[d].at \notin {"PENDING", "PREFLIGHT"}
        /\ Exec(d, Proceed(d)) /\ did' = did
    BY <1>12 DEF GatesPass, CanaryEnds, Promote, At, Local
  <2>2. QED
    BY <1>6, <2>1
<1>13. CASE CallDeploy(d)
  <2>1. ex[d].pc = "work" /\ ex[d].at = "DEPLOYING"
    BY <1>13 DEF CallDeploy, At
  <2>2. CASE ex[d].lost
    BY <1>2, <1>13, <2>1, <2>2 DEF CallDeploy, Cancellable
  <2>3. CASE ~ex[d].lost
    <3>1. ex'[d] = [ex[d] EXCEPT !.pc = "deploy"]
      BY <1>13, <2>3 DEF CallDeploy, Exec, IndInv, TypeOK
    <3>2. ex'[d].prev = ex[d].prev
      BY <1>0, <3>1 DEF Execs
    <3>3. Prepared(ex[d]) /\ Writes(ex[d])
      BY <2>1 DEF Prepared, Writes, Cancellable
    <3>4. QED
      BY <3>2, <3>3 DEF Carries
  <2>4. QED
    BY <2>2, <2>3
<1>14. CASE DeployLands(d)
  <2>1. /\ ex[d].pc = "deploy" /\ ex[d].at = "DEPLOYING" /\ did' = did
        /\ Exec(d, [ex[d] EXCEPT !.landed = TRUE])
    BY <1>0, <1>14 DEF DeployLands, Placed
  <2>2. PICK r : r = [ex[d] EXCEPT !.landed = TRUE]
    OBVIOUS
  <2>3. r.at = ex[d].at /\ r.prev = ex[d].prev
    BY <1>0, <2>2 DEF Execs
  <2>4. QED
    BY <1>3, <2>1, <2>2, <2>3 DEF Cancellable
<1>15. CASE DeployReturns(d)
  <2>1. ex[d].pc = "deploy" /\ ex[d].at = "DEPLOYING" /\ did'[d] = did[d] \cup {"deployed"}
    BY <1>0, <1>5, <1>15 DEF DeployReturns, Placed
  <2>2. {"deployed"} \subseteq Effects \ {"deploy"}
    BY DEF Effects
  <2>3. CASE ~RowIsAt(d)
    BY <1>2, <1>15, <2>1, <2>2, <2>3 DEF DeployReturns, Cancellable
  <2>4. CASE RowIsAt(d)
    <3>1. PICK r, pc : r = [ex[d] EXCEPT !.pc = pc, !.landed = FALSE] /\ Exec(d, r)
      BY <1>15, <2>4 DEF DeployReturns
    <3>2. r.at = ex[d].at /\ r.prev = ex[d].prev
      BY <1>0, <3>1 DEF Execs
    <3>3. QED
      BY <1>3, <2>1, <2>2, <3>1, <3>2 DEF Cancellable
  <2>5. QED
    BY <2>3, <2>4
<1>16. CASE ShiftReturns(d) \/ CanaryShifts(d) \/ HeartbeatFails(d)
  <2>1. did' = did /\ ex[d].pc \in Cancellable
    BY <1>16 DEF ShiftReturns, CanaryShifts, HeartbeatFails, At, Local, Cancellable
  <2>2. CASE CanaryShifts(d) /\ ex[d].lost
    BY <1>2, <2>1, <2>2 DEF CanaryShifts, Local
  <2>3. CASE CanaryShifts(d) /\ ~ex[d].lost
    <3>1. PICK r : r = [ex[d] EXCEPT !.pc = "shift"]
      OBVIOUS
    <3>2. r.at = ex[d].at /\ r.prev = ex[d].prev
      BY <1>0, <3>1 DEF Execs
    <3>3. QED
      BY <1>3, <2>1, <2>3, <3>1, <3>2 DEF CanaryShifts, At, Local
  <2>4. CASE ShiftReturns(d)
    <3>1. ex[d].pc = "shift" /\ ex[d].at \in {"DEPLOYING", "VERIFYING"}
      BY <1>0, <2>4 DEF ShiftReturns, Placed
    <3>2. CASE ex[d].at = "DEPLOYING"
      BY <1>6, <2>1, <2>4, <3>1, <3>2 DEF ShiftReturns, Local
    <3>3. CASE ex[d].at # "DEPLOYING"
      <4>1. PICK r : r = [ex[d] EXCEPT !.pc = "work", !.step = @ + 1]
        OBVIOUS
      <4>2. r.at = ex[d].at /\ r.prev = ex[d].prev
        BY <1>0, <4>1 DEF Execs
      <4>3. QED
        BY <1>3, <2>1, <2>4, <3>1, <3>3, <4>1, <4>2 DEF ShiftReturns, Local
    <3>4. QED
      BY <3>2, <3>3
  <2>5. CASE HeartbeatFails(d)
    <3>1. PICK r : r = [ex[d] EXCEPT !.lost = TRUE]
      OBVIOUS
    <3>2. r.pc = ex[d].pc /\ r.at = ex[d].at /\ r.prev = ex[d].prev
      BY <1>0, <3>1 DEF Execs
    <3>3. (Prepared(r) => Prepared(ex[d])) /\ Writes(ex[d])
      BY <2>1, <3>2 DEF Prepared, Writes
    <3>4. QED
      BY <2>1, <2>5, <3>1, <3>2, <3>3, CarriesOn DEF HeartbeatFails, Local
  <2>6. QED
    BY <1>16, <2>2, <2>3, <2>4, <2>5
<1>17. CASE Healthy(d) \/ Unhealthy(d) \/ Inconclusive(d)
  <2>1. ex[d].pc = "work" /\ ex[d].at = "VERIFYING"
    BY <1>17 DEF Healthy, Unhealthy, Inconclusive, Baking, At
  <2>2. PICK what \in {"healthy", "unhealthy", "inconclusive"} : did'[d] = did[d] \cup {what}
    BY <1>5, <1>17 DEF Healthy, Unhealthy, Inconclusive
  <2>3. {what} \subseteq Effects \ {"deploy"}
    BY DEF Effects
  <2>4. \/ \E cause : Exec(d, Failing(d, cause))
        \/ Exec(d, Proceed(d)) \/ Exec(d, [ex[d] EXCEPT !.step = @ + 1])
    BY <1>17 DEF Healthy, Unhealthy, Inconclusive
  <2>5. CASE \E cause : Exec(d, Failing(d, cause))
    BY <1>2, <2>1, <2>2, <2>3, <2>5 DEF Cancellable
  <2>6. CASE Exec(d, Proceed(d))
    BY <1>6, <2>1, <2>2, <2>3, <2>6
  <2>7. CASE Exec(d, [ex[d] EXCEPT !.step = @ + 1])
    <3>1. PICK r : r = [ex[d] EXCEPT !.step = @ + 1]
      OBVIOUS
    <3>2. r.at = ex[d].at /\ r.prev = ex[d].prev
      BY <1>0, <3>1 DEF Execs
    <3>3. QED
      BY <1>3, <2>1, <2>2, <2>3, <2>7, <3>1, <3>2 DEF Cancellable
  <2>8. QED
    BY <2>4, <2>5, <2>6, <2>7
<1>18. CASE FailRead(d)
  <2>1. PICK r : r = [ex[d] EXCEPT !.pc = "failrecord", !.at = state[d]]
    OBVIOUS
  <2>2. r.pc = "failrecord" /\ r.prev = ex[d].prev
    BY <1>0, <2>1 DEF Execs
  <2>3. ~Prepared(r) /\ Writes(ex[d])
    BY <1>18, <2>2 DEF FailRead, Prepared, Writes, Cancellable
  <2>4. QED
    BY <1>18, <2>1, <2>2, <2>3, CarriesOn DEF FailRead, Local
<1>19. CASE \/ FailRecord(d) \/ FailWithoutRollback(d) \/ FailPlansRollback(d)
            \/ FailRefusesRollback(d) \/ Settle(d) \/ RunRelease(d)
  <2>1. did' = did
    BY <1>19 DEF FailRecord, FailWithoutRollback, FailPlansRollback, FailRefusesRollback, Decide,
                 Settle, RunRelease, Local
  <2>2. \E r : Exec(d, r) /\ r.pc \in {"failplan", "settle", "rollback", "release", "done"}
    <3>1. CASE FailRecord(d)
      <4>1. [ex[d] EXCEPT !.pc = "failplan", !.prev = NoVersion].pc = "failplan"
        BY <1>0 DEF Execs
      <4>2. QED
        BY <3>1, <4>1 DEF FailRecord
    <3>2. CASE Settle(d)
      <4>1. PICK to : Exec(d, Returning(d)) \/ Exec(d, [ex[d] EXCEPT !.pc = "rollback", !.at = to])
        BY <3>2 DEF Settle
      <4>2. Returning(d).pc = "release" /\ [ex[d] EXCEPT !.pc = "rollback", !.at = to].pc = "rollback"
        BY <1>0 DEF Execs, Returning, NoExec
      <4>3. QED
        BY <4>1, <4>2
    <3>3. CASE FailWithoutRollback(d) \/ FailPlansRollback(d) \/ FailRefusesRollback(d)
      <4>1. PICK goal, plan : Decide(d, goal, plan)
        BY <3>3 DEF FailWithoutRollback, FailPlansRollback, FailRefusesRollback
      <4>2. PICK r : r = [ex[d] EXCEPT !.pc = "settle", !.cause = "plain", !.goal = goal, !.plan = plan]
        OBVIOUS
      <4>3. r.pc = "settle"
        BY <1>0, <4>2 DEF Execs
      <4>4. Exec(d, r)
        BY <4>1, <4>2 DEF Decide, Local
      <4>5. QED
        BY <4>3, <4>4
    <3>4. CASE RunRelease(d)
      <4>1. [NoExec EXCEPT !.pc = "done"].pc = "done"
        BY DEF NoExec
      <4>2. QED
        BY <3>4, <4>1 DEF RunRelease
    <3>5. QED
      BY <1>19, <3>1, <3>2, <3>3, <3>4
  <2>3. QED
    BY <1>1, <2>1, <2>2 DEF Cancellable
<1>20. CASE \/ CallRollback(d) \/ RollbackLands(d) \/ RollbackReturns(d) \/ RollbackFails(d)
            \/ UnshiftReturns(d) \/ UnshiftFails(d)
  <2>1. \E D : D \subseteq Effects \ {"deploy"} /\ did'[d] \subseteq did[d] \cup D
    <3>1. {"rollback"} \subseteq Effects \ {"deploy"} /\ {"restored"} \subseteq Effects \ {"deploy"}
      BY DEF Effects
    <3>2. CASE CallRollback(d)
      BY <1>5, <3>1, <3>2 DEF CallRollback
    <3>3. CASE RollbackReturns(d)
      BY <1>5, <3>1, <3>3 DEF RollbackReturns
    <3>4. CASE RollbackLands(d) \/ RollbackFails(d) \/ UnshiftReturns(d) \/ UnshiftFails(d)
      BY <3>4 DEF RollbackLands, RollbackFails, UnshiftReturns, UnshiftFails, Local
    <3>5. QED
      BY <1>20, <3>2, <3>3, <3>4
  <2>2. \E r : Exec(d, r) /\ r.pc \in {"restore", "unshift", "settle"}
    <3>1. /\ [ex[d] EXCEPT !.pc = "restore"].pc = "restore"
          /\ [ex[d] EXCEPT !.landed = TRUE].pc = ex[d].pc
          /\ [ex[d] EXCEPT !.pc = "unshift", !.landed = FALSE].pc = "unshift"
          /\ \A goal : Conclude(d, goal).pc = "settle"
      BY <1>0, ConcludeFields DEF Execs
    <3>2. QED
      BY <1>20, <3>1 DEF CallRollback, RollbackLands, RollbackReturns, RollbackFails,
                         UnshiftReturns, UnshiftFails, Local
  <2>3. QED
    BY <1>1, <2>1, <2>2 DEF Cancellable
<1>21. QED
  BY <1>7, <1>8, <1>9, <1>10, <1>11, <1>12, <1>13, <1>14, <1>15, <1>16, <1>17, <1>18, <1>19, <1>20
     DEF ExecutorStep

\* An executor leaves the other deployments and the notifier alone.
LEMMA ExecutorLeavesOthers ==
  ASSUME IndInv, NEW d \in Dep, Create(d) \/ ExecutorStep(d) \/ GatesPass(d) \/ HeartbeatFails(d)
  PROVE  /\ UNCHANGED notice
         /\ \A c \in Dep \ {d} : ex'[c] = ex[c] /\ did'[c] = did[c]
<1>1. /\ UNCHANGED notice
      /\ \E r : Exec(d, r)
      /\ did' = did \/ \E what : Did(d, what)
  <2>1. CASE Create(d) \/ GatesPass(d) \/ HeartbeatFails(d) \/ RunRead(d) \/ RunAcquire(d)
    BY <2>1 DEF Create, GatesPass, HeartbeatFails, RunRead, RunAcquire, Local
  <2>2. CASE Enter(d) \/ Settle(d) \/ RunRelease(d)
    BY <2>2 DEF Enter, Entered, NotEntered, Settle, RunRelease
  <2>3. CASE PreflightRecords(d) \/ CallDeploy(d) \/ DeployLands(d) \/ DeployReturns(d)
    BY <2>3 DEF PreflightRecords, CallDeploy, DeployLands, DeployReturns
  <2>4. CASE FailRecord(d) \/ CallRollback(d) \/ RollbackLands(d) \/ RollbackReturns(d)
    BY <2>4 DEF FailRecord, CallRollback, RollbackLands, RollbackReturns
  <2>5. CASE Healthy(d) \/ Unhealthy(d) \/ Inconclusive(d) \/ BakeCancelled(d) \/ Promote(d)
    BY <2>5 DEF Healthy, Unhealthy, Inconclusive, BakeCancelled, Promote, Local
  <2>6. CASE \/ PreflightBlocks(d) \/ PreflightFails(d) \/ PreflightReads(d) \/ GatesBlock(d)
             \/ GatesCancelled(d) \/ DeployFails(d) \/ ShiftReturns(d) \/ ShiftFails(d)
             \/ CanaryShifts(d) \/ CanaryEnds(d)
    BY <2>6 DEF PreflightBlocks, PreflightFails, PreflightReads, GatesBlock, GatesCancelled,
                DeployFails, ShiftReturns, ShiftFails, CanaryShifts, CanaryEnds, Local
  <2>7. CASE \/ FailRead(d) \/ FailWithoutRollback(d) \/ FailPlansRollback(d)
             \/ FailRefusesRollback(d) \/ RollbackFails(d) \/ UnshiftReturns(d) \/ UnshiftFails(d)
    BY <2>7 DEF FailRead, FailWithoutRollback, FailPlansRollback, FailRefusesRollback, Decide,
                RollbackFails, UnshiftReturns, UnshiftFails, Local
  <2>8. QED
    BY <2>1, <2>2, <2>3, <2>4, <2>5, <2>6, <2>7 DEF ExecutorStep
<1>2. QED
  BY <1>1 DEF Exec, Did, IndInv, TypeOK

LEMMA StepKeepsNotice ==
  ASSUME IndInv, HistoryInv, NoticeInv, [Next]_vars PROVE NoticeInv'
<1>0. ASSUME NEW c \in overwritten' PROVE state'[c] \notin {"NONE", "PENDING"}
  <2>1. CASE c \in overwritten
    BY <2>1, RowsStartOnce DEF NoticeInv, IndInv, TypeOK
  <2>2. CASE c \notin overwritten
    <3>1. NotifierSaves
      <4>1. ~NotifierSaves => UNCHANGED overwritten
        BY ExecutorLeavesOthers
           DEF Next, vars, NotifierReads, Crash, OrphanLands, Restart, ReconcileStep, ReconcileSkips,
               ReconcileDecides, ReconcileAcquires, ReconcileGivesUp, ReconcileMoves,
               ReconcileReleases, Serve, LeaseRunsOut, LeaseOverrun, Drift, AbortRead, AbortStep,
               AbortInspect, AbortBreak, AbortAcquire, AbortMove, AbortRelease
      <4>2. QED
        BY <1>0, <2>2, <4>1
    <3>2. state'[c] = "PREFLIGHT"
      BY <1>0, <2>2, <3>1 DEF NotifierSaves, NoticeAccepted, Overwrites
    <3>3. QED
      BY <3>2
  <2>3. QED
    BY <2>1, <2>2
<1>1. SUFFICES ASSUME note'.pc = "save", NEW d \in Dep, d = note'.dep
               PROVE  NoticeKeeps(d, ex[d], state[d], did[d])'
  BY <1>0 DEF NoticeInv
<1>2. CASE \E e \in Dep : NotifierReads(e)
  <2>1. /\ NotifierReads(d)
        /\ note'.at = state[d] /\ note'.prev = previous[d]
    BY <1>1, <1>2 DEF NotifierReads
  <2>2. UNCHANGED <<state, ex, did, overwritten>> /\ state[d] # "PENDING"
    BY <2>1 DEF NotifierReads, rows
  <2>3. RunHistory(d, ex[d], state[d], Kept(d), did[d])
    BY OneHistory
  <2>4. QED
    BY <2>1, <2>2, <2>3 DEF NoticeKeeps, RunHistory, RowHistory, KeepsPrevious, Kept, Prepared, Writes
<1>3. CASE NotifierSaves \/ Crash
  BY <1>1, <1>3 DEF NotifierSaves, Crash, NoNote
<1>4. ASSUME UNCHANGED notice, Carries(d) PROVE NoticeKeeps(d, ex[d], state[d], did[d])'
  <2>1. NoticeKeeps(d, ex[d], state[d], did[d]) /\ state[d] \notin {"NONE", "PENDING"}
    BY <1>1, <1>4 DEF NoticeInv, NoticeKeeps, IndInv, ExistInv
  <2>2. state'[d] = state[d] \/ state'[d] \notin {"PENDING", "PREFLIGHT"}
    BY <1>1, <2>1, RowsStartOnce
  <2>3. QED
    BY <1>4, <2>1, <2>2 DEF NoticeKeeps, Carries
<1>5. ASSUME UNCHANGED notice, ex'[d] = ex[d], did'[d] = did[d]
      PROVE  NoticeKeeps(d, ex[d], state[d], did[d])'
  BY <1>4, <1>5 DEF Carries, Prepared, Writes
<1>6. ASSUME NEW e \in Dep, Create(e) \/ ExecutorStep(e) \/ GatesPass(e) \/ HeartbeatFails(e)
      PROVE  NoticeKeeps(d, ex[d], state[d], did[d])'
  BY <1>4, <1>5, <1>6, ExecutorCarries, ExecutorLeavesOthers
<1>7. ASSUME NEW e \in Dep, AbortRead(e) \/ AbortStep(e)
      PROVE  NoticeKeeps(d, ex[d], state[d], did[d])'
  BY <1>5, <1>7 DEF AbortRead, AbortStep, AbortInspect, AbortBreak, AbortAcquire, AbortMove,
                    AbortRelease
<1>8. CASE OrphanLands \/ LeaseRunsOut \/ LeaseOverrun \/ Drift \/ UNCHANGED vars
  BY <1>5, <1>8 DEF OrphanLands, LeaseRunsOut, LeaseOverrun, Drift, vars
<1>9. CASE Restart \/ ReconcileStep
  BY <1>5, <1>9 DEF Restart, ReconcileStep, ReconcileSkips, ReconcileDecides, ReconcileAcquires,
                    ReconcileGivesUp, ReconcileMoves, ReconcileReleases, Serve
<1>10. QED
  BY <1>2, <1>3, <1>6, <1>7, <1>8, <1>9 DEF Next

(***************************************************************************)
(* The reconciler is there exactly while the server reconciles.            *)
(***************************************************************************)

LEMMA ExecutorLeavesReconciler ==
  ASSUME NEW d \in Dep, Create(d) \/ ExecutorStep(d) \/ GatesPass(d) \/ HeartbeatFails(d)
  PROVE  UNCHANGED <<phase, ab, rec, oldFence>>
<1>1. CASE Create(d) \/ GatesPass(d) \/ HeartbeatFails(d) \/ RunRead(d) \/ RunAcquire(d)
  BY <1>1 DEF Create, GatesPass, HeartbeatFails, RunRead, RunAcquire, Local
<1>2. CASE Enter(d) \/ Settle(d) \/ RunRelease(d)
  BY <1>2 DEF Enter, Settle, RunRelease
<1>3. CASE PreflightRecords(d) \/ CallDeploy(d) \/ DeployLands(d) \/ DeployReturns(d)
           \/ FailRecord(d) \/ CallRollback(d) \/ RollbackLands(d) \/ RollbackReturns(d)
  BY <1>3 DEF PreflightRecords, CallDeploy, DeployLands, DeployReturns,
              FailRecord, CallRollback, RollbackLands, RollbackReturns
<1>4. CASE Healthy(d) \/ Unhealthy(d) \/ Inconclusive(d) \/ BakeCancelled(d) \/ Promote(d)
  BY <1>4 DEF Healthy, Unhealthy, Inconclusive, BakeCancelled, Promote, Local
<1>5. CASE \/ PreflightBlocks(d) \/ PreflightFails(d) \/ PreflightReads(d) \/ GatesBlock(d)
           \/ GatesCancelled(d) \/ DeployFails(d) \/ ShiftReturns(d) \/ ShiftFails(d)
           \/ CanaryShifts(d) \/ CanaryEnds(d)
  BY <1>5 DEF PreflightBlocks, PreflightFails, PreflightReads, GatesBlock, GatesCancelled,
              DeployFails, ShiftReturns, ShiftFails, CanaryShifts, CanaryEnds, Local
<1>6. CASE \/ FailRead(d) \/ FailWithoutRollback(d) \/ FailPlansRollback(d)
           \/ FailRefusesRollback(d) \/ RollbackFails(d) \/ UnshiftReturns(d) \/ UnshiftFails(d)
  BY <1>6 DEF FailRead, FailWithoutRollback, FailPlansRollback, FailRefusesRollback, Decide,
              RollbackFails, UnshiftReturns, UnshiftFails, Local
<1>7. QED
  BY <1>1, <1>2, <1>3, <1>4, <1>5, <1>6 DEF ExecutorStep

LEMMA StepKeepsReconciler ==
  ASSUME IndInv, ReconcilerInv, [Next]_vars PROVE ReconcilerInv'
<1>1. ASSUME UNCHANGED <<phase, rec>> PROVE ReconcilerInv'
  BY <1>1 DEF ReconcilerInv
<1>2. NoRec.pc = "idle" /\ NoRec.goal = "FAILED"
  BY DEF NoRec
<1>3. rec \in Reconcilers
  BY DEF IndInv, TypeOK
<1>4. CASE Crash
  BY <1>2, <1>4 DEF Crash, ReconcilerInv
<1>5. CASE Restart
  <2>1. PICK r : r = [NoRec EXCEPT !.pc = "next", !.todo = Orphaned]
    OBVIOUS
  <2>2. r.pc = "next" /\ r.goal = "FAILED"
    BY <2>1 DEF NoRec
  <2>3. QED
    BY <1>5, <2>1, <2>2 DEF Restart, Reconciler, ReconcilerInv
<1>6. CASE ReconcileStep
  <2>1. CASE Serve
    BY <1>2, <2>1 DEF Serve, Reconciler, ReconcilerInv
  <2>2. CASE \E d \in Dep : ReconcileSkips(d)
    BY <1>3, <2>2 DEF ReconcileSkips, Examined, Reconciler, ReconcilerInv, Reconcilers
  <2>3. CASE \E d \in Dep : ReconcileDecides(d)
    <3>1. PICK d \in Dep : \E goal \in Verdicts(d) :
            rec' = [rec EXCEPT !.pc = "acquire", !.dep = d, !.goal = goal]
      BY <2>3 DEF ReconcileDecides, Reconciler
    <3>2. \A goal \in Verdicts(d) : goal \in {"VERIFYING", "FAILED", "UNKNOWN"}
      BY DEF Verdicts
    <3>3. rec'.pc = "acquire" /\ rec'.goal \in Verdicts(d)
      BY <1>3, <3>1 DEF Reconcilers
    <3>4. phase' = phase /\ rec.pc = "next"
      BY <2>3 DEF ReconcileDecides, Examined
    <3>5. QED
      BY <3>2, <3>3, <3>4 DEF ReconcilerInv
  <2>4. CASE ReconcileAcquires \/ ReconcileGivesUp \/ ReconcileMoves
    BY <1>3, <2>4 DEF ReconcileAcquires, ReconcileGivesUp, ReconcileMoves, Reconciler, ReconcilerInv, Reconcilers
  <2>5. CASE ReconcileReleases
    <3>1. PICK r : r = [NoRec EXCEPT !.pc = "next", !.todo = rec.todo \ {rec.dep}]
      OBVIOUS
    <3>2. r.pc = "next" /\ r.goal = "FAILED"
      BY <3>1 DEF NoRec
    <3>3. QED
      BY <2>5, <3>1, <3>2 DEF ReconcileReleases, Reconciler, ReconcilerInv
  <2>6. QED
    BY <1>6, <2>1, <2>2, <2>3, <2>4, <2>5 DEF ReconcileStep
<1>7. ASSUME NEW d \in Dep, AbortRead(d) \/ AbortStep(d) PROVE ReconcilerInv'
  BY <1>1, <1>7 DEF AbortRead, AbortStep, AbortInspect, AbortBreak, AbortAcquire, AbortMove,
                    AbortRelease
<1>8. CASE \/ OrphanLands \/ LeaseRunsOut \/ LeaseOverrun \/ Drift \/ UNCHANGED vars
           \/ NotifierSaves \/ \E d \in Dep : NotifierReads(d)
  BY <1>1, <1>8 DEF OrphanLands, LeaseRunsOut, LeaseOverrun, Drift, NotifierSaves, NotifierReads, vars
<1>9. QED
  BY <1>1, <1>4, <1>5, <1>6, <1>7, <1>8, ExecutorLeavesReconciler DEF Next

(***************************************************************************)
(* A live lease has a process that gives it back.                          *)
(***************************************************************************)

\* Whoever holds the lease keeps the place it holds it in, and the row of the
\* lease does not change hands.
LEMMA LeaseKept ==
  ASSUME LeaseReturned,
         lease'.holder = lease.holder, lease'.fence = lease.fence, lease'.live => lease.live,
         oldFence' = oldFence,
         \A d \in Dep : ex[d].pc \in Holding => ex'[d].pc \in Holding,
         \A d \in Dep : ab[d].pc \in {"move", "release"} => ab'[d].pc \in {"move", "release"},
         rec.pc \in {"move", "again", "release"} =>
           rec'.pc \in {"move", "again", "release"} /\ rec'.dep = rec.dep,
         lease \in LeaseRows
  PROVE  LeaseReturned'
  BY DEF LeaseReturned, Held, LeaseRows

\* A grant goes to a process that is now where it holds the lease; the others
\* keep theirs.
LEMMA LeaseGranted ==
  ASSUME IndInv, LeaseReturned, NEW d \in Dep, lease' = Acquired(d), CanAcquire(d),
         oldFence' = oldFence,
         \/ ex'[d].pc \in Holding
         \/ ab'[d].pc \in {"move", "release"}
         \/ rec'.dep = d /\ rec'.pc \in {"move", "again", "release"}
  PROVE  LeaseReturned'
<1>1. lease'.holder = d
  BY DEF Acquired, CanAcquire
<1>2. QED
  BY <1>1 DEF LeaseReturned

\* A lease given back, or taken away, is nobody's.
LEMMA LeaseCleared ==
  ASSUME IndInv, lease' = Cleared PROVE LeaseReturned'
<1>1. ~lease'.live
  BY DEF Cleared, IndInv, TypeOK, LeaseRows
<1>2. QED
  BY <1>1 DEF LeaseReturned, Held

\* Every record an executor is left with by a step of its own, except the last
\* one, is in a place where the lease is still held.
LEMMA ExecutorHolds ==
  ASSUME IndInv, NEW d \in Dep, ExecutorStep(d) \/ GatesPass(d) \/ HeartbeatFails(d),
         ~RunAcquire(d), ~RunRelease(d)
  PROVE  /\ lease' = lease
         /\ \A c \in Dep : ex[c].pc \in Holding => ex'[c].pc \in Holding
<1>1. ASSUME NEW r, Exec(d, r)
      PROVE  ex'[d] = r /\ \A c \in Dep \ {d} : ex'[c] = ex[c]
  BY <1>1 DEF Exec, IndInv, TypeOK
<1>2. SUFFICES /\ lease' = lease
               /\ ex[d].pc \in Holding => ex'[d].pc \in Holding
               /\ \A c \in Dep \ {d} : ex'[c] = ex[c]
  OBVIOUS
<1>3. \A cause : Failing(d, cause).pc \in Holding
  BY DEF Failing, NoExec, Holding
<1>4. Returning(d).pc \in Holding
  BY DEF Returning, NoExec, Holding
<1>5. Proceed(d).pc \in Holding /\ \A goal : Conclude(d, goal).pc \in Holding
  BY Working DEF Proceed, Conclude, Execs, Holding
<1>6. ex[d] \in Execs
  BY Working
<1>7. CASE RunRead(d)
  BY <1>1, <1>7 DEF RunRead, Local, Holding
<1>8. CASE GatesPass(d) \/ PreflightBlocks(d) \/ PreflightFails(d) \/ GatesBlock(d)
           \/ GatesCancelled(d) \/ DeployFails(d) \/ ShiftFails(d) \/ CanaryEnds(d)
  BY <1>1, <1>3, <1>5, <1>8 DEF GatesPass, PreflightBlocks, PreflightFails, GatesBlock,
     GatesCancelled, DeployFails, ShiftFails, CanaryEnds, Local
<1>9. CASE Unhealthy(d) \/ Inconclusive(d) \/ BakeCancelled(d) \/ RollbackFails(d)
           \/ UnshiftReturns(d) \/ UnshiftFails(d)
  BY <1>1, <1>3, <1>5, <1>9 DEF Unhealthy, Inconclusive, BakeCancelled, RollbackFails,
     UnshiftReturns, UnshiftFails, Local
<1>10. CASE HeartbeatFails(d)
  <2>1. [ex[d] EXCEPT !.lost = TRUE].pc \in Holding
    BY <1>6, <1>10 DEF HeartbeatFails, Cancellable, Holding, Execs
  <2>2. QED
    BY <1>1, <1>10, <2>1 DEF HeartbeatFails, Local
<1>11. CASE PreflightReads(d) \/ CanaryShifts(d)
  <2>1. /\ [ex[d] EXCEPT !.pc = "record", !.prev = live].pc \in Holding
        /\ [ex[d] EXCEPT !.pc = "shift"].pc \in Holding
    BY <1>6 DEF Holding, Execs
  <2>2. QED
    BY <1>1, <1>3, <1>11, <2>1 DEF PreflightReads, CanaryShifts, Local
<1>12. CASE ShiftReturns(d) \/ Healthy(d) \/ Promote(d)
  <2>1. /\ [ex[d] EXCEPT !.pc = "work", !.step = @ + 1].pc \in Holding
        /\ Baking(d) => [ex[d] EXCEPT !.step = @ + 1].pc \in Holding
    BY <1>6 DEF Baking, At, Holding, Execs
  <2>2. QED
    BY <1>1, <1>5, <1>12, <2>1 DEF ShiftReturns, Healthy, Promote, Local
<1>13. CASE PreflightRecords(d) \/ CallDeploy(d)
  <2>1. [ex[d] EXCEPT !.pc = "deploy"].pc \in Holding
    BY <1>6 DEF Holding, Execs
  <2>2. QED
    BY <1>1, <1>3, <1>5, <1>13, <2>1 DEF PreflightRecords, CallDeploy
<1>14. CASE DeployLands(d) \/ DeployReturns(d)
  <2>1. [ex[d] EXCEPT !.landed = TRUE].pc \in Holding \/ ex[d].pc \notin Holding
    BY <1>6 DEF Holding, Execs
  <2>2. [ex[d] EXCEPT !.pc = IF Strategy = "blue-green" THEN "shift" ELSE "enter",
                      !.landed = FALSE].pc \in Holding
    BY <1>6 DEF Holding, Execs
  <2>3. QED
    BY <1>1, <1>3, <1>14, <2>1, <2>2 DEF DeployLands, DeployReturns
<1>15. CASE FailRead(d) \/ FailRecord(d)
  <2>1. /\ [ex[d] EXCEPT !.pc = "failplan", !.prev = NoVersion].pc \in Holding
        /\ [ex[d] EXCEPT !.pc = "failrecord", !.at = state[d]].pc \in Holding
    BY <1>6 DEF Holding, Execs
  <2>2. QED
    BY <1>1, <1>15, <2>1 DEF FailRead, FailRecord, Local
<1>16. CASE FailWithoutRollback(d) \/ FailPlansRollback(d) \/ FailRefusesRollback(d)
  <2>1. \A goal, plan : [ex[d] EXCEPT !.pc = "settle", !.cause = "plain", !.goal = goal,
                                      !.plan = plan].pc \in Holding
    BY <1>6 DEF Holding, Execs
  <2>2. QED
    BY <1>1, <1>16, <2>1 DEF FailWithoutRollback, FailPlansRollback, FailRefusesRollback,
       Decide, Local
<1>17. CASE Enter(d)
  <2>1. \A to : [ex[d] EXCEPT !.pc = "work", !.at = to].pc \in Holding
    BY <1>6 DEF Holding, Execs
  <2>2. QED
    BY <1>1, <1>3, <1>4, <1>17, <2>1 DEF Enter, Entered, NotEntered
<1>18. CASE Settle(d)
  <2>1. \A to : [ex[d] EXCEPT !.pc = "rollback", !.at = to].pc \in Holding
    BY <1>6 DEF Holding, Execs
  <2>2. QED
    BY <1>1, <1>4, <1>18, <2>1 DEF Settle
<1>19. CASE CallRollback(d) \/ RollbackLands(d) \/ RollbackReturns(d)
  <2>1. /\ [ex[d] EXCEPT !.pc = "restore"].pc \in Holding
        /\ [ex[d] EXCEPT !.pc = "unshift", !.landed = FALSE].pc \in Holding
        /\ ex[d].pc = "restore" => [ex[d] EXCEPT !.landed = TRUE].pc \in Holding
    BY <1>6 DEF Holding, Execs
  <2>2. QED
    BY <1>1, <1>5, <1>19, <2>1 DEF CallRollback, RollbackLands, RollbackReturns
<1>20. QED
  BY <1>7, <1>8, <1>9, <1>10, <1>11, <1>12, <1>13, <1>14, <1>15, <1>16, <1>17, <1>18, <1>19
     DEF ExecutorStep

LEMMA ExecutorReturnsLease ==
  ASSUME IndInv, LeaseReturned, NEW d \in Dep,
         Create(d) \/ ExecutorStep(d) \/ GatesPass(d) \/ HeartbeatFails(d)
  PROVE  LeaseReturned'
<1>1. UNCHANGED <<phase, ab, rec, oldFence>>
  BY ExecutorLeavesReconciler
<1>2. lease \in LeaseRows
  BY Working
<1>3. CASE Create(d)
  <2>1. ex[d].pc = "none"
    BY <1>3, Working DEF Create
  <2>2. lease' = lease /\ \A c \in Dep : ex[c].pc \in Holding => ex'[c].pc \in Holding
    BY <1>3, <2>1 DEF Create, Exec, Holding, IndInv, TypeOK
  <2>3. QED
    BY <1>1, <1>2, <2>2, LeaseKept
<1>4. CASE RunAcquire(d)
  <2>1. CASE CanAcquire(d)
    <3>1. \A f : [ex[d] EXCEPT !.pc = "enter", !.fence = f].pc = "enter"
      BY Working DEF Execs
    <3>2. /\ lease' = Acquired(d)
          /\ ex'[d] = [ex[d] EXCEPT !.pc = "enter", !.fence = Acquired(d).fence]
      BY <1>4, <2>1 DEF RunAcquire, Exec, IndInv, TypeOK
    <3>3. ex'[d].pc = "enter"
      BY <3>1, <3>2
    <3>4. QED
      BY <1>1, <2>1, <3>2, <3>3, LeaseGranted DEF Holding
  <2>2. CASE ~CanAcquire(d)
    <3>1. ex[d].pc \notin Holding
      BY <1>4 DEF RunAcquire, Holding
    <3>2. lease' = lease /\ \A c \in Dep \ {d} : ex'[c] = ex[c]
      BY <1>4, <2>2 DEF RunAcquire, Exec, IndInv, TypeOK
    <3>3. QED
      BY <1>1, <1>2, <3>1, <3>2, LeaseKept
  <2>3. QED
    BY <2>1, <2>2
<1>5. CASE RunRelease(d)
  <2>1. CASE lease.holder = d
    BY <1>5, <2>1, LeaseCleared DEF RunRelease, Released
  <2>2. CASE lease.holder # d
    <3>1. lease' = lease /\ \A c \in Dep \ {d} : ex'[c] = ex[c]
      BY <1>5, <2>2 DEF RunRelease, Released, Exec, IndInv, TypeOK
    <3>2. QED
      BY <1>1, <2>2, <3>1, <1>2 DEF LeaseReturned, Held, LeaseRows
  <2>3. QED
    BY <2>1, <2>2
<1>6. CASE ~Create(d) /\ ~RunAcquire(d) /\ ~RunRelease(d)
  BY <1>1, <1>2, <1>6, ExecutorHolds, LeaseKept
<1>7. QED
  BY <1>3, <1>4, <1>5, <1>6

LEMMA AbortReturnsLease ==
  ASSUME IndInv, LeaseReturned, NEW d \in Dep, AbortRead(d) \/ AbortStep(d)
  PROVE  LeaseReturned'
<1>1. UNCHANGED <<phase, ex, rec, oldFence>>
  BY DEF AbortRead, AbortStep, AbortInspect, AbortBreak, AbortAcquire, AbortMove, AbortRelease
<1>2. lease \in LeaseRows /\ ab[d] \in Aborters /\ ab \in [Dep -> Aborters]
  BY Working DEF IndInv, TypeOK
<1>3. CASE \/ AbortRead(d) \/ AbortInspect(d) \/ AbortMove(d)
           \/ AbortAcquire(d) /\ ~CanAcquire(d)
  <2>1. lease' = lease
    BY <1>3 DEF AbortRead, AbortInspect, AbortMove, AbortAcquire
  <2>2. \A c \in Dep \ {d} : ab'[c] = ab[c]
    BY <1>2, <1>3 DEF AbortRead, AbortInspect, AbortMove, AbortAcquire, Aborter
  <2>3. ab[d].pc \in {"move", "release"} => ab'[d].pc \in {"move", "release"}
    <3>1. CASE AbortMove(d)
      BY <1>2, <3>1 DEF AbortMove, Aborter, Aborters
    <3>2. CASE ~AbortMove(d)
      BY <1>3, <3>2 DEF AbortRead, AbortInspect, AbortAcquire
    <3>3. QED
      BY <3>1, <3>2
  <2>4. QED
    BY <1>1, <1>2, <2>1, <2>2, <2>3, LeaseKept
<1>4. CASE AbortAcquire(d) /\ CanAcquire(d)
  <2>1. \A f : [ab[d] EXCEPT !.pc = "move", !.fence = f].pc = "move"
    BY <1>2 DEF Aborters
  <2>2. /\ lease' = Acquired(d)
        /\ ab'[d] = [ab[d] EXCEPT !.pc = "move", !.fence = Acquired(d).fence]
    BY <1>2, <1>4 DEF AbortAcquire, Aborter
  <2>3. ab'[d].pc = "move"
    BY <2>1, <2>2
  <2>4. QED
    BY <1>1, <1>4, <2>2, <2>3, LeaseGranted
<1>5. CASE AbortBreak(d)
  BY <1>5, LeaseCleared DEF AbortBreak
<1>6. CASE AbortRelease(d)
  <2>1. CASE lease.holder = d
    BY <1>6, <2>1, LeaseCleared DEF AbortRelease, Released
  <2>2. CASE lease.holder # d
    <3>1. lease' = lease /\ \A c \in Dep \ {d} : ab'[c] = ab[c]
      BY <1>2, <1>6, <2>2 DEF AbortRelease, Released, Aborter
    <3>2. QED
      BY <1>1, <1>2, <2>2, <3>1 DEF LeaseReturned, Held, LeaseRows
  <2>3. QED
    BY <2>1, <2>2
<1>7. QED
  BY <1>3, <1>4, <1>5, <1>6 DEF AbortStep

\* A restart finds no reconciler at work, and the reconciler gives back what it
\* took before it looks at the next orphan.
LEMMA ReconcileReturnsLease ==
  ASSUME IndInv, ReconcilerInv, LeaseReturned, Restart \/ ReconcileStep
  PROVE  LeaseReturned'
<1>1. UNCHANGED <<ex, ab, oldFence>>
  BY DEF Restart, ReconcileStep, ReconcileSkips, ReconcileDecides, ReconcileAcquires,
         ReconcileGivesUp, ReconcileMoves, ReconcileReleases, Serve
<1>2. /\ lease \in LeaseRows /\ rec \in Reconcilers
      /\ rec.pc \in {"acquire", "move", "again", "release"} => rec.dep \in Dep
  BY DEF IndInv, TypeOK, ExistInv
<1>3. CASE Restart \/ Serve \/ \E d \in Dep : ReconcileSkips(d) \/ ReconcileDecides(d)
  <2>1. lease' = lease /\ rec.pc \notin {"move", "again", "release"}
    BY <1>3 DEF Restart, Serve, ReconcileSkips, ReconcileDecides, Examined, ReconcilerInv
  <2>2. QED
    BY <1>1, <1>2, <2>1, LeaseKept
<1>4. CASE ReconcileAcquires
  <2>1. /\ rec.dep \in Dep /\ CanAcquire(rec.dep) /\ lease' = Acquired(rec.dep)
        /\ rec'.dep = rec.dep /\ rec'.pc = "move"
    BY <1>2, <1>4 DEF ReconcileAcquires, Reconciler, Reconcilers
  <2>2. QED
    BY <1>1, <2>1, LeaseGranted
<1>5. CASE ReconcileGivesUp \/ ReconcileMoves
  <2>1. lease' = lease /\ rec'.dep = rec.dep /\ rec'.pc \in {"again", "release"}
    BY <1>2, <1>5 DEF ReconcileGivesUp, ReconcileMoves, Reconciler, Reconcilers
  <2>2. QED
    BY <1>1, <1>2, <2>1, LeaseKept
<1>6. CASE ReconcileReleases
  <2>1. CASE lease.holder = rec.dep
    BY <1>6, <2>1, LeaseCleared DEF ReconcileReleases, Released
  <2>2. CASE lease.holder # rec.dep
    <3>1. lease' = lease
      BY <1>6, <2>2 DEF ReconcileReleases, Released
    <3>2. QED
      BY <1>1, <2>2, <3>1 DEF LeaseReturned, Held
  <2>3. QED
    BY <2>1, <2>2
<1>7. QED
  BY <1>3, <1>4, <1>5, <1>6 DEF ReconcileStep

LEMMA StepReturnsLease ==
  ASSUME IndInv, ReconcilerInv, LeaseReturned, [Next]_vars PROVE LeaseReturned'
<1>1. lease \in LeaseRows
  BY DEF IndInv, TypeOK
<1>2. ASSUME NEW d \in Dep, AbortRead(d) \/ AbortStep(d) PROVE LeaseReturned'
  BY <1>2, AbortReturnsLease
<1>3. CASE Crash
  <2>1. lease' = lease /\ oldFence' = lease.fence
    BY <1>3 DEF Crash
  <2>2. QED
    BY <1>1, <2>1 DEF LeaseReturned, LeaseRows
<1>4. CASE \/ OrphanLands \/ LeaseRunsOut \/ LeaseOverrun \/ Drift \/ UNCHANGED vars
           \/ NotifierSaves \/ \E d \in Dep : NotifierReads(d)
  <2>1. UNCHANGED <<ex, ab, rec, oldFence>>
    BY <1>4 DEF OrphanLands, LeaseRunsOut, LeaseOverrun, Drift, NotifierSaves, NotifierReads, vars
  <2>2. lease' \in {lease, [lease EXCEPT !.live = FALSE]}
    BY <1>4 DEF OrphanLands, LeaseRunsOut, LeaseOverrun, Drift, RunsOut, NotifierSaves,
                NotifierReads, vars
  <2>3. /\ lease'.holder = lease.holder /\ lease'.fence = lease.fence
        /\ lease'.live => lease.live
    BY <1>1, <2>2 DEF LeaseRows
  <2>4. QED
    BY <1>1, <2>1, <2>3, LeaseKept
<1>5. QED
  BY <1>2, <1>3, <1>4, ExecutorReturnsLease, ReconcileReturnsLease DEF Next

(***************************************************************************)
(* The safety properties of the engine.                                    *)
(***************************************************************************)

LEMMA SafetyInitially == Init => SafetyInv
<1> SUFFICES ASSUME Init PROVE SafetyInv
  OBVIOUS
<1>1. /\ NoExec.pc = "none" /\ NoExec.at = "PENDING" /\ ~NoExec.lost /\ NoExec.step = 1
      /\ NoRec.pc = "idle" /\ NoRec.goal = "FAILED" /\ NoNote.pc = "idle"
  BY DEF NoExec, NoRec, NoNote
<1>2. ASSUME NEW d \in Dep PROVE RunHistory(d, ex[d], state[d], Kept(d), did[d])
  <2>1. ex[d] = NoExec /\ state[d] = "NONE" /\ previous[d] = NoVersion /\ did[d] = {}
    BY DEF Init
  <2>2. QED
    BY <1>1, <2>1 DEF RunHistory, RowHistory, Placed, KeepsPrevious, Prepared, Writes, Advances,
       Deployed, Baked, Undoes, RollingBack, Cancellable, Early
<1>3. QED
  BY <1>1, <1>2 DEF SafetyInv, HistoryInv, NoticeInv, ReconcilerInv, LeaseReturned, Held, Init

(* What was done for every deployment, its row, its executor and the copy   *)
(* the notifier is about to save agree; the reconciler works only before    *)
(* the server serves; a live lease has a process that gives it back.        *)
THEOREM SafetyInductive == Spec => []SafetyInv
<1>1. IndInv /\ SafetyInv /\ [Next]_vars => SafetyInv'
  BY StepKeepsHistory, StepKeepsNotice, StepKeepsReconciler, StepReturnsLease DEF SafetyInv
<1>2. QED
  BY SafetyInitially, Inductive, <1>1, PTL DEF Spec

(* No provider is called for a deployment before its row says so, or        *)
(* without what to go back to.  The row keeps that through every later      *)
(* write, unless the notifier replaced it, still in PREFLIGHT, by the copy  *)
(* it read before preflight recorded it.  A row that was rolled back never  *)
(* claims anything else again.  For any number of deployments, messages,    *)
(* crashes, aborts, stalls and changes behind the engine's back.            *)
THEOREM Journalled == Spec => []EffectsAreJournalled
<1>1. HistoryInv => EffectsAreJournalled
  BY DEF HistoryInv, RunHistory, RowHistory, KeepsPrevious, Kept, EffectsAreJournalled, Early, Undone
<1>2. QED
  BY <1>1, SafetyInductive, PTL DEF SafetyInv

(* A row says SUCCEEDED only for a deployment that was deployed and baked   *)
(* healthily, and ROLLED_BACK only when the old version was put back.       *)
THEOREM Truthful == Spec => []TruthfulOutcome
<1>1. HistoryInv => TruthfulOutcome
  BY DEF HistoryInv, RunHistory, RowHistory, TruthfulOutcome, Bad
<1>2. QED
  BY <1>1, SafetyInductive, PTL DEF SafetyInv

(* A rollback is started only where the policy has one, never for a manual  *)
(* rollback that failed and never after a bake that could not tell.         *)
THEOREM RollbackMeant == Spec => []RollbackOnlyWhenMeant
<1>1. HistoryInv => RollbackOnlyWhenMeant
  BY DEF HistoryInv, RunHistory, RowHistory, RollbackOnlyWhenMeant
<1>2. QED
  BY <1>1, SafetyInductive, PTL DEF SafetyInv

(* A live lease granted since the last start of the server is held by a     *)
(* process that is still there to give it back.                             *)
THEOREM LeaseIsReturned == Spec => []LeaseReturned
  BY SafetyInductive, PTL DEF SafetyInv
=============================================================================
