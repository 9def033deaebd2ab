---------------------------- MODULE EngineProofs ----------------------------
(***************************************************************************)
(* What is proved about Engine for every number of deployments, every      *)
(* strategy and every bound on aborts, crashes, stalls and drift.  Part    *)
(* one: IndInv is inductive, one lemma per action or group of actions that *)
(* change the same variables.  Part two: Engine implements Lifecycle.      *)
(***************************************************************************)
EXTENDS Engine, TLAPS

\* The notifier's variables are looked at one by one.
USE DEF notice

\* A record that an executor may be left with.
Fine(r) == r \in Execs /\ r.fence <= lease.fence /\ (RollingBack(r) => r.plan \in Version)

\* A step of executor d that leaves it with a fine record, and the rows and the
\* lease with what they may hold, keeps IndInv.
LEMMA ExecutorPreserves ==
  ASSUME IndInv, NEW d \in Dep, NEW r, Fine(r)', Exec(d, r),
         lease' \in LeaseRows, lease.fence <= lease'.fence,
         state' \in [Dep -> State \cup {"NONE"}], state'[d] # "NONE",
         \A c \in Dep : state[c] # "NONE" => state'[c] # "NONE",
         previous' \in [Dep -> Version \cup {NoVersion}],
         wrote' \in Nat, wrote' <= lease'.fence,
         live' \in Version, did' \in [Dep -> SUBSET Effects],
         UNCHANGED <<phase, ab, rec, orphans, oldFence, notice, left>>
  PROVE  IndInv'
<1>1. TypeOK'
  BY DEF IndInv, TypeOK, Exec, Fine
<1>2. PlanInv'
  BY DEF IndInv, TypeOK, Exec, Fine, PlanInv
<1>3. FenceInv'
  <2>1. \A c \in Dep : ex[c].fence \in Nat /\ ab[c].fence \in Nat
    BY DEF IndInv, TypeOK, Execs, Aborters
  <2>2. rec.fence \in Nat /\ lease.fence \in Nat /\ lease'.fence \in Nat
    BY DEF IndInv, TypeOK, LeaseRows, Reconcilers
  <2>3. \A c \in Dep : ex'[c].fence <= lease'.fence
    BY <2>1, <2>2 DEF IndInv, TypeOK, Exec, Fine, FenceInv
  <2>4. QED
    BY <2>1, <2>2, <2>3 DEF IndInv, FenceInv
<1>4. ExistInv'
  <2>1. rec.todo \subseteq Dep
    BY DEF IndInv, TypeOK, Reconcilers
  <2>2. \A c \in Dep : ex'[c].pc # "none" => state'[c] # "NONE"
    BY DEF IndInv, TypeOK, Exec, ExistInv
  <2>3. QED
    BY <2>1, <2>2 DEF IndInv, ExistInv
<1>5. QED
  BY <1>1, <1>2, <1>3, <1>4 DEF IndInv

\* What IndInv says of one deployment.
LEMMA Working ==
  ASSUME IndInv, NEW d \in Dep
  PROVE  /\ ex[d] \in Execs /\ ex[d].fence <= lease.fence
         /\ RollingBack(ex[d]) => ex[d].plan \in Version
         /\ ex[d].pc # "none" => state[d] # "NONE"
         /\ state[d] # "NONE" => state[d] \in State
         /\ ab[d] \in Aborters /\ ab[d].fence <= lease.fence
         /\ lease \in LeaseRows /\ wrote \in Nat /\ wrote <= lease.fence
         /\ live \in Version /\ did \in [Dep -> SUBSET Effects]
         /\ VersionOf[d] \in Version
  BY EngineAssumption DEF IndInv, TypeOK, PlanInv, FenceInv, ExistInv

LEMMA NoExecTyped == NoExec \in Execs
  BY DEF NoExec, Execs, ExecPC, State, TerminalStates

LEMMA FineIdle == ASSUME IndInv PROVE Fine([NoExec EXCEPT !.pc = "done"])
<1>1. [NoExec EXCEPT !.pc = "done"] \in Execs
  BY NoExecTyped DEF Execs, ExecPC
<1>2. [NoExec EXCEPT !.pc = "done"].fence = 0
  BY DEF NoExec
<1>3. 0 <= lease.fence
  BY DEF IndInv, TypeOK, LeaseRows
<1>4. QED
  BY <1>1, <1>2, <1>3, NoExecTyped DEF Fine, RollingBack, Execs

LEMMA FineFailing ==
  ASSUME IndInv, NEW d \in Dep, NEW cause \in {"plain", "blocked", "inconclusive"}
  PROVE  Fine(Failing(d, cause))
<1> DEFINE c == IF ex[d].lost THEN "plain" ELSE cause
<1>1. c \in {"plain", "blocked", "inconclusive"}
  OBVIOUS
<1>2. Failing(d, cause) =
        [NoExec EXCEPT !.pc = "failread", !.at = ex[d].at, !.fence = ex[d].fence,
                       !.prev = ex[d].prev, !.cause = c]
  BY DEF Failing
<1> HIDE DEF c
<1>3. Failing(d, cause) \in Execs
  BY <1>1, <1>2, Working, NoExecTyped DEF Execs, ExecPC, Holding
<1>4. Failing(d, cause).fence = ex[d].fence /\ Failing(d, cause).pc = "failread"
  BY <1>2, NoExecTyped DEF Execs
<1>5. QED
  BY <1>3, <1>4, Working DEF Fine, RollingBack

LEMMA FineProceed ==
  ASSUME IndInv, NEW d \in Dep PROVE Fine(Proceed(d))
  BY Working DEF Fine, Proceed, Execs, ExecPC, Holding, RollingBack

LEMMA FineReturning ==
  ASSUME IndInv, NEW d \in Dep PROVE Fine(Returning(d))
  BY Working DEF Fine, Returning, NoExec, Execs, ExecPC, Holding, RollingBack, State,
                 TerminalStates, WorkStates

\* Any other place of Run's loop, at any step of the canary.
LEMMA FineAt ==
  ASSUME IndInv, NEW d \in Dep, NEW r \in Execs, r.fence = ex[d].fence,
         r.pc \in Holding \ {"settle", "rollback", "restore"}
  PROVE  Fine(r)
  BY Working DEF Fine, RollingBack

LEMMA FineSettling ==
  ASSUME IndInv, NEW d \in Dep, NEW r \in Execs, r.fence = ex[d].fence,
         r.pc = "settle", r.goal # "ROLLING_BACK" \/ r.plan \in Version
  PROVE  Fine(r)
  BY Working DEF Fine, RollingBack

LEMMA FineConcluding ==
  ASSUME IndInv, NEW d \in Dep, NEW goal \in {"ROLLED_BACK", "ROLLBACK_FAILED"}
  PROVE  Fine(Conclude(d, goal))
<1>0. goal \in State
  BY DEF State, TerminalStates
<1>1. Conclude(d, goal) \in Execs
  BY <1>0, Working DEF Conclude, Execs, ExecPC, Holding
<1>2. /\ Conclude(d, goal).fence = ex[d].fence
      /\ Conclude(d, goal).pc = "settle"
      /\ Conclude(d, goal).goal = goal
  BY Working DEF Conclude, Execs
<1>3. QED
  BY <1>1, <1>2, FineSettling

LEMMA LocalPreserves ==
  ASSUME IndInv, NEW d \in Dep, NEW r, Fine(r), Local(d, r), ex[d].pc # "none"
  PROVE  IndInv'
<1>1. Fine(r)'
  BY DEF Fine, Local
<1>2. lease.fence <= lease.fence
  BY Working DEF LeaseRows
<1>3. QED
  BY <1>1, <1>2, ExecutorPreserves, Working DEF Local, rows, world, IndInv, TypeOK

LocalAction(d) ==
  \/ PreflightBlocks(d) \/ PreflightFails(d) \/ PreflightReads(d)
  \/ GatesPass(d) \/ GatesBlock(d) \/ GatesCancelled(d)
  \/ DeployFails(d) \/ ShiftReturns(d) \/ ShiftFails(d) \/ CanaryShifts(d)
  \/ CanaryEnds(d) \/ BakeCancelled(d) \/ Promote(d)
  \/ FailRead(d) \/ FailWithoutRollback(d) \/ FailPlansRollback(d)
  \/ FailRefusesRollback(d) \/ RollbackFails(d) \/ UnshiftReturns(d) \/ UnshiftFails(d)
  \/ RunRead(d) \/ HeartbeatFails(d)

LEMMA LocalActionPreserves ==
  ASSUME IndInv, NEW d \in Dep, LocalAction(d) PROVE IndInv'
<1> USE LocalPreserves
<1>1. CASE PreflightBlocks(d)
  BY <1>1, FineFailing DEF PreflightBlocks, At
<1>2. CASE PreflightFails(d)
  BY <1>2, FineFailing DEF PreflightFails, At
<1>3. CASE GatesBlock(d)
  BY <1>3, FineFailing DEF GatesBlock, At
<1>4. CASE GatesCancelled(d)
  BY <1>4, FineFailing DEF GatesCancelled, At
<1>5. CASE DeployFails(d)
  BY <1>5, FineFailing DEF DeployFails
<1>6. CASE ShiftFails(d)
  BY <1>6, FineFailing DEF ShiftFails
<1>7. CASE BakeCancelled(d)
  BY <1>7, FineFailing DEF BakeCancelled, Baking, At
<1>8. CASE GatesPass(d)
  BY <1>8, FineProceed DEF GatesPass, At
<1>9. CASE CanaryEnds(d)
  BY <1>9, FineProceed DEF CanaryEnds, At
<1>10. CASE Promote(d)
  BY <1>10, FineProceed DEF Promote, At
<1>11. CASE PreflightReads(d)
  <2>1. Fine([ex[d] EXCEPT !.pc = "record", !.prev = live])
    BY FineAt, Working DEF Execs, ExecPC, Holding
  <2>2. QED
    BY <1>11, <2>1 DEF PreflightReads, At
<1>12. CASE ShiftReturns(d)
  <2> DEFINE r == [ex[d] EXCEPT !.pc = "work", !.step = @ + 1]
  <2>1. ex[d].step + 1 \in Nat /\ r = [ex[d] EXCEPT !.pc = "work", !.step = ex[d].step + 1]
    BY Working DEF Execs
  <2>2. r \in Execs
    BY <2>1, Working DEF Execs, ExecPC, Holding
  <2>3. r.fence = ex[d].fence /\ r.pc = "work"
    BY Working DEF Execs
  <2> HIDE DEF r
  <2>4. Fine(r)
    BY <2>2, <2>3, FineAt DEF Holding
  <2>5. Fine([ex[d] EXCEPT !.pc = "work", !.step = @ + 1])
    BY <2>4 DEF r
  <2>6. CASE ex[d].at = "DEPLOYING"
    BY <1>12, <2>6, FineProceed DEF ShiftReturns
  <2>7. CASE ex[d].at # "DEPLOYING"
    BY <1>12, <2>5, <2>7 DEF ShiftReturns
  <2>8. QED
    BY <2>6, <2>7
<1>13. CASE CanaryShifts(d)
  <2>1. Fine([ex[d] EXCEPT !.pc = "shift"])
    BY FineAt, Working DEF Execs, ExecPC, Holding
  <2>2. CASE ex[d].lost
    BY <1>13, <2>2, FineFailing DEF CanaryShifts, At
  <2>3. CASE ~ex[d].lost
    BY <1>13, <2>1, <2>3 DEF CanaryShifts, At
  <2>4. QED
    BY <2>2, <2>3
<1>14. CASE FailRead(d)
  <2>1. state[d] \in State
    BY <1>14, Working DEF FailRead
  <2>2. Fine([ex[d] EXCEPT !.pc = "failrecord", !.at = state[d]])
    BY <2>1, FineAt, Working DEF Execs, ExecPC, Holding
  <2>3. QED
    BY <1>14, <2>2 DEF FailRead
<1>15. ASSUME NEW goal \in State, NEW plan \in Version \cup {NoVersion},
              goal # "ROLLING_BACK" \/ plan \in Version,
              ex[d].pc # "none", Decide(d, goal, plan)
       PROVE  IndInv'
  <2>1. Fine([ex[d] EXCEPT !.pc = "settle", !.cause = "plain", !.goal = goal, !.plan = plan])
    BY <1>15, FineSettling, Working DEF Execs, ExecPC, Holding
  <2>2. QED
    BY <1>15, <2>1 DEF Decide
<1>16. CASE FailWithoutRollback(d)
  BY <1>15, <1>16 DEF FailWithoutRollback, State, TerminalStates
<1>17. CASE FailRefusesRollback(d)
  BY <1>15, <1>17 DEF FailRefusesRollback, State, TerminalStates
<1>18. CASE FailPlansRollback(d)
  <2>1. PICK target \in LastSuccessful(d) : Decide(d, "ROLLING_BACK", target)
    BY <1>18 DEF FailPlansRollback
  <2>2. target \in Version
    BY EngineAssumption DEF LastSuccessful, Newest, Successes, Dep
  <2>3. QED
    BY <1>15, <1>18, <2>1, <2>2 DEF FailPlansRollback, State, WorkStates
<1>19. \A goal \in {"ROLLED_BACK", "ROLLBACK_FAILED"} : Fine(Conclude(d, goal))
  BY FineConcluding
<1>20. CASE RollbackFails(d)
  BY <1>19, <1>20 DEF RollbackFails
<1>21. CASE UnshiftReturns(d)
  BY <1>19, <1>21 DEF UnshiftReturns
<1>22. CASE UnshiftFails(d)
  BY <1>19, <1>22 DEF UnshiftFails
<1>23. CASE RunRead(d)
  <2>1. state[d] \in State /\ previous[d] \in Version \cup {NoVersion}
    BY <1>23, Working DEF RunRead, IndInv, TypeOK
  <2>2. Fine([NoExec EXCEPT !.pc = "done"])
    BY FineIdle
  <2>3. Fine([ex[d] EXCEPT !.pc = "acquire", !.at = state[d], !.prev = previous[d]])
    BY <2>1, Working DEF Fine, Execs, ExecPC, RollingBack
  <2>4. CASE IsTerminal(state[d])
    BY <1>23, <2>2, <2>4 DEF RunRead
  <2>5. CASE ~IsTerminal(state[d])
    BY <1>23, <2>3, <2>5 DEF RunRead
  <2>6. QED
    BY <2>4, <2>5
<1>24. CASE HeartbeatFails(d)
  <2>1. Fine([ex[d] EXCEPT !.lost = TRUE])
    BY Working DEF Fine, Execs, RollingBack
  <2>2. QED
    BY <1>24, <2>1 DEF HeartbeatFails, Cancellable
<1>25. QED
  BY <1>1, <1>2, <1>3, <1>4, <1>5, <1>6, <1>7, <1>8, <1>9, <1>10, <1>11, <1>12, <1>13,
     <1>14, <1>16, <1>17, <1>18, <1>20, <1>21, <1>22, <1>23, <1>24 DEF LocalAction

(* Steps that write the row without moving it, or act on the world.         *)

LEMMA UpdatePreserves ==
  ASSUME IndInv, NEW d \in Dep, NEW r, Fine(r), Exec(d, r), ex[d].pc # "none",
         live' \in Version, did' \in [Dep -> SUBSET Effects],
         previous' \in [Dep -> Version \cup {NoVersion}],
         UNCHANGED <<phase, state, wrote, lease, ab, rec, orphans, oldFence, notice, left>>
  PROVE  IndInv'
<1>1. Fine(r)'
  BY DEF Fine
<1>2. lease.fence <= lease.fence
  BY Working DEF LeaseRows
<1>3. QED
  BY <1>1, <1>2, ExecutorPreserves, Working DEF IndInv, TypeOK

LEMMA DidPreserved ==
  ASSUME IndInv, NEW d \in Dep, NEW what \in Effects, Did(d, what)
  PROVE  did' \in [Dep -> SUBSET Effects]
  BY DEF Did, IndInv, TypeOK

LEMMA RowPreserved ==
  ASSUME IndInv, NEW d \in Dep, UpdateRow(d) \/ UNCHANGED previous
  PROVE  previous' \in [Dep -> Version \cup {NoVersion}]
  BY Working DEF UpdateRow, IndInv, TypeOK, Execs

UpdateAction(d) ==
  \/ PreflightRecords(d) \/ CallDeploy(d) \/ DeployLands(d) \/ DeployReturns(d)
  \/ Healthy(d) \/ Unhealthy(d) \/ Inconclusive(d) \/ FailRecord(d)
  \/ CallRollback(d) \/ RollbackLands(d) \/ RollbackReturns(d)

LEMMA UpdateActionPreserves ==
  ASSUME IndInv, NEW d \in Dep, UpdateAction(d) PROVE IndInv'
<1> USE UpdatePreserves
<1>0. /\ live \in Version /\ VersionOf[d] \in Version
      /\ did \in [Dep -> SUBSET Effects]
      /\ previous \in [Dep -> Version \cup {NoVersion}]
  BY Working DEF IndInv, TypeOK
<1>1. CASE PreflightRecords(d)
  <2>1. previous' \in [Dep -> Version \cup {NoVersion}]
    BY <1>1, RowPreserved DEF PreflightRecords
  <2>2. CASE RowIsAt(d)
    BY <1>0, <1>1, <2>1, <2>2, FineProceed DEF PreflightRecords, world
  <2>3. CASE ~RowIsAt(d)
    BY <1>0, <1>1, <2>1, <2>3, FineFailing DEF PreflightRecords, world
  <2>4. QED
    BY <2>2, <2>3
<1>2. CASE CallDeploy(d)
  <2>1. Fine([ex[d] EXCEPT !.pc = "deploy"])
    BY FineAt, Working DEF Execs, ExecPC, Holding
  <2>2. CASE ex[d].lost
    BY <1>0, <1>2, <2>2, FineFailing DEF CallDeploy, At, rows, world
  <2>3. CASE ~ex[d].lost
    BY <1>0, <1>2, <2>1, <2>3, DidPreserved DEF CallDeploy, At, rows, world, Effects
  <2>4. QED
    BY <2>2, <2>3
<1>3. CASE DeployLands(d)
  <2>1. Fine([ex[d] EXCEPT !.landed = TRUE])
    BY <1>3, FineAt, Working DEF DeployLands, Execs, ExecPC, Holding
  <2>2. QED
    BY <1>0, <1>3, <2>1 DEF DeployLands, rows
<1>4. CASE DeployReturns(d)
  <2>1. previous' \in [Dep -> Version \cup {NoVersion}]
    BY <1>4, RowPreserved DEF DeployReturns
  <2>2. did' \in [Dep -> SUBSET Effects]
    BY <1>4, DidPreserved DEF DeployReturns, Effects
  <2> DEFINE pc == IF Strategy = "blue-green" THEN "shift" ELSE "enter"
  <2>3. pc \in {"shift", "enter"} /\ (RowIsAt(d) => Exec(d, [ex[d] EXCEPT !.pc = pc, !.landed = FALSE]))
    BY <1>4 DEF DeployReturns
  <2> HIDE DEF pc
  <2>4. Fine([ex[d] EXCEPT !.pc = pc, !.landed = FALSE])
    BY <2>3, Working DEF Fine, Execs, ExecPC, Holding, RollingBack
  <2>5. CASE RowIsAt(d)
    BY <1>0, <1>4, <2>1, <2>2, <2>3, <2>4, <2>5 DEF DeployReturns, world
  <2>6. CASE ~RowIsAt(d)
    BY <1>0, <1>4, <2>1, <2>2, <2>6, FineFailing DEF DeployReturns, world
  <2>7. QED
    BY <2>5, <2>6
<1>5. CASE Healthy(d)
  <2>1. did' \in [Dep -> SUBSET Effects]
    BY <1>5, DidPreserved DEF Healthy, Effects
  <2>2. ex[d].step + 1 \in Nat
    BY Working DEF Execs
  <2>3. ex[d].pc = "work"
    BY <1>5 DEF Healthy, Baking, At
  <2>4. Fine([ex[d] EXCEPT !.step = ex[d].step + 1])
    BY <2>2, <2>3, Working DEF Fine, Execs, RollingBack
  <2>5. CASE Strategy = "canary"
    BY <1>0, <1>5, <2>1, <2>3, <2>4, <2>5 DEF Healthy, rows, world
  <2>6. CASE Strategy # "canary"
    BY <1>0, <1>5, <2>1, <2>3, <2>6, FineProceed DEF Healthy, rows, world
  <2>7. QED
    BY <2>5, <2>6
<1>6. CASE Unhealthy(d)
  BY <1>0, <1>6, DidPreserved, FineFailing DEF Unhealthy, Baking, At, Effects, rows, world
<1>7. CASE Inconclusive(d)
  BY <1>0, <1>7, DidPreserved, FineFailing DEF Inconclusive, Baking, At, Effects, rows, world
<1>8. CASE FailRecord(d)
  <2>1. previous' \in [Dep -> Version \cup {NoVersion}]
    BY <1>8, RowPreserved DEF FailRecord
  <2>2. Fine([ex[d] EXCEPT !.pc = "failplan", !.prev = NoVersion])
    BY FineAt, Working DEF Execs, ExecPC, Holding
  <2>3. QED
    BY <1>0, <1>8, <2>1, <2>2 DEF FailRecord, world
<1>9. CASE CallRollback(d)
  <2>1. Fine([ex[d] EXCEPT !.pc = "restore"])
    BY <1>9, Working DEF CallRollback, Fine, RollingBack, Execs, ExecPC, Holding
  <2>2. QED
    BY <1>0, <1>9, <2>1, DidPreserved DEF CallRollback, Effects, rows, world
<1>10. CASE RollbackLands(d)
  <2>1. Fine([ex[d] EXCEPT !.landed = TRUE])
    BY Working DEF Fine, RollingBack, Execs
  <2>2. ex[d].plan \in Version
    BY <1>10, Working DEF RollbackLands, RollingBack
  <2>3. QED
    BY <1>0, <1>10, <2>1, <2>2 DEF RollbackLands, rows
<1>11. CASE RollbackReturns(d)
  <2>1. did' \in [Dep -> SUBSET Effects]
    BY <1>11, DidPreserved DEF RollbackReturns, Effects
  <2>2. Fine(Conclude(d, "ROLLED_BACK"))
    BY FineConcluding
  <2>3. Fine([ex[d] EXCEPT !.pc = "unshift", !.landed = FALSE])
    BY Working DEF Fine, RollingBack, Execs, ExecPC, Holding
  <2>4. CASE Strategy = "rolling"
    BY <1>0, <1>11, <2>1, <2>2, <2>4 DEF RollbackReturns, rows, world
  <2>5. CASE Strategy # "rolling"
    BY <1>0, <1>11, <2>1, <2>3, <2>5 DEF RollbackReturns, rows, world
  <2>6. QED
    BY <2>4, <2>5
<1>12. QED
  BY <1>1, <1>2, <1>3, <1>4, <1>5, <1>6, <1>7, <1>8, <1>9, <1>10, <1>11 DEF UpdateAction

(* Steps that move a row, and steps that move the lease.                    *)

LEMMA Moved ==
  ASSUME IndInv, NEW d \in Dep, NEW f \in Nat, f <= lease.fence, NEW to \in State,
         Move(d, f, to)
  PROVE  /\ state' \in [Dep -> State \cup {"NONE"}] /\ state'[d] # "NONE"
         /\ \A c \in Dep : state[c] # "NONE" => state'[c] # "NONE"
         /\ previous' = previous /\ previous \in [Dep -> Version \cup {NoVersion}]
         /\ wrote' \in Nat /\ wrote' <= lease.fence
<1>1. state \in [Dep -> State \cup {"NONE"}] /\ previous \in [Dep -> Version \cup {NoVersion}]
  BY DEF IndInv, TypeOK
<1>2. "NONE" \notin State
  BY DEF State, WorkStates, TerminalStates
<1>3. QED
  BY <1>1, <1>2, Working DEF Move

LEMMA MovePreserves ==
  ASSUME IndInv, NEW d \in Dep, NEW to \in State, Move(d, ex[d].fence, to),
         NEW r, Fine(r), Exec(d, r),
         UNCHANGED <<phase, lease, ab, rec, world, did, oldFence, notice, left>>
  PROVE  IndInv'
<1>1. Fine(r)'
  BY DEF Fine
<1>2. lease.fence <= lease.fence /\ ex[d].fence \in Nat
  BY Working DEF LeaseRows, Execs
<1>3. QED
  BY <1>1, <1>2, Moved, ExecutorPreserves, Working DEF world

LEMMA EnterPreserves ==
  ASSUME IndInv, NEW d \in Dep, Enter(d) PROVE IndInv'
<1> DEFINE to == StepAfter(ex[d].at)
<1>1. to \in State
  BY DEF StepAfter, State, WorkStates, TerminalStates
<1>2. \/ Move(d, ex[d].fence, to) /\ Entered(d, to)
      \/ NotEntered(d, to) /\ UNCHANGED rows
  BY DEF Enter
<1>3. UNCHANGED <<phase, lease, ab, rec, world, did, oldFence, notice, left>> /\ ex[d].pc = "enter"
  BY DEF Enter
<1> HIDE DEF to
<1>4. Fine([ex[d] EXCEPT !.pc = "work", !.at = to])
  BY <1>1, Working DEF Fine, RollingBack, Execs, ExecPC, Holding
<1>5. CASE Move(d, ex[d].fence, to) /\ Entered(d, to)
  <2>1. CASE to = "SUCCEEDED"
    BY <1>1, <1>3, <1>5, <2>1, FineReturning, MovePreserves DEF Entered
  <2>2. CASE to # "SUCCEEDED"
    BY <1>1, <1>3, <1>4, <1>5, <2>2, MovePreserves DEF Entered
  <2>3. QED
    BY <2>1, <2>2
<1>6. CASE NotEntered(d, to) /\ UNCHANGED rows
  <2>1. CASE to = "SUCCEEDED"
    BY <1>3, <1>6, <2>1, FineReturning, LocalPreserves DEF NotEntered, Local
  <2>2. CASE to # "SUCCEEDED"
    BY <1>3, <1>6, <2>2, FineFailing, LocalPreserves DEF NotEntered, Local
  <2>3. QED
    BY <2>1, <2>2
<1>7. QED
  BY <1>2, <1>5, <1>6

LEMMA SettlePreserves ==
  ASSUME IndInv, NEW d \in Dep, Settle(d) PROVE IndInv'
<1> DEFINE to == ex[d].goal
<1>1. to \in State
  BY Working DEF Execs
<1>2. UNCHANGED <<phase, lease, ab, rec, world, did, oldFence, notice, left>> /\ ex[d].pc = "settle"
  BY DEF Settle
<1>3. CASE MayMove(d, ex[d].fence, ex[d].at, to)
  <2>1. CASE to = "ROLLING_BACK"
    <3>1. Fine([ex[d] EXCEPT !.pc = "rollback", !.at = to])
      BY <1>1, <1>2, <2>1, Working DEF Fine, RollingBack, Execs, ExecPC, Holding
    <3>2. QED
      BY <1>1, <1>2, <1>3, <2>1, <3>1, MovePreserves DEF Settle
  <2>2. CASE to # "ROLLING_BACK"
    BY <1>1, <1>2, <1>3, <2>2, FineReturning, MovePreserves DEF Settle
  <2>3. QED
    BY <2>1, <2>2
<1>4. CASE ~MayMove(d, ex[d].fence, ex[d].at, to)
  BY <1>2, <1>4, FineReturning, LocalPreserves DEF Settle, Local
<1>5. QED
  BY <1>3, <1>4

\* What AcquireLease and ReleaseLease leave in the row.
LEMMA LeaseMoves ==
  ASSUME IndInv, NEW d \in Dep
  PROVE  /\ Acquired(d) \in LeaseRows /\ lease.fence <= Acquired(d).fence
         /\ Cleared \in LeaseRows /\ lease.fence = Cleared.fence
         /\ Released(d) \in LeaseRows /\ lease.fence = Released(d).fence
         /\ lease.fence \in Nat
<1>1. lease \in LeaseRows
  BY Working
<1>2. /\ Acquired(d) \in LeaseRows /\ lease.fence <= Acquired(d).fence
  BY <1>1 DEF Acquired, LeaseRows
<1>3. Cleared \in LeaseRows /\ lease.fence = Cleared.fence
  BY <1>1 DEF Cleared, LeaseRows
<1>4. QED
  BY <1>1, <1>2, <1>3 DEF Released, LeaseRows

LEMMA RunAcquirePreserves ==
  ASSUME IndInv, NEW d \in Dep, RunAcquire(d) PROVE IndInv'
<1>1. CASE CanAcquire(d)
  <2>1. lease' = Acquired(d) /\ ex[d].pc = "acquire"
    BY <1>1 DEF RunAcquire
  <2>2. Acquired(d).fence \in Nat
    BY LeaseMoves DEF LeaseRows
  <2>3. [ex[d] EXCEPT !.pc = "enter", !.fence = Acquired(d).fence] \in Execs
    BY <2>2, Working DEF Execs, ExecPC, Holding
  <2>4. PICK r : r = [ex[d] EXCEPT !.pc = "enter", !.fence = Acquired(d).fence]
    OBVIOUS
  <2>5. r \in Execs /\ r.fence = lease'.fence /\ r.pc = "enter" /\ Exec(d, r)
    BY <1>1, <2>1, <2>3, <2>4, Working DEF Execs, RunAcquire
  <2>6. lease'.fence <= lease'.fence
    BY <2>1, <2>2
  <2>7. Fine(r)'
    BY <2>5, <2>6 DEF Fine, RollingBack
  <2>8. UNCHANGED <<phase, rows, ab, rec, world, did, oldFence, notice, left>>
    BY DEF RunAcquire
  <2>9. wrote \in Nat /\ wrote <= lease'.fence /\ lease' \in LeaseRows /\ lease.fence <= lease'.fence
    BY <2>1, LeaseMoves, Working DEF LeaseRows
  <2>10. state \in [Dep -> State \cup {"NONE"}] /\ state[d] # "NONE"
    BY <2>1, Working DEF IndInv, TypeOK
  <2>11. previous \in [Dep -> Version \cup {NoVersion}]
    BY DEF IndInv, TypeOK
  <2>12. QED
    BY <2>5, <2>7, <2>8, <2>9, <2>10, <2>11, ExecutorPreserves, Working DEF rows, world
<1>2. CASE ~CanAcquire(d)
  BY <1>2, FineIdle, LocalPreserves DEF RunAcquire, Local
<1>3. QED
  BY <1>1, <1>2

LEMMA RunReleasePreserves ==
  ASSUME IndInv, NEW d \in Dep, RunRelease(d) PROVE IndInv'
<1>1. PICK r : r = [NoExec EXCEPT !.pc = "done"]
  OBVIOUS
<1>2. Fine(r) /\ Exec(d, r)
  BY <1>1, FineIdle DEF RunRelease
<1>3. lease' = Released(d) /\ lease'.fence = lease.fence /\ ex[d].pc = "release"
  BY LeaseMoves DEF RunRelease
<1>4. Fine(r)'
  BY <1>2, <1>3 DEF Fine
<1>5. UNCHANGED <<phase, rows, ab, rec, world, did, oldFence, notice, left>>
  BY DEF RunRelease
<1>6. QED
  BY <1>2, <1>3, <1>4, <1>5, LeaseMoves, ExecutorPreserves, Working
     DEF rows, world, IndInv, TypeOK

LEMMA CreatePreserves ==
  ASSUME IndInv, NEW d \in Dep, Create(d) PROVE IndInv'
<1>1. PICK r : r = [ex[d] EXCEPT !.pc = "read"]
  OBVIOUS
<1>2. Fine(r) /\ Exec(d, r)
  BY <1>1, Working DEF Create, Fine, RollingBack, Execs, ExecPC
<1>3. UNCHANGED <<phase, previous, lease, ab, rec, world, did, wrote, oldFence, notice, left>>
  BY DEF Create
<1>4. Fine(r)' /\ lease.fence <= lease'.fence
  BY <1>2, <1>3, Working DEF Fine, LeaseRows
<1>5. /\ state' \in [Dep -> State \cup {"NONE"}] /\ state'[d] # "NONE"
      /\ \A c \in Dep : state[c] # "NONE" => state'[c] # "NONE"
  BY DEF Create, IndInv, TypeOK, State
<1>6. QED
  BY <1>2, <1>3, <1>4, <1>5, ExecutorPreserves, Working DEF world, IndInv, TypeOK

LEMMA ExecutorStepPreserves ==
  ASSUME IndInv, NEW d \in Dep,
         Create(d) \/ ExecutorStep(d) \/ GatesPass(d) \/ HeartbeatFails(d)
  PROVE  IndInv'
<1>1. CASE LocalAction(d)
  BY <1>1, LocalActionPreserves
<1>2. CASE UpdateAction(d)
  BY <1>2, UpdateActionPreserves
<1>3. CASE Create(d) \/ RunAcquire(d) \/ Enter(d) \/ Settle(d) \/ RunRelease(d)
  BY <1>3, CreatePreserves, RunAcquirePreserves, EnterPreserves, SettlePreserves,
     RunReleasePreserves
<1>4. QED
  BY <1>1, <1>2, <1>3 DEF ExecutorStep, LocalAction, UpdateAction

(* Aborts.                                                                  *)

LEMMA AborterPreserves ==
  ASSUME IndInv, NEW d \in Dep, NEW r \in Aborters, Aborter(d, r),
         r.fence <= lease'.fence, lease' \in LeaseRows, lease.fence <= lease'.fence,
         state' \in [Dep -> State \cup {"NONE"}],
         \A c \in Dep : state[c] # "NONE" => state'[c] # "NONE",
         previous' \in [Dep -> Version \cup {NoVersion}],
         wrote' \in Nat, wrote' <= lease'.fence,
         UNCHANGED <<phase, ex, rec, world, did, oldFence, notice>>,
         left' \in [aborts : Nat, crashes : Nat, pauses : Nat, drift : Nat, posts : Nat]
  PROVE  IndInv'
<1>1. TypeOK'
  BY DEF IndInv, TypeOK, Aborter, world
<1>2. PlanInv'
  BY DEF IndInv, PlanInv
<1>3. FenceInv'
  <2>1. \A c \in Dep : ex[c].fence \in Nat /\ ab[c].fence \in Nat
    BY DEF IndInv, TypeOK, Execs, Aborters
  <2>2. rec.fence \in Nat /\ lease.fence \in Nat /\ lease'.fence \in Nat
    BY DEF IndInv, TypeOK, LeaseRows, Reconcilers
  <2>3. \A c \in Dep : ab'[c].fence <= lease'.fence
    BY <2>1, <2>2 DEF IndInv, TypeOK, Aborter, FenceInv
  <2>4. QED
    BY <2>1, <2>2, <2>3 DEF IndInv, FenceInv
<1>4. ExistInv'
  <2>1. rec.todo \subseteq Dep
    BY DEF IndInv, TypeOK, Reconcilers
  <2>2. QED
    BY <2>1 DEF IndInv, ExistInv
<1>5. QED
  BY <1>1, <1>2, <1>3, <1>4 DEF IndInv

LEMMA AbortPreserves ==
  ASSUME IndInv, NEW d \in Dep, AbortRead(d) \/ AbortStep(d) PROVE IndInv'
<1>0. /\ state \in [Dep -> State \cup {"NONE"}] /\ previous \in [Dep -> Version \cup {NoVersion}]
      /\ left \in [aborts : Nat, crashes : Nat, pauses : Nat, drift : Nat, posts : Nat]
      /\ ab[d] \in Aborters /\ ab[d].fence <= lease.fence
      /\ lease \in LeaseRows /\ lease.fence <= lease.fence
      /\ wrote \in Nat /\ wrote <= lease.fence
  BY Working DEF IndInv, TypeOK, LeaseRows
<1>1. NoAbort \in Aborters /\ NoAbort.fence = 0
  BY DEF NoAbort, Aborters, State
<1>2. CASE AbortRead(d)
  <2>1. left.aborts - 1 \in Nat
    BY <1>0, <1>2 DEF AbortRead
  <2>2. left' \in [aborts : Nat, crashes : Nat, pauses : Nat, drift : Nat, posts : Nat]
    BY <1>0, <1>2, <2>1 DEF AbortRead
  <2>3. [ab[d] EXCEPT !.pc = "inspect", !.at = state[d]] \in Aborters
    BY <1>0, <1>2 DEF AbortRead, Aborters
  <2>4. QED
    BY <1>0, <1>2, <2>2, <2>3, AborterPreserves DEF AbortRead, Aborters, rows
<1>3. CASE AbortInspect(d)
  <2>1. PICK pc \in {"break", "acquire"} : Aborter(d, [ab[d] EXCEPT !.pc = pc])
    BY <1>3 DEF AbortInspect
  <2>2. [ab[d] EXCEPT !.pc = pc] \in Aborters /\ [ab[d] EXCEPT !.pc = pc].fence = ab[d].fence
    BY <1>0 DEF Aborters
  <2>3. QED
    BY <1>0, <1>3, <2>1, <2>2, AborterPreserves DEF AbortInspect, rows
<1>4. CASE AbortBreak(d)
  <2>1. /\ [ab[d] EXCEPT !.pc = "acquire"] \in Aborters
        /\ [ab[d] EXCEPT !.pc = "acquire"].fence = ab[d].fence
    BY <1>0 DEF Aborters
  <2>2. QED
    BY <1>0, <1>4, <2>1, LeaseMoves, AborterPreserves DEF AbortBreak, rows
<1>5. CASE AbortAcquire(d)
  <2>1. CASE CanAcquire(d)
    <3>1. lease' = Acquired(d) /\ Acquired(d).fence \in Nat
      BY <1>5, <2>1, LeaseMoves DEF AbortAcquire, LeaseRows
    <3>2. PICK r : r = [ab[d] EXCEPT !.pc = "move", !.fence = Acquired(d).fence]
      OBVIOUS
    <3>3. r \in Aborters /\ r.fence = Acquired(d).fence
      BY <1>0, <3>1, <3>2 DEF Aborters
    <3>4. Aborter(d, r) /\ r.fence <= lease'.fence
      BY <1>5, <2>1, <3>1, <3>2, <3>3 DEF AbortAcquire
    <3>5. wrote <= lease'.fence
      BY <1>0, <3>1, LeaseMoves DEF LeaseRows
    <3>6. QED
      BY <1>0, <1>5, <3>1, <3>3, <3>4, <3>5, LeaseMoves, AborterPreserves DEF AbortAcquire, rows
  <2>2. CASE ~CanAcquire(d)
    BY <1>0, <1>1, <1>5, <2>2, AborterPreserves DEF AbortAcquire, LeaseRows, rows
  <2>3. QED
    BY <2>1, <2>2
<1>6. CASE AbortMove(d)
  <2>1. /\ [ab[d] EXCEPT !.pc = "release"] \in Aborters
        /\ [ab[d] EXCEPT !.pc = "release"].fence = ab[d].fence
    BY <1>0 DEF Aborters
  <2>2. Aborter(d, [ab[d] EXCEPT !.pc = "release"])
        /\ UNCHANGED <<phase, lease, ex, rec, world, did, oldFence, notice, left>>
    BY <1>6 DEF AbortMove
  <2>3. CASE UNCHANGED rows
    BY <1>0, <2>1, <2>2, <2>3, AborterPreserves DEF rows
  <2>4. CASE Move(d, ab[d].fence, "ABORTED")
    <3>1. "ABORTED" \in State /\ ab[d].fence \in Nat
      BY <1>0 DEF State, TerminalStates, Aborters
    <3>2. QED
      BY <1>0, <2>1, <2>2, <2>4, <3>1, Moved, AborterPreserves
  <2>5. QED
    BY <1>6, <2>3, <2>4 DEF AbortMove
<1>7. CASE AbortRelease(d)
  BY <1>0, <1>1, <1>7, LeaseMoves, AborterPreserves DEF AbortRelease, LeaseRows, rows
<1>8. QED
  BY <1>2, <1>3, <1>4, <1>5, <1>6, <1>7 DEF AbortStep

(* The server, the reconciler, and the world outside.                       *)

LEMMA ReconcilerPreserves ==
  ASSUME IndInv, NEW r \in Reconcilers, Reconciler(r), r.fence <= lease'.fence,
         \A d \in r.todo : state[d] # "NONE",
         r.pc \in {"acquire", "move", "again", "release"} => r.dep \in Dep /\ state[r.dep] # "NONE",
         phase' \in {"serving", "down", "reconciling"},
         lease' \in LeaseRows, lease.fence <= lease'.fence,
         state' \in [Dep -> State \cup {"NONE"}],
         \A c \in Dep : state[c] # "NONE" => state'[c] # "NONE",
         previous' \in [Dep -> Version \cup {NoVersion}],
         wrote' \in Nat, wrote' <= lease'.fence,
         UNCHANGED <<ex, ab, world, did, oldFence, notice, left>>
  PROVE  IndInv'
<1>1. TypeOK'
  BY DEF IndInv, TypeOK, Reconciler, world
<1>2. PlanInv'
  BY DEF IndInv, PlanInv
<1>3. FenceInv'
  <2>1. \A c \in Dep : ex[c].fence \in Nat /\ ab[c].fence \in Nat
    BY DEF IndInv, TypeOK, Execs, Aborters
  <2>2. lease.fence \in Nat /\ lease'.fence \in Nat
    BY DEF IndInv, TypeOK, LeaseRows
  <2>3. QED
    BY <2>1, <2>2 DEF IndInv, FenceInv, Reconciler
<1>4. ExistInv'
  <2>1. r.todo \subseteq Dep
    BY DEF Reconcilers
  <2>2. QED
    BY <2>1 DEF IndInv, ExistInv, Reconciler
<1>5. QED
  BY <1>1, <1>2, <1>3, <1>4 DEF IndInv

LEMMA ReconcilePreserves ==
  ASSUME IndInv, Restart \/ ReconcileStep PROVE IndInv'
<1>0. /\ state \in [Dep -> State \cup {"NONE"}] /\ previous \in [Dep -> Version \cup {NoVersion}]
      /\ lease \in LeaseRows /\ lease.fence <= lease.fence /\ 0 <= lease.fence
      /\ wrote \in Nat /\ wrote <= lease.fence
      /\ rec \in Reconcilers /\ rec.fence <= lease.fence
      /\ phase \in {"serving", "down", "reconciling"}
      /\ \A d \in rec.todo : state[d] # "NONE"
      /\ rec.pc \in {"acquire", "move", "again", "release"} => rec.dep \in Dep /\ state[rec.dep] # "NONE"
  BY DEF IndInv, TypeOK, LeaseRows, FenceInv, ExistInv
<1>1. /\ NoRec \in Reconcilers /\ NoRec.fence = 0 /\ NoRec.todo = {} /\ NoRec.pc = "idle"
  BY DEF NoRec, Reconcilers, State, TerminalStates
<1>2. CASE Restart
  <2>1. PICK r : r = [NoRec EXCEPT !.pc = "next", !.todo = Orphaned]
    OBVIOUS
  <2>2. r \in Reconcilers /\ r.fence = 0 /\ r.pc = "next" /\ r.todo = Orphaned
    BY <1>1, <2>1 DEF Reconcilers, Orphaned
  <2>3. Reconciler(r)
    BY <1>2, <2>1 DEF Restart
  <2>4. QED
    BY <1>0, <1>2, <2>2, <2>3, ReconcilerPreserves DEF Restart, Orphaned, rows
<1>3. ASSUME NEW d \in Dep, ReconcileSkips(d) PROVE IndInv'
  <2>1. PICK r : r = [rec EXCEPT !.todo = @ \ {d}]
    OBVIOUS
  <2>2. /\ r \in Reconcilers /\ r.fence = rec.fence /\ r.pc = "next"
        /\ r.todo = rec.todo \ {d}
    BY <1>0, <1>3, <2>1 DEF Reconcilers, ReconcileSkips, Examined
  <2>3. Reconciler(r)
    BY <1>3, <2>1 DEF ReconcileSkips
  <2>4. QED
    BY <1>0, <1>3, <2>2, <2>3, ReconcilerPreserves DEF ReconcileSkips, rows
<1>4. ASSUME NEW d \in Dep, ReconcileDecides(d) PROVE IndInv'
  <2>1. PICK goal \in Verdicts(d) : Reconciler([rec EXCEPT !.pc = "acquire", !.dep = d, !.goal = goal])
    BY <1>4 DEF ReconcileDecides
  <2>2. goal \in State
    BY <2>1 DEF Verdicts, State, WorkStates, TerminalStates
  <2>3. PICK r : r = [rec EXCEPT !.pc = "acquire", !.dep = d, !.goal = goal]
    OBVIOUS
  <2>4. /\ r \in Reconcilers /\ r.fence = rec.fence /\ r.dep = d /\ r.todo = rec.todo
    BY <1>0, <2>2, <2>3 DEF Reconcilers
  <2>5. state[d] # "NONE"
    BY <1>0, <1>4 DEF ReconcileDecides, Examined
  <2>6. QED
    BY <1>0, <1>4, <2>1, <2>3, <2>4, <2>5, ReconcilerPreserves DEF ReconcileDecides, rows
<1>5. CASE ReconcileAcquires
  <2>1. rec.dep \in Dep /\ state[rec.dep] # "NONE" /\ lease' = Acquired(rec.dep)
    BY <1>0, <1>5 DEF ReconcileAcquires
  <2>2. lease' \in LeaseRows /\ lease.fence <= lease'.fence
    BY <2>1, LeaseMoves
  <2>3. PICK r : r = [rec EXCEPT !.pc = "move", !.fence = Acquired(rec.dep).fence]
    OBVIOUS
  <2>4. /\ r \in Reconcilers /\ r.fence = lease'.fence /\ r.dep = rec.dep /\ r.todo = rec.todo
    BY <1>0, <2>1, <2>2, <2>3 DEF Reconcilers, LeaseRows
  <2>5. Reconciler(r) /\ UNCHANGED <<phase, rows, ex, ab, world, did, oldFence, notice, left>>
    BY <1>5, <2>3 DEF ReconcileAcquires
  <2>6. wrote <= lease'.fence /\ lease'.fence <= lease'.fence
    BY <1>0, <2>2 DEF LeaseRows
  <2>7. QED
    BY <1>0, <2>1, <2>2, <2>4, <2>5, <2>6, ReconcilerPreserves DEF rows
<1>10. CASE ReconcileGivesUp
  <2>1. rec.dep \in Dep /\ state[rec.dep] # "NONE" /\ "UNKNOWN" \in State
    BY <1>0, <1>10 DEF ReconcileGivesUp, State, TerminalStates
  <2>2. PICK r : r = [rec EXCEPT !.pc = "again", !.goal = "UNKNOWN"]
    OBVIOUS
  <2>3. /\ r \in Reconcilers /\ r.fence = rec.fence /\ r.dep = rec.dep /\ r.todo = rec.todo
    BY <1>0, <2>1, <2>2 DEF Reconcilers
  <2>4. Reconciler(r) /\ UNCHANGED <<phase, rows, lease, ex, ab, world, did, oldFence, notice, left>>
    BY <1>10, <2>2 DEF ReconcileGivesUp
  <2>5. QED
    BY <1>0, <2>1, <2>3, <2>4, ReconcilerPreserves DEF rows
<1>6. CASE ReconcileMoves
  <2>1. rec.dep \in Dep /\ state[rec.dep] # "NONE"
    BY <1>0, <1>6 DEF ReconcileMoves
  <2>2. PICK r : r = [rec EXCEPT !.pc = "release"]
    OBVIOUS
  <2>3. /\ r \in Reconcilers /\ r.fence = rec.fence /\ r.dep = rec.dep /\ r.todo = rec.todo
    BY <1>0, <2>2 DEF Reconcilers
  <2>4. Reconciler(r) /\ UNCHANGED <<phase, lease, ex, ab, world, did, oldFence, notice, left>>
    BY <1>6, <2>2 DEF ReconcileMoves
  <2>5. PICK to \in State : Move(rec.dep, rec.fence, to) \/ UNCHANGED rows
    <3>1. rec.goal \in State
      BY <1>0 DEF Reconcilers
    <3>2. QED
      BY <1>6, <3>1 DEF ReconcileMoves
  <2>6. CASE UNCHANGED rows
    BY <1>0, <2>1, <2>3, <2>4, <2>6, ReconcilerPreserves DEF rows
  <2>7. CASE Move(rec.dep, rec.fence, to)
    BY <1>0, <2>1, <2>3, <2>4, <2>5, <2>7, Moved, ReconcilerPreserves DEF Reconcilers
  <2>8. QED
    BY <2>5, <2>6, <2>7
<1>7. CASE ReconcileReleases
  <2>1. rec.dep \in Dep /\ lease' = Released(rec.dep)
    BY <1>0, <1>7 DEF ReconcileReleases
  <2>2. lease' \in LeaseRows /\ lease'.fence = lease.fence
    BY <2>1, LeaseMoves
  <2>3. PICK r : r = [NoRec EXCEPT !.pc = "next", !.todo = rec.todo \ {rec.dep}]
    OBVIOUS
  <2>4. /\ r \in Reconcilers /\ r.fence = 0 /\ r.pc = "next"
        /\ r.todo = rec.todo \ {rec.dep}
    BY <1>0, <1>1, <2>3 DEF Reconcilers
  <2>5. Reconciler(r) /\ UNCHANGED <<phase, rows, ex, ab, world, did, oldFence, notice, left>>
    BY <1>7, <2>3 DEF ReconcileReleases
  <2>6. QED
    BY <1>0, <2>2, <2>4, <2>5, ReconcilerPreserves DEF rows
<1>8. CASE Serve
  BY <1>0, <1>1, <1>8, ReconcilerPreserves DEF Serve, rows
<1>9. QED
  BY <1>2, <1>3, <1>4, <1>5, <1>6, <1>7, <1>8, <1>10 DEF ReconcileStep

LEMMA CrashPreserves == ASSUME IndInv, Crash PROVE IndInv'
<1>1. NoExec \in Execs /\ NoExec.fence = 0 /\ NoExec.pc = "none" /\ ~RollingBack(NoExec)
  BY NoExecTyped DEF NoExec, RollingBack
<1>2. NoAbort \in Aborters /\ NoAbort.fence = 0
  BY DEF NoAbort, Aborters, State
<1>3. NoRec \in Reconcilers /\ NoRec.fence = 0 /\ NoRec.todo = {} /\ NoRec.pc = "idle"
  BY DEF NoRec, Reconcilers, State, TerminalStates
<1>4. /\ lease.fence \in Nat /\ wrote <= lease.fence
      /\ left \in [aborts : Nat, crashes : Nat, pauses : Nat, drift : Nat, posts : Nat]
  BY DEF IndInv, TypeOK, FenceInv, LeaseRows
<1>5. orphans' \subseteq Version
  <2>1. ASSUME NEW d \in Dep, InFlight(d) PROVE Deploying(d) \in Version
    BY <2>1, Working DEF InFlight, Deploying, RollingBack
  <2>2. orphans \subseteq Version
    BY DEF IndInv, TypeOK
  <2>3. QED
    BY <2>1, <2>2 DEF Crash
<1>6. left' \in [aborts : Nat, crashes : Nat, pauses : Nat, drift : Nat, posts : Nat]
  BY <1>4 DEF Crash
<1>7. /\ ex' = [d \in Dep |-> NoExec] /\ ab' = [d \in Dep |-> NoAbort] /\ rec' = NoRec
      /\ phase' = "down" /\ oldFence' = lease.fence /\ UNCHANGED <<rows, lease, live, did>>
      /\ note' = NoNote /\ UNCHANGED overwritten
  BY DEF Crash
<1>13. NoNote \in Notes /\ NoNote.pc = "idle"
  BY DEF NoNote, Notes, State
<1>8. TypeOK'
  BY <1>1, <1>2, <1>3, <1>4, <1>5, <1>6, <1>7, <1>13 DEF IndInv, TypeOK, rows
<1>9. PlanInv'
  BY <1>1, <1>7 DEF PlanInv
<1>10. FenceInv'
  BY <1>1, <1>2, <1>3, <1>4, <1>7 DEF FenceInv, rows
<1>11. ExistInv'
  BY <1>1, <1>3, <1>7, <1>13 DEF ExistInv
<1>12. QED
  BY <1>8, <1>9, <1>10, <1>11 DEF IndInv

LEMMA OutsidePreserves ==
  ASSUME IndInv, OrphanLands \/ LeaseRunsOut \/ LeaseOverrun \/ Drift PROVE IndInv'
<1>1. /\ lease \in LeaseRows /\ live \in Version /\ orphans \subseteq Version
      /\ left \in [aborts : Nat, crashes : Nat, pauses : Nat, drift : Nat, posts : Nat]
  BY DEF IndInv, TypeOK
<1>2. /\ UNCHANGED <<phase, rows, ex, ab, rec, did, oldFence, notice>>
      /\ lease' \in LeaseRows /\ lease'.fence = lease.fence
      /\ live' \in Version /\ orphans' \subseteq Version
      /\ left' \in [aborts : Nat, crashes : Nat, pauses : Nat, drift : Nat, posts : Nat]
  <2>1. CASE OrphanLands
    BY <1>1, <2>1 DEF OrphanLands
  <2>2. CASE LeaseRunsOut
    BY <1>1, <2>2 DEF LeaseRunsOut, RunsOut, LeaseRows, world
  <2>3. CASE LeaseOverrun
    <3>1. left.pauses - 1 \in Nat
      BY <1>1, <2>3 DEF LeaseOverrun
    <3>2. left' \in [aborts : Nat, crashes : Nat, pauses : Nat, drift : Nat, posts : Nat]
      BY <1>1, <2>3, <3>1 DEF LeaseOverrun
    <3>3. lease' \in LeaseRows /\ lease'.fence = lease.fence
      BY <1>1, <2>3 DEF LeaseOverrun, RunsOut, LeaseRows
    <3>4. QED
      BY <1>1, <2>3, <3>2, <3>3 DEF LeaseOverrun, world
  <2>4. CASE Drift
    BY <1>1, <2>4 DEF Drift
  <2>5. QED
    BY <2>1, <2>2, <2>3, <2>4
<1>3. QED
  BY <1>2 DEF IndInv, TypeOK, PlanInv, FenceInv, ExistInv, rows

LEMMA NotifierPreserves ==
  ASSUME IndInv, NotifierSaves \/ \E d \in Dep : NotifierReads(d) PROVE IndInv'
<1>1. NoNote \in Notes /\ NoNote.pc = "idle"
  BY DEF NoNote, Notes, State
<1>2. /\ note \in Notes /\ left \in [aborts : Nat, crashes : Nat, pauses : Nat, drift : Nat, posts : Nat]
      /\ state \in [Dep -> State \cup {"NONE"}] /\ previous \in [Dep -> Version \cup {NoVersion}]
      /\ note.pc = "save" => note.dep \in Dep
  BY DEF IndInv, TypeOK, ExistInv
<1>3. /\ UNCHANGED <<phase, state, wrote, lease, ex, ab, rec, world, did, oldFence>>
      /\ previous' \in [Dep -> Version \cup {NoVersion}]
      /\ note' \in Notes /\ (note'.pc = "save" => note'.dep \in Dep /\ state[note'.dep] # "NONE")
      /\ overwritten' \subseteq Dep
      /\ left' \in [aborts : Nat, crashes : Nat, pauses : Nat, drift : Nat, posts : Nat]
  <2>1. CASE NotifierSaves
    <3>1. note.dep \in Dep /\ note.prev \in Version \cup {NoVersion} /\ overwritten \subseteq Dep
      BY <1>2, <2>1 DEF NotifierSaves, Notes, IndInv, TypeOK
    <3>2. QED
      BY <1>1, <1>2, <2>1, <3>1 DEF NotifierSaves
  <2>2. ASSUME NEW d \in Dep, NotifierReads(d)
        PROVE  /\ UNCHANGED <<rows, overwritten>>
               /\ note' \in Notes /\ note'.dep = d /\ state[d] # "NONE"
               /\ left' \in [aborts : Nat, crashes : Nat, pauses : Nat, drift : Nat, posts : Nat]
    <3>1. state[d] \in State /\ previous[d] \in Version \cup {NoVersion}
      BY <1>2, <2>2 DEF NotifierReads
    <3>2. left.posts - 1 \in Nat
      BY <1>2, <2>2 DEF NotifierReads
    <3>3. QED
      BY <1>2, <2>2, <3>1, <3>2 DEF NotifierReads, Notes
  <2>3. CASE \E d \in Dep : NotifierReads(d)
    BY <1>2, <2>2, <2>3 DEF NotifierReads, rows, IndInv, TypeOK
  <2>4. QED
    BY <2>1, <2>3
<1>4. QED
  BY <1>3 DEF IndInv, TypeOK, PlanInv, FenceInv, ExistInv, world

LEMMA IndInvInitially == Init => IndInv
<1> SUFFICES ASSUME Init PROVE IndInv
  OBVIOUS
<1>1. NoExec \in Execs /\ NoExec.fence = 0 /\ NoExec.pc = "none" /\ ~RollingBack(NoExec)
  BY NoExecTyped DEF NoExec, RollingBack
<1>2. NoAbort \in Aborters /\ NoAbort.fence = 0
  BY DEF NoAbort, Aborters, State
<1>3. NoRec \in Reconcilers /\ NoRec.fence = 0 /\ NoRec.todo = {} /\ NoRec.pc = "idle"
  BY DEF NoRec, Reconcilers, State, TerminalStates
<1>7. NoNote \in Notes /\ NoNote.pc = "idle"
  BY DEF NoNote, Notes, State
<1>4. TypeOK
  BY <1>1, <1>2, <1>3, <1>7, EngineAssumption DEF Init, TypeOK, LeaseRows
<1>5. PlanInv /\ FenceInv /\ ExistInv
  BY <1>1, <1>2, <1>3, <1>7 DEF Init, PlanInv, FenceInv, ExistInv
<1>6. QED
  BY <1>4, <1>5 DEF IndInv

(* IndInv is inductive.                                                     *)
THEOREM Inductive == Spec => []IndInv
<1>1. IndInv /\ [Next]_vars => IndInv'
  <2> SUFFICES ASSUME IndInv, [Next]_vars PROVE IndInv'
    OBVIOUS
  <2>1. ASSUME NEW d \in Dep,
               Create(d) \/ ExecutorStep(d) \/ GatesPass(d) \/ HeartbeatFails(d)
        PROVE  IndInv'
    BY <2>1, ExecutorStepPreserves
  <2>2. ASSUME NEW d \in Dep, AbortRead(d) \/ AbortStep(d) PROVE IndInv'
    BY <2>2, AbortPreserves
  <2>3. CASE Crash
    BY <2>3, CrashPreserves
  <2>4. CASE Restart \/ ReconcileStep
    BY <2>4, ReconcilePreserves
  <2>5. CASE OrphanLands \/ LeaseRunsOut \/ LeaseOverrun \/ Drift
    BY <2>5, OutsidePreserves
  <2>8. CASE NotifierSaves \/ \E d \in Dep : NotifierReads(d)
    BY <2>8, NotifierPreserves
  <2>6. CASE UNCHANGED vars
    BY <2>6 DEF vars, IndInv, TypeOK, PlanInv, FenceInv, ExistInv
  <2>7. QED
    BY <2>1, <2>2, <2>3, <2>4, <2>5, <2>6, <2>8 DEF Next
<1>2. QED
  BY IndInvInitially, <1>1, PTL DEF Spec

(* The rows, the lease, the goroutines and the history keep their types.    *)
THEOREM EngineTypes == Spec => []TypeOK
<1>1. IndInv => TypeOK
  BY DEF IndInv
<1>2. QED
  BY <1>1, Inductive, PTL

(***************************************************************************)
(* Engine implements Lifecycle.                                            *)
(***************************************************************************)

\* The moves of the state machine stay inside it, and leave no absorbing state.
LEMMA MovesAreTyped ==
  ASSUME NEW from \in State, NEW to, CanTransition(from, to)
  PROVE  to \in State /\ ~IsTerminal(from)
  BY DEF CanTransition, AllowedTransitions, State, WorkStates, TerminalStates, IsTerminal

\* Only a deployment that was not started is moved without the lease.
LEMMA UnguardedMoves ==
  ASSUME NEW from \in State, NEW to, CanTransition(from, to), ~Guarded(from, to)
  PROVE  from = "PENDING" /\ to \in {"ABORTED", "FAILED"}
  BY DEF CanTransition, AllowedTransitions, State, WorkStates, TerminalStates, Guarded, RequiresLease

\* A step of the engine that moves a row is one of Lifecycle.
LEMMA MoveRefines ==
  ASSUME IndInv, NEW d \in Dep, NEW f \in Nat, f <= lease.fence,
         NEW from \in State, NEW to, MayMove(d, f, from, to), Move(d, f, to), lease' = lease
  PROVE  Abstract!Next
<1>1. state[d] = from /\ CanTransition(from, to) /\ to \in State
  BY MovesAreTyped DEF MayMove
<1>2. state' = [state EXCEPT ![d] = to]
  BY DEF Move
<1>3. CASE Guarded(from, to)
  <2>1. lease.holder = d /\ lease.fence = f
    BY <1>3, Working DEF MayMove, Fenced, LeaseRows
  <2>2. wrote' = lease.fence
    BY <1>1, <1>3, <2>1 DEF Move
  <2>3. Abstract!OwnerMoves(d, to)
    BY <1>1, <1>2, <1>3, <2>1, <2>2
       DEF Abstract!OwnerMoves, Abstract!RequiresLease, Abstract!CanTransition,
           Abstract!AllowedTransitions, Abstract!State, Abstract!WorkStates,
           Abstract!TerminalStates, RequiresLease, CanTransition, AllowedTransitions,
           State, WorkStates, TerminalStates, Guarded
  <2>4. QED
    BY <1>1, <2>3 DEF Abstract!Next, Abstract!State, Abstract!WorkStates,
       Abstract!TerminalStates, State, WorkStates, TerminalStates
<1>4. CASE ~Guarded(from, to)
  <2>1. from = "PENDING" /\ to \in {"ABORTED", "FAILED"}
    BY <1>1, <1>4, UnguardedMoves
  <2>2. wrote' = wrote
    BY <1>1, <1>4 DEF Move
  <2>3. Abstract!AnyoneCloses(d, to)
    BY <1>1, <1>2, <2>1, <2>2 DEF Abstract!AnyoneCloses
  <2>4. QED
    BY <1>1, <2>3 DEF Abstract!Next, Abstract!State, Abstract!WorkStates,
       Abstract!TerminalStates, State, WorkStates, TerminalStates
<1>5. QED
  BY <1>3, <1>4

Stutters == UNCHANGED <<state, lease.holder, lease.fence, wrote>>
Refines == Abstract!Next \/ UNCHANGED Abstract!lifecycleVars

LEMMA StutterRefines == ASSUME Stutters PROVE Refines
  BY DEF Stutters, Refines, Abstract!lifecycleVars

\* AcquireLease grants under the next fence, or hands back the caller's own lease.
LEMMA AcquireRefines ==
  ASSUME IndInv, NEW d \in Dep, CanAcquire(d), lease' = Acquired(d), UNCHANGED rows
  PROVE  Refines
<1>1. CASE Held
  BY <1>1, StutterRefines DEF Acquired, Stutters, rows
<1>2. CASE ~Held
  <2>1. lease'.holder = d /\ lease'.fence = lease.fence + 1
    BY <1>2 DEF Acquired
  <2>2. Abstract!Grant(d)
    BY <2>1 DEF Abstract!Grant, rows
  <2>3. QED
    BY <2>2 DEF Refines, Abstract!Next
<1>3. QED
  BY <1>1, <1>2

\* ReleaseLease and BreakLease give the resource up, or leave it to its holder.
LEMMA ReleaseRefines ==
  ASSUME IndInv, NEW d \in Dep, lease' \in {Released(d), Cleared}, UNCHANGED rows
  PROVE  Refines
<1>1. CASE lease' = Cleared
  <2>1. lease'.holder = NoHolder /\ lease'.fence = lease.fence
    BY <1>1, Working DEF Cleared, LeaseRows
  <2>2. Abstract!Relinquish
    BY <2>1 DEF Abstract!Relinquish, rows
  <2>3. QED
    BY <2>2 DEF Refines, Abstract!Next
<1>2. CASE lease' = lease
  BY <1>2, StutterRefines DEF Stutters, rows
<1>3. QED
  BY <1>1, <1>2 DEF Released

LEMMA CreateRefines ==
  ASSUME IndInv, NEW d \in Dep, Create(d) PROVE Refines
<1>1. Abstract!Create(d)
  BY DEF Create, Abstract!Create
<1>2. QED
  BY <1>1 DEF Refines, Abstract!Next

\* The two steps of an executor that move a row.
LEMMA ExecutorMoveRefines ==
  ASSUME IndInv, NEW d \in Dep, Enter(d) \/ Settle(d) PROVE Refines
<1>1. /\ ex[d].fence \in Nat /\ ex[d].fence <= lease.fence /\ ex[d].at \in State
  BY Working DEF Execs
<1>2. lease' = lease
  BY DEF Enter, Settle
<1>3. \/ UNCHANGED rows
      \/ \E to : MayMove(d, ex[d].fence, ex[d].at, to) /\ Move(d, ex[d].fence, to)
  BY DEF Enter, Settle
<1>4. CASE UNCHANGED rows
  BY <1>2, <1>4, StutterRefines DEF Stutters, rows
<1>5. ASSUME NEW to, MayMove(d, ex[d].fence, ex[d].at, to), Move(d, ex[d].fence, to)
      PROVE  Refines
  BY <1>1, <1>2, <1>5, MoveRefines DEF Refines
<1>6. QED
  BY <1>3, <1>4, <1>5

LEMMA ExecutorRefines ==
  ASSUME IndInv, NEW d \in Dep,
         Create(d) \/ ExecutorStep(d) \/ GatesPass(d) \/ HeartbeatFails(d)
  PROVE  Refines
<1>1. CASE LocalAction(d)
  <2>1. UNCHANGED <<rows, lease>>
    BY <1>1 DEF LocalAction, Local, Decide,
         PreflightBlocks, PreflightFails, PreflightReads, GatesPass, GatesBlock,
         GatesCancelled, DeployFails, ShiftReturns, ShiftFails, CanaryShifts, CanaryEnds,
         BakeCancelled, Promote, FailRead, FailWithoutRollback, FailPlansRollback,
         FailRefusesRollback, RollbackFails, UnshiftReturns, UnshiftFails, RunRead,
         HeartbeatFails
  <2>2. QED
    BY <2>1, StutterRefines DEF Stutters, rows
<1>2. CASE UpdateAction(d)
  <2>1. UNCHANGED <<state, wrote, lease>>
    BY <1>2 DEF UpdateAction, rows, PreflightRecords, CallDeploy, DeployLands,
         DeployReturns, Healthy, Unhealthy, Inconclusive, FailRecord, CallRollback,
         RollbackLands, RollbackReturns
  <2>2. QED
    BY <2>1, StutterRefines DEF Stutters
<1>3. CASE RunAcquire(d)
  <2>1. CASE CanAcquire(d)
    BY <1>3, <2>1, AcquireRefines DEF RunAcquire
  <2>2. CASE ~CanAcquire(d)
    BY <1>3, <2>2, StutterRefines DEF RunAcquire, Stutters, rows
  <2>3. QED
    BY <2>1, <2>2
<1>4. CASE RunRelease(d)
  BY <1>4, ReleaseRefines DEF RunRelease
<1>5. QED
  BY <1>1, <1>2, <1>3, <1>4, CreateRefines, ExecutorMoveRefines
     DEF ExecutorStep, LocalAction, UpdateAction

LEMMA AbortRefines ==
  ASSUME IndInv, NEW d \in Dep, AbortRead(d) \/ AbortStep(d) PROVE Refines
<1>1. CASE AbortRead(d) \/ AbortInspect(d)
  BY <1>1, StutterRefines DEF AbortRead, AbortInspect, Stutters, rows
<1>2. CASE AbortBreak(d)
  BY <1>2, ReleaseRefines DEF AbortBreak
<1>3. CASE AbortAcquire(d)
  <2>1. CASE CanAcquire(d)
    BY <1>3, <2>1, AcquireRefines DEF AbortAcquire
  <2>2. CASE ~CanAcquire(d)
    BY <1>3, <2>2, StutterRefines DEF AbortAcquire, Stutters, rows
  <2>3. QED
    BY <2>1, <2>2
<1>4. CASE AbortMove(d)
  <2>1. /\ ab[d].fence \in Nat /\ ab[d].fence <= lease.fence /\ ab[d].at \in State
    BY Working DEF Aborters
  <2>2. lease' = lease
    BY <1>4 DEF AbortMove
  <2>3. CASE MayMove(d, ab[d].fence, ab[d].at, "ABORTED")
    BY <1>4, <2>1, <2>2, <2>3, MoveRefines DEF AbortMove, Refines
  <2>4. CASE ~MayMove(d, ab[d].fence, ab[d].at, "ABORTED")
    BY <1>4, <2>2, <2>4, StutterRefines DEF AbortMove, Stutters, rows
  <2>5. QED
    BY <2>3, <2>4
<1>5. CASE AbortRelease(d)
  BY <1>5, ReleaseRefines DEF AbortRelease
<1>6. QED
  BY <1>1, <1>2, <1>3, <1>4, <1>5 DEF AbortStep

LEMMA ReconcileRefines ==
  ASSUME IndInv, Restart \/ ReconcileStep PROVE Refines
<1>0. /\ rec \in Reconcilers /\ rec.fence <= lease.fence
      /\ rec.pc \in {"acquire", "move", "again", "release"} => rec.dep \in Dep /\ state[rec.dep] # "NONE"
  BY DEF IndInv, TypeOK, FenceInv, ExistInv
<1>1. CASE \/ Restart \/ Serve \/ ReconcileGivesUp
           \/ \E d \in Dep : ReconcileSkips(d) \/ ReconcileDecides(d)
  BY <1>1, StutterRefines DEF Restart, Serve, ReconcileGivesUp, ReconcileSkips,
     ReconcileDecides, Stutters, rows
<1>2. CASE ReconcileAcquires
  BY <1>0, <1>2, AcquireRefines DEF ReconcileAcquires
<1>3. CASE ReconcileMoves
  <2>1. rec.dep \in Dep /\ state[rec.dep] \in State /\ rec.fence \in Nat
    BY <1>0, <1>3, Working DEF ReconcileMoves, Reconcilers
  <2>2. lease' = lease
    BY <1>3 DEF ReconcileMoves
  <2>3. CASE MayMove(rec.dep, rec.fence, state[rec.dep], rec.goal)
    BY <1>0, <1>3, <2>1, <2>2, <2>3, MoveRefines DEF ReconcileMoves, Refines
  <2>4. CASE ~MayMove(rec.dep, rec.fence, state[rec.dep], rec.goal)
    BY <1>3, <2>2, <2>4, StutterRefines DEF ReconcileMoves, Stutters, rows
  <2>5. QED
    BY <2>3, <2>4
<1>4. CASE ReconcileReleases
  BY <1>0, <1>4, ReleaseRefines DEF ReconcileReleases
<1>5. QED
  BY <1>1, <1>2, <1>3, <1>4 DEF ReconcileStep

LEMMA OutsideRefines ==
  ASSUME IndInv,
         \/ Crash \/ OrphanLands \/ LeaseRunsOut \/ LeaseOverrun \/ Drift
         \/ NotifierSaves \/ \E d \in Dep : NotifierReads(d)
  PROVE  Refines
<1>1. lease'.holder = lease.holder /\ lease'.fence = lease.fence
  <2>1. CASE Crash \/ OrphanLands \/ Drift
    BY <2>1 DEF Crash, OrphanLands, Drift
  <2>2. CASE LeaseRunsOut \/ LeaseOverrun
    BY <2>2 DEF LeaseRunsOut, LeaseOverrun, RunsOut, IndInv, TypeOK, LeaseRows
  <2>3. CASE NotifierSaves \/ \E d \in Dep : NotifierReads(d)
    BY <2>3 DEF NotifierSaves, NotifierReads
  <2>4. QED
    BY <2>1, <2>2, <2>3
<1>2. UNCHANGED <<state, wrote>>
  BY DEF Crash, OrphanLands, LeaseRunsOut, LeaseOverrun, Drift, NotifierSaves, NotifierReads, rows
<1>3. QED
  BY <1>1, <1>2, StutterRefines DEF Stutters

LEMMA StepRefines ==
  ASSUME IndInv, [Next]_vars PROVE Refines
<1>1. CASE UNCHANGED vars
  BY <1>1, StutterRefines DEF vars, Stutters
<1>2. CASE Next
  BY <1>2, ExecutorRefines, AbortRefines, ReconcileRefines, OutsideRefines DEF Next
<1>3. QED
  BY <1>1, <1>2

(* Whatever the executors, aborting callers, crashes, stalls and the        *)
(* reconciler do, the rows and the lease change only as Lifecycle allows:   *)
(* the store's transition table and its fence check are enough for it.      *)
THEOREM Refinement == Spec => ImplementsLifecycle
<1>1. Init => Abstract!Init
  BY DEF Init, Abstract!Init
<1>2. IndInv /\ [Next]_vars => [Abstract!Next]_Abstract!lifecycleVars
  BY StepRefines DEF Refines
<1>3. QED
  BY <1>1, <1>2, Inductive, PTL DEF Spec, ImplementsLifecycle, Abstract!Spec
=============================================================================
