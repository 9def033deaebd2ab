------------------------------ MODULE Rollbacks ------------------------------
(***************************************************************************)
(* Where a rollback goes, and whether it may (internal/engine/rollback.go, *)
(* and the queries of internal/store/store.go it reads), for the rows of   *)
(* one target in the order of their ids.  Pure definitions.                *)
(*                                                                         *)
(* A version is the sequence of its parts; a part has its number, if its   *)
(* text is one, and the rank of its text among all texts.                  *)
(***************************************************************************)
EXTENDS Integers, Sequences, FiniteSets

CONSTANTS
  Manifest,   \* version -> [known, floor, schema, irreversible]
  NoVersion,  \* the empty version string
  NoNumber    \* the number of a part that is not one

Part == [num : Nat \cup {NoNumber}, text : Nat]

ASSUME RollbacksAssumption ==
  /\ NoNumber \notin Nat
  /\ \A v \in DOMAIN Manifest :
       v \in Seq(Part) /\ Manifest[v].floor \in Seq(Part) \cup {NoVersion}

SamePart(p, q) ==
  IF p.num # NoNumber /\ q.num # NoNumber THEN p.num = q.num ELSE p.text = q.text

PartLess(p, q) ==
  IF p.num # NoNumber /\ q.num # NoNumber THEN p.num < q.num ELSE p.text < q.text

\* Versions of which neither is less.
SameVersion(a, b) == Len(a) = Len(b) /\ \A i \in DOMAIN a : SamePart(a[i], b[i])

(* versionLess: the first part that differs decides, or else the length.   *)
VersionLess(a, b) ==
  LET both == DOMAIN a \cap DOMAIN b
      SameUpTo(n) == \A j \in 1 .. n : SamePart(a[j], b[j])
  IN
  /\ a # b
  /\ \/ \E i \in both : SameUpTo(i - 1) /\ PartLess(a[i], b[i])
     \/ (\A i \in both : SamePart(a[i], b[i])) /\ Len(a) < Len(b)

\* Mutant: the floor is compared the wrong way round.
FloorHoldsReversed(from, to) ==
  /\ Manifest[from].known
  /\ Manifest[from].floor # NoVersion => ~VersionLess(Manifest[from].floor, to)

(* checkMigrationFloor: no rollback from a version whose manifest cannot   *)
(* be read, to one below its floor, or across an irreversible migration.   *)
FloorHolds(from, to) ==
  LET f == Manifest[from] IN
  /\ f.known
  /\ f.floor # NoVersion => ~VersionLess(to, f.floor)
  /\ Manifest[to].known /\ Manifest[to].schema # f.schema => ~f.irreversible

NoRow == 0
Newest(ids) == IF ids = {} THEN NoRow ELSE CHOOSE i \in ids : \A j \in ids : j <= i

(* LastSuccessfulBefore.                                                   *)
LastSuccessfulBefore(rows, i) ==
  Newest({j \in DOMAIN rows : j < i /\ rows[j].state = "SUCCEEDED"})

(* PlanRollback, to the row whose version is to be deployed again, or      *)
(* NoRow for a refusal; `checked` when the floor is to be checked and      *)
(* there are manifests to check it with.                                   *)
PlanRollback(rows, i, checked) ==
  LET target == LastSuccessfulBefore(rows, i) IN
  IF target # NoRow /\ (checked => FloorHolds(rows[i].version, rows[target].version))
    THEN target ELSE NoRow

(* CountRollbacks: the rows of a version that ended in a rollback, or as a *)
(* failed one, created since `since`.                                      *)
CountRollbacks(rows, version, since) ==
  Cardinality({j \in DOMAIN rows : /\ rows[j].version = version
                                   /\ rows[j].created >= since
                                   /\ rows[j].state \in {"ROLLED_BACK", "ROLLBACK_FAILED"}})

\* Mutant: one attempt more than the policy allows.
BudgetLeftOneMore(rows, version, since, max) == CountRollbacks(rows, version, since) <= max

(* CheckRollbackBudget.                                                    *)
BudgetLeft(rows, version, since, max) == CountRollbacks(rows, version, since) < max
=============================================================================
