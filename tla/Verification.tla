----------------------------- MODULE Verification -----------------------------
(***************************************************************************)
(* The verification loop of internal/engine/verify.go: Verify, sampleAll   *)
(* and EvaluateCriterion, for one bake of one deployment.  Time is counted *)
(* from the start of the bake; a slow verifier makes the ticker skip.  The *)
(* rows RecordSample writes are read by pages only and are left out.  A run *)
(* whose context is cancelled is in module Engine.                         *)
(***************************************************************************)
EXTENDS Config

CONSTANTS
  Observed   \* what a verifier may answer: [value, baseline]

VARIABLES
  check,     \* the counters of Verify and the time that has gone by
  verdict,   \* "none" until Verify returns
  evidence   \* history: what the samples that said anything said, how many
             \* did not, and whether one came late

verifyVars == <<check, verdict, evidence>>

NoCheck == [bake |-> 0, elapsed |-> 0, pass |-> 0, fail |-> 0, errors |-> 0, total |-> 0]
NoEvidence == [said |-> <<>>, errors |-> 0, late |-> FALSE]

VerifyInit == check = NoCheck /\ verdict = "none" /\ evidence = NoEvidence

StartBake(bake) ==
  /\ check' = [NoCheck EXCEPT !.bake = bake]
  /\ verdict' = "none"
  /\ evidence' = NoEvidence

\* EvaluateCriterion: the floor first, then the maximum, then the ratio.
EvaluateCriterion(c, s) ==
  LET beyondFloor == IF c.lower THEN s.value <= c.floor ELSE c.floor > 0 /\ s.value >= c.floor
      overMax     == Set(c.max) /\ IF c.lower THEN s.value > c.max ELSE s.value < c.max
      overRatio   == /\ Set(c.maxRatio) /\ s.baseline > 0
                     /\ IF c.lower THEN 100 * s.value > c.maxRatio * s.baseline
                                   ELSE 100 * s.baseline > c.maxRatio * s.value
  IN  beyondFloor \/ ~(overMax \/ overRatio)

(* sampleAll: one criterion that cannot be observed makes the sample       *)
(* inconclusive, and it is good only if every criterion passes.            *)
SampleAll(criteria) ==
  {"error"} \cup
  {IF \A i \in DOMAIN criteria : EvaluateCriterion(criteria[i], seen[i]) THEN "good" ELSE "bad"
     : seen \in [DOMAIN criteria -> Observed]}

\* Mutant: failures are counted, not failures in a row.
CountedCumulative(outcome) ==
  CASE outcome = "good" -> [check EXCEPT !.pass = @ + 1, !.total = @ + 1]
    [] outcome = "bad"  -> [check EXCEPT !.fail = @ + 1, !.pass = 0, !.total = @ + 1]
    [] OTHER            -> [check EXCEPT !.errors = @ + 1]

(* The counters after a sample: an error leaves those of passes and        *)
(* failures in a row alone.                                                *)
Counted(outcome) ==
  CASE outcome = "good" -> [check EXCEPT !.pass = @ + 1, !.fail = 0, !.total = @ + 1]
    [] outcome = "bad"  -> [check EXCEPT !.fail = @ + 1, !.pass = 0, !.total = @ + 1]
    [] OTHER            -> [check EXCEPT !.errors = @ + 1]

(* One round of the loop, `delay` being what the verifier's slowness adds. *)
TakeSample(p) ==
  /\ verdict = "none" /\ p.criteria # <<>>
  /\ check.elapsed < check.bake
  /\ \E outcome \in SampleAll(p.criteria), delay \in {0, p.interval} :
       LET c == Counted(outcome) IN
       /\ check' = [c EXCEPT !.elapsed = @ + p.interval + delay]
       /\ evidence' = [said |-> IF outcome = "error" THEN evidence.said
                                ELSE Append(evidence.said, outcome),
                       errors |-> evidence.errors + (IF outcome = "error" THEN 1 ELSE 0),
                       late |-> evidence.late \/ delay > 0]
       /\ verdict' = CASE outcome = "error" /\ c.errors > p.maxInconclusive  -> "inconclusive"
                       [] outcome = "good" /\ c.pass >= p.success /\ c.total >= p.min -> "healthy"
                       [] outcome = "bad" /\ c.fail >= p.failure -> "unhealthy"
                       [] OTHER -> "none"

(* Nothing to check is healthy; a window that ends is healthy if it held   *)
(* samples enough.                                                         *)
EndOfBake(p) ==
  /\ verdict = "none"
  /\ p.criteria = <<>> \/ check.elapsed >= check.bake
  /\ verdict' = IF p.criteria = <<>> \/ check.total >= p.min THEN "healthy" ELSE "inconclusive"
  /\ UNCHANGED <<check, evidence>>
-----------------------------------------------------------------------------
(* Properties.                                                             *)

\* The `n` samples up to the one numbered `last` all said the same.
InARow(outcome, n, last) ==
  /\ last >= n
  /\ \A i \in last - n + 1 .. last : evidence.said[i] = outcome

Lasted == check.elapsed >= check.bake

(* "One bad sample is noise; three in a row is a signal", "rolling back on *)
(* missing data is how a monitoring outage becomes a deployment outage":   *)
(* the verdict is what the samples say.  Unhealthy means that the last     *)
(* failure_threshold samples that said anything were bad, and the verdict  *)
(* is given as soon as they are; healthy means enough good ones in a row,  *)
(* or a whole window without that; inconclusive means too many errors or   *)
(* too few samples.  And a policy that was accepted is not inconclusive    *)
(* when every sample arrives in time, unless a canary step shortens it.    *)
VerdictFollowsEvidence(p) ==
  LET n == Len(evidence.said)
      Failed(last) == InARow("bad", p.failure, last)
  IN
  /\ verdict = "unhealthy" => Failed(n)
  /\ \A last \in 1 .. n : Failed(last) => verdict = "unhealthy" /\ last = n
  /\ verdict = "healthy" /\ p.criteria # <<>> =>
       n >= p.min /\ (Lasted \/ InARow("good", p.success, n))
  /\ verdict = "inconclusive" => evidence.errors > p.maxInconclusive \/ (Lasted /\ n < p.min)
  /\ verdict = "inconclusive" /\ evidence.errors = 0 /\ ~evidence.late => check.bake < p.bake

(* What Verify knows while it samples: its counters are those of the       *)
(* samples, of the last ones in a row, and of the time they took.          *)
CountersFollowEvidence(p) ==
  LET n == Len(evidence.said) IN
  /\ check \in [bake : Int, elapsed : Int, pass : Nat, fail : Nat, errors : Nat, total : Nat]
  /\ verdict \in {"none", "healthy", "unhealthy", "inconclusive"}
  /\ evidence \in [said : Seq({"good", "bad"}), errors : Nat, late : BOOLEAN]
  /\ check.total = n /\ check.errors = evidence.errors
  /\ ~evidence.late => check.elapsed = (n + evidence.errors) * p.interval
  /\ InARow("good", check.pass, n)
  /\ InARow("bad", check.fail, n)
  /\ check.fail < n => evidence.said[n - check.fail] = "good"
=============================================================================
