-------------------------- MODULE VerificationProofs --------------------------
(* Proofs about one bake: its counters follow its samples, and its verdict  *)
(* follows them too, for every policy the loader accepts.  A step of a bake *)
(* is looked at as a step of the values of its variables (Holds).           *)
EXTENDS Verification, TLAPS

PolicyTyped(p) ==
  {p.bake, p.interval, p.min, p.failure, p.success, p.maxInconclusive} \subseteq Int

\* What decodeVerify and crossValidate ask of a policy, and the bake needs.
PolicyFits(p) ==
  /\ p.interval > 0 /\ p.failure >= 1 /\ p.min >= 1
  /\ p.criteria # <<>> => p.bake \div p.interval >= p.min

EvidenceHolds(p) == CountersFollowEvidence(p) /\ VerdictFollowsEvidence(p)

-----------------------------------------------------------------------------
(* The invariant of a bake as a relation of values.                        *)

RowOf(s, o, k, last) == last >= k /\ \A i \in last - k + 1 .. last : s[i] = o

CountersFit(p, pass, fail, elapsed, s, errors, late) ==
  /\ ~late => elapsed = (Len(s) + errors) * p.interval
  /\ RowOf(s, "good", pass, Len(s)) /\ RowOf(s, "bad", fail, Len(s))
  /\ fail < Len(s) => s[Len(s) - fail] = "good"

VerdictFits(p, v, bake, elapsed, s, errors, late) ==
  /\ v = "unhealthy" => RowOf(s, "bad", p.failure, Len(s))
  /\ \A last \in 1 .. Len(s) :
       RowOf(s, "bad", p.failure, last) => v = "unhealthy" /\ last = Len(s)
  /\ v = "healthy" /\ p.criteria # <<>> =>
       Len(s) >= p.min /\ (elapsed >= bake \/ RowOf(s, "good", p.success, Len(s)))
  /\ v = "inconclusive" => errors > p.maxInconclusive \/ (elapsed >= bake /\ Len(s) < p.min)
  /\ v = "inconclusive" /\ errors = 0 /\ ~late => bake < p.bake

Values(c, v, e) ==
  /\ c \in [bake : Int, elapsed : Int, pass : Nat, fail : Nat, errors : Nat, total : Nat]
  /\ v \in {"none", "healthy", "unhealthy", "inconclusive"}
  /\ e \in [said : Seq({"good", "bad"}), errors : Nat, late : BOOLEAN]
  /\ c.total = Len(e.said) /\ c.errors = e.errors

Holds(p, c, v, e) ==
  /\ Values(c, v, e)
  /\ CountersFit(p, c.pass, c.fail, c.elapsed, e.said, e.errors, e.late)
  /\ VerdictFits(p, v, c.bake, c.elapsed, e.said, e.errors, e.late)

LEMMA Evidently ==
  ASSUME NEW p
  PROVE  /\ EvidenceHolds(p) <=> Holds(p, check, verdict, evidence)
         /\ EvidenceHolds(p)' <=> Holds(p, check', verdict', evidence')
<1>1. EvidenceHolds(p) <=> Holds(p, check, verdict, evidence)
  BY DEF EvidenceHolds, CountersFollowEvidence, VerdictFollowsEvidence, InARow, Lasted,
         Holds, Values, CountersFit, VerdictFits, RowOf
<1>2. EvidenceHolds(p)' <=> Holds(p, check', verdict', evidence')
  BY DEF EvidenceHolds, CountersFollowEvidence, VerdictFollowsEvidence, InARow, Lasted,
         Holds, Values, CountersFit, VerdictFits, RowOf
<1> QED  BY <1>1, <1>2
-----------------------------------------------------------------------------
(* Arithmetic of the window.                                               *)

LEMMA Product ==
  ASSUME NEW a \in Int, NEW b \in Int
  PROVE  a * b \in Int /\ (a + 1) * b = a * b + b
OBVIOUS

LEMMA FewerSamples ==
  ASSUME NEW a \in Int, NEW b \in Int, NEW c \in Int, NEW d \in Int,
         b > 0, a < c, c <= d \div b
  PROVE  a * b < d
<1>1. c * b <= d
  OBVIOUS
<1>2. a * b + b <= c * b
  OBVIOUS
<1>3. a * b \in Int /\ c * b \in Int
  OBVIOUS
<1> QED  BY <1>1, <1>2, <1>3

\* The time a round adds to a bake in which no sample came late.
LEMMA OneRound ==
  ASSUME NEW p, PolicyTyped(p), PolicyFits(p), NEW m \in Nat, NEW elapsed \in Int,
         NEW late \in BOOLEAN, ~late => elapsed = m * p.interval, NEW delay \in {0, p.interval}
  PROVE  /\ elapsed + p.interval + delay \in Int
         /\ ~(late \/ delay > 0) => elapsed + p.interval + delay = (m + 1) * p.interval
<1>1. p.interval \in Int /\ p.interval > 0 /\ delay \in Int
  BY DEF PolicyTyped, PolicyFits
<1>2. (m + 1) * p.interval = m * p.interval + p.interval
  BY <1>1, Product
<1>3. ~(late \/ delay > 0) => ~late /\ delay = 0
  BY <1>1
<1> QED  BY <1>1, <1>2, <1>3

\* Too few samples in a window that has room for them, and none late: it was shortened.
LEMMA TooFewInTime ==
  ASSUME NEW p, PolicyTyped(p), PolicyFits(p), p.criteria # <<>>,
         NEW n \in Nat, NEW bake \in Int, n < p.min, n * p.interval >= bake
  PROVE  bake < p.bake
<1>1. /\ p.bake \in Int /\ p.interval \in Int /\ p.interval > 0 /\ p.min \in Int
      /\ p.min <= p.bake \div p.interval
  BY DEF PolicyTyped, PolicyFits
<1>2. n * p.interval < p.bake
  BY <1>1, FewerSamples
<1>3. n * p.interval \in Int
  BY <1>1, Product
<1> QED  BY <1>1, <1>2, <1>3
-----------------------------------------------------------------------------
(* Samples in a row.                                                       *)

LEMMA Appended ==
  ASSUME NEW s \in Seq({"good", "bad"}), NEW o \in {"good", "bad"}
  PROVE  /\ Append(s, o) \in Seq({"good", "bad"}) /\ Len(Append(s, o)) = Len(s) + 1
         /\ Append(s, o)[Len(s) + 1] = o
         /\ \A i \in 1 .. Len(s) : Append(s, o)[i] = s[i]
         /\ Len(s) \in Nat
OBVIOUS

LEMMA RowGrows ==
  ASSUME NEW s \in Seq({"good", "bad"}), NEW o \in {"good", "bad"}, NEW k \in Nat,
         RowOf(s, o, k, Len(s))
  PROVE  RowOf(Append(s, o), o, k + 1, Len(Append(s, o)))
BY Appended DEF RowOf

\* A row of the samples there were is one of those there are.
LEMMA OldRows ==
  ASSUME NEW s \in Seq({"good", "bad"}), NEW o \in {"good", "bad"}, NEW q \in {"good", "bad"},
         NEW k \in Int, k >= 1, NEW last \in 1 .. Len(s)
  PROVE  RowOf(Append(s, o), q, k, last) <=> RowOf(s, q, k, last)
BY Appended DEF RowOf

\* Part of a row is a row.
LEMMA ShorterRow ==
  ASSUME NEW s, NEW o, NEW k \in Int, NEW l \in Int, NEW last \in Int, l <= k,
         RowOf(s, o, k, last)
  PROVE  RowOf(s, o, l, last)
BY DEF RowOf
-----------------------------------------------------------------------------
(* The steps of a bake.                                                    *)

\* A bake starts with nothing counted, nothing said and no verdict.
LEMMA StartBakeHolds ==
  ASSUME NEW p, PolicyTyped(p), PolicyFits(p), NEW bake \in Int, StartBake(bake)
  PROVE  EvidenceHolds(p)'
<1>1. /\ check' = [bake |-> bake, elapsed |-> 0, pass |-> 0, fail |-> 0, errors |-> 0, total |-> 0]
      /\ verdict' = "none" /\ evidence' = [said |-> <<>>, errors |-> 0, late |-> FALSE]
  BY DEF StartBake, NoCheck, NoEvidence
<1>2. (Len(<<>>) + 0) * p.interval = 0
  BY DEF PolicyTyped
<1>3. Holds(p, check', verdict', evidence')
  BY <1>1, <1>2 DEF Holds, Values, CountersFit, VerdictFits, RowOf
<1> QED  BY <1>3, Evidently

LEMMA VerifyInitHolds ==
  ASSUME NEW p, PolicyTyped(p), PolicyFits(p), VerifyInit
  PROVE  EvidenceHolds(p)
<1>1. /\ check = [bake |-> 0, elapsed |-> 0, pass |-> 0, fail |-> 0, errors |-> 0, total |-> 0]
      /\ verdict = "none" /\ evidence = [said |-> <<>>, errors |-> 0, late |-> FALSE]
  BY DEF VerifyInit, NoCheck, NoEvidence
<1>2. (Len(<<>>) + 0) * p.interval = 0
  BY DEF PolicyTyped
<1>3. Holds(p, check, verdict, evidence)
  BY <1>1, <1>2 DEF Holds, Values, CountersFit, VerdictFits, RowOf
<1> QED  BY <1>3, Evidently

LEMMA EvidenceStays ==
  ASSUME NEW p, EvidenceHolds(p), UNCHANGED verifyVars
  PROVE  EvidenceHolds(p)'
BY Evidently DEF verifyVars

\* The end of a window gives a verdict to a bake that has none.
LEMMA EndOfBakeHolds ==
  ASSUME NEW p, PolicyTyped(p), PolicyFits(p), EvidenceHolds(p), EndOfBake(p)
  PROVE  EvidenceHolds(p)'
<1>1. /\ check' = check /\ evidence' = evidence /\ verdict = "none"
      /\ verdict' = IF p.criteria = <<>> \/ check.total >= p.min THEN "healthy" ELSE "inconclusive"
      /\ p.criteria = <<>> \/ check.elapsed >= check.bake
  BY DEF EndOfBake
<1>2. PICK c, e : c = check /\ e = evidence
  OBVIOUS
<1>3. /\ Values(c, "none", e) /\ CountersFit(p, c.pass, c.fail, c.elapsed, e.said, e.errors, e.late)
      /\ VerdictFits(p, "none", c.bake, c.elapsed, e.said, e.errors, e.late)
  BY <1>1, <1>2, Evidently DEF Holds
<1>4. /\ Len(e.said) \in Nat /\ e.errors \in Nat /\ c.total = Len(e.said)
      /\ c.elapsed \in Int /\ c.bake \in Int /\ p.min \in Int
  BY <1>3 DEF Values, PolicyTyped
<1>5. /\ verdict' \in {"healthy", "inconclusive"}
      /\ verdict' = "healthy" /\ p.criteria # <<>> => Len(e.said) >= p.min /\ c.elapsed >= c.bake
      /\ verdict' = "inconclusive" => p.criteria # <<>> /\ Len(e.said) < p.min /\ c.elapsed >= c.bake
  BY <1>1, <1>2, <1>4
<1>6. ASSUME verdict' = "inconclusive", e.errors = 0, ~e.late
      PROVE  c.bake < p.bake
  <2>1. c.elapsed = Len(e.said) * p.interval
    BY <1>3, <1>4, <1>6 DEF CountersFit
  <2> QED  BY <1>4, <1>5, <1>6, <2>1, TooFewInTime
<1>7. VerdictFits(p, verdict', c.bake, c.elapsed, e.said, e.errors, e.late)
  BY <1>3, <1>5, <1>6 DEF VerdictFits
<1>8. Values(c, verdict', e)
  BY <1>3, <1>5 DEF Values
<1> QED  BY <1>1, <1>2, <1>3, <1>7, <1>8, Evidently DEF Holds

\* A round that tells nothing moves the counter of errors and the time.
LEMMA ErrorHolds ==
  ASSUME NEW p, PolicyTyped(p), PolicyFits(p), NEW c, NEW e, Holds(p, c, "none", e),
         NEW elapsed \in Int, NEW late \in BOOLEAN, NEW v,
         ~late => ~e.late /\ elapsed = (Len(e.said) + e.errors + 1) * p.interval,
         v = "none" \/ (v = "inconclusive" /\ e.errors + 1 > p.maxInconclusive)
  PROVE  Holds(p, [bake |-> c.bake, elapsed |-> elapsed, pass |-> c.pass, fail |-> c.fail,
                   errors |-> c.errors + 1, total |-> c.total], v,
                  [said |-> e.said, errors |-> e.errors + 1, late |-> late])
<1>1. /\ Values(c, "none", e) /\ CountersFit(p, c.pass, c.fail, c.elapsed, e.said, e.errors, e.late)
      /\ VerdictFits(p, "none", c.bake, c.elapsed, e.said, e.errors, e.late)
  BY DEF Holds
<1>2. /\ Len(e.said) \in Nat /\ e.errors \in Nat /\ c.errors = e.errors
      /\ e.said \in Seq({"good", "bad"})
  BY <1>1 DEF Values
<1>3. PICK d, f : /\ d = [bake |-> c.bake, elapsed |-> elapsed, pass |-> c.pass, fail |-> c.fail,
                          errors |-> c.errors + 1, total |-> c.total]
                 /\ f = [said |-> e.said, errors |-> e.errors + 1, late |-> late]
  OBVIOUS
<1>4. Values(d, v, f)
  BY <1>1, <1>3 DEF Values
<1>5. /\ d.bake = c.bake /\ d.pass = c.pass /\ d.fail = c.fail /\ d.elapsed = elapsed
      /\ f.said = e.said /\ f.errors = e.errors + 1 /\ f.late = late
  BY <1>3
<1>6. Len(e.said) + e.errors + 1 = Len(e.said) + (e.errors + 1)
  BY <1>2
<1>7. CountersFit(p, c.pass, c.fail, elapsed, e.said, e.errors + 1, late)
  BY <1>1, <1>6 DEF CountersFit
<1>8. VerdictFits(p, v, c.bake, elapsed, e.said, e.errors + 1, late)
  <2>1. e.errors + 1 # 0
    BY <1>2
  <2> QED  BY <1>1, <2>1 DEF VerdictFits
<1>9. Holds(p, d, v, f)
  BY <1>4, <1>5, <1>7, <1>8 DEF Holds
<1> QED  BY <1>3, <1>9

\* A good sample ends the bad ones in a row, and may be the one that is enough.
LEMMA GoodHolds ==
  ASSUME NEW p, PolicyTyped(p), PolicyFits(p), NEW c, NEW e, Holds(p, c, "none", e),
         NEW elapsed \in Int, NEW late \in BOOLEAN, NEW v,
         ~late => ~e.late /\ elapsed = (Len(e.said) + e.errors + 1) * p.interval,
         v = "none" \/ (v = "healthy" /\ c.pass + 1 >= p.success /\ c.total + 1 >= p.min)
  PROVE  Holds(p, [bake |-> c.bake, elapsed |-> elapsed, pass |-> c.pass + 1, fail |-> 0,
                   errors |-> c.errors, total |-> c.total + 1], v,
                  [said |-> Append(e.said, "good"), errors |-> e.errors, late |-> late])
<1>1. /\ Values(c, "none", e) /\ CountersFit(p, c.pass, c.fail, c.elapsed, e.said, e.errors, e.late)
      /\ VerdictFits(p, "none", c.bake, c.elapsed, e.said, e.errors, e.late)
  BY DEF Holds
<1>2. /\ Len(e.said) \in Nat /\ e.errors \in Nat /\ c.errors = e.errors
      /\ e.said \in Seq({"good", "bad"}) /\ c.pass \in Nat /\ c.total = Len(e.said)
      /\ p.success \in Int /\ p.failure \in Int /\ p.failure >= 1
  BY <1>1 DEF Values, PolicyTyped, PolicyFits
<1>3. PICK s : s = Append(e.said, "good")
  OBVIOUS
<1>4. PICK d, f : /\ d = [bake |-> c.bake, elapsed |-> elapsed, pass |-> c.pass + 1, fail |-> 0,
                          errors |-> c.errors, total |-> c.total + 1]
                 /\ f = [said |-> s, errors |-> e.errors, late |-> late]
  OBVIOUS
<1>5. /\ s \in Seq({"good", "bad"}) /\ Len(s) = Len(e.said) + 1 /\ s[Len(s)] = "good"
  BY <1>2, <1>3, Appended
<1>6. Values(d, v, f)
  BY <1>1, <1>4, <1>5 DEF Values
<1>7. /\ d.bake = c.bake /\ d.pass = c.pass + 1 /\ d.fail = 0 /\ d.elapsed = elapsed
      /\ f.said = s /\ f.errors = e.errors /\ f.late = late
  BY <1>4
<1>8. Len(e.said) + e.errors + 1 = Len(s) + e.errors
  BY <1>2, <1>5
<1>9. RowOf(s, "good", c.pass + 1, Len(s))
  BY <1>1, <1>2, <1>3, RowGrows DEF CountersFit
<1>10. CountersFit(p, c.pass + 1, 0, elapsed, s, e.errors, late)
  <2>1. RowOf(s, "bad", 0, Len(s))
    BY <1>2, <1>5 DEF RowOf
  <2> QED  BY <1>2, <1>5, <1>8, <1>9, <2>1 DEF CountersFit
<1>11. VerdictFits(p, v, c.bake, elapsed, s, e.errors, late)
  <2>1. \A last \in 1 .. Len(e.said) : ~RowOf(s, "bad", p.failure, last)
    BY <1>1, <1>2, <1>3, OldRows DEF VerdictFits
  <2>2. ~RowOf(s, "bad", p.failure, Len(s))
    BY <1>2, <1>5 DEF RowOf
  <2>3. \A last \in 1 .. Len(s) : ~RowOf(s, "bad", p.failure, last)
    BY <1>2, <1>5, <2>1, <2>2
  <2>4. v = "healthy" => Len(s) >= p.min /\ RowOf(s, "good", p.success, Len(s))
    BY <1>2, <1>5, <1>9, ShorterRow
  <2> QED  BY <2>3, <2>4 DEF VerdictFits
<1>12. Holds(p, d, v, f)
  BY <1>6, <1>7, <1>10, <1>11 DEF Holds
<1> QED  BY <1>3, <1>4, <1>12

\* A bad sample ends the good ones in a row, and the verdict comes with the last straw.
LEMMA BadHolds ==
  ASSUME NEW p, PolicyTyped(p), PolicyFits(p), NEW c, NEW e, Holds(p, c, "none", e),
         NEW elapsed \in Int, NEW late \in BOOLEAN, NEW v,
         ~late => ~e.late /\ elapsed = (Len(e.said) + e.errors + 1) * p.interval,
         \/ v = "unhealthy" /\ c.fail + 1 >= p.failure
         \/ v = "none" /\ c.fail + 1 < p.failure
  PROVE  Holds(p, [bake |-> c.bake, elapsed |-> elapsed, pass |-> 0, fail |-> c.fail + 1,
                   errors |-> c.errors, total |-> c.total + 1], v,
                  [said |-> Append(e.said, "bad"), errors |-> e.errors, late |-> late])
<1>1. /\ Values(c, "none", e) /\ CountersFit(p, c.pass, c.fail, c.elapsed, e.said, e.errors, e.late)
      /\ VerdictFits(p, "none", c.bake, c.elapsed, e.said, e.errors, e.late)
  BY DEF Holds
<1>2. /\ Len(e.said) \in Nat /\ e.errors \in Nat /\ c.errors = e.errors
      /\ e.said \in Seq({"good", "bad"}) /\ c.fail \in Nat /\ c.total = Len(e.said)
      /\ p.failure \in Int /\ p.failure >= 1
  BY <1>1 DEF Values, PolicyTyped, PolicyFits
<1>3. PICK s : s = Append(e.said, "bad")
  OBVIOUS
<1>4. PICK d, f : /\ d = [bake |-> c.bake, elapsed |-> elapsed, pass |-> 0, fail |-> c.fail + 1,
                          errors |-> c.errors, total |-> c.total + 1]
                 /\ f = [said |-> s, errors |-> e.errors, late |-> late]
  OBVIOUS
<1>5. s \in Seq({"good", "bad"}) /\ Len(s) = Len(e.said) + 1
  BY <1>2, <1>3, Appended
<1>6. Values(d, v, f)
  BY <1>1, <1>4, <1>5 DEF Values
<1>7. /\ d.bake = c.bake /\ d.pass = 0 /\ d.fail = c.fail + 1 /\ d.elapsed = elapsed
      /\ f.said = s /\ f.errors = e.errors /\ f.late = late
  BY <1>4
<1>8. Len(e.said) + e.errors + 1 = Len(s) + e.errors
  BY <1>2, <1>5
<1>9. RowOf(s, "bad", c.fail + 1, Len(s))
  BY <1>1, <1>2, <1>3, RowGrows DEF CountersFit
<1>10. c.fail + 1 < Len(s) => s[Len(s) - (c.fail + 1)] = "good"
  <2>1. c.fail + 1 < Len(s) => c.fail < Len(e.said) /\ e.said[Len(e.said) - c.fail] = "good"
    BY <1>1, <1>2, <1>5 DEF CountersFit
  <2>2. Len(s) - (c.fail + 1) = Len(e.said) - c.fail
    BY <1>2, <1>5
  <2>3. c.fail < Len(e.said) => Len(e.said) - c.fail \in 1 .. Len(e.said)
    BY <1>2
  <2>4. \A i \in 1 .. Len(e.said) : s[i] = e.said[i]
    BY <1>2, <1>3, Appended
  <2> QED  BY <2>1, <2>2, <2>3, <2>4
<1>11. CountersFit(p, 0, c.fail + 1, elapsed, s, e.errors, late)
  <2>1. RowOf(s, "good", 0, Len(s))
    BY <1>2, <1>5 DEF RowOf
  <2> QED  BY <1>2, <1>5, <1>8, <1>9, <1>10, <2>1 DEF CountersFit
<1>12. VerdictFits(p, v, c.bake, elapsed, s, e.errors, late)
  <2>1. \A last \in 1 .. Len(e.said) : ~RowOf(s, "bad", p.failure, last)
    BY <1>1, <1>2, <1>3, OldRows DEF VerdictFits
  <2>2. v = "unhealthy" => RowOf(s, "bad", p.failure, Len(s))
    BY <1>2, <1>5, <1>9, ShorterRow
  <2>3. ASSUME RowOf(s, "bad", p.failure, Len(s))
        PROVE  v = "unhealthy"
    <3>1. SUFFICES ASSUME c.fail + 1 < p.failure
                   PROVE  FALSE
      BY <1>2
    <3>2. Len(s) >= p.failure /\ \A i \in Len(s) - p.failure + 1 .. Len(s) : s[i] = "bad"
      BY <2>3 DEF RowOf
    <3>3. /\ c.fail + 1 < Len(s)
          /\ Len(s) - (c.fail + 1) \in Len(s) - p.failure + 1 .. Len(s)
      BY <1>2, <1>5, <3>1, <3>2
    <3> QED  BY <1>10, <3>2, <3>3
  <2>4. \A last \in 1 .. Len(s) :
          RowOf(s, "bad", p.failure, last) => v = "unhealthy" /\ last = Len(s)
    BY <1>2, <1>5, <2>1, <2>3
  <2> QED  BY <2>2, <2>4 DEF VerdictFits
<1>13. Holds(p, d, v, f)
  BY <1>6, <1>7, <1>11, <1>12 DEF Holds
<1> QED  BY <1>3, <1>4, <1>13

\* A round of the loop counts one sample of one kind.
LEMMA TakeSampleHolds ==
  ASSUME NEW p, PolicyTyped(p), PolicyFits(p), EvidenceHolds(p), TakeSample(p)
  PROVE  EvidenceHolds(p)'
<1>1. verdict = "none" /\ Holds(p, check, "none", evidence)
  BY Evidently DEF TakeSample
<1>2. PICK outcome \in SampleAll(p.criteria), delay \in {0, p.interval} :
        LET c == Counted(outcome) IN
        /\ check' = [c EXCEPT !.elapsed = @ + p.interval + delay]
        /\ evidence' = [said |-> IF outcome = "error" THEN evidence.said
                                 ELSE Append(evidence.said, outcome),
                        errors |-> evidence.errors + (IF outcome = "error" THEN 1 ELSE 0),
                        late |-> evidence.late \/ delay > 0]
        /\ verdict' = CASE outcome = "error" /\ c.errors > p.maxInconclusive  -> "inconclusive"
                        [] outcome = "good" /\ c.pass >= p.success /\ c.total >= p.min -> "healthy"
                        [] outcome = "bad" /\ c.fail >= p.failure -> "unhealthy"
                        [] OTHER -> "none"
  BY DEF TakeSample
<1>3. outcome \in {"error", "good", "bad"}
  BY DEF SampleAll
<1>4. PICK c, e : c = check /\ e = evidence
  OBVIOUS
<1>5. Holds(p, c, "none", e) /\ Values(c, "none", e) /\
      CountersFit(p, c.pass, c.fail, c.elapsed, e.said, e.errors, e.late)
  BY <1>1, <1>4 DEF Holds
<1>6. PICK elapsed, late : elapsed = c.elapsed + p.interval + delay /\ late = (e.late \/ delay > 0)
  OBVIOUS
<1>7. /\ elapsed \in Int /\ late \in BOOLEAN
      /\ ~late => ~e.late /\ elapsed = (Len(e.said) + e.errors + 1) * p.interval
  <2>1. /\ c.elapsed \in Int /\ e.late \in BOOLEAN /\ Len(e.said) + e.errors \in Nat
        /\ ~e.late => c.elapsed = (Len(e.said) + e.errors) * p.interval
    BY <1>5 DEF Values, CountersFit
  <2>2. PICK m \in Nat : m = Len(e.said) + e.errors
    BY <2>1
  <2>3. /\ c.elapsed + p.interval + delay \in Int
        /\ ~(e.late \/ delay > 0) => c.elapsed + p.interval + delay = (m + 1) * p.interval
    BY <2>1, <2>2, OneRound
  <2> QED  BY <1>6, <2>1, <2>2, <2>3
<1>8. CASE outcome = "error"
  <2>1. check' = [bake |-> c.bake, elapsed |-> elapsed, pass |-> c.pass, fail |-> c.fail,
                  errors |-> c.errors + 1, total |-> c.total]
    BY <1>2, <1>4, <1>5, <1>6, <1>8 DEF Counted, Values
  <2>2. /\ evidence' = [said |-> e.said, errors |-> e.errors + 1, late |-> late]
        /\ verdict' = "none" \/ (verdict' = "inconclusive" /\ e.errors + 1 > p.maxInconclusive)
    BY <1>2, <1>4, <1>5, <1>6, <1>8 DEF Counted, Values
  <2>3. Holds(p, check', verdict', evidence')
    BY <1>5, <1>7, <2>1, <2>2, ErrorHolds
  <2> QED  BY <2>3, Evidently
<1>9. CASE outcome = "good"
  <2>1. check' = [bake |-> c.bake, elapsed |-> elapsed, pass |-> c.pass + 1, fail |-> 0,
                  errors |-> c.errors, total |-> c.total + 1]
    BY <1>2, <1>4, <1>5, <1>6, <1>9 DEF Counted, Values
  <2>2. /\ evidence' = [said |-> Append(e.said, "good"), errors |-> e.errors, late |-> late]
        /\ \/ verdict' = "none"
           \/ verdict' = "healthy" /\ c.pass + 1 >= p.success /\ c.total + 1 >= p.min
    <3>1. Counted("good").pass = c.pass + 1 /\ Counted("good").total = c.total + 1
      BY <1>4, <1>5 DEF Counted, Values
    <3>2. e.errors + 0 = e.errors
      BY <1>5 DEF Values
    <3>3. evidence' = [said |-> Append(e.said, "good"), errors |-> e.errors, late |-> late]
      BY <1>2, <1>4, <1>6, <1>9, <3>2
    <3>4. c.fail \in Int /\ p.failure \in Int
      BY <1>5 DEF Values, PolicyTyped
    <3> QED  BY <1>2, <1>9, <3>1, <3>3, <3>4
  <2>3. Holds(p, check', verdict', evidence')
    BY <1>5, <1>7, <2>1, <2>2, GoodHolds
  <2> QED  BY <2>3, Evidently
<1>10. CASE outcome = "bad"
  <2>1. check' = [bake |-> c.bake, elapsed |-> elapsed, pass |-> 0, fail |-> c.fail + 1,
                  errors |-> c.errors, total |-> c.total + 1]
    BY <1>2, <1>4, <1>5, <1>6, <1>10 DEF Counted, Values
  <2>2. /\ evidence' = [said |-> Append(e.said, "bad"), errors |-> e.errors, late |-> late]
        /\ \/ verdict' = "unhealthy" /\ c.fail + 1 >= p.failure
           \/ verdict' = "none" /\ c.fail + 1 < p.failure
    <3>1. Counted("bad").fail = c.fail + 1 /\ Counted("bad").total = c.total + 1
      BY <1>4, <1>5 DEF Counted, Values
    <3>2. e.errors + 0 = e.errors
      BY <1>5 DEF Values
    <3>3. evidence' = [said |-> Append(e.said, "bad"), errors |-> e.errors, late |-> late]
      BY <1>2, <1>4, <1>6, <1>10, <3>2
    <3>4. c.fail \in Int /\ p.failure \in Int
      BY <1>5 DEF Values, PolicyTyped
    <3>5. verdict' = IF Counted("bad").fail >= p.failure THEN "unhealthy" ELSE "none"
      BY <1>2, <1>10
    <3> QED  BY <3>1, <3>3, <3>4, <3>5
  <2>3. Holds(p, check', verdict', evidence')
    BY <1>5, <1>7, <2>1, <2>2, BadHolds
  <2> QED  BY <2>3, Evidently
<1> QED  BY <1>3, <1>8, <1>9, <1>10
=============================================================================
