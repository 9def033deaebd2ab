----------------------------- MODULE StoreProofs -----------------------------
(***************************************************************************)
(* The properties of Store for every number of keys, callers, transactions,*)
(* faults and crashes, and for torn records of any length.  What replay    *)
(* reads of a file is a recursive function over its positions: facts about *)
(* it are proved for the least position at which they would be false.      *)
(***************************************************************************)
EXTENDS StoreInvariants, SequenceTheorems, WellFoundedInduction, TLAPS

(***************************************************************************)
(* Numbers and sequences.                                                  *)
(***************************************************************************)

LEMMA Least ==
  ASSUME NEW S \in SUBSET Nat, S # {}
  PROVE  \E n \in S : \A k \in S : n <= k
<1> DEFINE Smaller == {ss \in Nat \X Nat : ss[1] < ss[2]}
<1>1. IsWellFoundedOn(Smaller, Nat)
  BY NatLessThanWellFounded DEF OpToRel
<1>2. PICK n \in S : \A k \in S : <<k, n>> \notin Smaller
  <2> HIDE DEF Smaller
  <2> QED  BY <1>1, WFMin
<1>3. \A a, b \in Nat : a < b => <<a, b>> \in Smaller
  OBVIOUS
<1> HIDE DEF Smaller
<1>4. ASSUME NEW k \in S PROVE n <= k
  <2>1. n \in Nat /\ k \in Nat
    OBVIOUS
  <2>2. ~(k < n)
    BY <1>2, <1>3, <2>1
  <2> QED  BY <2>1, <2>2
<1> QED  BY <1>4

\* A set of numbers without a least one that is not in it is all of them.
LEMMA FromLeast ==
  ASSUME NEW n \in Nat, NEW S,
         \A k \in 0 .. n : (\A j \in 0 .. k - 1 : j \in S) => k \in S
  PROVE  \A k \in 0 .. n : k \in S
<1> DEFINE T == {k \in 0 .. n : k \notin S}
<1>1. SUFFICES ASSUME T # {} PROVE FALSE
  OBVIOUS
<1>2. T \in SUBSET Nat
  OBVIOUS
<1>3. PICK k \in T : \A j \in T : k <= j
  <2> HIDE DEF T
  <2> QED  BY <1>1, <1>2, Least
<1>4. \A j \in 0 .. k - 1 : j \in S
  BY <1>3
<1> QED  BY <1>4

LEMMA Greatest ==
  ASSUME NEW n \in Nat, NEW S \in SUBSET (1 .. n), S # {}
  PROVE  Max(S) \in S /\ \A j \in S : j <= Max(S)
<1> DEFINE Above == {k \in Nat : \A j \in S : j <= k}
<1>1. n \in Above
  OBVIOUS
<1>2. PICK k \in Above : \A j \in Above : k <= j
  <2>1. Above \in SUBSET Nat
    OBVIOUS
  <2> HIDE DEF Above
  <2> QED  BY <1>1, <2>1, Least
<1>3. k \in S
  <2>1. SUFFICES ASSUME k \notin S PROVE FALSE
    OBVIOUS
  <2>2. PICK i \in S : TRUE
    OBVIOUS
  <2>3. k - 1 \in Nat /\ \A j \in S : j <= k - 1
    BY <1>2, <2>1, <2>2
  <2>4. k - 1 \in Above
    BY <2>3
  <2> QED  BY <1>2, <2>4
<1>4. \E i \in S : \A j \in S : i >= j
  BY <1>2, <1>3
<1>5. Max(S) \in S /\ \A j \in S : Max(S) >= j
  BY <1>4 DEF Max
<1> QED  BY <1>5

LEMMA Sequences ==
  ASSUME NEW s, IsSequence(s)
  PROVE  Len(s) \in Nat /\ DOMAIN s = 1 .. Len(s)
BY LenProperties DEF IsSequence

LEMMA SequenceOf ==
  ASSUME NEW S, NEW s \in Seq(S)
  PROVE  IsSequence(s)
<1>1. s \in [1 .. Len(s) -> {s[i] : i \in DOMAIN s}] /\ Len(s) \in Nat
  BY LenProperties
<1> QED  BY <1>1 DEF IsSequence

\* Two sequences, end to end.
LEMMA Concatenated ==
  ASSUME NEW s, NEW t, IsSequence(s), IsSequence(t)
  PROVE  /\ IsSequence(s \o t) /\ Len(s \o t) = Len(s) + Len(t)
         /\ DOMAIN (s \o t) = 1 .. Len(s) + Len(t)
         /\ \A i \in DOMAIN s : (s \o t)[i] = s[i]
         /\ \A i \in DOMAIN t : (s \o t)[Len(s) + i] = t[i]
<1> DEFINE S == {s[i] : i \in DOMAIN s} \cup {t[i] : i \in DOMAIN t}
<1>1. s \in Seq(S) /\ t \in Seq(S)
  BY SeqMonotonic DEF IsSequence
<1> HIDE DEF S
<1>2. s \o t \in Seq(S) /\ Len(s \o t) = Len(s) + Len(t)
  BY <1>1, ConcatProperties
<1>3. IsSequence(s \o t) /\ DOMAIN (s \o t) = 1 .. Len(s \o t)
  BY <1>2, SequenceOf, LenProperties
<1>4. \A i \in 1 .. Len(s) + Len(t) :
        (s \o t)[i] = IF i <= Len(s) THEN s[i] ELSE t[i - Len(s)]
  BY <1>1, ConcatProperties
<1>5. Len(s) \in Nat /\ Len(t) \in Nat /\ DOMAIN s = 1 .. Len(s) /\ DOMAIN t = 1 .. Len(t)
  BY Sequences
<1> QED  BY <1>2, <1>3, <1>4, <1>5

LEMMA Appended ==
  ASSUME NEW s, IsSequence(s), NEW x
  PROVE  /\ IsSequence(Append(s, x)) /\ Len(Append(s, x)) = Len(s) + 1
         /\ DOMAIN Append(s, x) = 1 .. Len(s) + 1
         /\ \A i \in DOMAIN s : Append(s, x)[i] = s[i]
         /\ Append(s, x)[Len(s) + 1] = x
<1> DEFINE S == {s[i] : i \in DOMAIN s} \cup {x}
<1>1. s \in Seq(S) /\ x \in S
  BY SeqMonotonic DEF IsSequence
<1> HIDE DEF S
<1>2. Append(s, x) \in Seq(S) /\ Len(Append(s, x)) = Len(s) + 1
  BY <1>1
<1>3. IsSequence(Append(s, x)) /\ DOMAIN Append(s, x) = 1 .. Len(Append(s, x))
  BY <1>2, SequenceOf, LenProperties
<1>4. (\A i \in 1 .. Len(s) : Append(s, x)[i] = s[i]) /\ Append(s, x)[Len(s) + 1] = x
  BY <1>1
<1>5. DOMAIN s = 1 .. Len(s)
  BY Sequences
<1> QED  BY <1>2, <1>3, <1>4, <1>5

LEMMA Prefix ==
  ASSUME NEW s, IsSequence(s), NEW n \in 0 .. Len(s)
  PROVE  /\ IsSequence(SubSeq(s, 1, n)) /\ Len(SubSeq(s, 1, n)) = n
         /\ \A i \in 1 .. n : SubSeq(s, 1, n)[i] = s[i]
<1> DEFINE S == {s[i] : i \in DOMAIN s}
<1>1. s \in Seq(S)
  BY DEF IsSequence
<1>2. n \in Int /\ 1 \in Int /\ n <= Len(s) /\ DOMAIN s = 1 .. Len(s) /\ Len(s) \in Nat
  BY Sequences
<1>3. \A i \in 1 .. n : s[i] \in S
  BY <1>2
<1> HIDE DEF S
<1>4. /\ SubSeq(s, 1, n) \in Seq(S)
      /\ Len(SubSeq(s, 1, n)) = IF 1 <= n THEN n - 1 + 1 ELSE 0
      /\ \A i \in 1 .. n - 1 + 1 : SubSeq(s, 1, n)[i] = s[1 + i - 1]
  BY <1>2, <1>3, SubSeqProperties
<1>5. IsSequence(SubSeq(s, 1, n))
  BY <1>4, SequenceOf
<1> QED  BY <1>2, <1>4, <1>5
-----------------------------------------------------------------------------
(***************************************************************************)
(* The reader of the journal.                                              *)
(***************************************************************************)

ReadsTo(items, f, n) ==
  f = [i \in 0 .. n |-> IF i = 0 THEN ReplayStart ELSE ReadItem(f[i - 1], items[i], i)]

\* There is one reading of a file: the recursion defines it.
LEMMA ReadingExists ==
  ASSUME NEW items, NEW n \in Nat
  PROVE  \E f : ReadsTo(items, f, n)
<1> DEFINE S == {k \in Nat : \E f : ReadsTo(items, f, k)}
<1>1. ASSUME NEW k \in 0 .. n, \A j \in 0 .. k - 1 : j \in S
      PROVE  k \in S
  <2>1. CASE k = 0
    <3>1. ReadsTo(items, [i \in 0 .. 0 |-> ReplayStart], 0)
      BY DEF ReadsTo
    <3> QED  BY <2>1, <3>1
  <2>2. CASE k # 0
    <3>1. k - 1 \in 0 .. k - 1
      BY <2>2
    <3>2. PICK g : ReadsTo(items, g, k - 1)
      BY <1>1, <3>1
    <3> DEFINE f == [i \in 0 .. k |-> IF i = k THEN ReadItem(g[k - 1], items[k], k) ELSE g[i]]
    <3>3. g = [i \in 0 .. k - 1 |-> IF i = 0 THEN ReplayStart ELSE ReadItem(g[i - 1], items[i], i)]
      BY <3>2 DEF ReadsTo
    <3>4. ASSUME NEW i \in 0 .. k
          PROVE  f[i] = IF i = 0 THEN ReplayStart ELSE ReadItem(f[i - 1], items[i], i)
      <4>1. CASE i = k
        BY <2>2, <4>1
      <4>2. CASE i # k
        <5>1. i \in 0 .. k - 1 /\ f[i] = g[i] /\ (i # 0 => f[i - 1] = g[i - 1])
          BY <4>2
        <5>2. g[i] = IF i = 0 THEN ReplayStart ELSE ReadItem(g[i - 1], items[i], i)
          BY <3>3, <5>1
        <5> HIDE DEF f
        <5> QED  BY <5>1, <5>2
      <4> QED  BY <4>1, <4>2
    <3>5. f = [i \in 0 .. k |-> IF i = 0 THEN ReplayStart ELSE ReadItem(f[i - 1], items[i], i)]
      <4>1. f = [i \in 0 .. k |-> f[i]]
        OBVIOUS
      <4> HIDE DEF f
      <4> QED  BY <3>4, <4>1
    <3> HIDE DEF f
    <3> QED  BY <3>5 DEF ReadsTo
  <2> QED  BY <2>1, <2>2
<1> HIDE DEF S
<1>2. n \in S
  BY <1>1, FromLeast
<1> QED  BY <1>2 DEF S

LEMMA ReadingIs ==
  ASSUME NEW items, IsSequence(items)
  PROVE  /\ Reading(items)[0] = ReplayStart
         /\ \A i \in 1 .. Len(items) :
              Reading(items)[i] = ReadItem(Reading(items)[i - 1], items[i], i)
<1>1. Len(items) \in Nat
  BY Sequences
<1>2. ReadsTo(items, Reading(items), Len(items))
  BY <1>1, ReadingExists DEF ReadsTo, Reading
<1>3. \A i \in 0 .. Len(items) :
        Reading(items)[i] = IF i = 0 THEN ReplayStart ELSE ReadItem(Reading(items)[i - 1], items[i], i)
  BY <1>2 DEF ReadsTo
<1> QED  BY <1>1, <1>3

\* What is read up to a position depends on nothing behind it.
LEMMA SamePrefix ==
  ASSUME NEW f, IsSequence(f), NEW g, IsSequence(g), NEW n \in 0 .. Len(f), n <= Len(g),
         \A i \in 1 .. n : f[i] = g[i]
  PROVE  \A i \in 0 .. n : Reading(f)[i] = Reading(g)[i]
<1> DEFINE S == {k \in Nat : Reading(f)[k] = Reading(g)[k]}
<1>1. Len(f) \in Nat /\ Len(g) \in Nat /\ n \in Nat
  BY Sequences
<1>2. ASSUME NEW k \in 0 .. n, \A j \in 0 .. k - 1 : j \in S
      PROVE  k \in S
  <2>1. CASE k = 0
    BY <2>1, ReadingIs
  <2>2. CASE k # 0
    <3>1. k \in 1 .. Len(f) /\ k \in 1 .. Len(g) /\ f[k] = g[k] /\ k - 1 \in 0 .. k - 1
      BY <1>1, <2>2
    <3>2. Reading(f)[k - 1] = Reading(g)[k - 1]
      BY <1>2, <3>1
    <3> QED  BY <3>1, <3>2, ReadingIs
  <2> QED  BY <2>1, <2>2
<1> HIDE DEF S
<1>3. \A k \in 0 .. n : k \in S
  BY <1>1, <1>2, FromLeast
<1> QED  BY <1>3 DEF S

LEMMA ReadOneMore ==
  ASSUME NEW items, IsSequence(items), NEW item
  PROVE  ReadToEnd(Append(items, item)) = ReadItem(ReadToEnd(items), item, Len(items) + 1)
<1> DEFINE longer == Append(items, item)
<1>1. /\ IsSequence(longer) /\ Len(longer) = Len(items) + 1
      /\ \A i \in DOMAIN items : longer[i] = items[i]
      /\ longer[Len(items) + 1] = item
  BY Appended
<1>2. Len(items) \in Nat /\ DOMAIN items = 1 .. Len(items)
  BY Sequences
<1> HIDE DEF longer
<1>3. Reading(items)[Len(items)] = Reading(longer)[Len(items)]
  BY <1>1, <1>2, SamePrefix
<1>4. Reading(longer)[Len(longer)] = ReadItem(Reading(longer)[Len(items)], item, Len(items) + 1)
  BY <1>1, <1>2, ReadingIs
<1> QED  BY <1>3, <1>4 DEF ReadToEnd, longer

(* What was read of n items: `open` is the number of the group that is     *)
(* open, 0 if none is.                                                     *)
ReadWell(acc, n) ==
  /\ acc = [status |-> acc.status, applied |-> acc.applied, group |-> acc.group,
            open |-> acc.open, good |-> acc.good, seq |-> acc.seq, full |-> acc.full]
  /\ acc.status \in {"reading", "torn", "corrupt"}
  /\ IsSequence(acc.applied) /\ IsSequence(acc.group)
  /\ acc.open \in Nat /\ acc.seq \in Nat /\ acc.good \in 0 .. n
  /\ acc.open = 0 => acc.group = <<>>
  /\ acc.full \in Nat /\ (acc.status = "reading" => acc.full = 0)

LEMMA EmptyIsSequence == IsSequence(<<>>)
<1>1. <<>> \in Seq({1})
  OBVIOUS
<1> QED  BY <1>1, SequenceOf

LEMMA ItemReadWell ==
  ASSUME NEW n \in Nat, NEW acc, ReadWell(acc, n), NEW item, ItemTyped(item)
  PROVE  /\ ReadWell(ReadItem(acc, item, n + 1), n + 1)
         /\ ReadItem(acc, item, n + 1).good \in {acc.good, n + 1}
         /\ ReadItem(acc, item, n + 1).good = acc.good =>
              /\ ReadItem(acc, item, n + 1).applied = acc.applied
              /\ ReadItem(acc, item, n + 1).seq = acc.seq
         /\ ReadItem(acc, item, n + 1).good # acc.good =>
              ReadItem(acc, item, n + 1) =
                [status |-> "reading", applied |-> ReadItem(acc, item, n + 1).applied,
                 group |-> <<>>, open |-> 0, good |-> n + 1,
                 seq |-> ReadItem(acc, item, n + 1).seq, full |-> 0]
<1>1. CASE acc.status # "reading"
  <2>1. ReadItem(acc, item, n + 1) = acc
    BY <1>1 DEF ReadItem
  <2> QED  BY <2>1 DEF ReadWell
<1>2. CASE acc.status = "reading" /\ item.kind = "torn"
  <2>1. ReadItem(acc, item, n + 1) =
          [status |-> "torn", applied |-> acc.applied, group |-> acc.group,
           open |-> acc.open, good |-> acc.good, seq |-> acc.seq, full |-> n + 1 + item.need]
    BY <1>2 DEF ReadItem, ReadTorn, ReadWell
  <2>2. item.need \in Nat
    BY <1>2 DEF ItemTyped
  <2> QED  BY <2>1, <2>2 DEF ReadWell
<1>3. CASE acc.status = "reading" /\ item.kind = "record"
  <2>1. PICK g, o : g = Append(acc.group, item.data) /\ o = IF acc.open = 0 THEN item.seq ELSE acc.open
    OBVIOUS
  <2>2. ReadItem(acc, item, n + 1) =
          [status |-> "reading", applied |-> acc.applied, group |-> g, open |-> o,
           good |-> acc.good, seq |-> acc.seq, full |-> acc.full]
    BY <1>3, <2>1 DEF ReadItem, ReadRecord, ReadWell
  <2>3. IsSequence(g)
    BY <2>1, Appended DEF ReadWell
  <2>4. o \in Nat \ {0}
    BY <1>3, <2>1 DEF ItemTyped, ReadWell
  <2> QED  BY <1>3, <2>2, <2>3, <2>4 DEF ReadWell
<1>4. CASE acc.status = "reading" /\ item.kind = "commit" /\ item.seq # acc.open
  <2>1. ReadItem(acc, item, n + 1) =
          [status |-> "corrupt", applied |-> acc.applied, group |-> acc.group,
           open |-> acc.open, good |-> acc.good, seq |-> acc.seq, full |-> acc.full]
    BY <1>4 DEF ReadItem, ReadMarker, ReadWell
  <2> QED  BY <2>1 DEF ReadWell
<1>5. CASE acc.status = "reading" /\ item.kind = "commit" /\ item.seq = acc.open
  <2>1. PICK a, q : a = acc.applied \o acc.group /\ q = IF item.seq > acc.seq THEN item.seq ELSE acc.seq
    OBVIOUS
  <2>2. ReadItem(acc, item, n + 1) =
          [status |-> "reading", applied |-> a, group |-> <<>>, open |-> 0, good |-> n + 1,
           seq |-> q, full |-> acc.full]
    BY <1>5, <2>1 DEF ReadItem, ReadMarker, CloseGroup, ReadWell
  <2>3. IsSequence(a) /\ IsSequence(<<>>)
    BY <2>1, Concatenated, EmptyIsSequence DEF ReadWell
  <2>4. q \in Nat /\ acc.full = 0 /\ acc.good \in 0 .. n
    BY <1>5, <2>1 DEF ItemTyped, ReadWell
  <2> QED  BY <1>5, <2>2, <2>3, <2>4 DEF ReadWell
<1> QED  BY <1>1, <1>2, <1>3, <1>4, <1>5 DEF ItemTyped, ReadWell

LEMMA FileReadWell ==
  ASSUME NEW items, IsSequence(items), \A i \in DOMAIN items : ItemTyped(items[i])
  PROVE  \A i \in 0 .. Len(items) : ReadWell(Reading(items)[i], i)
<1> DEFINE S == {k \in Nat : ReadWell(Reading(items)[k], k)}
<1>1. Len(items) \in Nat /\ DOMAIN items = 1 .. Len(items)
  BY Sequences
<1>2. ASSUME NEW k \in 0 .. Len(items), \A j \in 0 .. k - 1 : j \in S
      PROVE  k \in S
  <2>1. CASE k = 0
    BY <2>1, ReadingIs, EmptyIsSequence DEF ReadWell, ReplayStart
  <2>2. CASE k # 0
    <3>1. k \in 1 .. Len(items) /\ k - 1 \in Nat /\ k - 1 \in 0 .. k - 1 /\ k - 1 + 1 = k
      BY <2>2
    <3>2. ReadWell(Reading(items)[k - 1], k - 1)
      BY <1>2, <3>1
    <3>3. PICK n, acc : n = k - 1 /\ acc = Reading(items)[k - 1]
      OBVIOUS
    <3>4. ReadWell(ReadItem(acc, items[k], n + 1), n + 1)
      BY <1>1, <3>1, <3>2, <3>3, ItemReadWell
    <3> QED  BY <3>1, <3>3, <3>4, ReadingIs
  <2> QED  BY <2>1, <2>2
<1> HIDE DEF S
<1>3. \A k \in 0 .. Len(items) : k \in S
  BY <1>1, <1>2, FromLeast
<1> QED  BY <1>3 DEF S

(* The reader was where it could have stopped when it closed its last group*)
LEMMA LastGoodPoint ==
  ASSUME NEW items, IsSequence(items), \A i \in DOMAIN items : ItemTyped(items[i])
  PROVE  \A i \in 0 .. Len(items) :
           Reading(items)[Reading(items)[i].good] =
             [status |-> "reading", applied |-> Reading(items)[i].applied, group |-> <<>>,
              open |-> 0, good |-> Reading(items)[i].good, seq |-> Reading(items)[i].seq, full |-> 0]
<1> DEFINE P(i) ==
      Reading(items)[Reading(items)[i].good] =
        [status |-> "reading", applied |-> Reading(items)[i].applied, group |-> <<>>,
         open |-> 0, good |-> Reading(items)[i].good, seq |-> Reading(items)[i].seq, full |-> 0]
<1> DEFINE S == {k \in Nat : P(k)}
<1>1. Len(items) \in Nat /\ DOMAIN items = 1 .. Len(items)
  BY Sequences
<1>2. ASSUME NEW k \in 0 .. Len(items), \A j \in 0 .. k - 1 : j \in S
      PROVE  k \in S
  <2>1. CASE k = 0
    BY <2>1, ReadingIs DEF ReplayStart
  <2>2. CASE k # 0
    <3>1. k \in 1 .. Len(items) /\ k - 1 \in Nat /\ k - 1 \in 0 .. k - 1 /\ k - 1 \in 0 .. Len(items)
          /\ k - 1 + 1 = k
      BY <2>2
    <3>2. P(k - 1)
      BY <1>2, <3>1
    <3>3. PICK n, acc, new : n = k - 1 /\ acc = Reading(items)[n] /\ new = Reading(items)[k]
      OBVIOUS
    <3>4. new = ReadItem(acc, items[k], n + 1) /\ n + 1 = k
      BY <3>1, <3>3, ReadingIs
    <3>5. n \in Nat /\ ReadWell(acc, n) /\ ItemTyped(items[k])
      BY <1>1, <3>1, <3>3, FileReadWell
    <3>6. /\ new.good \in {acc.good, n + 1}
          /\ new.good = acc.good => new.applied = acc.applied /\ new.seq = acc.seq
          /\ new.good # acc.good =>
               new = [status |-> "reading", applied |-> new.applied, group |-> <<>>,
                      open |-> 0, good |-> n + 1, seq |-> new.seq, full |-> 0]
      BY <3>4, <3>5, ItemReadWell
    <3>7. CASE new.good = acc.good
      <4>1. P(k)
        BY <3>2, <3>3, <3>6, <3>7
      <4> QED  BY <4>1
    <3>8. CASE new.good # acc.good
      <4>1. P(k)
        BY <3>3, <3>4, <3>6, <3>8
      <4> QED  BY <4>1
    <3> QED  BY <3>7, <3>8
  <2> QED  BY <2>1, <2>2
<1> HIDE DEF S
<1>3. \A k \in 0 .. Len(items) : k \in S
  BY <1>1, <1>2, FromLeast
<1> QED  BY <1>3 DEF S

(* The file a restart leaves reads as the one it found, without its end.   *)
LEMMA TruncatedReads ==
  ASSUME NEW items, IsSequence(items), \A i \in DOMAIN items : ItemTyped(items[i])
  PROVE  /\ IsSequence(TruncatedToCommit(items))
         /\ \A i \in DOMAIN TruncatedToCommit(items) :
              i \in DOMAIN items /\ TruncatedToCommit(items)[i] = items[i]
         /\ ReadToEnd(TruncatedToCommit(items)) =
              [status |-> "reading", applied |-> Recovered(items), group |-> <<>>, open |-> 0,
               good |-> ReadToEnd(items).good, seq |-> RecoveredSeq(items), full |-> 0]
<1> DEFINE n == ReadToEnd(items).good
           short == SubSeq(items, 1, n)
<1>1. Len(items) \in Nat /\ DOMAIN items = 1 .. Len(items)
  BY Sequences
<1>2. n \in 0 .. Len(items)
  <2>1. ReadWell(Reading(items)[Len(items)], Len(items))
    BY <1>1, FileReadWell
  <2> QED  BY <2>1 DEF ReadToEnd, ReadWell
<1>3. short = TruncatedToCommit(items)
  BY DEF TruncatedToCommit
<1> HIDE DEF n, short
<1>4. IsSequence(short) /\ Len(short) = n /\ \A i \in 1 .. n : short[i] = items[i]
  BY <1>2, Prefix DEF short
<1>5. Reading(items)[n] = Reading(short)[n]
  BY <1>1, <1>2, <1>4, SamePrefix
<1>6. Reading(items)[n] =
        [status |-> "reading", applied |-> Recovered(items), group |-> <<>>, open |-> 0,
         good |-> n, seq |-> RecoveredSeq(items), full |-> 0]
  BY <1>1, LastGoodPoint DEF Recovered, RecoveredSeq, ReadToEnd, n
<1>7. DOMAIN short = 1 .. n
  BY <1>4, Sequences
<1> QED  BY <1>1, <1>2, <1>3, <1>4, <1>5, <1>6, <1>7 DEF ReadToEnd, n
-----------------------------------------------------------------------------
(***************************************************************************)
(* What a write adds.  Every transaction has two records.                  *)
(***************************************************************************)

Longer(f, item) == Append(f, item)
Behind(f, items) == f \o items

Unclosed(f) == ReadToEnd(f).group

\* Nothing more is recovered of one file than of another.
SameRecovery(f, g) == Recovered(f) = Recovered(g) /\ RecoveredSeq(f) = RecoveredSeq(g)

LEMMA SameSequence ==
  ASSUME NEW s, IsSequence(s), NEW t, IsSequence(t), Len(s) = Len(t),
         \A i \in 1 .. Len(s) : s[i] = t[i]
  PROVE  s = t
<1> DEFINE S == {s[i] : i \in DOMAIN s} \cup {t[i] : i \in DOMAIN t}
<1>1. s \in Seq(S) /\ t \in Seq(S)
  BY SeqMonotonic DEF IsSequence
<1> HIDE DEF S
<1> QED  BY <1>1, SeqEqual

LEMMA GoodAppended ==
  ASSUME NEW f, GoodFile(f), NEW item, ItemTyped(item)
  PROVE  GoodFile(Append(f, item)) /\ Len(Append(f, item)) = Len(f) + 1 /\ Len(f) \in Nat
<1>1. /\ IsSequence(Append(f, item)) /\ DOMAIN Append(f, item) = 1 .. Len(f) + 1
      /\ \A i \in DOMAIN f : Append(f, item)[i] = f[i]
      /\ Append(f, item)[Len(f) + 1] = item
      /\ Len(Append(f, item)) = Len(f) + 1
  BY Appended DEF GoodFile
<1>2. Len(f) \in Nat /\ DOMAIN f = 1 .. Len(f)
  BY Sequences DEF GoodFile
<1>3. \A i \in 1 .. Len(f) + 1 : i \in DOMAIN f \/ i = Len(f) + 1
  BY <1>2
<1> QED  BY <1>1, <1>2, <1>3 DEF GoodFile

LEMMA EndReadWell ==
  ASSUME NEW f, GoodFile(f)
  PROVE  ReadWell(ReadToEnd(f), Len(f)) /\ Len(f) \in Nat
<1>1. Len(f) \in Nat
  BY Sequences DEF GoodFile
<1> QED  BY <1>1, FileReadWell DEF ReadToEnd, GoodFile

\* Sequences of up to three items.
LEMMA ShortSequences ==
  ASSUME NEW x, NEW y, NEW z
  PROVE  /\ IsSequence(<<>>) /\ Len(<<>>) = 0
         /\ IsSequence(<<x>>) /\ Len(<<x>>) = 1 /\ <<x>>[1] = x
         /\ IsSequence(<<x, y>>) /\ Len(<<x, y>>) = 2 /\ <<x, y>>[1] = x /\ <<x, y>>[2] = y
         /\ IsSequence(<<x, y, z>>) /\ Len(<<x, y, z>>) = 3
         /\ <<x, y, z>>[1] = x /\ <<x, y, z>>[2] = y /\ <<x, y, z>>[3] = z
<1>1. /\ Len(<<>>) = 0
      /\ Len(<<x>>) = 1 /\ <<x>>[1] = x
      /\ Len(<<x, y>>) = 2 /\ <<x, y>>[1] = x /\ <<x, y>>[2] = y
      /\ Len(<<x, y, z>>) = 3 /\ <<x, y, z>>[1] = x /\ <<x, y, z>>[2] = y /\ <<x, y, z>>[3] = z
  OBVIOUS
<1>2. <<>> \in Seq({x}) /\ <<x>> \in Seq({x}) /\ <<x, y>> \in Seq({x, y})
      /\ <<x, y, z>> \in Seq({x, y, z})
  OBVIOUS
<1>3. IsSequence(<<>>) /\ IsSequence(<<x>>)
  BY <1>2, SequenceOf
<1>4. IsSequence(<<x, y>>)
  BY <1>2, SequenceOf
<1>5. IsSequence(<<x, y, z>>)
  BY <1>2, SequenceOf
<1> QED  BY <1>1, <1>3, <1>4, <1>5

LEMMA Joined ==
  ASSUME NEW x, NEW y, NEW z
  PROVE  /\ <<>> \o <<x>> = <<x>> /\ <<x>> \o <<y>> = <<x, y>>
         /\ Append(Append(<<>>, x), y) = <<x, y>>
         /\ <<x, y>> \o <<z>> = <<x, y, z>> /\ Append(<<x, y>>, z) = <<x, y, z>>
<1>1. <<>> \o <<x>> = <<x>>
  OBVIOUS
<1>2. <<x>> \o <<y>> = <<x, y>>
  <2>1. PICK u, v, s, t : u = <<x>> /\ v = <<y>> /\ s = u \o v /\ t = <<x, y>>
    OBVIOUS
  <2>2. IsSequence(s) /\ Len(s) = 2 /\ s[1] = x /\ s[2] = y
    <3>1. IsSequence(u) /\ Len(u) = 1 /\ u[1] = x
      BY <2>1, ShortSequences
    <3>2. IsSequence(v) /\ Len(v) = 1 /\ v[1] = y
      BY <2>1, ShortSequences
    <3>3. 1 \in DOMAIN u /\ 1 \in DOMAIN v
      BY <3>1, <3>2, Sequences
    <3>4. /\ IsSequence(s) /\ Len(s) = Len(u) + Len(v)
          /\ s[1] = u[1] /\ s[Len(u) + 1] = v[1]
      BY <2>1, <3>1, <3>2, <3>3, Concatenated
    <3> QED  BY <3>1, <3>2, <3>4
  <2>3. IsSequence(t) /\ Len(t) = 2 /\ t[1] = x /\ t[2] = y
    BY <2>1, ShortSequences
  <2>4. \A i \in 1 .. 2 : s[i] = t[i]
    BY <2>2, <2>3
  <2> QED  BY <2>1, <2>2, <2>3, <2>4, SameSequence
<1>3. Append(<<x, y>>, z) = <<x, y, z>>
  <2>1. PICK u, s, t : u = <<x, y>> /\ s = Append(u, z) /\ t = <<x, y, z>>
    OBVIOUS
  <2>2. IsSequence(s) /\ Len(s) = 3 /\ s[1] = x /\ s[2] = y /\ s[3] = z
    <3>1. IsSequence(u) /\ Len(u) = 2 /\ u[1] = x /\ u[2] = y
      BY <2>1, ShortSequences
    <3>2. 1 \in DOMAIN u /\ 2 \in DOMAIN u
      BY <3>1, Sequences
    <3> QED  BY <2>1, <3>1, <3>2, Appended
  <2>3. IsSequence(t) /\ Len(t) = 3 /\ t[1] = x /\ t[2] = y /\ t[3] = z
    BY <2>1, ShortSequences
  <2>4. \A i \in 1 .. 3 : s[i] = t[i]
    BY <2>2, <2>3
  <2> QED  BY <2>1, <2>2, <2>3, <2>4, SameSequence
<1>4. <<x, y>> \o <<z>> = Append(<<x, y>>, z)
  <2>1. <<x, y>> \in Seq({x, y, z}) /\ z \in {x, y, z}
    OBVIOUS
  <2> QED  BY <2>1, AppendIsConcat
<1>5. Append(Append(<<>>, x), y) = <<x, y>>
  <2>1. Append(<<>>, x) = <<x>>
    OBVIOUS
  <2>2. <<x>> \in Seq({x, y}) /\ y \in {x, y}
    OBVIOUS
  <2>3. Append(<<x>>, y) = <<x>> \o <<y>>
    BY <2>2, AppendIsConcat
  <2> QED  BY <1>2, <2>1, <2>3
<1> QED  BY <1>1, <1>2, <1>3, <1>4, <1>5

\* Items behind one another.
LEMMA OneByOne ==
  ASSUME NEW f, IsSequence(f), NEW x, NEW y, NEW z
  PROVE  /\ f \o <<>> = f
         /\ f \o <<x>> = Append(f, x)
         /\ f \o <<x, y>> = Append(Append(f, x), y)
         /\ f \o <<x, y, z>> = Append(Append(Append(f, x), y), z)
<1> DEFINE S == {f[i] : i \in DOMAIN f} \cup {x, y, z}
<1>1. f \in Seq(S) /\ x \in S /\ y \in S /\ z \in S
  BY SeqMonotonic DEF IsSequence
<1> HIDE DEF S
<1>2. f \o <<>> = f
  BY <1>1, ConcatEmptySeq
<1>3. \A s \in Seq(S), v \in S : Append(s, v) = s \o <<v>>
  BY AppendIsConcat
<1>4. <<x>> \in Seq(S) /\ <<y>> \in Seq(S) /\ <<z>> \in Seq(S) /\ <<x, y>> \in Seq(S)
  BY <1>1
<1>5. PICK u, v, w, uv, uvw :
        /\ u = <<x>> /\ v = <<y>> /\ w = <<z>> /\ uv = <<x, y>> /\ uvw = <<x, y, z>>
  OBVIOUS
<1>6. uv = u \o v /\ uvw = uv \o w
  BY <1>5, Joined
<1>7. /\ u \in Seq(S) /\ v \in Seq(S) /\ w \in Seq(S) /\ uv \in Seq(S)
      /\ \A s \in Seq(S) : Append(s, x) = s \o u /\ Append(s, y) = s \o v /\ Append(s, z) = s \o w
  BY <1>1, <1>3, <1>4, <1>5
<1>8. f \o uv = (f \o u) \o v /\ f \o uvw = (f \o uv) \o w
  <2>1. \A r, s, t \in Seq(S) : (r \o s) \o t = r \o (s \o t)
    BY ConcatAssociative
  <2>2. (f \o u) \o v = f \o (u \o v) /\ (f \o uv) \o w = f \o (uv \o w)
    BY <1>1, <1>7, <2>1
  <2> QED  BY <1>6, <2>2
<1>9. f \o u \in Seq(S) /\ f \o uv \in Seq(S)
  BY <1>1, <1>7, ConcatProperties
<1>10. /\ f \o u = Append(f, x) /\ f \o uv = Append(f \o u, y)
       /\ f \o uvw = Append(f \o uv, z)
  BY <1>1, <1>7, <1>8, <1>9
<1> QED  BY <1>2, <1>5, <1>10

LEMMA GroupIs ==
  ASSUME NEW a, NEW b, NEW s
  PROVE  Group(<<a, b>>, s) = <<Record(a, s), Record(b, s), CommitMarker(s)>>
<1>1. [i \in DOMAIN <<a, b>> |-> Record(<<a, b>>[i], s)] = <<Record(a, s), Record(b, s)>>
  OBVIOUS
<1>2. PICK x, y, z : x = Record(a, s) /\ y = Record(b, s) /\ z = CommitMarker(s)
  OBVIOUS
<1>3. Append(<<x, y>>, z) = <<x, y, z>>
  BY Joined
<1> QED  BY <1>1, <1>2, <1>3 DEF Group

\* The leading records of a group, and possibly a piece of the next one.
LEMMA PartIs ==
  ASSUME NEW a, NEW b, NEW s, NEW part \in PartialGroups(<<a, b>>, s)
  PROVE  \/ part = <<>>
         \/ part = <<Record(a, s)>>
         \/ part = <<Record(a, s), Record(b, s)>>
         \/ \E n \in Reach :
              \/ part = <<TornRecord(n)>>
              \/ part = <<Record(a, s), TornRecord(n)>>
              \/ part = <<Record(a, s), Record(b, s), TornRecord(n)>>
<1>1. PICK x, y, z : x = Record(a, s) /\ y = Record(b, s) /\ z = CommitMarker(s)
  OBVIOUS
<1>2. Group(<<a, b>>, s) = <<x, y, z>>
  BY <1>1, GroupIs
<1>3. PICK k \in 0 .. 2, t \in Pieces : part = SubSeq(<<x, y, z>>, 1, k) \o t
  <2>1. Len(<<a, b>>) = 2
    OBVIOUS
  <2>2. PICK k \in 0 .. Len(<<a, b>>), t \in Pieces :
          part = SubSeq(Group(<<a, b>>, s), 1, k) \o t
    BY DEF PartialGroups
  <2>3. k \in 0 .. 2
    BY <2>1
  <2> QED  BY <1>2, <2>2, <2>3
<1>4. SubSeq(<<x, y, z>>, 1, k) \in {<<>>, <<x>>, <<x, y>>}
  <2>1. CASE k = 0
    BY <2>1, SubSeqEmpty
  <2>2. PICK g, p : g = <<x, y, z>> /\ p = SubSeq(g, 1, k)
    OBVIOUS
  <2>3. IsSequence(g) /\ Len(g) = 3 /\ g[1] = x /\ g[2] = y
    BY <2>2, ShortSequences
  <2>4. IsSequence(p) /\ Len(p) = k /\ \A i \in 1 .. k : p[i] = g[i]
    <3>1. k \in 0 .. Len(g)
      BY <1>3, <2>3
    <3> QED  BY <2>2, <2>3, <3>1, Prefix
  <2>5. CASE k = 1
    <3>1. PICK q : q = <<x>>
      OBVIOUS
    <3>2. IsSequence(q) /\ Len(q) = 1 /\ q[1] = x
      BY <3>1, ShortSequences
    <3>3. p = q
      BY <2>3, <2>4, <2>5, <3>2, SameSequence
    <3> QED  BY <2>2, <3>1, <3>3
  <2>6. CASE k = 2
    <3>1. PICK q : q = <<x, y>>
      OBVIOUS
    <3>2. IsSequence(q) /\ Len(q) = 2 /\ q[1] = x /\ q[2] = y
      BY <3>1, ShortSequences
    <3>3. p = q
      BY <2>3, <2>4, <2>6, <3>2, SameSequence
    <3> QED  BY <2>2, <3>1, <3>3
  <2> QED  BY <2>1, <2>5, <2>6
<1>5. CASE t = <<>>
  BY <1>1, <1>3, <1>4, <1>5
<1>6. CASE t # <<>>
  <2>1. PICK n \in Reach : t = <<TornRecord(n)>>
    BY <1>3, <1>6 DEF Pieces
  <2>2. PICK w : w = TornRecord(n)
    OBVIOUS
  <2>3. part \in {<<w>>, <<x, w>>, <<x, y, w>>}
    <3>1. /\ <<>> \o <<w>> = <<w>> /\ <<x>> \o <<w>> = <<x, w>>
          /\ <<x, y>> \o <<w>> = <<x, y, w>>
      BY Joined
    <3> QED  BY <1>3, <1>4, <2>1, <2>2, <3>1
  <2> QED  BY <1>1, <2>2, <2>3
<1> QED  BY <1>5, <1>6

LEMMA ItemsOfGroups ==
  ASSUME NEW s \in Nat \ {0}
  PROVE  /\ \A a : ItemTyped(Record(a, s))
         /\ ItemTyped(CommitMarker(s))
         /\ \A n \in Reach : ItemTyped(TornRecord(n))
BY ReachAssumption DEF ItemTyped, Record, CommitMarker, TornRecord

LEMMA RecordRead ==
  ASSUME NEW f, GoodFile(f), NEW a, NEW s \in Nat \ {0},
         NEW g, g = Longer(f, Record(a, s))
  PROVE  /\ GoodFile(g) /\ SameRecovery(f, g) /\ Stops(g)
         /\ (Readable(g) <=> Readable(f))
         /\ Stops(f) => OpenGroup(g) = OpenGroup(f)
         /\ ~Stops(f) => OpenGroup(g) = s
         /\ Readable(f) => Unclosed(g) = Longer(Unclosed(f), a)
<1>1. PICK acc, new, item, n :
        acc = ReadToEnd(f) /\ new = ReadToEnd(g) /\ item = Record(a, s) /\ n = Len(f)
  OBVIOUS
<1>2. ItemTyped(item) /\ item.kind = "record" /\ item.data = a /\ item.seq = s
  BY <1>1, ItemsOfGroups DEF Record
<1>3. GoodFile(g) /\ ReadWell(acc, n)
  BY <1>1, <1>2, GoodAppended, EndReadWell DEF Longer
<1>4. new = ReadItem(acc, item, n + 1)
  BY <1>1, ReadOneMore DEF GoodFile, Longer
<1>5. CASE acc.status # "reading"
  <2>1. new = acc
    BY <1>4, <1>5 DEF ReadItem
  <2> QED  BY <1>1, <1>3, <1>5, <2>1 DEF SameRecovery, Recovered, RecoveredSeq, Stops, Readable, OpenGroup, Unclosed
<1>6. CASE acc.status = "reading"
  <2>1. new = ReadRecord(acc, item)
    BY <1>2, <1>4, <1>6 DEF ReadItem
  <2>2. PICK gr, o : gr = Append(acc.group, a) /\ o = IF acc.open = 0 THEN s ELSE acc.open
    OBVIOUS
  <2>3. new = [status |-> "reading", applied |-> acc.applied, group |-> gr, open |-> o,
               good |-> acc.good, seq |-> acc.seq, full |-> acc.full]
    BY <1>2, <1>3, <1>6, <2>1, <2>2 DEF ReadRecord, ReadWell
  <2>4. o # 0
    BY <2>2
  <2> QED  BY <1>1, <1>3, <1>6, <2>2, <2>3, <2>4
             DEF SameRecovery, Recovered, RecoveredSeq, Stops, Readable, OpenGroup, Unclosed, Longer
<1> QED  BY <1>5, <1>6

LEMMA TornRead ==
  ASSUME NEW f, GoodFile(f), NEW r \in Reach, NEW g, g = Longer(f, TornRecord(r))
  PROVE  /\ GoodFile(g) /\ SameRecovery(f, g) /\ Stops(g)
         /\ OpenGroup(g) = OpenGroup(f)
         /\ Readable(f) => Status(g) = "ended"
<1>1. PICK acc, new, item, n :
        acc = ReadToEnd(f) /\ new = ReadToEnd(g) /\ item = TornRecord(r) /\ n = Len(f)
  OBVIOUS
<1>2. ItemTyped(item) /\ item.kind = "torn" /\ item.need = r /\ r \in Nat \ {0}
  <2>1. ItemTyped(TornRecord(r))
    <3>1. 1 \in Nat \ {0}
      OBVIOUS
    <3> QED  BY <3>1, ItemsOfGroups
  <2> QED  BY <1>1, <2>1, ReachAssumption DEF TornRecord
<1>3. GoodFile(g) /\ ReadWell(acc, n) /\ Len(g) = n + 1 /\ n \in Nat
  BY <1>1, <1>2, GoodAppended, EndReadWell DEF Longer
<1>4. new = ReadItem(acc, item, n + 1)
  BY <1>1, ReadOneMore DEF GoodFile, Longer
<1>5. CASE acc.status # "reading"
  <2>1. new = acc
    BY <1>4, <1>5 DEF ReadItem
  <2> QED  BY <1>1, <1>3, <1>5, <2>1 DEF SameRecovery, Recovered, RecoveredSeq, Stops, Readable, OpenGroup, Unclosed
<1>6. CASE acc.status = "reading"
  <2>1. new = [status |-> "torn", applied |-> acc.applied, group |-> acc.group,
               open |-> acc.open, good |-> acc.good, seq |-> acc.seq, full |-> n + 1 + r]
    BY <1>2, <1>3, <1>4, <1>6 DEF ReadItem, ReadTorn, ReadWell
  <2>2. Status(g) = "ended"
    <3>1. new.status = "torn" /\ ~(Len(g) >= new.full)
      BY <1>2, <1>3, <2>1
    <3> QED  BY <1>1, <3>1 DEF Status
  <2> QED  BY <1>1, <1>3, <2>1, <2>2 DEF SameRecovery, Recovered, RecoveredSeq, Stops, Readable, OpenGroup, Unclosed
<1> QED  BY <1>5, <1>6

LEMMA MarkerRead ==
  ASSUME NEW f, GoodFile(f), NEW s \in Nat \ {0}, NEW g, g = Longer(f, CommitMarker(s))
  PROVE  /\ GoodFile(g)
         /\ Readable(f) /\ OpenGroup(f) = s =>
              /\ ~Stops(g) /\ Recovered(g) = Behind(Recovered(f), Unclosed(f))
              /\ RecoveredSeq(g) = IF s > RecoveredSeq(f) THEN s ELSE RecoveredSeq(f)
         /\ ~Readable(f) \/ OpenGroup(f) # s =>
              /\ Stops(g) /\ SameRecovery(f, g) /\ OpenGroup(g) = OpenGroup(f)
<1>1. PICK acc, new, item, n :
        acc = ReadToEnd(f) /\ new = ReadToEnd(g) /\ item = CommitMarker(s) /\ n = Len(f)
  OBVIOUS
<1>2. ItemTyped(item) /\ item.kind = "commit" /\ item.seq = s
  BY <1>1, ItemsOfGroups DEF CommitMarker
<1>3. GoodFile(g) /\ ReadWell(acc, n)
  BY <1>1, <1>2, GoodAppended, EndReadWell DEF Longer
<1>4. new = ReadItem(acc, item, n + 1)
  BY <1>1, ReadOneMore DEF GoodFile, Longer
<1>5. CASE acc.status # "reading"
  <2>1. new = acc
    BY <1>4, <1>5 DEF ReadItem
  <2> QED  BY <1>1, <1>3, <1>5, <2>1 DEF SameRecovery, Recovered, RecoveredSeq, Stops, Readable, OpenGroup, Unclosed
<1>6. CASE acc.status = "reading" /\ acc.open # s
  <2>1. new = [status |-> "corrupt", applied |-> acc.applied, group |-> acc.group,
               open |-> acc.open, good |-> acc.good, seq |-> acc.seq, full |-> acc.full]
    BY <1>2, <1>3, <1>4, <1>6 DEF ReadItem, ReadMarker, ReadWell
  <2> QED  BY <1>1, <1>3, <1>6, <2>1 DEF SameRecovery, Recovered, RecoveredSeq, Stops, Readable, OpenGroup, Unclosed
<1>7. CASE acc.status = "reading" /\ acc.open = s
  <2>1. PICK ap, q : ap = acc.applied \o acc.group /\ q = IF s > acc.seq THEN s ELSE acc.seq
    OBVIOUS
  <2>2. new = [status |-> "reading", applied |-> ap, group |-> <<>>, open |-> 0,
               good |-> n + 1, seq |-> q, full |-> acc.full]
    BY <1>2, <1>3, <1>4, <1>7, <2>1 DEF ReadItem, ReadMarker, CloseGroup, ReadWell
  <2>3. Readable(f) /\ OpenGroup(f) = s /\ Readable(g) /\ OpenGroup(g) = 0
    BY <1>1, <1>7, <2>2 DEF Readable, OpenGroup
  <2>4. Recovered(g) = ap /\ RecoveredSeq(g) = q
    BY <1>1, <2>2 DEF Recovered, RecoveredSeq
  <2>5. /\ ap = Behind(Recovered(f), Unclosed(f))
        /\ q = IF s > RecoveredSeq(f) THEN s ELSE RecoveredSeq(f)
    BY <1>1, <2>1 DEF Recovered, RecoveredSeq, Unclosed, Behind
  <2>6. ~Stops(g)
    BY <2>3 DEF Stops
  <2> QED  BY <1>3, <2>3, <2>4, <2>5, <2>6
<1> QED  BY <1>1, <1>5, <1>6, <1>7

LEMMA BehindFile ==
  ASSUME NEW f, GoodFile(f), NEW a, NEW b, NEW s
  PROVE  f \o Group(<<a, b>>, s) =
           Longer(Longer(Longer(f, Record(a, s)), Record(b, s)), CommitMarker(s))
<1>1. PICK x, y, z : x = Record(a, s) /\ y = Record(b, s) /\ z = CommitMarker(s)
  OBVIOUS
<1>2. f \o <<x, y, z>> = Append(Append(Append(f, x), y), z)
  BY OneByOne DEF GoodFile
<1> QED  BY <1>1, <1>2, GroupIs DEF Longer

\* A group behind whole groups is read as one.
LEMMA WholeGroupRead ==
  ASSUME NEW f, GoodFile(f), ~Stops(f), NEW a, NEW b, NEW s \in Nat \ {0},
         NEW g, g = Behind(f, Group(<<a, b>>, s))
  PROVE  /\ GoodFile(g) /\ ~Stops(g) /\ Recovered(g) = Behind(Recovered(f), <<a, b>>)
         /\ RecoveredSeq(g) = IF s > RecoveredSeq(f) THEN s ELSE RecoveredSeq(f)
<1>1. PICK f1, f2 : f1 = Longer(f, Record(a, s)) /\ f2 = Longer(f1, Record(b, s))
  OBVIOUS
<1>2. g = Longer(f2, CommitMarker(s))
  BY <1>1, BehindFile DEF Behind
<1>4. Readable(f) /\ Unclosed(f) = <<>>
  BY EndReadWell DEF Stops, ReadWell, Readable, OpenGroup, Unclosed
<1>5. /\ GoodFile(f1) /\ SameRecovery(f, f1) /\ Stops(f1)
      /\ Readable(f1) /\ OpenGroup(f1) = s
      /\ Unclosed(f1) = Longer(<<>>, a)
  BY <1>1, <1>4, RecordRead
<1>6. /\ GoodFile(f2) /\ SameRecovery(f1, f2)
      /\ Readable(f2) /\ OpenGroup(f2) = s
      /\ Unclosed(f2) = Longer(Longer(<<>>, a), b)
  <2>1. Unclosed(f2) = Longer(Unclosed(f1), b)
    BY <1>1, <1>5, RecordRead
  <2>2. GoodFile(f2) /\ SameRecovery(f1, f2) /\ Readable(f2) /\ OpenGroup(f2) = s
    BY <1>1, <1>5, RecordRead
  <2> QED  BY <1>5, <2>1, <2>2
<1>7. Longer(Longer(<<>>, a), b) = <<a, b>>
  BY Joined DEF Longer
<1>8. /\ GoodFile(g) /\ ~Stops(g) /\ Recovered(g) = Behind(Recovered(f2), <<a, b>>)
      /\ RecoveredSeq(g) = IF s > RecoveredSeq(f2) THEN s ELSE RecoveredSeq(f2)
  BY <1>2, <1>6, <1>7, MarkerRead
<1> QED  BY <1>5, <1>6, <1>8 DEF SameRecovery

\* A group behind the rest of another is lost.
LEMMA LostBehindRest ==
  ASSUME NEW f, GoodFile(f), Stops(f), NEW a, NEW b, NEW s \in Nat \ {0},
         s # OpenGroup(f), NEW g, g = Behind(f, Group(<<a, b>>, s))
  PROVE  /\ GoodFile(g) /\ Stops(g) /\ SameRecovery(f, g)
         /\ OpenGroup(g) = OpenGroup(f)
<1>1. PICK f1, f2 : f1 = Longer(f, Record(a, s)) /\ f2 = Longer(f1, Record(b, s))
  OBVIOUS
<1>2. g = Longer(f2, CommitMarker(s))
  BY <1>1, BehindFile DEF Behind
<1>4. GoodFile(f1) /\ SameRecovery(f, f1) /\ Stops(f1) /\ OpenGroup(f1) = OpenGroup(f)
  BY <1>1, RecordRead
<1>5. GoodFile(f2) /\ SameRecovery(f1, f2) /\ Stops(f2) /\ OpenGroup(f2) = OpenGroup(f1)
  BY <1>1, <1>4, RecordRead
<1>6. GoodFile(g) /\ Stops(g) /\ SameRecovery(f2, g) /\ OpenGroup(g) = OpenGroup(f2)
  <2>1. OpenGroup(f2) # s
    BY <1>4, <1>5
  <2> QED  BY <1>2, <1>5, <2>1, MarkerRead
<1> QED  BY <1>4, <1>5, <1>6 DEF SameRecovery

\* A write that stopped adds nothing to what is recovered, and stops the
\* next replay at its end, which is no corruption.
LEMMA PartRead ==
  ASSUME NEW f, GoodFile(f), NEW a, NEW b, NEW s \in Nat \ {0},
         NEW part \in PartialGroups(<<a, b>>, s), NEW g, g = Behind(f, part)
  PROVE  /\ GoodFile(g) /\ SameRecovery(f, g)
         /\ Stops(g) <=> (Stops(f) \/ part # <<>>)
         /\ OpenGroup(g) \in {OpenGroup(f), s}
         /\ Readable(f) => Status(g) # "corrupt"
<1>1. PICK f1, f2 : f1 = Longer(f, Record(a, s)) /\ f2 = Longer(f1, Record(b, s))
  OBVIOUS
<1>3. /\ GoodFile(f1) /\ SameRecovery(f, f1) /\ Stops(f1)
      /\ (Readable(f1) <=> Readable(f))
      /\ OpenGroup(f1) \in {OpenGroup(f), s}
  BY <1>1, RecordRead
<1>4. /\ GoodFile(f2) /\ SameRecovery(f1, f2) /\ Stops(f2)
      /\ (Readable(f2) <=> Readable(f1))
      /\ OpenGroup(f2) = OpenGroup(f1)
  BY <1>1, <1>3, RecordRead
<1>5. \A h : Readable(h) => Status(h) # "corrupt"
  BY DEF Status, Readable
<1>6. CASE part = <<>>
  <2>1. g = f
    BY <1>6, OneByOne DEF GoodFile, Behind
  <2> QED  BY <1>5, <1>6, <2>1 DEF SameRecovery
<1>7. CASE part # <<>> /\ g \in {f1, f2}
  BY <1>3, <1>4, <1>5, <1>7 DEF SameRecovery
<1>8. ASSUME NEW r \in Reach, NEW h \in {f, f1, f2}, part # <<>>, g = Longer(h, TornRecord(r))
      PROVE  /\ GoodFile(g) /\ SameRecovery(f, g)
             /\ Stops(g) <=> (Stops(f) \/ part # <<>>)
             /\ OpenGroup(g) \in {OpenGroup(f), s}
             /\ Readable(f) => Status(g) # "corrupt"
  <2>1. /\ GoodFile(h) /\ SameRecovery(f, h) /\ (Readable(h) <=> Readable(f))
        /\ OpenGroup(h) \in {OpenGroup(f), s}
    BY <1>3, <1>4 DEF SameRecovery
  <2>2. /\ GoodFile(g) /\ SameRecovery(h, g) /\ Stops(g) /\ OpenGroup(g) = OpenGroup(h)
        /\ Readable(h) => Status(g) = "ended"
    BY <1>8, <2>1, TornRead
  <2> QED  BY <1>8, <2>1, <2>2 DEF SameRecovery
<1>9. \/ part = <<>>
      \/ part # <<>> /\ g \in {f1, f2}
      \/ part # <<>> /\ \E r \in Reach, h \in {f, f1, f2} : g = Longer(h, TornRecord(r))
  <2>1. PICK x, y : x = Record(a, s) /\ y = Record(b, s)
    OBVIOUS
  <2>2. /\ f \o <<x>> = f1 /\ f \o <<x, y>> = f2
        /\ \A t : f \o <<t>> = Longer(f, t)
        /\ \A t : f \o <<x, t>> = Longer(f1, t)
        /\ \A t : f \o <<x, y, t>> = Longer(f2, t)
    BY <1>1, <2>1, OneByOne DEF GoodFile, Longer
  <2>3. \/ part = <<>> \/ part = <<x>> \/ part = <<x, y>>
        \/ \E r \in Reach : \/ part = <<TornRecord(r)>>
                            \/ part = <<x, TornRecord(r)>>
                            \/ part = <<x, y, TornRecord(r)>>
    BY <2>1, PartIs
  <2> QED  BY <2>2, <2>3 DEF Behind
<1> QED  BY <1>6, <1>7, <1>8, <1>9
-----------------------------------------------------------------------------
(***************************************************************************)
(* What a transaction does to the file.                                    *)
(***************************************************************************)

\* What landed whole is recovered, unless the file is spoiled.
Recovers(a, b) == Disk' = IF spoiled THEN Disk ELSE Disk \o <<a, b>>

LEMMA WholeLands ==
  ASSUME TypeOK, FileInv, server = "up", NEW a, NEW b,
         file' = file \o Group(<<a, b>>, seq + 1)
  PROVE  /\ GoodFile(file') /\ Recovers(a, b)
         /\ Stops(file') <=> spoiled
         /\ OpenGroup(file') <= seq /\ RecoveredSeq(file') <= seq + 1
<1>1. PICK f, g, s : f = file /\ g = file' /\ s = seq + 1
  OBVIOUS
<1>2. /\ GoodFile(f) /\ g = Behind(f, Group(<<a, b>>, s)) /\ s \in Nat \ {0} /\ seq \in Nat
      /\ (spoiled <=> Stops(f)) /\ OpenGroup(f) <= seq /\ RecoveredSeq(f) <= seq
  BY <1>1 DEF TypeOK, FileInv, Behind
<1>3. OpenGroup(f) \in Nat /\ RecoveredSeq(f) \in Nat
  BY <1>2, EndReadWell DEF ReadWell, OpenGroup, RecoveredSeq
<1>4. CASE Stops(f)
  <2>1. s # OpenGroup(f)
    BY <1>1, <1>2, <1>3
  <2>2. GoodFile(g) /\ Stops(g) /\ SameRecovery(f, g) /\ OpenGroup(g) = OpenGroup(f)
    BY <1>2, <1>4, <2>1, LostBehindRest
  <2>3. Recovered(g) = Recovered(f) /\ RecoveredSeq(g) = RecoveredSeq(f)
    BY <2>2 DEF SameRecovery
  <2>4. RecoveredSeq(g) <= seq + 1 /\ OpenGroup(g) <= seq
    <3>1. RecoveredSeq(f) <= seq + 1
      BY <1>2, <1>3
    <3>2. OpenGroup(g) = OpenGroup(f)
      BY <2>2
    <3> QED  BY <1>2, <2>3, <3>1, <3>2
  <2> QED  BY <1>1, <1>2, <1>4, <2>2, <2>3, <2>4 DEF Recovers, Disk
<1>5. CASE ~Stops(f)
  <2>1. /\ GoodFile(g) /\ ~Stops(g) /\ Recovered(g) = Behind(Recovered(f), <<a, b>>)
        /\ RecoveredSeq(g) = IF s > RecoveredSeq(f) THEN s ELSE RecoveredSeq(f)
    BY <1>2, <1>5, WholeGroupRead
  <2>2. OpenGroup(g) = 0
    BY <2>1 DEF Stops
  <2>3. RecoveredSeq(g) <= seq + 1 /\ OpenGroup(g) <= seq
    <3>1. RecoveredSeq(g) \in {s, RecoveredSeq(f)}
      BY <2>1
    <3>2. RecoveredSeq(f) <= seq + 1 /\ s <= seq + 1 /\ 0 <= seq
      BY <1>1, <1>2, <1>3
    <3> QED  BY <2>2, <3>1, <3>2
  <2> QED  BY <1>1, <1>2, <1>5, <2>1, <2>3 DEF Recovers, Disk, Behind
<1> QED  BY <1>4, <1>5

LEMMA PartLands ==
  ASSUME TypeOK, FileInv, server = "up", NEW a, NEW b,
         NEW part \in PartialGroups(<<a, b>>, seq + 1), file' = file \o part
  PROVE  /\ GoodFile(file') /\ Disk' = Disk
         /\ Stops(file') <=> (spoiled \/ part # <<>>)
         /\ OpenGroup(file') <= seq + 1 /\ RecoveredSeq(file') <= seq + 1
         /\ ~spoiled => Status(file') # "corrupt"
<1>1. PICK f, g, s : f = file /\ g = file' /\ s = seq + 1
  OBVIOUS
<1>2. /\ GoodFile(f) /\ g = Behind(f, part) /\ s \in Nat \ {0} /\ seq \in Nat
      /\ part \in PartialGroups(<<a, b>>, s)
      /\ (spoiled <=> Stops(f)) /\ OpenGroup(f) <= seq /\ RecoveredSeq(f) <= seq
  BY <1>1 DEF TypeOK, FileInv, Behind
<1>3. OpenGroup(f) \in Nat /\ RecoveredSeq(f) \in Nat
  BY <1>2, EndReadWell DEF ReadWell, OpenGroup, RecoveredSeq
<1>4. /\ GoodFile(g) /\ SameRecovery(f, g)
      /\ Stops(g) <=> (Stops(f) \/ part # <<>>)
      /\ OpenGroup(g) \in {OpenGroup(f), s}
      /\ Readable(f) => Status(g) # "corrupt"
  BY <1>2, PartRead
<1>5. Recovered(g) = Recovered(f) /\ RecoveredSeq(g) = RecoveredSeq(f)
  BY <1>4 DEF SameRecovery
<1>6. OpenGroup(g) <= seq + 1 /\ RecoveredSeq(g) <= seq + 1
  BY <1>1, <1>2, <1>3, <1>4, <1>5
<1>7. ~Stops(f) => Readable(f)
  BY DEF Stops
<1> QED  BY <1>1, <1>2, <1>4, <1>5, <1>6, <1>7 DEF Disk
-----------------------------------------------------------------------------
(***************************************************************************)
(* What a transaction does to the records of the index, or of the disk:    *)
(* they get a record and its audit entry, of a number all others are below.*)
(***************************************************************************)

Grows(recs, a, b, longer) ==
  /\ IsSequence(recs) /\ IsSequence(longer)
  /\ Len(recs) \in Nat /\ Len(longer) = Len(recs) + 2
  /\ DOMAIN recs = 1 .. Len(recs) /\ DOMAIN longer = 1 .. Len(recs) + 2
  /\ \A i \in 1 .. Len(recs) : longer[i] = recs[i]
  /\ longer[Len(recs) + 1] = a /\ longer[Len(recs) + 2] = b

Transaction(a, b, t) ==
  /\ t \in Nat /\ TransactionOf(a) = t /\ TransactionOf(b) = t
  /\ ~IsAudit(a) /\ IsAudit(b) /\ ~IsRow(b)

Below(recs, t) == \A i \in DOMAIN recs : TransactionOf(recs[i]) \in 1 .. t - 1

LEMMA TwoMore ==
  ASSUME NEW recs, IsSequence(recs), NEW a, NEW b, NEW longer, longer = Behind(recs, <<a, b>>)
  PROVE  Grows(recs, a, b, longer)
<1>1. PICK one : one = Longer(recs, a)
  OBVIOUS
<1>2. longer = Longer(one, b)
  BY <1>1, OneByOne DEF Behind, Longer
<1>3. PICK n : n = Len(recs)
  OBVIOUS
<1>4. /\ IsSequence(one) /\ Len(one) = n + 1
      /\ \A i \in DOMAIN recs : one[i] = recs[i]
      /\ one[n + 1] = a
  BY <1>1, <1>3, Appended DEF Longer
<1>5. PICK m : m = Len(one)
  OBVIOUS
<1>6. /\ IsSequence(longer) /\ Len(longer) = m + 1 /\ DOMAIN longer = 1 .. m + 1
      /\ \A i \in DOMAIN one : longer[i] = one[i]
      /\ longer[m + 1] = b
  <2>1. IsSequence(one)
    BY <1>4
  <2>2. IsSequence(longer) /\ Len(longer) = m + 1
    <3>1. longer = Append(one, b)
      BY <1>2 DEF Longer
    <3>2. IsSequence(Append(one, b)) /\ Len(Append(one, b)) = Len(one) + 1
      BY <2>1, Appended
    <3> QED  BY <1>5, <3>1, <3>2
  <2>3. DOMAIN longer = 1 .. m + 1
    BY <2>2, Sequences
  <2>4. \A i \in DOMAIN one : longer[i] = one[i]
    BY <1>2, <1>5, <2>1, Appended DEF Longer
  <2>5. longer[m + 1] = b
    BY <1>2, <1>5, <2>1, Appended DEF Longer
  <2> QED  BY <2>2, <2>3, <2>4, <2>5
<1>7. n \in Nat /\ DOMAIN recs = 1 .. n /\ DOMAIN one = 1 .. m
  BY <1>3, <1>4, <1>5, Sequences
<1>8. m = n + 1 /\ m + 1 = n + 2 /\ n + 1 \in 1 .. m /\ \A i \in 1 .. n : i \in 1 .. m
  BY <1>4, <1>5, <1>7
<1> QED  BY <1>3, <1>4, <1>6, <1>7, <1>8 DEF Grows

LEMMA GroupsGrow ==
  ASSUME NEW recs, NEW a, NEW b, NEW longer, Grows(recs, a, b, longer),
         NEW t, Transaction(a, b, t), InGroups(recs)
  PROVE  InGroups(longer)
<1>1. PICK n \in 0 .. Len(recs) :
        /\ Len(recs) = 2 * n
        /\ \A i \in 1 .. n :
             /\ ~IsAudit(recs[2 * i - 1]) /\ IsAudit(recs[2 * i])
             /\ TransactionOf(recs[2 * i - 1]) = TransactionOf(recs[2 * i])
  BY DEF InGroups
<1>2. n \in Nat /\ Len(recs) \in Nat /\ Len(longer) = 2 * (n + 1) /\ n + 1 \in 0 .. Len(longer)
  BY <1>1 DEF Grows
<1>3. ASSUME NEW i \in 1 .. n + 1
      PROVE  /\ ~IsAudit(longer[2 * i - 1]) /\ IsAudit(longer[2 * i])
             /\ TransactionOf(longer[2 * i - 1]) = TransactionOf(longer[2 * i])
  <2>1. CASE i = n + 1
    <3>1. longer[2 * i - 1] = a /\ longer[2 * i] = b
      <4>1. 2 * i - 1 = Len(recs) + 1 /\ 2 * i = Len(recs) + 2
        BY <1>1, <1>2, <2>1
      <4> QED  BY <4>1 DEF Grows
    <3> QED  BY <3>1 DEF Transaction
  <2>2. CASE i # n + 1
    <3>1. i \in 1 .. n /\ 2 * i - 1 \in 1 .. Len(recs) /\ 2 * i \in 1 .. Len(recs)
      BY <1>1, <1>2, <2>2
    <3>2. longer[2 * i - 1] = recs[2 * i - 1] /\ longer[2 * i] = recs[2 * i]
      BY <3>1 DEF Grows
    <3> QED  BY <1>1, <3>1, <3>2
  <2> QED  BY <2>1, <2>2
<1> QED  BY <1>2, <1>3 DEF InGroups

LEMMA OrderKept ==
  ASSUME NEW recs, NEW a, NEW b, NEW longer, Grows(recs, a, b, longer),
         NEW t, Transaction(a, b, t), Below(recs, t), InOrder(recs)
  PROVE  InOrder(longer)
<1>1. SUFFICES ASSUME NEW i \in DOMAIN longer, NEW j \in DOMAIN longer, i + 1 < j
               PROVE  TransactionOf(longer[i]) < TransactionOf(longer[j])
  BY DEF InOrder
<1>2. PICK n : n = Len(recs)
  OBVIOUS
<1>3. /\ n \in Nat /\ DOMAIN recs = 1 .. n /\ i \in 1 .. n + 2 /\ j \in 1 .. n + 2
      /\ \A m \in 1 .. n : longer[m] = recs[m]
      /\ longer[n + 1] = a /\ longer[n + 2] = b
  BY <1>2 DEF Grows
<1>4. i \in 1 .. n
  BY <1>1, <1>3
<1>5. CASE j \in 1 .. n
  <2>1. longer[i] = recs[i] /\ longer[j] = recs[j]
    BY <1>3, <1>4, <1>5
  <2>2. TransactionOf(recs[i]) < TransactionOf(recs[j])
    BY <1>1, <1>3, <1>4, <1>5 DEF InOrder
  <2> QED  BY <2>1, <2>2
<1>6. CASE j \notin 1 .. n
  <2>1. j = n + 1 \/ j = n + 2
    BY <1>3, <1>6
  <2>2. TransactionOf(longer[j]) = t /\ t \in Nat
    BY <1>3, <2>1 DEF Transaction
  <2>3. TransactionOf(longer[i]) \in 1 .. t - 1
    BY <1>3, <1>4 DEF Below
  <2>4. PICK u, v : u = TransactionOf(longer[i]) /\ v = TransactionOf(longer[j])
    OBVIOUS
  <2>5. u < v
    BY <2>2, <2>3, <2>4
  <2> QED  BY <2>4, <2>5
<1> QED  BY <1>5, <1>6

LEMMA TransactionsGrow ==
  ASSUME NEW recs, NEW a, NEW b, NEW longer, Grows(recs, a, b, longer), NEW t, Transaction(a, b, t)
  PROVE  TransactionsIn(longer) = TransactionsIn(recs) \cup {t}
<1>1. PICK n : n = Len(recs)
  OBVIOUS
<1>2. /\ n \in Nat /\ DOMAIN recs = 1 .. n /\ DOMAIN longer = 1 .. n + 2
      /\ \A m \in 1 .. n : longer[m] = recs[m]
      /\ longer[n + 1] = a /\ longer[n + 2] = b
  BY <1>1 DEF Grows
<1>3. TransactionOf(a) = t /\ TransactionOf(b) = t
  BY DEF Transaction
<1>4. ASSUME NEW x \in TransactionsIn(longer) PROVE x \in TransactionsIn(recs) \cup {t}
  <2>1. PICK i \in 1 .. n + 2 : x = TransactionOf(longer[i])
    BY <1>2 DEF TransactionsIn
  <2>2. CASE i \in 1 .. n
    BY <1>2, <2>1, <2>2 DEF TransactionsIn
  <2>3. CASE i \notin 1 .. n
    <3>1. i = n + 1 \/ i = n + 2
      BY <1>2, <2>3
    <3> QED  BY <1>2, <1>3, <2>1, <3>1
  <2> QED  BY <2>2, <2>3
<1>5. ASSUME NEW x \in TransactionsIn(recs) PROVE x \in TransactionsIn(longer)
  <2>1. PICK i \in 1 .. n : x = TransactionOf(recs[i])
    BY <1>2 DEF TransactionsIn
  <2>2. i \in 1 .. n + 2 /\ longer[i] = recs[i]
    BY <1>2
  <2> QED  BY <1>2, <2>1, <2>2 DEF TransactionsIn
<1>6. t \in TransactionsIn(longer)
  <2>1. n + 1 \in 1 .. n + 2 /\ t = TransactionOf(longer[n + 1])
    BY <1>2, <1>3
  <2> QED  BY <1>2, <2>1 DEF TransactionsIn
<1> QED  BY <1>4, <1>5, <1>6

LEMMA AuditsGrow ==
  ASSUME NEW recs, NEW a, NEW b, NEW longer, Grows(recs, a, b, longer), NEW t, Transaction(a, b, t)
  PROVE  /\ Audits(longer) = Audits(recs) \cup {Len(recs) + 2}
         /\ Audits(recs) \in SUBSET (1 .. Len(recs))
<1>1. PICK n : n = Len(recs)
  OBVIOUS
<1>2. /\ n \in Nat /\ DOMAIN recs = 1 .. n /\ DOMAIN longer = 1 .. n + 2
      /\ \A m \in 1 .. n : longer[m] = recs[m]
      /\ longer[n + 1] = a /\ longer[n + 2] = b /\ ~IsAudit(a) /\ IsAudit(b)
  BY <1>1 DEF Grows, Transaction
<1>3. \A i : i \in 1 .. n + 2 <=> i \in 1 .. n \/ i = n + 1 \/ i = n + 2
  BY <1>2
<1>4. \A i : i \in Audits(longer) <=> i \in Audits(recs) \/ i = n + 2
  <2>1. \A i : i \in Audits(longer) <=> i \in 1 .. n + 2 /\ IsAudit(longer[i])
    BY <1>2 DEF Audits
  <2>2. \A i : i \in Audits(recs) <=> i \in 1 .. n /\ IsAudit(recs[i])
    BY <1>2 DEF Audits
  <2>3. \A i \in 1 .. n : IsAudit(longer[i]) <=> IsAudit(recs[i])
    BY <1>2
  <2>4. ~IsAudit(longer[n + 1]) /\ IsAudit(longer[n + 2])
    BY <1>2
  <2> QED  BY <1>3, <2>1, <2>2, <2>3, <2>4
<1>5. Audits(recs) \in SUBSET (1 .. n)
  BY <1>2 DEF Audits
<1> QED  BY <1>1, <1>4, <1>5

\* The last of some positions, when one behind them all is added.
LEMMA LaterMax ==
  ASSUME NEW n \in Nat, NEW S \in SUBSET (1 .. n), NEW m \in Nat, m > n
  PROVE  Max(S \cup {m}) = m
<1>1. PICK T : T = S \cup {m}
  OBVIOUS
<1>2. T \in SUBSET (1 .. m) /\ T # {} /\ m \in T
  BY <1>1
<1>3. Max(T) \in T /\ \A j \in T : j <= Max(T)
  BY <1>2, Greatest
<1>4. PICK top : top = Max(T)
  OBVIOUS
<1>5. top \in 1 .. m /\ m <= top
  BY <1>2, <1>3, <1>4
<1>6. top = m
  BY <1>5
<1> QED  BY <1>1, <1>4, <1>6

LEMMA LinkedKept ==
  ASSUME NEW recs, NEW a, NEW b, NEW longer, Grows(recs, a, b, longer), NEW t, Transaction(a, b, t),
         Linked(recs), b.prev = AuditHead(recs)
  PROVE  Linked(longer)
<1>1. PICK n : n = Len(recs)
  OBVIOUS
<1>2. /\ n \in Nat /\ Audits(longer) = Audits(recs) \cup {n + 2} /\ Audits(recs) \in SUBSET (1 .. n)
      /\ \A m \in 1 .. n : longer[m] = recs[m]
      /\ longer[n + 2] = b
  <2>1. /\ Audits(longer) = Audits(recs) \cup {Len(recs) + 2}
        /\ Audits(recs) \in SUBSET (1 .. Len(recs))
    BY AuditsGrow
  <2> QED  BY <1>1, <2>1 DEF Grows
<1>3. ASSUME NEW E \in SUBSET Audits(recs) PROVE LastHash(longer, E) = LastHash(recs, E)
  <2>1. CASE E = {}
    BY <2>1 DEF LastHash
  <2>2. CASE E # {}
    <3>1. E \in SUBSET (1 .. n)
      BY <1>2
    <3>2. Max(E) \in 1 .. n
      BY <1>2, <2>2, <3>1, Greatest
    <3>3. longer[Max(E)] = recs[Max(E)]
      BY <1>2, <3>2
    <3> QED  BY <2>2, <3>3 DEF LastHash
  <2> QED  BY <2>1, <2>2
<1>4. SUFFICES ASSUME NEW i \in Audits(longer)
               PROVE  longer[i].prev = LastHash(longer, {j \in Audits(longer) : j < i})
  BY DEF Linked
<1>5. CASE i \in Audits(recs)
  <2>1. i \in 1 .. n
    BY <1>2, <1>5
  <2>2. {j \in Audits(longer) : j < i} = {j \in Audits(recs) : j < i}
    BY <1>2, <2>1
  <2>3. recs[i].prev = LastHash(recs, {j \in Audits(recs) : j < i})
    BY <1>5 DEF Linked
  <2>4. {j \in Audits(recs) : j < i} \in SUBSET Audits(recs)
    OBVIOUS
  <2>5. longer[i] = recs[i]
    BY <1>2, <2>1
  <2> QED  BY <1>3, <2>2, <2>3, <2>4, <2>5
<1>6. CASE i = n + 2
  <2>1. {j \in Audits(longer) : j < i} = Audits(recs)
    BY <1>2, <1>6
  <2>2. LastHash(longer, Audits(recs)) = LastHash(recs, Audits(recs))
    BY <1>3
  <2> QED  BY <1>2, <1>6, <2>1, <2>2 DEF AuditHead
<1> QED  BY <1>2, <1>5, <1>6

LEMMA OwnersAre ==
  ASSUME NEW recs, IsSequence(recs), NEW k
  PROVE  /\ Owners(recs, k) \in SUBSET (1 .. Len(recs)) /\ Len(recs) \in Nat
         /\ Owners(recs, k) # {} => Max(Owners(recs, k)) \in Owners(recs, k)
<1>1. Len(recs) \in Nat /\ DOMAIN recs = 1 .. Len(recs)
  BY Sequences
<1>2. Owners(recs, k) \in SUBSET (1 .. Len(recs))
  BY <1>1 DEF Owners
<1> QED  BY <1>1, <1>2, Greatest

LEMMA OwnersGrow ==
  ASSUME NEW recs, NEW a, NEW b, NEW longer, Grows(recs, a, b, longer), NEW t, Transaction(a, b, t),
         NEW k
  PROVE  /\ IsRow(a) /\ a.key = k => Owners(longer, k) # {} /\ KeyOwner(longer, k) = a.id
         /\ ~(IsRow(a) /\ a.key = k) => Owners(longer, k) = Owners(recs, k)
         /\ ~(IsRow(a) /\ a.key = k) /\ Owners(recs, k) # {} =>
              KeyOwner(longer, k) = KeyOwner(recs, k)
<1>1. PICK n : n = Len(recs)
  OBVIOUS
<1>2. /\ n \in Nat /\ DOMAIN recs = 1 .. n /\ DOMAIN longer = 1 .. n + 2
      /\ \A m \in 1 .. n : longer[m] = recs[m]
      /\ longer[n + 1] = a /\ longer[n + 2] = b /\ ~IsRow(b)
  BY <1>1 DEF Grows, Transaction
<1>3. \A i : i \in 1 .. n + 2 <=> i \in 1 .. n \/ i = n + 1 \/ i = n + 2
  BY <1>2
<1>4. \A i : i \in Owners(longer, k) <=>
               i \in Owners(recs, k) \/ (i = n + 1 /\ IsRow(a) /\ a.key = k)
  <2>1. \A i : i \in Owners(longer, k) <=> i \in 1 .. n + 2 /\ IsRow(longer[i]) /\ longer[i].key = k
    BY <1>2 DEF Owners
  <2>2. \A i : i \in Owners(recs, k) <=> i \in 1 .. n /\ IsRow(recs[i]) /\ recs[i].key = k
    BY <1>2 DEF Owners
  <2>3. \A i \in 1 .. n : longer[i] = recs[i]
    BY <1>2
  <2>4. ~(IsRow(longer[n + 2]) /\ longer[n + 2].key = k)
    BY <1>2
  <2>5. IsRow(longer[n + 1]) /\ longer[n + 1].key = k <=> IsRow(a) /\ a.key = k
    BY <1>2
  <2> QED  BY <1>3, <2>1, <2>2, <2>3, <2>4, <2>5
<1>5. Owners(recs, k) \in SUBSET (1 .. n) /\ (Owners(recs, k) # {} => Max(Owners(recs, k)) \in Owners(recs, k))
  BY <1>1, OwnersAre DEF Grows
<1>6. CASE IsRow(a) /\ a.key = k
  <2>1. Owners(longer, k) = Owners(recs, k) \cup {n + 1}
    BY <1>4, <1>6
  <2>2. Max(Owners(longer, k)) = n + 1
    <3>1. PICK m \in Nat : m = n + 1 /\ m > n
      BY <1>2
    <3>2. Max(Owners(recs, k) \cup {m}) = m
      BY <1>2, <1>5, <3>1, LaterMax
    <3> QED  BY <2>1, <3>1, <3>2
  <2> QED  BY <1>2, <1>6, <2>1, <2>2 DEF KeyOwner
<1>7. CASE ~(IsRow(a) /\ a.key = k)
  <2>1. Owners(longer, k) = Owners(recs, k)
    BY <1>4, <1>7
  <2>2. Owners(recs, k) # {} => longer[Max(Owners(recs, k))] = recs[Max(Owners(recs, k))]
    BY <1>2, <1>5
  <2> QED  BY <1>7, <2>1, <2>2 DEF KeyOwner
<1> QED  BY <1>6, <1>7

\* The records of transactions that are not in a set.
Outside(recs, R) == {recs[i] : i \in {j \in DOMAIN recs : TransactionOf(recs[j]) \notin R}}

LEMMA OutsideGrows ==
  ASSUME NEW recs, NEW a, NEW b, NEW longer, Grows(recs, a, b, longer), NEW t, Transaction(a, b, t),
         NEW R
  PROVE  Outside(longer, R) = Outside(recs, R) \cup {x \in {a, b} : t \notin R}
<1>1. PICK n : n = Len(recs)
  OBVIOUS
<1>2. /\ n \in Nat /\ DOMAIN recs = 1 .. n /\ DOMAIN longer = 1 .. n + 2
      /\ \A m \in 1 .. n : longer[m] = recs[m]
      /\ longer[n + 1] = a /\ longer[n + 2] = b
      /\ TransactionOf(a) = t /\ TransactionOf(b) = t
  BY <1>1 DEF Grows, Transaction
<1>3. /\ \A i : i \in 1 .. n + 2 <=> i \in 1 .. n \/ i = n + 1 \/ i = n + 2
  BY <1>2
<1>4. ASSUME NEW x \in Outside(longer, R) PROVE x \in Outside(recs, R) \cup {y \in {a, b} : t \notin R}
  <2>1. PICK i \in 1 .. n + 2 : x = longer[i] /\ TransactionOf(longer[i]) \notin R
    BY <1>2 DEF Outside
  <2>2. CASE i \in 1 .. n
    BY <1>2, <2>1, <2>2 DEF Outside
  <2>3. CASE i = n + 1 \/ i = n + 2
    BY <1>2, <2>1, <2>3
  <2> QED  BY <1>3, <2>2, <2>3
<1>5. ASSUME NEW x \in Outside(recs, R) PROVE x \in Outside(longer, R)
  <2>1. PICK i \in 1 .. n : x = recs[i] /\ TransactionOf(recs[i]) \notin R
    BY <1>2 DEF Outside
  <2>2. i \in DOMAIN longer /\ longer[i] = recs[i]
    BY <1>2, <1>3
  <2> QED  BY <2>1, <2>2 DEF Outside
<1>6. ASSUME t \notin R PROVE a \in Outside(longer, R) /\ b \in Outside(longer, R)
  <2>1. n + 1 \in DOMAIN longer /\ n + 2 \in DOMAIN longer
    BY <1>2, <1>3
  <2> QED  BY <1>2, <1>6, <2>1 DEF Outside
<1> QED  BY <1>4, <1>5, <1>6

LEMMA OutsideSame ==
  ASSUME NEW recs, NEW R, NEW t \in Nat, Below(recs, t)
  PROVE  Outside(recs, R \cup {t}) = Outside(recs, R)
<1>1. \A i \in DOMAIN recs : TransactionOf(recs[i]) # t
  <2>1. t \notin 1 .. t - 1
    OBVIOUS
  <2> QED  BY <2>1 DEF Below
<1> QED  BY <1>1 DEF Outside

TypedBefore(r, m) ==
  /\ r.type \in {"deployment", "outbox", "audit"}
  /\ TransactionOf(r) \in 1 .. m - 1
  /\ IsRow(r) => r.key \in Key

AllTyped(recs, m) == IsSequence(recs) /\ \A i \in DOMAIN recs : TypedBefore(recs[i], m)

LEMMA TypedGrow ==
  ASSUME NEW recs, NEW m \in Nat, AllTyped(recs, m), NEW a, NEW b, NEW longer,
         Grows(recs, a, b, longer), TypedBefore(a, m + 1), TypedBefore(b, m + 1)
  PROVE  AllTyped(recs, m + 1) /\ AllTyped(longer, m + 1)
<1>1. \A x : x \in 1 .. m - 1 => x \in 1 .. m + 1 - 1
  OBVIOUS
<1>2. \A r : TypedBefore(r, m) => TypedBefore(r, m + 1)
  BY <1>1 DEF TypedBefore
<1>3. AllTyped(recs, m + 1)
  BY <1>2 DEF AllTyped
<1>4. PICK n : n = Len(recs)
  OBVIOUS
<1>5. /\ n \in Nat /\ DOMAIN recs = 1 .. n /\ DOMAIN longer = 1 .. n + 2 /\ IsSequence(longer)
      /\ \A i \in 1 .. n : longer[i] = recs[i]
      /\ longer[n + 1] = a /\ longer[n + 2] = b
  BY <1>4 DEF Grows
<1>6. \A i : i \in 1 .. n + 2 <=> i \in 1 .. n \/ i = n + 1 \/ i = n + 2
  BY <1>5
<1>7. ASSUME NEW i \in DOMAIN longer PROVE TypedBefore(longer[i], m + 1)
  BY <1>3, <1>5, <1>6 DEF AllTyped
<1> QED  BY <1>3, <1>5, <1>7 DEF AllTyped

LEMMA TypedBelow ==
  ASSUME NEW recs, NEW m, AllTyped(recs, m)
  PROVE  Below(recs, m)
BY DEF AllTyped, Below, TypedBefore
-----------------------------------------------------------------------------
(***************************************************************************)
(* The four ends of a transaction.                                         *)
(***************************************************************************)

\* Committed: lost all the same, if it was written behind a rest.
Acked(a, b) ==
  /\ index' = Behind(index, <<a, b>>) /\ Recovers(a, b)
  /\ acked' = acked \cup {next}
  /\ suspect' = IF spoiled THEN suspect \cup {next} ELSE suspect
  /\ UNCHANGED <<server, refused, spoiled, left>>

\* The write stopped; the process goes on.
Cut ==
  /\ Disk' = Disk
  /\ spoiled => spoiled'
  /\ left' = [left EXCEPT !.faults = @ - 1] /\ left.faults > 0
  /\ UNCHANGED <<index, server, acked, refused, suspect>>

\* The fsync failed after the whole write.
Refused(a, b) ==
  /\ Recovers(a, b)
  /\ refused' = refused \cup {next}
  /\ left' = [left EXCEPT !.faults = @ - 1] /\ left.faults > 0
  /\ UNCHANGED <<index, server, acked, suspect, spoiled>>

\* The process died, before or after all of it was written.
Gone(a, b) ==
  /\ Disk' = Disk \/ (~spoiled /\ Disk' = Behind(Disk, <<a, b>>))
  /\ server' = "down" /\ index' = <<>>
  /\ left' = [left EXCEPT !.crashes = @ - 1] /\ left.crashes > 0
  /\ UNCHANGED <<acked, refused, suspect, spoiled>>

Ends(a, b) == Acked(a, b) \/ Cut \/ Refused(a, b) \/ Gone(a, b)

LEMMA ReadableIsFine ==
  ASSUME NEW f, ~Stops(f)
  PROVE  Status(f) # "corrupt"
BY DEF Stops, Readable, Status

\* The file after a transaction, and which of the four it was.
LEMMA CommitEnds ==
  ASSUME TypeOK, FileInv, FaultlessInv, server = "up", NEW a, NEW b, Commit(<<a, b>>)
  PROVE  /\ Ends(a, b)
         /\ GoodFile(file') /\ seq' \in Nat /\ spoiled' \in BOOLEAN
         /\ FileInv' /\ FaultlessInv'
         /\ UNCHANGED at \/ at' = [c \in Caller |-> NoTime]
<1>1. seq \in Nat /\ spoiled \in BOOLEAN /\ left \in [faults : 0 .. MaxFaults, crashes : 0 .. MaxCrashes]
  BY DEF TypeOK
<1>2. CASE Committed(<<a, b>>)
  <2>1. /\ GoodFile(file') /\ Recovers(a, b) /\ (Stops(file') <=> spoiled)
        /\ OpenGroup(file') <= seq /\ RecoveredSeq(file') <= seq + 1
    BY <1>2, WholeLands DEF Committed
  <2>2. OpenGroup(file') <= seq + 1
    <3>1. OpenGroup(file') \in Nat
      BY <2>1, EndReadWell DEF ReadWell, OpenGroup
    <3> QED  BY <1>1, <2>1, <3>1
  <2>3. FileInv'
    BY <1>2, <2>1, <2>2 DEF Committed, FileInv
  <2>4. FaultlessInv'
    BY <1>2, <2>1, ReadableIsFine DEF Committed, FaultlessInv
  <2>5. Acked(a, b)
    BY <1>2, <2>1 DEF Committed, Acked, Behind
  <2>6. spoiled' \in BOOLEAN
    BY <1>1, <1>2, Zenon DEF Committed
  <2>7. seq' \in Nat /\ UNCHANGED at
    BY <1>1, <1>2 DEF Committed
  <2> QED  BY <2>1, <2>3, <2>4, <2>5, <2>6, <2>7 DEF Ends
<1>3. CASE AppendFailed(<<a, b>>)
  <2>1. /\ left' = [left EXCEPT !.faults = @ - 1] /\ left.faults > 0 /\ seq' = seq + 1
        /\ UNCHANGED <<index, acked, suspect, server, at>>
    BY <1>3 DEF AppendFailed
  <2>2. FaultlessInv'
    <3>1. left'.faults # MaxFaults
      BY <1>1, <2>1
    <3> QED  BY <3>1 DEF FaultlessInv
  <2>3. CASE \E part \in PartialGroups(<<a, b>>, seq + 1) :
               /\ file' = file \o part /\ spoiled' = (spoiled \/ part # <<>>)
               /\ refused' = refused
    <3>1. PICK part \in PartialGroups(<<a, b>>, seq + 1) :
            file' = file \o part /\ spoiled' = (spoiled \/ part # <<>>) /\ refused' = refused
      BY <2>3
    <3>2. /\ GoodFile(file') /\ Disk' = Disk
          /\ Stops(file') <=> (spoiled \/ part # <<>>)
          /\ OpenGroup(file') <= seq + 1 /\ RecoveredSeq(file') <= seq + 1
      BY <3>1, PartLands
    <3>3. FileInv'
      BY <2>1, <3>1, <3>2 DEF FileInv
    <3>4. Cut
      BY <2>1, <3>1, <3>2 DEF Cut
    <3> QED  BY <1>1, <2>1, <2>2, <3>1, <3>2, <3>3, <3>4 DEF Ends
  <2>4. CASE file' = file \o Group(<<a, b>>, seq + 1) /\ refused' = refused \cup {next}
             /\ spoiled' = spoiled
    <3>1. /\ GoodFile(file') /\ Recovers(a, b) /\ (Stops(file') <=> spoiled)
          /\ OpenGroup(file') <= seq /\ RecoveredSeq(file') <= seq + 1
      BY <2>4, WholeLands
    <3>2. OpenGroup(file') <= seq + 1
      <4>1. OpenGroup(file') \in Nat
        BY <3>1, EndReadWell DEF ReadWell, OpenGroup
      <4> QED  BY <1>1, <3>1, <4>1
    <3>3. FileInv'
      BY <2>1, <2>4, <3>1, <3>2 DEF FileInv
    <3>4. Refused(a, b)
      BY <2>1, <2>4, <3>1 DEF Refused
    <3>5. spoiled' \in BOOLEAN
      BY <1>1, <2>4, Zenon
    <3>6. seq' \in Nat
      BY <1>1, <2>1
    <3> QED  BY <2>1, <2>2, <3>1, <3>3, <3>4, <3>5, <3>6 DEF Ends
  <2> QED  BY <1>3, <2>3, <2>4 DEF AppendFailed
<1>4. CASE DiedAppending(<<a, b>>)
  <2>1. /\ left' = [left EXCEPT !.crashes = @ - 1] /\ left.crashes > 0
        /\ server' = "down" /\ index' = <<>> /\ seq' = 0
        /\ at' = [c \in Caller |-> NoTime]
        /\ UNCHANGED <<acked, refused, spoiled, suspect>>
    BY <1>4 DEF DiedAppending, ProcessGone, history
  <2>2. FileInv'
    BY <2>1 DEF FileInv
  <2>3. left'.faults = left.faults
    BY <1>1, <2>1
  <2>4. CASE \E part \in PartialGroups(<<a, b>>, seq + 1) : file' = file \o part
    <3>1. PICK part \in PartialGroups(<<a, b>>, seq + 1) : file' = file \o part
      BY <2>4
    <3>2. GoodFile(file') /\ Disk' = Disk /\ (~spoiled => Status(file') # "corrupt")
      BY <3>1, PartLands
    <3>3. FaultlessInv'
      BY <2>1, <2>3, <3>2 DEF FaultlessInv
    <3>4. Gone(a, b)
      BY <2>1, <3>2 DEF Gone
    <3> QED  BY <1>1, <2>1, <2>2, <3>2, <3>3, <3>4 DEF Ends
  <2>5. CASE file' = file \o Group(<<a, b>>, seq + 1)
    <3>1. GoodFile(file') /\ Recovers(a, b) /\ (Stops(file') <=> spoiled)
      BY <2>5, WholeLands
    <3>2. FaultlessInv'
      BY <2>1, <2>3, <3>1, ReadableIsFine DEF FaultlessInv
    <3>3. Gone(a, b)
      BY <2>1, <3>1 DEF Gone, Recovers, Behind
    <3> QED  BY <1>1, <2>1, <2>2, <3>1, <3>2, <3>3 DEF Ends
  <2> QED  BY <1>4, <2>4, <2>5 DEF DiedAppending
<1> QED  BY <1>2, <1>3, <1>4 DEF Commit

LEMMA DiskIsSequence ==
  ASSUME NEW f, GoodFile(f)
  PROVE  IsSequence(Recovered(f))
BY EndReadWell DEF ReadWell, Recovered

LEMMA RecordsTyped ==
  ASSUME TypeOK, RecordsInv
  PROVE  AllTyped(index, next) /\ AllTyped(Disk, next) /\ next \in Nat
<1>1. IsSequence(Disk)
  BY DiskIsSequence DEF TypeOK, Disk
<1>2. next \in Nat
  BY StoreAssumption DEF TypeOK
<1> QED  BY <1>1, <1>2 DEF TypeOK, RecordsInv, AllTyped, TypedBefore, RecordTyped, Tried

\* The next transaction, and what it would make of the index and the disk.
NextOne(a, b) ==
  /\ Transaction(a, b, next) /\ TypedBefore(a, next + 1) /\ TypedBefore(b, next + 1)
  /\ b.prev = AuditHead(index)

LEMMA BothGrow ==
  ASSUME IndInv, NEW a, NEW b
  PROVE  /\ Grows(index, a, b, Behind(index, <<a, b>>)) /\ Grows(Disk, a, b, Behind(Disk, <<a, b>>))
         /\ Below(index, next) /\ Below(Disk, next)
         /\ AllTyped(index, next) /\ AllTyped(Disk, next) /\ next \in Nat
<1>1. AllTyped(index, next) /\ AllTyped(Disk, next) /\ next \in Nat
  BY RecordsTyped DEF IndInv
<1>2. Grows(index, a, b, Behind(index, <<a, b>>)) /\ Grows(Disk, a, b, Behind(Disk, <<a, b>>))
  BY <1>1, TwoMore DEF AllTyped
<1> QED  BY <1>1, <1>2, TypedBelow

LEMMA NoneIsFine == InGroups(<<>>) /\ InOrder(<<>>) /\ \A m : AllTyped(<<>>, m)
<1>1. IsSequence(<<>>) /\ Len(<<>>) = 0
  BY EmptyIsSequence
<1>2. DOMAIN <<>> = {}
  BY <1>1, Sequences
<1>3. InGroups(<<>>)
  BY <1>1 DEF InGroups
<1> QED  BY <1>1, <1>2, <1>3 DEF InOrder, AllTyped

\* The index and the disk, after a transaction: each is as it was, or longer.
LEMMA IndexAfter ==
  ASSUME NEW a, NEW b, Ends(a, b)
  PROVE  index' \in {index, Behind(index, <<a, b>>), <<>>} /\ Disk' \in {Disk, Behind(Disk, <<a, b>>)}
BY DEF Ends, Acked, Cut, Refused, Gone, Recovers, Behind

LEMMA RecordsKept ==
  ASSUME IndInv, NEW a, NEW b, NextOne(a, b), Ends(a, b), next' = next + 1
  PROVE  RecordsInv' /\ AllTyped(index', next')
<1>1. PICK il, dl : il = Behind(index, <<a, b>>) /\ dl = Behind(Disk, <<a, b>>)
  OBVIOUS
<1>2. Grows(index, a, b, il) /\ Grows(Disk, a, b, dl) /\ Below(index, next) /\ Below(Disk, next)
  BY <1>1, BothGrow
<1>3. AllTyped(index, next) /\ AllTyped(Disk, next) /\ next \in Nat
  BY BothGrow
<1>4. /\ Transaction(a, b, next) /\ TypedBefore(a, next + 1) /\ TypedBefore(b, next + 1)
  BY DEF NextOne
<1>5. InGroups(index) /\ InGroups(Disk) /\ InOrder(index) /\ InOrder(Disk)
  BY DEF IndInv, RecordsInv
<1>6. AllTyped(index, next + 1) /\ AllTyped(il, next + 1) /\ AllTyped(Disk, next + 1) /\ AllTyped(dl, next + 1)
  BY <1>2, <1>3, <1>4, TypedGrow
<1>7. InGroups(il) /\ InGroups(dl) /\ InOrder(il) /\ InOrder(dl)
  BY <1>2, <1>4, <1>5, GroupsGrow, OrderKept
<1>8. index' \in {index, il, <<>>} /\ Disk' \in {Disk, dl}
  BY <1>1, IndexAfter
<1>9. /\ AllTyped(index', next + 1) /\ InGroups(index') /\ InOrder(index')
      /\ AllTyped(Disk', next + 1) /\ InGroups(Disk') /\ InOrder(Disk')
  BY <1>5, <1>6, <1>7, <1>8, NoneIsFine
<1>10. \A i \in DOMAIN Disk' : TypedBefore(Disk'[i], next')
  BY <1>9 DEF AllTyped
<1> QED  BY <1>9, <1>10 DEF RecordsInv, RecordTyped, TypedBefore, Tried

LEMMA ReportedIs ==
  /\ \A recs : Reported(recs) = Outside(recs, refused)
  /\ Reported(index)' = Outside(index', refused') /\ Reported(Disk)' = Outside(Disk', refused')
BY DEF Reported, Outside

LEMMA IndexKept ==
  ASSUME IndInv, server = "up", NEW a, NEW b, NextOne(a, b), Ends(a, b)
  PROVE  IndexInv'
<1>1. PICK il, dl : il = Behind(index, <<a, b>>) /\ dl = Behind(Disk, <<a, b>>)
  OBVIOUS
<1>2. Grows(index, a, b, il) /\ Grows(Disk, a, b, dl) /\ Below(index, next) /\ Below(Disk, next)
      /\ next \in Nat
  BY <1>1, BothGrow
<1>3. Transaction(a, b, next)
  BY DEF NextOne
<1>4. /\ ~spoiled \/ suspect = {} => Outside(index, refused) = Outside(Disk, refused)
      /\ ~spoiled /\ refused = {} => index = Disk
  BY ReportedIs DEF IndInv, IndexInv
<1>5. SUFFICES
        /\ server' = "up" /\ (~spoiled' \/ suspect' = {}) =>
             Outside(index', refused') = Outside(Disk', refused')
        /\ server' = "up" /\ ~spoiled' /\ refused' = {} => index' = Disk'
  BY ReportedIs DEF IndexInv
<1>6. CASE Acked(a, b)
  <2>1. CASE spoiled
    BY <1>6, <2>1 DEF Acked
  <2>2. CASE ~spoiled
    <3>1. index' = il /\ Disk' = dl /\ refused' = refused
      BY <1>1, <1>6, <2>2 DEF Acked, Recovers, Behind
    <3>2. Outside(il, refused) = Outside(dl, refused)
      <4>1. /\ Outside(il, refused) = Outside(index, refused) \cup {x \in {a, b} : next \notin refused}
            /\ Outside(dl, refused) = Outside(Disk, refused) \cup {x \in {a, b} : next \notin refused}
        BY <1>2, <1>3, OutsideGrows
      <4>2. Outside(index, refused) = Outside(Disk, refused)
        BY <1>4, <2>2
      <4> QED  BY <4>1, <4>2
    <3>3. refused = {} => il = dl
      BY <1>1, <1>4, <2>2
    <3> QED  BY <3>1, <3>2, <3>3
  <2> QED  BY <2>1, <2>2
<1>7. CASE Cut
  BY <1>4, <1>7 DEF Cut
<1>8. CASE Refused(a, b)
  <2>1. /\ index' = index /\ refused' = refused \cup {next} /\ suspect' = suspect /\ spoiled' = spoiled
    BY <1>8 DEF Refused
  <2>2. refused' # {}
    BY <2>1
  <2>3. Disk' = Disk \/ Disk' = dl
    BY <1>1, <1>8 DEF Refused, Recovers, Behind
  <2>4. /\ Outside(index, refused') = Outside(index, refused)
        /\ Outside(Disk, refused') = Outside(Disk, refused)
    BY <1>2, <2>1, OutsideSame
  <2>5. Outside(dl, refused') = Outside(Disk, refused')
    <3>1. Outside(dl, refused') = Outside(Disk, refused') \cup {x \in {a, b} : next \notin refused'}
      BY <1>2, <1>3, OutsideGrows
    <3>2. next \in refused'
      BY <2>1
    <3> QED  BY <3>1, <3>2
  <2> QED  BY <1>4, <2>1, <2>2, <2>3, <2>4, <2>5
<1>9. CASE Gone(a, b)
  BY <1>9 DEF Gone
<1> QED  BY <1>6, <1>7, <1>8, <1>9 DEF Ends

LEMMA AcksKept ==
  ASSUME IndInv, NEW a, NEW b, NextOne(a, b), Ends(a, b)
  PROVE  CleanAckSurvives'
<1>1. PICK dl : dl = Behind(Disk, <<a, b>>)
  OBVIOUS
<1>2. TransactionsIn(dl) = TransactionsIn(Disk) \cup {next}
  BY <1>1, BothGrow, TransactionsGrow DEF NextOne
<1>3. acked \ suspect \subseteq TransactionsIn(Disk)
  BY DEF IndInv, CleanAckSurvives, OnDisk, Disk
<1>4. SUFFICES acked' \ suspect' \subseteq TransactionsIn(Disk')
  BY DEF CleanAckSurvives, OnDisk, Disk
<1>5. Disk' \in {Disk, dl}
  BY <1>1, IndexAfter
<1>6. CASE Acked(a, b)
  <2>1. CASE spoiled
    <3>1. Disk' = Disk /\ acked' = acked \cup {next} /\ suspect' = suspect \cup {next}
      BY <1>6, <2>1 DEF Acked, Recovers
    <3> QED  BY <1>3, <3>1
  <2>2. CASE ~spoiled
    <3>1. Disk' = dl /\ acked' = acked \cup {next} /\ suspect' = suspect
      BY <1>1, <1>6, <2>2 DEF Acked, Recovers, Behind
    <3> QED  BY <1>2, <1>3, <3>1
  <2> QED  BY <2>1, <2>2
<1>7. CASE Cut \/ Refused(a, b) \/ Gone(a, b)
  <2>1. acked' = acked /\ suspect' = suspect
    BY <1>7 DEF Cut, Refused, Gone
  <2> QED  BY <1>2, <1>3, <1>5, <2>1
<1> QED  BY <1>6, <1>7 DEF Ends

LEMMA ReasonsKept ==
  ASSUME IndInv, server = "up", NEW a, NEW b, NextOne(a, b), Ends(a, b)
  PROVE  RefusalIsExplained'
<1>1. PICK dl : dl = Behind(Disk, <<a, b>>)
  OBVIOUS
<1>2. Grows(Disk, a, b, dl) /\ Transaction(a, b, next) /\ b.prev = AuditHead(index)
  BY <1>1, BothGrow DEF NextOne
<1>3. refused = {} => Linked(Disk)
  BY DEF IndInv, RefusalIsExplained, Disk
<1>4. ~spoiled /\ refused = {} => index = Disk
  BY DEF IndInv, IndexInv
<1>5. server' # "refused"
  BY DEF Ends, Acked, Cut, Refused, Gone
<1>6. SUFFICES ASSUME refused' = {} PROVE Linked(Disk')
  BY <1>5 DEF RefusalIsExplained, Disk
<1>7. refused = {} /\ (Disk' = Disk \/ (Disk' = dl /\ ~spoiled))
  BY <1>1, <1>6 DEF Ends, Acked, Cut, Refused, Gone, Recovers, Behind
<1>8. CASE Disk' = Disk
  BY <1>3, <1>7, <1>8
<1>9. CASE Disk' = dl /\ ~spoiled
  <2>1. b.prev = AuditHead(Disk) /\ Linked(Disk)
    BY <1>2, <1>3, <1>4, <1>7, <1>9
  <2>2. Linked(dl)
    BY <1>2, <2>1, LinkedKept
  <2> QED  BY <1>9, <2>2
<1> QED  BY <1>7, <1>8, <1>9

(* The answers, and the owners of keys.                                    *)
Answered(i, d, on, given) ==
  /\ \A answer \in given :
       /\ Owners(d, answer[1]) # {} /\ KeyOwner(d, answer[1]) = answer[2]
       /\ on = "up" => Owners(i, answer[1]) # {}
  /\ \A k \in Key : Owners(i, k) # {} =>
       Owners(d, k) # {} /\ KeyOwner(d, k) = KeyOwner(i, k)

LEMMA KeyInvIs ==
  /\ KeyInv <=> (suspect = {} => Answered(index, Disk, server, answers))
  /\ KeyInv' <=> (suspect' = {} => Answered(index', Disk', server', answers'))
BY DEF KeyInv, Answered, KeyIsTaken

LEMMA NoOwners == \A k : Owners(<<>>, k) = {}
<1>1. DOMAIN <<>> = {}
  BY ShortSequences, Sequences
<1> QED  BY <1>1 DEF Owners

\* Of a transaction without a row: the owners stay.
LEMMA KeysKept ==
  ASSUME IndInv, server = "up", NEW a, NEW b, NextOne(a, b), Ends(a, b), ~IsRow(a),
         answers' = answers
  PROVE  KeyInv'
<1>1. PICK il, dl : il = Behind(index, <<a, b>>) /\ dl = Behind(Disk, <<a, b>>)
  OBVIOUS
<1>2. Grows(index, a, b, il) /\ Grows(Disk, a, b, dl) /\ Transaction(a, b, next)
  BY <1>1, BothGrow DEF NextOne
<1>3. \A k : /\ Owners(il, k) = Owners(index, k) /\ Owners(dl, k) = Owners(Disk, k)
             /\ Owners(index, k) # {} => KeyOwner(il, k) = KeyOwner(index, k)
             /\ Owners(Disk, k) # {} => KeyOwner(dl, k) = KeyOwner(Disk, k)
  BY <1>2, OwnersGrow
<1>4. SUFFICES ASSUME suspect' = {} PROVE Answered(index', Disk', server', answers')
  BY KeyInvIs
<1>5. suspect = {}
  BY <1>4 DEF Ends, Acked, Cut, Refused, Gone
<1>6. Answered(index, Disk, server, answers)
  BY <1>5, KeyInvIs DEF IndInv
<1>7. /\ (index' \in {index, il} /\ server' = "up") \/ (index' = <<>> /\ server' = "down")
      /\ Disk' \in {Disk, dl}
  <2>1. index' \in {index, il, <<>>} /\ Disk' \in {Disk, dl}
    BY <1>1, IndexAfter
  <2>2. CASE Gone(a, b)
    BY <2>1, <2>2 DEF Gone
  <2>3. CASE Acked(a, b)
    <3>1. index' = il /\ server' = "up"
      BY <1>1, <2>3 DEF Acked
    <3> QED  BY <2>1, <3>1
  <2>4. CASE Cut \/ Refused(a, b)
    <3>1. index' = index /\ server' = "up"
      BY <2>4 DEF Cut, Refused
    <3> QED  BY <2>1, <3>1
  <2> QED  BY <2>2, <2>3, <2>4 DEF Ends
<1>8. Answered(index, Disk', "up", answers)
  BY <1>3, <1>6, <1>7 DEF Answered
<1>9. Answered(il, Disk', "up", answers)
  BY <1>3, <1>8 DEF Answered
<1>10. Answered(<<>>, Disk', "down", answers)
  BY <1>8, NoOwners DEF Answered
<1> QED  BY <1>7, <1>8, <1>9, <1>10

\* Of a create for a key nobody owns.
LEMMA KeysKeptByCreate ==
  ASSUME IndInv, server = "up", NEW a, NEW b, NextOne(a, b), Ends(a, b),
         IsRow(a), a.id = next, Owners(index, a.key) = {},
         answers' = IF next \in acked' THEN answers \cup {<<a.key, next>>} ELSE answers
  PROVE  KeyInv'
<1>1. PICK il, dl : il = Behind(index, <<a, b>>) /\ dl = Behind(Disk, <<a, b>>)
  OBVIOUS
<1>2. Grows(index, a, b, il) /\ Grows(Disk, a, b, dl) /\ Transaction(a, b, next)
  BY <1>1, BothGrow DEF NextOne
<1>3. \A k : k # a.key =>
        /\ Owners(il, k) = Owners(index, k) /\ Owners(dl, k) = Owners(Disk, k)
        /\ Owners(index, k) # {} => KeyOwner(il, k) = KeyOwner(index, k)
        /\ Owners(Disk, k) # {} => KeyOwner(dl, k) = KeyOwner(Disk, k)
  BY <1>2, OwnersGrow
<1>4. /\ Owners(il, a.key) # {} /\ KeyOwner(il, a.key) = next
      /\ Owners(dl, a.key) # {} /\ KeyOwner(dl, a.key) = next
  BY <1>2, OwnersGrow
<1>5. SUFFICES ASSUME suspect' = {} PROVE Answered(index', Disk', server', answers')
  BY KeyInvIs
<1>6. suspect = {}
  BY <1>5 DEF Ends, Acked, Cut, Refused, Gone
<1>7. Answered(index, Disk, "up", answers)
  BY <1>6, KeyInvIs DEF IndInv
<1>8. \A answer \in answers : answer[1] # a.key
  BY <1>7 DEF Answered
<1>9. Answered(index, dl, "up", answers)
  BY <1>3, <1>7, <1>8 DEF Answered
<1>10. next \notin acked
  BY <1>2 DEF IndInv, TypeOK, Tried, Transaction
<1>11. CASE Acked(a, b)
  <2>1. ~spoiled
    BY <1>5, <1>11 DEF Acked
  <2>2. index' = il /\ Disk' = dl /\ server' = "up" /\ answers' = answers \cup {<<a.key, next>>}
    BY <1>1, <1>11, <2>1 DEF Acked, Recovers, Behind
  <2>3. ASSUME NEW answer \in answers'
        PROVE  /\ Owners(dl, answer[1]) # {} /\ KeyOwner(dl, answer[1]) = answer[2]
               /\ Owners(il, answer[1]) # {}
    <3>1. CASE answer \in answers
      BY <1>3, <1>8, <1>9, <3>1 DEF Answered
    <3>2. CASE answer = <<a.key, next>>
      <4>1. answer[1] = a.key /\ answer[2] = next
        BY <3>2
      <4> QED  BY <1>4, <4>1
    <3> QED  BY <2>2, <3>1, <3>2
  <2>4. ASSUME NEW k \in Key, Owners(il, k) # {}
        PROVE  Owners(dl, k) # {} /\ KeyOwner(dl, k) = KeyOwner(il, k)
    <3>1. CASE k = a.key
      BY <1>4, <3>1
    <3>2. CASE k # a.key
      BY <1>3, <1>9, <2>4, <3>2 DEF Answered
    <3> QED  BY <3>1, <3>2
  <2> QED  BY <2>2, <2>3, <2>4 DEF Answered
<1>12. CASE Cut \/ Refused(a, b)
  <2>1. index' = index /\ server' = "up" /\ answers' = answers
    BY <1>10, <1>12 DEF Cut, Refused
  <2>2. Disk' \in {Disk, dl}
    BY <1>1, IndexAfter
  <2> QED  BY <1>7, <1>9, <2>1, <2>2
<1>13. CASE Gone(a, b)
  <2>1. index' = <<>> /\ server' = "down" /\ answers' = answers
    BY <1>10, <1>13 DEF Gone
  <2>2. Disk' \in {Disk, dl}
    BY <1>1, IndexAfter
  <2>3. Answered(<<>>, Disk', "down", answers)
    BY <1>7, <1>9, <2>2, NoOwners DEF Answered
  <2> QED  BY <2>1, <2>3
<1> QED  BY <1>11, <1>12, <1>13 DEF Ends

\* The types, after a transaction.
LEMMA TypesKept ==
  ASSUME IndInv, NEW a, NEW b, NextOne(a, b), Ends(a, b), server = "up", next <= MaxTx,
         next' = next + 1, now' = now, GoodFile(file'), seq' \in Nat, spoiled' \in BOOLEAN,
         UNCHANGED at \/ at' = [c \in Caller |-> NoTime],
         answers' \subseteq Key \X (1 .. next)
  PROVE  TypeOK'
<1>1. AllTyped(index', next')
  BY RecordsKept
<1>2. /\ IsSequence(index') /\ (\A i \in DOMAIN index : RecordTyped(index[i]))'
  BY <1>1 DEF AllTyped, TypedBefore, RecordTyped, Tried
<1>3. next \in 1 .. MaxTx + 1 /\ MaxTx \in Nat /\ next' \in 1 .. MaxTx + 1
  BY StoreAssumption DEF IndInv, TypeOK
<1>4. \A x : x \in 1 .. next - 1 => x \in 1 .. next' - 1
  BY <1>3
<1>5. next \in 1 .. next' - 1
  BY <1>3
<1>6. (acked' \cup refused' \cup suspect') \subseteq 1 .. next' - 1
  <2>1. (acked \cup refused \cup suspect) \subseteq 1 .. next - 1
    BY DEF IndInv, TypeOK, Tried
  <2>2. acked' \cup refused' \cup suspect' \subseteq acked \cup refused \cup suspect \cup {next}
    BY DEF Ends, Acked, Cut, Refused, Gone
  <2> QED  BY <1>4, <1>5, <2>1, <2>2
<1>7. left' \in [faults : 0 .. MaxFaults, crashes : 0 .. MaxCrashes]
  <2>1. left \in [faults : 0 .. MaxFaults, crashes : 0 .. MaxCrashes]
    BY DEF IndInv, TypeOK
  <2>2. \/ left' = left
        \/ left' = [left EXCEPT !.faults = @ - 1] /\ left.faults > 0
        \/ left' = [left EXCEPT !.crashes = @ - 1] /\ left.crashes > 0
    BY DEF Ends, Acked, Cut, Refused, Gone
  <2> QED  BY <2>1, <2>2, StoreAssumption
<1>8. at' \in [Caller -> Nat \cup {NoTime}] /\ now' \in 0 .. MaxTime
  BY DEF IndInv, TypeOK
<1>9. server' \in {"up", "down", "refused"} /\ (server' = "down" => index' = <<>>)
  BY DEF Ends, Acked, Cut, Refused, Gone
<1>10. answers' \subseteq Key \X (1 .. next' - 1)
  BY <1>3
<1> QED  BY <1>2, <1>3, <1>6, <1>7, <1>8, <1>9, <1>10 DEF TypeOK, Tried
-----------------------------------------------------------------------------
(***************************************************************************)
(* The actions.                                                            *)
(***************************************************************************)

LEMMA CreateNewKeeps ==
  ASSUME IndInv, NEW k \in Key, CreateNew(k)
  PROVE  IndInv'
<1>1. PICK a, b : a = [type |-> "deployment", id |-> next, key |-> k] /\ b = AuditEntry(now)
  OBVIOUS
<1>2. /\ server = "up" /\ next <= MaxTx /\ Owners(index, k) = {} /\ Commit(<<a, b>>)
      /\ next' = next + 1 /\ now' = now
      /\ answers' = IF next \in acked' THEN answers \cup {<<k, next>>} ELSE answers
  BY <1>1, Zenon DEF CreateNew, CanTry, KeyIsTaken
<1>3. next \in Nat \ {0}
  BY DEF IndInv, TypeOK
<1>4. /\ TransactionOf(a) = next /\ TransactionOf(b) = next
      /\ ~IsAudit(a) /\ IsAudit(b) /\ IsRow(a) /\ ~IsRow(b)
      /\ a.key = k /\ a.id = next /\ b.prev = AuditHead(index)
      /\ a.type = "deployment" /\ b.type = "audit"
  BY <1>1 DEF TransactionOf, IsAudit, IsRow, AuditEntry
<1>5. NextOne(a, b)
  BY <1>3, <1>4 DEF NextOne, Transaction, TypedBefore
<1>6. /\ Ends(a, b) /\ GoodFile(file') /\ seq' \in Nat /\ spoiled' \in BOOLEAN
      /\ FileInv' /\ FaultlessInv'
      /\ UNCHANGED at \/ at' = [c \in Caller |-> NoTime]
  BY <1>2, CommitEnds DEF IndInv
<1>7. answers' \subseteq Key \X (1 .. next)
  <2>1. answers \subseteq Key \X (1 .. next - 1)
    BY DEF IndInv, TypeOK, Tried
  <2>2. \A x : x \in 1 .. next - 1 => x \in 1 .. next
    BY <1>3
  <2>3. <<k, next>> \in Key \X (1 .. next)
    BY <1>3
  <2> QED  BY <1>2, <2>1, <2>2, <2>3
<1>8. TypeOK'
  BY <1>2, <1>5, <1>6, <1>7, TypesKept
<1>9. KeyInv'
  BY <1>2, <1>4, <1>5, <1>6, KeysKeptByCreate
<1> QED  BY <1>2, <1>5, <1>6, <1>8, <1>9, RecordsKept, IndexKept, AcksKept, ReasonsKept DEF IndInv

LEMMA RecordEventKeeps ==
  ASSUME IndInv, NEW c \in Caller, RecordEvent(c)
  PROVE  IndInv'
<1>1. PICK a, b : a = [type |-> "outbox", of |-> next] /\ b = AuditEntry(at[c])
  OBVIOUS
<1>2. /\ server = "up" /\ next <= MaxTx /\ Commit(<<a, b>>)
      /\ next' = next + 1 /\ now' = now /\ answers' = answers
  BY <1>1 DEF RecordEvent, CanTry
<1>3. next \in Nat \ {0}
  BY DEF IndInv, TypeOK
<1>4. /\ TransactionOf(a) = next /\ TransactionOf(b) = next
      /\ ~IsAudit(a) /\ IsAudit(b) /\ ~IsRow(a) /\ ~IsRow(b)
      /\ b.prev = AuditHead(index) /\ a.type = "outbox" /\ b.type = "audit"
  BY <1>1 DEF TransactionOf, IsAudit, IsRow, AuditEntry
<1>5. NextOne(a, b)
  BY <1>3, <1>4 DEF NextOne, Transaction, TypedBefore
<1>6. /\ Ends(a, b) /\ GoodFile(file') /\ seq' \in Nat /\ spoiled' \in BOOLEAN
      /\ FileInv' /\ FaultlessInv'
      /\ UNCHANGED at \/ at' = [d \in Caller |-> NoTime]
  BY <1>2, CommitEnds DEF IndInv
<1>7. answers' \subseteq Key \X (1 .. next)
  <2>1. answers \subseteq Key \X (1 .. next - 1)
    BY DEF IndInv, TypeOK, Tried
  <2>2. \A x : x \in 1 .. next - 1 => x \in 1 .. next
    BY <1>3
  <2> QED  BY <1>2, <2>1, <2>2
<1>8. TypeOK'
  BY <1>2, <1>5, <1>6, <1>7, TypesKept
<1>9. KeyInv'
  BY <1>2, <1>4, <1>5, <1>6, KeysKept
<1> QED  BY <1>2, <1>5, <1>6, <1>8, <1>9, RecordsKept, IndexKept, AcksKept, ReasonsKept DEF IndInv

LEMMA StartKeeps ==
  ASSUME IndInv, Start
  PROVE  IndInv'
<1>1. /\ server = "down" /\ spoiled' = FALSE /\ index = <<>> /\ GoodFile(file)
      /\ UNCHANGED <<acked, refused, suspect, now, at, next, left, answers>>
  BY DEF Start, IndInv, TypeOK
<1>2. CASE Status(file) = "corrupt"
  <2>1. server' = "refused" /\ UNCHANGED <<file, seq, index>>
    BY <1>2 DEF Start, disk
  <2>2. left.faults # MaxFaults
    BY <1>2 DEF IndInv, FaultlessInv
  <2>3. FileInv' /\ IndexInv' /\ FaultlessInv'
    BY <1>1, <2>1, <2>2 DEF FileInv, IndexInv, FaultlessInv
  <2>4. TypeOK' /\ RecordsInv'
    BY <1>1, <2>1 DEF IndInv, TypeOK, RecordsInv, RecordTyped, Tried, Disk
  <2>5. Disk' = Disk
    BY <2>1 DEF Disk
  <2>6. KeyInv'
    BY <1>1, <2>1, <2>5 DEF IndInv, KeyInv, KeyIsTaken
  <2>7. CleanAckSurvives' /\ RefusalIsExplained'
    BY <1>1, <2>1, <2>2 DEF IndInv, CleanAckSurvives, OnDisk, RefusalIsExplained
  <2> QED  BY <2>3, <2>4, <2>6, <2>7 DEF IndInv
<1>3. CASE Status(file) # "corrupt"
  <2>1. /\ file' = TruncatedToCommit(file) /\ seq' = RecoveredSeq(file) /\ index' = Disk
        /\ server' = IF VerifyAudit(Disk) THEN "up" ELSE "refused"
    BY <1>3 DEF Start, Disk
  <2>2. PICK f, g, end : f = file /\ g = TruncatedToCommit(file) /\ end = ReadToEnd(g)
    OBVIOUS
  <2>3. /\ IsSequence(g) /\ \A i \in DOMAIN g : i \in DOMAIN f /\ g[i] = f[i]
        /\ end = [status |-> "reading", applied |-> Recovered(f), group |-> <<>>, open |-> 0,
                  good |-> ReadToEnd(f).good, seq |-> RecoveredSeq(f), full |-> 0]
    BY <1>1, <2>2, TruncatedReads DEF GoodFile
  <2>4. GoodFile(g)
    BY <1>1, <2>2, <2>3 DEF GoodFile
  <2>5. /\ ~Stops(g) /\ OpenGroup(g) = 0 /\ Recovered(g) = Recovered(f)
        /\ RecoveredSeq(g) = RecoveredSeq(f)
    BY <2>2, <2>3 DEF Stops, Readable, OpenGroup, Recovered, RecoveredSeq
  <2>6. Disk' = Disk
    BY <2>1, <2>2, <2>5 DEF Disk
  <2>7. seq' \in Nat /\ RecoveredSeq(file') = seq'
    <3>1. RecoveredSeq(f) \in Nat
      BY <1>1, <2>2, EndReadWell DEF ReadWell, RecoveredSeq
    <3> QED  BY <2>1, <2>2, <2>5, <3>1
  <2>8. FileInv'
    <3>1. ~Stops(file') /\ OpenGroup(file') = 0
      BY <2>1, <2>2, <2>5
    <3>2. OpenGroup(file') <= seq' /\ RecoveredSeq(file') <= seq'
      BY <2>7, <3>1
    <3> QED  BY <1>1, <3>1, <3>2 DEF FileInv
  <2>9. AllTyped(Disk, next)
    BY RecordsTyped DEF IndInv
  <2>10. TypeOK'
    <3>1. /\ IsSequence(index') /\ (\A i \in DOMAIN index : RecordTyped(index[i]))'
      BY <1>1, <2>1, <2>9 DEF AllTyped, TypedBefore, RecordTyped, Tried
    <3>2. GoodFile(file') /\ server' \in {"up", "refused"} /\ spoiled' \in BOOLEAN
      BY <1>1, <2>1, <2>2, <2>4
    <3> QED  BY <1>1, <2>7, <3>1, <3>2 DEF IndInv, TypeOK, Tried
  <2>11. RecordsInv'
    BY <1>1, <2>1, <2>6 DEF IndInv, RecordsInv, RecordTyped, Tried
  <2>12. IndexInv'
    BY <2>1, <2>6, ReportedIs DEF IndexInv
  <2>13. KeyInv'
    <3>1. suspect = {} => Answered(Disk, Disk, server', answers)
      BY KeyInvIs DEF IndInv, Answered
    <3> QED  BY <1>1, <2>1, <2>6, <3>1, KeyInvIs
  <2>14. FaultlessInv'
    <3>1. Status(file') # "corrupt"
      BY <2>1, <2>2, <2>5, ReadableIsFine
    <3> QED  BY <1>1, <3>1 DEF IndInv, FaultlessInv
  <2>15. CleanAckSurvives'
    BY <1>1, <2>6 DEF IndInv, CleanAckSurvives, OnDisk, Disk
  <2>16. RefusalIsExplained'
    <3>1. refused = {} => Linked(Disk)
      BY DEF IndInv, RefusalIsExplained, Disk
    <3>2. left.faults = MaxFaults => refused = {}
      BY DEF IndInv, FaultlessInv
    <3>3. server' = "refused" => ~(Linked(Disk) /\ InTimeOrder(Disk))
      BY <2>1 DEF VerifyAudit
    <3>4. Status(file') # "corrupt"
      BY <2>1, <2>2, <2>5, ReadableIsFine
    <3>5. Recovered(file') = Disk
      BY <2>6 DEF Disk
    <3> QED  BY <1>1, <3>1, <3>2, <3>3, <3>4, <3>5 DEF RefusalIsExplained
  <2> QED  BY <2>8, <2>10, <2>11, <2>12, <2>13, <2>14, <2>15, <2>16 DEF IndInv
<1> QED  BY <1>2, <1>3

LEMMA CrashKeeps ==
  ASSUME IndInv, Crash
  PROVE  IndInv'
<1>1. /\ server' = "down" /\ index' = <<>> /\ seq' = 0 /\ at' = [c \in Caller |-> NoTime]
      /\ left.crashes > 0 /\ left' = [left EXCEPT !.crashes = @ - 1] /\ server = "up"
      /\ UNCHANGED <<acked, refused, spoiled, suspect, file, now, next, answers>>
  BY DEF Crash, ProcessGone, history
<1>2. left' \in [faults : 0 .. MaxFaults, crashes : 0 .. MaxCrashes] /\ left'.faults = left.faults
  BY <1>1, StoreAssumption DEF IndInv, TypeOK
<1>3. TypeOK'
  <2>1. /\ IsSequence(index') /\ (\A i \in DOMAIN index : RecordTyped(index[i]))'
    BY <1>1, NoneIsFine DEF AllTyped, TypedBefore, RecordTyped
  <2> QED  BY <1>1, <1>2, <2>1 DEF IndInv, TypeOK, Tried
<1>4. FileInv' /\ IndexInv' /\ FaultlessInv'
  BY <1>1, <1>2 DEF IndInv, FileInv, IndexInv, FaultlessInv
<1>5. Disk' = Disk
  BY <1>1 DEF Disk
<1>6. RecordsInv'
  BY <1>1, <1>5, NoneIsFine DEF IndInv, RecordsInv, RecordTyped, Tried
<1>7. KeyInv'
  <2>1. suspect = {} => Answered(<<>>, Disk, "down", answers)
    BY KeyInvIs, NoOwners DEF IndInv, Answered
  <2> QED  BY <1>1, <1>5, <2>1, KeyInvIs
<1>8. CleanAckSurvives' /\ RefusalIsExplained'
  BY <1>1 DEF IndInv, CleanAckSurvives, OnDisk, RefusalIsExplained
<1> QED  BY <1>3, <1>4, <1>6, <1>7, <1>8 DEF IndInv

\* A step that leaves the store, its file and its history alone.
LEMMA OthersKeep ==
  ASSUME IndInv,
         UNCHANGED <<file, seq, index, server, next, left, acked, refused, spoiled, suspect, answers>>,
         now' \in 0 .. MaxTime, at' \in [Caller -> Nat \cup {NoTime}]
  PROVE  IndInv'
<1>1. TypeOK'
  BY DEF IndInv, TypeOK, RecordTyped, Tried
<1>2. FileInv' /\ FaultlessInv'
  BY DEF IndInv, FileInv, FaultlessInv
<1>3. Disk' = Disk
  BY DEF Disk
<1>4. RecordsInv'
  BY <1>3 DEF IndInv, RecordsInv, RecordTyped, Tried
<1>5. IndexInv'
  BY <1>3, ReportedIs DEF IndInv, IndexInv
<1>6. KeyInv'
  BY <1>3, KeyInvIs DEF IndInv
<1>7. CleanAckSurvives' /\ RefusalIsExplained'
  BY DEF IndInv, CleanAckSurvives, OnDisk, RefusalIsExplained
<1> QED  BY <1>1, <1>2, <1>4, <1>5, <1>6, <1>7 DEF IndInv

LEMMA CreateExistingKeeps ==
  ASSUME IndInv, NEW k \in Key, CreateExisting(k)
  PROVE  IndInv'
<1>1. /\ server = "up" /\ Owners(index, k) # {}
      /\ answers' = answers \cup {<<k, KeyOwner(index, k)>>}
      /\ UNCHANGED <<file, seq, index, server, now, at, next, left, acked, refused, spoiled, suspect>>
  BY DEF CreateExisting, KeyIsTaken, disk, history
<1>2. KeyOwner(index, k) \in Tried
  <2>1. IsSequence(index) /\ \A i \in DOMAIN index : RecordTyped(index[i])
    BY DEF IndInv, TypeOK
  <2>2. Max(Owners(index, k)) \in Owners(index, k)
    BY <1>1, <2>1, OwnersAre
  <2>3. PICK i \in DOMAIN index : i = Max(Owners(index, k)) /\ IsRow(index[i])
    BY <2>2 DEF Owners
  <2>4. TransactionOf(index[i]) = index[i].id /\ TransactionOf(index[i]) \in Tried
    BY <2>1, <2>3 DEF TransactionOf, IsRow, RecordTyped
  <2> QED  BY <2>3, <2>4 DEF KeyOwner
<1>3. TypeOK'
  BY <1>1, <1>2 DEF IndInv, TypeOK, RecordTyped, Tried
<1>4. FileInv' /\ FaultlessInv'
  BY <1>1 DEF IndInv, FileInv, FaultlessInv
<1>5. Disk' = Disk
  BY <1>1 DEF Disk
<1>6. RecordsInv'
  BY <1>1, <1>5 DEF IndInv, RecordsInv, RecordTyped, Tried
<1>7. IndexInv'
  BY <1>1, <1>5, ReportedIs DEF IndInv, IndexInv
<1>8. KeyInv'
  <2>1. SUFFICES ASSUME suspect = {} PROVE Answered(index, Disk, server, answers')
    BY <1>1, <1>5, KeyInvIs
  <2>2. Answered(index, Disk, server, answers)
    BY <2>1, KeyInvIs DEF IndInv
  <2>3. Owners(Disk, k) # {} /\ KeyOwner(Disk, k) = KeyOwner(index, k)
    BY <1>1, <2>2 DEF Answered
  <2>4. PICK answer : answer = <<k, KeyOwner(index, k)>>
    OBVIOUS
  <2>5. answer[1] = k /\ answer[2] = KeyOwner(index, k) /\ answers' = answers \cup {answer}
    BY <1>1, <2>4
  <2> QED  BY <1>1, <2>2, <2>3, <2>5 DEF Answered
<1>9. CleanAckSurvives' /\ RefusalIsExplained'
  BY <1>1 DEF IndInv, CleanAckSurvives, OnDisk, RefusalIsExplained
<1> QED  BY <1>3, <1>4, <1>6, <1>7, <1>8, <1>9 DEF IndInv

LEMMA InitIsFine ==
  ASSUME Init
  PROVE  IndInv
<1>1. file = <<>> /\ index = <<>> /\ seq = 0 /\ server = "up" /\ next = 1
      /\ acked = {} /\ refused = {} /\ suspect = {} /\ answers = {} /\ spoiled = FALSE
      /\ left = [faults |-> MaxFaults, crashes |-> MaxCrashes] /\ now = 0
      /\ at = [c \in Caller |-> NoTime]
  BY DEF Init
<1>2. IsSequence(<<>>) /\ Len(<<>>) = 0 /\ DOMAIN <<>> = {}
  <2>1. IsSequence(<<>>) /\ Len(<<>>) = 0
    BY ShortSequences
  <2> QED  BY <2>1, Sequences
<1>3. ReadToEnd(<<>>) = ReplayStart
  BY <1>2, ReadingIs DEF ReadToEnd
<1>4. /\ ~Stops(<<>>) /\ OpenGroup(<<>>) = 0 /\ Recovered(<<>>) = <<>> /\ RecoveredSeq(<<>>) = 0
  BY <1>3 DEF ReplayStart, Stops, Readable, OpenGroup, Recovered, RecoveredSeq
<1>5. Disk = <<>>
  BY <1>1, <1>4 DEF Disk
<1>6. TypeOK
  <2>1. GoodFile(file) /\ IsSequence(index) /\ \A i \in DOMAIN index : RecordTyped(index[i])
    BY <1>1, <1>2 DEF GoodFile
  <2>2. MaxTx \in Nat /\ MaxTime \in Nat /\ MaxFaults \in Nat /\ MaxCrashes \in Nat
    BY StoreAssumption
  <2>3. next \in 1 .. MaxTx + 1 /\ now \in 0 .. MaxTime /\ seq \in Nat
    BY <1>1, <2>2
  <2>4. at \in [Caller -> Nat \cup {NoTime}]
    BY <1>1
  <2>5. left \in [faults : 0 .. MaxFaults, crashes : 0 .. MaxCrashes]
    BY <1>1, <2>2
  <2> QED  BY <1>1, <2>1, <2>3, <2>4, <2>5 DEF TypeOK
<1>7. FileInv
  BY <1>1, <1>4 DEF FileInv
<1>8. RecordsInv
  BY <1>1, <1>2, <1>5, NoneIsFine DEF RecordsInv
<1>9. IndexInv
  BY <1>1, <1>5 DEF IndexInv
<1>10. KeyInv
  BY <1>1, <1>5, NoOwners DEF KeyInv, KeyIsTaken
<1>11. FaultlessInv
  BY <1>1, <1>4, ReadableIsFine DEF FaultlessInv
<1>12. CleanAckSurvives
  BY <1>1 DEF CleanAckSurvives
<1>13. RefusalIsExplained
  <2>1. Linked(<<>>)
    BY <1>2 DEF Linked, Audits
  <2> QED  BY <1>1, <1>4, <2>1 DEF RefusalIsExplained
<1> QED  BY <1>6, <1>7, <1>8, <1>9, <1>10, <1>11, <1>12, <1>13 DEF IndInv
-----------------------------------------------------------------------------
LEMMA NextKeeps ==
  ASSUME IndInv, [Next]_vars
  PROVE  IndInv'
<1>1. CASE \E k \in Key : CreateNew(k) \/ CreateExisting(k)
  BY <1>1, CreateNewKeeps, CreateExistingKeeps
<1>2. CASE \E c \in Caller : RecordEvent(c)
  BY <1>2, RecordEventKeeps
<1>3. CASE \E c \in Caller : ReadClock(c)
  <2>1. PICK c \in Caller : ReadClock(c)
    BY <1>3
  <2>2. UNCHANGED <<file, seq, index, server, next, left, acked, refused, spoiled, suspect, answers>>
    BY <2>1 DEF ReadClock, disk, history
  <2>3. now' \in 0 .. MaxTime /\ at' \in [Caller -> Nat \cup {NoTime}]
    BY <2>1 DEF ReadClock, IndInv, TypeOK
  <2> QED  BY <2>2, <2>3, OthersKeep
<1>4. CASE Tick
  <2>1. UNCHANGED <<file, seq, index, server, next, left, acked, refused, spoiled, suspect, answers>>
    BY <1>4 DEF Tick, disk, history
  <2>2. now' \in 0 .. MaxTime /\ at' \in [Caller -> Nat \cup {NoTime}]
    BY <1>4, StoreAssumption DEF Tick, IndInv, TypeOK
  <2> QED  BY <2>1, <2>2, OthersKeep
<1>5. CASE Crash \/ Start
  BY <1>5, CrashKeeps, StartKeeps
<1>6. CASE UNCHANGED vars
  <2>1. UNCHANGED <<file, seq, index, server, next, left, acked, refused, spoiled, suspect, answers>>
    BY <1>6 DEF vars
  <2>2. now' \in 0 .. MaxTime /\ at' \in [Caller -> Nat \cup {NoTime}]
    BY <1>6 DEF vars, IndInv, TypeOK
  <2> QED  BY <2>1, <2>2, OthersKeep
<1> QED  BY <1>1, <1>2, <1>3, <1>4, <1>5, <1>6 DEF Next

(* The inductive invariant: the types, and how the file, the index and the *)
(* answers hang together in every state, whatever failed and crashed.      *)
THEOREM StoreInductive == Spec => []IndInv
<1>1. Init => IndInv
  BY InitIsFine
<1>2. IndInv /\ [Next]_vars => IndInv'
  BY NextKeeps
<1> QED  BY <1>1, <1>2, PTL DEF Spec

(* A restart reads back both records of a transaction or neither, wherever *)
(* writes stopped and whatever was written behind them.                    *)
THEOREM HalfWrittenNeverRead == Spec => []GroupsAreWhole
<1>1. IndInv => GroupsAreWhole
  BY DEF IndInv, RecordsInv, GroupsAreWhole, Disk
<1> QED  BY <1>1, StoreInductive, PTL

(* What was reported as committed on a clean file is on disk for good.     *)
THEOREM CommittedIsOnDisk == Spec => []CleanAckSurvives
<1>1. IndInv => CleanAckSurvives
  BY DEF IndInv
<1> QED  BY <1>1, StoreInductive, PTL

(* On a file no failed write spoiled, the index of the running server is   *)
(* what a restart would read, but for transactions whose fsync failed.     *)
THEOREM IndexIsRebuilt == Spec => []IndexIsTheDisk
<1>1. IndInv => IndexIsTheDisk
  BY DEF IndInv, IndexInv, RecordsInv, IndexIsTheDisk, Disk
<1> QED  BY <1>1, StoreInductive, PTL

(* All the answers a key ever got name one deployment, unless acknowledged *)
(* transactions were lost.                                                 *)
THEOREM OneDeploymentPerKey == Spec => []SameAnswerPerKey
<1>1. IndInv => SameAnswerPerKey
  <2>1. SUFFICES ASSUME IndInv, suspect = {}, NEW x \in answers, NEW y \in answers, x[1] = y[1]
                 PROVE  x[2] = y[2]
    BY DEF SameAnswerPerKey
  <2>2. KeyOwner(Disk, x[1]) = x[2] /\ KeyOwner(Disk, y[1]) = y[2]
    BY <2>1 DEF IndInv, KeyInv
  <2> QED  BY <2>1, <2>2
<1> QED  BY <1>1, StoreInductive, PTL

(* A server that refuses to start has two entries on one, after an fsync   *)
(* that failed, or entries out of order; without faults, only the latter.  *)
THEOREM RefusalsAreExplained == Spec => []RefusalIsExplained
<1>1. IndInv => RefusalIsExplained
  BY DEF IndInv
<1> QED  BY <1>1, StoreInductive, PTL
=============================================================================
