------------------------------- MODULE Journal -------------------------------
(***************************************************************************)
(* The append-only file under the store (internal/store/journal.go): what  *)
(* appendGroup puts into it and what replay reads out of it.  A file is a  *)
(* sequence of items: whole records, commit markers, and at most one torn  *)
(* record per write that stopped inside it.  Bytes are abstracted to the   *)
(* one fact replay depends on: how many of the items that follow a torn    *)
(* record are needed to fill the length its header announces.  With fewer, *)
(* the reader meets the end of the file; with that many or more, it reads  *)
(* them as part of the torn record and the checksum does not match.        *)
(***************************************************************************)
EXTENDS Integers, Sequences

CONSTANTS
  Reach    \* the numbers of following items a torn record may swallow

ASSUME ReachAssumption == Reach \subseteq Nat \ {0}

Record(data, seq) == [kind |-> "record", seq |-> seq, data |-> data]
CommitMarker(seq) == [kind |-> "commit", seq |-> seq]
TornRecord(need) == [kind |-> "torn", need |-> need]

(* The bytes of one transaction: its records and, last, the commit marker. *)
Group(recs, seq) ==
  Append([i \in DOMAIN recs |-> Record(recs[i], seq)], CommitMarker(seq))

(* What a write that stops halfway leaves: some leading records, and then  *)
(* possibly a piece of the next one.  The marker is never whole.           *)
Pieces == {<<>>} \cup {<<TornRecord(n)>> : n \in Reach}

PartialGroups(recs, seq) ==
  UNION {{SubSeq(Group(recs, seq), 1, k) \o piece : piece \in Pieces} : k \in 0 .. Len(recs)}
-----------------------------------------------------------------------------
(* replay: one pass over the file.  `group` holds the records read since   *)
(* the last marker and `open` the sequence number of the first of them;    *)
(* `good` is how much of the file the groups read so far take.             *)

ReplayStart ==
  [status |-> "reading", applied |-> <<>>, group |-> <<>>, open |-> 0, good |-> 0, seq |-> 0,
   full |-> 0]

\* The length the file must have for the torn record to be filled.
ReadTorn(acc, item, i) == [acc EXCEPT !.status = "torn", !.full = i + item.need]

ReadRecord(acc, item) ==
  [acc EXCEPT !.open = IF @ = 0 THEN item.seq ELSE @, !.group = Append(@, item.data)]

CloseGroup(acc, item, i) ==
  [acc EXCEPT !.applied = @ \o acc.group, !.group = <<>>, !.open = 0, !.good = i,
              !.seq = IF item.seq > @ THEN item.seq ELSE @]

ReadMarker(acc, item, i) ==
  IF item.seq # acc.open THEN [acc EXCEPT !.status = "corrupt"] ELSE CloseGroup(acc, item, i)

ReadItem(acc, item, i) ==
  IF acc.status # "reading" THEN acc
  ELSE CASE item.kind = "torn"   -> ReadTorn(acc, item, i)
         [] item.kind = "commit" -> ReadMarker(acc, item, i)
         [] item.kind = "record" -> ReadRecord(acc, item)

(* What was read of the file at each position, and at its end.             *)
Reading(file) ==
  LET read[i \in 0 .. Len(file)] ==
        IF i = 0 THEN ReplayStart ELSE ReadItem(read[i - 1], file[i], i)
  IN  read

ReadToEnd(file) == Reading(file)[Len(file)]

(* A torn record ends the replay, unless what follows fills it.            *)
Status(file) ==
  LET end == ReadToEnd(file) IN
  CASE end.status = "torn" -> IF Len(file) >= end.full THEN "corrupt" ELSE "ended"
    [] OTHER               -> end.status

\* Mutant: the torn tail stays in the file.
NotTruncated(file) == file

(* The records a restart would apply, the sequence number it would go on   *)
(* from, and the file it would leave.                                      *)
Recovered(file) == ReadToEnd(file).applied
RecoveredSeq(file) == ReadToEnd(file).seq
TruncatedToCommit(file) == SubSeq(file, 1, ReadToEnd(file).good)
=============================================================================
