--------------------------- MODULE StoreInvariants ---------------------------
(* The inductive invariant of Store: what a restart would read out of the  *)
(* file, against the index of the running server and what it answered.     *)
EXTENDS Store

Disk == Recovered(file)

(* A file on which replay stopped, or would stop at the next marker: what  *)
(* is appended to it is lost.                                              *)
Readable(f) == ReadToEnd(f).status = "reading"
OpenGroup(f) == ReadToEnd(f).open

Stops(f) == ~Readable(f) \/ OpenGroup(f) # 0

(* The file of a running server ends with a whole group, until a write of  *)
(* its process fails.  A rest in it is of a group with another number than *)
(* the ones that follow.                                                   *)
FileInv ==
  server = "up" =>
    /\ spoiled <=> Stops(file)
    /\ OpenGroup(file) <= seq /\ RecoveredSeq(file) <= seq

RecordsInv ==
  /\ \A i \in DOMAIN Disk : RecordTyped(Disk[i])
  /\ InGroups(index) /\ InGroups(Disk)
  /\ InOrder(index) /\ InOrder(Disk)

IndexInv ==
  /\ server = "up" /\ (~spoiled \/ suspect = {}) => Reported(index) = Reported(Disk)
  /\ server = "up" /\ ~spoiled /\ refused = {} => index = Disk

(* The owner of a key is the same in the index and on disk, and it is what *)
(* creates were answered with.                                             *)
KeyInv ==
  suspect = {} =>
    /\ \A answer \in answers :
         /\ Owners(Disk, answer[1]) # {} /\ KeyOwner(Disk, answer[1]) = answer[2]
         /\ server = "up" => KeyIsTaken(answer[1])
    /\ \A k \in Key : KeyIsTaken(k) =>
         Owners(Disk, k) # {} /\ KeyOwner(Disk, k) = KeyOwner(index, k)

(* Without a fault nothing but a crash ever cuts a group, and it does so   *)
(* at the end of the file.                                                 *)
FaultlessInv ==
  left.faults = MaxFaults => refused = {} /\ ~spoiled /\ Status(file) # "corrupt"

IndInv ==
  /\ TypeOK /\ FileInv /\ RecordsInv /\ IndexInv /\ KeyInv /\ FaultlessInv
  /\ CleanAckSurvives /\ RefusalIsExplained
=============================================================================
