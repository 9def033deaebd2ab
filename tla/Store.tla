-------------------------------- MODULE Store --------------------------------
(***************************************************************************)
(* The store over its journal (internal/store/store.go): transactions,     *)
(* idempotent creates, the audit chain, and a restart of the server, which *)
(* replays the journal and verifies the chain (cmd/orchd/main.go).         *)
(*                                                                         *)
(* The index (the maps and slices of the Store) is the sequence of records *)
(* applied since Open; lookups are defined from it.  Two transactions      *)
(* stand for all: a create, which reads the clock under the store's mutex, *)
(* and a recorded event (a state transition, an approval, a freeze), whose *)
(* time its caller read before it asked for the mutex.                     *)
(*                                                                         *)
(* Faults: a write that stops anywhere inside a group or an fsync that     *)
(* fails while the process goes on, and a crash anywhere.                  *)
(***************************************************************************)
EXTENDS Journal, SequencesExt

CONSTANTS
  Key,         \* idempotency keys
  Caller,      \* goroutines that record events
  NoTime,      \* no time read yet
  MaxTx,       \* bound on the number of transactions tried
  MaxTime,     \* bound on the clock
  MaxFaults,   \* bound on failed writes and fsyncs
  MaxCrashes   \* bound on crashes

ASSUME StoreAssumption ==
  /\ NoTime \notin Nat
  /\ {MaxTx, MaxTime, MaxFaults, MaxCrashes} \subseteq Nat

VARIABLES
  file,      \* the journal file
  seq,       \* the journal's sequence number
  index,     \* the records applied to the in-memory index, in order
  server,    \* "up", "down", or "refused": it would not start
  now,       \* the clock
  at,        \* the time each caller read for the event it is about to record
  next,      \* the number of the next transaction; also the id of its row
  left,      \* faults and crashes still allowed
  \* history
  acked,     \* transactions reported as committed
  refused,   \* transactions reported as failed although all their bytes landed
  spoiled,   \* a failed write left part of a group in the file of this process
  suspect,   \* transactions reported as committed behind such a rest
  answers    \* <<key, deployment>> pairs creates were answered with

disk == <<file, seq>>
history == <<acked, refused, spoiled, suspect>>
vars == <<file, seq, index, server, now, at, next, left, acked, refused,
  spoiled, suspect, answers>>

Genesis == <<>>

Init ==
  /\ file = <<>> /\ seq = 0 /\ index = <<>> /\ server = "up"
  /\ now = 0 /\ at = [c \in Caller |-> NoTime]
  /\ next = 1 /\ left = [faults |-> MaxFaults, crashes |-> MaxCrashes]
  /\ acked = {} /\ refused = {} /\ spoiled = FALSE /\ suspect = {} /\ answers = {}
-----------------------------------------------------------------------------
(* The index.                                                              *)

IsAudit(r) == r.type = "audit"
IsRow(r) == r.type = "deployment"

Audits(recs) == {i \in DOMAIN recs : IsAudit(recs[i])}

(* byIdemKey: the last row applied for a key is the one it names.          *)
Owners(recs, k) == {i \in DOMAIN recs : IsRow(recs[i]) /\ recs[i].key = k}
KeyOwner(recs, k) == recs[Max(Owners(recs, k))].id

(* auditHash: an entry is identified with its hash, which determines all   *)
(* the fields hashed and, through the previous hash, all entries before.   *)
HashOf(entry) == entry

(* The hash of the last of some entries of the log.                        *)
LastHash(recs, entries) == IF entries = {} THEN Genesis ELSE HashOf(recs[Max(entries)])

\* Mutant: the head is read before the last entry has extended the chain.
AuditHeadStale(recs) == LastHash(recs, Audits(recs) \ {Len(recs)})

AuditHead(recs) == LastHash(recs, Audits(recs))

(* appendAuditTx: the entry extends the chain the index knows.             *)
AuditEntry(time) == [type |-> "audit", by |-> next, at |-> time, prev |-> AuditHead(index)]

(* VerifyAudit: each entry follows the one before it, and is not dated     *)
(* before it, nor then before any earlier one.                             *)
Linked(recs) ==
  \A i \in Audits(recs) : recs[i].prev = LastHash(recs, {j \in Audits(recs) : j < i})

InTimeOrder(recs) == \A i, j \in Audits(recs) : i < j => ~(recs[j].at < recs[i].at)

VerifyAudit(recs) == Linked(recs) /\ InTimeOrder(recs)
-----------------------------------------------------------------------------
(* Tx.commit: append the group and sync, then update the index.  `recs` is *)
(* the transaction.                                                        *)

Committed(recs) ==
  /\ file' = file \o Group(recs, seq + 1)
  /\ seq' = seq + 1
  /\ index' = index \o recs
  /\ acked' = acked \cup {next}
  /\ suspect' = IF spoiled THEN suspect \cup {next} ELSE suspect
  /\ UNCHANGED <<server, at, left, refused, spoiled>>

\* Mutant: a failed append gives its sequence number back.
AppendFailedSeqKept(recs) ==
  /\ left.faults > 0
  /\ left' = [left EXCEPT !.faults = @ - 1]
  /\ \/ /\ \E part \in PartialGroups(recs, seq + 1) :
             file' = file \o part /\ spoiled' = (spoiled \/ part # <<>>)
        /\ UNCHANGED refused
     \/ /\ file' = file \o Group(recs, seq + 1)
        /\ refused' = refused \cup {next}
        /\ UNCHANGED spoiled
  /\ UNCHANGED <<seq, index, acked, suspect, server, at>>

(* The write stops inside the group, or the fsync fails after all of it.   *)
(* The caller is told, the index keeps its old state, the process goes on, *)
(* and what landed stays in the file.                                      *)
AppendFailed(recs) ==
  /\ left.faults > 0
  /\ left' = [left EXCEPT !.faults = @ - 1]
  /\ \/ /\ \E part \in PartialGroups(recs, seq + 1) :
             file' = file \o part /\ spoiled' = (spoiled \/ part # <<>>)
        /\ UNCHANGED refused
     \/ /\ file' = file \o Group(recs, seq + 1)
        /\ refused' = refused \cup {next}
        /\ UNCHANGED spoiled
  /\ seq' = seq + 1
  /\ UNCHANGED <<index, acked, suspect, server, at>>

(* What a dead process leaves: the file, and nothing in memory.            *)
ProcessGone ==
  /\ left.crashes > 0
  /\ left' = [left EXCEPT !.crashes = @ - 1]
  /\ server' = "down"
  /\ index' = <<>> /\ seq' = 0
  /\ at' = [c \in Caller |-> NoTime]
  /\ UNCHANGED history

(* The process dies during the append; nobody is told anything.            *)
DiedAppending(recs) ==
  /\ \E part \in PartialGroups(recs, seq + 1) \cup {Group(recs, seq + 1)} :
       file' = file \o part
  /\ ProcessGone

\* Mutant: the index is updated before the journal is written.
CommitIndexFirst(recs) ==
  \/ Committed(recs)
  \/ /\ left.faults > 0
     /\ left' = [left EXCEPT !.faults = @ - 1]
     /\ seq' = seq + 1
     /\ index' = index \o recs
     /\ UNCHANGED <<file, acked, refused, spoiled, suspect, server, at>>
  \/ DiedAppending(recs)

Commit(recs) == Committed(recs) \/ AppendFailed(recs) \/ DiedAppending(recs)

CanTry == server = "up" /\ next <= MaxTx
-----------------------------------------------------------------------------
\* Mutant: a restart rebuilds the rows but not the lookup by key.
KeyIsTakenThisLife(k) == Owners(index, k) # {} /\ left.crashes = MaxCrashes

KeyIsTaken(k) == Owners(index, k) # {}

\* Mutant: a create does not use its id up.
CreateNewSameId(k) ==
  /\ CanTry
  /\ ~KeyIsTaken(k)
  /\ Commit(<<[type |-> "deployment", id |-> next, key |-> k], AuditEntry(now)>>)
  /\ answers' = IF next \in acked' THEN answers \cup {<<k, next>>} ELSE answers
  /\ UNCHANGED <<now, next>>

(* CreateDeployment, first request of a key: the row and its audit entry   *)
(* in one transaction, both dated under the mutex.                         *)
CreateNew(k) ==
  /\ CanTry
  /\ ~KeyIsTaken(k)
  /\ Commit(<<[type |-> "deployment", id |-> next, key |-> k], AuditEntry(now)>>)
  /\ next' = next + 1
  /\ answers' = IF next \in acked' THEN answers \cup {<<k, next>>} ELSE answers
  /\ UNCHANGED now

(* CreateDeployment, a retry: the original row, and nothing written.       *)
CreateExisting(k) ==
  /\ server = "up"
  /\ KeyIsTaken(k)
  /\ answers' = answers \cup {<<k, KeyOwner(index, k)>>}
  /\ UNCHANGED <<disk, history, index, server, now, at, next, left>>

(* A caller dates the event it is about to record ...                      *)
ReadClock(c) ==
  /\ server = "up"
  /\ at[c] = NoTime
  /\ at' = [at EXCEPT ![c] = now]
  /\ UNCHANGED <<disk, history, index, server, now, next, left, answers>>

(* ... and gets the mutex later: TransitionStateAndNotify, AppendAudit,    *)
(* RecordApproval, SetFreeze.                                              *)
RecordEvent(c) ==
  /\ CanTry
  /\ at[c] # NoTime
  /\ Commit(<<[type |-> "outbox", of |-> next], AuditEntry(at[c])>>)
  /\ next' = next + 1
  /\ UNCHANGED <<now, answers>>

Crash ==
  /\ server = "up"
  /\ ProcessGone
  /\ UNCHANGED <<file, now, next, answers>>

(* A server that starts: Open replays and truncates, or reports ErrCorrupt *)
(* and changes nothing; then the audit chain must verify.                  *)
Start ==
  /\ server = "down"
  /\ IF Status(file) = "corrupt"
       THEN server' = "refused" /\ UNCHANGED <<disk, index>>
       ELSE /\ file' = TruncatedToCommit(file)
            /\ seq' = RecoveredSeq(file)
            /\ index' = Recovered(file)
            /\ server' = IF VerifyAudit(Recovered(file)) THEN "up" ELSE "refused"
  /\ spoiled' = FALSE
  /\ UNCHANGED <<acked, refused, suspect, now, at, next, left, answers>>

Tick ==
  /\ now < MaxTime
  /\ now' = now + 1
  /\ UNCHANGED <<disk, history, index, server, at, next, left, answers>>

Next ==
  \/ \E k \in Key : CreateNew(k) \/ CreateExisting(k)
  \/ \E c \in Caller : ReadClock(c) \/ RecordEvent(c)
  \/ Crash \/ Start \/ Tick

Spec == Init /\ [][Next]_vars
-----------------------------------------------------------------------------
(* Properties.                                                             *)

TransactionOf(r) == CASE r.type = "deployment" -> r.id
                      [] r.type = "outbox"     -> r.of
                      [] r.type = "audit"      -> r.by

TransactionsIn(recs) == {TransactionOf(recs[i]) : i \in DOMAIN recs}

OnDisk == TransactionsIn(Recovered(file))

Tried == 1 .. next - 1

(* The variables have their types: the file is made of the three kinds of  *)
(* items, only tried transactions are in the index or reported, and a      *)
(* server that is down has an empty index.                                 *)
IsSequence(s) == s \in Seq({s[i] : i \in DOMAIN s})

RecordTyped(r) ==
  /\ r.type \in {"deployment", "outbox", "audit"}
  /\ TransactionOf(r) \in Tried
  /\ IsRow(r) => r.key \in Key

ItemTyped(item) ==
  /\ item.kind \in {"record", "commit", "torn"}
  /\ IF item.kind = "torn" THEN item.need \in Nat \ {0} ELSE item.seq \in Nat \ {0}

GoodFile(f) == IsSequence(f) /\ \A i \in DOMAIN f : ItemTyped(f[i])

TypeOK ==
  /\ GoodFile(file)
  /\ IsSequence(index) /\ \A i \in DOMAIN index : RecordTyped(index[i])
  /\ seq \in Nat /\ now \in 0 .. MaxTime /\ next \in 1 .. MaxTx + 1
  /\ server \in {"up", "down", "refused"}
  /\ server = "down" => index = <<>>
  /\ at \in [Caller -> Nat \cup {NoTime}]
  /\ left \in [faults : 0 .. MaxFaults, crashes : 0 .. MaxCrashes]
  /\ (acked \cup refused \cup suspect) \subseteq Tried
  /\ spoiled \in BOOLEAN
  /\ answers \subseteq Key \X Tried

(* "A half-written transaction can never be observed": a restart reads     *)
(* back every record of a transaction and its audit entry, or neither, also *)
(* when later groups were written behind the rest of a failed one.         *)
InGroups(recs) ==
  \E n \in 0 .. Len(recs) :
    /\ Len(recs) = 2 * n
    /\ \A i \in 1 .. n :
         /\ ~IsAudit(recs[2 * i - 1]) /\ IsAudit(recs[2 * i])
         /\ TransactionOf(recs[2 * i - 1]) = TransactionOf(recs[2 * i])

GroupsAreWhole == InGroups(Recovered(file))

(* A transaction reported as committed is on disk for good, unless it was  *)
(* written behind the rest of a failed write in the same process life.     *)
CleanAckSurvives == (acked \ suspect) \subseteq OnDisk

(* "The in-memory maps are the index; the journal is the truth": while the *)
(* server runs on a file no failed write spoiled, its index is what a      *)
(* restart would read, but for transactions whose fsync failed: the same   *)
(* records, and on both sides each transaction once, in the order tried.   *)
Reported(recs) ==
  {recs[i] : i \in {j \in DOMAIN recs : TransactionOf(recs[j]) \notin refused}}

InOrder(recs) ==
  \A i, j \in DOMAIN recs : i + 1 < j => TransactionOf(recs[i]) < TransactionOf(recs[j])

IndexIsTheDisk ==
  server = "up" /\ ~spoiled =>
    /\ Reported(index) = Reported(Recovered(file))
    /\ InOrder(index) /\ InOrder(Recovered(file))

(* "Same key, same request: return the original result": across retries,   *)
(* crashes and failed commits all the answers a key ever got name one      *)
(* deployment, unless acknowledged transactions were lost.                 *)
SameAnswerPerKey ==
  suspect = {} => \A x, y \in answers : x[1] = y[1] => x[2] = y[2]

(* The server refuses to start on its own journal (main.go: "the audit log *)
(* does not verify, refusing to start") for two reasons only.  Two entries *)
(* follow the same entry where an fsync failed and the next transaction    *)
(* was written from an index without the failed one.  And without any      *)
(* failed write, however often it crashed, the times of the entries are    *)
(* out of order: a caller that read the clock first got the mutex last.    *)
RefusalIsExplained ==
  /\ refused = {} => Linked(Recovered(file))
  /\ server = "refused" /\ left.faults = MaxFaults =>
       Status(file) # "corrupt" /\ ~InTimeOrder(Recovered(file))
=============================================================================
