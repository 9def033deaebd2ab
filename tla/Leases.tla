------------------------------- MODULE Leases -------------------------------
(***************************************************************************)
(* The lease of one resource as internal/store/store.go keeps it: acquire, *)
(* renew, release, break, and the fence check every guarded write makes.   *)
(* Each operation runs under the store's mutex, so it is one action.       *)
(*                                                                         *)
(* Callers are processes.  A lease is held by a deployment, not by a       *)
(* process: the executor of a deployment and a caller aborting it act      *)
(* under the same holder id.  A process keeps the fence token of its last  *)
(* successful AcquireLease for ever, so every process is a potential       *)
(* zombie: it may renew, release or write long after losing the lease.     *)
(***************************************************************************)
EXTENDS Integers

CONSTANTS
  Holder,      \* deployment ids
  Process,     \* callers of the store
  HolderOf,    \* the deployment each process acts for
  NoHolder,    \* the cleared holder column of a released or broken lease
  TTL,         \* lease time to live, in clock ticks
  MaxTime,     \* bound on the clock
  MaxFence     \* bound on the number of grants

ASSUME HolderAssumption ==
  /\ NoHolder \notin Holder
  /\ HolderOf \in [Process -> Holder]

ASSUME TimeAssumption == TTL \in Nat \ {0} /\ MaxTime \in Nat /\ MaxFence \in Nat

VARIABLES
  now,     \* the store's clock
  lease,   \* the lease row; a row that was never written is fence 0, no holder
  token,   \* the fence each process got from its last AcquireLease, 0 for none
  wrote    \* history: the last guarded write the store accepted

vars == <<now, lease, token, wrote>>

Expired == ~(lease.expiresAt > now)

Held == lease.holder # NoHolder /\ ~Expired

Init ==
  /\ now = 0
  /\ lease = [holder |-> NoHolder, fence |-> 0, expiresAt |-> 0]
  /\ token = [p \in Process |-> 0]
  /\ wrote = [by |-> NoHolder, fence |-> 0]
-----------------------------------------------------------------------------
(* AcquireLease: re-acquiring one's own live lease returns its fence and    *)
(* changes nothing; a lease another deployment holds is refused; otherwise  *)
(* the fence grows, across releases as well as expiries.                    *)

\* Mutant: the row is forgotten on release, so the fence restarts.
GrantedAfresh(h) ==
  [holder |-> h, fence |-> IF lease.holder = NoHolder THEN 1 ELSE lease.fence + 1,
   expiresAt |-> now + TTL]

Granted(h) ==
  [holder |-> h, fence |-> lease.fence + 1, expiresAt |-> now + TTL]

AcquireOwn(p) ==
  /\ Held
  /\ lease.holder = HolderOf[p]
  /\ token' = [token EXCEPT ![p] = lease.fence]
  /\ UNCHANGED <<now, lease, wrote>>

\* Mutant: an unexpired lease can be taken from another deployment.
GrantableAlways == TRUE

Grantable == ~Held

AcquireFree(p) ==
  /\ Grantable
  /\ lease.fence < MaxFence
  /\ lease' = Granted(HolderOf[p])
  /\ token' = [token EXCEPT ![p] = lease.fence + 1]
  /\ UNCHANGED <<now, wrote>>

\* Mutant: an expired lease that nobody took is brought back to life.
MayRenewLate(p) == lease.holder = HolderOf[p] /\ lease.fence = token[p]

(* RenewLease: only the current holder, under the current fence, and only   *)
(* while the lease has not run out.                                         *)
MayRenew(p) ==
  /\ lease.holder = HolderOf[p]
  /\ lease.fence = token[p]
  /\ ~Expired

Renew(p) ==
  /\ MayRenew(p)
  /\ lease' = [lease EXCEPT !.expiresAt = now + TTL]
  /\ UNCHANGED <<now, token, wrote>>

\* Mutant: the released row is dated one tick back.
ReleaseBackdated(p) ==
  /\ lease.holder = HolderOf[p]
  /\ lease' = [lease EXCEPT !.holder = NoHolder, !.expiresAt = now - 1]
  /\ UNCHANGED <<now, token, wrote>>

(* ReleaseLease: compares the holder, not the fence; the row stays, so that *)
(* the fence is remembered.                                                 *)
Release(p) ==
  /\ lease.holder = HolderOf[p]
  /\ lease' = [lease EXCEPT !.holder = NoHolder, !.expiresAt = now]
  /\ UNCHANGED <<now, token, wrote>>

(* BreakLease: clears whatever lease the resource has; refused when the     *)
(* resource never had one.                                                  *)
Break ==
  /\ lease.fence > 0
  /\ lease' = [lease EXCEPT !.holder = NoHolder, !.expiresAt = now]
  /\ UNCHANGED <<now, token, wrote>>

\* Mutant: holder and expiry are compared, the token is not.
FenceOKByHolder(p) ==
  /\ lease.holder = HolderOf[p]
  /\ ~Expired

\* Mutant: the token is compared with the last accepted write only, the way a
\* store that never looks at the lease row would.
FenceOKByToken(p) == token[p] > 0 /\ token[p] >= wrote.fence

(* checkFenceLocked, as every guarded transition applies it.                *)
FenceOK(p) ==
  /\ lease.fence <= token[p]
  /\ lease.holder = HolderOf[p]
  /\ ~Expired

Write(p) ==
  /\ FenceOK(p)
  /\ wrote' = [by |-> HolderOf[p], fence |-> token[p]]
  /\ UNCHANGED <<now, lease, token>>

Tick ==
  /\ now < MaxTime
  /\ now' = now + 1
  /\ UNCHANGED <<lease, token, wrote>>

Next ==
  \/ Tick
  \/ Break
  \/ \E p \in Process :
       AcquireOwn(p) \/ AcquireFree(p) \/ Renew(p) \/ Release(p) \/ Write(p)

Spec == Init /\ [][Next]_vars
-----------------------------------------------------------------------------
(* Type correctness of the lease row, the tokens and the history.           *)
TypeOK ==
  /\ now \in Nat
  /\ lease \in [holder : Holder \cup {NoHolder}, fence : Nat, expiresAt : Nat]
  /\ token \in [Process -> Nat]
  /\ wrote \in [by : Holder \cup {NoHolder}, fence : Nat]

(* A fence token belongs to one deployment: processes of two deployments    *)
(* never hold equal tokens, however leases were released, broken or ran     *)
(* out in between.                                                          *)
TokensAreUnique ==
  \A p, q \in Process :
    token[p] = token[q] /\ token[p] # 0 => HolderOf[p] = HolderOf[q]

(* What the two fencing properties rest on: no process holds a token newer   *)
(* than the row, the newest token is the holder's, and no accepted write    *)
(* is newer than the row.                                                   *)
FenceInv ==
  /\ \A p \in Process : token[p] <= lease.fence
  /\ \A p \in Process :
       lease.holder # NoHolder /\ token[p] = lease.fence
         => HolderOf[p] = lease.holder
  /\ lease.holder # NoHolder => lease.fence > 0
  /\ wrote.fence <= lease.fence

(* Fencing: a write is accepted only from the deployment that was granted   *)
(* the lease last.  Once anyone else has been handed a newer fence, a       *)
(* zombie's write is refused, also when it is the only one to write.        *)
NewestGrantWrites ==
  [][wrote' # wrote =>
       \A q \in Process : HolderOf[q] # wrote'.by => token[q] < wrote'.fence]_vars

(* The fences of accepted writes never run backwards.                       *)
WritesInFenceOrder == [][wrote'.fence >= wrote.fence]_vars

(* A live lease is never taken over: it changes hands only through a        *)
(* released or broken row, never from one deployment to another directly.   *)
NoTakeover ==
  [][Held /\ lease'.holder # lease.holder => lease'.holder = NoHolder]_vars

(* "A lease that can be un-expired is not a lease": once a grant has run    *)
(* out it stays run out, whatever heartbeats are still on their way.        *)
NoResurrection ==
  [][lease.holder # NoHolder /\ Expired /\ lease'.fence = lease.fence
       => lease'.expiresAt <= now']_vars
=============================================================================
