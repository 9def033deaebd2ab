---------------------------- MODULE LeasesProofs ----------------------------
(***************************************************************************)
(* Proofs about the lease table, for any set of deployments and callers,   *)
(* any time to live and any number of grants.                              *)
(***************************************************************************)
EXTENDS Leases, TLAPS

(* The lease row, the tokens and the history keep their types.              *)
THEOREM LeaseTypes == Spec => []TypeOK
<1>1. Init => TypeOK
  BY TimeAssumption DEF Init, TypeOK
<1>2. TypeOK /\ [Next]_vars => TypeOK'
  <2> SUFFICES ASSUME TypeOK, [Next]_vars PROVE TypeOK'
    OBVIOUS
  <2> USE HolderAssumption, TimeAssumption DEF TypeOK
  <2>1. CASE Tick
    BY <2>1 DEF Tick
  <2>2. CASE Break
    BY <2>2 DEF Break
  <2>3. ASSUME NEW p \in Process, AcquireOwn(p) PROVE TypeOK'
    BY <2>3 DEF AcquireOwn
  <2>4. ASSUME NEW p \in Process, AcquireFree(p) PROVE TypeOK'
    BY <2>4 DEF AcquireFree, Granted
  <2>5. ASSUME NEW p \in Process, Renew(p) PROVE TypeOK'
    BY <2>5 DEF Renew
  <2>6. ASSUME NEW p \in Process, Release(p) PROVE TypeOK'
    BY <2>6 DEF Release
  <2>7. ASSUME NEW p \in Process, Write(p) PROVE TypeOK'
    BY <2>7 DEF Write
  <2>8. CASE UNCHANGED vars
    BY <2>8 DEF vars
  <2>9. QED
    BY <2>1, <2>2, <2>3, <2>4, <2>5, <2>6, <2>7, <2>8 DEF Next
<1>3. QED
  BY <1>1, <1>2, PTL DEF Spec

(* No token is newer than the row, the newest is the holder's, and no       *)
(* accepted write is newer than the row.                                    *)
THEOREM FenceInvariant == Spec => []FenceInv
<1>1. Init => FenceInv
  BY DEF Init, FenceInv
<1>2. TypeOK /\ FenceInv /\ [Next]_vars => FenceInv'
  <2> SUFFICES ASSUME TypeOK, FenceInv, [Next]_vars PROVE FenceInv'
    OBVIOUS
  <2> USE HolderAssumption DEF TypeOK, FenceInv
  <2>1. CASE Tick
    BY <2>1 DEF Tick
  <2>2. CASE Break
    BY <2>2 DEF Break
  <2>3. ASSUME NEW p \in Process, AcquireOwn(p) PROVE FenceInv'
    BY <2>3 DEF AcquireOwn
  <2>4. ASSUME NEW p \in Process, AcquireFree(p) PROVE FenceInv'
    BY <2>4 DEF AcquireFree, Granted
  <2>5. ASSUME NEW p \in Process, Renew(p) PROVE FenceInv'
    BY <2>5 DEF Renew
  <2>6. ASSUME NEW p \in Process, Release(p) PROVE FenceInv'
    BY <2>6 DEF Release
  <2>7. ASSUME NEW p \in Process, Write(p) PROVE FenceInv'
    BY <2>7 DEF Write, FenceOK
  <2>8. CASE UNCHANGED vars
    BY <2>8 DEF vars
  <2>9. QED
    BY <2>1, <2>2, <2>3, <2>4, <2>5, <2>6, <2>7, <2>8 DEF Next
<1>3. QED
  BY <1>1, <1>2, LeaseTypes, PTL DEF Spec
-----------------------------------------------------------------------------
(* A fence token belongs to one deployment, for every history of grants,    *)
(* releases, breaks and expiries.                                           *)
THEOREM UniqueTokens == Spec => []TokensAreUnique
<1>1. Init => TokensAreUnique
  BY DEF Init, TokensAreUnique
<1>2. TypeOK /\ FenceInv /\ TokensAreUnique /\ [Next]_vars => TokensAreUnique'
  <2> SUFFICES ASSUME TypeOK, FenceInv, TokensAreUnique, [Next]_vars
               PROVE  TokensAreUnique'
    OBVIOUS
  <2>1. ASSUME UNCHANGED token PROVE TokensAreUnique'
    BY <2>1 DEF TokensAreUnique
  <2>2. ASSUME NEW p \in Process, AcquireOwn(p) PROVE TokensAreUnique'
    BY <2>2 DEF AcquireOwn, TypeOK, FenceInv, TokensAreUnique, Held
  <2>3. ASSUME NEW p \in Process, AcquireFree(p) PROVE TokensAreUnique'
    BY <2>3 DEF AcquireFree, TypeOK, FenceInv, TokensAreUnique
  <2>4. QED
    BY <2>1, <2>2, <2>3 DEF Next, vars, Tick, Break, Renew, Release, Write
<1>3. QED
  BY <1>1, <1>2, LeaseTypes, FenceInvariant, PTL DEF Spec

(* Fencing: only the deployment granted the lease last has a write          *)
(* accepted.                                                                *)
THEOREM Fencing == Spec => NewestGrantWrites
<1>1. TypeOK /\ FenceInv /\ [Next]_vars
        => [wrote' # wrote =>
              \A q \in Process : HolderOf[q] # wrote'.by => token[q] < wrote'.fence]_vars
  <2> SUFFICES ASSUME TypeOK, FenceInv, Next, wrote' # wrote,
                      NEW q \in Process, HolderOf[q] # wrote'.by
               PROVE  token[q] < wrote'.fence
    BY DEF vars
  <2>1. PICK p \in Process : Write(p)
    BY DEF Next, Tick, Break, AcquireOwn, AcquireFree, Renew, Release
  <2>2. token[p] = lease.fence /\ lease.holder = HolderOf[p]
    BY <2>1 DEF Write, FenceOK, FenceInv, TypeOK
  <2>3. token[q] # lease.fence
    BY <2>1, <2>2, HolderAssumption DEF Write, FenceInv
  <2>4. QED
    BY <2>1, <2>2, <2>3 DEF Write, FenceInv, TypeOK
<1>2. QED
  BY <1>1, LeaseTypes, FenceInvariant, PTL DEF Spec, NewestGrantWrites

(* Accepted writes carry fences that never decrease.                        *)
THEOREM FenceOrder == Spec => WritesInFenceOrder
<1>1. TypeOK /\ FenceInv /\ [Next]_vars => [wrote'.fence >= wrote.fence]_vars
  <2> SUFFICES ASSUME TypeOK, FenceInv, Next PROVE wrote'.fence >= wrote.fence
    OBVIOUS
  <2>1. ASSUME NEW p \in Process, Write(p) PROVE wrote'.fence >= wrote.fence
    BY <2>1 DEF Write, FenceOK, FenceInv, TypeOK
  <2>2. ASSUME UNCHANGED wrote PROVE wrote'.fence >= wrote.fence
    BY <2>2 DEF TypeOK
  <2>3. QED
    BY <2>1, <2>2 DEF Next, Tick, Break, AcquireOwn, AcquireFree, Renew, Release
<1>2. QED
  BY <1>1, LeaseTypes, FenceInvariant, PTL DEF Spec, WritesInFenceOrder

(* A live lease never goes from one deployment straight to another.         *)
THEOREM LiveLeaseStays == Spec => NoTakeover
<1>1. TypeOK /\ [Next]_vars
        => [Held /\ lease'.holder # lease.holder => lease'.holder = NoHolder]_vars
  <2> SUFFICES ASSUME TypeOK, Next, Held, lease'.holder # lease.holder
               PROVE  lease'.holder = NoHolder
    OBVIOUS
  <2>1. Break \/ \E p \in Process : Release(p) \/ Renew(p)
    BY DEF Next, Tick, AcquireOwn, AcquireFree, Grantable, Write
  <2>2. QED
    BY <2>1 DEF TypeOK, Break, Release, Renew
<1>2. QED
  BY <1>1, LeaseTypes, PTL DEF Spec, NoTakeover

(* A grant that ran out stays run out.                                      *)
THEOREM ExpiryIsFinal == Spec => NoResurrection
<1>1. TypeOK /\ [Next]_vars
        => [lease.holder # NoHolder /\ Expired /\ lease'.fence = lease.fence
              => lease'.expiresAt <= now']_vars
  <2> SUFFICES ASSUME TypeOK, Next, lease.holder # NoHolder, Expired,
                      lease'.fence = lease.fence
               PROVE  lease'.expiresAt <= now'
    OBVIOUS
  <2> USE DEF TypeOK, Expired
  <2>1. CASE UNCHANGED <<now, lease>>
    BY <2>1
  <2>2. CASE Tick
    BY <2>2 DEF Tick
  <2>3. CASE Break
    BY <2>3 DEF Break
  <2>4. ASSUME NEW p \in Process, AcquireFree(p) PROVE lease'.expiresAt <= now'
    BY <2>4 DEF AcquireFree, Granted
  <2>5. ASSUME NEW p \in Process, Renew(p) PROVE lease'.expiresAt <= now'
    BY <2>5 DEF Renew, MayRenew
  <2>6. ASSUME NEW p \in Process, Release(p) PROVE lease'.expiresAt <= now'
    BY <2>6 DEF Release
  <2>7. QED
    BY <2>1, <2>2, <2>3, <2>4, <2>5, <2>6 DEF Next, AcquireOwn, Write
<1>2. QED
  BY <1>1, LeaseTypes, PTL DEF Spec, NoResurrection
=============================================================================
