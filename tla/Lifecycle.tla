----------------------------- MODULE Lifecycle ------------------------------
(***************************************************************************)
(* What the store and the engine together promise about the deployments of *)
(* one resource, with nothing about how: ownership of the resource is      *)
(* granted under ever newer fences, and a deployment moves along the state *)
(* machine only, doing work only as the current owner and under the newest *)
(* fence.  Engine implements this specification (Engine!Abstract).         *)
(***************************************************************************)
EXTENDS StateMachine, Integers

CONSTANTS Dep, NoHolder

VARIABLES
  state,   \* the state of each deployment, "NONE" before it is created
  owner,   \* the deployment that owns the resource, or NoHolder
  fence,   \* the newest fence granted
  wrote    \* the fence of the last move that needed ownership

lifecycleVars == <<state, owner, fence, wrote>>

Init ==
  /\ state = [d \in Dep |-> "NONE"]
  /\ owner = NoHolder
  /\ fence = 0
  /\ wrote = 0

Create(d) ==
  /\ state[d] = "NONE"
  /\ state' = [state EXCEPT ![d] = "PENDING"]
  /\ UNCHANGED <<owner, fence, wrote>>

\* Ownership changes hands only under a newer fence.
Grant(d) ==
  /\ owner' = d
  /\ fence' = fence + 1
  /\ UNCHANGED <<state, wrote>>

Relinquish ==
  /\ owner' = NoHolder
  /\ UNCHANGED <<state, fence, wrote>>

\* A move into or out of a working state: the owner's alone.
OwnerMoves(d, to) ==
  /\ RequiresLease(state[d]) \/ RequiresLease(to)
  /\ owner = d
  /\ CanTransition(state[d], to)
  /\ state' = [state EXCEPT ![d] = to]
  /\ wrote' = fence
  /\ UNCHANGED <<owner, fence>>

\* A deployment that never started work may be closed by anyone.
AnyoneCloses(d, to) ==
  /\ state[d] = "PENDING"
  /\ to \in {"ABORTED", "FAILED"}
  /\ state' = [state EXCEPT ![d] = to]
  /\ UNCHANGED <<owner, fence, wrote>>

Next ==
  \/ Relinquish
  \/ \E d \in Dep :
       \/ Create(d)
       \/ Grant(d)
       \/ \E to \in State :
            state[d] \in State /\ (OwnerMoves(d, to) \/ AnyoneCloses(d, to))

Spec == Init /\ [][Next]_lifecycleVars
=============================================================================
