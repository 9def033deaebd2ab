-------------------------------- MODULE Config --------------------------------
(***************************************************************************)
(* The part of orch.yaml that decides what may be deployed, as the loader  *)
(* hands it over (internal/config/schema.go): gates, verification policy,  *)
(* rollback policy, strategy, roles and identities; which of it the loader *)
(* accepts (internal/config/load.go); and the questions the engine asks of *)
(* it.  Pure definitions over decoded records: the syntax is left out.     *)
(***************************************************************************)
EXTENDS Integers, Sequences, FiniteSets

CONSTANTS
  Grants,      \* role -> the grants it has: [permission, on]
  Identities,  \* user -> [roles, disabled]
  Unset        \* an optional number that the file does not set

KnownPermissions == {"deploy:trigger", "deploy:approve", "deploy:rollback", "deploy:view",
                     "deploy:override", "deploy:freeze", "deploy:abort"}

\* decodeGrant: a grant has a known permission and names environments.
GrantAccepted(g) == g.permission \in KnownPermissions /\ g.on # {}

\* decodeRoles.
RoleAccepted(role) == \A g \in Grants[role] : GrantAccepted(g)

\* decodeIdentities: a user has roles that exist.
IdentityAccepted(user) == Identities[user].roles \subseteq DOMAIN Grants

ASSUME ConfigAssumption ==
  /\ \A role \in DOMAIN Grants : RoleAccepted(role)
  /\ \A user \in DOMAIN Identities : IdentityAccepted(user)
  /\ Unset \notin Int
-----------------------------------------------------------------------------
(* RBAC.                                                                   *)

Covers(g, environment) == g.on \cap {"*", environment} # {}

Known(user) == user \in DOMAIN Identities /\ ~Identities[user].disabled

(* Config.Can, for a user looked up in the identity table.                 *)
Can(user, permission, environment) ==
  /\ Known(user)
  /\ \E role \in Identities[user].roles : \E g \in Grants[role] :
       g.permission = permission /\ Covers(g, environment)

HoldsAnyRole(user, roles) == Identities[user].roles \cap roles # {}

RoleHeld(role) == \E user \in DOMAIN Identities : Known(user) /\ role \in Identities[user].roles
-----------------------------------------------------------------------------
(* Deny windows.  A day has `day` units of time and is numbered 0 to 6.    *)

Window(weekday, start, end) == [weekday |-> weekday, start |-> start, end |-> end]

(* ParseDenyWindow: a window that ends before it starts wraps past         *)
(* midnight and becomes two.                                               *)
DenyWindows(w, day) ==
  IF w.end < w.start
    THEN {Window(w.weekday, w.start, day - 1), Window((w.weekday + 1) % 7, 0, w.end)}
    ELSE {w}

Contains(w, t, day) == (t \div day) % 7 = w.weekday /\ t % day \in w.start .. w.end

Denied(gate, t, day) ==
  \E w \in gate.deny : \E part \in DenyWindows(w, day) : Contains(part, t, day)
-----------------------------------------------------------------------------
(* What the loader accepts.                                                *)

Set(x) == x # Unset

(* decodeStrategy: a canary step sets a weight or verifies, and the last   *)
(* one gives the new version all the traffic.                              *)
StrategyAccepted(s) ==
  /\ \A i \in DOMAIN s.steps : Set(s.steps[i].weight) # Set(s.steps[i].bake)
  /\ \A i \in DOMAIN s.steps : Set(s.steps[i].weight) => s.steps[i].weight \in 0 .. 100
  /\ IF s.type = "canary"
       THEN s.steps # <<>> /\ s.steps[Len(s.steps)].weight = 100
       ELSE s.steps = <<>>

(* decodeCriterion; ratios are in percent.                                 *)
CriterionAccepted(c) ==
  /\ Set(c.max) \/ Set(c.maxRatio) \/ c.settings
  /\ Set(c.maxRatio) => c.maxRatio > 100
  /\ Set(c.maxRatio) /\ c.lower => c.floor # 0

(* decodeVerify: a bake window has room for the samples a verdict needs.   *)
VerifyAccepted(p) ==
  /\ p.interval > 0 /\ p.failure >= 1 /\ p.min >= 1
  /\ p.bake > 0 => p.bake \div p.interval >= p.min
  /\ \A i \in DOMAIN p.criteria : CriterionAccepted(p.criteria[i])

(* decodeGates.                                                            *)
GateAccepted(g) ==
  CASE g.type = "approval" -> g.roles # {} /\ g.ttl > 0
    [] g.type = "schedule" -> g.deny # {}
    [] OTHER               -> TRUE

(* decodeRollback.                                                         *)
RollbackAccepted(r) == r.max >= 1

(* crossValidate: a gate's roles exist and somebody enabled holds them; a  *)
(* canary is not judged by http probes alone; criteria come with a window. *)
CrossAccepted(e) ==
  /\ \A i \in DOMAIN e.gates : e.gates[i].type = "approval" =>
       \A role \in e.gates[i].roles : role \in DOMAIN Grants /\ RoleHeld(role)
  /\ LET criteria == e.verify.criteria IN
     criteria # <<>> =>
       /\ e.verify.bake > 0
       /\ e.strategy.type = "canary" => \E i \in DOMAIN criteria : ~criteria[i].http

(* decodeAppEnv and crossValidate: the server starts with this environment.*)
Accepted(e) ==
  /\ StrategyAccepted(e.strategy)
  /\ VerifyAccepted(e.verify)
  /\ \A i \in DOMAIN e.gates : GateAccepted(e.gates[i])
  /\ RollbackAccepted(e.rollback)
  /\ CrossAccepted(e)

\* A record of the file as the loader hands it over; a day has `day` units of time.
Gates(day) ==
  [type : {"approval"}, roles : SUBSET DOMAIN Grants, ttl : Int, peer : BOOLEAN]
    \cup [type : {"freeze_window"}]
    \cup [type : {"schedule"},
           deny : SUBSET [weekday : 0 .. 6, start : 0 .. day - 1, end : 0 .. day - 1]]

EnvironmentTyped(e, day) ==
  /\ e.gates \in Seq(Gates(day))
  /\ {e.verify.bake, e.verify.interval, e.verify.min, e.verify.failure, e.verify.success,
      e.verify.maxInconclusive, e.rollback.max} \subseteq Int
  /\ DOMAIN e.strategy.steps \subseteq Nat
  /\ \A i \in DOMAIN e.strategy.steps : e.strategy.steps[i].bake \in Int \cup {Unset}

HasApproval(e) == \E i \in DOMAIN e.gates : e.gates[i].type = "approval"

(* The bakes of a run: the steps of a canary that verify, otherwise one.   *)
Bakes(e) ==
  IF e.strategy.type = "canary"
    THEN {i \in DOMAIN e.strategy.steps : Set(e.strategy.steps[i].bake)} ELSE {1}

(* The first bake after a step, if there is one.                           *)
NextBake(e, step) ==
  {i \in Bakes(e) : i > step /\ \A j \in Bakes(e) : j > step => i <= j}

(* The window of a bake: the policy's, where the step sets none.           *)
BakeWindow(e, i) ==
  IF e.strategy.type = "canary" /\ e.strategy.steps[i].bake > 0
    THEN e.strategy.steps[i].bake ELSE e.verify.bake
=============================================================================
