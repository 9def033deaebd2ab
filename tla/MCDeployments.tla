---------------------------- MODULE MCDeployments ----------------------------
(* A small target for Deployments: a few environments, each of which shows *)
(* one part of the policy and keeps the others quiet.                      *)
EXTENDS DeploymentsInvariants, TLC

MCDay == 4
MCStart == 21     \* Friday, after a quarter of the day

P(n) == [num |-> n, text |-> n]
V1 == <<P(9), P(1)>>
V2 == <<P(9), P(2)>>
V3 == <<P(10), P(0)>>
V4 == <<P(10), P(0), P(1)>>
MCNoVersion == <<>>

M(floor, schema, irreversible) ==
  [known |-> TRUE, floor |-> floor, schema |-> schema, irreversible |-> irreversible]
MCManifest == (V1 :> M(MCNoVersion, 1, FALSE)) @@ (V2 :> M(MCNoVersion, 2, TRUE))
                @@ (V3 :> M(V2, 2, FALSE)) @@ (V4 :> [M(V1, 3, FALSE) EXCEPT !.known = FALSE])

Grant(permission) == [permission |-> permission, on |-> {"*"}]
MCGrants ==
  [dev |-> {Grant("deploy:trigger")},
   lead |-> {Grant("deploy:trigger"), Grant("deploy:approve")},
   sre |-> {Grant("deploy:approve"), Grant("deploy:freeze"), Grant("deploy:trigger"),
            Grant("deploy:rollback"), Grant("deploy:override")}]
Person(roles, disabled) == [roles |-> roles, disabled |-> disabled]
MCIdentities ==
  [dan |-> Person({"dev"}, FALSE), lea |-> Person({"lead"}, FALSE),
   sam |-> Person({"sre"}, FALSE), old |-> Person({"lead"}, TRUE)]
Token(user, on, expires) == [user |-> user, on |-> on, expires |-> expires]
MCTokens ==
  [d |-> Token("dan", {}, 99), l |-> Token("lea", {}, 99), s |-> Token("sam", {}, 99),
   o |-> Token("old", {}, 99), c |-> Token("sam", {"staging"}, MCStart + 1)]

Friday == Window(5, 2, 0)
Schedule == [type |-> "schedule", deny |-> {Friday}]
FreezeGate == [type |-> "freeze_window"]
Approval(roles, ttl, peer) == [type |-> "approval", roles |-> roles, ttl |-> ttl, peer |-> peer]

Policy(bake, min, failure, success, errors, criteria) ==
  [bake |-> bake, interval |-> 1, min |-> min, failure |-> failure, success |-> success,
   maxInconclusive |-> errors, criteria |-> criteria]
NoPolicy == Policy(0, 1, 1, 1, 0, <<>>)
Rate == [lower |-> TRUE, max |-> 2, maxRatio |-> Unset, floor |-> 0, settings |-> FALSE,
         http |-> FALSE]
Hits == [lower |-> FALSE, max |-> Unset, maxRatio |-> 150, floor |-> 0, settings |-> FALSE,
         http |-> FALSE]
MCObserved == {[value |-> 1, baseline |-> 2], [value |-> 3, baseline |-> 2]}
CanarySteps == <<[weight |-> 10, bake |-> Unset], [weight |-> Unset, bake |-> 2],
                 [weight |-> 50, bake |-> Unset], [weight |-> Unset, bake |-> 0],
                 [weight |-> 100, bake |-> Unset]>>

Rolling == [type |-> "rolling", steps |-> <<>>]
Canary == [type |-> "canary", steps |-> CanarySteps]

Environment(name, gates, policy, strategy, automatic, max, promoteFrom) ==
  [name |-> name, gates |-> gates, verify |-> policy, strategy |-> strategy,
   rollback |-> [automatic |-> automatic, check |-> TRUE, max |-> max],
   manifests |-> TRUE, promoteFrom |-> promoteFrom, peer |-> FALSE]

Gated(gates, peer) ==
  [Environment("gated", gates, NoPolicy, Rolling, FALSE, 2, FALSE) EXCEPT !.peer = peer]
Baked(policy, strategy) == Environment("baked", <<>>, policy, strategy, TRUE, 2, FALSE)
Probed == Policy(1, 1, 1, 1, 0, <<Rate>>)

MCEnvs ==
  {Gated(<<Schedule, FreezeGate, Approval({"lead", "sre"}, 2, TRUE)>>, FALSE),
   Gated(<<Approval({"lead"}, 2, FALSE), Schedule>>, TRUE),
   Baked(Policy(5, 2, 2, 2, 1, <<Rate>>), Rolling),
   Baked(Policy(4, 2, 2, 3, 1, <<Hits, Rate>>), Rolling),
   Baked(Policy(3, 4, 1, 1, 0, <<Rate>>), Rolling),
   Baked(Policy(3, 3, 2, 2, 0, <<Rate>>), Canary),
   Environment("lively", <<>>, Probed, Rolling, TRUE, 1, FALSE),
   [Environment("promoted", <<>>, Probed, Rolling, TRUE, 2, TRUE) EXCEPT !.manifests = FALSE]}

\* An environment with a schedule, and nobody to approve anything.
MCScheduled == {Gated(<<Schedule, FreezeGate>>, FALSE)}

Request(token, kind, version, force) ==
  [token |-> token, kind |-> kind, version |-> version, force |-> force]
MCRequests ==
  [gated |-> {Request(t, "deploy", V2, FALSE) : t \in DOMAIN MCTokens},
   baked |-> {Request("d", "deploy", V2, FALSE)},
   lively |-> {Request("d", "deploy", v, FALSE) : v \in {V1, V2, V3, V4}}
                \cup {Request("s", "rollback", MCNoVersion, force) : force \in BOOLEAN},
   promoted |-> {Request("d", "deploy", V2, FALSE), Request("s", "deploy", V3, TRUE),
                 Request("d", "promote", V3, FALSE), Request("s", "rollback", V3, FALSE),
                 Request("s", "rollback", MCNoVersion, FALSE)}]

Row(version, state, created) == [NewRow(version, "deploy", "dan", created) EXCEPT !.state = state]
FirstRow == Row(V1, "SUCCEEDED", MCStart - MCDay)
Scope(history, running, more, tests, end, freezes) ==
  [history |-> history, live |-> running, rows |-> Len(history) + more, tested |-> <<V1>>,
   tests |-> tests, end |-> end, freezes |-> freezes]
MCBound ==
  [gated |-> Scope(<<FirstRow>>, V1, 1, 0, MCStart + 3, TRUE),
   baked |-> Scope(<<FirstRow>>, V1, 1, 0, MCStart, FALSE),
   lively |-> Scope(<<FirstRow, Row(V2, "SUCCEEDED", MCStart - MCDay),
                      Row(V3, "ROLLED_BACK", MCStart - MCDay)>>, V2, 2, 0, MCStart + 1, FALSE),
   promoted |-> Scope(<<FirstRow>>, V1, 3, 2, MCStart, FALSE)]
=============================================================================
