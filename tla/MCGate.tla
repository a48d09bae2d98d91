------------------------------- MODULE MCGate -------------------------------
(* Every combination of a profile, an environment and the controls, sound  *)
(* and with one defect each, for one request; then, for each limiter, three  *)
(* requests of two users for one endpoint, and two requests of two users   *)
(* and an anonymous caller for two endpoints, all behind one address.      *)
EXTENDS Gate, TLC

Controls == {"oidc", "authz", "audit", "rate", "redis"}
Settings == {"oidc", "retention", "auditKey", "policies", "redis", "mapping"}

Calls(classes) == [user : {"alice", "bob", "none"}, peer : {"nginx"}, realIp : {"office"}, class : classes]

Environment(profile, production, on, secret, sound) ==
  [profile |-> profile, production |-> production, on |-> on, secret |-> secret, sound |-> sound,
   proxy |-> TRUE, multiplier |-> 2, calls |-> Calls({"IMAGE_ANALYZE", "AUDIT_QUERY"}), load |-> 1, ends |-> 0,
   faults |-> 0]

Starting ==
  {Environment(p, e, on, s, Settings) :
     p \in Profiles \cup {"unknown"}, e \in BOOLEAN, on \in SUBSET Controls,
     s \in {"none", "weak", "strong"}}
  \cup {Environment(p, e, Controls, "strong", Settings \ {d}) :
          p \in Profiles, e \in BOOLEAN, d \in Settings}

InMemory == Environment("single-instance-enterprise", TRUE, Controls \ {"redis"}, "strong", Settings)
InRedis == Environment("multi-instance-enterprise", TRUE, Controls, "strong", Settings)

Racing(env, maxFaults) ==
  [env EXCEPT !.calls = {c \in Calls({"IMAGE_ANALYZE"}) : c.user # "none"}, !.load = 3, !.faults = maxFaults]
Mixed(env, maxFaults) ==
  [env EXCEPT !.multiplier = 1, !.load = 2, !.ends = 1, !.faults = maxFaults]

Outage(env) == [env EXCEPT !.ends = 1, !.faults = 2]

Limiting == {Racing(InMemory, 0), Mixed(InMemory, 1),
             Racing(InRedis, 1), Mixed(InRedis, 1), Outage(InRedis)}

MCConfigs == Starting \cup Limiting

MCRoles == [alice |-> {"Reviewer", "Auditor"}, bob |-> {"Operator"}, eve |-> {}]

RequestsAlike == Permutations(Requests)
=============================================================================
