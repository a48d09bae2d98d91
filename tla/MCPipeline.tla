----------------------------- MODULE MCPipeline -----------------------------
(* The findings are ones the detectors emit: their types, confidences,     *)
(* layers and unknown flags are those of the detector modules, at places   *)
(* where two of a type overlap and two do not.                             *)
EXTENDS Pipeline

At(line, x, width) == [line |-> line, x |-> x, width |-> width]

Finding(type, layer, conf, box) ==
  [type |-> type, conf |-> conf, box |-> box, risk |-> "LOW", action |-> "NONE",
   layers |-> {layer}, unknown |-> layer \in {"ai", "candidate_value"},
   needsReview |-> FALSE, legible |-> TRUE]

UserRule(name, action, risk, box, legible) ==
  [Finding(name, "user_rule", 90, box) EXCEPT !.action = action, !.risk = risk,
                                              !.legible = legible]

MCFindings == {
  Finding("TaiwanID", "regex", 95, At(1, 0, 4)),
  Finding("TaiwanID", "context", 75, At(1, 2, 6)),
  Finding("CreditCard", "regex", 30, At(2, 1, 6)),
  Finding("OpaqueSecret", "ai", 50, At(1, 6, 4)),
  Finding("Email", "regex", 90, At(1, 1, 3)),
  Finding("URL", "regex", 90, At(2, 8, 4)),
  UserRule("UserRule", "PARTIAL_MASK", "CRITICAL", At(2, 0, 3), TRUE),
  UserRule("UserRule", "BLUR", "HIGH", At(2, 4, 1), FALSE) }

MCKeywordHits == {{}, {[keyword |-> "password", line |-> 1, critical |-> TRUE]}}

\* A configuration file chooses these; strict mode overrides some of them.
MCBaseConfigs ==
  {[strict |-> FALSE, verification |-> v, maxRetries |-> n, criticalAction |-> a] :
     v \in BOOLEAN, n \in {0, 1, 3}, a \in {"mask", "partial_mask"}}

\* The configuration file as shipped.
ShippedConfig ==
  {[strict |-> FALSE, verification |-> TRUE, maxRetries |-> 3, criticalAction |-> "mask"]}
=============================================================================
