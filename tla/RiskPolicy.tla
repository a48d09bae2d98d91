----------------------------- MODULE RiskPolicy -----------------------------
(***************************************************************************)
(* What happens to a detection between the detectors and the redaction:    *)
(* RiskEngine (merge, score), the intrinsic-critical floor and             *)
(* PolicyEngine, and the escalation ladder of RedactionEngine.             *)
(*                                                                         *)
(* A detection is a record: type, conf (confidence, percent), box (the     *)
(* text line it is on, left edge and width), risk, action, layers (the     *)
(* detectors that found it), unknown, needsReview, and legible: whether    *)
(* its text has the three characters verification needs to look for it.    *)
(* Scores are integers, in units of 0.0001.                                *)
(***************************************************************************)
EXTENDS Integers, Sequences, SequencesExt

RiskLevels == {"LOW", "MEDIUM", "HIGH", "CRITICAL"}
Actions == {"NONE", "PARTIAL_MASK", "BLUR", "PIXELATE", "FULL_MASK"}

\* _BASE_SCORE, in percent; any other type, "Unknown" included, weighs 30.
BaseScore(type) ==
  CASE type \in {"SecretKeyValue", "JWT"} -> 95
    [] type \in {"BearerToken", "CreditCard", "TaiwanID"} -> 90
    [] type = "Passport" -> 88
    [] type = "BankAccount" -> 85
    [] type = "OpaqueSecret" -> 75
    [] type \in {"PersonalName", "Phone", "PhoneTW", "Address", "Email"} -> 55
    [] type \in {"Birthday", "EmployeeID", "CustomerID"} -> 45
    [] type \in {"URL", "IPAddress"} -> 25
    [] OTHER -> 30

IntrinsicCriticalTypes == {"TaiwanID", "Passport", "BankAccount", "CreditCard",
                           "SecretKeyValue", "BearerToken", "JWT"}

FailSafeTypes == IntrinsicCriticalTypes \cup {"OpaqueSecret"}

\* Every user rule's type is "UserRule" here.
DetectionTypes == FailSafeTypes \cup {"PersonalName", "Phone", "PhoneTW", "Address", "Email", "Birthday",
                                      "EmployeeID", "CustomerID", "URL", "IPAddress", "UserRule", "Unknown"}

Layers == {"regex", "context", "candidate_value", "ai", "user_rule", "manual_review", "review_kept"}

\* A Detection of models.py.
DetectionRecord ==
  [type : DetectionTypes, conf : Nat, box : [line : Nat, x : Nat, width : Nat], risk : RiskLevels,
   action : Actions, layers : SUBSET Layers, unknown : BOOLEAN, needsReview : BOOLEAN,
   legible : BOOLEAN]

SureLayers == {"regex", "context", "user_rule"}

SufficientEvidence(d) == /\ ~d.unknown
                         /\ d.layers \cap SureLayers # {}

FromScore(score) == CASE score >= 8000 -> "CRITICAL"
                      [] score >= 6000 /\ score < 8000 -> "HIGH"
                      [] score >= 3000 /\ score < 6000 -> "MEDIUM"
                      [] OTHER -> "LOW"

\* A keyword hit is a record [line, critical].
KeywordBoost(d, hits) ==
  LET near == {h \in hits : h.line = d.box.line}
  IN  2000 * Cardinality({h \in near : h.critical})
      + 800 * Cardinality({h \in near : ~h.critical})

ScoreNoFloor(d, hits) ==
  Min({10000, BaseScore(d.type) * Max({d.conf, 30}) + KeywordBoost(d, hits)})

RiskScore(d, hits) ==
  LET plain == Min({10000, BaseScore(d.type) * Max({d.conf, 30})
                           + KeywordBoost(d, hits)})
  IN  IF d.type \in IntrinsicCriticalTypes /\ SufficientEvidence(d)
      THEN Max({plain, 8500}) ELSE plain

\* An explicit user rule set its own risk and action: nothing overrides it.
UserDecided(d) == d.action # "NONE" /\ "user_rule" \in d.layers

-----------------------------------------------------------------------------
Overlap(a, b) == /\ a.line = b.line
                 /\ a.x < b.x + b.width
                 /\ b.x < a.x + a.width

\* The surer detection's confidence, box and text win; evidence adds up.
Absorb(m, d) ==
  LET base == IF d.conf > m.conf
              THEN [m EXCEPT !.conf = d.conf, !.box = d.box, !.legible = d.legible]
              ELSE m
  IN  [base EXCEPT !.layers = m.layers \cup d.layers,
                   !.unknown = m.unknown /\ d.unknown]

MergeIntoAnyType(merged, d) ==
  LET same == {i \in DOMAIN merged : Overlap(merged[i].box, d.box)}
  IN  IF same = {} THEN Append(merged, d)
      ELSE [merged EXCEPT ![Min(same)] = Absorb(@, d)]

MergeInto(merged, d) ==
  LET same == {i \in DOMAIN merged : /\ merged[i].type = d.type
                                     /\ Overlap(merged[i].box, d.box)}
  IN  IF same = {} THEN Append(merged, d)
      ELSE [merged EXCEPT ![Min(same)] = Absorb(@, d)]

\* merged[n] is the list after the first n detections.
MergeOverlapping(ds) ==
  LET merged[n \in 0..Len(ds)] == IF n = 0 THEN <<>> ELSE MergeInto(merged[n - 1], ds[n])
  IN  merged[Len(ds)]

ScoreOne(d, hits) ==
  IF UserDecided(d) THEN d
  ELSE [d EXCEPT !.risk = FromScore(RiskScore(d, hits))]

\* RiskEngine.score
Score(ds, hits) ==
  LET merged == MergeOverlapping(ds)
  IN  [i \in DOMAIN merged |-> ScoreOne(merged[i], hits)]

-----------------------------------------------------------------------------
CriticalActionVerbatim(alias) == alias

\* _ACTION_ALIASES: an unknown critical_action is a full mask.
CriticalAction(alias) == CASE alias = "blur" -> "BLUR"
                           [] alias = "pixelate" -> "PIXELATE"
                           [] alias = "partial_mask" -> "PARTIAL_MASK"
                           [] OTHER -> "FULL_MASK"

RiskAction(risk) == CASE risk = "HIGH" -> "BLUR"
                      [] risk = "MEDIUM" -> "PARTIAL_MASK"
                      [] risk = "LOW" -> "NONE"

DecideIgnoringUnknown(d, strict, criticalAction) ==
  CASE UserDecided(d) -> d
    [] ~UserDecided(d) /\ d.risk = "CRITICAL" ->
         [d EXCEPT !.action = IF strict THEN "FULL_MASK"
                              ELSE CriticalAction(criticalAction)]
    [] ~UserDecided(d) /\ d.risk # "CRITICAL" -> [d EXCEPT !.action = RiskAction(d.risk)]

DecideOne(d, strict, criticalAction) ==
  LET failSafe == d.unknown /\ \/ d.type \in FailSafeTypes
                               \/ d.risk \in {"HIGH", "CRITICAL"}
  IN  CASE UserDecided(d) -> d
        [] ~UserDecided(d) /\ failSafe ->
             [d EXCEPT !.needsReview = TRUE, !.action = "FULL_MASK"]
        [] ~UserDecided(d) /\ ~failSafe /\ d.risk = "CRITICAL" ->
             [d EXCEPT !.action = IF strict THEN "FULL_MASK"
                                  ELSE CriticalAction(criticalAction)]
        [] OTHER -> [d EXCEPT !.action = RiskAction(d.risk)]

\* PolicyEngine.decide: what ends up with no action is not redacted at all.  The
\* others stay at their places in the list.
Decide(ds, strict, criticalAction) ==
  [i \in {k \in DOMAIN ds : DecideOne(ds[k], strict, criticalAction).action # "NONE"} |->
     DecideOne(ds[i], strict, criticalAction)]

-----------------------------------------------------------------------------
\* The ladder of RedactionEngine.escalate, weakest first.
Strength(action) == CASE action = "NONE" -> 0
                      [] action = "PARTIAL_MASK" -> 1
                      [] action = "BLUR" -> 2
                      [] action = "PIXELATE" -> 3
                      [] action = "FULL_MASK" -> 4

Stronger(action) == CASE action = "PARTIAL_MASK" -> "BLUR"
                      [] action = "BLUR" -> "PIXELATE"
                      [] OTHER -> "FULL_MASK"

WidenShiftsOnly(box, margin) ==
  [box EXCEPT !.x = IF box.x >= margin THEN box.x - margin ELSE 0]

\* The box grows by margin on each side; the left edge is clamped at zero
\* and the width still grows by two margins.
Widen(box, margin) ==
  [box EXCEPT !.x = IF box.x >= margin THEN box.x - margin ELSE 0,
              !.width = box.width + 2 * margin]

Escalate(d, margin) == [d EXCEPT !.action = Stronger(d.action),
                                 !.box = Widen(d.box, margin)]
=============================================================================
