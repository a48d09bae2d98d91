------------------------------ MODULE Pipeline ------------------------------
(***************************************************************************)
(* One image through the Core pipeline: Pipeline.process of pipeline.py,   *)
(* from the detectors' findings to the saved image, the report and the     *)
(* audit line, with the configuration the CLI resolved for it.             *)
(*                                                                         *)
(* OCR is the environment: what it still reads in the redacted image is    *)
(* chosen anew at every look, for each detection and for the whole-image   *)
(* scan.  The redacted image is the sequence of masks painted on a fresh   *)
(* copy of the original, so a mask the last apply() did not paint is not   *)
(* in it.                                                                  *)
(***************************************************************************)
EXTENDS RiskPolicy, FiniteSets

CONSTANTS Findings,       \* detections the detectors can emit
          MaxFindings,    \* bound: findings in one image
          KeywordHits,    \* the sets of keyword hits an image may have
          BaseConfigs,    \* configurations a config file can hold
          Margin          \* by how much escalate() widens a box

ASSUME MaxFindingsNat == MaxFindings \in Nat
ASSUME MarginPositive == Margin \in Nat \ {0}

\* Pattern, label and rule matches are no guesses, secrets without a pattern always
\* are; a rule's own findings, which come with an action, have types of their own.
ASSUME FindingsAsDetected ==
  /\ Findings \subseteq DetectionRecord
  /\ \A d \in Findings : /\ d.unknown \/ d.layers \cap SureLayers # {}
                         /\ d.type = "OpaqueSecret" => d.unknown
                         /\ d.type \in FailSafeTypes => d.action = "NONE"
ASSUME HitsFinite == \A h \in KeywordHits : IsFiniteSet(h)
ASSUME ConfigsTyped ==
  BaseConfigs \subseteq [strict : BOOLEAN, verification : BOOLEAN, maxRetries : Int,
                        criticalAction : STRING]

VARIABLES config,         \* the resolved configuration
          findings,       \* what the detectors found, before the merge
          hits,           \* the keyword hits
          stage,          \* how far process() has come
          detections,     \* the detections as scored, decided, escalated
          image,          \* the masks in the redacted image
          attempt,        \* the loop variable of verify_and_fix
          look,           \* history: the engine's last look, {} before it
          scan,           \* SanityScanResult: "clean", "minor" or "critical"
          verification,   \* VerificationResult
          output,         \* the output file: {}, or the one image saved in it
          report,         \* the report file: {}, or the one report
          audited         \* the audit log: {}, or the one line of this image

vars == <<config, findings, hits, stage, detections, image, attempt, look,
          scan, verification, output, report, audited>>

Outcomes == {"CLEAN", "FOUND", "UNKNOWN"}
Stages == {"detected", "scored", "decided", "verifying", "verified", "scanned",
           "released", "blocked", "reported", "done"}
NoResult == [status |-> "PENDING", attempts |-> 0, residual |-> 0, review |-> FALSE]

-----------------------------------------------------------------------------
(***************************************************************************)
(* The CLI: --mode strict, then --verify, then --no-verify.                *)
(***************************************************************************)
ApplyStrictMode(c) == [c EXCEPT !.strict = TRUE, !.verification = TRUE,
                                !.criticalAction = "mask"]

Resolve(base, strict, verify, noVerify) ==
  LET moded == IF strict THEN ApplyStrictMode(base) ELSE base
  IN  [moded EXCEPT !.verification = (@ \/ verify) /\ ~noVerify]

-----------------------------------------------------------------------------
\* What apply() paints: every detection's action over its box.
Masks(ds) == [i \in DOMAIN ds |-> [action |-> ds[i].action, box |-> ds[i].box]]

ResidualTrustsUnknown(ds, ocr) ==
  {i \in DOMAIN ds : ds[i].legible /\ ocr[i] = "FOUND"}

\* _find_residual, given what OCR says of each crop.
Residual(ds, ocr) ==
  {i \in DOMAIN ds : /\ ds[i].legible
                     /\ \/ ocr[i] = "FOUND"
                        \/ ocr[i] = "UNKNOWN" /\ ds[i].risk = "CRITICAL"}

\* An inconclusive look at CRITICAL data marks it for review, for good.
Flagged(ds, ocr) ==
  [i \in DOMAIN ds |->
     IF ds[i].legible /\ ocr[i] = "UNKNOWN" /\ ds[i].risk = "CRITICAL"
     THEN [ds[i] EXCEPT !.needsReview = TRUE] ELSE ds[i]]

Looked(ocr) == {[image |-> image, ocr |-> ocr]}

Init == /\ \E base \in BaseConfigs, strict, verify, noVerify \in BOOLEAN :
             config = Resolve(base, strict, verify, noVerify)
        /\ findings \in BoundedSeq(Findings, MaxFindings)
        /\ hits \in KeywordHits
        /\ stage = "detected"
        /\ detections = <<>>
        /\ image = <<>>
        /\ attempt = 0
        /\ look = {}
        /\ scan = "clean"
        /\ verification = NoResult
        /\ output = {}
        /\ report = {}
        /\ audited = {}

\* risk_engine.score(detections, keyword_hits)
ScoreFindings == /\ stage = "detected"
                 /\ detections' = Score(findings, hits)
                 /\ stage' = "scored"
                 /\ UNCHANGED <<config, findings, hits, image, attempt, look, scan,
                                verification, output, report, audited>>

\* policy_engine.decide(detections)
DecideActions ==
  /\ stage = "scored"
  /\ detections' = Decide(detections, config.strict, config.criticalAction)
  /\ stage' = "decided"
  /\ UNCHANGED <<config, findings, hits, image, attempt, look, scan, verification,
                 output, report, audited>>

\* masking.verification is on: verify_and_fix paints and enters its loop.
StartVerification == /\ stage = "decided"
                     /\ config.verification
                     /\ image' = Masks(detections)
                     /\ attempt' = 1
                     /\ stage' = "verifying"
                     /\ UNCHANGED <<config, findings, hits, detections, look, scan,
                                    verification, output, report, audited>>

SkipVerification ==
  /\ stage = "decided"
  /\ ~config.verification
  /\ image' = Masks(detections)
  /\ verification' = [NoResult EXCEPT !.status = "SKIPPED"]
  /\ stage' = "verified"
  /\ UNCHANGED <<config, findings, hits, detections, attempt, look, scan, output,
                 report, audited>>

\* One turn of the loop whose re-OCR finds nothing left.
AttemptPasses ==
  /\ stage = "verifying"
  /\ attempt <= config.maxRetries
  /\ \E ocr \in [DOMAIN detections -> Outcomes] :
       /\ Residual(detections, ocr) = {}
       /\ detections' = Flagged(detections, ocr)
       /\ look' = Looked(ocr)
  /\ verification' = [NoResult EXCEPT !.status = "PASSED", !.attempts = attempt]
  /\ stage' = "verified"
  /\ UNCHANGED <<config, findings, hits, image, attempt, scan, output, report, audited>>

LastAttemptReviewsFlagged ==
  /\ stage = "verifying"
  /\ attempt = config.maxRetries
  /\ \E ocr \in [DOMAIN detections -> Outcomes] :
       LET residual == Residual(detections, ocr) IN
       /\ residual # {}
       /\ detections' = Flagged(detections, ocr)
       /\ look' = Looked(ocr)
       /\ verification' =
            [status |-> "FAILED", attempts |-> attempt,
             residual |-> Cardinality(residual),
             review |-> \E i \in residual : detections'[i].needsReview]
  /\ stage' = "verified"
  /\ UNCHANGED <<config, findings, hits, image, attempt, scan, output, report, audited>>

\* The last turn still finds something: no further escalation.
LastAttemptFails ==
  /\ stage = "verifying"
  /\ attempt = config.maxRetries
  /\ \E ocr \in [DOMAIN detections -> Outcomes] :
       LET residual == Residual(detections, ocr) IN
       /\ residual # {}
       /\ detections' = Flagged(detections, ocr)
       /\ look' = Looked(ocr)
       /\ verification' =
            [status |-> "FAILED", attempts |-> attempt,
             residual |-> Cardinality(residual),
             review |-> \E i \in residual : detections[i].risk = "CRITICAL"]
  /\ stage' = "verified"
  /\ UNCHANGED <<config, findings, hits, image, attempt, scan, output, report, audited>>

EscalateWithoutRepaint ==
  /\ stage = "verifying"
  /\ attempt < config.maxRetries
  /\ \E ocr \in [DOMAIN detections -> Outcomes] :
       LET residual == Residual(detections, ocr)
           flagged == Flagged(detections, ocr) IN
       /\ residual # {}
       /\ detections' = [i \in DOMAIN flagged |->
                           IF i \in residual THEN Escalate(flagged[i], Margin)
                           ELSE flagged[i]]
       /\ look' = Looked(ocr)
  /\ attempt' = attempt + 1
  /\ UNCHANGED <<config, findings, hits, stage, image, scan, verification, output,
                 report, audited>>

\* An earlier turn finds something: escalate exactly that, repaint everything.
EscalateAndRetry ==
  /\ stage = "verifying"
  /\ attempt < config.maxRetries
  /\ \E ocr \in [DOMAIN detections -> Outcomes] :
       LET residual == Residual(detections, ocr)
           flagged == Flagged(detections, ocr) IN
       /\ residual # {}
       /\ detections' = [i \in DOMAIN flagged |->
                           IF i \in residual THEN Escalate(flagged[i], Margin)
                           ELSE flagged[i]]
       /\ look' = Looked(ocr)
  /\ image' = Masks(detections')
  /\ attempt' = attempt + 1
  /\ UNCHANGED <<config, findings, hits, stage, scan, verification, output, report,
                 audited>>

\* range(1, 1) is empty: with no retries configured the loop never looks.
NoAttemptAllowed ==
  /\ stage = "verifying"
  /\ attempt > config.maxRetries
  /\ verification' = [status |-> "FAILED", attempts |-> config.maxRetries,
                      residual |-> -1, review |-> FALSE]
  /\ stage' = "verified"
  /\ UNCHANGED <<config, findings, hits, detections, image, attempt, look, scan,
                 output, report, audited>>

ApplySanityScanKeepsVerdict(v, found) ==
  IF found = "clean" THEN v ELSE [v EXCEPT !.review = TRUE]

\* apply_sanity_scan; two critical types at most are told apart by count.
ApplySanityScan(v, found) ==
  CASE found = "clean" -> v
    [] found = "minor" -> [v EXCEPT !.review = TRUE]
    [] found = "critical" ->
         [v EXCEPT !.status = "FAILED", !.review = TRUE,
                   !.residual = IF v.residual > 1 THEN v.residual ELSE 1]

\* The independent whole-image scan, whatever verification was.
SanityScan == /\ stage = "verified"
              /\ scan' \in {"clean", "minor", "critical"}
              /\ verification' = ApplySanityScan(verification, scan')
              /\ stage' = "scanned"
              /\ UNCHANGED <<config, findings, hits, detections, image, attempt, look,
                             output, report, audited>>

Blocked == config.strict /\ verification.status = "FAILED"

\* Strict Mode: a failed verification keeps the image back.
Withhold == /\ stage = "scanned"
            /\ Blocked
            /\ stage' = "blocked"
            /\ UNCHANGED <<config, findings, hits, detections, image, attempt, look,
                           scan, verification, output, report, audited>>

SaveOnlyPassed == /\ stage = "scanned"
                  /\ verification.status # "FAILED"
                  /\ output' = {image}
                  /\ stage' = "released"
                  /\ UNCHANGED <<config, findings, hits, detections, image, attempt,
                                 look, scan, verification, report, audited>>

SaveImage == /\ stage = "scanned"
             /\ ~Blocked
             /\ output' = {image}
             /\ stage' = "released"
             /\ UNCHANGED <<config, findings, hits, detections, image, attempt, look,
                            scan, verification, report, audited>>

\* build_report + write_report
WriteReport ==
  /\ stage \in {"released", "blocked"}
  /\ report' = {[masks |-> Masks(detections), verification |-> verification,
                 saved |-> stage = "released"]}
  /\ stage' = "reported"
  /\ UNCHANGED <<config, findings, hits, detections, image, attempt, look, scan,
                 verification, output, audited>>

\* AuditLogger(log_path).log_processing
AppendAuditLine ==
  /\ stage = "reported"
  /\ audited' = {Masks(detections)}
  /\ stage' = "done"
  /\ UNCHANGED <<config, findings, hits, detections, image, attempt, look, scan,
                 verification, output, report>>

Next == \/ ScoreFindings \/ DecideActions
        \/ StartVerification \/ SkipVerification
        \/ AttemptPasses \/ LastAttemptFails \/ EscalateAndRetry \/ NoAttemptAllowed
        \/ SanityScan \/ Withhold \/ SaveImage \/ WriteReport \/ AppendAuditLine

\* process() is one sequential call: it runs until it returns.
Spec == Init /\ [][Next]_vars /\ WF_vars(Next)

-----------------------------------------------------------------------------
\* The verdict, the masks and the risks stay within the values of their enums.
TypeOK ==
  /\ config.strict \in BOOLEAN /\ config.verification \in BOOLEAN
  /\ stage \in Stages
  /\ attempt \in Nat
  /\ scan \in {"clean", "minor", "critical"}
  /\ verification \in [status : {"PENDING", "PASSED", "FAILED", "SKIPPED"},
                       attempts : Int, residual : Int, review : BOOLEAN]
  /\ \A i \in DOMAIN detections : /\ detections[i].action \in Actions
                                  /\ detections[i].risk \in RiskLevels

\* What the last look could not clear, if there was one.
Uncleared == UNION {Residual(detections, l.ocr) : l \in look}

(***************************************************************************)
(* The report and the audit line describe the image that was saved: every  *)
(* reported action is painted in it, at the reported region, although the  *)
(* escalation changes both while verification runs.                        *)
(***************************************************************************)
ReportMatchesImage ==
  /\ stage \notin {"detected", "scored", "decided"} => image = Masks(detections)
  /\ \A r \in report : /\ r.masks = image
                       /\ r.saved <=> output # {}
                       /\ output \subseteq {r.masks}
  /\ audited \subseteq {r.masks : r \in report}

(***************************************************************************)
(* A PASSED verdict is about the image that is released: the last look was *)
(* at exactly these masks, read no detection, left no CRITICAL one in      *)
(* doubt, and the whole-image scan saw no critical value.                  *)
(***************************************************************************)
PassedMeansClean ==
  verification.status = "PASSED" =>
    /\ scan # "critical"
    /\ \E l \in look :
         /\ l.image = image
         /\ \A i \in DOMAIN detections : detections[i].legible =>
              /\ l.ocr[i] # "FOUND"
              /\ detections[i].risk = "CRITICAL" => l.ocr[i] = "CLEAN"

(***************************************************************************)
(* Strict Mode never writes an image in which a critical value was still   *)
(* seen, or in which an engine that ran still read a detection.            *)
(***************************************************************************)
StrictWithholds ==
  config.strict /\ output # {} => scan # "critical" /\ Uncleared = {}

(***************************************************************************)
(* Whatever merging, scoring and policy do, a finding of a type that must  *)
(* never be skipped leaves a redacted detection of its type behind, fully  *)
(* masked and flagged if nothing surer was found in its place.             *)
(***************************************************************************)
FailSafeFindingsMasked ==
  stage \notin {"detected", "scored"} =>
    \A i \in DOMAIN findings : findings[i].type \in FailSafeTypes =>
      \E j \in DOMAIN detections :
         /\ detections[j].type = findings[i].type
         /\ detections[j].action # "NONE"
         /\ detections[j].unknown => /\ detections[j].action = "FULL_MASK"
                                     /\ detections[j].needsReview

(***************************************************************************)
(* Evidence that something is left always reaches a human: anything the    *)
(* scan saw, and any CRITICAL detection still read after the last retry.   *)
(***************************************************************************)
LeftoversReachAHuman ==
  \A r \in report :
    \/ scan # "clean"
    \/ \E i \in Uncleared : detections[i].risk = "CRITICAL"
    => r.verification.review

\* Box a covers box b.
Covers(a, b) == a.x <= b.x /\ a.x + a.width >= b.x + b.width

(***************************************************************************)
(* Retrying never uncovers anything: from one image of the loop to the     *)
(* next, every mask is at least as strong and covers what it covered.      *)
(***************************************************************************)
MasksOnlyStrengthen ==
  [][stage = "verifying" =>
       \A i \in DOMAIN image :
         /\ i \in DOMAIN image'
         /\ Strength(image'[i].action) >= Strength(image[i].action)
         /\ Covers(image'[i].box, image[i].box)]_image

(***************************************************************************)
(* Every image is done with in the end: verification gives up, and a       *)
(* withheld image still gets its report and audit line.                    *)
(***************************************************************************)
Finishes == <>(stage = "done" /\ report # {} /\ audited # {})

-----------------------------------------------------------------------------
(***************************************************************************)
(* README.md: "--mode strict ... requires verification, and blocks output  *)
(* entirely if verification fails".  Not so: --no-verify is applied last.  *)
(***************************************************************************)
StrictReleasesOnlyVerified ==
  config.strict /\ output # {} => verification.status = "PASSED"

(***************************************************************************)
(* redaction_engine.py: the ladder is "finally falling back to a full      *)
(* solid mask".  Not so within the default three attempts.                 *)
(***************************************************************************)
FailedOnlyAfterFullMask ==
  verification.status = "FAILED" =>
    \A i \in Uncleared : image[i].action = "FULL_MASK"
=============================================================================
