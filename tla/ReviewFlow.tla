----------------------------- MODULE ReviewFlow -----------------------------
(***************************************************************************)
(* The image endpoints over one shared service: /analyze (and its alias    *)
(* /process), /redact, /verify and /review, from the permission check to   *)
(* the answer and its audit events, with the detections of an image, the   *)
(* review token that carries them to the reviewer, and process_review.     *)
(*                                                                         *)
(* A request holds a job slot while a worker thread works for it.  The     *)
(* thread works on after the request was answered 504.  What OCR can still *)
(* read, and so how the redaction tail ends, is a choice (Pipeline models  *)
(* the tail); a token's expiry and its replay store are ReviewToken's.     *)
(* Uploads, items and tokens of forbidden size are refused like the items  *)
(* that need a permission the caller has not.                              *)
(***************************************************************************)
EXTENDS Detection

CONSTANTS Requests,
          Scenarios,   \* [image, on, strict, users, submissions]: the image, the
                       \* detectors switched on, Strict Mode, who calls, and the
                       \* review submissions [items, fits]: does the uploaded
                       \* image have the size the token was issued for
          Permissions, \* [user -> its permissions]
          MaxJobs,     \* max_concurrent_jobs
          MaxTokens,   \* bound: analyses that issue a token
          ImageWidth   \* in cells; a line's boxes lie in 1..ImageWidth

ASSUME JobsPositive == MaxJobs \in Nat \ {0}

VARIABLES scenario,   \* fixed
          findings,   \* what an analysis of the image decides, fixed
          tokens,     \* the tokens issued: [owner, dets, spent, by]:
                      \* "by" is history, the review that spent it
          req,        \* per request: where its handler and its thread are
          audit       \* the audit events emitted: [type, user, det, item, req]

vars == <<scenario, findings, tokens, req, audit>>

Kinds == {"analyze", "redact", "verify", "review"}
NoReply == [status |-> "none", masks |-> <<>>, image |-> FALSE]
NoRequest == [pc |-> "idle", thread |-> "none", kind |-> "verify", user |-> "none", token |-> 0,
              items |-> <<>>, fits |-> TRUE, error |-> "none", out |-> NoReply, reply |-> NoReply,
              events |-> <<>>]

Analysis(s) == Decide(Score(Detect(s.image, s.on), Hits(s.image, s.on)), s.strict, "full_mask")

\* A review item, as a caller may submit it: det 0 for none; a bounding box may have any numbers.
Item == [det : Nat, status : STRING, source : STRING, type : STRING,
         box : [line : Nat, x : Int, width : Int]]

ASSUME ImagesTyped == \A s \in Scenarios : s.image \in Seq(Seq(TokenKinds))
ASSUME SubmissionsTyped ==
  \A s \in Scenarios : \A sub \in s.submissions : sub.items \in Seq(Item)

Init == /\ scenario \in Scenarios
        /\ findings = Analysis(scenario)
        /\ tokens = <<>>
        /\ req = [r \in Requests |-> NoRequest]
        /\ audit = {}

\* The last item about a finding decides.
Status(items, d) ==
  LET about == {k \in DOMAIN items : items[k].det = d}
  IN  IF about = {} THEN "PENDING" ELSE items[Max(about)].status

-----------------------------------------------------------------------------
(***************************************************************************)
(* process_review.                                                         *)
(***************************************************************************)
ReviewableTypes == {"TaiwanID", "Passport", "BankAccount", "CreditCard", "SecretKeyValue",
                    "BearerToken", "JWT", "Email", "Phone", "PersonalName", "Address"}

Fits(box) == box.x >= 1 /\ box.width >= 1 /\ box.x + box.width <= ImageWidth + 1

\* The first of these makes it raise; every one is answered 422.
Invalid(dets, items, fits) ==
  \/ ~fits
  \/ \E i \in DOMAIN items :
       IF items[i].det # 0
       THEN items[i].det \notin DOMAIN dets \/ items[i].status = "none"
       ELSE \/ items[i].source # "MANUAL"
            \/ items[i].type \notin ReviewableTypes
            \/ ~Fits(items[i].box)

DroppedIfRejected(d, status) == status = "REJECTED"

\* A rejected finding is dropped, unless its type is intrinsically critical.
Dropped(d, status) == status = "REJECTED" /\ d.type \notin IntrinsicCriticalTypes

\* The text of a finding is never in the token: verification skips it.
Rebuilt(d, status) ==
  [d EXCEPT !.layers = {"review_kept"}, !.unknown = FALSE, !.legible = FALSE,
            !.needsReview = CASE status = "REJECTED" -> TRUE
                              [] status = "ACCEPTED" -> FALSE
                              [] OTHER -> d.needsReview]

Kept(dets, items) ==
  [i \in {d \in DOMAIN dets : ~Dropped(dets[d], Status(items, d))} |->
     Rebuilt(dets[i], Status(items, i))]

Redundant(item, kept) ==
  \E i \in DOMAIN kept : kept[i].type = item.type /\ Overlap(kept[i].box, item.box)

AsFinding(item) == [Found(item.type, 100, item.box, "manual_review", FALSE) EXCEPT !.legible = FALSE]

\* What the manual items add, at the places of these items.
Additions(dets, items) ==
  [k \in {j \in DOMAIN items : items[j].det = 0 /\ ~Redundant(items[j], Kept(dets, items))} |->
     AsFinding(items[k])]

HeadsOfTypeOnly(ds) ==
  {i \in DOMAIN ds : \A j \in DOMAIN ds : j < i => ds[j].type # ds[i].type}

\* The findings score() does not merge into an earlier one.  process_review goes
\* on with the list it passed in: the others are in it still, never scored.
Heads(ds) ==
  CHOOSE heads \in SUBSET DOMAIN ds :
    \A i \in DOMAIN ds :
      i \in heads <=> ~\E h \in heads : h < i /\ ds[h].type = ds[i].type /\ Overlap(ds[h].box, ds[i].box)

ScoredAdditions(dets, items) ==
  LET ds == Additions(dets, items)
  IN  Decide([k \in DOMAIN ds |-> IF k \in Heads(ds) THEN ScoreOne(ds[k], {}) ELSE ds[k]],
             scenario.strict, "full_mask")

\* The findings a review redacts: the kept ones at their places, and at -k what
\* item k adds.
ReviewedFindings(dets, items) ==
  LET kept == Kept(dets, items)
      added == ScoredAdditions(dets, items)
  IN  [p \in DOMAIN kept \cup {-k : k \in DOMAIN added} |-> IF p > 0 THEN kept[p] ELSE added[-p]]

RejectedCritical(dets, items) ==
  \E i \in DOMAIN dets : /\ Status(items, i) = "REJECTED"
                         /\ dets[i].type \in IntrinsicCriticalTypes

\* The events of a review that are audited: one per item.
Events(dets, items) ==
  [k \in DOMAIN items |->
     [det |-> items[k].det, item |-> k,
      type |-> CASE items[k].det # 0 -> items[k].status
                 [] items[k].det = 0 /\ Redundant(items[k], Kept(dets, items)) -> "skipped"
                 [] OTHER -> "MANUAL_ADDED"]]

-----------------------------------------------------------------------------
(***************************************************************************)
(* The redaction tail, as far as an answer tells of it.                    *)
(***************************************************************************)
\* Verified clean; a non-critical leftover; a critical one, or given up.
Tails == {[status |-> "PASSED", human |-> FALSE], [status |-> "PASSED", human |-> TRUE],
          [status |-> "FAILED", human |-> TRUE]}

Outcome(ds, tail, human) ==
  LET blocked == scenario.strict /\ tail.status = "FAILED"
  IN  [status |-> CASE blocked -> "BLOCKED"
                    [] ~blocked /\ (tail.human \/ human) -> "NEEDS_REVIEW"
                    [] OTHER -> tail.status,
       masks |-> ds, image |-> ~blocked]

\* Verification may have escalated what it could look for.
Tailed(ds) == {ds, [i \in DOMAIN ds |-> IF ds[i].legible THEN Escalate(ds[i], 1) ELSE ds[i]]}

OutcomeIgnoringRejection(dets, items, tail) ==
  Outcome(ReviewedFindings(dets, items), tail, FALSE)

\* The outcome of process_review; a rejected critical finding is shown to a human.
ReviewOutcome(dets, items, tail) ==
  Outcome(ReviewedFindings(dets, items), tail, RejectedCritical(dets, items))

-----------------------------------------------------------------------------
(***************************************************************************)
(* The handlers.                                                           *)
(***************************************************************************)
HoldingIfWaited == {r \in Requests : req[r].pc = "waiting"}

\* The requests that hold a slot: those with a thread at work, waited for or not.
Holding == {r \in Requests : req[r].thread \in {"started", "reviewing"}}

NeededFor(it) == (IF it.status = "ACCEPTED" THEN {"review.accept"} ELSE {})
                 \cup (IF it.status = "REJECTED" THEN {"review.reject"} ELSE {})
                 \cup (IF it.source = "MANUAL" THEN {"review.manual_detect"} ELSE {})

NeededByFirst(items) == IF items = <<>> THEN {} ELSE NeededFor(items[1])

\* What a submission must be permitted to do, as a whole.
Needed(items) == UNION {NeededFor(items[i]) : i \in DOMAIN items}

Refuse(r, kind, user, status) ==
  /\ req' = [req EXCEPT ![r] = [NoRequest EXCEPT !.pc = "answered", !.kind = kind, !.user = user,
                                                !.reply = [NoReply EXCEPT !.status = status]]]
  /\ UNCHANGED <<scenario, findings, tokens, audit>>

\* run_with_timeout: a slot and a thread, or 429.
Enter(r, kind, user, token, s) ==
  /\ Cardinality(Holding) < MaxJobs
  /\ req' = [req EXCEPT ![r] = [NoRequest EXCEPT !.pc = "waiting", !.thread = "started", !.kind = kind,
                                                !.user = user, !.token = token,
                                                !.items = s.items, !.fits = s.fits]]
  /\ UNCHANGED <<scenario, findings, tokens, audit>>

Image(r, kind, user) ==
  /\ req[r].pc = "idle"
  /\ IF kind \notin Permissions[user] THEN Refuse(r, kind, user, "403")
     ELSE \/ Enter(r, kind, user, 0, [items |-> <<>>, fits |-> TRUE])
          \/ Cardinality(Holding) >= MaxJobs /\ Refuse(r, kind, user, "429")
          \/ Refuse(r, kind, user, "422")   \* validate_upload

Review(r, user, token, s) ==
  /\ req[r].pc = "idle"
  /\ IF ~(Needed(s.items) \subseteq Permissions[user]) THEN Refuse(r, "review", user, "403")
     ELSE \/ Enter(r, "review", user, token, s)
          \/ Cardinality(Holding) >= MaxJobs /\ Refuse(r, "review", user, "429")

\* The thread ends with what the handler will find, if it still waits.
End(r, error, out, events) ==
  req' = [req EXCEPT ![r].thread = "ended", ![r].error = error, ![r].out = out, ![r].events = events]

\* A thread of /analyze, /redact or /verify runs the pipeline, or only the scan.
Work(r) ==
  /\ req[r].thread = "started"
  /\ req[r].kind # "review"
  /\ \E tail \in Tails :
       \/ req[r].kind = "verify" /\ End(r, "none", Outcome(<<>>, tail, FALSE), <<>>)
       \/ req[r].kind # "verify" /\ \E ds \in Tailed(findings) :
                                      End(r, "none", Outcome(ds, tail, FALSE), <<>>)
  /\ UNCHANGED <<scenario, findings, tokens, audit>>

TokenAcceptedFromAnyone(r) == ~tokens[req[r].token].spent

\* verify_and_consume refuses a token of another identity, or a spent one.
TokenAccepted(r) == /\ tokens[req[r].token].owner = req[r].user
                    /\ ~tokens[req[r].token].spent

Consume(r) ==
  /\ req[r].thread = "started"
  /\ req[r].kind = "review"
  /\ IF TokenAccepted(r)
     THEN /\ tokens' = [tokens EXCEPT ![req[r].token].spent = TRUE, ![req[r].token].by = {r}]
          /\ req' = [req EXCEPT ![r].thread = "reviewing"]
     ELSE /\ End(r, IF tokens[req[r].token].owner = req[r].user THEN "409" ELSE "422", NoReply, <<>>)
          /\ UNCHANGED tokens
  /\ UNCHANGED <<scenario, findings, audit>>

\* process_review, and the tail, may also fail: answered 500.
ProcessReview(r) ==
  /\ req[r].thread = "reviewing"
  /\ LET dets == tokens[req[r].token].dets
         items == req[r].items
     IN  \/ End(r, "500", NoReply, <<>>)
         \/ Invalid(dets, items, req[r].fits) /\ End(r, "422", NoReply, <<>>)
         \/ /\ ~Invalid(dets, items, req[r].fits)
            /\ \E tail \in Tails :
                 End(r, "none", ReviewOutcome(dets, items, tail), Events(dets, items))
  /\ UNCHANGED <<scenario, findings, tokens, audit>>

AuditType(r, event) == CASE req[r].kind = "analyze" -> "IMAGE_ANALYZE"
                         [] req[r].kind = "redact" -> "IMAGE_REDACT"
                         [] req[r].kind = "verify" -> "IMAGE_VERIFY"
                         [] event = "ACCEPTED" -> "REVIEW_ACCEPTED"
                         [] event = "REJECTED" -> "REVIEW_REJECTED"
                         [] event = "MANUAL_ADDED" -> "REVIEW_MANUAL_DETECTION"
                         [] OTHER -> "none"

Emitted(r) ==
  LET events == IF req[r].kind = "review" THEN ToSet(req[r].events)
                ELSE {[type |-> req[r].kind, det |-> 0, item |-> 0]}
  IN  {[type |-> AuditType(r, e.type), user |-> req[r].user, det |-> e.det, item |-> e.item, req |-> r] :
         e \in {f \in events : AuditType(r, f.type) # "none"}}

\* The future is done before the timeout: the token of an analysis is issued, the
\* events are emitted, the answer is sent.  /analyze answers without an image.
Answer(r) ==
  /\ req[r].pc = "waiting"
  /\ req[r].thread = "ended"
  /\ IF req[r].error # "none"
     THEN /\ req' = [req EXCEPT ![r].pc = "answered", ![r].reply.status = req[r].error]
          /\ UNCHANGED <<tokens, audit>>
     ELSE /\ req' = [req EXCEPT ![r].pc = "answered",
                                ![r].reply = [req[r].out EXCEPT !.image = @ /\ req[r].kind \in {"redact", "review"}]]
          /\ audit' = audit \cup Emitted(r)
          /\ tokens' = IF req[r].kind = "analyze"
                       THEN Append(tokens, [owner |-> req[r].user, dets |-> req[r].out.masks,
                                            spent |-> FALSE, by |-> {}])
                       ELSE tokens
  /\ UNCHANGED <<scenario, findings>>

\* wait_for gives up; the shielded thread works on.
Timeout(r) ==
  /\ req[r].pc = "waiting"
  /\ req[r].thread # "ended"
  /\ req' = [req EXCEPT ![r].pc = "answered", ![r].reply.status = "504"]
  /\ UNCHANGED <<scenario, findings, tokens, audit>>

-----------------------------------------------------------------------------
Next == \/ \E r \in Requests : Work(r) \/ Consume(r) \/ ProcessReview(r) \/ Answer(r) \/ Timeout(r)
        \/ \E r \in Requests, user \in scenario.users :
             \/ \E kind \in {"redact", "verify"} : Image(r, kind, user)
             \/ Len(tokens) < MaxTokens /\ Image(r, "analyze", user)
             \/ \E t \in DOMAIN tokens, s \in scenario.submissions : Review(r, user, t, s)

Spec == Init /\ [][Next]_vars

-----------------------------------------------------------------------------
\* The types of the variables; no more threads work than there are slots.
TypeOK ==
  /\ tokens \in Seq([owner : scenario.users, dets : {tokens[i].dets : i \in DOMAIN tokens},
                     spent : BOOLEAN, by : SUBSET Requests])
  /\ \A r \in Requests : /\ req[r].pc \in {"idle", "waiting", "answered"}
                         /\ req[r].thread \in {"none", "started", "reviewing", "ended"}
                         /\ req[r].pc = "waiting" => req[r].thread # "none"
                         /\ req[r].token \in 0..Len(tokens)
  /\ \A i \in DOMAIN findings : findings[i].action \in Actions \ {"NONE"}
  /\ Cardinality({r \in Requests : req[r].thread \in {"started", "reviewing"}}) <= MaxJobs

Covers(a, b) == a.line = b.line /\ a.x <= b.x /\ a.x + a.width >= b.x + b.width

\* The box is masked as a finding of this type, at least as strongly as by the action.
Masked(masks, type, box, action) ==
  \E i \in DOMAIN masks : /\ masks[i].type = type
                          /\ Covers(masks[i].box, box)
                          /\ Strength(masks[i].action) >= Strength(action)

Reviewed == {r \in Requests : req[r].kind = "review" /\ req[r].reply.image}
DetsOf(r) == tokens[req[r].token].dets
StillMasked(r, d) == Masked(req[r].reply.masks, d.type, d.box, d.action)

\* Whatever the items say, in whatever order and how often, a reviewed image that
\* is handed out masks every intrinsically critical finding of its token, as it was
\* masked before (review_service.py:170, the fail-safe of process_review).
CriticalStaysMasked ==
  \A r \in Reviewed : \A i \in DOMAIN DetsOf(r) :
    DetsOf(r)[i].type \in IntrinsicCriticalTypes => StillMasked(r, DetsOf(r)[i])

\* A finding of the token is unmasked only if the caller is the token's owner and
\* may reject, the last item about it says so, and the audit log names the caller
\* (routes/review.py:121, service.py:170).
UnmaskedOnlyByItsRejector ==
  \A r \in Reviewed : \A i \in DOMAIN DetsOf(r) :
    StillMasked(r, DetsOf(r)[i]) \/
      /\ tokens[req[r].token].owner = req[r].user
      /\ "review.reject" \in Permissions[req[r].user]
      /\ Status(req[r].items, i) = "REJECTED"
      /\ \E e \in audit : /\ e.type = "REVIEW_REJECTED" /\ e.det = i
                          /\ e.user = req[r].user /\ e.req = r

\* Rejecting a critical finding never ends as PASSED: the answer says NEEDS_REVIEW
\* or BLOCKED, however the tail ends (review_service.py:258).
RejectedCriticalSurfaces ==
  \A r \in Requests :
    /\ req[r].kind = "review" /\ req[r].pc = "answered" /\ req[r].reply.masks # <<>>
    /\ RejectedCritical(DetsOf(r), req[r].items)
    => req[r].reply.status \in {"NEEDS_REVIEW", "BLOCKED"}

\* A token is spent by one review alone, of its owner, who had every permission the
\* items need: a refused, or another's, submission burns nothing, and no timeout
\* makes a second result of it (service.py:170 after every check of the route).
SpentByOnePermittedReview ==
  \A r \in Requests :
    /\ req[r].kind = "review" /\ (req[r].thread = "reviewing" \/ req[r].out # NoReply)
         => r \in tokens[req[r].token].by
    /\ \A t \in DOMAIN tokens : r \in tokens[t].by =>
         /\ tokens[t].by = {r}
         /\ req[r].user = tokens[t].owner
         /\ Needed(req[r].items) \subseteq Permissions[req[r].user]

\* The threads at work are the holders of a pool of MaxJobs slots: what JobSlots shows
\* of the limiter's counter (run_with_timeout, _shared.py:35).
Pool == INSTANCE SlotPool WITH Jobs <- Requests, Capacity <- MaxJobs, holders <- Holding
PoolSpec == Pool!Spec

\* The tokens of the endpoints are redeemed as the issuer promises: what ReviewToken
\* shows of the replay stores (review_token.py:229).
Redeeming ==
  INSTANCE Redemption WITH
    Tokens <- Nat, Uses <- Requests, Callers <- UNION {s.users : s \in Scenarios}, Nobody <- "nobody",
    issued <- {[token |-> t, owner |-> tokens[t].owner] : t \in DOMAIN tokens},
    redeemed <- UNION {{[token |-> t, use |-> r, who |-> req[r].user] : r \in tokens[t].by} : t \in DOMAIN tokens}
RedeemedAsPromised == Redeeming!Spec

\* A region a reviewer adds is masked in the image handed out, unless it touches a
\* kept finding, or an earlier addition, of the same type (review_service.py:226, 246).
AdditionMaskedUnlessTouching ==
  \A r \in Reviewed : \A k \in DOMAIN req[r].items :
    LET it == req[r].items[k]
    IN  it.det = 0 =>
          \/ Masked(req[r].reply.masks, it.type, it.box, "PARTIAL_MASK")
          \/ Redundant(it, Kept(DetsOf(r), req[r].items))
          \/ \E j \in 1..(k - 1) : /\ req[r].items[j].det = 0 /\ req[r].items[j].type = it.type
                                    /\ Overlap(req[r].items[j].box, it.box)

\* A critical region whose addition is audited as a reviewer's detection is masked:
\* manual critical findings "score CRITICAL" (review_service.py:49-57).
AuditedAdditionMasked ==
  \A e \in audit : e.type = "REVIEW_MANUAL_DETECTION" /\ req[e.req].reply.image =>
    LET it == req[e.req].items[e.item]
    IN  it.type \in IntrinsicCriticalTypes =>
          Masked(req[e.req].reply.masks, it.type, it.box, "FULL_MASK")

-----------------------------------------------------------------------------
(***************************************************************************)
(* What the analysis of the image must find.                               *)
(***************************************************************************)
Fresh == \A r \in Requests : req[r].pc = "idle"

Bare(l, k) == ~\E i \in DOMAIN findings :
                 Covers(findings[i].box, Box(l, k, k))

\* A value of a known format is masked wherever it stands, whatever else the line
\* says: an ID or phone number; a secret after its keyword, unless the keyword is
\* itself the value of the match before; a card number in two tokens that no other
\* digits precede; and the value after the first label of its line, unless the label
\* promises a phone number and a surer one follows (pipeline.py:180, risk_engine.py:94:
\* what one layer finds, no other, and no merge, takes away).
KnownFormatsMasked ==
  Fresh /\ {"regex", "context"} \subseteq scenario.on =>
    \A l \in DOMAIN scenario.image :
      LET ts == scenario.image[l]
          label == Min(Labels(ts))
          SecretOf(k) == k > 0 /\ k + 2 <= Len(ts) /\ ts[k] = "password" /\ ts[k + 1] = "colon"
      IN  \A k \in DOMAIN ts :
            \/ ts[k] \in {"taiwanId", "phone"}
            \/ ts[k] = "secret" /\ SecretOf(k - 2) /\ ~SecretOf(k - 4)
            \/ /\ k > 1 /\ LuhnValid(ts, k - 1)
               /\ \A j \in 1..(k - 2) : Digits(ts[j]) = 0
            \/ /\ Labels(ts) # {} /\ k = LabelEnd(ts, label) + 2
               /\ LabelType(ts[label]) = "Phone" => \A j \in k..Len(ts) : ts[j] # "phone"
            => ~Bare(l, k)

\* A guess is dropped for a finding that claims its place, and then that place is
\* masked, unless the claim came from a label and was itself absorbed by a surer
\* finding of its type (candidate_value.py:137, risk_engine.py:94).
GuessGivesWayToAMask ==
  Fresh =>
    LET claims == Classified(scenario.image, scenario.on)
        guesses == Guesses(scenario.image, scenario.on)
    IN  \A g \in DOMAIN guesses :
          \/ ~Bare(guesses[g].box.line, guesses[g].box.x)
          \/ \E c \in DOMAIN claims : /\ claims[c].layers = {"context"}
                                       /\ Overlap(claims[c].box, guesses[g].box)
                                       /\ \E d \in DOMAIN claims :
                                            /\ Canonical(claims[d]).type = claims[c].type
                                            /\ claims[d].conf > claims[c].conf
                                            /\ Overlap(claims[d].box, claims[c].box)

\* A guess that was dropped is masked all the same: keeping it "only adds noise,
\* never safety" (candidate_value.py:150).
DroppedGuessIsMasked ==
  Fresh => \A g \in DOMAIN Guesses(scenario.image, scenario.on) :
             LET box == Guesses(scenario.image, scenario.on)[g].box
             IN  ~Bare(box.line, box.x)

\* A card number in separate tokens is found: "multi-token values (e.g. spaced
\* credit card digits) are still caught" (regex_detector.py:69).
SpacedCardFound ==
  Fresh /\ "regex" \in scenario.on =>
    \A l \in DOMAIN scenario.image :
      \A k \in 2..Len(scenario.image[l]) :
        SubSeq(scenario.image[l], k - 1, k) = <<"cardHalf", "cardHalf">> =>
          ~Bare(l, k - 1) \/ ~Bare(l, k)
=============================================================================
