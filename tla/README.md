# MaskGuard in TLA+

A verification development kept beside MaskGuard: TLA+ models of the parts of
`src/` whose correctness depends on order, concurrency, time or failure, TLC
runs that check them on small instances, and TLAPS proofs for every size.
`PROJECT.json` maps every definition to the source lines it stands for.

## 1. The system

MaskGuard finds sensitive values in images and covers them. A command line
(`maskguard/cli.py`) runs the Core pipeline over files; a FastAPI service
(`maskguard/api/`) runs the same pipeline for a browser frontend, with sign-in,
permissions, rate limits, an audit log and a human-review step.

| Component | State | Operations | Who calls it |
|---|---|---|---|
| Pipeline (`pipeline.py`, `config.py`, `cli.py`) | detections, redacted image, verdict; output, report and log files | `process`, `redact_verify_and_finalize` | CLI, `service.py`, `review_service.py` |
| Risk and policy (`risk/`, `policy/`) | the detections, changed in place | merge, score, decide | pipeline, review service |
| Redaction (`redaction/`) | action and box of each detection | `apply`, `escalate` | verification |
| Verification (`verification/`) | attempt, residual | `verify_and_fix`, whole-image scan | pipeline |
| Concurrency limiter (`api/concurrency.py`, `routes/_shared.py`) | a counter; one coroutine and one thread per job | `try_acquire`, `release`, `run_with_timeout` | routes |
| Review token (`api/review_token.py`) | signing key, spent markers (memory or Redis) | `issue`, `verify_and_consume` | `/analyze`, `/review` |
| Review service (`review_service.py`, `routes/review.py`) | none of its own | `process_review`, audit of the outcome | frontend |
| Sessions and login (`api/auth/`) | sessions, pending logins (memory or Redis) | create, get, delete, rotate; login, callback, logout | every protected route |
| Authorization (`api/authorization/`) | configured roles | `require_permission` | routes |
| Rate limits (`api/ratelimit/`) | a counter per key and window (memory or Redis) | `check` | routes |
| Audit (`api/audit/`) | a hash-chained SQLite table | append, query, retention, integrity check | routes, login |
| Redis (`api/redisstate/`) | external | bounded retry, `safe_call` | token, session and rate stores |
| Startup (`api/app.py`, `deployment_profile.py`) | settings | refuse unsafe deployments | process start |
| Frontend (`frontend/`) | analysis, decisions, busy flag | analyze, decide, submit | the user |
| OCR, detectors, preprocessing, metadata | none | pure functions, external engines | pipeline |

The components meet at few places. A route checks the session, the permission
and the rate limit, then runs Core work in a thread through the limiter.
`/analyze` hands out a token whose signed payload is the list of detections;
`/review` redeems it *inside* the worker thread and calls the tail of the
pipeline with the reviewed list. Outcomes are appended to the audit chain. With
Redis, tokens, sessions and rate counters are shared between instances and every
one of their operations is a remote command that may be lost or repeated.

What is hard here: a thread that cannot be killed outlives its request; a token
must be used once although its checks and its claim are separate steps, possibly
on two instances, over a client that retries; stores read and write back without
a transaction; detections are mutable objects shared by the redaction loop, the
report and the audit line; a verdict has to be about the image really released.
`PROJECT.json` lists these hazards at their lines, with the properties that
watch them.

## 2. Modules

| Module | Models |
|---|---|
| `RiskPolicy` | merge, score, intrinsic floor, policy and ladder, as operators over detection records |
| `Pipeline` (EXTENDS `RiskPolicy`) | one image through `Pipeline.process` |
| `SlotPool` | what the limiter promises: a pool of slots |
| `JobSlots` | `ConcurrencyLimiter` under `run_with_timeout`; implements `SlotPool` |
| `Redemption` | what the issuer promises: a token redeemed once, by its owner |
| `ReviewToken` | `ReviewTokenIssuer` with both replay stores; implements `Redemption` |
| `Sessions` | both session stores under login, lookup and logout |
| `Login` | `/auth/login` and `/auth/callback` over both transaction stores |
| `Gate` | start-up validation, rate limits and permissions: what stands before an endpoint |
| `AuditLog` | emission, hash chain, retention, integrity check and query of the security audit log |
| `Detection` (EXTENDS `RiskPolicy`) | the detectors over lines of token kinds, as operators |
| `ReviewFlow` (EXTENDS `Detection`) | the image endpoints and `process_review`, composed over slots and tokens; implements `SlotPool` and `Redemption` |
| `MC*` | the instances TLC checks |
| `JobSlotsProofs`, `ReviewTokenProofs`, `AuditLogProofs`, `PipelineProofs`, `ReviewFlowProofs`, `SessionsProofs`, `LoginProofs`, `GateProofs` | the theorems about each and their proofs |

### Pipeline and RiskPolicy

The state is what `process` holds: `detections` (scored, decided and escalated
in place), the redacted `image` as the sequence of masks `apply` painted on a
fresh copy of the original, the loop variable `attempt`, the verdict, and the
three files written at the end. Actions are the calls `process` makes, in their
order; each attempt of `verify_and_fix` is one action, with one disjunct per
branch of its loop (passes, last attempt fails, escalates and repaints, no
attempt allowed). `look` and `scan` are history: what OCR said at the last look
and what the whole-image scan saw.

OCR is the environment. At every look each detection's region may read CLEAN,
FOUND or UNKNOWN, independently of the mask. This is weaker than any real
engine, so what holds here holds for every engine. A detection keeps of its text
only whether it has the three characters `_find_residual` asks for (`legible`).
A box is an interval on one text line; scores are integers in units of 0.0001,
which is exact for the two-digit confidences the detectors emit. Keyword hits
keep their line and class.

### JobSlots

Per request, `handler` is the coroutine and `worker` the thread with its slot.
A worker ends in `finished`: its slot is given back only by the release task the
done callback schedules, a step of its own. `try_acquire` and `release` never
suspend inside the asyncio lock, so each is one step. `SlotPool` knows only who
holds a slot; the refinement maps a holder to a worker that is not `none`.

### ReviewToken

`verify_and_consume` is three steps, because it reads the clock three times and
other callers run in between: the checks (`Submit`), the marker's lifetime
(`ComputeTtl`), the claim. The in-memory claim may use any clock value between
the second reading and the moment it holds the lock. The Redis claim is one
`SET NX EX`, or a command lost on the way, or a reply lost on the way back; the
client retries a bounded number of times. A restart drops the instance's
requests and, without Redis, its markers; the signing key survives only if it
was configured. Time is in ticks finer than the seconds markers live for, so the
rounding of lifetimes is visible. Markers are kept past their end and are
judged by their end, except that the in-memory sweep removes them. Deployments
are those the program starts: `create_app` refuses Redis without a configured
secret, and without Redis there is one instance.

One clock is assumed for all instances. The signature is modelled by its key:
who holds the key can verify. The payload of a token is not modelled.

### Sessions

Calls of three kinds share the store: a login (the end of `/auth/callback`), the
lookup of every protected route, and `/auth/logout`, which is a get and then a
delete whatever the get said. The in-memory store holds a lock, so each of its
operations is one step on an ordered list, least recently used first. The Redis
store's `get` is three: GET (`RedisGet`), the clock and the expiry check
(`Examine`), and SET of the copy it read (`Touch`) or DEL (`Purge`). Every
command, or its reply, may be lost, and the client retries; a repeated command
runs again at its later time. A key lives for whole seconds, so the truncation
of `new_ttl` is visible. `LogoutSticks` and `LogoutIsSeenEverywhere` differ in one
thing: whether a lookup held a copy of the session when it was deleted (`quiet`).
`order` lists an id at most once; `Without` takes it out where it stands.
`rotate` has no caller in the program and is left out; a session's identity never
changes and is left out too.

### Login

A login stands for the state, nonce and PKCE verifier it drew; a callback carries
the login whose redirect its browser follows (`login`) and the transaction its
cookie names (`txn`), which differ when two tabs of a browser sign in at once.
Every step that reaches a store, the provider or the browser is an action, so
responses that set or clear the one cookie interleave with the other tab's.
`Taken` is `pop` or GETDEL: what a callback consumes is gone whatever becomes of
it, and a lost reply takes it too. A redirect may be followed again, or in another
browser. The provider may honour a code twice and compares no verifier, so the
properties rest on this program; `NonceMatches` then repeats what `StateMatches`
has shown. `displaced` is history: the browser lost this login's cookie. `pending` is the
set of transactions in the store; `place` remembers in which order an `OrderedDict`
received them, so the one pushed out is the one of the least place.
The discovery document is cached and fetched again; what it contains is left out.

### Gate

One request runs its dependencies in order: a session lookup that chooses the
rate key, one or two counters, a second session lookup, the permission. Between
any two of them the session may end, the clock move, or a command be lost. The
in-memory `check` is two steps, since it reads the clock before the lock; the
Redis script is one. `own` marks a request that raced another at the construction
of the limiter and counts in one nobody else sees. The buckets are a function of
the key; `age` counts the checks since a bucket was touched, so the `Oldest` is the
first of the `OrderedDict`. Unexpected failures of the
in-memory limiter let the request pass, everything about Redis answers 503.
`CreateApp` runs once, before any request; the validations are conjuncts in the
code's order, each over settings known as sound or not.

### AuditLog

`Emit` takes the time, `AppendRow` takes the lock: rows are chained in seq order,
not in time order. `inserted` is every row that ever was, `kept` the places of those
still in the table, and the integrity check walks the kept places. A hash is the tuple of what goes into it, so two hashes are
equal only if their inputs are. The store is built by whoever needs it first
(`StartOpening`, `Opened`, `OpeningFails`), with no lock around the
construction; the first result is cached, a failure as well, and from then on
`emit` returns without a word (`EmitDropped`). `ReadPage` is one page of an auditor
who asks on until a page is short, and is audited for each. A query whose SELECT
fails (`ReadFails`) and one that finds a failed construction cached (`ReadNothing`)
are answered like an empty table, 200 with count 0: the auditor stops there.
No text of the repository promises otherwise, so this is no finding; but the answer
does not tell the two apart, and the audit line of a failed query says SUCCESS.
Every page is authorized first, which emits an event: the store has been asked for
by then. Without authorization the query itself may be the first to open it, which
is left out. `Passes` is the store's own `verify_integrity`; around it
`service.verify_integrity` answers PASS where there is no store and FAIL where it
cannot be read, which the properties, being about an open store, do not cover.
`delete_older_than` has no caller in the program, so retention is the
environment's.

### Detection and ReviewFlow

An image is a sequence of lines of tokens, a token is its kind, and a box a run
of cells: enough for what one scan consumes (`FindIter`), what a label claims
(`ContextLine`), what a guess yields to (`Unclaimed`) and what the merge of
`RiskPolicy` absorbs. `Analysis` is the whole way from the tokens to the actions.

`ReviewFlow` composes the parts at the level of requests. `req[r]` holds the
handler (`pc`) and the thread: `Timeout` answers 504 and leaves the thread at
work with its slot, so a review may complete after its reviewer has been told it
timed out. `Consume` spends the token in the thread, `ProcessReview` validates
and rebuilds, `Answer` emits the audit events and issues the token of an
analysis. The slot is the count of threads and the token's claim is one step.
Two abstract specifications say that this is no more than the code gives:
`SlotPool`, implemented by `JobSlots` and by the threads of `ReviewFlow`, and
`Redemption`, implemented by `ReviewToken` and by the reviews of `ReviewFlow`. The
tail ends in any of its outcomes (`Pipeline` shows which).

## 3. Runs

| Run | Question | Size |
|---|---|---|
| `pipeline` | Do the released image, report and audit line agree, and does Strict Mode keep back what is still seen? | up to 2 findings of 8 kinds, two keyword contexts, 96 flag and file combinations, 0, 1 or 3 attempts: 353,250 states |
| `job_slots` | Is the bare counter exact, bounded, honest, and always freed? | 4 callers, 2 slots: 6,636 states |
| `review_token` | Is a token used once, and refused truthfully? | 1 token, 2 submissions, 3 deployments, 1 retry, 1 restart, 6 ticks of half a second: 589,773 states |
| `sessions` | Do sessions keep their limits, and logouts hold? | 2 calls at once; 2 sessions in a store of one, or 1 in Redis; idle 1 s, absolute 2 s, 6 ticks of half a second, 1 retry: 1,292,777 states |
| `login` | Does a login give one session, to its own browser, and fail only for a cause? | 2 logins, 2 callbacks, 2 browsers; memory for one transaction, Redis keys longer and shorter than the transaction; 2 faults, 1 retry: 2,408,990 states |
| `audit_log` | When may the integrity check alarm, what does its silence mean, what explains a lost event and a row missed by paging? | 2 threads and an auditor; 5 events and a retention run, 4 with a failure and a restart, or 3 with generated keys: 606,652 states |
| `review_flow` | What may a review uncover, what must it leave covered, and what does detection find? | every line of up to three of 16 fields, or two lines, under three detector sets; 10 submissions of 2 users, 3 requests, 2 slots: 587,036 states |
| `gate` | Does an enterprise profile enforce what it declares, and is no window or budget overdrawn? | every profile, environment, control set and secret; then 3 racing requests, or 2 mixed ones, on each limiter, with up to 2 faults and an ending session: 1,113,719 states |
| `token_restart`, `logout_undone`, `guess_dropped`, `manual_addition_lost` | Four statements of docs and comments the code does not keep (section 6) | as above |

Bounds. Two findings are enough for a merge, and for one detection that is
escalated beside one that is not; three attempts are the shipped default and
allow two escalations, one attempt allows none, zero reaches the return marked
unreachable. Four callers on two slots let two phantom workers, left by
timeouts, refuse two further callers. Two submissions of one token are the least
that can replay; submissions interact only through their token's marker, so more
tokens add nothing to a pair. Six ticks at two per second hold a lifetime of one
second, a stall past it, and a marker's end. One restart suffices because a
second finds the state a first could have left. The submissions are
interchangeable and are declared a symmetry set; no liveness is checked there.
Two overlapping calls are the least that can write back a stale session; calls are
reused, so any number follow each other. Redis keys never meet, so one session
suffices there; two in a memory store of one show the eviction. Six ticks pass the
idle timeout and the absolute one.

Two logins are the least that share a cookie, push one another out of a store of
one, or meet in one browser; two callbacks are the least that replay. Two faults
exhaust one retry. For the audit log, three rows and a cut in the middle need
three events out of time order; five leave two pages to an auditor, and the two
threads are the least that append out of time order or race at the construction.
A capacity of one is overdrawn by the second of two racing requests, three fill
the ceiling of two that one address has; two buckets for three keys show the
eviction, two windows the reset. The token of a review carries one critical and
one plain finding, the least whose rejection differs; three requests are an
analysis and two submissions of its token. Lines of three fields hold two
findings that merge and a third beside them.

`CHECK_DEADLOCK FALSE` is stated where the system ends: `process` returns, and
the clock, the submissions, logins, requests and events of the other runs are
bounded. `job_slots` must never
deadlock, and does not.

## 4. Fairness

`JobSlots` is weakly fair in the event loop's steps (a ready result or the timer
is handled, a scheduled release runs) and in the end of a worker, which makes a
bounded number of OCR calls. Nothing makes a client call. `Pipeline` is a
sequential call, so weak fairness of its next step says that it runs on; an OCR
engine that hangs is outside. The other modules
state no fairness and no liveness: their handlers wait for clients, users, a
provider or Redis, and nothing in the code makes these answer.

## 5. Proofs

A theorem holds for every value of the constants that its module's assumptions
allow; the run of the same property shows it on one instance. Each module has one
inductive invariant `IInv`, a lemma for each action or each conjunct, and a short
proof of every property from `IInv`. Every invariant and action property of the
passing runs is proved; liveness is not. The last column is short for the ASSUMEs
of the module, and nothing else is assumed.

| Module | Theorems | `IInv` | Assumptions |
|---|---|---|---|
| `JobSlotsProofs` | `CountIsHolders`, `BoundedWorkers`, `RefusedOnlyWhenFull`, refinement of `SlotPool` | the counter is the number of holders | finitely many requests, an integer limit |
| `ReviewTokenProofs` | types, `OneUseWhileValid`, `ConflictMeansClaimed`, refinement of `Redemption`, `ConflictMeansAnother` in memory | `TimedLong`, `ChecksHold`, `SpentStaysMarked`, `MarkedMeansClaimed`, `IdleUnclaimed`, `Owning` | positive times, the deployments that start |
| `AuditLogProofs` | types, `AlarmMeansHoleOrKeyChange`, `PassMeansUncut`, `LossesHaveACause`, `MissedOnlyForACause` | `Kinds`, `Events`, `Stored`, `Retained`, `Losses`, `Paging` | a nonempty page, finitely many threads, the auditor is none of them |
| `PipelineProofs` | types, `ReportMatchesImage`, `PassedMeansClean`, `StrictWithholds`, `FailSafeFindingsMasked`, `LeftoversReachAHuman`, `MasksOnlyStrengthen` | `Kinds`, `Painted`, `Untouched`, `Checked`, `Scanned`, `Filed`, `Guarded` | `FindingsAsDetected`, finitely many hits |
| `ReviewFlowProofs` | types, `SpentByOnePermittedReview`, `RejectedCriticalSurfaces`, `CriticalStaysMasked`, `UnmaskedOnlyByItsRejector`, `AdditionMaskedUnlessTouching`, `KnownFormatsMasked`, `GuessGivesWayToAMask`, refinement of `SlotPool` and of `Redemption` | `Shape`, `Given`, `Placed`, `Made`, `Sent`, `Spending`, `Capacity` | `ImagesTyped`, `SubmissionsTyped`, a positive limit |
| `SessionsProofs` | types, `LogoutSticks`, `AcceptedWithinLimits`, `RefusedForAReason`, `LogoutIsSeenEverywhere` in memory | `Typed`, `Listed`, `Fresh`, `Carried`, `Limited`, `Accounted`, `Silent` | positive timeouts and limits |
| `LoginProofs` | types, `SessionsComeOfOneOwnLogin`, `LoginFailsForAReason` | `Typed`, `Kept`, `OnceEach`, `Begun`, `Held`, `Waiting`, `Named`, `Arrived`, `Consumed`, `Explained` | positive limits, nobody is called `none` |
| `GateProofs` | types, `EnterpriseMeansEnforced`, `WithinCapacity`, `BudgetIsOnesOwn` | `Shape`, `Typed`, `Waits`, `Covered`, `Refused`, `Entered`, `Fresh`, `Buckets`, `RedisCounts`, `StoreCounts` | positive limits, natural bounds |

**Slots.** `CountIsHolders` with `TypeOK` is inductive, for every configured limit,
zero and negative ones included: the clamp of `release` at zero never acts, because
a worker that gives back its slot is counted. `BoundedWorkers` needs in addition
that a slot is taken only below the limit. That a refusal is honest and that the
pool is implemented follow step by step from the counter being exact.

**Token.** `OneUseWhileValid` is not inductive. It is strengthened with: a call that
has computed its marker's lifetime will set a marker that outlives the token
(`TimedLong`, from the rounding lemma `TtlCovers`); a call past the signature check
runs where the key is still the signer's (`ChecksHold`); and while a token could
still verify anywhere, the marker of an accepted submission is there until the token
expires (`SpentStaysMarked`). The last one is what a restart threatens. A restart
that loses markers also loses the key, unless the secret was configured without
Redis; `Sheltered` names the deployments where this cannot happen, and the
`token_restart` run shows the other one failing. A conflict is answered where a
marker was seen, so for `ConflictMeansClaimed` every marker must have a call that set
it (`MarkedMeansClaimed`), a claim is never taken back (`ClaimsKept`), and only a call
without one starts anew (`IdleUnclaimed`).

**Audit log.** Every call under way is one pending event and every stored event one
row (`Events`, `Stored`). A row is linked to the row that was last when it was
appended, however much later its own time is. `Retained` says what retention can
have taken: what is gone is older than the cutoff, and older than every kept row
before it. A hash is injective in what goes into it, being a tuple (that is the
assumption on HMAC-SHA256), so a passing check finds each row linked to the very row
before it in the table. `Losses` keeps the accounts: a failure of the database pays
for the one event it takes, a restart for the calls it cuts off, of which there are
no more than callers, and a cached failure remembers the event it came with. A
duplicate id would lose an event unpaid; ids being fresh, there is none (`Stored`).
The paging argument counts the rows above a wanted one: those appended push it away
from the offset as fast as they push it down the list, and none above it is deleted
unless an inversion of time lets retention take it first. A page that was no look
in the table at all ends the paging as well; `failed` marks it, and a fault paid for it.

**Pipeline.** `Painted`, `Untouched`, `Checked`, `Scanned` and `Filed` say what the
image, the last look, the verdict and the files have to do with each other at each
stage. `Guarded` follows a fail-safe finding: after the merge a detection of its type
is left that is either still a guess or has sure evidence, after the score it is
critical if it is intrinsically so, after the policy it is masked, and no flag or
escalation of the loop takes the mask away. The merge is a recursive function; that
it exists and keeps a property of its list at every place is shown by a least
counterexample, with the well-foundedness of the naturals.

**Review.** `Local` follows a request from its slot to its answer: how it was let in
(`Placed`), what its thread may have made of the token's findings (`Made`), and that
an answer hands out that or nothing (`Sent`). `Spending` ties a token to the one
review that consumed it. The properties about masks are then about `ReviewOutcome`,
for any tail of the pipeline: an unmasked finding was rejected by an item of this
request, whose sender had the permission to when it was let in.

**Detection.** `KnownFormatsMasked` and `GuessGivesWayToAMask` are about folds over a
line and over the findings, of any length. A fold is a recursive function; that it
exists, and what it keeps at each place, is again shown by a least counterexample.
Three facts carry the argument. The matches of a pattern are apart from each other
and surer than what any other layer finds of their type, so each is the `Surest` of
its place. The merge keeps the place of what is surest, and keeps no place that was
not found (`MergedFrom`, the invariant of its loop). And what weighs enough
(`Weighs`: type and confidence together) is scored and redacted by any policy. A guess is either kept, and redacted as such, or it was dropped because
something claimed its place, and that is masked by the same argument.

**Refinements.** A request of `ReviewFlow` holds a slot of `SlotPool` exactly while its
thread is at work, which is what `JobSlots` shows of the counter. A token of
`ReviewFlow` is issued by the answer of its analysis and redeemed by `Consume`. In
`ReviewToken` a token is redeemed by the step that accepts a submission, whichever
call and store it is of; `Owning` adds to `IInv` that a call past the checks has an
identity the token was issued to. Only an acceptance while the token is alive counts,
as in `OneUseWhileValid`, and `[]Sheltered` is a hypothesis: without it the
refinement fails as finding 1 does. TLC confirms these refinements on the instances
of `review_token` and `review_flow`, and the failure in the deployment left out; the
formulas (`RedeemedAsPromised`, `PoolSpec`) are in the modules.

**Sessions.** A lookup in Redis writes back a copy it read earlier, so the invariant
says what each call carries (`Carried`), not only what the store holds: a copy never
promises more than the session's own limits, and the lifetime a touch asks for, after
truncation to seconds, ends no earlier than the idle timeout or the last second of the
session (`LongEnough`, from `WholeSeconds`). `Accounted` explains every absence, and
`Silent` is `LogoutSticks` together with the fact that nobody holds a copy any more.

Two statements that fail with Redis (findings 2 and 7) are proved for the in-memory
stores, where a call holds the lock from its reading to its writing: a logout is
seen by every later lookup (`LogoutInMemoryIsFinal`), and a conflict means another
call's claim (`ConflictInMemoryMeansAnother`). The failures are the remote store's.

**Login.** `Waiting` says where a transaction that was handed to a browser is: in the
store, taken by a callback that tried, or pushed out by later ones; `Held` and `Named`
say whose cookie names it. Together they leave no other cause for a failure
(`Explained`). `OnceEach` and `Consumed` say that what a callback took it took alone,
of its own browser and in time.

**Gate.** `Covered` says that a request has been counted by every key of its plan or
still has to ask it, so whoever passes unfailed was counted by all; a failure lets
pass only in memory. For the limiters the invariant relates what is stored to the
history of what was allowed. Redis: a count lies between the requests a key was
allowed and those it was charged, lost replies included. In memory: a bucket's count
is never above the history, and, while no bucket was evicted, nobody came late and
nobody has a limiter of its own (`Tidy`), no lower either, every key charged in the
latest window has its bucket, and nothing of a later window exists (`StoreCounts`).
An increment is a new record of the history because a request asks each of its keys
in one order and counts its retries (`Fresh`). A refusal keeps as its witness a key
that was full in that window (`Refused`), and a key tells whose it is (`KeyTells`).

Three of the proofs had something to say about the models. The outcomes of `Gate`'s
`Checked` overlapped: what becomes of a request with nothing left to ask was said only
by the order of the branches, which a CASE does not have; they are disjoint now.
`FailSafeFindingsMasked` rests on a user rule's findings having types of their own,
as `user_rules.py` gives them; `FindingsAsDetected` states it. `KnownFormatsMasked` was
false on lines the run did not hold then, in two ways that are the code's: a label's
value is lost when a surer phone number of its type absorbs the label's finding
(`risk_engine.py:94`), and a secret is missed when its keyword is itself the value of
the keyword before it. The property names both exceptions, and the run has images of
both.

Only model-checked:

- `Finishes` and `CapacityReturns`: liveness, which the prover handles neither with
  fairness nor with ENABLED.
- The four properties that are violated.
- What `Pipeline`'s tail does to the outcome of a review: `ReviewFlow` lets it end in
  any of its ways, and the two modules are not composed further.

## 6. Where code and text disagree

With a run:

1. With a configured token secret and no Redis, a restart revives spent tokens,
   although a comment says that restarts invalidate reviews in flight either way
   (`token_restart`).
2. With Redis a logout racing a lookup is undone: the lookup writes back the
   session it read, although a comment says every instance's next lookup
   observes it as gone (`logout_undone`).
3. A fallback guess is dropped for any overlapping detection, which policy may
   then leave unmasked, although a comment says such a guess adds no safety
   (`guess_dropped`).
4. Of two overlapping additions of a reviewer only the first is scored and masked,
   although both are audited as added (`manual_addition_lost`).

Without a run of their own; the formula named is in the module, ready to be
checked under the module's `.cfg`:

5. `--mode strict --no-verify` releases an unverified image, although README.md
   says Strict Mode requires verification (`StrictReleasesOnlyVerified`).
6. The ladder does not reach the full mask it is documented to end in: from
   PARTIAL_MASK, the default three attempts stop at PIXELATE
   (`FailedOnlyAfterFullMask`).
7. A lost Redis reply makes the first submission of a review fail as already
   submitted (`ConflictMeansAnother`).
8. A spaced card number behind another number on its line is not found
   (`SpacedCardFound`).
9. Two racing first events without a configured audit key chain with two keys, and
   the check fails in the process that wrote them (`OneProcessVerifies`).
10. Retention by time may cut the chain in the middle and raise an alarm
    (`RetentionRaisesNoAlarm`).
11. A caller that waits for the limiter's lock past a window's end resets the
    window (`WindowNeverExceeded`).
12. A malformed role mapping does not stop the start (`MalformedMappingStopsTheStart`).
13. A login ends with its Redis key after an hour, whatever its own lifetime
    (`KeyOutlivesTransaction`).
14. A failed callback may leave a session behind (`FailureLeavesNoSession`).

## 7. Not modelled

OCR engines, preprocessing, metadata stripping and pixel operations: data
conversions whose results the models choose freely; of the detectors' patterns,
which characters they match. Middleware, validation, schemas and error bodies:
request-local. The frontend: `ReviewFlow` lets a client send anything at any time.
Benchmarks and scripts. `rotate` of the session stores, which nothing calls.
Report and log writing have no failure path in the code, so a full disk is not
modelled; nothing reads the report back. What the role mapping file, the settings
and the sanitizer parse is reduced to whether it is sound.

## 8. Plan

1. *Batch*: the CLI's loop over files, whose outputs may overwrite each other.
2. *Composition*: `Pipeline` as the tail of `ReviewFlow`, by an abstract specification
   of what the tail returns.
3. *Stores*: one abstract specification of a session store, which both stores
   implement up to finding 2.
