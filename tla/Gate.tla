-------------------------------- MODULE Gate --------------------------------
(***************************************************************************)
(* What stands before every protected endpoint: create_app's validation of *)
(* the configuration and of the declared deployment profile, the rate      *)
(* limit dependency over the in-memory or the Redis limiter, and the       *)
(* permission check.                                                       *)
(*                                                                         *)
(* The dependencies of a request run one after the other in pool threads:  *)
(* a session may end between the lookup that names the caller to the       *)
(* limiter and the one that authorizes it, the clock may move between two  *)
(* counters of one request, and, in memory, between a caller's reading the *)
(* clock and its turn at the limiter's lock.  The in-memory limiter is     *)
(* built by the first request, under no lock: a request that builds at the *)
(* same time counts in a limiter of its own, which nobody sees again.      *)
(* With Redis the script runs atomically on Redis's own clock, but a       *)
(* command or its reply may be lost and the client then sends it again.    *)
(***************************************************************************)
EXTENDS Integers, SequencesExt

CONSTANTS Requests,
          Configs,     \* the environments the process may be started with
          Roles,       \* [user -> the roles the mapping file gives it]
          Capacity, Window, MaxKeys, CleanupInterval,
          RetryLimit,  \* the Redis client sends a command again this often
          MaxTime      \* bound: the last second

ASSUME LimitsPositive ==  \* validate_production_rate_limit_config accepts no others
  {Capacity, Window, MaxKeys, CleanupInterval} \cup {c.multiplier : c \in Configs} \subseteq Nat \ {0}
ASSUME BoundsNat == {RetryLimit, MaxTime} \subseteq Nat

\* A configuration is [profile, production, on, secret, sound, proxy, multiplier]: the
\* controls switched on, the token secret, the settings that are sound, whether
\* X-Real-IP is trusted, client_multiplier; and, as bounds, [calls, load, ends, faults]: who may call what, how many
\* requests there are, how many sessions end and how often a store fails.  A call is
\* [user, peer, realIp, class]: the user its cookie names, the peer address, the
\* X-Real-IP header, the endpoint's rate class.

VARIABLES config, status,
          now,        \* the clock, in seconds
          built,      \* has lru_cache kept a RateLimiter?
          buckets,    \* RateLimiter._buckets: key -> [window, count, age], the age in checks since touched
          lastCleanup,
          counters,   \* Redis: [key, window] -> INCRs; they expire unread
          sessions,   \* the users with a live session
          req,        \* per request
          audit,      \* the authorization events emitted
          charged,    \* history: the increments [req, key, window, allowed]
          latest,     \* history: the latest window the in-memory limiter served
          late,       \* history: did a caller reach it with an older window?
          evicted,    \* history: were buckets evicted?
          faults

vars == <<config, status, now, built, buckets, lastCleanup, counters, sessions, req, audit, charged,
          latest, late, evicted, faults>>

Has(control) == control \in config.on
NoRequest == [pc |-> "idle", call |-> [user |-> "none", class |-> "none"], todo |-> <<>>,
              clock |-> 0, denied |-> FALSE, tries |-> 0, failed |-> FALSE,
              own |-> FALSE, asked |-> "none", window |-> 0, answer |-> "none"]

Init == /\ config \in Configs
        /\ status = "starting"
        /\ now = 0
        /\ built = FALSE /\ buckets = [k \in {} |-> 0] /\ lastCleanup = 0
        /\ counters = [k \in {} |-> 0]
        /\ sessions = IF "oidc" \in config.on THEN DOMAIN Roles ELSE {}
        /\ req = [r \in Requests |-> NoRequest]
        /\ audit = {} /\ charged = {}
        /\ latest = 0 /\ late = FALSE /\ evicted = FALSE /\ faults = 0

-----------------------------------------------------------------------------
(***************************************************************************)
(* create_app: the first check that raises ends the process.               *)
(***************************************************************************)
Profiles == {"development", "single-instance-enterprise", "multi-instance-enterprise"}
Enterprise(c) == c.profile \in Profiles \ {"development"}

ValidateProductionSecret(c) == c.production => c.secret = "strong"
ValidateProductionAuthConfig(c) == "oidc" \in c.on /\ c.production => "oidc" \in c.sound
ValidateProductionAuditConfig(c) ==
  "audit" \in c.on => "retention" \in c.sound /\ (c.production => "auditKey" \in c.sound)
ValidateProductionRateLimitConfig(c) == "policies" \in c.sound
ValidateRedisConfig(c) == "redis" \in c.on => "redis" \in c.sound
SecretShared(c) == "redis" \in c.on => c.secret # "none"

Required(profile) ==
  CASE profile = "development" -> {}
    [] profile = "single-instance-enterprise" -> {"oidc", "authz", "audit", "rate"}
    [] profile = "multi-instance-enterprise" -> {"oidc", "authz", "audit", "rate", "redis"}

ValidateNamedControls(c) == c.profile \in Profiles /\ Required(c.profile) \ {"rate", "redis"} \subseteq c.on

\* get_deployment_profile and validate_deployment_profile
ValidateDeploymentProfile(c) == c.profile \in Profiles /\ Required(c.profile) \subseteq c.on

Starts(c) == /\ ValidateProductionSecret(c)
             /\ ValidateProductionAuthConfig(c)
             /\ ValidateProductionAuditConfig(c)
             /\ ValidateProductionRateLimitConfig(c)
             /\ ValidateRedisConfig(c)
             /\ SecretShared(c)
             /\ ValidateDeploymentProfile(c)

CreateApp ==
  /\ status = "starting"
  /\ status' = IF Starts(config) THEN "running" ELSE "refused"
  /\ UNCHANGED <<config, now, built, buckets, lastCleanup, counters, sessions, req, audit, charged,
                 latest, late, evicted, faults>>

Tick == /\ status = "running" /\ now < MaxTime
        /\ now' = now + 1
        /\ UNCHANGED <<config, status, built, buckets, lastCleanup, counters, sessions, req, audit,
                       charged, latest, late, evicted, faults>>

\* A session expires or its user logs out.
SessionEnds(user) ==
  /\ status = "running"
  /\ user \in sessions
  /\ Cardinality(DOMAIN Roles \ sessions) < config.ends
  /\ sessions' = sessions \ {user}
  /\ UNCHANGED <<config, status, now, built, buckets, lastCleanup, counters, req, audit, charged,
                 latest, late, evicted, faults>>

-----------------------------------------------------------------------------
(***************************************************************************)
(* require_rate_limit.                                                     *)
(***************************************************************************)
Layered == {"IMAGE_ANALYZE", "IMAGE_REDACT", "IMAGE_VERIFY", "REVIEW", "AUDIT_QUERY"}

ClientIp(call) == IF config.proxy /\ call.realIp # "none" THEN call.realIp ELSE call.peer

KeyOfCaller(scope, class, who) == <<scope, who>>
Key(scope, class, who) == <<scope, class, who>>

\* The counters a request is checked against; user is "none" without a session.
Checks(class, user, ip) ==
  IF user = "none"
  THEN <<[key |-> Key("anon", class, ip), capacity |-> Capacity]>>
  ELSE <<[key |-> Key("identity", class, user), capacity |-> Capacity]>>
       \o IF class \in Layered
          THEN <<[key |-> Key("client", class, ip), capacity |-> Capacity * config.multiplier]>>
          ELSE <<>>

\* Who a lookup of the session store says the caller is.
Identified(call) == IF call.user \in sessions THEN call.user ELSE "none"

\* The audit endpoint may not be there.
Arrive(r, call) ==
  /\ status = "running"
  /\ req[r].pc = "idle"
  /\ Cardinality({q \in Requests : req[q].pc # "idle"}) < config.load
  /\ call.class = "AUDIT_QUERY" => Has("audit")
  /\ req' = [req EXCEPT ![r].pc = "arriving", ![r].call = call]
  /\ UNCHANGED <<config, status, now, built, buckets, lastCleanup, counters, sessions, audit, charged,
                 latest, late, evicted, faults>>

\* What _get_backend makes of a request: it has to build a limiter, or has one.
Backed == IF Has("redis") \/ built THEN "limiting" ELSE "building"

\* get_optional_identity, whether limits are on or not, then the keys.
Identify(r) ==
  /\ req[r].pc = "arriving"
  /\ LET user == Identified(req[r].call)
     IN  req' = [req EXCEPT ![r].asked = user, ![r].tries = 0,
                  ![r].pc = IF Has("rate") THEN Backed ELSE "authorizing",
                  ![r].todo = IF Has("rate") THEN Checks(req[r].call.class, user, ClientIp(req[r].call))
                              ELSE <<>>]
  /\ UNCHANGED <<config, status, now, built, buckets, lastCleanup, counters, sessions, audit, charged,
                 latest, late, evicted, faults>>

\* Every counter is asked even after one has denied; then the verdict.
Checked(r, allowed, window) ==
  LET denied == req[r].denied \/ ~allowed
      rest == Tail(req[r].todo)
  IN  req' = [req EXCEPT ![r].todo = rest, ![r].denied = denied, ![r].tries = 0,
                ![r].window = IF allowed THEN @ ELSE window,
                ![r].pc = CASE rest # <<>> -> "limiting"
                            [] rest = <<>> /\ denied -> "answered"
                            [] rest = <<>> /\ ~denied -> "authorizing",
                ![r].answer = IF rest = <<>> /\ denied THEN "429" ELSE @]

WindowOf(t) == t \div Window

Charge(r, window, allowed) ==
  charged' = charged \cup {[req |-> r, key |-> Head(req[r].todo).key, window |-> window,
                            n |-> req[r].tries, allowed |-> allowed]}

\* get_rate_limiter: the first to end is cached, each goes on with what it built.
Build(r) ==
  /\ req[r].pc = "building"
  /\ built' = TRUE
  /\ req' = [req EXCEPT ![r].pc = "limiting", ![r].own = built]
  /\ UNCHANGED <<config, status, now, buckets, lastCleanup, counters, sessions, audit, charged,
                 latest, late, evicted, faults>>

\* A limiter of its own has no count yet.
CheckInOwn(r) ==
  /\ req[r].pc = "limiting"
  /\ req[r].own
  /\ Charge(r, WindowOf(now), TRUE)
  /\ Checked(r, TRUE, WindowOf(now))
  /\ UNCHANGED <<config, status, now, built, buckets, lastCleanup, counters, sessions, audit,
                 latest, late, evicted, faults>>

\* RateLimiter.check, before the lock.
ReadClock(r) ==
  /\ req[r].pc = "limiting"
  /\ ~Has("redis") /\ ~req[r].own
  /\ req' = [req EXCEPT ![r].pc = "clocked", ![r].clock = now]
  /\ UNCHANGED <<config, status, now, built, buckets, lastCleanup, counters, sessions, audit, charged,
                 latest, late, evicted, faults>>

\* _maybe_cleanup_locked
Swept(t) ==
  IF t - lastCleanup < CleanupInterval THEN buckets
  ELSE Restrict(buckets, {k \in DOMAIN buckets : t < (buckets[k].window + 1) * Window})

FullOffByOne(bs, key) == Cardinality(DOMAIN bs) > MaxKeys /\ key \notin DOMAIN bs
Full(bs, key) == Cardinality(DOMAIN bs) >= MaxKeys /\ key \notin DOMAIN bs
Oldest(bs) == CHOOSE k \in DOMAIN bs : \A j \in DOMAIN bs : bs[j].age <= bs[k].age
WithRoom(bs, key) == IF Full(bs, key) THEN Restrict(bs, DOMAIN bs \ {Oldest(bs)}) ELSE bs

\* A bucket of another window is a new one.
Counted(bs, key, window) ==
  IF key \in DOMAIN bs /\ bs[key].window = window THEN bs[key].count ELSE 0
Touched(bs, key, window, count) ==
  [k \in DOMAIN bs \cup {key} |->
     IF k = key THEN [window |-> window, count |-> count, age |-> 0] ELSE [bs[k] EXCEPT !.age = @ + 1]]

AllowsOneMore(count, capacity) == count <= capacity
Allows(count, capacity) == count < capacity

CheckInMemory(r) ==
  /\ req[r].pc = "clocked"
  /\ LET t == req[r].clock
         window == WindowOf(t)
         check == Head(req[r].todo)
         swept == Swept(t)
         count == Counted(swept, check.key, window)
         allowed == Allows(count, check.capacity)
     IN  /\ lastCleanup' = IF t - lastCleanup < CleanupInterval THEN lastCleanup ELSE t
         /\ buckets' = Touched(WithRoom(swept, check.key), check.key, window,
                               IF allowed THEN count + 1 ELSE count)
         /\ evicted' = (evicted \/ Full(swept, check.key))
         /\ latest' = IF window > latest THEN window ELSE latest
         /\ late' = (late \/ window < latest)
         /\ IF allowed THEN Charge(r, window, TRUE) ELSE UNCHANGED charged
         /\ Checked(r, allowed, window)
  /\ UNCHANGED <<config, status, now, built, counters, sessions, audit, faults>>

\* An unexpected exception in the in-memory limiter lets the request pass.
LimiterBreaks(r) ==
  /\ req[r].pc = "limiting" /\ ~Has("redis")
  /\ faults < config.faults
  /\ faults' = faults + 1
  /\ req' = [req EXCEPT ![r].pc = "authorizing", ![r].failed = TRUE, ![r].todo = <<>>]
  /\ UNCHANGED <<config, status, now, built, buckets, lastCleanup, counters, sessions, audit, charged,
                 latest, late, evicted>>

\* The count of one more INCR, and the counters after it.
Count(key, window) == (IF <<key, window>> \in DOMAIN counters THEN counters[<<key, window>>] ELSE 0) + 1
Incremented(key, window) == [k \in DOMAIN counters \cup {<<key, window>>} |->
                               IF k = <<key, window>> THEN Count(key, window) ELSE counters[k]]

\* The script of RedisRateLimiter.check.
CheckInRedis(r) ==
  /\ req[r].pc = "limiting" /\ Has("redis")
  /\ LET check == Head(req[r].todo)
         allowed == Allows(Count(check.key, WindowOf(now)) - 1, check.capacity)
     IN  /\ counters' = Incremented(check.key, WindowOf(now))
         /\ Charge(r, WindowOf(now), allowed)
         /\ Checked(r, allowed, WindowOf(now))
  /\ UNCHANGED <<config, status, now, built, buckets, lastCleanup, sessions, audit, latest, late, evicted,
                 faults>>

FailsOpen(r) == [req EXCEPT ![r].pc = "authorizing", ![r].failed = TRUE, ![r].todo = <<>>]
FailsClosed(r) == [req EXCEPT ![r].pc = "answered", ![r].failed = TRUE, ![r].answer = "503"]

AfterErrorAllowing(r) ==
  IF req[r].tries < RetryLimit THEN [req EXCEPT ![r].tries = @ + 1] ELSE FailsOpen(r)

\* A command or its reply is lost: the client tries again, then RedisUnavailableError.
AfterError(r) ==
  IF req[r].tries < RetryLimit THEN [req EXCEPT ![r].tries = @ + 1] ELSE FailsClosed(r)

\* Does the request have a command for Redis to send?
Asking(r) == \/ req[r].pc = "limiting"
             \/ req[r].pc \in {"arriving", "authorizing"} /\ req[r].call.user # "none" /\ Has("oidc")

CommandLost(r) ==
  /\ Has("redis") /\ Asking(r)
  /\ faults < config.faults
  /\ faults' = faults + 1
  /\ req' = AfterError(r)
  /\ UNCHANGED <<config, status, now, built, buckets, lastCleanup, counters, sessions, audit, charged,
                 latest, late, evicted>>

\* The script has run, nobody learns its verdict.
ReplyLost(r) ==
  /\ req[r].pc = "limiting" /\ Has("redis")
  /\ faults < config.faults
  /\ faults' = faults + 1
  /\ counters' = Incremented(Head(req[r].todo).key, WindowOf(now))
  /\ Charge(r, WindowOf(now), FALSE)
  /\ req' = AfterError(r)
  /\ UNCHANGED <<config, status, now, built, buckets, lastCleanup, sessions, audit, latest, late, evicted>>

-----------------------------------------------------------------------------
(***************************************************************************)
(* require_permission; for REVIEW get_authorization_context, whose route   *)
(* asks for the permissions of the items (ReviewFlow).                     *)
(***************************************************************************)
RolePermissions ==
  [Operator |-> {"IMAGE_ANALYZE", "IMAGE_REDACT", "IMAGE_VERIFY"},
   Reviewer |-> {"IMAGE_ANALYZE", "IMAGE_REDACT", "IMAGE_VERIFY", "REVIEW"},
   SecurityAdministrator |-> {"CONFIGURATION"},
   Auditor |-> {"AUDIT_QUERY"},
   Administrator |-> {"ADMINISTRATION"}]

\* get_role_mapping: no file, no roles.
PermissionsOf(user) ==
  IF Has("authz") THEN UNION {RolePermissions[role] : role \in Roles[user]} ELSE {}

Permitted(user, class) == class = "REVIEW" \/ class \in PermissionsOf(user)

\* The mapping file is read by the first request that needs it; nothing has
\* looked into it before.
MappingLoads == Has("authz") => "mapping" \in config.sound

Authorize(r) ==
  /\ req[r].pc = "authorizing"
  /\ LET user == Identified(req[r].call)
         Ends(answer, event) ==
           /\ req' = [req EXCEPT ![r].pc = IF answer = "inside" THEN "inside" ELSE "answered",
                                 ![r].answer = answer]
           /\ audit' = IF event = "none" THEN audit
                       ELSE audit \cup {[type |-> event, user |-> user, class |-> req[r].call.class, req |-> r]}
     IN  \/ ~Has("oidc") /\ Ends("inside", "none")
         \/ /\ Has("oidc") /\ user = "none"
            /\ Ends("401", IF req[r].call.user = "none" THEN "none" ELSE "SESSION_EXPIRED")
         \/ Has("oidc") /\ user # "none" /\ ~MappingLoads /\ Ends("500", "none")
         \/ /\ Has("oidc") /\ user # "none" /\ MappingLoads
            /\ IF Permitted(user, req[r].call.class)
               THEN Ends("inside", IF req[r].call.class = "REVIEW" THEN "none" ELSE "ALLOWED")
               ELSE Ends("403", "DENIED")
  /\ UNCHANGED <<config, status, now, built, buckets, lastCleanup, counters, sessions, charged,
                 latest, late, evicted, faults>>

Next == \/ CreateApp \/ Tick
        \/ \E user \in sessions : SessionEnds(user)
        \/ \E r \in Requests :
             \/ \E call \in config.calls : Arrive(r, call)
             \/ Identify(r) \/ Build(r) \/ CheckInOwn(r) \/ ReadClock(r) \/ CheckInMemory(r) \/ LimiterBreaks(r)
             \/ CheckInRedis(r) \/ CommandLost(r) \/ ReplyLost(r)
             \/ Authorize(r)

Spec == Init /\ [][Next]_vars

-----------------------------------------------------------------------------
\* The types of the variables; the limiter tracks no more keys than it may.
TypeOK ==
  /\ config \in Configs /\ status \in {"starting", "running", "refused"}
  /\ now \in 0..MaxTime /\ lastCleanup \in 0..now
  /\ Cardinality(DOMAIN buckets) <= MaxKeys
  /\ \A k \in DOMAIN buckets : buckets[k] \in [window : Nat, count : Nat \ {0}, age : Nat]
  /\ \A k \in DOMAIN counters : counters[k] \in Nat \ {0}
  /\ sessions \subseteq DOMAIN Roles
  /\ \A r \in Requests :
       /\ req[r].pc \in {"idle", "arriving", "building", "limiting", "clocked", "authorizing", "inside", "answered"}
       /\ req[r].pc \in {"building", "limiting", "clocked"} => req[r].todo # <<>>
       /\ req[r].tries \in 0..RetryLimit /\ req[r].clock \in 0..now
       /\ req[r].pc # "idle" => status = "running"

Inside == {r \in Requests : req[r].pc = "inside"}
ChargesOf(r) == {x \in charged : x.req = r /\ x.allowed}

\* Under an enterprise profile nobody gets to an endpoint who was not signed in,
\* permitted and audited, and counted by every counter that applies, whatever
\* session ended and whatever store failed on the way; only the in-memory limiter
\* lets pass what it failed to count (deployment_profile.py:81, ratelimit/dependencies.py:156).
EnterpriseMeansEnforced ==
  Enterprise(config) => \A r \in Inside :
    LET user == req[r].call.user
    IN  /\ user \in DOMAIN Roles /\ Permitted(user, req[r].call.class)
        /\ req[r].call.class # "REVIEW" =>
             \E e \in audit : e.req = r /\ e.type = "ALLOWED" /\ e.user = user
        /\ \/ {x.key : x \in ChargesOf(r)} =
                ToSet([i \in DOMAIN Checks(req[r].call.class, req[r].asked, ClientIp(req[r].call)) |->
                         Checks(req[r].call.class, req[r].asked, ClientIp(req[r].call))[i].key])
           \/ req[r].failed /\ config.profile = "single-instance-enterprise"

Windows == 0..(MaxTime \div Window)
CountedIn(key, window) == {x \in charged : x.key = key /\ x.window = window /\ x.allowed}
Keys == {x.key : x \in charged}
CapacityOf(key) == IF key[1] = "client" THEN Capacity * config.multiplier ELSE Capacity

\* No key gets more than its capacity out of one window, across counters read and
\* incremented by several threads, cleanup and retries, unless, in memory, a bucket
\* was evicted, a caller came to the lock with the clock of a window already over, or
\* one of the first requests had a limiter of its own.
WithinCapacity ==
  \/ ~Has("redis") /\ (evicted \/ late \/ \E r \in Requests : req[r].own)
  \/ \A k \in Keys, w \in Windows : Cardinality(CountedIn(k, w)) <= CapacityOf(k)

\* The caller, as the limiter saw it, of another's charge.
Alike(x, r) == req[x.req].call.class = req[r].call.class /\ x.window = req[r].window
SameUser(x, r) == Alike(x, r) /\ req[x.req].asked = req[r].asked
SameClient(x, r) ==
  Alike(x, r) /\ ClientIp(req[x.req].call) = ClientIp(req[r].call)

\* A signed-in caller is refused 429 only after as many requests of its own for such
\* an endpoint in that window, or, by the ceiling per client, after so many from its
\* address: no other user, endpoint or anonymous flood uses up its budget.
BudgetIsOnesOwn ==
  \A r \in Requests : req[r].answer = "429" /\ req[r].asked # "none" =>
    \/ Cardinality({x \in charged : SameUser(x, r) /\ x.key[1] = "identity"}) >= Capacity
    \/ /\ req[r].call.class \in Layered
       /\ Cardinality({x \in charged : SameClient(x, r) /\ x.key[1] = "client"})
            >= Capacity * config.multiplier

\* A key is never allowed more than its capacity in one window: the concurrent race
\* "must accept AT MOST 5 -- atomicity under real concurrent access"
\* (tests/test_ratelimit_limiter.py:71), of one limiter with room for every key.
WindowNeverExceeded ==
  \/ evicted \/ \E r \in Requests : req[r].own
  \/ \A k \in Keys, w \in Windows : Cardinality(CountedIn(k, w)) <= CapacityOf(k)

\* A malformed role mapping is "ALWAYS a hard startup failure"
\* (authorization/role_config.py:30).
MalformedMappingStopsTheStart == status = "running" => MappingLoads
=============================================================================
