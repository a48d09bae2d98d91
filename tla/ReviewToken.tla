---------------------------- MODULE ReviewToken ----------------------------
(***************************************************************************)
(* The one-time review token: ReviewTokenIssuer and its two replay stores  *)
(* (api/review_token.py), over the Redis client settings of                *)
(* api/redisstate.                                                         *)
(*                                                                         *)
(* /analyze issues a token, /review redeems it.  verify_and_consume reads  *)
(* the clock three times and claims the token only after the checks, so    *)
(* anything may happen between its steps: other submissions of the token,  *)
(* a stall past its expiry, a restart.  Time is in ticks, TicksPerSecond   *)
(* of them to the second, because markers live for whole seconds.          *)
(***************************************************************************)
EXTENDS Integers, FiniteSets

CONSTANTS Nodes,           \* API instances
          Identities,      \* issuer|subject of authenticated callers
          Nobody,          \* None: no authenticated caller
          Tokens,          \* tokens that may be issued
          Submissions,     \* calls of verify_and_consume
          Deployments,     \* [shared, explicit, nodes]: REDIS_ENABLED, a
                           \* configured token secret, the instances run
          TicksPerSecond,
          TtlSeconds,      \* review_token_ttl_seconds
          RetryLimit,      \* REDIS_RETRY_LIMIT
          MaxTime,         \* bound: the last tick
          MaxRestarts      \* bound: no restart once one has had so many

ASSUME TimeAssumption == /\ TicksPerSecond \in Nat \ {0}
                         /\ TtlSeconds \in Nat \ {0}
                         /\ RetryLimit \in Nat

ASSUME SizeAssumption == Nodes # {} /\ Tokens # {}

\* create_app refuses Redis without a configured secret; without Redis the
\* deployment is a single instance.
ASSUME DeploymentAssumption ==
  \A d \in Deployments :
    /\ d.shared \in BOOLEAN /\ d.explicit \in BOOLEAN /\ d.nodes \subseteq Nodes
    /\ d.shared => d.explicit
    /\ ~d.shared => \A m, n \in d.nodes : m = n

VARIABLES deployment,      \* the deployment run, fixed
          now,             \* time.time(), one clock for all
          boot,            \* per instance: how often it was restarted
          issued,          \* the tokens handed out
          token,           \* per token: its signed fields and its signer
          marker,          \* per token: when its replay marker ends, 0 if none
          sub              \* per submission: where verify_and_consume is

vars == <<deployment, now, boot, issued, token, marker, sub>>

Answers == {"accepted", "expired", "invalid", "conflict", "unavailable", "dropped"}
States == {"idle", "checked", "timed"} \cup Answers
Callers == Identities \cup {Nobody}

-----------------------------------------------------------------------------
Shared == deployment.shared

\* Keyed by a configured secret, or by one this very process generated.
SignatureValid(n, t) ==
  deployment.explicit \/ (token[t].node = n /\ token[t].boot = boot[n])

\* max(1, int(remaining) + 1): int() truncates towards zero.
TtlUnclamped(remaining) == remaining \div TicksPerSecond + 1

Ttl(remaining) ==
  IF remaining < 0 THEN 1 ELSE remaining \div TicksPerSecond + 1

SomeNode == CHOOSE n \in Nodes : TRUE
NoCall == [pc |-> "idle", tok |-> CHOOSE t \in Tokens : TRUE, who |-> Nobody,
           node |-> SomeNode, at |-> 0, ttl |-> 1, tries |-> 0,
           claimed |-> FALSE, inTime |-> FALSE]

\* The call returns, and its locals are gone.  What stays is history: whose
\* call for which token it was, whether it set the marker (claimed) and
\* whether the token was alive when it won (inTime).
Returned(r, answer) ==
  [NoCall EXCEPT !.pc = answer, !.tok = r.tok, !.who = r.who, !.claimed = r.claimed]

Init ==
  /\ deployment \in Deployments
  /\ now = 1
  /\ boot = [n \in Nodes |-> 0]
  /\ issued = {}
  /\ token = [t \in Tokens |-> [exp |-> 0, owner |-> Nobody,
                                node |-> SomeNode, boot |-> 0]]
  /\ marker = [t \in Tokens |-> 0]
  /\ sub = [s \in Submissions |-> NoCall]

Tick == /\ now < MaxTime
        /\ now' = now + 1
        /\ UNCHANGED <<deployment, boot, issued, token, marker, sub>>

\* issue()
Issue(n, t, i) ==
  /\ n \in deployment.nodes
  /\ t \notin issued
  /\ issued' = issued \cup {t}
  /\ token' = [token EXCEPT ![t] = [exp |-> now + TtlSeconds * TicksPerSecond,
                                    owner |-> i, node |-> n, boot |-> boot[n]]]
  /\ UNCHANGED <<deployment, now, boot, marker, sub>>

\* The checks before the claim, in their order.
Verdict(n, t, i) ==
  CASE ~SignatureValid(n, t) -> "invalid"
    [] SignatureValid(n, t) /\ now > token[t].exp -> "expired"
    [] /\ SignatureValid(n, t) /\ now <= token[t].exp
       /\ token[t].owner # Nobody /\ token[t].owner # i -> "invalid"
    [] OTHER -> "checked"

\* verify_and_consume, down to the identity check.
Submit(s, n, t, i) ==
  /\ sub[s].pc = "idle"
  /\ n \in deployment.nodes
  /\ t \in issued
  /\ LET call == [NoCall EXCEPT !.pc = "checked", !.tok = t, !.node = n, !.who = i]
         verdict == Verdict(n, t, i)
     IN  sub' = [sub EXCEPT ![s] = IF verdict = "checked" THEN call
                                   ELSE Returned(call, verdict)]
  /\ UNCHANGED <<deployment, now, boot, issued, token, marker>>

\* ttl_seconds, from a second look at the clock.
ComputeTtl(s) ==
  /\ sub[s].pc = "checked"
  /\ sub' = [sub EXCEPT ![s] = [@ EXCEPT !.pc = "timed", !.at = now,
                                         !.ttl = Ttl(token[sub[s].tok].exp - now)]]
  /\ UNCHANGED <<deployment, now, boot, issued, token, marker>>

-----------------------------------------------------------------------------
\* A marker is gone once its time is past.
Marked(t, time) == marker[t] # 0 /\ marker[t] >= time
EndOf(s, time) == time + sub[s].ttl * TicksPerSecond

Refused(s) == sub' = [sub EXCEPT ![s] = Returned(@, "conflict")]
Won(s) == sub' = [sub EXCEPT ![s] =
                    [Returned(@, "accepted") EXCEPT
                       !.claimed = TRUE, !.inTime = now <= token[sub[s].tok].exp]]

\* InMemoryReplayStore.try_consume: the clock is read before the lock is
\* taken, so the sweep and the marker may use an older time.
MemoryClaim(s) ==
  /\ sub[s].pc = "timed"
  /\ ~Shared
  /\ \E read \in sub[s].at .. now :
       LET t == sub[s].tok
           swept == [u \in Tokens |-> IF Marked(u, read) THEN marker[u] ELSE 0]
       IN  IF Marked(t, read)
           THEN marker' = swept /\ Refused(s)
           ELSE marker' = [swept EXCEPT ![t] = EndOf(s, read)] /\ Won(s)
  /\ UNCHANGED <<deployment, now, boot, issued, token>>

\* RedisReplayStore.try_consume, one SET NX EX and its reply.
RedisClaim(s) ==
  /\ sub[s].pc = "timed"
  /\ Shared
  /\ LET t == sub[s].tok
     IN  IF Marked(t, now)
         THEN Refused(s) /\ UNCHANGED marker
         ELSE marker' = [marker EXCEPT ![t] = EndOf(s, now)] /\ Won(s)
  /\ UNCHANGED <<deployment, now, boot, issued, token>>

\* What the client does about an error: retry, or RedisUnavailableError.
AfterError(r, exhausted) ==
  IF r.tries < RetryLimit THEN [r EXCEPT !.tries = @ + 1]
  ELSE Returned(r, exhausted)

\* The command never reached Redis.
CommandLostSaysConflict(s) ==
  /\ sub[s].pc = "timed"
  /\ Shared
  /\ sub' = [sub EXCEPT ![s] = AfterError(@, "conflict")]
  /\ UNCHANGED <<deployment, now, boot, issued, token, marker>>

CommandLostFailsOpen(s) ==
  /\ sub[s].pc = "timed"
  /\ Shared
  /\ IF sub[s].tries < RetryLimit THEN sub' = [sub EXCEPT ![s].tries = @ + 1]
     ELSE Won(s)
  /\ UNCHANGED <<deployment, now, boot, issued, token, marker>>

CommandLost(s) ==
  /\ sub[s].pc = "timed"
  /\ Shared
  /\ sub' = [sub EXCEPT ![s] = AfterError(@, "unavailable")]
  /\ UNCHANGED <<deployment, now, boot, issued, token, marker>>

\* Redis executed it, and the reply never came back.
ReplyLost(s) ==
  /\ sub[s].pc = "timed"
  /\ Shared
  /\ LET t == sub[s].tok
         after == AfterError(sub[s], "unavailable")
     IN  IF Marked(t, now)
         THEN sub' = [sub EXCEPT ![s] = after] /\ UNCHANGED marker
         ELSE /\ sub' = [sub EXCEPT ![s] = [after EXCEPT !.claimed = TRUE]]
              /\ marker' = [marker EXCEPT ![t] = EndOf(s, now)]
  /\ UNCHANGED <<deployment, now, boot, issued, token>>

-----------------------------------------------------------------------------
\* The process restarts: what it held in memory is gone, requests included.
Restart(n) ==
  /\ n \in deployment.nodes
  /\ \A m \in Nodes : boot[m] < MaxRestarts
  /\ boot' = [boot EXCEPT ![n] = @ + 1]
  /\ marker' = IF Shared THEN marker ELSE [t \in Tokens |-> 0]
  /\ sub' = [s \in Submissions |->
               IF sub[s].node = n /\ sub[s].pc \in {"checked", "timed"}
               THEN Returned(sub[s], "dropped") ELSE sub[s]]
  /\ UNCHANGED <<deployment, now, issued, token>>

Claim(s) == MemoryClaim(s) \/ RedisClaim(s) \/ CommandLost(s) \/ ReplyLost(s)

Next == \/ Tick
        \/ \E n \in Nodes, t \in Tokens, i \in Callers :
             Issue(n, t, i) \/ \E s \in Submissions : Submit(s, n, t, i)
        \/ \E s \in Submissions : ComputeTtl(s) \/ Claim(s)
        \/ \E n \in Nodes : Restart(n)

Spec == Init /\ [][Next]_vars

-----------------------------------------------------------------------------
TokenRecord == [exp : Nat, owner : Callers, node : Nodes, boot : Nat]
SubRecord == [pc : States, tok : Tokens, node : Nodes, who : Callers, at : Nat,
              ttl : Nat \ {0}, tries : Nat, claimed : BOOLEAN,
              inTime : BOOLEAN]

\* Markers and expiries are times, and a marker's lifetime is never zero.
TypeOK == /\ deployment \in Deployments
          /\ now \in Nat
          /\ boot \in [Nodes -> Nat]
          /\ issued \subseteq Tokens
          /\ token \in [Tokens -> TokenRecord]
          /\ marker \in [Tokens -> Nat]
          /\ sub \in [Submissions -> SubRecord]

Accepted == {s \in Submissions : sub[s].pc = "accepted"}

\* A restart cannot bring a spent token back: the markers outlive it, or the
\* signing key does not.
Sheltered == Shared \/ ~deployment.explicit

(***************************************************************************)
(* verify_and_consume "refuses a second submission": two submissions of a  *)
(* token are never both accepted during its lifetime, however their checks *)
(* and claims interleave, on whichever instances, and even when an         *)
(* instance restarts in between.                                           *)
(***************************************************************************)
OneUseWhileValid ==
  Sheltered =>
    \A s1, s2 \in Accepted :
      /\ s1 # s2
      /\ sub[s1].tok = sub[s2].tok
      => ~(sub[s1].inTime /\ sub[s2].inTime)

(***************************************************************************)
(* REVIEW_CONFLICT is never answered for a token nobody has claimed: a     *)
(* store that cannot be asked is not mistaken for one that said no.        *)
(***************************************************************************)
ConflictMeansClaimed ==
  \A s \in Submissions : sub[s].pc = "conflict" =>
    \E c \in Submissions : sub[c].claimed /\ sub[c].tok = sub[s].tok

\* The tokens issued and the uses accepted while their token was alive, as the
\* review endpoint sees them.
Redeeming ==
  INSTANCE Redemption WITH
    Uses <- Submissions,
    issued <- {[token |-> t, owner |-> token[t].owner] : t \in issued},
    redeemed <- {[token |-> sub[s].tok, use |-> s, who |-> sub[s].who] :
                   s \in {a \in Accepted : sub[a].inTime}}

\* The issuer implements the redeemable token: used once, after it was issued, by its
\* owner (review_token.py:229).  It does where a restart revives no spent token.
RedeemedAsPromised == Redeeming!Spec

-----------------------------------------------------------------------------
(***************************************************************************)
(* review_token.py: "refuses a second submission", and "restarts still     *)
(* invalidate in-flight reviews either way".  Not so with a configured     *)
(* secret and the in-memory store.                                         *)
(***************************************************************************)
OneUseDespiteRestart ==
  \A s1, s2 \in Accepted :
    /\ s1 # s2
    /\ sub[s1].tok = sub[s2].tok
    => ~(sub[s1].inTime /\ sub[s2].inTime)

(***************************************************************************)
(* "This review has already been submitted."  Not so when the reply to the *)
(* claim was lost and the client's own retry found its own marker.         *)
(***************************************************************************)
ConflictMeansAnother ==
  \A s \in Submissions : sub[s].pc = "conflict" =>
    \E c \in Submissions \ {s} : sub[c].claimed /\ sub[c].tok = sub[s].tok
=============================================================================
