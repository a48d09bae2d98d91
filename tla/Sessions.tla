------------------------------ MODULE Sessions ------------------------------
(***************************************************************************)
(* Sign-in sessions: the two stores of api/auth/session.py under the       *)
(* routes that use them, login (the end of /auth/callback), the lookup     *)
(* every protected route makes, and /auth/logout.                          *)
(*                                                                         *)
(* The in-memory store works under a lock, so each of its operations is    *)
(* one step.  RedisSessionStore.get is a GET, a look at the clock and a SET *)
(* of the record it read, or a DEL if it has expired; logout is a get and a *)
(* delete.  Other calls, on any instance, run between these commands, and  *)
(* each command or its reply may be lost and retried by the client.        *)
(*                                                                         *)
(* A record's identity never changes and is left out.  Time is in ticks,   *)
(* TicksPerSecond of them to the second, because keys live for whole       *)
(* seconds.                                                                *)
(***************************************************************************)
EXTENDS Integers, SequencesExt

CONSTANTS Ids,             \* session ids that may be generated
          Calls,           \* concurrent calls of the routes
          Deployments,     \* [shared, ids]: REDIS_ENABLED, and a bound: the
                           \* ids generated, as Redis keys never meet
          TicksPerSecond,
          IdleSeconds,     \* session_idle_timeout_seconds
          AbsoluteSeconds, \* session_absolute_timeout_seconds
          MaxSessions,     \* max_sessions of the in-memory store
          RetryLimit,      \* REDIS_RETRY_LIMIT
          MaxTime          \* bound: the last tick

ASSUME IdsExist == Ids # {}
ASSUME DeploymentsKnown == Deployments \subseteq [shared : BOOLEAN, ids : SUBSET Ids]
ASSUME TimeoutsPositive == /\ TicksPerSecond \in Nat \ {0}
                           /\ IdleSeconds \in Nat \ {0}
                           /\ AbsoluteSeconds \in Nat \ {0}
ASSUME LimitsNat == MaxSessions \in Nat \ {0} /\ RetryLimit \in Nat

VARIABLES deployment, \* the deployment run, fixed
          now,        \* time.time(), one clock for all
          record,     \* per id: the record last written for it
          order,      \* the in-memory store's ids, least recently used first
          call,       \* per call: where it is, and its last answer
          minted,     \* the ids generated
          known,      \* history, per id: when its session was created, 0 until
                      \* a browser was given it
          loggedOut,  \* history: ids whose logout was answered 200
          removed,    \* history: ids deleted or evicted
          quiet,      \* history: ids deleted while no lookup held a copy
          seen        \* history, per id: when a lookup last accepted it

vars == <<deployment, now, record, order, call, minted, known, loggedOut, removed,
          quiet, seen>>

Idle == IdleSeconds * TicksPerSecond
Absolute == AbsoluteSeconds * TicksPerSecond

Absent == [lastSeen |-> 0, absEnd |-> 0, keyEnd |-> 0]
NoCall == [pc |-> "idle", kind |-> "lookup", id |-> CHOOSE i \in Ids : TRUE,
           copy |-> Absent, at |-> 0, ttl |-> 0, tries |-> 0]

Shared == deployment.shared

\* A Redis key is gone once its time is past.
Present(i) == IF Shared THEN record[i].keyEnd >= now ELSE i \in ToSet(order)

ExpiredWhenIdle(r) == now - r.lastSeen > Idle

\* SessionRecord.is_expired
Expired(r) == now > r.absEnd \/ now - r.lastSeen > Idle

Init == /\ deployment \in Deployments
        /\ now = 1
        /\ record = [i \in Ids |-> Absent]
        /\ order = <<>>
        /\ call = [c \in Calls |-> NoCall]
        /\ minted = {} /\ loggedOut = {} /\ removed = {} /\ quiet = {}
        /\ known = [i \in Ids |-> 0]
        /\ seen = [i \in Ids |-> 0]

Tick == /\ now < MaxTime
        /\ now' = now + 1
        /\ UNCHANGED <<deployment, record, order, call, minted, known, loggedOut, removed,
                       quiet, seen>>

\* A call moves on; the commands before it have been answered.
Goto(c, pc) == call' = [call EXCEPT ![c] = [NoCall EXCEPT !.pc = pc, !.kind = call[c].kind,
                                                        !.id = call[c].id]]

\* A call is over, and what it held is gone.  pc "refused" remembers a 401,
\* "idle" any other answer.
Return(c, pc) == call' = [call EXCEPT ![c] = [NoCall EXCEPT !.pc = pc]]
Free(c) == call[c].pc \in {"idle", "refused"}

\* The record of i when it was seen at time t and its key set now.
Written(r, t, seconds) ==
  [r EXCEPT !.lastSeen = t, !.keyEnd = now + seconds * TicksPerSecond]

-----------------------------------------------------------------------------
(***************************************************************************)
(* Login: create() reads the clock, then stores the record.                *)
(***************************************************************************)
Mint(c, i) ==
  /\ Free(c)
  /\ i \in deployment.ids \ minted
  /\ minted' = minted \cup {i}
  /\ call' = [call EXCEPT ![c] = [NoCall EXCEPT !.pc = "storing", !.kind = "login",
                                                !.id = i, !.at = now]]
  /\ UNCHANGED <<deployment, now, record, order, known, loggedOut, removed, quiet, seen>>

Created(c) == [lastSeen |-> call[c].at, absEnd |-> call[c].at + Absolute,
               keyEnd |-> now + Absolute]

SignedIn(c) == /\ known' = [known EXCEPT ![call[c].id] = call[c].at]
               /\ seen' = [seen EXCEPT ![call[c].id] = call[c].at]
               /\ Return(c, "idle")

ExcessOffByOne == IF Len(order) > MaxSessions THEN Len(order) - MaxSessions ELSE 0

\* _evict_if_full: how many leave from the front to make room for one.
Excess == IF Len(order) >= MaxSessions THEN Len(order) - MaxSessions + 1 ELSE 0

StoreInMemory(c) ==
  /\ call[c].pc = "storing"
  /\ ~Shared
  /\ order' = Append(SubSeq(order, Excess + 1, Len(order)), call[c].id)
  /\ removed' = removed \cup {order[k] : k \in 1 .. Excess}
  /\ record' = [record EXCEPT ![call[c].id] = Created(c)]
  /\ SignedIn(c)
  /\ UNCHANGED <<deployment, now, minted, loggedOut, quiet>>

StoreInRedis(c) ==
  /\ call[c].pc = "storing"
  /\ Shared
  /\ record' = [record EXCEPT ![call[c].id] = Created(c)]
  /\ SignedIn(c)
  /\ UNCHANGED <<deployment, now, order, minted, loggedOut, removed, quiet>>

-----------------------------------------------------------------------------
(***************************************************************************)
(* get(), by a protected route (kind "lookup") or by /auth/logout, which   *)
(* goes on to delete whatever get() said.                                  *)
(***************************************************************************)
AfterGet(c, pc) ==
  IF call[c].kind = "logout" THEN Goto(c, "deleting") ELSE Return(c, pc)

\* A browser sends the id it was given, whatever became of the session.
Request(c, i, kind) ==
  /\ Free(c)
  /\ known[i] # 0
  /\ kind \in {"lookup", "logout"}
  /\ call' = [call EXCEPT ![c] = [NoCall EXCEPT !.pc = "getting", !.kind = kind,
                                                !.id = i]]
  /\ UNCHANGED <<deployment, now, record, order, minted, known, loggedOut, removed,
                 quiet, seen>>

\* OrderedDict.pop: an id is listed once at most.
Without(i) == IF i \in ToSet(order)
              THEN RemoveAt(order, CHOOSE k \in DOMAIN order : order[k] = i) ELSE order

GetAccepts(c) ==
  LET i == call[c].id IN
  /\ call[c].pc = "getting"
  /\ ~Shared
  /\ Present(i) /\ ~Expired(record[i])
  /\ record' = [record EXCEPT ![i].lastSeen = now]
  /\ order' = Append(Without(i), i)
  /\ seen' = [seen EXCEPT ![i] = now]
  /\ AfterGet(c, "idle")
  /\ UNCHANGED <<deployment, now, minted, known, loggedOut, removed, quiet>>

\* Not there, or expired and dropped.
GetRefuses(c) ==
  LET i == call[c].id IN
  /\ call[c].pc = "getting"
  /\ ~Shared
  /\ Present(i) => Expired(record[i])
  /\ order' = Without(i)
  /\ AfterGet(c, "refused")
  /\ UNCHANGED <<deployment, now, record, minted, known, loggedOut, removed, quiet, seen>>

RedisGet(c) ==
  LET i == call[c].id IN
  /\ call[c].pc = "getting"
  /\ Shared
  /\ IF Present(i)
     THEN call' = [call EXCEPT ![c] = [@ EXCEPT !.pc = "read", !.copy = record[i],
                                                !.tries = 0]]
     ELSE AfterGet(c, "refused")
  /\ UNCHANGED <<deployment, now, record, order, minted, known, loggedOut, removed,
                 quiet, seen>>

\* The record read is judged by the clock; new_ttl is int() of what remains.
Examine(c) ==
  LET i == call[c].id
      r == call[c].copy
      left == IF r.absEnd - now < Idle THEN r.absEnd - now ELSE Idle
      ttl == left \div TicksPerSecond
  IN
  /\ call[c].pc = "read"
  /\ IF Expired(r)
     THEN Goto(c, "purging") /\ UNCHANGED seen
     ELSE /\ seen' = [seen EXCEPT ![i] = now]
          /\ IF ttl > 0
             THEN call' = [call EXCEPT ![c] = [@ EXCEPT !.pc = "touching", !.at = now,
                                                        !.ttl = ttl]]
             ELSE AfterGet(c, "idle")
  /\ UNCHANGED <<deployment, now, record, order, minted, known, loggedOut, removed, quiet>>

\* SET ... EX new_ttl: the record that was read is written back.
WriteBack(c) == record' = [record EXCEPT ![call[c].id] =
                             Written(call[c].copy, call[c].at, call[c].ttl)]

Touch(c) == /\ call[c].pc = "touching"
            /\ WriteBack(c)
            /\ AfterGet(c, "idle")
            /\ UNCHANGED <<deployment, now, order, minted, known, loggedOut, removed,
                           quiet, seen>>

\* A lookup that may still write back what it read of i.
HoldsCopy(i) == \E c \in Calls : call[c].id = i /\ call[c].pc \in {"read", "touching"}

\* DEL of the call's session, in either store.
Drop(c) == LET i == call[c].id IN
  /\ record' = [record EXCEPT ![i].keyEnd = 0]
  /\ order' = Without(i)
  /\ removed' = IF Present(i) THEN removed \cup {i} ELSE removed
  /\ quiet' = IF HoldsCopy(i) THEN quiet ELSE quiet \cup {i}

Purge(c) == /\ call[c].pc = "purging"
            /\ Drop(c)
            /\ AfterGet(c, "refused")
            /\ UNCHANGED <<deployment, now, minted, known, loggedOut, seen>>

\* The end of /auth/logout, with either store.
Delete(c) == /\ call[c].pc = "deleting"
             /\ Drop(c)
             /\ loggedOut' = loggedOut \cup {call[c].id}
             /\ Return(c, "idle")
             /\ UNCHANGED <<deployment, now, minted, known, seen>>

-----------------------------------------------------------------------------
(***************************************************************************)
(* Lost commands and replies.  RedisUnavailableError ends a call with 503, *)
(* except that logout goes on to delete when only its get() failed.        *)
(***************************************************************************)
Commands == {"storing", "getting", "touching", "purging", "deleting"}

FailedAsAbsent(c) ==
  IF call[c].tries < RetryLimit
  THEN call' = [call EXCEPT ![c].tries = @ + 1]
  ELSE IF call[c].kind = "logout" /\ call[c].pc # "deleting"
       THEN Goto(c, "deleting") ELSE Return(c, "refused")

Failed(c) ==
  IF call[c].tries < RetryLimit
  THEN call' = [call EXCEPT ![c].tries = @ + 1]
  ELSE IF call[c].kind = "logout" /\ call[c].pc # "deleting"
       THEN Goto(c, "deleting") ELSE Return(c, "idle")

CommandLostClaimsLogout(c) ==
  /\ call[c].pc \in Commands
  /\ Shared
  /\ Failed(c)
  /\ loggedOut' = IF call[c].pc = "deleting" /\ call'[c].pc = "idle"
                  THEN loggedOut \cup {call[c].id} ELSE loggedOut
  /\ quiet' = IF call[c].pc = "deleting" THEN quiet \cup {call[c].id} ELSE quiet
  /\ UNCHANGED <<deployment, now, record, order, minted, known, removed, seen>>

CommandLost(c) ==
  /\ call[c].pc \in Commands
  /\ Shared
  /\ Failed(c)
  /\ UNCHANGED <<deployment, now, record, order, minted, known, loggedOut, removed,
                 quiet, seen>>

\* Redis executed the command, and its reply never came back.
ReplyLost(c) ==
  /\ Shared
  /\ \/ /\ call[c].pc = "storing"
        /\ record' = [record EXCEPT ![call[c].id] = Created(c)]
        /\ UNCHANGED <<order, removed, quiet>>
     \/ /\ call[c].pc = "touching"
        /\ WriteBack(c)
        /\ UNCHANGED <<order, removed, quiet>>
     \/ /\ call[c].pc \in {"purging", "deleting"}
        /\ Drop(c)
  /\ Failed(c)
  /\ UNCHANGED <<deployment, now, minted, known, loggedOut, seen>>

Next == \/ Tick
        \/ \E c \in Calls, i \in Ids :
             \/ Mint(c, i)
             \/ \E kind \in {"lookup", "logout"} : Request(c, i, kind)
        \/ \E c \in Calls :
             \/ StoreInMemory(c) \/ StoreInRedis(c)
             \/ GetAccepts(c) \/ GetRefuses(c)
             \/ RedisGet(c) \/ Examine(c) \/ Touch(c) \/ Purge(c)
             \/ Delete(c) \/ CommandLost(c) \/ ReplyLost(c)

Spec == Init /\ [][Next]_vars

-----------------------------------------------------------------------------
Records == [lastSeen : Nat, absEnd : Nat, keyEnd : Nat]

\* Calls hold well-formed records, and the in-memory store keeps within its
\* bound and never lists an id twice.
TypeOK ==
  /\ deployment \in Deployments
  /\ now \in Nat
  /\ record \in [Ids -> Records]
  /\ order \in Seq(Ids) /\ Len(order) <= MaxSessions /\ IsInjective(order)
  /\ call \in [Calls -> [pc : {"idle", "refused", "read"} \cup Commands,
                        kind : {"login", "lookup", "logout"}, id : Ids,
                        copy : Records, at : Nat, ttl : Nat, tries : 0 .. RetryLimit]]
  /\ minted \subseteq Ids /\ loggedOut \subseteq Ids
  /\ removed \subseteq Ids /\ quiet \subseteq Ids
  /\ known \in [Ids -> Nat] /\ seen \in [Ids -> Nat]

(***************************************************************************)
(* A logout that was answered 200 is final: the session is gone from every *)
(* instance and never comes back, whatever was lost or retried, unless a   *)
(* lookup of it was under way when it was deleted.                         *)
(***************************************************************************)
LogoutSticks == \A i \in loggedOut \cap quiet : ~Present(i)

(***************************************************************************)
(* A session never outlives its limits: it is only accepted within the     *)
(* absolute timeout of its creation, and within the idle timeout of the    *)
(* last time it was accepted, even if lookups write back stale copies.     *)
(***************************************************************************)
AcceptedWithinLimits ==
  [][\A i \in Ids : seen[i] # 0 /\ seen'[i] # seen[i] =>
        /\ now <= known[i] + Absolute
        /\ now - seen[i] <= Idle]_seen

(***************************************************************************)
(* A caller is told to sign in again only if the session was deleted or    *)
(* evicted, or is past its limits (with Redis, up to a second early): never *)
(* because Redis could not be asked.                                       *)
(***************************************************************************)
RefusedForAReason ==
  [][\A c \in Calls :
        ~Free(c) /\ call'[c].pc = "refused" =>
          LET i == call[c].id
          IN  \/ i \in removed'
              \/ now - record[i].lastSeen > Idle
              \/ now > record[i].absEnd - (IF Shared THEN TicksPerSecond ELSE 0)]_call

-----------------------------------------------------------------------------
(***************************************************************************)
(* session.py: logout "removes shared state outright, so every OTHER       *)
(* instance's very next lookup of this session_id observes it as gone".    *)
(* Not so when a lookup read the session before and writes it back after.  *)
(***************************************************************************)
LogoutIsSeenEverywhere == \A i \in loggedOut : ~Present(i)
=============================================================================
