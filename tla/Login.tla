------------------------------- MODULE Login -------------------------------
(***************************************************************************)
(* Sign-in by OpenID Connect: /auth/login opens a transaction, names it in  *)
(* a cookie and sends the browser to the provider; /auth/callback, reached  *)
(* by the provider's redirect, consumes the cookie's transaction, exchanges *)
(* the code, checks the ID token and creates a session.                    *)
(*                                                                         *)
(* One browser may run several logins in its tabs, all sharing one cookie; *)
(* a redirect may be followed twice, or in another browser.  Transactions  *)
(* are in memory or in Redis, whose commands may be lost and are sent      *)
(* again.  A login stands for the state, nonce and verifier it drew.       *)
(*                                                                         *)
(* The provider is external, and weaker than the standard: it may honour a *)
(* code twice, and does not compare the PKCE verifier, so that what holds  *)
(* here rests on the code of this program alone.                           *)
(***************************************************************************)
EXTENDS Integers, FiniteSets

CONSTANTS Logins,       \* calls of /auth/login, by the transaction each opens
          Calls,        \* calls of /auth/callback
          Browsers, Users,
          Configs,      \* [shared, ttl]: REDIS_ENABLED, transaction_ttl_seconds
          MaxPending,   \* max_pending_transactions of the in-memory store
          KeyLife,      \* seconds a Redis key of a transaction lives: 3600
          DiscoveryLife,\* _DISCOVERY_CACHE_SECONDS
          RetryLimit,   \* REDIS_RETRY_LIMIT
          MaxTime, MaxFaults  \* bounds: the last second, lost commands and failed requests

ASSUME LimitsPositive == {MaxPending, KeyLife} \cup {c.ttl : c \in Configs} \subseteq Nat \ {0}
ASSUME NobodyNamed == "none" \notin Logins \cup Browsers \cup Users
ASSUME BoundsNat == {MaxTime, MaxFaults} \subseteq Nat

VARIABLES config,
          now,
          discovered, \* fetched_at of the cached discovery document, -1 without one
          pending,    \* the store's transactions
          login,      \* per call of /auth/login
          cookie,     \* per browser: the transaction its cookie names
          call,       \* per call of /auth/callback
          sessions,   \* the calls whose session was stored
          signedIn,   \* per browser: the call whose session its cookie names
          faults

vars == <<config, now, discovered, pending, login, cookie, call, sessions, signedIn, faults>>

\* Of a login: created_at, who the provider authenticated, the end of its Redis key.
\* Its place tells the order in which an OrderedDict keeps the transactions.  History:
\* whether the browser lost its cookie to another tab.
NoLogin == [pc |-> "none", browser |-> "none", created |-> 0, user |-> "none", keyEnd |-> 0,
            tries |-> 0, place |-> 0, displaced |-> FALSE]
\* Of a callback: the login its query comes from, the transaction its cookie names,
\* the audit event.  History: when it consumed, did a fault hit it?
NoCall == [pc |-> "idle", browser |-> "none", login |-> "none", txn |-> "none", tries |-> 0,
           event |-> "none", at |-> 0, hit |-> FALSE]

Init == /\ config \in Configs
        /\ now = 0 /\ discovered = -1 /\ pending = {} /\ faults = 0
        /\ login = [l \in Logins |-> NoLogin]
        /\ cookie = [b \in Browsers |-> "none"]
        /\ call = [c \in Calls |-> NoCall]
        /\ sessions = {}
        /\ signedIn = [b \in Browsers |-> "none"]

Tick == /\ now < MaxTime
        /\ now' = now + 1
        /\ UNCHANGED <<config, discovered, pending, login, cookie, call, sessions, signedIn, faults>>

Fault == faults < MaxFaults /\ faults' = faults + 1

-----------------------------------------------------------------------------
(***************************************************************************)
(* AuthRuntime.get_discovery                                               *)
(***************************************************************************)
Cached == discovered >= 0 /\ now - discovered < DiscoveryLife

DiscoveryFound == discovered' = (IF Cached THEN discovered ELSE now) /\ UNCHANGED faults
DiscoveryFails == ~Cached /\ Fault /\ UNCHANGED discovered

-----------------------------------------------------------------------------
(***************************************************************************)
(* /auth/login                                                             *)
(***************************************************************************)
Begin(l, b) ==
  /\ login[l].pc = "none"
  /\ \/ /\ DiscoveryFound
        /\ login' = [login EXCEPT ![l] = [NoLogin EXCEPT !.pc = "storing", !.browser = b, !.created = now]]
     \/ /\ DiscoveryFails
        /\ login' = [login EXCEPT ![l] = [NoLogin EXCEPT !.pc = "failed", !.browser = b]]
  /\ UNCHANGED <<config, now, pending, cookie, call, sessions, signedIn>>

Later(l, kept) == {k \in kept : login[k].place > login[l].place}

RoomOffByOne == {l \in pending : Cardinality(Later(l, pending)) <= MaxPending - 1}

\* InMemoryPendingTransactionStore.create makes room for one: it drops the oldest.
Room == {l \in pending : Cardinality(Later(l, pending)) < MaxPending - 1}

Placed == {l \in Logins : login[l].place > 0}
Stored(l) == [login EXCEPT ![l].keyEnd = now + KeyLife,
                           ![l].place = IF @ = 0 THEN 1 + Cardinality(Placed) ELSE @]

StoreTransaction(l) ==
  /\ login[l].pc = "storing"
  /\ pending' = (IF config.shared THEN pending ELSE Room) \cup {l}
  /\ login' = [Stored(l) EXCEPT ![l].pc = "redirecting"]
  /\ UNCHANGED <<config, now, discovered, cookie, call, sessions, signedIn, faults>>

\* The SET, or its reply, is lost; after the last try the login is answered 503.
StoreLost(l, applied) ==
  /\ config.shared
  /\ login[l].pc = "storing"
  /\ Fault
  /\ LET after == IF applied THEN Stored(l) ELSE login
     IN  login' = IF login[l].tries < RetryLimit THEN [after EXCEPT ![l].tries = @ + 1]
                  ELSE [after EXCEPT ![l].pc = "failed"]
  /\ pending' = IF applied THEN pending \cup {l} ELSE pending
  /\ UNCHANGED <<config, now, discovered, cookie, call, sessions, signedIn>>

\* The response reaches the browser.  The cookie outlives the transaction and is the
\* browser's only one.
Displaced(b) == [k \in Logins |-> IF k = cookie[b] THEN [login[k] EXCEPT !.displaced = TRUE] ELSE login[k]]

Redirected(l) ==
  /\ login[l].pc = "redirecting"
  /\ cookie' = [cookie EXCEPT ![login[l].browser] = l]
  /\ login' = [Displaced(login[l].browser) EXCEPT ![l].pc = "atProvider"]
  /\ UNCHANGED <<config, now, discovered, pending, call, sessions, signedIn, faults>>

\* The provider signs a user in, or answers with an error.
ProviderAnswers(l, user) ==
  /\ login[l].pc = "atProvider"
  /\ login' = [login EXCEPT ![l].pc = "returning", ![l].user = user]
  /\ UNCHANGED <<config, now, discovered, pending, cookie, call, sessions, signedIn, faults>>

-----------------------------------------------------------------------------
(***************************************************************************)
(* /auth/callback                                                          *)
(***************************************************************************)
\* The answer to c: a failure is audited unless a dependency was unavailable.
Fails(c) == [call EXCEPT ![c].pc = "failed", ![c].event = "failure"]
Unavailable(c) == [call EXCEPT ![c].pc = "failed", ![c].hit = TRUE]

\* A browser follows the redirect of l, for the first time or again.
Callback(c, l, b) ==
  /\ call[c].pc = "idle"
  /\ login[l].pc = "returning"
  /\ LET arrived == [call EXCEPT ![c] = [NoCall EXCEPT !.browser = b, !.login = l, !.txn = cookie[b]]]
         early == login[l].user = "none" \/ cookie[b] = "none"
     IN  call' = IF early THEN [arrived EXCEPT ![c].pc = "failed", ![c].event = "failure"]
                 ELSE [arrived EXCEPT ![c].pc = "consuming"]
  /\ UNCHANGED <<config, now, discovered, pending, login, cookie, sessions, signedIn, faults>>

\* Is the transaction there to be taken?
Available(l) == l \in pending /\ (config.shared => now < login[l].keyEnd)

\* PendingAuthTransaction.is_expired
ExpiredAtTtl(l) == now - login[l].created >= config.ttl
Expired(l) == now - login[l].created > config.ttl

StateMatches(c) == call[c].txn = call[c].login

LeftInPlace(c) == pending

\* What pop, or GETDEL, leaves: it takes the transaction whatever becomes of the callback.
Taken(c) == pending \ {call[c].txn}

Consume(c) ==
  /\ call[c].pc = "consuming"
  /\ pending' = Taken(c)
  /\ call' = IF Available(call[c].txn) /\ ~Expired(call[c].txn) /\ StateMatches(c)
             THEN [call EXCEPT ![c].pc = "exchanging", ![c].tries = 0, ![c].at = now]
             ELSE [Fails(c) EXCEPT ![c].at = now]
  /\ UNCHANGED <<config, now, discovered, login, cookie, sessions, signedIn, faults>>

\* The GETDEL is lost, or its reply is, and what it took with it.
ConsumeLost(c, applied) ==
  /\ config.shared
  /\ call[c].pc = "consuming"
  /\ Fault
  /\ pending' = IF applied THEN Taken(c) ELSE pending
  /\ call' = IF call[c].tries < RetryLimit
             THEN [call EXCEPT ![c].tries = @ + 1, ![c].hit = TRUE]
             ELSE Unavailable(c)
  /\ UNCHANGED <<config, now, discovered, login, cookie, sessions, signedIn>>

\* exchange_code_for_tokens
Exchange(c) ==
  /\ call[c].pc = "exchanging"
  /\ \/ DiscoveryFound /\ call' = [call EXCEPT ![c].pc = "validating"]
     \/ DiscoveryFails /\ call' = Unavailable(c)
     \/ Fault /\ UNCHANGED discovered /\ call' = [Fails(c) EXCEPT ![c].hit = TRUE]
  /\ UNCHANGED <<config, now, pending, login, cookie, sessions, signedIn>>

NonceMatches(c) == call[c].login = call[c].txn

\* validate_id_token: the token carries the nonce of the login its code was issued
\* for; the provider's keys may be out of reach, or the token unsound.
ValidateIdToken(c) ==
  /\ call[c].pc = "validating"
  /\ \/ /\ call' = IF NonceMatches(c) THEN [call EXCEPT ![c].pc = "creating"] ELSE Fails(c)
        /\ UNCHANGED faults
     \/ Fault /\ call' = [Fails(c) EXCEPT ![c].hit = TRUE]
  /\ UNCHANGED <<config, now, discovered, pending, login, cookie, sessions, signedIn>>

CreateSession(c) ==
  /\ call[c].pc = "creating"
  /\ sessions' = sessions \cup {c}
  /\ call' = [call EXCEPT ![c].pc = "responding", ![c].event = "success"]
  /\ UNCHANGED <<config, now, discovered, pending, login, cookie, signedIn, faults>>

\* The SET, or its reply, is lost.
CreateLost(c, applied) ==
  /\ config.shared
  /\ call[c].pc = "creating"
  /\ Fault
  /\ sessions' = IF applied THEN sessions \cup {c} ELSE sessions
  /\ call' = IF call[c].tries < RetryLimit THEN [call EXCEPT ![c].tries = @ + 1] ELSE Unavailable(c)
  /\ UNCHANGED <<config, now, discovered, pending, login, cookie, signedIn>>

\* The response sets the one cookie and clears the other, whichever tab's that is.
SignedIn(c) ==
  /\ call[c].pc = "responding"
  /\ signedIn' = [signedIn EXCEPT ![call[c].browser] = c]
  /\ cookie' = [cookie EXCEPT ![call[c].browser] = "none"]
  /\ login' = Displaced(call[c].browser)
  /\ call' = [call EXCEPT ![c].pc = "done"]
  /\ UNCHANGED <<config, now, discovered, pending, sessions, faults>>

Next == \/ Tick
        \/ \E l \in Logins :
             \/ \E b \in Browsers : Begin(l, b)
             \/ StoreTransaction(l)
             \/ \E applied \in BOOLEAN : StoreLost(l, applied)
             \/ Redirected(l)
             \/ \E user \in Users \cup {"none"} : ProviderAnswers(l, user)
        \/ \E c \in Calls :
             \/ \E l \in Logins, b \in Browsers : Callback(c, l, b)
             \/ Consume(c) \/ Exchange(c) \/ ValidateIdToken(c) \/ CreateSession(c) \/ SignedIn(c)
             \/ \E applied \in BOOLEAN : ConsumeLost(c, applied) \/ CreateLost(c, applied)

Spec == Init /\ [][Next]_vars

-----------------------------------------------------------------------------
\* The types of the variables; memory holds no more transactions than it may.
TypeOK ==
  /\ config \in Configs /\ now \in 0..MaxTime /\ discovered \in -1..now /\ faults \in 0..MaxFaults
  /\ pending \subseteq Placed
  /\ ~config.shared => Cardinality(pending) <= MaxPending
  /\ \A l \in Logins :
       /\ login[l].pc \in {"none", "storing", "redirecting", "atProvider", "returning", "failed"}
       /\ login[l].pc # "none" => login[l].browser \in Browsers
       /\ login[l].user \in Users \cup {"none"}
  /\ \A b \in Browsers : cookie[b] \in Logins \cup {"none"} /\ signedIn[b] \in sessions \cup {"none"}
  /\ \A c \in Calls :
       /\ call[c].pc \in {"idle", "consuming", "exchanging", "validating", "creating", "responding", "done", "failed"}
       /\ call[c].pc \notin {"idle", "failed"} => {call[c].login, call[c].txn} \subseteq Logins
  /\ sessions \subseteq Calls

\* Every session stored, handed over or not, comes of a login that its own browser
\* began, that the provider answered with a user, and that was still alive when it was
\* consumed; no two sessions come of one login, however often its redirect is followed,
\* whichever commands are lost, and whatever the provider does with a code
\* (auth/session.py:124, auth/routes.py:105).
SessionsComeOfOneOwnLogin ==
  /\ \A c \in sessions :
       LET l == login[call[c].login]
       IN  /\ l.browser = call[c].browser
           /\ l.user \in Users
           /\ call[c].at - l.created <= config.ttl
  /\ \A c, d \in sessions : call[c].login = call[d].login => c = d

\* A callback fails only where the provider refused or somebody could not be reached,
\* the redirect was followed twice or in another browser, another tab's login took the
\* cookie, the login took longer than it may, or enough later logins pushed it out
\* (auth/session.py:113, auth/routes.py:83).
LoginFailsForAReason ==
  \A c \in Calls : call[c].pc = "failed" =>
    LET l == login[call[c].login]
    IN  \/ call[c].hit
        \/ l.user = "none"
        \/ l.browser # call[c].browser
        \/ \E d \in Calls \ {c} : call[c].login \in {call[d].login, call[d].txn}
        \/ l.displaced
        \/ call[c].at - l.created > config.ttl
        \/ config.shared /\ call[c].at >= l.keyEnd
        \/ ~config.shared /\ Cardinality(Later(call[c].login, Logins)) >= MaxPending

\* "ANY failure raises AuthenticationFailedError -- never a partially-created session"
\* (auth/routes.py:105): a callback that failed has stored none.
FailureLeavesNoSession == \A c \in sessions : call[c].pc # "failed"

\* A Redis transaction is available for as long as it may take: the key's own life "only
\* guarantees an ABANDONED transaction is eventually reclaimed" (auth/session.py:319).
KeyOutlivesTransaction ==
  config.shared => \A l \in Logins : login[l].place > 0 => login[l].created + config.ttl < login[l].keyEnd
=============================================================================
