---------------------------- MODULE LoginProofs ----------------------------
(***************************************************************************)
(* Proofs about sign-in, for any logins, callbacks and browsers, in memory  *)
(* and in Redis, whatever the provider does and whichever commands are      *)
(* lost.                                                                   *)
(*                                                                         *)
(* The invariant follows a login from tab to tab: whose cookie names it     *)
(* (Named, Held), where its transaction went (Waiting), and which callback, *)
(* of all that arrive, may have taken it (Arrived, Consumed, OnceEach).     *)
(***************************************************************************)
EXTENDS Login, FiniteSetTheorems, WellFoundedInduction, TLAPS

LoginRecords ==
  [pc : {"none", "storing", "redirecting", "atProvider", "returning", "failed"},
   browser : Browsers \cup {"none"}, created : Nat, user : Users \cup {"none"}, keyEnd : Nat,
   tries : Nat, place : Nat, displaced : BOOLEAN]

CallRecords ==
  [pc : {"idle", "consuming", "exchanging", "validating", "creating", "responding", "done", "failed"},
   browser : Browsers \cup {"none"}, login : Logins \cup {"none"}, txn : Logins \cup {"none"},
   tries : Nat, event : {"none", "failure", "success"}, at : Nat, hit : BOOLEAN]

Typed == /\ config \in Configs /\ now \in 0..MaxTime /\ discovered \in -1..now
         /\ faults \in 0..MaxFaults
         /\ login \in [Logins -> LoginRecords] /\ call \in [Calls -> CallRecords]
         /\ cookie \in [Browsers -> Logins \cup {"none"}]
         /\ sessions \subseteq Calls /\ signedIn \in [Browsers -> sessions \cup {"none"}]
         /\ \A c \in Calls : call[c].pc \in {"responding", "done"} => c \in sessions

\* The store holds transactions that were stored, no more than it may, and knows
\* in which order they came.
Kept == /\ pending \subseteq Placed /\ IsFiniteSet(Placed)
        /\ \A l \in Placed : login[l].place <= Cardinality(Placed)
        /\ \A k, l \in Placed : login[k].place = login[l].place => k = l
        /\ ~config.shared => Cardinality(pending) <= MaxPending

Sent(l) == login[l].pc \in {"redirecting", "atProvider", "returning"}

Begun(l) == /\ login[l].pc # "none" => login[l].browser \in Browsers
            /\ login[l].pc = "none" =>
                 login[l].place = 0 /\ login[l].browser = "none" /\ ~login[l].displaced
            /\ login[l].pc = "storing" /\ ~config.shared => login[l].place = 0
            /\ Sent(l) => login[l].place > 0
            /\ login[l].user # "none" => login[l].pc = "returning"

\* A cookie names a login of its own browser; a login without it was displaced.
Named(b) == cookie[b] # "none" =>
              /\ login[cookie[b]].browser = b
              /\ login[cookie[b]].pc \in {"atProvider", "returning"}
Held(l) == login[l].pc \in {"atProvider", "returning"} =>
              cookie[login[l].browser] = l \/ login[l].displaced

\* A callback tried to take l.
Tried(c, l) == /\ call[c].txn = l
               /\ call[c].pc # "idle"
               /\ call[c].pc = "consuming" => call[c].hit
Crowded(l) == ~config.shared /\ Cardinality(Later(l, Logins)) >= MaxPending

\* A transaction is there, or a callback tried to take it, or later ones pushed it out.
Waiting(l) == Sent(l) => l \in pending \/ (\E c \in Calls : Tried(c, l)) \/ Crowded(l)

Arrived(c) ==
  call[c].pc # "idle" =>
    /\ call[c].login \in Logins /\ call[c].browser \in Browsers
    /\ login[call[c].login].pc = "returning"
    /\ call[c].txn # "none" => login[call[c].txn].browser = call[c].browser
    /\ call[c].txn # call[c].login =>
         login[call[c].login].browser # call[c].browser \/ login[call[c].login].displaced
    /\ call[c].pc # "failed" =>
         call[c].txn # "none" /\ login[call[c].login].user # "none"

Served(c) == call[c].pc \in {"exchanging", "validating", "creating", "responding", "done"} \/ c \in sessions

\* What a callback took it took alone, from its own browser and in time.
Consumed(c) ==
  Served(c) => /\ call[c].pc \notin {"idle", "consuming"}
               /\ call[c].txn = call[c].login /\ call[c].login \notin pending
               /\ login[call[c].login].user # "none"
               /\ call[c].at - login[call[c].login].created <= config.ttl

OnceEach == \A c, d \in Calls : Served(c) /\ Served(d) /\ call[c].login = call[d].login => c = d

\* Another callback, that has arrived.
Rival(c, d) == d # c /\ call[d].pc # "idle" /\ call[c].login \in {call[d].login, call[d].txn}

Explained(c) ==
  call[c].pc = "failed" =>
    LET l == call[c].login
    IN  \/ call[c].hit
        \/ login[l].user = "none"
        \/ login[l].browser # call[c].browser
        \/ \E d \in Calls : Rival(c, d)
        \/ login[l].displaced
        \/ call[c].at - login[l].created > config.ttl
        \/ config.shared /\ call[c].at >= login[l].keyEnd
        \/ Crowded(l)

IInv == /\ Typed /\ Kept /\ OnceEach
        /\ \A l \in Logins : Begun(l) /\ Held(l) /\ Waiting(l)
        /\ \A b \in Browsers : Named(b)
        /\ \A c \in Calls : Arrived(c) /\ Consumed(c) /\ Explained(c)
-----------------------------------------------------------------------------
(***************************************************************************)
(* The constants, and the counting of transactions.                        *)
(***************************************************************************)
LEMMA Limits ==
  /\ MaxPending \in Nat \ {0} /\ KeyLife \in Nat /\ MaxTime \in Nat /\ MaxFaults \in Nat
  /\ \A c \in Configs : c.ttl \in Nat
BY LimitsPositive, BoundsNat

\* A nonempty set of naturals has a least element.
Smaller == {p \in Nat \X Nat : p[1] < p[2]}

LEMMA SmallerIsWellFounded == IsWellFoundedOn(Smaller, Nat)
<1>1. OpToRel(<, Nat) = Smaller   BY Zenon DEF OpToRel, Smaller
<1> QED BY <1>1, NatLessThanWellFounded

LEMMA LeastNat ==
  ASSUME NEW T, T \subseteq Nat, T # {}
  PROVE  \E x \in T : \A y \in T : x <= y
<1>1. PICK x \in T : \A y \in T : ~ (<<y, x>> \in Smaller)   BY SmallerIsWellFounded, WFMin
<1>2. \A a, b \in Nat : a < b => <<a, b>> \in Smaller         BY DEF Smaller
<1>3. \A y \in T : x <= y
  <2> SUFFICES ASSUME NEW y \in T PROVE x <= y   OBVIOUS
  <2>1. x \in Nat /\ y \in Nat                   OBVIOUS
  <2>2. ~(y < x)                                 BY <1>1, <1>2, <2>1
  <2> QED BY <2>1, <2>2
<1> QED BY <1>3

\* What later steps keep of the logins.
LoginsKeep ==
  \A l \in Logins :
    /\ login[l].place > 0 => login'[l].place = login[l].place
    /\ login[l].displaced => login'[l].displaced
    /\ login[l].browser # "none" => login'[l].browser = login[l].browser
    /\ Sent(l) => Sent(l)' /\ login'[l].created = login[l].created /\ login'[l].keyEnd = login[l].keyEnd
    /\ login[l].pc = "returning" => login'[l].pc = "returning" /\ login'[l].user = login[l].user

LEMMA LaterFinite ==
  ASSUME Typed, IsFiniteSet(Placed), NEW l \in Logins
  PROVE  /\ \A s \in SUBSET Logins : Later(l, s) \subseteq Placed
         /\ IsFiniteSet(Later(l, Logins)) /\ Cardinality(Later(l, Logins)) \in Nat
<1>1. \A k \in Logins : login[k].place \in Nat   BY DEF Typed, LoginRecords
<1>2. \A s \in SUBSET Logins : Later(l, s) \subseteq Placed   BY <1>1 DEF Later, Placed
<1>3. IsFiniteSet(Later(l, Logins))   BY <1>2, FS_Subset
<1> QED BY <1>2, <1>3, FS_CardinalityType

\* A login pushed out stays so.
LEMMA CrowdedStays ==
  ASSUME Typed, Typed', IsFiniteSet(Placed)', LoginsKeep, config' = config,
         NEW l \in Logins, login[l].place > 0, Crowded(l)
  PROVE  Crowded(l)'
<1>1. \A k \in Logins : login[k].place \in Nat   BY DEF Typed, LoginRecords
<1>2. Later(l, Logins) \subseteq Later(l, Logins)'   BY <1>1 DEF Later, LoginsKeep
<1>3. IsFiniteSet(Later(l, Logins)') /\ Cardinality(Later(l, Logins)') \in Nat
  <2>1. \A k \in Logins : login'[k].place \in Nat   BY DEF Typed, LoginRecords
  <2>2. Later(l, Logins)' \subseteq Placed'   BY <2>1 DEF Later, Placed
  <2> QED BY <2>2, FS_Subset, FS_CardinalityType
<1>4. Cardinality(Later(l, Logins)) <= Cardinality(Later(l, Logins)') /\ Cardinality(Later(l, Logins)) \in Nat
  BY <1>2, <1>3, FS_Subset, FS_CardinalityType
<1> QED BY <1>3, <1>4, Limits DEF Crowded
-----------------------------------------------------------------------------
(***************************************************************************)
(* What keeps the parts of the invariant.                                  *)
(***************************************************************************)
\* What later steps keep of the callbacks that have arrived.
CallsKeep ==
  \A c \in Calls : call[c].pc # "idle" =>
    /\ call'[c].pc # "idle"
    /\ call'[c].browser = call[c].browser /\ call'[c].login = call[c].login /\ call'[c].txn = call[c].txn
    /\ call[c].hit => call'[c].hit
    /\ call'[c].pc = "consuming" => call[c].pc = "consuming"

\* A callback that gets no further than it was.
Stays(c) ==
  /\ call'[c].browser = call[c].browser /\ call'[c].login = call[c].login /\ call'[c].txn = call[c].txn
  /\ call'[c].at = call[c].at /\ call'[c].hit = call[c].hit
  /\ \A pc \in {"idle", "consuming", "failed"} : (call'[c].pc = pc) <=> (call[c].pc = pc)
  /\ Served(c)' => Served(c)

\* Nothing but a transaction being stored enters the store.
PendingKept == \A l \in Logins : l \in pending' => l \in pending \/ login[l].pc = "storing"

LEMMA ArrivedStays ==
  ASSUME IInv, LoginsKeep, CallsKeep, NEW c \in Calls, call[c].pc # "idle",
         call'[c].pc = "failed" \/ call[c].pc # "failed"
  PROVE  Arrived(c)'
<1>1. Arrived(c) /\ call[c] \in CallRecords   BY DEF IInv, Typed
<1>2. call[c].txn \in Logins \cup {"none"} /\ call[c].login \in Logins /\ call[c].browser \in Browsers
  BY <1>1 DEF CallRecords, Arrived
<1>3. call[c].browser # "none"   BY <1>2, NobodyNamed
<1>4. login'[call[c].login].pc = "returning" /\ login'[call[c].login].user = login[call[c].login].user
  BY <1>1, <1>2 DEF Arrived, LoginsKeep
<1>5. Begun(call[c].login)   BY <1>2 DEF IInv
<1>6. login[call[c].login].browser # "none"   BY <1>1, <1>5, NobodyNamed DEF Arrived, Begun
<1>7. login'[call[c].login].browser = login[call[c].login].browser
  BY <1>2, <1>6 DEF LoginsKeep
<1>8. ASSUME call[c].txn # "none" PROVE login'[call[c].txn].browser = call[c].browser
  <2>1. call[c].txn \in Logins /\ login[call[c].txn].browser = call[c].browser   BY <1>1, <1>2, <1>8 DEF Arrived
  <2> QED BY <1>3, <2>1 DEF LoginsKeep
<1>9. login[call[c].login].displaced => login'[call[c].login].displaced   BY <1>2 DEF LoginsKeep
<1> QED BY <1>1, <1>2, <1>4, <1>7, <1>8, <1>9 DEF Arrived, CallsKeep

LEMMA ConsumedStays ==
  ASSUME IInv, LoginsKeep, PendingKept, config' = config, NEW c \in Calls, Served(c),
         call'[c].login = call[c].login, call'[c].txn = call[c].txn, call'[c].at = call[c].at,
         call'[c].pc \notin {"idle", "consuming"}
  PROVE  Consumed(c)'
<1>1. Arrived(c) /\ Consumed(c) /\ call[c].pc # "idle"   BY DEF IInv, Consumed
<1>2. call[c].login \in Logins /\ login[call[c].login].pc = "returning"   BY <1>1 DEF Arrived
<1>3. Sent(call[c].login)   BY <1>2 DEF Sent
<1>4. /\ login'[call[c].login].user = login[call[c].login].user
      /\ login'[call[c].login].created = login[call[c].login].created
  BY <1>2, <1>3 DEF LoginsKeep
<1>5. call[c].login \notin pending'   BY <1>1, <1>2 DEF Consumed, PendingKept
<1> QED BY <1>1, <1>4, <1>5 DEF Consumed

LEMMA ExplainedStays ==
  ASSUME IInv, LoginsKeep, CallsKeep, config' = config, Typed', IsFiniteSet(Placed)',
         NEW c \in Calls, call[c].pc = "failed", call'[c].at = call[c].at
  PROVE  Explained(c)'
<1>1. Arrived(c) /\ Explained(c) /\ Typed   BY DEF IInv
<1>2. call[c].login \in Logins /\ login[call[c].login].pc = "returning"   BY <1>1 DEF Arrived
<1>3. PICK l \in Logins : l = call[c].login   BY <1>2
<1>4. Begun(l) /\ Sent(l)   BY <1>2, <1>3 DEF IInv, Sent
<1>5. login[l].browser # "none" /\ login[l].place > 0   BY <1>2, <1>3, <1>4, NobodyNamed DEF Begun
<1>6. /\ login'[l].user = login[l].user /\ login'[l].created = login[l].created
      /\ login'[l].keyEnd = login[l].keyEnd /\ login'[l].browser = login[l].browser
      /\ login[l].displaced => login'[l].displaced
  BY <1>2, <1>3, <1>4, <1>5 DEF LoginsKeep
<1>7. /\ call'[c].browser = call[c].browser /\ call'[c].login = l
      /\ call[c].hit => call'[c].hit
  BY <1>3 DEF CallsKeep
<1>8. ASSUME NEW d \in Calls, Rival(c, d) PROVE Rival(c, d)'
  BY <1>3, <1>7, <1>8 DEF Rival, CallsKeep
<1>9. Crowded(l) => Crowded(l)'   BY <1>1, <1>5, CrowdedStays
<1> QED BY <1>1, <1>3, <1>6, <1>7, <1>8, <1>9 DEF Explained

\* A callback that the step does not take further.
LEMMA StaysKeeps ==
  ASSUME IInv, LoginsKeep, CallsKeep, PendingKept, config' = config, Typed', IsFiniteSet(Placed)',
         NEW c \in Calls, Stays(c)
  PROVE  Arrived(c)' /\ Consumed(c)' /\ Explained(c)'
<1>1. CASE call[c].pc = "idle"
  <2>1. call'[c].pc = "idle"   BY <1>1 DEF Stays
  <2>2. ~Served(c)'   BY <1>1 DEF IInv, Consumed, Stays
  <2> QED BY <2>1, <2>2 DEF Arrived, Consumed, Explained
<1>2. CASE call[c].pc # "idle"
  <2>1. Arrived(c)'   BY <1>2, ArrivedStays DEF Stays
  <2>2. Consumed(c)'
    <3>1. CASE Served(c)
      <4>1. call[c].pc \notin {"idle", "consuming"}   BY <3>1 DEF IInv, Consumed
      <4> QED BY <3>1, <4>1, ConsumedStays DEF Stays
    <3>2. CASE ~Served(c)   BY <3>2 DEF Consumed, Stays
    <3> QED BY <3>1, <3>2
  <2>3. Explained(c)'
    <3>1. CASE call[c].pc = "failed"   BY <3>1, ExplainedStays DEF Stays
    <3>2. CASE call[c].pc # "failed"
      <4>1. call'[c].pc # "failed"   BY <3>2 DEF Stays
      <4> QED BY <4>1 DEF Explained
    <3> QED BY <3>1, <3>2
  <2> QED BY <2>1, <2>2, <2>3
<1> QED BY <1>1, <1>2

\* Nobody starts to be served.
LEMMA OnceStays ==
  ASSUME IInv, \A c \in Calls : Served(c)' => Served(c) /\ call'[c].login = call[c].login
  PROVE  OnceEach'
BY DEF IInv, OnceEach

LEMMA WaitingStays ==
  ASSUME IInv, LoginsKeep, CallsKeep, config' = config, Typed', IsFiniteSet(Placed)',
         NEW l \in Logins, Sent(l),
         l \in pending => l \in pending' \/ (\E c \in Calls : Tried(c, l)') \/ Crowded(l)'
  PROVE  Waiting(l)'
<1>1. Waiting(l) /\ Begun(l) /\ Typed   BY DEF IInv
<1>2. login[l].place > 0   BY <1>1 DEF Begun
<1>3. Crowded(l) => Crowded(l)'   BY <1>1, <1>2, CrowdedStays
<1>4. ASSUME NEW c \in Calls, Tried(c, l) PROVE Tried(c, l)'   BY <1>4 DEF Tried, CallsKeep
<1> QED BY <1>1, <1>3, <1>4 DEF Waiting
-----------------------------------------------------------------------------
(***************************************************************************)
(* The steps of /auth/callback.                                            *)
(***************************************************************************)
CallsTyped == call \in [Calls -> CallRecords]
Elsewhere(c) == \A d \in Calls : d # c => call'[d] = call[d]

LEMMA CallChanges ==
  ASSUME CallsTyped, NEW c \in Calls, NEW x \in CallRecords, call' = [call EXCEPT ![c] = x]
  PROVE  CallsTyped' /\ call'[c] = x /\ Elsewhere(c)
BY DEF CallsTyped, Elsewhere

\* The logins, and the cookies, are as they were, and no transaction came.
Quiet == UNCHANGED <<config, login, cookie>> /\ pending' \subseteq pending

LEMMA QuietKeeps ==
  ASSUME IInv, Quiet, Typed'
  PROVE  /\ LoginsKeep /\ PendingKept /\ Kept' /\ IsFiniteSet(Placed)'
         /\ \A b \in Browsers : Named(b)'
         /\ \A l \in Logins : Begun(l)' /\ Held(l)' /\ (Sent(l)' <=> Sent(l))
<1>1. LoginsKeep /\ PendingKept   BY DEF Quiet, LoginsKeep, PendingKept, Sent
<1>2. Placed' = Placed   BY DEF Quiet, Placed
<1>3. Kept'
  <2>1. Kept /\ IsFiniteSet(pending)   BY FS_Subset DEF IInv, Kept
  <2>2. Cardinality(pending') <= Cardinality(pending) /\ Cardinality(pending') \in Nat /\ Cardinality(pending) \in Nat
    BY <2>1, FS_Subset, FS_CardinalityType DEF Quiet
  <2> QED BY <1>2, <2>1, <2>2, Limits DEF Kept, Quiet
<1>4. \A b \in Browsers : Named(b)'   BY DEF IInv, Quiet, Named
<1>5. \A l \in Logins : Begun(l)' /\ Held(l)' /\ (Sent(l)' <=> Sent(l))   BY DEF IInv, Quiet, Begun, Held, Sent
<1> QED BY <1>1, <1>2, <1>3, <1>4, <1>5 DEF IInv, Kept

\* Nothing that the invariant speaks of changes but the progress of c.
LEMMA QuietStep ==
  ASSUME IInv, Quiet, Typed', NEW c \in Calls, Elsewhere(c), CallsKeep,
         sessions \subseteq sessions', sessions' \subseteq sessions \cup {c},
         Arrived(c)', Consumed(c)', Explained(c)', OnceEach',
         \A l \in Logins : Sent(l) /\ l \in pending => l \in pending' \/ (\E d \in Calls : Tried(d, l)')
  PROVE  IInv'
<1>1. /\ LoginsKeep /\ PendingKept /\ Kept' /\ IsFiniteSet(Placed)'
      /\ \A b \in Browsers : Named(b)'
      /\ \A l \in Logins : Begun(l)' /\ Held(l)' /\ (Sent(l)' <=> Sent(l))
  BY QuietKeeps
<1>2. config' = config   BY DEF Quiet
<1>3. ASSUME NEW d \in Calls, d # c PROVE Arrived(d)' /\ Consumed(d)' /\ Explained(d)'
  <2>1. call'[d] = call[d]   BY <1>3 DEF Elsewhere
  <2>2. Stays(d)   BY <1>3, <2>1 DEF Stays, Served
  <2> QED BY <1>1, <1>2, <2>2, StaysKeeps
<1>4. ASSUME NEW l \in Logins PROVE Waiting(l)'
  <2>1. CASE Sent(l)   BY <1>1, <1>2, <2>1, WaitingStays
  <2>2. CASE ~Sent(l)   BY <1>1, <2>2 DEF Waiting
  <2> QED BY <2>1, <2>2
<1> QED BY <1>1, <1>3, <1>4 DEF IInv

LEMMA CallStepTyped ==
  ASSUME IInv, NEW c \in Calls, NEW x \in CallRecords, call' = [call EXCEPT ![c] = x],
         UNCHANGED <<config, now, login, cookie, signedIn>>,
         sessions \subseteq sessions', sessions' \subseteq Calls,
         x.pc \in {"responding", "done"} => c \in sessions',
         discovered' \in -1..now, faults' \in 0..MaxFaults
  PROVE  Typed' /\ call'[c] = x /\ Elsewhere(c)
<1>1. Typed /\ CallsTyped   BY DEF IInv, Typed, CallsTyped
<1>2. CallsTyped' /\ call'[c] = x /\ Elsewhere(c)   BY <1>1, CallChanges
<1>3. signedIn' \in [Browsers -> sessions' \cup {"none"}]   BY <1>1 DEF Typed
<1>4. \A d \in Calls : call'[d].pc \in {"responding", "done"} => d \in sessions'
  BY <1>1, <1>2 DEF Typed, Elsewhere
<1> QED BY <1>1, <1>2, <1>3, <1>4 DEF Typed, CallsTyped

LEMMA Bounded ==
  ASSUME IInv
  PROVE  /\ discovered \in -1..now /\ faults \in 0..MaxFaults
         /\ Fault => faults' \in 0..MaxFaults
         /\ DiscoveryFound => discovered' \in -1..now /\ faults' \in 0..MaxFaults
         /\ DiscoveryFails => discovered' \in -1..now /\ faults' \in 0..MaxFaults
<1>1. now \in Nat /\ discovered \in -1..now /\ faults \in 0..MaxFaults /\ MaxFaults \in Nat   BY Limits DEF IInv, Typed
<1>2. Fault => faults' \in 0..MaxFaults   BY <1>1 DEF Fault
<1> QED BY <1>1, <1>2 DEF DiscoveryFound, DiscoveryFails

\* A callback that has its login's transaction goes on, or fails for a fault.
LEMMA ServedStep ==
  ASSUME IInv, Quiet, pending' = pending, Typed', NEW c \in Calls, Elsewhere(c), Served(c),
         call[c].pc # "failed",
         call'[c].browser = call[c].browser, call'[c].login = call[c].login,
         call'[c].txn = call[c].txn, call'[c].at = call[c].at, call[c].hit => call'[c].hit,
         call'[c].pc \notin {"idle", "consuming"}, call'[c].pc = "failed" => call'[c].hit,
         sessions \subseteq sessions', sessions' \subseteq sessions \cup {c}
  PROVE  IInv'
<1>1. LoginsKeep /\ PendingKept /\ config' = config   BY QuietKeeps DEF Quiet
<1>2. call[c].pc \notin {"idle", "consuming"}   BY DEF IInv, Consumed
<1>3. CallsKeep   BY <1>2 DEF CallsKeep, Elsewhere
<1>4. Arrived(c)'   BY <1>1, <1>2, <1>3, ArrivedStays
<1>5. Consumed(c)'   BY <1>1, ConsumedStays
<1>6. Explained(c)'   BY DEF Explained
<1>7. OnceEach'
  <2>1. \A d \in Calls : d # c => (Served(d)' => Served(d))   BY DEF Served, Elsewhere
  <2> QED BY <2>1, OnceStays DEF Elsewhere
<1> QED BY <1>3, <1>4, <1>5, <1>6, <1>7, QuietStep

LEMMA ExchangeKeeps == ASSUME IInv, NEW c \in Calls, Exchange(c) PROVE IInv'
<1>1. call[c] \in CallRecords /\ call[c].pc = "exchanging" /\ call \in [Calls -> CallRecords]
  BY DEF IInv, Typed, Exchange
<1>2. PICK x \in CallRecords : /\ call' = [call EXCEPT ![c] = x]
                               /\ x.browser = call[c].browser /\ x.login = call[c].login
                               /\ x.txn = call[c].txn /\ x.at = call[c].at /\ (call[c].hit => x.hit)
                               /\ x.pc \in {"validating", "failed"} /\ (x.pc = "failed" => x.hit)
  <2>1. CASE call' = [call EXCEPT ![c].pc = "validating"]
    <3> DEFINE x == [call[c] EXCEPT !.pc = "validating"]
    <3>1. x \in CallRecords   BY <1>1 DEF CallRecords
    <3>2. call' = [call EXCEPT ![c] = x]   BY <1>1, <2>1
    <3>3. /\ x.browser = call[c].browser /\ x.login = call[c].login /\ x.txn = call[c].txn
          /\ x.at = call[c].at /\ x.hit = call[c].hit /\ x.pc = "validating"
      BY <1>1 DEF CallRecords
    <3> QED BY <3>1, <3>2, <3>3
  <2>2. CASE call' = Unavailable(c)
    <3> DEFINE x == [call[c] EXCEPT !.pc = "failed", !.hit = TRUE]
    <3>1. x \in CallRecords   BY <1>1 DEF CallRecords
    <3>2. call' = [call EXCEPT ![c] = x]   BY <1>1, <2>2 DEF Unavailable
    <3>3. /\ x.browser = call[c].browser /\ x.login = call[c].login /\ x.txn = call[c].txn
          /\ x.at = call[c].at /\ x.hit /\ x.pc = "failed"
      BY <1>1 DEF CallRecords
    <3> QED BY <3>1, <3>2, <3>3
  <2>3. CASE call' = [Fails(c) EXCEPT ![c].hit = TRUE]
    <3> DEFINE x == [call[c] EXCEPT !.pc = "failed", !.event = "failure", !.hit = TRUE]
    <3>1. x \in CallRecords   BY <1>1 DEF CallRecords
    <3>2. call' = [call EXCEPT ![c] = x]   BY <1>1, <2>3 DEF Fails
    <3>3. /\ x.browser = call[c].browser /\ x.login = call[c].login /\ x.txn = call[c].txn
          /\ x.at = call[c].at /\ x.hit /\ x.pc = "failed"
      BY <1>1 DEF CallRecords
    <3> QED BY <3>1, <3>2, <3>3
  <2> QED BY <2>1, <2>2, <2>3 DEF Exchange
<1>3. discovered' \in -1..now /\ faults' \in 0..MaxFaults   BY Bounded DEF Exchange
<1>4. Typed' /\ call'[c] = x /\ Elsewhere(c)   BY <1>2, <1>3, CallStepTyped DEF Exchange, IInv, Typed
<1>5. Quiet /\ pending' = pending   BY DEF Exchange, Quiet
<1>6. Served(c)   BY <1>1 DEF Served
<1> QED BY <1>1, <1>2, <1>4, <1>5, <1>6, ServedStep DEF Exchange

LEMMA ValidateKeeps == ASSUME IInv, NEW c \in Calls, ValidateIdToken(c) PROVE IInv'
<1>1. call[c] \in CallRecords /\ call[c].pc = "validating" /\ call \in [Calls -> CallRecords]
  BY DEF IInv, Typed, ValidateIdToken
<1>2. Served(c)   BY <1>1 DEF Served
<1>3. NonceMatches(c)   BY <1>2 DEF IInv, Consumed, NonceMatches
<1>4. PICK x \in CallRecords : /\ call' = [call EXCEPT ![c] = x]
                               /\ x.browser = call[c].browser /\ x.login = call[c].login
                               /\ x.txn = call[c].txn /\ x.at = call[c].at /\ (call[c].hit => x.hit)
                               /\ x.pc \in {"creating", "failed"} /\ (x.pc = "failed" => x.hit)
  <2>1. CASE call' = [call EXCEPT ![c].pc = "creating"]
    <3> DEFINE x == [call[c] EXCEPT !.pc = "creating"]
    <3>1. x \in CallRecords   BY <1>1 DEF CallRecords
    <3>2. call' = [call EXCEPT ![c] = x]   BY <1>1, <2>1
    <3>3. /\ x.browser = call[c].browser /\ x.login = call[c].login /\ x.txn = call[c].txn
          /\ x.at = call[c].at /\ x.hit = call[c].hit /\ x.pc = "creating"
      BY <1>1 DEF CallRecords
    <3> QED BY <3>1, <3>2, <3>3
  <2>2. CASE call' = [Fails(c) EXCEPT ![c].hit = TRUE]
    <3> DEFINE x == [call[c] EXCEPT !.pc = "failed", !.event = "failure", !.hit = TRUE]
    <3>1. x \in CallRecords   BY <1>1 DEF CallRecords
    <3>2. call' = [call EXCEPT ![c] = x]   BY <1>1, <2>2 DEF Fails
    <3>3. /\ x.browser = call[c].browser /\ x.login = call[c].login /\ x.txn = call[c].txn
          /\ x.at = call[c].at /\ x.hit /\ x.pc = "failed"
      BY <1>1 DEF CallRecords
    <3> QED BY <3>1, <3>2, <3>3
  <2> QED BY <1>3, <2>1, <2>2 DEF ValidateIdToken
<1>5. discovered' \in -1..now /\ faults' \in 0..MaxFaults   BY Bounded DEF ValidateIdToken
<1>6. Typed' /\ call'[c] = x /\ Elsewhere(c)   BY <1>4, <1>5, CallStepTyped DEF ValidateIdToken, IInv, Typed
<1>7. Quiet /\ pending' = pending   BY DEF ValidateIdToken, Quiet
<1> QED BY <1>1, <1>2, <1>4, <1>6, <1>7, ServedStep DEF ValidateIdToken

LEMMA CreateKeeps ==
  ASSUME IInv, NEW c \in Calls, CreateSession(c) \/ \E applied \in BOOLEAN : CreateLost(c, applied)
  PROVE  IInv'
<1>1. call[c] \in CallRecords /\ call[c].pc = "creating" /\ call \in [Calls -> CallRecords]
  BY DEF IInv, Typed, CreateSession, CreateLost
<1>2. Served(c)   BY <1>1 DEF Served
<1>3. PICK x \in CallRecords : /\ call' = [call EXCEPT ![c] = x]
                               /\ x.browser = call[c].browser /\ x.login = call[c].login
                               /\ x.txn = call[c].txn /\ x.at = call[c].at /\ (call[c].hit => x.hit)
                               /\ x.pc \in {"creating", "responding", "failed"} /\ (x.pc = "failed" => x.hit)
                               /\ x.pc = "responding" => c \in sessions'
  <2>1. CASE call' = [call EXCEPT ![c].pc = "responding", ![c].event = "success"] /\ c \in sessions'
    <3> DEFINE x == [call[c] EXCEPT !.pc = "responding", !.event = "success"]
    <3>1. x \in CallRecords   BY <1>1 DEF CallRecords
    <3>2. call' = [call EXCEPT ![c] = x]   BY <1>1, <2>1
    <3>3. /\ x.browser = call[c].browser /\ x.login = call[c].login /\ x.txn = call[c].txn
          /\ x.at = call[c].at /\ x.hit = call[c].hit /\ x.pc = "responding"
      BY <1>1 DEF CallRecords
    <3> QED BY <2>1, <3>1, <3>2, <3>3
  <2>2. CASE call' = [call EXCEPT ![c].tries = @ + 1]
    <3> DEFINE x == [call[c] EXCEPT !.tries = @ + 1]
    <3>1. x \in CallRecords   BY <1>1 DEF CallRecords
    <3>2. call' = [call EXCEPT ![c] = x]   BY <1>1, <2>2
    <3>3. /\ x.browser = call[c].browser /\ x.login = call[c].login /\ x.txn = call[c].txn
          /\ x.at = call[c].at /\ x.hit = call[c].hit /\ x.pc = "creating"
      BY <1>1 DEF CallRecords
    <3> QED BY <3>1, <3>2, <3>3
  <2>3. CASE call' = Unavailable(c)
    <3> DEFINE x == [call[c] EXCEPT !.pc = "failed", !.hit = TRUE]
    <3>1. x \in CallRecords   BY <1>1 DEF CallRecords
    <3>2. call' = [call EXCEPT ![c] = x]   BY <1>1, <2>3 DEF Unavailable
    <3>3. /\ x.browser = call[c].browser /\ x.login = call[c].login /\ x.txn = call[c].txn
          /\ x.at = call[c].at /\ x.hit /\ x.pc = "failed"
      BY <1>1 DEF CallRecords
    <3> QED BY <3>1, <3>2, <3>3
  <2>4. CASE CreateSession(c)   BY <2>1, <2>4 DEF CreateSession
  <2>5. CASE \E applied \in BOOLEAN : CreateLost(c, applied)   BY <2>2, <2>3, <2>5 DEF CreateLost
  <2> QED BY <2>4, <2>5
<1>4. discovered' \in -1..now /\ faults' \in 0..MaxFaults   BY Bounded DEF CreateSession, CreateLost
<1>5. sessions \subseteq sessions' /\ sessions' \subseteq sessions \cup {c}   BY DEF CreateSession, CreateLost
<1>6. Typed' /\ call'[c] = x /\ Elsewhere(c)
  BY <1>3, <1>4, <1>5, CallStepTyped DEF CreateSession, CreateLost, IInv, Typed
<1>7. Quiet /\ pending' = pending   BY DEF CreateSession, CreateLost, Quiet
<1> QED BY <1>1, <1>2, <1>3, <1>5, <1>6, <1>7, ServedStep

\* A callback takes the transaction that its cookie names, if it is there.
LEMMA ConsumeKeeps == ASSUME IInv, NEW c \in Calls, Consume(c) PROVE IInv'
<1>1. /\ call[c] \in CallRecords /\ call[c].pc = "consuming" /\ call \in [Calls -> CallRecords]
      /\ now \in Nat /\ Arrived(c)
  BY Limits DEF IInv, Typed, Consume
<1>2. PICK l \in Logins : l = call[c].login   BY <1>1 DEF Arrived
<1>3. ~Served(c)   BY <1>1 DEF IInv, Consumed
<1>4. Quiet /\ pending' = pending \ {call[c].txn}   BY DEF Consume, Quiet, Taken
<1> DEFINE Found == Available(call[c].txn) /\ ~Expired(call[c].txn) /\ StateMatches(c)
<1>5. PICK x \in CallRecords : /\ call' = [call EXCEPT ![c] = x]
                               /\ x.browser = call[c].browser /\ x.login = call[c].login
                               /\ x.txn = call[c].txn /\ x.at = now /\ x.hit = call[c].hit
                               /\ (Found /\ x.pc = "exchanging") \/ (~Found /\ x.pc = "failed")
  <2>1. CASE Found
    <3> DEFINE x == [call[c] EXCEPT !.pc = "exchanging", !.tries = 0, !.at = now]
    <3>1. x \in CallRecords   BY <1>1 DEF CallRecords
    <3>2. call' = [call EXCEPT ![c] = x]   BY <1>1, <2>1 DEF Consume
    <3>3. /\ x.browser = call[c].browser /\ x.login = call[c].login /\ x.txn = call[c].txn
          /\ x.at = now /\ x.hit = call[c].hit /\ x.pc = "exchanging"
      BY <1>1 DEF CallRecords
    <3> QED BY <2>1, <3>1, <3>2, <3>3
  <2>2. CASE ~Found
    <3> DEFINE x == [call[c] EXCEPT !.pc = "failed", !.event = "failure", !.at = now]
    <3>1. x \in CallRecords   BY <1>1 DEF CallRecords
    <3>2. call' = [call EXCEPT ![c] = x]   BY <1>1, <2>2 DEF Consume, Fails
    <3>3. /\ x.browser = call[c].browser /\ x.login = call[c].login /\ x.txn = call[c].txn
          /\ x.at = now /\ x.hit = call[c].hit /\ x.pc = "failed"
      BY <1>1 DEF CallRecords
    <3> QED BY <2>2, <3>1, <3>2, <3>3
  <2> QED BY <2>1, <2>2
<1>6. Typed' /\ call'[c] = x /\ Elsewhere(c)
  <2>1. discovered' \in -1..now /\ faults' \in 0..MaxFaults   BY Bounded DEF Consume
  <2> QED BY <1>5, <2>1, CallStepTyped DEF Consume, IInv, Typed
<1>7. LoginsKeep /\ PendingKept /\ config' = config   BY <1>4, <1>6, QuietKeeps DEF Quiet
<1>8. CallsKeep   BY <1>1, <1>5, <1>6 DEF CallsKeep, Elsewhere
<1>9. Arrived(c)'   BY <1>1, <1>7, <1>8, ArrivedStays
<1>10. sessions' = sessions /\ login' = login   BY DEF Consume
<1>11. ASSUME NEW k \in Logins, Sent(k), k \in pending
       PROVE  k \in pending' \/ \E d \in Calls : Tried(d, k)'
  <2>1. CASE k = call[c].txn   BY <1>5, <1>6, <2>1 DEF Tried
  <2>2. CASE k # call[c].txn   BY <1>4, <1>11, <2>2
  <2> QED BY <2>1, <2>2
<1>12. Consumed(c)' /\ Explained(c)' /\ OnceEach'
  <2>1. CASE Found
    <3>1. x.pc = "exchanging" /\ call[c].txn = l /\ l \in pending /\ now - login[l].created <= config.ttl
      <4>1. call[c].txn = l /\ l \in pending /\ ~Expired(l)   BY <1>2, <2>1 DEF Available, StateMatches
      <4>2. login[l].created \in Nat /\ config.ttl \in Nat   BY Limits DEF IInv, Typed, LoginRecords
      <4> QED BY <1>1, <1>5, <2>1, <4>1, <4>2 DEF Expired
    <3>2. login[l].user # "none"   BY <1>1, <1>2 DEF Arrived
    <3>3. Consumed(c)'   BY <1>2, <1>4, <1>5, <1>6, <1>7, <1>10, <3>1, <3>2 DEF Consumed
    <3>4. Explained(c)'   BY <1>6, <3>1 DEF Explained
    <3>5. ASSUME NEW d \in Calls, Served(d), call[d].login = l PROVE FALSE
      BY <3>1, <3>5 DEF IInv, Consumed
    <3>6. \A d \in Calls : d # c => call'[d] = call[d] /\ (Served(d)' => Served(d))
      BY <1>6, <1>10 DEF Elsewhere, Served
    <3>7. OnceEach'
      <4> SUFFICES ASSUME NEW d \in Calls, NEW e \in Calls, Served(d)', Served(e)',
                          call'[d].login = call'[e].login, d # e
                   PROVE  FALSE
        BY DEF OnceEach
      <4>1. CASE d = c   BY <1>2, <1>5, <1>6, <3>5, <3>6, <4>1
      <4>2. CASE e = c   BY <1>2, <1>5, <1>6, <3>5, <3>6, <4>2
      <4>3. CASE d # c /\ e # c   BY <3>6, <4>3 DEF IInv, OnceEach
      <4> QED BY <4>1, <4>2, <4>3
    <3> QED BY <3>3, <3>4, <3>7
  <2>2. CASE ~Found
    <3>1. x.pc = "failed"   BY <1>5, <2>2
    <3>2. ~Served(c)'   BY <1>3, <1>6, <1>10, <3>1 DEF Served
    <3>3. OnceEach'
      <4>1. \A d \in Calls : d # c => (Served(d)' => Served(d))   BY <1>6, <1>10 DEF Served, Elsewhere
      <4> QED BY <1>6, <3>2, <4>1, OnceStays DEF Elsewhere
    <3>4. Explained(c)'
      <4> DEFINE Why == \/ call[c].hit
                        \/ login[l].browser # call[c].browser
                        \/ \E d \in Calls : Rival(c, d)
                        \/ login[l].displaced
                        \/ now - login[l].created > config.ttl
                        \/ config.shared /\ now >= login[l].keyEnd
                        \/ Crowded(l)
      <4>1. Why
        <5>1. CASE call[c].txn # l   BY <1>1, <1>2, <5>1 DEF Arrived
        <5>2. CASE call[c].txn = l /\ Expired(l)   BY <5>2 DEF Expired
        <5>3. CASE call[c].txn = l /\ l \in pending /\ ~Available(l)
          <6>1. login[l].keyEnd \in Nat   BY DEF IInv, Typed, LoginRecords
          <6> QED BY <1>1, <5>3, <6>1 DEF Available
        <5>4. CASE call[c].txn = l /\ l \notin pending
          <6>1. Waiting(l) /\ Sent(l)   BY <1>1, <1>2 DEF Arrived, IInv, Sent
          <6>2. ASSUME NEW d \in Calls, Tried(d, l) PROVE Why
            <7>1. CASE d = c   BY <1>1, <6>2, <7>1 DEF Tried
            <7>2. CASE d # c   BY <1>2, <6>2, <7>2 DEF Tried, Rival
            <7> QED BY <7>1, <7>2
          <6> QED BY <5>4, <6>1, <6>2 DEF Waiting
        <5> QED BY <1>2, <2>2, <5>1, <5>2, <5>3, <5>4 DEF StateMatches
      <4>2. ASSUME NEW d \in Calls, Rival(c, d) PROVE Rival(c, d)'
        BY <1>5, <1>6, <4>2 DEF Rival, Elsewhere
      <4>3. Crowded(l) => Crowded(l)'   BY <1>7, <1>10 DEF Crowded, Later
      <4> HIDE DEF Found
      <4> QED BY <1>2, <1>5, <1>6, <1>7, <1>10, <4>1, <4>2, <4>3 DEF Explained
    <3> QED BY <3>2, <3>3, <3>4 DEF Consumed
  <2> QED BY <2>1, <2>2
<1> QED BY <1>4, <1>6, <1>8, <1>9, <1>10, <1>11, <1>12, QuietStep

LEMMA ConsumeLostKeeps ==
  ASSUME IInv, NEW c \in Calls, NEW applied \in BOOLEAN, ConsumeLost(c, applied) PROVE IInv'
<1>1. /\ call[c] \in CallRecords /\ call[c].pc = "consuming" /\ call \in [Calls -> CallRecords]
      /\ Arrived(c)
  BY DEF IInv, Typed, ConsumeLost
<1>2. ~Served(c)   BY <1>1 DEF IInv, Consumed
<1>3. Quiet /\ \A l \in pending : l \in pending' \/ l = call[c].txn   BY DEF ConsumeLost, Quiet, Taken
<1>4. PICK x \in CallRecords : /\ call' = [call EXCEPT ![c] = x]
                               /\ x.browser = call[c].browser /\ x.login = call[c].login
                               /\ x.txn = call[c].txn /\ x.hit /\ x.pc \in {"consuming", "failed"}
  <2>1. CASE call' = [call EXCEPT ![c].tries = @ + 1, ![c].hit = TRUE]
    <3> DEFINE x == [call[c] EXCEPT !.tries = call[c].tries + 1, !.hit = TRUE]
    <3>1. x \in CallRecords
      <4>1. call[c].tries + 1 \in Nat   BY <1>1 DEF CallRecords
      <4> QED BY <1>1, <4>1 DEF CallRecords
    <3>2. call' = [call EXCEPT ![c] = x]   BY <1>1, <2>1
    <3>3. /\ x.browser = call[c].browser /\ x.login = call[c].login /\ x.txn = call[c].txn
          /\ x.hit /\ x.pc = "consuming"
      BY <1>1 DEF CallRecords
    <3> QED BY <3>1, <3>2, <3>3
  <2>2. CASE call' = Unavailable(c)
    <3> DEFINE x == [call[c] EXCEPT !.pc = "failed", !.hit = TRUE]
    <3>1. x \in CallRecords   BY <1>1 DEF CallRecords
    <3>2. call' = [call EXCEPT ![c] = x]   BY <1>1, <2>2 DEF Unavailable
    <3>3. /\ x.browser = call[c].browser /\ x.login = call[c].login /\ x.txn = call[c].txn
          /\ x.hit /\ x.pc = "failed"
      BY <1>1 DEF CallRecords
    <3> QED BY <3>1, <3>2, <3>3
  <2> QED BY <2>1, <2>2 DEF ConsumeLost
<1>5. Typed' /\ call'[c] = x /\ Elsewhere(c)
  <2>1. discovered' \in -1..now /\ faults' \in 0..MaxFaults   BY Bounded DEF ConsumeLost
  <2> QED BY <1>4, <2>1, CallStepTyped DEF ConsumeLost, IInv, Typed
<1>6. LoginsKeep /\ PendingKept   BY <1>3, <1>5, QuietKeeps
<1>7. CallsKeep   BY <1>1, <1>4, <1>5 DEF CallsKeep, Elsewhere
<1>8. Arrived(c)'   BY <1>1, <1>6, <1>7, ArrivedStays
<1>9. sessions' = sessions   BY DEF ConsumeLost
<1>10. ~Served(c)'   BY <1>2, <1>4, <1>5, <1>9 DEF Served
<1>11. Consumed(c)' /\ Explained(c)'   BY <1>4, <1>5, <1>10 DEF Consumed, Explained
<1>12. OnceEach'
  <2>1. \A d \in Calls : d # c => (Served(d)' => Served(d))   BY <1>5, <1>9 DEF Served, Elsewhere
  <2> QED BY <1>5, <1>10, <2>1, OnceStays DEF Elsewhere
<1>13. ASSUME NEW k \in Logins, Sent(k), k \in pending
       PROVE  k \in pending' \/ \E d \in Calls : Tried(d, k)'
  <2>1. CASE k = call[c].txn   BY <1>4, <1>5, <2>1 DEF Tried
  <2>2. CASE k # call[c].txn   BY <1>3, <1>13, <2>2
  <2> QED BY <2>1, <2>2
<1> QED BY <1>3, <1>5, <1>7, <1>8, <1>9, <1>11, <1>12, <1>13, QuietStep

\* A callback arrives with whatever cookie its browser has.
LEMMA CallbackKeeps ==
  ASSUME IInv, NEW c \in Calls, NEW l \in Logins, NEW b \in Browsers, Callback(c, l, b) PROVE IInv'
<1>1. /\ call[c].pc = "idle" /\ call \in [Calls -> CallRecords] /\ login[l].pc = "returning"
      /\ cookie[b] \in Logins \cup {"none"} /\ Named(b) /\ Held(l)
  BY DEF IInv, Typed, Callback
<1>2. ~Served(c)   BY <1>1 DEF IInv, Consumed
<1>3. Quiet /\ pending' = pending   BY DEF Callback, Quiet
<1> DEFINE early == login[l].user = "none" \/ cookie[b] = "none"
<1>4. PICK x \in CallRecords : /\ call' = [call EXCEPT ![c] = x]
                               /\ x.browser = b /\ x.login = l /\ x.txn = cookie[b]
                               /\ (early /\ x.pc = "failed") \/ (~early /\ x.pc = "consuming")
  <2>0. NoCall \in CallRecords   BY DEF NoCall, CallRecords
  <2>1. CASE early
    <3> DEFINE x == [NoCall EXCEPT !.browser = b, !.login = l, !.txn = cookie[b],
                                   !.pc = "failed", !.event = "failure"]
    <3>1. x \in CallRecords   BY <1>1, <2>0 DEF CallRecords
    <3>2. call' = [call EXCEPT ![c] = x]   BY <1>1, <2>1 DEF Callback
    <3>3. x.browser = b /\ x.login = l /\ x.txn = cookie[b] /\ x.pc = "failed"   BY <2>0 DEF CallRecords
    <3> QED BY <2>1, <3>1, <3>2, <3>3
  <2>2. CASE ~early
    <3> DEFINE x == [NoCall EXCEPT !.browser = b, !.login = l, !.txn = cookie[b], !.pc = "consuming"]
    <3>1. x \in CallRecords   BY <1>1, <2>0 DEF CallRecords
    <3>2. call' = [call EXCEPT ![c] = x]   BY <1>1, <2>2 DEF Callback
    <3>3. x.browser = b /\ x.login = l /\ x.txn = cookie[b] /\ x.pc = "consuming"   BY <2>0 DEF CallRecords
    <3> QED BY <2>2, <3>1, <3>2, <3>3
  <2> QED BY <2>1, <2>2
<1>5. Typed' /\ call'[c] = x /\ Elsewhere(c)
  <2>1. discovered' \in -1..now /\ faults' \in 0..MaxFaults   BY Bounded DEF Callback
  <2> QED BY <1>4, <2>1, CallStepTyped, ZenonT(40) DEF Callback, IInv, Typed
<1>6. CallsKeep   BY <1>1, <1>5 DEF CallsKeep, Elsewhere
<1>7. sessions' = sessions /\ login' = login   BY DEF Callback
<1>8. cookie[b] # l => login[l].browser # b \/ login[l].displaced   BY <1>1 DEF Held
<1>9. Arrived(c)'
  <2>1. cookie[b] # "none" => login[cookie[b]].browser = b   BY <1>1 DEF Named
  <2> QED BY <1>1, <1>4, <1>5, <1>7, <1>8, <2>1 DEF Arrived
<1>10. ~Served(c)'   BY <1>2, <1>4, <1>5, <1>7 DEF Served
<1>11. Explained(c)'
  <2>1. ASSUME early
        PROVE  login[l].user = "none" \/ login[l].browser # b \/ login[l].displaced
    BY <1>8, <2>1, NobodyNamed
  <2> QED BY <1>4, <1>5, <1>7, <2>1 DEF Explained
<1>12. OnceEach'
  <2>1. \A d \in Calls : d # c => (Served(d)' => Served(d))   BY <1>5, <1>7 DEF Served, Elsewhere
  <2> QED BY <1>5, <1>10, <2>1, OnceStays DEF Elsewhere
<1> QED BY <1>3, <1>5, <1>6, <1>7, <1>9, <1>10, <1>11, <1>12, QuietStep DEF Consumed
-----------------------------------------------------------------------------
(***************************************************************************)
(* The steps of /auth/login.                                               *)
(***************************************************************************)
LEMMA LoginStep ==
  ASSUME IInv, LoginsKeep, CallsKeep, PendingKept, config' = config, Typed', Kept',
         \A c \in Calls : Stays(c),
         \A l \in Logins : Begun(l)' /\ Held(l)' /\ Waiting(l)',
         \A b \in Browsers : Named(b)'
  PROVE  IInv'
<1>1. IsFiniteSet(Placed)'   BY DEF Kept
<1>2. \A c \in Calls : Arrived(c)' /\ Consumed(c)' /\ Explained(c)'   BY <1>1, StaysKeeps
<1>3. OnceEach'   BY OnceStays DEF Stays
<1> QED BY <1>2, <1>3 DEF IInv

LEMMA CallsStand ==
  ASSUME UNCHANGED <<call, sessions>>
  PROVE  CallsKeep /\ \A c \in Calls : Stays(c)
BY DEF CallsKeep, Stays, Served

\* l alone changes.
Others(l) == \A k \in Logins : k # l => login'[k] = login[k]

LEMMA LoginChanges ==
  ASSUME IInv, NEW l \in Logins, NEW x \in LoginRecords, login' = [login EXCEPT ![l] = x],
         UNCHANGED <<config, now, cookie, call, sessions, signedIn>>,
         discovered' \in -1..now, faults' \in 0..MaxFaults
  PROVE  Typed' /\ login'[l] = x /\ Others(l)
BY DEF IInv, Typed, Others

\* A step of a login that the store, and the cookies, do not learn of.
LEMMA OutsideStep ==
  ASSUME IInv, NEW l \in Logins, Others(l), Typed', UNCHANGED <<config, cookie, call, sessions, pending>>,
         login'[l].place = login[l].place, login'[l].displaced = login[l].displaced,
         login[l].browser # "none" => login'[l].browser = login[l].browser,
         \/ login[l].pc = "none" /\ login'[l].pc \in {"storing", "failed"}
         \/ /\ login[l].pc = "atProvider" /\ login'[l].pc = "returning"
            /\ login'[l].created = login[l].created /\ login'[l].keyEnd = login[l].keyEnd,
         Begun(l)'
  PROVE  IInv'
<1>1. Begun(l) /\ Held(l) /\ Waiting(l) /\ Kept   BY DEF IInv
<1>2. CallsKeep /\ \A c \in Calls : Stays(c)   BY CallsStand
<1>3. LoginsKeep /\ PendingKept   BY DEF LoginsKeep, Others, Sent, PendingKept
<1>4. Placed' = Placed   BY DEF Placed, Others
<1>5. Kept'
  <2>1. \A k \in Logins : login'[k].place = login[k].place   BY DEF Others
  <2>2. Placed \subseteq Logins   BY DEF Placed
  <2> QED BY <1>1, <1>4, <2>1, <2>2 DEF Kept
<1>6. IsFiniteSet(Placed)'   BY <1>5 DEF Kept
<1>7. \A b \in Browsers : Named(b)'
  <2> SUFFICES ASSUME NEW b \in Browsers, cookie[b] # "none"
               PROVE  login'[cookie[b]].browser = b /\ login'[cookie[b]].pc \in {"atProvider", "returning"}
    BY DEF Named
  <2>1. Named(b) /\ cookie[b] \in Logins   BY DEF IInv, Typed
  <2>2. b # "none"   BY NobodyNamed
  <2> QED BY <2>1, <2>2 DEF Named, Others
<1>8. ASSUME NEW k \in Logins PROVE Begun(k)' /\ Held(k)'
  <2>1. CASE k = l
    <3>1. Held(l)'
      <4>1. CASE login[l].pc = "none"   BY <4>1 DEF Held
      <4>2. CASE login[l].pc = "atProvider"
        <5>1. login[l].browser \in Browsers   BY <1>1, <4>2 DEF Begun
        <5> QED BY <1>1, <4>2, <5>1, NobodyNamed DEF Held
      <4> QED BY <4>1, <4>2
    <3> QED BY <2>1, <3>1
  <2>2. CASE k # l   BY <2>2 DEF IInv, Others, Begun, Held, Sent
  <2> QED BY <2>1, <2>2
<1>9. ASSUME NEW k \in Logins PROVE Waiting(k)'
  <2>1. CASE Sent(k)   BY <1>2, <1>3, <1>6, <2>1, WaitingStays
  <2>2. CASE ~Sent(k)
    <3>1. ~Sent(k)'   BY <2>2 DEF Sent, Others
    <3> QED BY <3>1 DEF Waiting
  <2> QED BY <2>1, <2>2
<1> QED BY <1>2, <1>3, <1>5, <1>7, <1>8, <1>9, LoginStep

LEMMA BeginKeeps == ASSUME IInv, NEW l \in Logins, NEW b \in Browsers, Begin(l, b) PROVE IInv'
<1>1. login[l].pc = "none" /\ now \in Nat /\ Begun(l)   BY Limits DEF Begin, IInv, Typed
<1>2. PICK x \in LoginRecords : /\ login' = [login EXCEPT ![l] = x]
                                /\ x.pc \in {"storing", "failed"} /\ x.browser = b /\ x.user = "none"
                                /\ x.place = 0 /\ x.displaced = FALSE
  <2>0. NoLogin \in LoginRecords   BY DEF NoLogin, LoginRecords
  <2>1. CASE login' = [login EXCEPT ![l] = [NoLogin EXCEPT !.pc = "storing", !.browser = b, !.created = now]]
    <3> DEFINE x == [NoLogin EXCEPT !.pc = "storing", !.browser = b, !.created = now]
    <3>1. x \in LoginRecords   BY <1>1, <2>0 DEF LoginRecords
    <3>2. x.pc = "storing" /\ x.browser = b /\ x.user = "none" /\ x.place = 0 /\ x.displaced = FALSE
      BY DEF NoLogin
    <3> QED BY <2>1, <3>1, <3>2
  <2>2. CASE login' = [login EXCEPT ![l] = [NoLogin EXCEPT !.pc = "failed", !.browser = b]]
    <3> DEFINE x == [NoLogin EXCEPT !.pc = "failed", !.browser = b]
    <3>1. x \in LoginRecords   BY <2>0 DEF LoginRecords
    <3>2. x.pc = "failed" /\ x.browser = b /\ x.user = "none" /\ x.place = 0 /\ x.displaced = FALSE
      BY DEF NoLogin
    <3> QED BY <2>2, <3>1, <3>2
  <2> QED BY <2>1, <2>2 DEF Begin
<1>3. Typed' /\ login'[l] = x /\ Others(l)
  <2>1. discovered' \in -1..now /\ faults' \in 0..MaxFaults   BY Bounded DEF Begin
  <2> QED BY <1>2, <2>1, LoginChanges DEF Begin
<1>4. Begun(l)'   BY <1>2, <1>3 DEF Begun, Sent
<1>5. login[l].place = 0 /\ login[l].browser = "none" /\ login[l].displaced = FALSE
  BY <1>1 DEF Begun, IInv, Typed, LoginRecords
<1> QED BY <1>1, <1>2, <1>3, <1>4, <1>5, OutsideStep DEF Begin

LEMMA ProviderKeeps ==
  ASSUME IInv, NEW l \in Logins, NEW user \in Users \cup {"none"}, ProviderAnswers(l, user) PROVE IInv'
<1>1. login[l].pc = "atProvider" /\ login[l] \in LoginRecords /\ Begun(l) /\ login \in [Logins -> LoginRecords]
  BY DEF ProviderAnswers, IInv, Typed
<1> DEFINE x == [login[l] EXCEPT !.pc = "returning", !.user = user]
<1>2. x \in LoginRecords   BY <1>1 DEF LoginRecords
<1>3. /\ x.pc = "returning" /\ x.browser = login[l].browser /\ x.created = login[l].created
      /\ x.keyEnd = login[l].keyEnd /\ x.place = login[l].place /\ x.displaced = login[l].displaced
  BY <1>1 DEF LoginRecords
<1>4. login' = [login EXCEPT ![l] = x]   BY <1>1 DEF ProviderAnswers
<1> HIDE DEF x
<1>5. Typed' /\ login'[l] = x /\ Others(l)
  <2>1. discovered' \in -1..now /\ faults' \in 0..MaxFaults   BY Bounded DEF ProviderAnswers
  <2> QED BY <1>2, <1>4, <2>1, LoginChanges DEF ProviderAnswers
<1>6. Begun(l)'   BY <1>1, <1>3, <1>5 DEF Begun, Sent
<1> QED BY <1>1, <1>3, <1>5, <1>6, OutsideStep DEF ProviderAnswers

\* Room drops the oldest transactions, and as many as it must.
LEMMA RoomForOne ==
  ASSUME IInv
  PROVE  /\ Room \subseteq pending /\ IsFiniteSet(Room) /\ Cardinality(Room) < MaxPending
         /\ \A l \in pending \ Room : /\ IsFiniteSet(Later(l, pending))
                                      /\ Cardinality(Later(l, pending)) >= MaxPending - 1
<1>1. IsFiniteSet(pending) /\ pending \subseteq Logins   BY FS_Subset DEF IInv, Kept, Placed
<1>2. Room \subseteq pending /\ IsFiniteSet(Room)   BY <1>1, FS_Subset DEF Room
<1>3. \A l \in Logins : IsFiniteSet(Later(l, pending)) /\ Cardinality(Later(l, pending)) \in Nat
  <2>1. \A l \in Logins : Later(l, pending) \subseteq pending   BY DEF Later
  <2> QED BY <1>1, <2>1, FS_Subset, FS_CardinalityType
<1>4. MaxPending \in Nat \ {0}   BY Limits
<1>5. Cardinality(Room) < MaxPending
  <2>1. CASE Room = {}   BY <1>4, <2>1, FS_EmptySet
  <2>2. CASE Room # {}
    <3> DEFINE places == {login[l].place : l \in Room}
    <3>1. \A l \in Logins : login[l].place \in Nat   BY DEF IInv, Typed, LoginRecords
    <3>2. places \subseteq Nat /\ places # {}   BY <1>1, <1>2, <2>2, <3>1
    <3>3. PICK p \in places : \A q \in places : p <= q
      <4> HIDE DEF places
      <4> QED BY <3>2, LeastNat
    <3>4. PICK k \in Room : \A l \in Room : login[k].place <= login[l].place   BY <3>3
    <3>5. Room \ {k} \subseteq Later(k, pending)
      <4> SUFFICES ASSUME NEW l \in Room, l # k PROVE l \in Later(k, pending)   OBVIOUS
      <4>1. k \in Placed /\ l \in Placed /\ k \in Logins /\ l \in Logins   BY <1>1, <1>2 DEF IInv, Kept
      <4>2. login[l].place # login[k].place   BY <4>1 DEF IInv, Kept
      <4>3. login[k].place <= login[l].place   BY <3>4
      <4> QED BY <1>2, <3>1, <4>1, <4>2, <4>3 DEF Later
    <3>6. Cardinality(Room \ {k}) <= Cardinality(Later(k, pending))
      BY <1>1, <1>2, <1>3, <3>5, FS_Subset
    <3>7. Cardinality(Room \ {k}) = Cardinality(Room) - 1   BY <1>2, FS_RemoveElement
    <3>8. Cardinality(Later(k, pending)) < MaxPending - 1   BY DEF Room
    <3>9. Cardinality(Room) \in Nat /\ Cardinality(Later(k, pending)) \in Nat   BY <1>1, <1>2, <1>3, FS_CardinalityType
    <3> QED BY <1>4, <3>6, <3>7, <3>8, <3>9
  <2> QED BY <2>1, <2>2
<1>6. ASSUME NEW l \in pending \ Room PROVE Cardinality(Later(l, pending)) >= MaxPending - 1
  BY <1>1, <1>3, <1>4 DEF Room
<1> QED BY <1>1, <1>2, <1>3, <1>5, <1>6

\* What storing l makes of it: x is its record afterwards.
Storing(l, x) ==
  /\ login[l].pc = "storing" /\ login' = [login EXCEPT ![l] = x] /\ x \in LoginRecords
  /\ x.browser = login[l].browser /\ x.user = login[l].user /\ x.displaced = login[l].displaced
  /\ \/ /\ x.pc \in {"storing", "redirecting", "failed"}
        /\ x.place = (IF login[l].place = 0 THEN 1 + Cardinality(Placed) ELSE login[l].place)
        /\ pending' = (IF config.shared THEN pending ELSE Room) \cup {l}
        /\ x.pc = "storing" => config.shared
     \/ /\ config.shared /\ x.pc \in {"storing", "failed"} /\ x.place = login[l].place
        /\ pending' = pending

LEMMA StoringKeepsPlaces ==
  ASSUME IInv, NEW l \in Logins, NEW x, Storing(l, x), login'[l] = x, Others(l), config' = config
  PROVE  /\ Kept' /\ Placed \subseteq Placed' /\ Placed' \subseteq Placed \cup {l}
         /\ \A k \in Logins \ {l} : ~config.shared /\ k \in pending => k \in pending' \/ Crowded(k)'
<1>1. /\ Kept /\ Begun(l) /\ Cardinality(Placed) \in Nat /\ IsFiniteSet(Placed)
      /\ \A k \in Logins : login[k].place \in Nat
      /\ \A k \in Placed : k \in Logins /\ login[k].place > 0 /\ login[k].place <= Cardinality(Placed)
      /\ \A j, k \in Placed : login[j].place = login[k].place => j = k
  BY FS_CardinalityType DEF IInv, Kept, Typed, LoginRecords, Placed
<1>2. CASE x.place = login[l].place
  <2>1. \A k \in Logins : login'[k].place = login[k].place   BY <1>2 DEF Others
  <2>2. Placed' = Placed   BY <2>1 DEF Placed
  <2>3. CASE config.shared
    <3>1. pending' \subseteq Placed'
      <4>1. CASE pending' = pending   BY <1>1, <2>2, <4>1 DEF Kept
      <4>2. CASE pending' # pending
        <5>1. x.place > 0   BY <1>1, <4>2 DEF Storing
        <5>2. l \in Placed   BY <1>2, <5>1 DEF Placed
        <5> QED BY <1>1, <2>2, <2>3, <5>2 DEF Storing, Kept
      <4> QED BY <4>1, <4>2
    <3>2. Kept'   BY <1>1, <2>1, <2>2, <2>3, <3>1 DEF Kept
    <3> QED BY <2>2, <2>3, <3>2
  <2>4. CASE ~config.shared
    <3>1. login[l].place = 0   BY <1>1, <2>4 DEF Begun, Storing
    <3>2. x.place = 1 + Cardinality(Placed)   BY <2>4, <3>1 DEF Storing
    <3> QED BY <1>1, <1>2, <3>1, <3>2
  <2> QED BY <2>3, <2>4
<1>3. CASE x.place # login[l].place
  <2>1. login[l].place = 0 /\ x.place = 1 + Cardinality(Placed)   BY <1>3 DEF Storing
  <2>2. l \notin Placed   BY <2>1 DEF Placed
  <2>3. Placed' = Placed \cup {l}   BY <1>1, <2>1 DEF Placed, Others
  <2>4. IsFiniteSet(Placed') /\ Cardinality(Placed') = Cardinality(Placed) + 1
    BY <1>1, <2>2, <2>3, FS_AddElement
  <2>5. \A k \in Placed : k # l /\ login'[k].place = login[k].place   BY <1>1, <2>2 DEF Others
  <2>6. \A k \in Placed' : login'[k].place <= Cardinality(Placed')
    <3> SUFFICES ASSUME NEW k \in Placed' PROVE login'[k].place <= Cardinality(Placed')   OBVIOUS
    <3>1. CASE k = l   BY <1>1, <2>1, <2>4, <3>1
    <3>2. CASE k \in Placed   BY <1>1, <2>4, <2>5, <3>2
    <3> QED BY <2>3, <3>1, <3>2
  <2>7. \A j, k \in Placed' : login'[j].place = login'[k].place => j = k
    <3> SUFFICES ASSUME NEW j \in Placed', NEW k \in Placed', login'[j].place = login'[k].place PROVE j = k   OBVIOUS
    <3>1. CASE j = l /\ k \in Placed   BY <1>1, <2>1, <2>5, <3>1
    <3>2. CASE k = l /\ j \in Placed   BY <1>1, <2>1, <2>5, <3>2
    <3>3. CASE j \in Placed /\ k \in Placed   BY <1>1, <2>5, <3>3
    <3> QED BY <2>3, <3>1, <3>2, <3>3
  <2>8. pending' = (IF config.shared THEN pending ELSE Room) \cup {l}   BY <1>3 DEF Storing
  <2>9. pending' \subseteq Placed'   BY <1>1, <2>3, <2>8, RoomForOne DEF Kept
  <2>10. ~config.shared => Cardinality(pending') <= MaxPending
    <3>1. Cardinality(Room \cup {l}) <= Cardinality(Room) + 1 /\ Cardinality(Room) \in Nat /\ Cardinality(Room \cup {l}) \in Nat
      <4>1. IsFiniteSet(Room)   BY RoomForOne
      <4>2. IsFiniteSet(Room \cup {l}) /\ Cardinality(Room \cup {l}) = IF l \in Room THEN Cardinality(Room) ELSE Cardinality(Room) + 1
        BY <4>1, FS_AddElement
      <4> QED BY <4>1, <4>2, FS_CardinalityType
    <3> QED BY <2>8, <3>1, RoomForOne, Limits
  <2>11. Kept'   BY <2>4, <2>6, <2>7, <2>9, <2>10 DEF Kept
  <2>12. ASSUME NEW k \in Logins \ {l}, ~config.shared, k \in pending, k \notin pending' PROVE Crowded(k)'
    <3>1. k \in Placed /\ k \in pending \ Room   BY <1>1, <2>8, <2>12 DEF Kept
    <3>2. IsFiniteSet(Later(k, pending)) /\ Cardinality(Later(k, pending)) >= MaxPending - 1   BY <3>1, RoomForOne
    <3>3. l \notin Later(k, pending)   BY <1>1, <2>2 DEF Later, Kept
    <3>4. /\ IsFiniteSet(Later(k, pending) \cup {l})
          /\ Cardinality(Later(k, pending) \cup {l}) = Cardinality(Later(k, pending)) + 1
      BY <3>2, <3>3, FS_AddElement
    <3>5. Later(k, pending) \cup {l} \subseteq Later(k, Logins)'
      <4>1. login'[k].place = login[k].place   BY <2>5, <3>1
      <4>2. \A j \in Later(k, pending) : j \in Logins /\ login'[j].place > login'[k].place
        BY <1>1, <2>5, <4>1 DEF Later, Kept
      <4>3. login'[l].place > login'[k].place   BY <1>1, <2>1, <3>1, <4>1
      <4> QED BY <4>2, <4>3 DEF Later
    <3>6. Later(k, Logins)' \subseteq Placed'
      <4>1. login'[k].place = login[k].place   BY <2>5, <3>1
      <4>2. \A j \in Logins : login'[j].place \in Nat   BY <1>1, <2>1 DEF Others
      <4> QED BY <1>1, <3>1, <4>1, <4>2 DEF Later, Placed
    <3>7. IsFiniteSet(Later(k, Logins)') /\ Cardinality(Later(k, Logins)') \in Nat   BY <2>4, <3>6, FS_Subset, FS_CardinalityType
    <3>8. Cardinality(Later(k, pending) \cup {l}) <= Cardinality(Later(k, Logins)')   BY <3>5, <3>7, FS_Subset
    <3>9. Cardinality(Later(k, pending)) \in Nat   BY <3>2, FS_CardinalityType
    <3> QED BY <2>12, <3>2, <3>4, <3>7, <3>8, <3>9, Limits DEF Crowded
  <2> QED BY <2>3, <2>11, <2>12
<1> QED BY <1>2, <1>3

LEMMA StoringKeeps ==
  ASSUME IInv, NEW l \in Logins, NEW x, Storing(l, x),
         UNCHANGED <<config, now, cookie, call, sessions, signedIn>>,
         discovered' \in -1..now, faults' \in 0..MaxFaults
  PROVE  IInv'
<1>1. Typed' /\ login'[l] = x /\ Others(l)   BY LoginChanges DEF Storing
<1>2. Begun(l) /\ Kept /\ login[l].pc = "storing" /\ login[l] \in LoginRecords /\ x \in LoginRecords
  BY DEF IInv, Storing, Typed
<1>3. /\ Kept' /\ Placed \subseteq Placed' /\ Placed' \subseteq Placed \cup {l}
      /\ \A k \in Logins \ {l} : ~config.shared /\ k \in pending => k \in pending' \/ Crowded(k)'
  BY <1>1, StoringKeepsPlaces
<1>4. CallsKeep /\ \A c \in Calls : Stays(c)   BY CallsStand
<1>5. LoginsKeep
  <2>1. login[l].place > 0 => x.place = login[l].place   BY <1>2 DEF Storing
  <2>2. ~Sent(l) /\ login[l].pc # "returning" /\ x.browser = login[l].browser /\ x.displaced = login[l].displaced
    BY <1>2 DEF Sent, Storing
  <2>3. \A k \in Logins : k # l => (Sent(k)' <=> Sent(k))   BY <1>1 DEF Others, Sent
  <2> QED BY <1>1, <2>1, <2>2, <2>3 DEF LoginsKeep, Others
<1>6. PendingKept   BY <1>2, RoomForOne DEF PendingKept, Storing
<1>7. Begun(l)' /\ Held(l)' /\ Waiting(l)'
  <2>1. CASE x.pc = "redirecting"
    <3>1. l \in pending' /\ x.place > 0
      <4>1. l \in pending' /\ x.place = (IF login[l].place = 0 THEN 1 + Cardinality(Placed) ELSE login[l].place)
        BY <2>1 DEF Storing
      <4>2. Cardinality(Placed) \in Nat /\ login[l].place \in Nat   BY <1>2, FS_CardinalityType DEF Kept, LoginRecords
      <4> QED BY <4>1, <4>2
    <3> QED BY <1>1, <1>2, <2>1, <3>1 DEF Begun, Held, Waiting, Sent, Storing
  <2>2. CASE x.pc = "failed"   BY <1>1, <1>2, <2>2 DEF Begun, Held, Waiting, Sent, Storing
  <2>3. CASE x.pc = "storing"
    <3>1. config.shared   BY <2>3 DEF Storing
    <3> QED BY <1>1, <1>2, <2>3, <3>1 DEF Begun, Held, Waiting, Sent, Storing
  <2> QED BY <2>1, <2>2, <2>3 DEF Storing
<1>8. ASSUME NEW k \in Logins, k # l PROVE Begun(k)' /\ Held(k)' /\ Waiting(k)'
  <2>1. login'[k] = login[k]   BY <1>1, <1>8 DEF Others
  <2>2. Begun(k)' /\ Held(k)'   BY <2>1 DEF IInv, Begun, Held, Sent
  <2>3. CASE Sent(k)
    <3>1. k \in pending => k \in pending' \/ Crowded(k)'
      <4>1. config.shared => pending \subseteq pending'   BY DEF Storing
      <4> QED BY <1>3, <1>8, <4>1
    <3>2. IsFiniteSet(Placed)'   BY <1>3 DEF Kept
    <3> QED BY <1>1, <1>4, <1>5, <2>2, <2>3, <3>1, <3>2, WaitingStays
  <2>4. CASE ~Sent(k)   BY <2>1, <2>2, <2>4 DEF Waiting, Sent
  <2> QED BY <2>2, <2>3, <2>4
<1>9. ASSUME NEW b \in Browsers PROVE Named(b)'
  <2>1. Named(b) /\ cookie[b] \in Logins \cup {"none"}   BY DEF IInv, Typed
  <2>2. cookie[b] # l   BY <1>2, <2>1, NobodyNamed DEF Named
  <2> QED BY <1>1, <2>1, <2>2 DEF Named, Others
<1> QED BY <1>1, <1>3, <1>4, <1>5, <1>6, <1>7, <1>8, <1>9, LoginStep

LEMMA StoredRecord ==
  ASSUME IInv, NEW l \in Logins
  PROVE  \E x \in LoginRecords :
           /\ Stored(l) = [login EXCEPT ![l] = x]
           /\ x.pc = login[l].pc /\ x.browser = login[l].browser /\ x.user = login[l].user
           /\ x.displaced = login[l].displaced /\ x.tries = login[l].tries
           /\ x.place = IF login[l].place = 0 THEN 1 + Cardinality(Placed) ELSE login[l].place
<1>1. /\ login \in [Logins -> LoginRecords] /\ login[l] \in LoginRecords /\ now + KeyLife \in Nat
      /\ Cardinality(Placed) \in Nat
  BY Limits, FS_CardinalityType DEF IInv, Typed, Kept
<1> DEFINE place == IF login[l].place = 0 THEN 1 + Cardinality(Placed) ELSE login[l].place
           x == [login[l] EXCEPT !.keyEnd = now + KeyLife, !.place = place]
<1>2. place \in Nat   BY <1>1 DEF LoginRecords
<1>3. Stored(l) = [login EXCEPT ![l] = x]   BY <1>1 DEF Stored, LoginRecords
<1> HIDE DEF place
<1>4. x \in LoginRecords   BY <1>1, <1>2 DEF LoginRecords
<1>5. /\ x.pc = login[l].pc /\ x.browser = login[l].browser /\ x.user = login[l].user
      /\ x.displaced = login[l].displaced /\ x.tries = login[l].tries /\ x.place = place
  BY <1>1 DEF LoginRecords
<1> QED BY <1>3, <1>4, <1>5 DEF place

LEMMA StoreKeeps == ASSUME IInv, NEW l \in Logins, StoreTransaction(l) PROVE IInv'
<1>1. PICK y \in LoginRecords :
        /\ Stored(l) = [login EXCEPT ![l] = y]
        /\ y.browser = login[l].browser /\ y.user = login[l].user /\ y.displaced = login[l].displaced
        /\ y.place = IF login[l].place = 0 THEN 1 + Cardinality(Placed) ELSE login[l].place
  BY StoredRecord
<1> DEFINE x == [y EXCEPT !.pc = "redirecting"]
<1>2. x \in LoginRecords   BY <1>1 DEF LoginRecords
<1>3. /\ x.pc = "redirecting" /\ x.browser = y.browser /\ x.user = y.user
      /\ x.displaced = y.displaced /\ x.place = y.place
  BY <1>1 DEF LoginRecords
<1>4. login' = [login EXCEPT ![l] = x]   BY <1>1 DEF StoreTransaction, IInv, Typed
<1> HIDE DEF x
<1>5. Storing(l, x)   BY <1>1, <1>2, <1>3, <1>4 DEF Storing, StoreTransaction
<1>6. discovered' \in -1..now /\ faults' \in 0..MaxFaults   BY Bounded DEF StoreTransaction
<1> QED BY <1>5, <1>6, StoringKeeps DEF StoreTransaction

LEMMA StoreLostKeeps ==
  ASSUME IInv, NEW l \in Logins, NEW applied \in BOOLEAN, StoreLost(l, applied) PROVE IInv'
<1>0. login[l].pc = "storing" /\ login \in [Logins -> LoginRecords] /\ login[l] \in LoginRecords
      /\ config.shared
  BY DEF StoreLost, IInv, Typed
<1>1. PICK y \in LoginRecords :
        /\ login' = (IF login[l].tries < RetryLimit THEN [[login EXCEPT ![l] = y] EXCEPT ![l].tries = @ + 1]
                     ELSE [[login EXCEPT ![l] = y] EXCEPT ![l].pc = "failed"])
        /\ y.pc = "storing" /\ y.browser = login[l].browser /\ y.user = login[l].user
        /\ y.displaced = login[l].displaced /\ y.tries = login[l].tries
        /\ \/ /\ pending' = pending \cup {l}
              /\ y.place = IF login[l].place = 0 THEN 1 + Cardinality(Placed) ELSE login[l].place
           \/ pending' = pending /\ y.place = login[l].place
  <2>1. CASE applied
    <3>1. PICK y \in LoginRecords :
            /\ Stored(l) = [login EXCEPT ![l] = y]
            /\ y.pc = login[l].pc /\ y.browser = login[l].browser /\ y.user = login[l].user
            /\ y.displaced = login[l].displaced /\ y.tries = login[l].tries
            /\ y.place = IF login[l].place = 0 THEN 1 + Cardinality(Placed) ELSE login[l].place
      BY StoredRecord
    <3> QED BY <1>0, <2>1, <3>1 DEF StoreLost
  <2>2. CASE ~applied
    <3>1. login = [login EXCEPT ![l] = login[l]]   BY <1>0
    <3>2. /\ login' = (IF login[l].tries < RetryLimit THEN [login EXCEPT ![l].tries = @ + 1]
                       ELSE [login EXCEPT ![l].pc = "failed"])
          /\ pending' = pending
      BY <1>0, <2>2 DEF StoreLost
    <3> QED BY <1>0, <3>1, <3>2
  <2> QED BY <2>1, <2>2
<1>2. \E x : Storing(l, x)
  <2>1. CASE login[l].tries < RetryLimit
    <3> DEFINE x == [y EXCEPT !.tries = y.tries + 1]
    <3>1. y.tries + 1 \in Nat   BY <1>1 DEF LoginRecords
    <3>2. x \in LoginRecords   BY <1>1, <3>1 DEF LoginRecords
    <3>3. /\ x.pc = "storing" /\ x.browser = y.browser /\ x.user = y.user
          /\ x.displaced = y.displaced /\ x.place = y.place
      BY <1>1 DEF LoginRecords
    <3>4. login' = [login EXCEPT ![l] = x]   BY <1>0, <1>1, <2>1
    <3> HIDE DEF x
    <3> QED BY <1>0, <1>1, <3>2, <3>3, <3>4 DEF Storing
  <2>2. CASE ~(login[l].tries < RetryLimit)
    <3> DEFINE x == [y EXCEPT !.pc = "failed"]
    <3>2. x \in LoginRecords   BY <1>1 DEF LoginRecords
    <3>3. /\ x.pc = "failed" /\ x.browser = y.browser /\ x.user = y.user
          /\ x.displaced = y.displaced /\ x.place = y.place
      BY <1>1 DEF LoginRecords
    <3>4. login' = [login EXCEPT ![l] = x]   BY <1>0, <1>1, <2>2
    <3> HIDE DEF x
    <3> QED BY <1>0, <1>1, <3>2, <3>3, <3>4 DEF Storing
  <2> QED BY <2>1, <2>2
<1>3. discovered' \in -1..now /\ faults' \in 0..MaxFaults   BY Bounded DEF StoreLost
<1> QED BY <1>2, <1>3, StoringKeeps DEF StoreLost

\* A login loses its cookie, and nothing else.
LEMMA DisplacedRecord ==
  ASSUME IInv, NEW b \in Browsers
  PROVE  /\ Displaced(b) \in [Logins -> LoginRecords]
         /\ \A k \in Logins :
              /\ Displaced(b)[k].pc = login[k].pc /\ Displaced(b)[k].browser = login[k].browser
              /\ Displaced(b)[k].user = login[k].user /\ Displaced(b)[k].created = login[k].created
              /\ Displaced(b)[k].keyEnd = login[k].keyEnd /\ Displaced(b)[k].place = login[k].place
              /\ Displaced(b)[k].displaced <=> (login[k].displaced \/ k = cookie[b])
<1>1. ASSUME NEW k \in Logins
      PROVE  /\ Displaced(b)[k] \in LoginRecords
             /\ Displaced(b)[k].pc = login[k].pc /\ Displaced(b)[k].browser = login[k].browser
             /\ Displaced(b)[k].user = login[k].user /\ Displaced(b)[k].created = login[k].created
             /\ Displaced(b)[k].keyEnd = login[k].keyEnd /\ Displaced(b)[k].place = login[k].place
             /\ Displaced(b)[k].displaced <=> (login[k].displaced \/ k = cookie[b])
  <2>1. login[k] \in LoginRecords   BY DEF IInv, Typed
  <2>2. CASE k = cookie[b]
    <3>1. Displaced(b)[k] = [login[k] EXCEPT !.displaced = TRUE]   BY <2>2 DEF Displaced
    <3> QED BY <2>1, <2>2, <3>1 DEF LoginRecords
  <2>3. CASE k # cookie[b]
    <3>1. Displaced(b)[k] = login[k]   BY <2>3 DEF Displaced
    <3> QED BY <2>1, <2>3, <3>1 DEF LoginRecords
  <2> QED BY <2>2, <2>3
<1> QED BY <1>1 DEF Displaced

\* The response of /auth/login, or of the callback, changes the one cookie.
LEMMA CookieStep ==
  ASSUME IInv, NEW b \in Browsers, Typed', config' = config, pending' = pending,
         CallsKeep, \A c \in Calls : Stays(c),
         \A k \in Logins :
           /\ login'[k].browser = login[k].browser /\ login'[k].user = login[k].user
           /\ login'[k].created = login[k].created /\ login'[k].keyEnd = login[k].keyEnd
           /\ login'[k].place = login[k].place
           /\ login'[k].displaced <=> login[k].displaced \/ k = cookie[b]
           /\ \/ login'[k].pc = login[k].pc
              \/ login[k].pc = "redirecting" /\ login'[k].pc = "atProvider" /\ k = cookie'[b],
         \A d \in Browsers : d # b => cookie'[d] = cookie[d],
         cookie'[b] # "none" => login'[cookie'[b]].browser = b /\ login'[cookie'[b]].pc = "atProvider"
  PROVE  IInv'
<1>1. LoginsKeep /\ PendingKept   BY DEF LoginsKeep, PendingKept, Sent
<1>2. Placed' = Placed   BY DEF Placed
<1>3. Kept'
  <2>1. Placed \subseteq Logins   BY DEF Placed
  <2> QED BY <1>2, <2>1 DEF IInv, Kept
<1>4. IsFiniteSet(Placed)'   BY <1>3 DEF Kept
<1>5. \A d \in Browsers : Named(d) /\ cookie[d] \in Logins \cup {"none"}   BY DEF IInv, Typed
<1>6. ASSUME NEW d \in Browsers PROVE Named(d)'
  <2>1. CASE d = b   BY <2>1 DEF Named
  <2>2. CASE d # b
    <3>1. cookie[d] \in Logins => login'[cookie[d]].pc = login[cookie[d]].pc \/ login[cookie[d]].pc = "redirecting"
      OBVIOUS
    <3> QED BY <1>5, <2>2, <3>1 DEF Named
  <2> QED BY <2>1, <2>2
<1>7. ASSUME NEW k \in Logins PROVE Begun(k)' /\ Held(k)' /\ Waiting(k)'
  <2>1. Begun(k) /\ Held(k)   BY DEF IInv
  <2>2. login[k].pc = "none" => k # cookie[b]   BY <1>5, NobodyNamed DEF Named
  <2>3. Begun(k)'   BY <2>1, <2>2 DEF Begun, Sent
  <2>4. Held(k)'
    <3>1. CASE login'[k].pc # login[k].pc
      <4>1. k = cookie'[b] /\ k # "none"   BY <3>1, NobodyNamed
      <4> QED BY <4>1 DEF Held
    <3>2. CASE login'[k].pc = login[k].pc
      <4> SUFFICES ASSUME login[k].pc \in {"atProvider", "returning"}, ~login'[k].displaced
                   PROVE  cookie'[login[k].browser] = k
        BY <3>2 DEF Held
      <4>1. cookie[login[k].browser] = k /\ k # cookie[b] /\ login[k].browser \in Browsers
        BY <2>1 DEF Held, Begun
      <4> QED BY <4>1
    <3> QED BY <3>1, <3>2
  <2>5. Waiting(k)'
    <3>1. Sent(k)' <=> Sent(k)   BY DEF Sent
    <3>2. CASE Sent(k)   BY <1>1, <1>4, <3>2, WaitingStays
    <3>3. CASE ~Sent(k)   BY <3>1, <3>3 DEF Waiting
    <3> QED BY <3>2, <3>3
  <2> QED BY <2>3, <2>4, <2>5
<1> QED BY <1>1, <1>3, <1>6, <1>7, LoginStep

LEMMA RedirectedKeeps == ASSUME IInv, NEW l \in Logins, Redirected(l) PROVE IInv'
<1>1. /\ login[l].pc = "redirecting" /\ Begun(l) /\ login[l] \in LoginRecords /\ Typed
      /\ login \in [Logins -> LoginRecords]
  BY DEF Redirected, IInv, Typed
<1>2. PICK b \in Browsers : b = login[l].browser   BY <1>1 DEF Begun
<1>3. cookie' = [cookie EXCEPT ![b] = l] /\ login' = [Displaced(b) EXCEPT ![l].pc = "atProvider"]
  BY <1>2 DEF Redirected
<1>4. cookie[b] # l   BY <1>1, <1>2, NobodyNamed DEF IInv, Named
<1> DEFINE old == Displaced(b)
<1>5. /\ old \in [Logins -> LoginRecords]
      /\ \A k \in Logins :
           /\ old[k].pc = login[k].pc /\ old[k].browser = login[k].browser
           /\ old[k].user = login[k].user /\ old[k].created = login[k].created
           /\ old[k].keyEnd = login[k].keyEnd /\ old[k].place = login[k].place
           /\ old[k].displaced <=> (login[k].displaced \/ k = cookie[b])
  BY DisplacedRecord
<1> HIDE DEF old
<1> DEFINE x == [old[l] EXCEPT !.pc = "atProvider"]
<1>6. x \in LoginRecords   BY <1>5 DEF LoginRecords
<1>7. /\ x.pc = "atProvider" /\ x.browser = b /\ x.user = login[l].user /\ x.created = login[l].created
      /\ x.keyEnd = login[l].keyEnd /\ x.place = login[l].place
      /\ x.displaced <=> (login[l].displaced \/ l = cookie[b])
  BY <1>2, <1>5 DEF LoginRecords
<1>8. login' = [old EXCEPT ![l] = x]   BY <1>3, <1>5 DEF old
<1> HIDE DEF x
<1>9. login' \in [Logins -> LoginRecords] /\ login'[l] = x /\ \A k \in Logins : k # l => login'[k] = old[k]
  BY <1>5, <1>6, <1>8
<1>10. Typed'
  <2>1. cookie' \in [Browsers -> Logins \cup {"none"}]   BY <1>1, <1>3 DEF Typed
  <2>2. UNCHANGED <<config, now, discovered, call, sessions, signedIn, faults>>   BY DEF Redirected
  <2> QED BY <1>1, <1>9, <2>1, <2>2 DEF Typed
<1>11. CallsKeep /\ \A c \in Calls : Stays(c)   BY CallsStand DEF Redirected
<1>12. cookie'[b] = l /\ \A d \in Browsers : d # b => cookie'[d] = cookie[d]   BY <1>1, <1>3 DEF Typed
<1>13. ASSUME NEW k \in Logins
       PROVE  /\ login'[k].browser = login[k].browser /\ login'[k].user = login[k].user
              /\ login'[k].created = login[k].created /\ login'[k].keyEnd = login[k].keyEnd
              /\ login'[k].place = login[k].place
              /\ login'[k].displaced <=> login[k].displaced \/ k = cookie[b]
              /\ \/ login'[k].pc = login[k].pc
                 \/ login[k].pc = "redirecting" /\ login'[k].pc = "atProvider" /\ k = cookie'[b]
  <2>1. CASE k = l   BY <1>1, <1>2, <1>7, <1>9, <1>12, <2>1
  <2>2. CASE k # l   BY <1>5, <1>9, <2>2
  <2> QED BY <2>1, <2>2
<1>14. login'[l].browser = b /\ login'[l].pc = "atProvider"   BY <1>7, <1>9
<1>15. config' = config /\ pending' = pending   BY DEF Redirected
<1> QED BY <1>10, <1>11, <1>12, <1>13, <1>14, <1>15, CookieStep

LEMMA SignedInKeeps == ASSUME IInv, NEW c \in Calls, SignedIn(c) PROVE IInv'
<1>1. /\ call[c].pc = "responding" /\ Arrived(c) /\ call[c] \in CallRecords /\ Typed
      /\ call \in [Calls -> CallRecords]
  BY DEF SignedIn, IInv, Typed
<1>2. PICK b \in Browsers : b = call[c].browser   BY <1>1 DEF Arrived
<1>3. /\ signedIn' = [signedIn EXCEPT ![b] = c] /\ cookie' = [cookie EXCEPT ![b] = "none"]
      /\ login' = Displaced(b)
  BY <1>2 DEF SignedIn
<1>4. /\ login' \in [Logins -> LoginRecords]
      /\ \A k \in Logins :
           /\ login'[k].pc = login[k].pc /\ login'[k].browser = login[k].browser
           /\ login'[k].user = login[k].user /\ login'[k].created = login[k].created
           /\ login'[k].keyEnd = login[k].keyEnd /\ login'[k].place = login[k].place
           /\ login'[k].displaced <=> (login[k].displaced \/ k = cookie[b])
  BY <1>3, DisplacedRecord
<1> DEFINE x == [call[c] EXCEPT !.pc = "done"]
<1>5. x \in CallRecords   BY <1>1 DEF CallRecords
<1>6. /\ x.pc = "done" /\ x.browser = call[c].browser /\ x.login = call[c].login /\ x.txn = call[c].txn
      /\ x.at = call[c].at /\ x.hit = call[c].hit
  BY <1>1 DEF CallRecords
<1>7. call' = [call EXCEPT ![c] = x]   BY <1>1 DEF SignedIn
<1> HIDE DEF x
<1>8. call' \in [Calls -> CallRecords] /\ call'[c] = x /\ Elsewhere(c)
  BY <1>1, <1>5, <1>7, CallChanges DEF CallsTyped
<1>9. CallsKeep   BY <1>1, <1>6, <1>8 DEF CallsKeep, Elsewhere
<1>10. sessions' = sessions /\ config' = config /\ pending' = pending   BY DEF SignedIn
<1>11. ASSUME NEW d \in Calls PROVE Stays(d)
  <2>1. CASE d = c
    <3>1. Served(c)   BY <1>1 DEF Served
    <3> QED BY <1>1, <1>6, <1>8, <2>1, <3>1 DEF Stays
  <2>2. CASE d # c   BY <1>8, <1>10, <2>2 DEF Stays, Served, Elsewhere
  <2> QED BY <2>1, <2>2
<1>12. cookie'[b] = "none" /\ \A d \in Browsers : d # b => cookie'[d] = cookie[d]   BY <1>1, <1>3 DEF Typed
<1>13. Typed'
  <2>1. cookie' \in [Browsers -> Logins \cup {"none"}]   BY <1>1, <1>3 DEF Typed
  <2>2. UNCHANGED <<config, now, discovered, sessions, faults>>   BY DEF SignedIn
  <2>3. signedIn' \in [Browsers -> sessions' \cup {"none"}]   BY <1>1, <1>3, <2>2 DEF Typed
  <2>4. \A d \in Calls : call'[d].pc \in {"responding", "done"} => d \in sessions'
    BY <1>1, <1>8, <2>2 DEF Typed, Elsewhere
  <2> QED BY <1>1, <1>4, <1>8, <2>1, <2>2, <2>3, <2>4 DEF Typed
<1> QED BY <1>4, <1>9, <1>10, <1>11, <1>12, <1>13, CookieStep

LEMMA StutterKeeps ==
  ASSUME IInv, UNCHANGED <<config, pending, login, cookie, call, sessions>>, Typed'
  PROVE  IInv'
<1>1. Quiet /\ (CallsKeep /\ \A c \in Calls : Stays(c))   BY CallsStand DEF Quiet
<1>2. /\ LoginsKeep /\ PendingKept /\ Kept' /\ IsFiniteSet(Placed)'
      /\ \A b \in Browsers : Named(b)'
      /\ \A l \in Logins : Begun(l)' /\ Held(l)' /\ (Sent(l)' <=> Sent(l))
  BY <1>1, QuietKeeps
<1>3. ASSUME NEW l \in Logins PROVE Waiting(l)'
  <2>1. CASE Sent(l)   BY <1>1, <1>2, <2>1, WaitingStays
  <2>2. CASE ~Sent(l)   BY <1>2, <2>2 DEF Waiting
  <2> QED BY <2>1, <2>2
<1> QED BY <1>1, <1>2, <1>3, LoginStep
-----------------------------------------------------------------------------
(***************************************************************************)
(* The invariant, and what follows from it.                                *)
(***************************************************************************)
LEMMA InitIInv == Init => IInv
<1> SUFFICES ASSUME Init PROVE IInv   OBVIOUS
<1>1. NoLogin \in LoginRecords /\ NoCall \in CallRecords   BY DEF NoLogin, NoCall, LoginRecords, CallRecords
<1>2. Typed
  <2>1. \A c \in Calls : call[c].pc = "idle"   BY DEF Init, NoCall
  <2>2. now \in 0..MaxTime /\ discovered \in -1..now /\ faults \in 0..MaxFaults   BY Limits DEF Init
  <2>3. /\ login \in [Logins -> LoginRecords] /\ call \in [Calls -> CallRecords]
        /\ cookie \in [Browsers -> Logins \cup {"none"}] /\ sessions \subseteq Calls
        /\ signedIn \in [Browsers -> sessions \cup {"none"}] /\ config \in Configs
    BY <1>1 DEF Init
  <2> QED BY <2>1, <2>2, <2>3 DEF Typed
<1>3. \A l \in Logins : login[l] = NoLogin   BY DEF Init
<1>4. \A c \in Calls : call[c] = NoCall   BY DEF Init
<1>5. Kept
  <2>1. Placed = {}   BY <1>3 DEF Placed, NoLogin
  <2>2. pending = {}   BY DEF Init
  <2> QED BY <2>1, <2>2, FS_EmptySet, Limits DEF Kept
<1>6. \A c \in Calls : Arrived(c) /\ Consumed(c) /\ Explained(c) /\ ~Served(c)
  BY <1>4 DEF Init, Arrived, Consumed, Explained, Served, NoCall
<1>7. \A l \in Logins : Begun(l) /\ Held(l) /\ Waiting(l)   BY <1>3 DEF Begun, Held, Waiting, Sent, NoLogin
<1>8. \A b \in Browsers : Named(b)   BY DEF Init, Named
<1> QED BY <1>2, <1>5, <1>6, <1>7, <1>8 DEF IInv, OnceEach

LEMMA NextKeeps == IInv /\ [Next]_vars => IInv'
<1> SUFFICES ASSUME IInv, [Next]_vars PROVE IInv'   OBVIOUS
<1>1. CASE Tick
  <2>1. now' \in 0..MaxTime /\ discovered' \in -1..now'   BY <1>1, Limits DEF Tick, IInv, Typed
  <2>2. Typed'   BY <1>1, <2>1 DEF Tick, IInv, Typed
  <2> QED BY <1>1, <2>2, StutterKeeps DEF Tick
<1>2. CASE \E l \in Logins :
             \/ \E b \in Browsers : Begin(l, b)
             \/ StoreTransaction(l)
             \/ \E applied \in BOOLEAN : StoreLost(l, applied)
             \/ Redirected(l)
             \/ \E user \in Users \cup {"none"} : ProviderAnswers(l, user)
  BY <1>2, BeginKeeps, StoreKeeps, StoreLostKeeps, RedirectedKeeps, ProviderKeeps
<1>3. CASE \E c \in Calls :
             \/ \E l \in Logins, b \in Browsers : Callback(c, l, b)
             \/ Consume(c) \/ Exchange(c) \/ ValidateIdToken(c) \/ CreateSession(c) \/ SignedIn(c)
             \/ \E applied \in BOOLEAN : ConsumeLost(c, applied) \/ CreateLost(c, applied)
  BY <1>3, CallbackKeeps, ConsumeKeeps, ExchangeKeeps, ValidateKeeps, CreateKeeps, SignedInKeeps, ConsumeLostKeeps
<1>4. CASE UNCHANGED vars
  <2>1. Typed'   BY <1>4 DEF vars, IInv, Typed
  <2> QED BY <1>4, <2>1, StutterKeeps DEF vars
<1> QED BY <1>1, <1>2, <1>3, <1>4 DEF Next

LEMMA AlwaysIInv == Spec => []IInv
BY InitIInv, NextKeeps, PTL DEF Spec

\* The variables keep their types, a cookie names a login, a browser's session was
\* stored, and the in-memory store never holds more transactions than it may, for any
\* logins, callbacks and browsers and any bound on the store.
THEOREM WellTyped == Spec => []TypeOK
<1>1. IInv => TypeOK
  <2> SUFFICES ASSUME IInv PROVE TypeOK   OBVIOUS
  <2>1. ASSUME NEW l \in Logins
        PROVE  /\ login[l].pc \in {"none", "storing", "redirecting", "atProvider", "returning", "failed"}
               /\ login[l].pc # "none" => login[l].browser \in Browsers
               /\ login[l].user \in Users \cup {"none"}
    BY DEF IInv, Typed, LoginRecords, Begun
  <2>2. ASSUME NEW c \in Calls
        PROVE  /\ call[c].pc \in {"idle", "consuming", "exchanging", "validating", "creating",
                                  "responding", "done", "failed"}
               /\ call[c].pc \notin {"idle", "failed"} => {call[c].login, call[c].txn} \subseteq Logins
    <3>1. call[c] \in CallRecords /\ Arrived(c)   BY DEF IInv, Typed
    <3> QED BY <3>1 DEF CallRecords, Arrived
  <2> QED BY <2>1, <2>2 DEF TypeOK, IInv, Typed, Kept
<1> QED BY <1>1, AlwaysIInv, PTL

\* A session comes of a login that its own browser began, that the provider answered
\* with a user and that was consumed in time, and no login makes two sessions, however
\* often its redirect is followed and whichever commands are lost.
THEOREM OneOwnLogin == Spec => []SessionsComeOfOneOwnLogin
<1>1. IInv => SessionsComeOfOneOwnLogin
  <2> SUFFICES ASSUME IInv PROVE SessionsComeOfOneOwnLogin   OBVIOUS
  <2>1. ASSUME NEW c \in sessions
        PROVE  /\ login[call[c].login].browser = call[c].browser
               /\ login[call[c].login].user \in Users
               /\ call[c].at - login[call[c].login].created <= config.ttl
    <3>1. c \in Calls /\ Served(c)   BY DEF IInv, Typed, Served
    <3>2. Consumed(c) /\ Arrived(c)   BY <3>1 DEF IInv
    <3>3. call[c].login \in Logins /\ call[c].login # "none" /\ call[c].txn = call[c].login
      BY <3>1, <3>2, NobodyNamed DEF Arrived, Consumed
    <3>4. login[call[c].login].user \in Users \cup {"none"}   BY <3>3 DEF IInv, Typed, LoginRecords
    <3> QED BY <3>1, <3>2, <3>3, <3>4 DEF Arrived, Consumed
  <2>2. \A c, d \in sessions : call[c].login = call[d].login => c = d
    BY DEF IInv, Typed, Served, OnceEach
  <2> QED BY <2>1, <2>2 DEF SessionsComeOfOneOwnLogin
<1> QED BY <1>1, AlwaysIInv, PTL

\* A callback fails only for a reason: the provider refused, somebody could not be
\* reached, the redirect was followed twice or elsewhere, another tab took the cookie,
\* it took too long, or enough later logins pushed its transaction out.
THEOREM FailureHasAReason == Spec => []LoginFailsForAReason
<1>1. IInv => LoginFailsForAReason
  <2> SUFFICES ASSUME IInv, NEW c \in Calls, call[c].pc = "failed"
               PROVE  LET l == login[call[c].login]
                      IN  \/ call[c].hit
                          \/ l.user = "none"
                          \/ l.browser # call[c].browser
                          \/ \E d \in Calls \ {c} : call[c].login \in {call[d].login, call[d].txn}
                          \/ l.displaced
                          \/ call[c].at - l.created > config.ttl
                          \/ config.shared /\ call[c].at >= l.keyEnd
                          \/ ~config.shared /\ Cardinality(Later(call[c].login, Logins)) >= MaxPending
    BY DEF LoginFailsForAReason
  <2> QED BY DEF IInv, Explained, Rival, Crowded
<1> QED BY <1>1, AlwaysIInv, PTL
=============================================================================
