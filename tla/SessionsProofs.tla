--------------------------- MODULE SessionsProofs ---------------------------
(***************************************************************************)
(* Proofs about the sessions, for any ids, concurrent calls, timeouts and  *)
(* limits, in memory and in Redis.                                         *)
(*                                                                         *)
(* A record is the work of calls that may be stale when they write, so the *)
(* invariant says what each of them carries (Carried), what a record and   *)
(* its key are worth (Limited, Accounted), and that nobody can bring back  *)
(* a session deleted while no lookup held a copy (Silent).                 *)
(***************************************************************************)
EXTENDS Sessions, SequenceTheorems, TLAPS

CallRecords == [pc : {"idle", "refused", "read"} \cup Commands,
                kind : {"login", "lookup", "logout"}, id : Ids,
                copy : Records, at : Nat, ttl : Nat, tries : 0 .. RetryLimit]

Typed == /\ deployment \in Deployments /\ now \in Nat \ {0}
         /\ record \in [Ids -> Records] /\ call \in [Calls -> CallRecords]
         /\ minted \subseteq Ids /\ loggedOut \subseteq Ids
         /\ removed \subseteq Ids /\ quiet \subseteq Ids
         /\ known \in [Ids -> Nat] /\ seen \in [Ids -> Nat]

\* The in-memory store lists sessions that were created, once each.
Listed == /\ order \in Seq(Ids) /\ Len(order) <= MaxSessions /\ IsInjective(order)
          /\ \A i \in ToSet(order) : known[i] # 0

\* A login alone stores an id, and no browser has it before.
Fresh(c) ==
  /\ call[c].pc = "storing" =>
       /\ call[c].kind = "login" /\ call[c].id \in minted /\ known[call[c].id] = 0
       /\ call[c].at \in 1..now
       /\ \A d \in Calls : d # c /\ call[d].pc = "storing" => call[d].id # call[c].id
  /\ call[c].pc \in {"getting", "read", "touching", "purging", "deleting"} =>
       known[call[c].id] # 0

\* key lives for the idle timeout, or to within a second of the session's end.
LongEnough(lastSeen, absEnd, key) == key >= lastSeen + Idle \/ key > absEnd - TicksPerSecond

\* What a lookup read, and will write back, keeps to the session's limits.
Carried(c) ==
  /\ call[c].pc \in {"read", "touching", "purging"} => Shared
  /\ call[c].pc \in {"read", "touching"} => call[c].copy.absEnd = known[call[c].id] + Absolute
  /\ call[c].pc = "read" => call[c].copy.lastSeen <= seen[call[c].id]
  /\ call[c].pc = "touching" =>
       /\ call[c].at <= seen[call[c].id]
       /\ LongEnough(call[c].at, call[c].copy.absEnd, call[c].at + call[c].ttl * TicksPerSecond)

Limited(i) ==
  /\ known[i] = 0 => seen[i] = 0
  /\ known[i] # 0 => /\ i \in minted
                     /\ record[i].absEnd = known[i] + Absolute
                     /\ record[i].lastSeen <= seen[i] /\ seen[i] <= now

\* A session is there, or was removed, or is past its limits.
Accounted(i) ==
  known[i] # 0 /\ i \notin removed =>
    \/ now - record[i].lastSeen > Idle
    \/ now > record[i].absEnd - (IF Shared THEN TicksPerSecond ELSE 0)
    \/ ~Shared /\ i \in ToSet(order)
    \/ Shared /\ LongEnough(record[i].lastSeen, record[i].absEnd, record[i].keyEnd)

\* Deleted while no lookup held a copy: gone, and nobody can bring it back.
Silent(i) == i \in quiet => known[i] # 0 /\ ~Present(i) /\ ~HoldsCopy(i)

IInv == /\ Typed /\ Listed
        /\ \A c \in Calls : Fresh(c) /\ Carried(c)
        /\ \A i \in Ids : Limited(i) /\ Accounted(i) /\ Silent(i)
-----------------------------------------------------------------------------
(***************************************************************************)
(* The constants, and the list of the in-memory store.                     *)
(***************************************************************************)
LEMMA Limits ==
  /\ Idle \in Nat /\ Absolute \in Nat /\ TicksPerSecond \in Nat \ {0}
  /\ RetryLimit \in Nat /\ MaxSessions \in Nat \ {0}
BY TimeoutsPositive, LimitsNat DEF Idle, Absolute

\* The whole seconds of some ticks.
LEMMA WholeSeconds ==
  ASSUME NEW a \in Nat
  PROVE  /\ a \div TicksPerSecond \in Nat
         /\ (a \div TicksPerSecond) * TicksPerSecond > a - TicksPerSecond
<1>1. \A b \in Nat \ {0} : a \div b \in Nat /\ b * (a \div b) > a - b   OBVIOUS
<1>2. PICK q \in Nat : q = a \div TicksPerSecond   BY <1>1, Limits
<1>3. TicksPerSecond * q > a - TicksPerSecond   BY <1>1, <1>2, Limits
<1>4. q * TicksPerSecond = TicksPerSecond * q   BY <1>2, Limits
<1> QED BY <1>2, <1>3, <1>4

LEMMA WithoutOne ==
  ASSUME order \in Seq(Ids), IsInjective(order), NEW i \in Ids
  PROVE  /\ Without(i) \in Seq(Ids) /\ IsInjective(Without(i))
         /\ ToSet(Without(i)) = ToSet(order) \ {i}
         /\ Len(Without(i)) <= Len(order) /\ (i \in ToSet(order) => Len(Without(i)) = Len(order) - 1)
<1>1. Len(order) \in Nat /\ DOMAIN order = 1..Len(order) /\ order \in [1..Len(order) -> Ids]   BY LenProperties
<1>2. CASE i \notin ToSet(order)
  <2>1. Without(i) = order /\ ToSet(order) \ {i} = ToSet(order)   BY <1>2 DEF Without
  <2>2. Len(order) <= Len(order)   BY <1>1
  <2> QED BY <1>2, <2>1, <2>2, Zenon
<1>3. CASE i \in ToSet(order)
  <2> DEFINE k == CHOOSE j \in DOMAIN order : order[j] = i
             n == Len(order)
             a == SubSeq(order, 1, k - 1)
             b == SubSeq(order, k + 1, n)
             w == Without(i)
  <2>1. k \in 1..n /\ order[k] = i   BY <1>1, <1>3 DEF ToSet
  <2>2. w = a \o b   BY <1>3 DEF Without, RemoveAt
  <2> HIDE DEF k, w
  <2>3. /\ a \in Seq(Ids) /\ Len(a) = k - 1
        /\ \A j \in 1..(k - 1) : a[j] = order[j]
    BY <1>1, <2>1, SubSeqProperties
  <2>4. /\ b \in Seq(Ids) /\ Len(b) = n - k
        /\ \A j \in 1..(n - k) : b[j] = order[k + j]
    <3>1. \A j \in (k + 1)..n : order[j] \in Ids   BY <1>1, <2>1
    <3>2. k + 1 \in Int /\ n \in Int   BY <1>1, <2>1
    <3>3. /\ b \in Seq(Ids) /\ Len(b) = IF k + 1 <= n THEN n - (k + 1) + 1 ELSE 0
          /\ \A j \in 1..(n - (k + 1) + 1) : b[j] = order[k + 1 + j - 1]
      BY <3>1, <3>2, SubSeqProperties
    <3> QED BY <1>1, <2>1, <3>3
  <2> HIDE DEF a, b
  <2>5. /\ w \in Seq(Ids) /\ Len(w) = n - 1
        /\ \A j \in 1..(n - 1) : w[j] = IF j < k THEN order[j] ELSE order[j + 1]
    <3>1. /\ w \in Seq(Ids) /\ Len(w) = Len(a) + Len(b)
          /\ \A j \in 1..(Len(a) + Len(b)) : w[j] = IF j <= Len(a) THEN a[j] ELSE b[j - Len(a)]
      BY <2>2, <2>3, <2>4, ConcatProperties
    <3>2. \A j \in 1..(n - 1) : j < k => w[j] = order[j]
      BY <1>1, <2>1, <2>3, <2>4, <3>1
    <3>3. \A j \in 1..(n - 1) : ~(j < k) => w[j] = order[j + 1]
      <4> SUFFICES ASSUME NEW j \in 1..(n - 1), ~(j < k) PROVE w[j] = order[j + 1]   OBVIOUS
      <4>1. w[j] = b[j - (k - 1)]   BY <1>1, <2>1, <2>3, <2>4, <3>1
      <4>2. j - (k - 1) \in 1..(n - k) /\ k + (j - (k - 1)) = j + 1   BY <1>1, <2>1
      <4> QED BY <2>4, <4>1, <4>2
    <3>4. Len(w) = n - 1   BY <1>1, <2>1, <2>3, <2>4, <3>1
    <3> QED BY <3>1, <3>2, <3>3, <3>4
  <2>6. DOMAIN w = 1..(n - 1)   BY <2>5, LenProperties
  <2>7. IsInjective(w)
    <3>1. \A x, y \in 1..n : order[x] = order[y] => x = y   BY <1>1 DEF IsInjective
    <3>2. \A x \in 1..(n - 1) : \E m \in 1..n : w[x] = order[m] /\ (x < k => m = x) /\ (~(x < k) => m = x + 1)
      <4> SUFFICES ASSUME NEW x \in 1..(n - 1)
                   PROVE  \E m \in 1..n : w[x] = order[m] /\ (x < k => m = x) /\ (~(x < k) => m = x + 1)
        OBVIOUS
      <4>1. x \in 1..n /\ x + 1 \in 1..n   BY <1>1
      <4> QED BY <2>5, <4>1
    <3>3. ASSUME NEW x \in 1..(n - 1), NEW y \in 1..(n - 1), w[x] = w[y] PROVE x = y
      <4>1. PICK m \in 1..n : w[x] = order[m] /\ (x < k => m = x) /\ (~(x < k) => m = x + 1)   BY <3>2
      <4>2. PICK l \in 1..n : w[y] = order[l] /\ (y < k => l = y) /\ (~(y < k) => l = y + 1)   BY <3>2
      <4>3. m = l   BY <3>1, <3>3, <4>1, <4>2
      <4> QED BY <1>1, <2>1, <4>1, <4>2, <4>3
    <3> QED BY <2>6, <3>3 DEF IsInjective
  <2>8. ToSet(w) = ToSet(order) \ {i}
    <3>1. \A j \in 1..(n - 1) : w[j] \in ToSet(order) /\ w[j] # i
      <4> SUFFICES ASSUME NEW j \in 1..(n - 1) PROVE w[j] \in ToSet(order) /\ w[j] # i   OBVIOUS
      <4>1. \E m \in 1..n : m # k /\ w[j] = order[m]
        <5>1. CASE j < k   BY <1>1, <2>1, <2>5, <5>1
        <5>2. CASE ~(j < k)
          <6>1. j + 1 \in 1..n /\ j + 1 # k   BY <1>1, <2>1, <5>2
          <6> QED BY <2>5, <5>2, <6>1
        <5> QED BY <5>1, <5>2
      <4> QED BY <1>1, <2>1, <4>1 DEF ToSet, IsInjective
    <3>2. ASSUME NEW m \in 1..n, order[m] # i PROVE \E j \in 1..(n - 1) : w[j] = order[m]
      <4>1. m # k   BY <2>1, <3>2
      <4>2. CASE m < k   BY <1>1, <2>1, <2>5, <4>2
      <4>3. CASE m > k
        <5>1. m - 1 \in 1..(n - 1) /\ ~(m - 1 < k) /\ (m - 1) + 1 = m   BY <1>1, <2>1, <4>3
        <5> QED BY <2>5, <5>1
      <4> QED BY <2>1, <4>1, <4>2, <4>3
    <3>3. ToSet(w) = {w[j] : j \in 1..(n - 1)} /\ ToSet(order) = {order[j] : j \in 1..n}   BY <1>1, <2>6 DEF ToSet
    <3>4. \A x \in ToSet(w) : x \in ToSet(order) \ {i}   BY <3>1, <3>3
    <3>5. \A x \in ToSet(order) \ {i} : x \in ToSet(w)
      <4> SUFFICES ASSUME NEW x \in ToSet(order), x # i PROVE x \in ToSet(w)   OBVIOUS
      <4>1. PICK m \in 1..n : x = order[m]   BY <3>3
      <4>2. PICK j \in 1..(n - 1) : w[j] = order[m]   BY <3>2, <4>1
      <4> QED BY <3>3, <4>1, <4>2
    <3> QED BY <3>4, <3>5
  <2> QED BY <1>1, <2>5, <2>7, <2>8 DEF w
<1> QED BY <1>2, <1>3

\* What an id added at the end of such a list, without it, makes of it.
LEMMA AddedAtTheEnd ==
  ASSUME NEW s \in Seq(Ids), IsInjective(s), NEW i \in Ids, i \notin ToSet(s)
  PROVE  /\ Append(s, i) \in Seq(Ids) /\ IsInjective(Append(s, i))
         /\ ToSet(Append(s, i)) = ToSet(s) \cup {i} /\ Len(Append(s, i)) = Len(s) + 1
<1> DEFINE n == Len(s)
           t == Append(s, i)
<1>1. n \in Nat /\ DOMAIN s = 1..n   BY LenProperties
<1>2. /\ t \in Seq(Ids) /\ Len(t) = n + 1 /\ DOMAIN t = 1..(n + 1) /\ t[n + 1] = i
      /\ \A j \in 1..n : t[j] = s[j]
  BY <1>1, LenProperties
<1>3. \A j \in 1..n : s[j] # i   BY <1>1 DEF ToSet
<1> HIDE DEF t
<1>4. IsInjective(t)
  <2>1. \A x, y \in 1..(n + 1) : t[x] = t[y] => x = y
    <3> SUFFICES ASSUME NEW x \in 1..(n + 1), NEW y \in 1..(n + 1), t[x] = t[y] PROVE x = y   OBVIOUS
    <3>1. CASE x \in 1..n /\ y \in 1..n   BY <1>1, <1>2, <3>1 DEF IsInjective
    <3>2. CASE x = n + 1 /\ y \in 1..n   BY <1>2, <1>3, <3>2
    <3>3. CASE x \in 1..n /\ y = n + 1   BY <1>2, <1>3, <3>3
    <3> QED BY <1>1, <3>1, <3>2, <3>3
  <2> QED BY <1>2, <2>1 DEF IsInjective
<1>5. ToSet(t) = ToSet(s) \cup {i}
  <2>1. \A j \in 1..(n + 1) : j \in 1..n \/ j = n + 1   BY <1>1
  <2>2. \A j \in 1..n : j \in 1..(n + 1)   BY <1>1
  <2>3. n + 1 \in 1..(n + 1)   BY <1>1
  <2> QED BY <1>1, <1>2, <2>1, <2>2, <2>3 DEF ToSet
<1> QED BY <1>2, <1>4, <1>5 DEF t

\* What leaves from the front of the list leaves the rest as it was.
LEMMA FrontDropped ==
  ASSUME order \in Seq(Ids), IsInjective(order), NEW e \in 0..Len(order)
  PROVE  LET s == SubSeq(order, e + 1, Len(order))
         IN  /\ s \in Seq(Ids) /\ IsInjective(s) /\ Len(s) = Len(order) - e
             /\ ToSet(s) \subseteq ToSet(order)
             /\ ToSet(order) \ ToSet(s) \subseteq {order[k] : k \in 1..e}
<1> DEFINE n == Len(order)
           s == SubSeq(order, e + 1, n)
<1>1. n \in Nat /\ DOMAIN order = 1..n /\ order \in [1..n -> Ids] /\ e \in Nat /\ e <= n   BY LenProperties
<1>2. /\ s \in Seq(Ids) /\ Len(s) = n - e
      /\ \A j \in 1..(n - e) : s[j] = order[e + j]
  <2>1. e + 1 \in Int /\ n \in Int /\ \A j \in (e + 1)..n : order[j] \in Ids   BY <1>1
  <2>2. /\ s \in Seq(Ids) /\ Len(s) = IF e + 1 <= n THEN n - (e + 1) + 1 ELSE 0
        /\ \A j \in 1..(n - (e + 1) + 1) : s[j] = order[e + 1 + j - 1]
    BY <2>1, SubSeqProperties
  <2> HIDE DEF s
  <2>3. n - (e + 1) + 1 = n - e /\ \A j \in 1..(n - e) : e + 1 + j - 1 = e + j   BY <1>1
  <2>4. Len(s) = n - e
    <3>0. n \in Nat /\ e \in Nat /\ e <= n   BY <1>1
    <3>1. CASE e + 1 <= n   BY <2>2, <2>3, <3>1
    <3>2. CASE e = n
      <4>1. ~(e + 1 <= n) /\ n - e = 0   BY <3>0, <3>2
      <4> QED BY <2>2, <4>1
    <3> QED BY <3>0, <3>1, <3>2
  <2> QED BY <2>2, <2>3, <2>4
<1> HIDE DEF s
<1>3. DOMAIN s = 1..(n - e)   BY <1>2, LenProperties
<1>4. IsInjective(s)
  <2>1. \A x, y \in 1..(n - e) : s[x] = s[y] => x = y
    <3> SUFFICES ASSUME NEW x \in 1..(n - e), NEW y \in 1..(n - e), s[x] = s[y] PROVE x = y   OBVIOUS
    <3>1. e + x \in 1..n /\ e + y \in 1..n   BY <1>1
    <3>2. e + x = e + y   BY <1>1, <1>2, <3>1 DEF IsInjective
    <3> QED BY <1>1, <3>2
  <2> QED BY <1>3, <2>1 DEF IsInjective
<1>5. ToSet(s) \subseteq ToSet(order)
  <2>1. \A j \in 1..(n - e) : e + j \in 1..n   BY <1>1
  <2> QED BY <1>1, <1>2, <1>3, <2>1 DEF ToSet
<1>6. ASSUME NEW j \in 1..n, order[j] \notin ToSet(s) PROVE order[j] \in {order[k] : k \in 1..e}
  <2>1. CASE j > e
    <3>1. j - e \in 1..(n - e) /\ e + (j - e) = j   BY <1>1, <2>1
    <3>2. s[j - e] = order[j]   BY <1>2, <3>1
    <3> QED BY <1>3, <1>6, <3>1, <3>2 DEF ToSet
  <2> QED BY <1>1, <2>1
<1>7. ToSet(order) \ ToSet(s) \subseteq {order[k] : k \in 1..e}   BY <1>1, <1>6 DEF ToSet
<1> QED BY <1>2, <1>4, <1>5, <1>7 DEF s
-----------------------------------------------------------------------------
(***************************************************************************)
(* What a step does to the call that makes it.                             *)
(***************************************************************************)
Elsewhere(c) == \A d \in Calls : d # c => call'[d] = call[d]
CallsTyped == call \in [Calls -> CallRecords]
CallsKept == \A c \in Calls : Fresh(c) /\ Carried(c)

\* Nothing stored changes; a lookup may have accepted a session.
StoredSame == /\ UNCHANGED <<deployment, now, record, order, known, loggedOut, removed, quiet>>
              /\ minted \subseteq minted' /\ minted' \subseteq Ids /\ seen' \in [Ids -> Nat]
              /\ \A i \in Ids : seen'[i] = seen[i] \/ (known[i] # 0 /\ seen'[i] = now)

\* A call ends, goes on to delete what it asked about, or asks once more.
Onward(c) ==
  \/ call'[c].pc \in {"idle", "refused"}
  \/ /\ call'[c].pc = "purging" /\ call[c].pc = "read" /\ call'[c].id = call[c].id
  \/ /\ call'[c].pc = "deleting" /\ call'[c].id = call[c].id
     /\ call[c].pc \in {"getting", "read", "touching", "purging", "deleting"}
  \/ /\ call'[c].pc = call[c].pc /\ call'[c].kind = call[c].kind /\ call'[c].id = call[c].id
     /\ call'[c].copy = call[c].copy /\ call'[c].at = call[c].at /\ call'[c].ttl = call[c].ttl

LEMMA NoCallTyped == NoCall \in CallRecords
<1>1. (CHOOSE i \in Ids : TRUE) \in Ids   BY IdsExist
<1>2. Absent \in Records   BY DEF Absent, Records
<1> QED BY <1>1, <1>2, Limits DEF NoCall, CallRecords

LEMMA CallChanges ==
  ASSUME CallsTyped, NEW c \in Calls, NEW x \in CallRecords, call' = [call EXCEPT ![c] = x]
  PROVE  CallsTyped' /\ call'[c] = x /\ Elsewhere(c)
BY DEF CallsTyped, Elsewhere

LEMMA GotoEffect ==
  ASSUME CallsTyped, NEW c \in Calls, NEW pc \in {"purging", "deleting"}, Goto(c, pc)
  PROVE  CallsTyped' /\ Elsewhere(c) /\ call'[c].pc = pc /\ call'[c].id = call[c].id
<1> DEFINE x == [NoCall EXCEPT !.pc = pc, !.kind = call[c].kind, !.id = call[c].id]
<1>1. call[c] \in CallRecords   BY DEF CallsTyped
<1>2. x \in CallRecords /\ x.pc = pc /\ x.id = call[c].id
  BY <1>1, NoCallTyped DEF CallRecords, Commands
<1>3. call' = [call EXCEPT ![c] = x]   BY DEF Goto
<1> HIDE DEF x
<1> QED BY <1>2, <1>3, CallChanges

LEMMA ReturnEffect ==
  ASSUME CallsTyped, NEW c \in Calls, NEW pc \in {"idle", "refused"}, Return(c, pc)
  PROVE  CallsTyped' /\ Elsewhere(c) /\ call'[c].pc = pc
<1> DEFINE x == [NoCall EXCEPT !.pc = pc]
<1>1. x \in CallRecords /\ x.pc = pc   BY NoCallTyped DEF CallRecords
<1>2. call' = [call EXCEPT ![c] = x]   BY DEF Return
<1> HIDE DEF x
<1> QED BY <1>1, <1>2, CallChanges

LEMMA AfterGetEffect ==
  ASSUME CallsTyped, NEW c \in Calls, NEW pc \in {"idle", "refused"}, AfterGet(c, pc)
  PROVE  /\ CallsTyped' /\ Elsewhere(c)
         /\ call'[c].pc = pc \/ (call'[c].pc = "deleting" /\ call'[c].id = call[c].id)
<1>1. CASE call[c].kind = "logout"
  <2>1. Goto(c, "deleting")   BY <1>1 DEF AfterGet
  <2> QED BY <2>1, GotoEffect
<1>2. CASE call[c].kind # "logout"
  <2>1. Return(c, pc)   BY <1>2 DEF AfterGet
  <2> QED BY <2>1, ReturnEffect
<1> QED BY <1>1, <1>2

LEMMA FailedEffect ==
  ASSUME CallsTyped, NEW c \in Calls, call[c].pc \in Commands, Fresh(c), Failed(c)
  PROVE  /\ CallsTyped' /\ Elsewhere(c) /\ Onward(c)
         /\ call'[c].pc # "refused" /\ (call'[c].pc \in {"read", "touching"} => call'[c].id = call[c].id /\ call[c].pc = "touching")
<1>1. CASE call[c].tries < RetryLimit
  <2> DEFINE x == [call[c] EXCEPT !.tries = call[c].tries + 1]
  <2>1. call[c] \in CallRecords   BY DEF CallsTyped
  <2>2. call[c].tries + 1 \in 0..RetryLimit   BY <1>1, <2>1, Limits DEF CallRecords
  <2>3. /\ x \in CallRecords /\ x.pc = call[c].pc /\ x.kind = call[c].kind /\ x.id = call[c].id
        /\ x.copy = call[c].copy /\ x.at = call[c].at /\ x.ttl = call[c].ttl
    BY <2>1, <2>2 DEF CallRecords
  <2>4. call' = [call EXCEPT ![c] = x]   BY <1>1 DEF Failed, CallsTyped
  <2> HIDE DEF x
  <2>5. CallsTyped' /\ Elsewhere(c) /\ call'[c] = x   BY <2>3, <2>4, CallChanges
  <2> QED BY <2>3, <2>5 DEF Onward, Commands
<1>2. CASE ~(call[c].tries < RetryLimit) /\ call[c].kind = "logout" /\ call[c].pc # "deleting"
  <2>1. Goto(c, "deleting")   BY <1>2 DEF Failed
  <2>2. CallsTyped' /\ Elsewhere(c) /\ call'[c].pc = "deleting" /\ call'[c].id = call[c].id   BY <2>1, GotoEffect
  <2>3. call[c].pc \in {"getting", "read", "touching", "purging", "deleting"}   BY <1>2 DEF Fresh, Commands
  <2> QED BY <2>2, <2>3 DEF Onward
<1>3. CASE ~(call[c].tries < RetryLimit) /\ ~(call[c].kind = "logout" /\ call[c].pc # "deleting")
  <2>1. Return(c, "idle")   BY <1>3 DEF Failed
  <2>2. CallsTyped' /\ Elsewhere(c) /\ call'[c].pc = "idle"   BY <2>1, ReturnEffect
  <2> QED BY <2>2 DEF Onward
<1> QED BY <1>1, <1>2, <1>3
-----------------------------------------------------------------------------
(***************************************************************************)
(* What keeps the parts of the invariant.                                  *)
(***************************************************************************)
\* What every step but a clock's tick does to what is fixed or only grows.
Grows == /\ UNCHANGED <<deployment, now>> /\ minted \subseteq minted'
         /\ \A i \in Ids : /\ known[i] # 0 => known'[i] = known[i]
                           /\ seen'[i] \in Nat /\ seen[i] <= seen'[i]
                           /\ known[i] # 0 => seen'[i] \in {seen[i], now}

LEMMA SeenGrows ==
  ASSUME IInv, Grows, NEW i \in Ids
  PROVE  seen[i] \in Nat /\ now \in Nat /\ seen[i] <= seen'[i] /\ seen'[i] \in Nat
BY DEF IInv, Typed, Grows

LEMMA CallsKeep ==
  ASSUME IInv, Grows, NEW c \in Calls, Elsewhere(c), Fresh(c)', Carried(c)',
         \A d \in Calls : d # c /\ call[d].pc = "storing" =>
           /\ known'[call[d].id] = 0
           /\ call'[c].pc = "storing" => call'[c].id # call[d].id
  PROVE  CallsKept'
<1> SUFFICES ASSUME NEW d \in Calls, d # c PROVE Fresh(d)' /\ Carried(d)'   BY DEF CallsKept
<1>1. call'[d] = call[d] /\ Fresh(d) /\ Carried(d)   BY DEF Elsewhere, IInv
<1>2. call[d] \in CallRecords /\ call[d].id \in Ids   BY DEF IInv, Typed, CallRecords
<1>3. Fresh(d)'
  <2>1. ASSUME call[d].pc = "storing", NEW e \in Calls, e # d, call'[e].pc = "storing" PROVE call'[e].id # call[d].id
    BY <1>1, <2>1 DEF Elsewhere, Fresh
  <2> QED BY <1>1, <1>2, <2>1 DEF Fresh, Grows
<1>4. Carried(d)'
  <2>1. call[d].pc \in {"read", "touching", "purging"} => known[call[d].id] # 0   BY <1>1 DEF Fresh
  <2>2. seen[call[d].id] \in Nat /\ seen[call[d].id] <= seen'[call[d].id] /\ seen'[call[d].id] \in Nat
    BY <1>2, SeenGrows
  <2>3. call[d].copy.lastSeen \in Nat /\ call[d].at \in Nat   BY <1>2 DEF CallRecords, Records
  <2>4. known'[call[d].id] = known[call[d].id] \/ call[d].pc \notin {"read", "touching", "purging"}   BY <1>2, <2>1 DEF Grows
  <2>5. Shared' = Shared   BY DEF Grows, Shared
  <2> QED BY <1>1, <2>2, <2>3, <2>4, <2>5 DEF Carried, LongEnough, Idle, Absolute
<1> QED BY <1>3, <1>4

\* A call that ends, deletes or retries carries nothing new.
LEMMA OnwardKeeps ==
  ASSUME IInv, Grows, NEW c \in Calls, Elsewhere(c), Onward(c), known' = known
  PROVE  CallsKept'
<1>1. Fresh(c) /\ Carried(c)   BY DEF IInv
<1>2. call[c] \in CallRecords /\ call[c].id \in Ids   BY DEF IInv, Typed, CallRecords
<1>3. Fresh(c)'
  <2>1. CASE call'[c].pc \in {"idle", "refused"}   BY <2>1 DEF Fresh
  <2>2. CASE call'[c].pc \in {"purging", "deleting"} /\ call'[c].id = call[c].id
             /\ call[c].pc \in {"getting", "read", "touching", "purging", "deleting"}
    BY <1>1, <2>2 DEF Fresh
  <2>3. CASE call'[c].pc = call[c].pc /\ call'[c].kind = call[c].kind /\ call'[c].id = call[c].id /\ call'[c].at = call[c].at
    BY <1>1, <1>2, <2>3 DEF Fresh, Grows, Elsewhere
  <2> QED BY <2>1, <2>2, <2>3 DEF Onward
<1>4. Carried(c)'
  <2>0. Shared' = Shared   BY DEF Grows, Shared
  <2>1. CASE call'[c].pc \in {"idle", "refused", "deleting"}   BY <2>1 DEF Carried
  <2>2. CASE call'[c].pc = "purging" /\ call[c].pc = "read"   BY <1>1, <2>0, <2>2 DEF Carried
  <2>3. CASE /\ call'[c].pc = call[c].pc /\ call'[c].id = call[c].id /\ call'[c].copy = call[c].copy
             /\ call'[c].at = call[c].at /\ call'[c].ttl = call[c].ttl
    <3>1. seen[call[c].id] \in Nat /\ seen[call[c].id] <= seen'[call[c].id] /\ seen'[call[c].id] \in Nat
      BY <1>2, SeenGrows
    <3>2. call[c].copy.lastSeen \in Nat /\ call[c].at \in Nat   BY <1>2 DEF CallRecords, Records
    <3> QED BY <1>1, <2>0, <2>3, <3>1, <3>2 DEF Carried, LongEnough, Idle, Absolute
  <2> QED BY <2>1, <2>2, <2>3 DEF Onward
<1>5. \A d \in Calls : d # c /\ call[d].pc = "storing" =>
        /\ known'[call[d].id] = 0
        /\ call'[c].pc = "storing" => call'[c].id # call[d].id
  BY <1>1 DEF IInv, Fresh, Onward
<1> QED BY <1>3, <1>4, <1>5, CallsKeep

\* A session that the step is not about.
LEMMA SteadyKeeps ==
  ASSUME IInv, Grows, NEW i \in Ids, record'[i] = record[i], known'[i] = known[i],
         known[i] = 0 => seen'[i] = seen[i],
         removed \subseteq removed', i \in quiet' => i \in quiet,
         i \in ToSet(order') => i \in ToSet(order),
         ~Shared /\ i \in ToSet(order) => i \in ToSet(order') \/ i \in removed',
         i \in quiet => ~HoldsCopy(i)'
  PROVE  Limited(i)' /\ Accounted(i)' /\ Silent(i)'
<1>1. Limited(i) /\ Accounted(i) /\ Silent(i) /\ record[i] \in Records   BY DEF IInv, Typed
<1>2. Shared' = Shared /\ now' = now   BY DEF Grows, Shared
<1>3. Limited(i)'
  <2>1. seen[i] \in Nat /\ now \in Nat /\ seen[i] <= seen'[i] /\ seen'[i] \in Nat   BY SeenGrows
  <2>2. record[i].lastSeen \in Nat   BY <1>1 DEF Records
  <2> QED BY <1>1, <1>2, <2>1, <2>2 DEF Limited, Grows, Absolute
<1>4. Accounted(i)'   BY <1>1, <1>2 DEF Accounted, LongEnough, Idle
<1>5. Silent(i)'
  <2>1. Present(i)' => Present(i)   BY <1>2 DEF Present
  <2> QED BY <1>1, <2>1 DEF Silent
<1> QED BY <1>3, <1>4, <1>5

LEMMA HoldsLess ==
  ASSUME NEW c \in Calls, Elsewhere(c), NEW i \in Ids,
         call'[c].pc \in {"read", "touching"} => call'[c].id = call[c].id /\ call[c].pc \in {"read", "touching"}
  PROVE  HoldsCopy(i)' => HoldsCopy(i)
BY DEF HoldsCopy, Elsewhere

\* The ids other than i, when the list and the record of i change.
LEMMA OthersSteady ==
  ASSUME IInv, Grows, NEW i \in Ids, NEW c \in Calls, Elsewhere(c), call'[c].pc \notin {"read", "touching"} \/ call'[c].id = i,
         \A j \in Ids \ {i} : /\ record'[j] = record[j] /\ known'[j] = known[j] /\ seen'[j] = seen[j]
                              /\ j \in quiet' => j \in quiet
                              /\ j \in ToSet(order') => j \in ToSet(order)
                              /\ ~Shared /\ j \in ToSet(order) => j \in ToSet(order') \/ j \in removed',
         removed \subseteq removed'
  PROVE  \A j \in Ids \ {i} : (Limited(j) /\ Accounted(j) /\ Silent(j))'
<1> SUFFICES ASSUME NEW j \in Ids \ {i} PROVE (Limited(j) /\ Accounted(j) /\ Silent(j))'   OBVIOUS
<1>1. j \in quiet => ~HoldsCopy(j)   BY DEF IInv, Silent
<1>2. HoldsCopy(j)' => HoldsCopy(j)   BY DEF HoldsCopy, Elsewhere
<1>3. known[j] = 0 => seen'[j] = seen[j]   OBVIOUS
<1> QED BY <1>1, <1>2, <1>3, SteadyKeeps

\* A step that changes what one call does, and nothing that is stored.
LEMMA OnlyCalls ==
  ASSUME IInv, NEW c \in Calls, CallsTyped', Elsewhere(c),
         StoredSame, CallsKept',
         call'[c].pc \in {"read", "touching"} => call'[c].id \notin quiet
  PROVE  IInv'
<1>1. Typed'   BY DEF IInv, Typed, CallsTyped, StoredSame
<1>2. Listed'   BY DEF IInv, Listed, StoredSame
<1>3. Grows
  <2>1. \A i \in Ids : seen[i] \in Nat /\ now \in Nat /\ (known[i] # 0 => seen[i] <= now)
    BY DEF IInv, Typed, Limited
  <2> QED BY <2>1 DEF Grows, StoredSame
<1>4. ASSUME NEW i \in Ids PROVE (Limited(i) /\ Accounted(i) /\ Silent(i))'
  <2>1. i \in quiet => ~HoldsCopy(i)   BY DEF IInv, Silent
  <2>2. i \in quiet => ~HoldsCopy(i)'   BY <2>1 DEF HoldsCopy, Elsewhere, StoredSame
  <2>3. known[i] = 0 => seen'[i] = seen[i]   BY DEF StoredSame
  <2> QED BY <1>3, <2>2, <2>3, SteadyKeeps DEF StoredSame
<1> QED BY <1>1, <1>2, <1>4 DEF IInv, CallsKept

LEMMA CallKnown ==
  ASSUME IInv, NEW c \in Calls
  PROVE  /\ call[c] \in CallRecords /\ call[c].id \in Ids /\ call[c].copy \in Records
         /\ call[c].at \in Nat /\ call[c].ttl \in Nat
         /\ CallsTyped /\ Fresh(c) /\ Carried(c)
         /\ Limited(call[c].id) /\ Accounted(call[c].id) /\ Silent(call[c].id)
         /\ record[call[c].id] \in Records /\ known[call[c].id] \in Nat /\ seen[call[c].id] \in Nat
<1>1. call[c] \in CallRecords /\ CallsTyped   BY DEF IInv, Typed, CallsTyped
<1>2. call[c].id \in Ids /\ call[c].copy \in Records /\ call[c].at \in Nat /\ call[c].ttl \in Nat   BY <1>1 DEF CallRecords
<1> QED BY <1>1, <1>2 DEF IInv, Typed
-----------------------------------------------------------------------------
(***************************************************************************)
(* The steps.                                                              *)
(***************************************************************************)
LEMMA InitHolds == Init => IInv
<1> SUFFICES ASSUME Init PROVE IInv   OBVIOUS
<1>1. Typed   BY NoCallTyped DEF Init, Typed, Absent, Records
<1>2. Listed   BY Limits, EmptySeq DEF Init, Listed, IsInjective, ToSet
<1>3. \A c \in Calls : Fresh(c) /\ Carried(c)   BY DEF Init, Fresh, Carried, NoCall
<1>4. \A i \in Ids : Limited(i) /\ Accounted(i) /\ Silent(i)   BY DEF Init, Limited, Accounted, Silent
<1> QED BY <1>1, <1>2, <1>3, <1>4 DEF IInv

LEMMA TickKeeps == IInv /\ Tick => IInv'
<1> SUFFICES ASSUME IInv, Tick PROVE IInv'   OBVIOUS
<1>0. now \in Nat \ {0} /\ now' = now + 1 /\ Shared' = Shared   BY DEF IInv, Typed, Tick, Shared
<1>1. Typed' /\ Listed'   BY <1>0 DEF IInv, Typed, Listed, Tick
<1>2. ASSUME NEW c \in Calls PROVE Fresh(c)' /\ Carried(c)'
  <2>1. Fresh(c)'   BY <1>0 DEF IInv, Fresh, Tick
  <2>2. Carried(c)'   BY <1>0 DEF IInv, Carried, LongEnough, Idle, Absolute, Tick
  <2> QED BY <2>1, <2>2
<1>3. ASSUME NEW i \in Ids PROVE Limited(i)' /\ Accounted(i)' /\ Silent(i)'
  <2>0. /\ Limited(i) /\ Accounted(i) /\ Silent(i) /\ record[i] \in Records /\ seen[i] \in Nat
        /\ record'[i] = record[i] /\ seen'[i] = seen[i] /\ known'[i] = known[i]
    BY DEF IInv, Typed, Tick
  <2>1. Limited(i)'   BY <1>0, <2>0 DEF Limited, Tick, Absolute
  <2>2. Accounted(i)'
    <3>1. record[i].lastSeen \in Nat /\ record[i].absEnd \in Nat   BY <2>0 DEF Records
    <3>2. Idle' = Idle   BY DEF Idle
    <3>3. Idle \in Nat /\ TicksPerSecond \in Nat   BY Limits
    <3>4. now - record[i].lastSeen > Idle => now' - record[i].lastSeen > Idle   BY <1>0, <3>1, <3>3
    <3>5. \A x \in {0, TicksPerSecond} : now > record[i].absEnd - x => now' > record[i].absEnd - x   BY <1>0, <3>1, <3>3
    <3> QED BY <1>0, <2>0, <3>2, <3>4, <3>5 DEF Accounted, LongEnough, Tick
  <2>3. Silent(i)'
    <3>1. record[i].keyEnd \in Nat   BY <2>0 DEF Records
    <3>2. Present(i)' => Present(i)   BY <1>0, <2>0, <3>1 DEF Present, Tick
    <3>3. HoldsCopy(i)' <=> HoldsCopy(i)   BY DEF HoldsCopy, Tick
    <3> QED BY <2>0, <3>2, <3>3 DEF Silent, Tick
  <2> QED BY <2>1, <2>2, <2>3
<1> QED BY <1>1, <1>2, <1>3 DEF IInv

LEMMA MintKeeps == ASSUME IInv, NEW c \in Calls, NEW i \in Ids, Mint(c, i) PROVE IInv'
<1> DEFINE x == [NoCall EXCEPT !.pc = "storing", !.kind = "login", !.id = i, !.at = now]
<1>0. now \in Nat \ {0} /\ CallsTyped   BY DEF IInv, Typed, CallsTyped
<1>1. x \in CallRecords /\ x.pc = "storing" /\ x.kind = "login" /\ x.id = i /\ x.at = now
  BY <1>0, NoCallTyped DEF CallRecords, Commands
<1>2. call' = [call EXCEPT ![c] = x]   BY DEF Mint
<1> HIDE DEF x
<1>3. CallsTyped' /\ call'[c] = x /\ Elsewhere(c)   BY <1>0, <1>1, <1>2, CallChanges
<1>4. /\ UNCHANGED <<deployment, now, record, order, known, loggedOut, removed, quiet, seen>>
      /\ i \notin minted /\ minted' = minted \cup {i} /\ minted \subseteq Ids
      /\ seen \in [Ids -> Nat]
  BY DEF Mint, IInv, Typed
<1>5. Grows   BY <1>4 DEF Grows, IInv, Typed
<1>6. known[i] = 0   BY <1>4 DEF IInv, Limited
<1>7. \A d \in Calls : d # c /\ call[d].pc = "storing" => call[d].id # i /\ known'[call[d].id] = 0
  BY <1>4 DEF IInv, Fresh
<1>8. Fresh(c)'   BY <1>0, <1>1, <1>3, <1>4, <1>6, <1>7 DEF Fresh, Elsewhere
<1>9. Carried(c)'   BY <1>1, <1>3 DEF Carried
<1>10. CallsKept'   BY <1>1, <1>3, <1>5, <1>7, <1>8, <1>9, CallsKeep
<1>11. StoredSame   BY <1>4 DEF StoredSame
<1> QED BY <1>1, <1>3, <1>10, <1>11, OnlyCalls

LEMMA RequestKeeps ==
  ASSUME IInv, NEW c \in Calls, NEW i \in Ids, NEW kind \in {"lookup", "logout"}, Request(c, i, kind)
  PROVE  IInv'
<1> DEFINE x == [NoCall EXCEPT !.pc = "getting", !.kind = kind, !.id = i]
<1>0. CallsTyped   BY DEF IInv, Typed, CallsTyped
<1>1. x \in CallRecords /\ x.pc = "getting" /\ x.id = i   BY NoCallTyped DEF CallRecords, Commands
<1>2. call' = [call EXCEPT ![c] = x]   BY DEF Request
<1> HIDE DEF x
<1>3. CallsTyped' /\ call'[c] = x /\ Elsewhere(c)   BY <1>0, <1>1, <1>2, CallChanges
<1>4. /\ UNCHANGED <<deployment, now, record, order, minted, known, loggedOut, removed, quiet, seen>>
      /\ known[i] # 0 /\ minted \subseteq Ids /\ seen \in [Ids -> Nat]
  BY DEF Request, IInv, Typed
<1>5. Grows   BY <1>4 DEF Grows, IInv, Typed
<1>6. \A d \in Calls : d # c /\ call[d].pc = "storing" => known'[call[d].id] = 0
  BY <1>4 DEF IInv, Fresh
<1>7. Fresh(c)' /\ Carried(c)'   BY <1>1, <1>3, <1>4 DEF Fresh, Carried
<1>8. CallsKept'   BY <1>1, <1>3, <1>5, <1>6, <1>7, CallsKeep
<1>9. StoredSame   BY <1>4 DEF StoredSame
<1> QED BY <1>1, <1>3, <1>8, <1>9, OnlyCalls

LEMMA RedisGetKeeps == ASSUME IInv, NEW c \in Calls, RedisGet(c) PROVE IInv'
<1> DEFINE i == call[c].id
<1>0. /\ UNCHANGED <<deployment, now, record, order, minted, known, loggedOut, removed, quiet, seen>>
      /\ call[c].pc = "getting" /\ Shared /\ minted \subseteq Ids /\ seen \in [Ids -> Nat]
  BY DEF RedisGet, IInv, Typed
<1>1. Grows   BY <1>0 DEF Grows, IInv, Typed
<1>2. i \in Ids /\ CallsTyped /\ Fresh(c) /\ Limited(i) /\ Silent(i) /\ call[c] \in CallRecords /\ record[i] \in Records
  BY CallKnown
<1>3. known[i] # 0   BY <1>0, <1>2 DEF Fresh
<1>6. StoredSame   BY <1>0 DEF StoredSame
<1>4. CASE Present(i)
  <2> DEFINE x == [call[c] EXCEPT !.pc = "read", !.copy = record[i], !.tries = 0]
  <2>0. 0 \in 0..RetryLimit /\ record[i] \in Records   BY <1>2, Limits
  <2>1. x \in CallRecords /\ x.pc = "read" /\ x.copy = record[i] /\ x.id = i   BY <1>2, <2>0 DEF CallRecords
  <2>2. call' = [call EXCEPT ![c] = x]   BY <1>2, <1>4 DEF RedisGet, CallsTyped
  <2> HIDE DEF x
  <2>3. CallsTyped' /\ call'[c] = x /\ Elsewhere(c)   BY <1>2, <2>1, <2>2, CallChanges
  <2>4. Fresh(c)' /\ Carried(c)'
    BY <1>0, <1>2, <1>3, <2>1, <2>3 DEF Fresh, Carried, Limited, Shared, Absolute
  <2>5. \A d \in Calls : d # c /\ call[d].pc = "storing" => known'[call[d].id] = 0   BY <1>0 DEF IInv, Fresh
  <2>6. CallsKept'   BY <1>1, <2>1, <2>3, <2>4, <2>5, CallsKeep
  <2>7. i \notin quiet   BY <1>2, <1>4 DEF Silent
  <2> QED BY <1>6, <2>1, <2>3, <2>6, <2>7, OnlyCalls
<1>5. CASE ~Present(i)
  <2>1. AfterGet(c, "refused")   BY <1>5 DEF RedisGet
  <2>2. /\ CallsTyped' /\ Elsewhere(c)
        /\ call'[c].pc = "refused" \/ (call'[c].pc = "deleting" /\ call'[c].id = call[c].id)
    BY <1>2, <2>1, AfterGetEffect
  <2>3. Onward(c)   BY <1>0, <2>2 DEF Onward
  <2>4. CallsKept'   BY <1>0, <1>1, <2>2, <2>3, OnwardKeeps
  <2>5. call'[c].pc \notin {"read", "touching"}   BY <2>2
  <2> QED BY <1>6, <2>2, <2>4, <2>5, OnlyCalls
<1> QED BY <1>4, <1>5

\* How long the key is set for suffices.
LEMMA TouchedLongEnough ==
  ASSUME NEW end \in Nat, end >= now, now \in Nat
  PROVE  LET left == IF end - now < Idle THEN end - now ELSE Idle
         IN  /\ left \div TicksPerSecond \in Nat
             /\ LongEnough(now, end, now + (left \div TicksPerSecond) * TicksPerSecond)
<1> DEFINE left == IF end - now < Idle THEN end - now ELSE Idle
           ttl == left \div TicksPerSecond
           span == ttl * TicksPerSecond
<1>1. left \in Nat   BY Limits
<1>2. ttl \in Nat /\ span > left - TicksPerSecond   BY <1>1, WholeSeconds
<1>3. span \in Nat   BY <1>2, Limits
<1>4. CASE end - now < Idle
  <2>1. left = end - now   BY <1>4
  <2> HIDE DEF left, ttl, span
  <2>2. now + span > end - TicksPerSecond   BY <1>2, <1>3, <2>1, Limits
  <2> QED BY <1>2, <2>2 DEF LongEnough, span, ttl, left
<1>5. CASE ~(end - now < Idle)
  <2>1. left = Idle   BY <1>5
  <2> HIDE DEF left
  <2>2. \A a \in Nat, b \in Nat, t \in Nat \ {0} : b * t > a * t - t => b * t >= a * t
    <3> SUFFICES ASSUME NEW a \in Nat, NEW b \in Nat, NEW t \in Nat \ {0}, b * t > a * t - t PROVE b * t >= a * t
      OBVIOUS
    <3>1. CASE b >= a   BY <3>1
    <3>2. CASE b + 1 <= a
      <4>1. (b + 1) * t <= a * t   BY <3>2
      <4>2. (b + 1) * t = b * t + t   OBVIOUS
      <4> QED BY <4>1, <4>2
    <3> QED BY <3>1, <3>2
  <2>3. span >= Idle   BY <1>2, <2>1, <2>2, TimeoutsPositive DEF Idle
  <2> HIDE DEF span, ttl
  <2>4. now + span >= now + Idle   BY <1>3, <2>3, Limits
  <2> QED BY <1>2, <2>4 DEF LongEnough, span, ttl, left
<1> QED BY <1>4, <1>5

LEMMA ExamineKeeps == ASSUME IInv, NEW c \in Calls, Examine(c) PROVE IInv'
<1> DEFINE i == call[c].id
           r == call[c].copy
           left == IF r.absEnd - now < Idle THEN r.absEnd - now ELSE Idle
           ttl == left \div TicksPerSecond
<1>0. /\ UNCHANGED <<deployment, now, record, order, minted, known, loggedOut, removed, quiet>>
      /\ call[c].pc = "read" /\ minted \subseteq Ids /\ now \in Nat \ {0} /\ seen \in [Ids -> Nat]
  BY DEF Examine, IInv, Typed
<1>1. /\ i \in Ids /\ CallsTyped /\ Fresh(c) /\ Carried(c) /\ Limited(i) /\ Silent(i)
      /\ call[c] \in CallRecords /\ r \in Records /\ r.absEnd \in Nat
  BY CallKnown DEF Records
<1>2. known[i] # 0 /\ Shared /\ r.absEnd = known[i] + Absolute   BY <1>0, <1>1 DEF Fresh, Carried
<1>3. i \notin quiet   BY <1>0, <1>1 DEF Silent, HoldsCopy
<1>4. CASE Expired(r)
  <2>1. Goto(c, "purging") /\ seen' = seen   BY <1>4 DEF Examine
  <2>2. CallsTyped' /\ Elsewhere(c) /\ call'[c].pc = "purging" /\ call'[c].id = i   BY <1>1, <2>1, GotoEffect
  <2>3. Onward(c)   BY <1>0, <2>2 DEF Onward
  <2>4. Grows   BY <1>0, <2>1 DEF Grows
  <2>5. CallsKept'   BY <1>0, <2>2, <2>3, <2>4, OnwardKeeps
  <2>6. StoredSame   BY <1>0, <2>1 DEF StoredSame
  <2> QED BY <2>2, <2>5, <2>6, OnlyCalls
<1>5. CASE ~Expired(r)
  <2>1. seen' = [seen EXCEPT ![i] = now]   BY <1>5 DEF Examine
  <2>2. StoredSame
    <3>1. seen' \in [Ids -> Nat]   BY <1>0, <2>1
    <3>2. \A j \in Ids : seen'[j] = IF j = i THEN now ELSE seen[j]   BY <1>0, <2>1
    <3> QED BY <1>0, <1>2, <3>1, <3>2 DEF StoredSame
  <2>3. Grows   BY <1>0, <1>1, <1>2, <2>1, <2>2 DEF Grows, Limited, StoredSame
  <2>4. r.absEnd >= now   BY <1>0, <1>1, <1>5 DEF Expired
  <2>5. CASE ttl > 0
    <3> DEFINE x == [call[c] EXCEPT !.pc = "touching", !.at = now, !.ttl = ttl]
    <3>1. ttl \in Nat /\ LongEnough(now, r.absEnd, now + ttl * TicksPerSecond)
      BY <1>0, <1>1, <2>4, TouchedLongEnough
    <3>2. call' = [call EXCEPT ![c] = x]   BY <1>1, <1>5, <2>5 DEF Examine, CallsTyped
    <3> HIDE DEF ttl
    <3>3. /\ x \in CallRecords /\ x.pc = "touching" /\ x.copy = r /\ x.id = i /\ x.at = now /\ x.ttl = ttl
      BY <1>0, <1>1, <3>1 DEF CallRecords, Commands
    <3> HIDE DEF x
    <3>4. CallsTyped' /\ call'[c] = x /\ Elsewhere(c)   BY <1>1, <3>2, <3>3, CallChanges
    <3>5. Fresh(c)'   BY <1>0, <1>2, <3>3, <3>4 DEF Fresh
    <3>6. Carried(c)'
      <4>1. Shared'   BY <1>0, <1>2 DEF Shared
      <4>2. seen'[i] = now   BY <1>0, <1>1, <2>1
      <4> QED BY <1>0, <1>2, <3>1, <3>3, <3>4, <4>1, <4>2 DEF Carried, LongEnough, Idle, Absolute
    <3>7. \A d \in Calls : d # c /\ call[d].pc = "storing" => known'[call[d].id] = 0   BY <1>0 DEF IInv, Fresh
    <3>8. CallsKept'   BY <2>3, <3>3, <3>4, <3>5, <3>6, <3>7, CallsKeep
    <3> QED BY <1>3, <2>2, <3>3, <3>4, <3>8, OnlyCalls
  <2>6. CASE ~(ttl > 0)
    <3>1. AfterGet(c, "idle")   BY <1>5, <2>6 DEF Examine
    <3>2. /\ CallsTyped' /\ Elsewhere(c)
          /\ call'[c].pc = "idle" \/ (call'[c].pc = "deleting" /\ call'[c].id = call[c].id)
      BY <1>1, <3>1, AfterGetEffect
    <3>3. Onward(c)   BY <1>0, <3>2 DEF Onward
    <3>4. CallsKept'   BY <1>0, <2>3, <3>2, <3>3, OnwardKeeps
    <3>5. call'[c].pc \notin {"read", "touching"}   BY <3>2
    <3> QED BY <2>2, <3>2, <3>4, <3>5, OnlyCalls
  <2> QED BY <2>5, <2>6
<1> QED BY <1>4, <1>5

LEMMA CommandLostKeeps == ASSUME IInv, NEW c \in Calls, CommandLost(c) PROVE IInv'
<1>0. /\ UNCHANGED <<deployment, now, record, order, minted, known, loggedOut, removed, quiet, seen>>
      /\ call[c].pc \in Commands /\ Failed(c) /\ minted \subseteq Ids /\ seen \in [Ids -> Nat]
  BY DEF CommandLost, IInv, Typed
<1>1. CallsTyped /\ Fresh(c) /\ Silent(call[c].id) /\ call[c].id \in Ids   BY CallKnown
<1>2. /\ CallsTyped' /\ Elsewhere(c) /\ Onward(c)
      /\ call'[c].pc \in {"read", "touching"} => call'[c].id = call[c].id /\ call[c].pc = "touching"
  BY <1>0, <1>1, FailedEffect
<1>3. Grows   BY <1>0 DEF Grows, IInv, Typed
<1>4. CallsKept'   BY <1>0, <1>2, <1>3, OnwardKeeps
<1>5. call'[c].pc \in {"read", "touching"} => call'[c].id \notin quiet   BY <1>1, <1>2 DEF Silent, HoldsCopy
<1>6. StoredSame   BY <1>0 DEF StoredSame
<1> QED BY <1>2, <1>4, <1>5, <1>6, OnlyCalls

LEMMA CreatedTyped ==
  ASSUME IInv, NEW c \in Calls
  PROVE  /\ Created(c) \in Records /\ Created(c).lastSeen = call[c].at
         /\ Created(c).absEnd = call[c].at + Absolute /\ Created(c).keyEnd = now + Absolute
<1>1. call[c].at \in Nat /\ now \in Nat   BY CallKnown DEF IInv, Typed
<1> QED BY <1>1, Limits DEF Created, Records

\* What both stores do with a new session, whatever becomes of the list.
LEMMA SignInKeeps ==
  ASSUME IInv, NEW c \in Calls, NEW i \in Ids, i = call[c].id, call[c].pc = "storing", SignedIn(c),
         record' = [record EXCEPT ![i] = Created(c)],
         UNCHANGED <<deployment, now, minted, loggedOut, quiet>>,
         removed \subseteq removed', removed' \subseteq Ids,
         order' \in Seq(Ids), Len(order') <= MaxSessions, IsInjective(order'),
         ToSet(order') \subseteq ToSet(order) \cup {i},
         ~Shared => i \in ToSet(order') /\ ToSet(order) \subseteq ToSet(order') \cup removed'
  PROVE  IInv'
<1>1. /\ i \in Ids /\ CallsTyped /\ Fresh(c) /\ Limited(i) /\ Silent(i) /\ call[c].at \in Nat
      /\ record \in [Ids -> Records] /\ known \in [Ids -> Nat] /\ seen \in [Ids -> Nat] /\ now \in Nat \ {0}
  BY CallKnown DEF IInv, Typed
<1>2. known[i] = 0 /\ seen[i] = 0 /\ i \in minted /\ call[c].at \in 1..now /\ i \notin quiet
  BY <1>1 DEF Fresh, Limited, Silent
<1>3. /\ CallsTyped' /\ Elsewhere(c) /\ call'[c].pc = "idle"
      /\ known' = [known EXCEPT ![i] = call[c].at] /\ seen' = [seen EXCEPT ![i] = call[c].at]
  BY <1>1, ReturnEffect DEF SignedIn
<1>4. /\ known'[i] = call[c].at /\ seen'[i] = call[c].at /\ record'[i] = Created(c)
      /\ \A j \in Ids \ {i} : known'[j] = known[j] /\ seen'[j] = seen[j] /\ record'[j] = record[j]
      /\ known' \in [Ids -> Nat] /\ seen' \in [Ids -> Nat] /\ record' \in [Ids -> Records]
  BY <1>1, <1>3, CreatedTyped
<1>5. Typed'   BY <1>3, <1>4 DEF IInv, Typed, CallsTyped
<1>6. Listed'
  <2>1. \A j \in ToSet(order) : known[j] # 0 /\ j \in Ids
    <3>1. order \in Seq(Ids) /\ DOMAIN order = 1..Len(order)   BY LenProperties DEF IInv, Listed
    <3> QED BY <3>1, ElementOfSeq DEF IInv, Listed, ToSet
  <2>2. \A j \in ToSet(order') : known'[j] # 0   BY <1>2, <1>4, <2>1
  <2> QED BY <2>2 DEF Listed
<1>7. Grows   BY <1>1, <1>2, <1>4 DEF Grows
<1>8. CallsKept'
  <2>1. Fresh(c)' /\ Carried(c)'   BY <1>3 DEF Fresh, Carried
  <2>2. \A d \in Calls : d # c /\ call[d].pc = "storing" =>
          /\ known'[call[d].id] = 0
          /\ call'[c].pc = "storing" => call'[c].id # call[d].id
    <3> SUFFICES ASSUME NEW d \in Calls, d # c, call[d].pc = "storing" PROVE known'[call[d].id] = 0
      BY <1>3
    <3>1. call[d].id \in Ids /\ Fresh(d)   BY CallKnown
    <3>2. call[d].id # i /\ known[call[d].id] = 0   BY <3>1 DEF Fresh
    <3> QED BY <1>4, <3>1, <3>2
  <2> QED BY <1>3, <1>7, <2>1, <2>2, CallsKeep
<1>9. \A j \in Ids \ {i} : (Limited(j) /\ Accounted(j) /\ Silent(j))'
  <2>1. call'[c].pc \notin {"read", "touching"}   BY <1>3
  <2> QED BY <1>1, <1>3, <1>4, <1>7, <2>1, OthersSteady
<1>10. Limited(i)' /\ Accounted(i)' /\ Silent(i)'
  <2>1. Shared' = Shared   BY DEF Shared
  <2>2. /\ record'[i].lastSeen = call[c].at /\ record'[i].absEnd = call[c].at + Absolute
        /\ record'[i].keyEnd = now + Absolute
    BY <1>4, CreatedTyped
  <2>3. Limited(i)'   BY <1>1, <1>2, <1>4, <2>2 DEF Limited, Absolute
  <2>4. LongEnough(record'[i].lastSeen, record'[i].absEnd, record'[i].keyEnd)
    <3>1. now + Absolute > call[c].at + Absolute - TicksPerSecond   BY <1>1, <1>2, Limits
    <3>2. record'[i].keyEnd > record'[i].absEnd - TicksPerSecond   BY <1>1, <2>2, <3>1, Limits
    <3> QED BY <3>2 DEF LongEnough
  <2>5. Accounted(i)'   BY <2>1, <2>4 DEF Accounted, LongEnough, Idle
  <2> QED BY <1>2, <2>3, <2>5 DEF Silent
<1> QED BY <1>5, <1>6, <1>8, <1>9, <1>10 DEF IInv, CallsKept

LEMMA ListFacts ==
  ASSUME IInv
  PROVE  /\ order \in Seq(Ids) /\ Len(order) \in Nat /\ Len(order) <= MaxSessions /\ IsInjective(order)
         /\ DOMAIN order = 1..Len(order) /\ \A j \in ToSet(order) : j \in Ids /\ known[j] # 0
<1>1. order \in Seq(Ids) /\ DOMAIN order = 1..Len(order) /\ Len(order) \in Nat   BY LenProperties DEF IInv, Listed
<1>2. \A j \in ToSet(order) : j \in Ids   BY <1>1, ElementOfSeq DEF ToSet
<1> QED BY <1>1, <1>2 DEF IInv, Listed

LEMMA StoreInMemoryKeeps ==
  ASSUME IInv, NEW c \in Calls, NEW i \in Ids, i = call[c].id, StoreInMemory(c)
  PROVE  IInv'
<1> DEFINE rest == SubSeq(order, Excess + 1, Len(order))
           evicted == {order[k] : k \in 1..Excess}
<1>1. /\ call[c].pc = "storing" /\ ~Shared /\ SignedIn(c)
      /\ record' = [record EXCEPT ![i] = Created(c)] /\ UNCHANGED <<deployment, now, minted, loggedOut, quiet>>
      /\ order' = Append(rest, i) /\ removed' = removed \cup evicted
  BY DEF StoreInMemory
<1>2. i \in Ids /\ Fresh(c) /\ removed \subseteq Ids   BY CallKnown DEF IInv, Typed
<1>3. Excess \in 0..Len(order) /\ Len(order) - Excess < MaxSessions   BY ListFacts, Limits DEF Excess
<1>4. /\ rest \in Seq(Ids) /\ IsInjective(rest) /\ Len(rest) = Len(order) - Excess
      /\ ToSet(rest) \subseteq ToSet(order) /\ ToSet(order) \ ToSet(rest) \subseteq evicted
  BY <1>3, ListFacts, FrontDropped
<1>5. evicted \subseteq Ids
  <2>1. \A k \in 1..Excess : k \in 1..Len(order)   BY <1>3, ListFacts
  <2> QED BY <2>1, ListFacts, ElementOfSeq
<1>6. i \notin ToSet(rest)   BY <1>1, <1>2, <1>4, ListFacts DEF Fresh
<1> HIDE DEF rest, evicted
<1>7. /\ order' \in Seq(Ids) /\ IsInjective(order') /\ Len(order') = Len(rest) + 1
      /\ ToSet(order') = ToSet(rest) \cup {i}
  BY <1>1, <1>2, <1>4, <1>6, AddedAtTheEnd
<1>8. Len(order') <= MaxSessions   BY <1>3, <1>4, <1>7, ListFacts, Limits
<1>9. removed \subseteq removed' /\ removed' \subseteq Ids   BY <1>1, <1>2, <1>5
<1>10. ToSet(order') \subseteq ToSet(order) \cup {i}   BY <1>4, <1>7
<1>11. i \in ToSet(order') /\ ToSet(order) \subseteq ToSet(order') \cup removed'   BY <1>1, <1>4, <1>7
<1> QED BY <1>1, <1>7, <1>8, <1>9, <1>10, <1>11, SignInKeeps

LEMMA StoreInRedisKeeps ==
  ASSUME IInv, NEW c \in Calls, NEW i \in Ids, i = call[c].id, StoreInRedis(c)
  PROVE  IInv'
<1>1. /\ call[c].pc = "storing" /\ Shared /\ SignedIn(c)
      /\ record' = [record EXCEPT ![i] = Created(c)]
      /\ UNCHANGED <<deployment, now, minted, loggedOut, quiet>> /\ order' = order /\ removed' = removed
  BY DEF StoreInRedis
<1>2. removed \subseteq removed' /\ removed' \subseteq Ids   BY <1>1 DEF IInv, Typed
<1>3. order' \in Seq(Ids) /\ Len(order') <= MaxSessions /\ IsInjective(order')   BY <1>1, ListFacts
<1>4. ToSet(order') \subseteq ToSet(order) \cup {i}   BY <1>1
<1> QED BY <1>1, <1>2, <1>3, <1>4, SignInKeeps

LEMMA GetAcceptsKeeps ==
  ASSUME IInv, NEW c \in Calls, NEW i \in Ids, i = call[c].id, GetAccepts(c)
  PROVE  IInv'
<1>1. /\ call[c].pc = "getting" /\ ~Shared /\ Present(i) /\ ~Expired(record[i])
      /\ record' = [record EXCEPT ![i].lastSeen = now] /\ order' = Append(Without(i), i)
      /\ seen' = [seen EXCEPT ![i] = now] /\ AfterGet(c, "idle")
      /\ UNCHANGED <<deployment, now, minted, known, loggedOut, removed, quiet>>
  BY DEF GetAccepts
<1>2. /\ i \in Ids /\ CallsTyped /\ Fresh(c) /\ Limited(i) /\ Silent(i) /\ record[i] \in Records
      /\ record \in [Ids -> Records] /\ seen \in [Ids -> Nat] /\ now \in Nat \ {0}
  BY CallKnown DEF IInv, Typed
<1>3. known[i] # 0 /\ i \notin quiet /\ i \in ToSet(order)   BY <1>1, <1>2 DEF Fresh, Silent, Present
<1>4. /\ CallsTyped' /\ Elsewhere(c)
      /\ call'[c].pc = "idle" \/ (call'[c].pc = "deleting" /\ call'[c].id = call[c].id)
  BY <1>1, <1>2, AfterGetEffect
<1> DEFINE r == [record[i] EXCEPT !.lastSeen = now]
<1>5. r \in Records /\ r.lastSeen = now /\ r.absEnd = record[i].absEnd   BY <1>2 DEF Records
<1>6. record' = [record EXCEPT ![i] = r]   BY <1>1, <1>2
<1> HIDE DEF r
<1>7. /\ record' \in [Ids -> Records] /\ record'[i] = r /\ seen'[i] = now /\ seen' \in [Ids -> Nat]
      /\ \A j \in Ids \ {i} : record'[j] = record[j] /\ seen'[j] = seen[j]
  BY <1>1, <1>2, <1>5, <1>6, SMTT(40)
<1>8. /\ Without(i) \in Seq(Ids) /\ IsInjective(Without(i)) /\ ToSet(Without(i)) = ToSet(order) \ {i}
      /\ Len(Without(i)) = Len(order) - 1
  BY <1>2, <1>3, ListFacts, WithoutOne
<1>9. /\ order' \in Seq(Ids) /\ IsInjective(order') /\ ToSet(order') = ToSet(Without(i)) \cup {i}
      /\ Len(order') = Len(Without(i)) + 1
  <2>1. i \notin ToSet(Without(i))   BY <1>8
  <2> QED BY <1>1, <1>2, <1>8, <2>1, AddedAtTheEnd
<1>10. ToSet(order') = ToSet(order) /\ Len(order') <= MaxSessions
  <2>1. ToSet(order') = ToSet(order)   BY <1>3, <1>8, <1>9
  <2>2. Len(order') = Len(order)   BY <1>8, <1>9, ListFacts
  <2> QED BY <2>1, <2>2, ListFacts
<1>11. Typed'   BY <1>1, <1>4, <1>7 DEF IInv, Typed, CallsTyped
<1>12. Listed'   BY <1>1, <1>9, <1>10, ListFacts DEF Listed
<1>13. Grows   BY <1>1, <1>2, <1>3, <1>7 DEF Grows, Limited
<1>14. CallsKept'
  <2>1. Onward(c)   BY <1>1, <1>4 DEF Onward
  <2> QED BY <1>1, <1>4, <1>13, <2>1, OnwardKeeps
<1>15. \A j \in Ids \ {i} : (Limited(j) /\ Accounted(j) /\ Silent(j))'
  <2>1. call'[c].pc \notin {"read", "touching"}   BY <1>4
  <2> QED BY <1>1, <1>2, <1>4, <1>7, <1>10, <1>13, <2>1, OthersSteady
<1>16. Limited(i)' /\ Accounted(i)' /\ Silent(i)'
  <2>1. ~Shared' /\ i \in ToSet(order')   BY <1>1, <1>3, <1>10 DEF Shared
  <2>2. Limited(i)'   BY <1>1, <1>2, <1>3, <1>5, <1>7 DEF Limited, Absolute
  <2> QED BY <1>1, <1>3, <2>1, <2>2 DEF Accounted, Silent
<1> QED BY <1>11, <1>12, <1>14, <1>15, <1>16 DEF IInv, CallsKept

LEMMA GetRefusesKeeps ==
  ASSUME IInv, NEW c \in Calls, NEW i \in Ids, i = call[c].id, GetRefuses(c)
  PROVE  IInv'
<1>1. /\ call[c].pc = "getting" /\ ~Shared /\ (Present(i) => Expired(record[i]))
      /\ order' = Without(i) /\ AfterGet(c, "refused")
      /\ UNCHANGED <<deployment, now, record, minted, known, loggedOut, removed, quiet, seen>>
  BY DEF GetRefuses
<1>2. i \in Ids /\ CallsTyped /\ Limited(i) /\ Accounted(i) /\ Silent(i)   BY CallKnown
<1>3. /\ CallsTyped' /\ Elsewhere(c)
      /\ call'[c].pc = "refused" \/ (call'[c].pc = "deleting" /\ call'[c].id = call[c].id)
  BY <1>1, <1>2, AfterGetEffect
<1>4. /\ order' \in Seq(Ids) /\ IsInjective(order') /\ ToSet(order') = ToSet(order) \ {i}
      /\ Len(order') <= MaxSessions
  <2>1. /\ order' \in Seq(Ids) /\ IsInjective(order') /\ ToSet(order') = ToSet(order) \ {i}
        /\ Len(order') <= Len(order)
    BY <1>1, <1>2, ListFacts, WithoutOne
  <2>2. Len(order') \in Nat   BY <2>1, LenProperties
  <2> QED BY <2>1, <2>2, ListFacts, Limits, SMTT(40)
<1>5. Typed'   BY <1>1, <1>3 DEF IInv, Typed, CallsTyped
<1>6. Listed'   BY <1>1, <1>4, ListFacts DEF Listed
<1>7. Grows   BY <1>1 DEF Grows, IInv, Typed
<1>8. CallsKept'
  <2>1. Onward(c)   BY <1>1, <1>3 DEF Onward
  <2> QED BY <1>1, <1>3, <1>7, <2>1, OnwardKeeps
<1>9. \A j \in Ids \ {i} : (Limited(j) /\ Accounted(j) /\ Silent(j))'
  <2>1. call'[c].pc \notin {"read", "touching"}   BY <1>3
  <2> QED BY <1>1, <1>2, <1>3, <1>4, <1>7, <2>1, OthersSteady
<1>10. Limited(i)' /\ Accounted(i)' /\ Silent(i)'
  <2>0. Shared' = Shared   BY <1>1 DEF Shared
  <2>1. Limited(i)'   BY <1>1, <1>2 DEF Limited, Absolute
  <2>2. Accounted(i)'
    <3>1. CASE Present(i)
      <4>1. now > record[i].absEnd \/ now - record[i].lastSeen > Idle   BY <1>1, <3>1 DEF Expired
      <4>2. record[i].absEnd - 0 = record[i].absEnd   BY CallKnown DEF Records
      <4> QED BY <1>1, <2>0, <4>1, <4>2 DEF Accounted, Idle
    <3>2. CASE ~Present(i)   BY <1>1, <1>2, <2>0, <3>2 DEF Accounted, Present, Idle
    <3> QED BY <3>1, <3>2
  <2>3. Silent(i)'
    <3>1. Present(i)' => Present(i)   BY <1>1, <1>4, <2>0 DEF Present
    <3>2. HoldsCopy(i)' => HoldsCopy(i)   BY <1>2, <1>3, HoldsLess
    <3> QED BY <1>1, <1>2, <3>1, <3>2 DEF Silent
  <2> QED BY <2>1, <2>2, <2>3
<1> QED BY <1>5, <1>6, <1>8, <1>9, <1>10 DEF IInv, CallsKept

\* What a lookup writes back: the record it read, seen when it was examined.
LEMMA WriteBackKeeps ==
  ASSUME IInv, NEW c \in Calls, NEW i \in Ids, i = call[c].id, call[c].pc = "touching", WriteBack(c),
         UNCHANGED <<deployment, now, order, minted, known, loggedOut, removed, quiet, seen>>,
         CallsTyped', Elsewhere(c), Onward(c),
         call'[c].pc \in {"read", "touching"} => call'[c].id = call[c].id
  PROVE  IInv'
<1> DEFINE span == call[c].ttl * TicksPerSecond
           r == Written(call[c].copy, call[c].at, call[c].ttl)
<1>1. /\ Fresh(c) /\ Carried(c) /\ Limited(i) /\ Silent(i) /\ seen[i] \in Nat /\ known[i] \in Nat
      /\ call[c].copy \in Records /\ call[c].at \in Nat /\ call[c].ttl \in Nat
      /\ record \in [Ids -> Records] /\ now \in Nat \ {0}
  BY CallKnown DEF IInv, Typed
<1>2. /\ known[i] # 0 /\ Shared /\ i \notin quiet /\ call[c].at <= seen[i] /\ seen[i] <= now
      /\ call[c].copy.absEnd = known[i] + Absolute
      /\ LongEnough(call[c].at, call[c].copy.absEnd, call[c].at + span)
  BY <1>1 DEF Fresh, Carried, Silent, HoldsCopy, Limited
<1>3. span \in Nat   BY <1>1, Limits
<1>4. /\ r \in Records /\ r.lastSeen = call[c].at /\ r.absEnd = known[i] + Absolute /\ r.keyEnd = now + span
  <2> HIDE DEF span
  <2>1. now + span \in Nat   BY <1>1, <1>3
  <2>2. r = [call[c].copy EXCEPT !.lastSeen = call[c].at, !.keyEnd = now + span]   BY DEF Written, span
  <2> HIDE DEF r
  <2> QED BY <1>1, <1>2, <2>1, <2>2 DEF Records
<1>5. record' = [record EXCEPT ![i] = r]   BY DEF WriteBack
<1>6. LongEnough(r.lastSeen, r.absEnd, r.keyEnd)
  <2> HIDE DEF span, r
  <2>1. now + span >= call[c].at + span   BY <1>1, <1>2, <1>3
  <2>2. \A x \in Nat : call[c].at + span >= x => now + span >= x   BY <1>1, <1>3, <2>1
  <2>3. CASE call[c].at + span >= call[c].at + Idle
    <3>1. call[c].at + Idle \in Nat   BY <1>1, Limits
    <3>2. now + span >= call[c].at + Idle   BY <2>2, <2>3, <3>1
    <3> QED BY <1>4, <3>2 DEF LongEnough
  <2>4. CASE call[c].at + span > call[c].copy.absEnd - TicksPerSecond
    <3>1. call[c].copy.absEnd \in Nat   BY <1>1 DEF Records
    <3>2. now + span > call[c].copy.absEnd - TicksPerSecond   BY <1>1, <1>3, <2>1, <2>4, <3>1, Limits
    <3> QED BY <1>2, <1>4, <3>2 DEF LongEnough
  <2> QED BY <1>2, <2>3, <2>4 DEF LongEnough
<1> HIDE DEF r, span
<1>7. /\ record' \in [Ids -> Records] /\ record'[i] = r
      /\ \A j \in Ids \ {i} : record'[j] = record[j]
  BY <1>1, <1>4, <1>5
<1>8. Typed' /\ Listed'   BY <1>7 DEF IInv, Typed, CallsTyped, Listed
<1>9. Grows   BY DEF Grows, IInv, Typed
<1>10. CallsKept'   BY <1>9, OnwardKeeps
<1>11. \A j \in Ids \ {i} : (Limited(j) /\ Accounted(j) /\ Silent(j))'
  BY <1>7, <1>9, OthersSteady
<1>12. Limited(i)' /\ Accounted(i)' /\ Silent(i)'
  <2>1. Shared' = Shared   BY DEF Shared
  <2>2. Limited(i)'   BY <1>1, <1>2, <1>4, <1>7 DEF Limited, Absolute
  <2>3. Accounted(i)'   BY <1>2, <1>6, <1>7, <2>1 DEF Accounted, LongEnough, Idle
  <2> QED BY <1>2, <2>2, <2>3 DEF Silent
<1> QED BY <1>8, <1>10, <1>11, <1>12 DEF IInv, CallsKept

LEMMA TouchKeeps ==
  ASSUME IInv, NEW c \in Calls, NEW i \in Ids, i = call[c].id, Touch(c)
  PROVE  IInv'
<1>1. /\ call[c].pc = "touching" /\ WriteBack(c) /\ AfterGet(c, "idle")
      /\ UNCHANGED <<deployment, now, order, minted, known, loggedOut, removed, quiet, seen>>
  BY DEF Touch
<1>2. /\ CallsTyped' /\ Elsewhere(c)
      /\ call'[c].pc = "idle" \/ (call'[c].pc = "deleting" /\ call'[c].id = call[c].id)
  BY <1>1, CallKnown, AfterGetEffect
<1>3. Onward(c)   BY <1>1, <1>2 DEF Onward
<1>4. call'[c].pc \notin {"read", "touching"}   BY <1>2
<1> QED BY <1>1, <1>2, <1>3, <1>4, WriteBackKeeps

\* A DEL of a session that a browser was given once.
LEMMA DropKeeps ==
  ASSUME IInv, NEW c \in Calls, NEW i \in Ids, i = call[c].id, call[c].pc \in {"purging", "deleting"}, Drop(c),
         UNCHANGED <<deployment, now, minted, known, seen>>, loggedOut' \subseteq Ids,
         CallsTyped', Elsewhere(c), Onward(c), call'[c].pc \notin {"read", "touching"}
  PROVE  IInv'
<1>1. /\ Fresh(c) /\ Limited(i) /\ Accounted(i) /\ Silent(i) /\ record[i] \in Records
      /\ record \in [Ids -> Records] /\ now \in Nat \ {0} /\ removed \subseteq Ids /\ quiet \subseteq Ids
  BY CallKnown DEF IInv, Typed
<1>2. /\ record' = [record EXCEPT ![i].keyEnd = 0] /\ order' = Without(i)
      /\ removed' = IF Present(i) THEN removed \cup {i} ELSE removed
      /\ quiet' = IF HoldsCopy(i) THEN quiet ELSE quiet \cup {i}
  BY DEF Drop
<1>3. known[i] # 0   BY <1>1 DEF Fresh
<1> DEFINE r == [record[i] EXCEPT !.keyEnd = 0]
<1>4. r \in Records /\ r.keyEnd = 0 /\ r.lastSeen = record[i].lastSeen /\ r.absEnd = record[i].absEnd
  BY <1>1 DEF Records
<1>5. record' = [record EXCEPT ![i] = r]   BY <1>1, <1>2
<1> HIDE DEF r
<1>6. /\ record' \in [Ids -> Records] /\ record'[i] = r /\ \A j \in Ids \ {i} : record'[j] = record[j]
      /\ removed \subseteq removed' /\ removed' \subseteq Ids /\ quiet' \subseteq Ids
      /\ \A j \in Ids \ {i} : j \in quiet' => j \in quiet
  BY <1>1, <1>2, <1>4, <1>5
<1>7. /\ order' \in Seq(Ids) /\ IsInjective(order') /\ ToSet(order') = ToSet(order) \ {i}
      /\ Len(order') <= MaxSessions
  <2>1. /\ order' \in Seq(Ids) /\ IsInjective(order') /\ ToSet(order') = ToSet(order) \ {i}
        /\ Len(order') <= Len(order)
    BY <1>2, ListFacts, WithoutOne
  <2>2. Len(order') \in Nat   BY <2>1, LenProperties
  <2> QED BY <2>1, <2>2, ListFacts, Limits, SMTT(40)
<1>8. Typed'   BY <1>6 DEF IInv, Typed, CallsTyped
<1>9. Listed'   BY <1>7, ListFacts DEF Listed
<1>10. Grows   BY DEF Grows, IInv, Typed
<1>11. CallsKept'   BY <1>10, OnwardKeeps
<1>12. \A j \in Ids \ {i} : (Limited(j) /\ Accounted(j) /\ Silent(j))'
  BY <1>6, <1>7, <1>10, OthersSteady
<1>13. Limited(i)' /\ Accounted(i)' /\ Silent(i)'
  <2>0. Shared' = Shared   BY DEF Shared
  <2>1. Limited(i)'   BY <1>1, <1>4, <1>6 DEF Limited, Absolute
  <2>2. Accounted(i)'
    <3>1. CASE Present(i)   BY <1>2, <3>1 DEF Accounted
    <3>2. CASE ~Present(i) /\ ~Shared   BY <1>1, <1>4, <1>6, <2>0, <3>2 DEF Accounted, Present, Idle
    <3>3. CASE ~Present(i) /\ Shared
      <4>1. record[i].keyEnd < now /\ record[i].lastSeen \in Nat /\ record[i].absEnd \in Nat /\ record[i].keyEnd \in Nat
        BY <1>1, <3>3 DEF Present, Records
      <4>2. LongEnough(record[i].lastSeen, record[i].absEnd, record[i].keyEnd) =>
              now - record[i].lastSeen > Idle \/ now > record[i].absEnd - TicksPerSecond
        BY <1>1, <4>1, Limits DEF LongEnough
      <4> QED BY <1>1, <1>3, <1>4, <1>6, <2>0, <3>3, <4>2 DEF Accounted, Idle
    <3> QED BY <3>1, <3>2, <3>3
  <2>3. Silent(i)'
    <3>1. ~Present(i)'   BY <1>1, <1>4, <1>6, <1>7 DEF Present
    <3>2. HoldsCopy(i)' => HoldsCopy(i)   BY HoldsLess
    <3>3. i \in quiet' => ~HoldsCopy(i)   BY <1>1, <1>2 DEF Silent
    <3> QED BY <1>3, <3>1, <3>2, <3>3 DEF Silent
  <2> QED BY <2>1, <2>2, <2>3
<1> QED BY <1>8, <1>9, <1>11, <1>12, <1>13 DEF IInv, CallsKept

LEMMA PurgeKeeps ==
  ASSUME IInv, NEW c \in Calls, NEW i \in Ids, i = call[c].id, Purge(c)
  PROVE  IInv'
<1>1. /\ call[c].pc = "purging" /\ Drop(c) /\ AfterGet(c, "refused")
      /\ UNCHANGED <<deployment, now, minted, known, seen>> /\ loggedOut' = loggedOut
  BY DEF Purge
<1>2. /\ CallsTyped' /\ Elsewhere(c)
      /\ call'[c].pc = "refused" \/ (call'[c].pc = "deleting" /\ call'[c].id = call[c].id)
  BY <1>1, CallKnown, AfterGetEffect
<1>3. Onward(c)   BY <1>1, <1>2 DEF Onward
<1>4. call'[c].pc \notin {"read", "touching"} /\ loggedOut' \subseteq Ids   BY <1>1, <1>2 DEF IInv, Typed
<1> QED BY <1>1, <1>2, <1>3, <1>4, DropKeeps

LEMMA DeleteKeeps ==
  ASSUME IInv, NEW c \in Calls, NEW i \in Ids, i = call[c].id, Delete(c)
  PROVE  IInv'
<1>1. /\ call[c].pc = "deleting" /\ Drop(c) /\ Return(c, "idle")
      /\ UNCHANGED <<deployment, now, minted, known, seen>> /\ loggedOut' = loggedOut \cup {i}
  BY DEF Delete
<1>2. CallsTyped' /\ Elsewhere(c) /\ call'[c].pc = "idle"   BY <1>1, CallKnown, ReturnEffect
<1>3. Onward(c)   BY <1>2 DEF Onward
<1>4. call'[c].pc \notin {"read", "touching"} /\ loggedOut' \subseteq Ids   BY <1>1, <1>2 DEF IInv, Typed
<1> QED BY <1>1, <1>2, <1>3, <1>4, DropKeeps

LEMMA ReplyLostKeeps ==
  ASSUME IInv, NEW c \in Calls, NEW i \in Ids, i = call[c].id, ReplyLost(c)
  PROVE  IInv'
<1>1. Shared /\ Failed(c) /\ UNCHANGED <<deployment, now, minted, known, loggedOut, seen>>   BY DEF ReplyLost
<1>2. /\ Fresh(c) /\ CallsTyped /\ Limited(i) /\ Silent(i) /\ record \in [Ids -> Records]
      /\ loggedOut \subseteq Ids
  BY CallKnown DEF IInv, Typed
<1>3. ASSUME call[c].pc \in Commands
      PROVE  /\ CallsTyped' /\ Elsewhere(c) /\ Onward(c)
             /\ call'[c].pc \in {"read", "touching"} => call'[c].id = call[c].id /\ call[c].pc = "touching"
  BY <1>1, <1>2, <1>3, FailedEffect
<1>4. CASE /\ call[c].pc = "storing" /\ record' = [record EXCEPT ![call[c].id] = Created(c)]
           /\ UNCHANGED <<order, removed, quiet>>
  <2>1. /\ CallsTyped' /\ Elsewhere(c) /\ Onward(c) /\ call'[c].pc \notin {"read", "touching"}
    BY <1>3, <1>4 DEF Commands
  <2>2. known[i] = 0 /\ i \notin quiet   BY <1>2, <1>4 DEF Fresh, Silent
  <2>3. record' \in [Ids -> Records] /\ \A j \in Ids \ {i} : record'[j] = record[j]
    BY <1>2, <1>4, CreatedTyped
  <2>4. Typed' /\ Listed'   BY <1>1, <1>4, <2>1, <2>3 DEF IInv, Typed, CallsTyped, Listed
  <2>5. Grows   BY <1>1 DEF Grows, IInv, Typed
  <2>6. CallsKept'   BY <1>1, <2>1, <2>5, OnwardKeeps
  <2>7. \A j \in Ids \ {i} : (Limited(j) /\ Accounted(j) /\ Silent(j))'
    BY <1>1, <1>4, <2>1, <2>3, <2>5, OthersSteady
  <2>8. Limited(i)' /\ Accounted(i)' /\ Silent(i)'
    BY <1>1, <1>2, <1>4, <2>2 DEF Limited, Accounted, Silent
  <2> QED BY <2>4, <2>6, <2>7, <2>8 DEF IInv, CallsKept
<1>5. CASE call[c].pc = "touching" /\ WriteBack(c) /\ UNCHANGED <<order, removed, quiet>>
  <2>1. /\ CallsTyped' /\ Elsewhere(c) /\ Onward(c)
        /\ call'[c].pc \in {"read", "touching"} => call'[c].id = call[c].id
    BY <1>3, <1>5 DEF Commands
  <2> QED BY <1>1, <1>5, <2>1, WriteBackKeeps
<1>6. CASE call[c].pc \in {"purging", "deleting"} /\ Drop(c)
  <2>1. /\ CallsTyped' /\ Elsewhere(c) /\ Onward(c) /\ call'[c].pc \notin {"read", "touching"}
    BY <1>3, <1>6 DEF Commands
  <2>2. loggedOut' \subseteq Ids   BY <1>1, <1>2
  <2> QED BY <1>1, <1>6, <2>1, <2>2, DropKeeps
<1> QED BY <1>4, <1>5, <1>6 DEF ReplyLost

LEMMA StutterKeeps == IInv /\ UNCHANGED vars => IInv'
<1> SUFFICES ASSUME IInv, UNCHANGED vars PROVE IInv'   OBVIOUS
<1>1. /\ deployment' = deployment /\ now' = now /\ record' = record /\ order' = order /\ call' = call
      /\ minted' = minted /\ known' = known /\ loggedOut' = loggedOut /\ removed' = removed
      /\ quiet' = quiet /\ seen' = seen
  BY DEF vars
<1>2. Typed' /\ Listed'   BY <1>1 DEF IInv, Typed, Listed
<1>3. \A c \in Calls : Fresh(c)' /\ Carried(c)'
  BY <1>1 DEF IInv, Fresh, Carried, Shared, LongEnough, Idle, Absolute
<1>4. \A i \in Ids : Limited(i)' /\ Accounted(i)' /\ Silent(i)'
  BY <1>1 DEF IInv, Limited, Accounted, Silent, Present, HoldsCopy, Shared, LongEnough, Idle, Absolute
<1> QED BY <1>2, <1>3, <1>4 DEF IInv

LEMMA StepKeeps == IInv /\ [Next]_vars => IInv'
<1> SUFFICES ASSUME IInv, [Next]_vars PROVE IInv'   OBVIOUS
<1>1. CASE UNCHANGED vars   BY <1>1, StutterKeeps
<1>2. CASE Tick   BY <1>2, TickKeeps
<1>3. ASSUME NEW c \in Calls, NEW i \in Ids, Mint(c, i) PROVE IInv'   BY <1>3, MintKeeps
<1>4. ASSUME NEW c \in Calls, NEW i \in Ids, NEW kind \in {"lookup", "logout"}, Request(c, i, kind) PROVE IInv'
  BY <1>4, RequestKeeps
<1>5. ASSUME NEW c \in Calls,
             \/ StoreInMemory(c) \/ StoreInRedis(c)
             \/ GetAccepts(c) \/ GetRefuses(c)
             \/ RedisGet(c) \/ Examine(c) \/ Touch(c) \/ Purge(c)
             \/ Delete(c) \/ CommandLost(c) \/ ReplyLost(c)
      PROVE  IInv'
  <2>1. PICK i \in Ids : i = call[c].id   BY CallKnown
  <2> QED BY <1>5, <2>1, StoreInMemoryKeeps, StoreInRedisKeeps, GetAcceptsKeeps, GetRefusesKeeps, RedisGetKeeps,
             ExamineKeeps, TouchKeeps, PurgeKeeps, DeleteKeeps, CommandLostKeeps, ReplyLostKeeps
<1> QED BY <1>1, <1>2, <1>3, <1>4, <1>5 DEF Next

LEMMA AlwaysIInv == Spec => []IInv
BY InitHolds, StepKeeps, PTL DEF Spec
-----------------------------------------------------------------------------
(***************************************************************************)
(* The theorems.                                                           *)
(***************************************************************************)
\* Records and calls stay well formed, and the in-memory store keeps within its
\* bound and lists no session twice (session.py, InMemorySessionStore).
THEOREM WellTyped == Spec => []TypeOK
<1>1. IInv => TypeOK   BY DEF IInv, Typed, Listed, TypeOK, CallRecords
<1> QED BY <1>1, AlwaysIInv, PTL

\* A logout answered 200 is final on every instance, whatever commands or replies
\* were lost and however calls overlap, unless a lookup held a copy when it deleted.
THEOREM LogoutIsFinal == Spec => []LogoutSticks
<1>1. IInv => LogoutSticks   BY DEF IInv, Typed, Silent, LogoutSticks
<1> QED BY <1>1, AlwaysIInv, PTL

\* A session is accepted within the absolute timeout of its creation and the idle
\* timeout of its last acceptance, even if stale copies are written back.
THEOREM NeverOutlived == Spec => AcceptedWithinLimits
<1> DEFINE P == \A i \in Ids : seen[i] # 0 /\ seen'[i] # seen[i] =>
                  /\ now <= known[i] + Absolute
                  /\ now - seen[i] <= Idle
<1>1. ASSUME IInv, Next, NEW i \in Ids, seen[i] # 0, seen'[i] # seen[i]
      PROVE  now <= known[i] + Absolute /\ now - seen[i] <= Idle
  <2>0. /\ Limited(i) /\ seen \in [Ids -> Nat] /\ record[i] \in Records /\ known[i] \in Nat /\ now \in Nat
        /\ seen[i] \in Nat
    BY <1>1 DEF IInv, Typed
  <2>1. known[i] # 0   BY <1>1, <2>0 DEF Limited
  <2>2. ASSUME NEW c \in Calls, SignedIn(c), call[c].pc = "storing" PROVE FALSE
    <3>1. Fresh(c) /\ call[c].id \in Ids   BY <1>1, CallKnown
    <3>2. call[c].id # i   BY <2>1, <2>2, <3>1 DEF Fresh
    <3> QED BY <1>1, <2>0, <2>2, <3>1, <3>2 DEF SignedIn
  <2>3. ASSUME NEW c \in Calls, GetAccepts(c) PROVE now <= known[i] + Absolute /\ now - seen[i] <= Idle
    <3>1. call[c].id = i /\ ~Expired(record[i])
      <4>1. seen' = [seen EXCEPT ![call[c].id] = now] /\ ~Expired(record[call[c].id])   BY <2>3 DEF GetAccepts
      <4> QED BY <1>1, <2>0, <4>1
    <3>2. record[i].lastSeen \in Nat /\ record[i].absEnd \in Nat   BY <2>0 DEF Records
    <3> QED BY <2>0, <2>1, <3>1, <3>2, Limits DEF Expired, Limited
  <2>4. ASSUME NEW c \in Calls, Examine(c) PROVE now <= known[i] + Absolute /\ now - seen[i] <= Idle
    <3>1. ~Expired(call[c].copy) /\ seen' = [seen EXCEPT ![call[c].id] = now] /\ call[c].pc = "read"
      <4>1. CASE Expired(call[c].copy)
        <5>1. seen' = seen   BY <2>4, <4>1 DEF Examine
        <5> QED BY <1>1, <5>1
      <4>2. CASE ~Expired(call[c].copy)   BY <2>4, <4>2 DEF Examine
      <4> QED BY <4>1, <4>2
    <3>2. call[c].id = i   BY <1>1, <2>0, <3>1
    <3>3. Carried(c) /\ call[c].copy \in Records   BY <1>1, CallKnown
    <3>4. call[c].copy.lastSeen \in Nat /\ call[c].copy.absEnd \in Nat   BY <3>3 DEF Records
    <3>5. call[c].copy.absEnd = known[i] + Absolute /\ call[c].copy.lastSeen <= seen[i]
      BY <3>1, <3>2, <3>3 DEF Carried
    <3> QED BY <2>0, <3>1, <3>4, <3>5, Limits DEF Expired
  <2>5. ASSUME seen' = seen PROVE FALSE   BY <1>1, <2>5
  <2>6. CASE Tick   BY <2>5, <2>6 DEF Tick
  <2>7. CASE \E c \in Calls, j \in Ids : Mint(c, j) \/ \E kind \in {"lookup", "logout"} : Request(c, j, kind)
    BY <2>5, <2>7 DEF Mint, Request
  <2>8. CASE \E c \in Calls : StoreInMemory(c) \/ StoreInRedis(c)
    BY <2>2, <2>8 DEF StoreInMemory, StoreInRedis
  <2>9. CASE \E c \in Calls : GetAccepts(c) \/ Examine(c)   BY <2>3, <2>4, <2>9
  <2>10. CASE \E c \in Calls : \/ GetRefuses(c) \/ RedisGet(c) \/ Touch(c) \/ Purge(c)
                               \/ Delete(c) \/ CommandLost(c) \/ ReplyLost(c)
    BY <2>5, <2>10 DEF GetRefuses, RedisGet, Touch, Purge, Delete, CommandLost, ReplyLost
  <2> QED BY <1>1, <2>6, <2>7, <2>8, <2>9, <2>10 DEF Next
<1>2. IInv /\ [Next]_vars => [P]_seen
  <2> SUFFICES ASSUME IInv, [Next]_vars PROVE [P]_seen   OBVIOUS
  <2>1. CASE Next   BY <1>1, <2>1
  <2>2. CASE UNCHANGED vars   BY <2>2 DEF vars
  <2> QED BY <2>1, <2>2
<1> QED BY <1>2, AlwaysIInv, PTL DEF Spec, AcceptedWithinLimits

\* A caller is told to sign in again only if the session was deleted or evicted, or
\* is past its limits, with Redis up to a second early: never because a command failed.
THEOREM RefusalHasAReason == Spec => RefusedForAReason
<1> DEFINE Reason(i) == \/ i \in removed'
                        \/ now - record[i].lastSeen > Idle
                        \/ now > record[i].absEnd - (IF Shared THEN TicksPerSecond ELSE 0)
           P == \A c \in Calls : ~Free(c) /\ call'[c].pc = "refused" =>
                  LET i == call[c].id
                  IN  \/ i \in removed'
                      \/ now - record[i].lastSeen > Idle
                      \/ now > record[i].absEnd - (IF Shared THEN TicksPerSecond ELSE 0)
<1>1. ASSUME IInv, Next, NEW c \in Calls, ~Free(c), call'[c].pc = "refused" PROVE Reason(call[c].id)
  <2>0. /\ Fresh(c) /\ Carried(c) /\ CallsTyped /\ Accounted(call[c].id) /\ record[call[c].id] \in Records
        /\ call[c].id \in Ids /\ now \in Nat \ {0}
    BY <1>1, CallKnown DEF IInv, Typed
  <2>1. ASSUME NEW d \in Calls, Elsewhere(d), call'[d].pc # "refused" PROVE FALSE
    BY <1>1, <2>1 DEF Elsewhere, Free
  <2>2. ASSUME NEW d \in Calls, Elsewhere(d) PROVE d = c
    BY <1>1, <2>2 DEF Elsewhere, Free
  <2>3. ASSUME ~Present(call[c].id), known[call[c].id] # 0, removed \subseteq removed'
        PROVE  Reason(call[c].id)
    <3>1. PICK r : r = record[call[c].id]   OBVIOUS
    <3>2. r.lastSeen \in Nat /\ r.absEnd \in Nat /\ r.keyEnd \in Nat   BY <2>0, <3>1 DEF Records
    <3>3. CASE ~Shared   BY <2>0, <2>3, <3>3 DEF Accounted, Present
    <3>4. CASE Shared
      <4>1. r.keyEnd < now   BY <2>0, <2>3, <3>1, <3>2, <3>4 DEF Present
      <4>2. LongEnough(r.lastSeen, r.absEnd, r.keyEnd) => now - r.lastSeen > Idle \/ now > r.absEnd - TicksPerSecond
        BY <2>0, <3>2, <4>1, Limits DEF LongEnough
      <4> QED BY <2>0, <2>3, <3>1, <3>4, <4>2 DEF Accounted
    <3> QED BY <3>3, <3>4
  <2>4. ASSUME NEW d \in Calls, NEW pc \in {"idle", "refused"}, AfterGet(d, pc) PROVE Elsewhere(d) /\ (call'[d].pc = pc \/ call'[d].pc = "deleting")
    BY <2>0, <2>4, AfterGetEffect
  <2>5. ASSUME NEW d \in Calls, NEW i \in Ids, Mint(d, i) \/ \E kind \in {"lookup", "logout"} : Request(d, i, kind) PROVE FALSE
    <3>1. CallsTyped /\ d \in Calls   BY <2>0
    <3>2. Elsewhere(d) /\ call'[d].pc \in {"storing", "getting"}
      <4>2. NoCall \in CallRecords   BY NoCallTyped
      <4>3. CASE Mint(d, i)
        <5>1. PICK x : x = [NoCall EXCEPT !.pc = "storing", !.kind = "login", !.id = i, !.at = now]
          OBVIOUS
        <5>2. x.pc = "storing"   BY <4>2, <5>1 DEF CallRecords
        <5>3. call' = [call EXCEPT ![d] = x]   BY <4>3, <5>1 DEF Mint
        <5> QED BY <3>1, <5>2, <5>3 DEF CallsTyped, Elsewhere
      <4>4. CASE \E kind \in {"lookup", "logout"} : Request(d, i, kind)
        <5>1. PICK kind \in {"lookup", "logout"} : Request(d, i, kind)   BY <4>4
        <5>2. PICK x : x = [NoCall EXCEPT !.kind = kind, !.pc = "getting", !.id = i]   OBVIOUS
        <5>3. x.pc = "getting"   BY <4>2, <5>2 DEF CallRecords
        <5>4. call' = [call EXCEPT ![d] = x]   BY <5>1, <5>2 DEF Request
        <5> QED BY <3>1, <5>3, <5>4 DEF CallsTyped, Elsewhere
      <4> QED BY <2>5, <4>3, <4>4
    <3> QED BY <2>1, <3>2
  <2>6. ASSUME NEW d \in Calls, StoreInMemory(d) \/ StoreInRedis(d) \/ Delete(d) PROVE FALSE
    <3>1. Return(d, "idle")   BY <2>6 DEF StoreInMemory, StoreInRedis, SignedIn, Delete
    <3>2. Elsewhere(d) /\ call'[d].pc = "idle"   BY <2>0, <3>1, ReturnEffect
    <3> QED BY <2>1, <3>2
  <2>7. ASSUME NEW d \in Calls, GetAccepts(d) \/ Touch(d) PROVE FALSE
    <3>1. AfterGet(d, "idle")   BY <2>7 DEF GetAccepts, Touch
    <3>2. Elsewhere(d) /\ (call'[d].pc = "idle" \/ call'[d].pc = "deleting")   BY <2>4, <3>1
    <3> QED BY <2>1, <3>2
  <2>8. ASSUME NEW d \in Calls, CommandLost(d) \/ ReplyLost(d) PROVE FALSE
    <3>1. Failed(d) /\ call[d].pc \in Commands   BY <2>8 DEF CommandLost, ReplyLost, Commands
    <3>2. Fresh(d)   BY <1>1, CallKnown
    <3>3. Elsewhere(d) /\ call'[d].pc # "refused"   BY <2>0, <3>1, <3>2, FailedEffect
    <3> QED BY <2>1, <3>3
  <2>9. ASSUME NEW d \in Calls, GetRefuses(d) PROVE Reason(call[c].id)
    <3>1. /\ AfterGet(d, "refused") /\ ~Shared /\ call[d].pc = "getting"
          /\ Present(call[d].id) => Expired(record[call[d].id])
          /\ removed' = removed
      BY <2>9 DEF GetRefuses
    <3>2. d = c   BY <2>2, <2>4, <3>1
    <3>3. known[call[c].id] # 0   BY <2>0, <3>1, <3>2 DEF Fresh
    <3>4. CASE Present(call[c].id)
      <4>1. record[call[c].id].absEnd - 0 = record[call[c].id].absEnd   BY <2>0 DEF Records
      <4> QED BY <3>1, <3>2, <3>4, <4>1 DEF Expired
    <3>5. CASE ~Present(call[c].id)   BY <2>3, <3>1, <3>3, <3>5
    <3> QED BY <3>4, <3>5
  <2>10. ASSUME NEW d \in Calls, RedisGet(d) PROVE Reason(call[c].id)
    <3>1. call[d].pc = "getting" /\ removed' = removed   BY <2>10 DEF RedisGet
    <3>2. CASE Present(call[d].id)
      <4>1. call' = [call EXCEPT ![d] = [call[d] EXCEPT !.pc = "read", !.copy = record[call[d].id], !.tries = 0]]
        BY <2>0, <2>10, <3>2 DEF RedisGet, CallsTyped
      <4>2. call[d] \in CallRecords   BY <2>0 DEF CallsTyped
      <4>3. [call[d] EXCEPT !.pc = "read", !.copy = record[call[d].id], !.tries = 0].pc = "read"
        BY <4>2 DEF CallRecords
      <4>4. Elsewhere(d) /\ call'[d].pc = "read"   BY <2>0, <4>1, <4>3 DEF CallsTyped, Elsewhere
      <4> QED BY <2>1, <4>4
    <3>3. CASE ~Present(call[d].id)
      <4>1. AfterGet(d, "refused")   BY <2>10, <3>3 DEF RedisGet
      <4>2. d = c   BY <2>2, <2>4, <4>1
      <4>3. known[call[c].id] # 0   BY <2>0, <3>1, <4>2 DEF Fresh
      <4> QED BY <2>3, <3>1, <3>3, <4>2, <4>3
    <3> QED BY <3>2, <3>3
  <2>11. ASSUME NEW d \in Calls, Examine(d) PROVE FALSE
    <3>1. CASE Goto(d, "purging")
      <4>1. Elsewhere(d) /\ call'[d].pc = "purging"   BY <2>0, <3>1, GotoEffect
      <4> QED BY <2>1, <4>1
    <3>2. CASE AfterGet(d, "idle")
      <4>1. Elsewhere(d) /\ (call'[d].pc = "idle" \/ call'[d].pc = "deleting")   BY <2>4, <3>2
      <4> QED BY <2>1, <4>1
    <3>3. CASE \E ttl : call' = [call EXCEPT ![d] = [call[d] EXCEPT !.pc = "touching", !.at = now, !.ttl = ttl]]
      <4>1. PICK ttl : call' = [call EXCEPT ![d] = [call[d] EXCEPT !.pc = "touching", !.at = now, !.ttl = ttl]]
        BY <3>3
      <4>2. call[d] \in CallRecords   BY <2>0 DEF CallsTyped
      <4>3. [call[d] EXCEPT !.pc = "touching", !.at = now, !.ttl = ttl].pc = "touching"   BY <4>2 DEF CallRecords
      <4>4. Elsewhere(d) /\ call'[d].pc = "touching"   BY <2>0, <4>1, <4>3 DEF CallsTyped, Elsewhere
      <4> QED BY <2>1, <4>4
    <3> QED BY <2>0, <2>11, <3>1, <3>2, <3>3 DEF Examine, CallsTyped
  <2>12. ASSUME NEW d \in Calls, Purge(d) PROVE Reason(call[c].id)
    <3>1. /\ AfterGet(d, "refused") /\ call[d].pc = "purging" /\ removed \subseteq removed'
          /\ Present(call[d].id) => call[d].id \in removed'
      BY <2>12 DEF Purge, Drop
    <3>2. d = c   BY <2>2, <2>4, <3>1
    <3>3. known[call[c].id] # 0   BY <2>0, <3>1, <3>2 DEF Fresh
    <3> QED BY <2>3, <3>1, <3>2, <3>3
  <2>13. CASE Tick   BY <1>1, <2>13 DEF Tick, Free
  <2> QED BY <1>1, <2>5, <2>6, <2>7, <2>8, <2>9, <2>10, <2>11, <2>12, <2>13 DEF Next
<1>2. IInv /\ [Next]_vars => [P]_call
  <2> SUFFICES ASSUME IInv, [Next]_vars PROVE [P]_call   OBVIOUS
  <2>1. CASE Next   BY <1>1, <2>1
  <2>2. CASE UNCHANGED vars   BY <2>2 DEF vars
  <2> QED BY <2>1, <2>2
<1> QED BY <1>2, AlwaysIInv, PTL DEF Spec, RefusedForAReason
-----------------------------------------------------------------------------
\* In memory nobody holds a copy, so every session a logout deleted was deleted quietly.
QuietInMemory == ~Shared => loggedOut \subseteq quiet

\* With the in-memory store a logout is final however calls overlap: get() and delete()
\* each hold the lock, and nothing is written back (InMemorySessionStore).
THEOREM LogoutInMemoryIsFinal == Spec /\ []~Shared => []LogoutIsSeenEverywhere
<1>1. Init => QuietInMemory   BY SMTT(40) DEF Init, QuietInMemory
<1>2. IInv /\ QuietInMemory /\ [Next]_vars => QuietInMemory'
  <2> SUFFICES ASSUME IInv, QuietInMemory, [Next]_vars, ~Shared' PROVE loggedOut' \subseteq quiet'
    BY DEF QuietInMemory
  <2>1. ~Shared
    BY DEF Next, vars, Tick, Mint, Request, StoreInMemory, StoreInRedis, GetAccepts, GetRefuses, RedisGet,
       Examine, Touch, Purge, Delete, CommandLost, ReplyLost, Shared
  <2>2. CASE UNCHANGED <<loggedOut, quiet>>   BY <2>1, <2>2 DEF QuietInMemory
  <2>3. ASSUME NEW c \in Calls, Purge(c) PROVE FALSE   BY <2>1, <2>3 DEF Purge, IInv, Carried
  <2>4. ASSUME NEW c \in Calls, Delete(c) PROVE loggedOut' \subseteq quiet'
    <3>1. ~HoldsCopy(call[c].id)   BY <2>1 DEF HoldsCopy, IInv, Carried
    <3> QED BY <2>1, <2>4, <3>1 DEF QuietInMemory, Delete, Drop
  <2> QED BY <2>1, <2>2, <2>3, <2>4, ZenonT(40)
       DEF Next, vars, Tick, Mint, Request, StoreInMemory, StoreInRedis, GetAccepts, GetRefuses, RedisGet,
           Examine, Touch, CommandLost, ReplyLost
<1>3. IInv /\ QuietInMemory /\ ~Shared => LogoutIsSeenEverywhere
  BY DEF IInv, Typed, Silent, QuietInMemory, LogoutIsSeenEverywhere
<1> QED BY <1>1, <1>2, <1>3, AlwaysIInv, PTL DEF Spec
=============================================================================
